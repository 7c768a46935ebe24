---------------------------- MODULE TradeFlowProofs ----------------------------
(***************************************************************************)
(* Proofs about TradeFlow, for any number of signals, dashboards, requests *)
(* and workers.  The composition is a behaviour of TradeExecution, so what  *)
(* is proved of the tasks holds of them behind the API too; what the store  *)
(* promises rests on two invariants of the composition.                    *)
(***************************************************************************)
EXTENDS TradeFlow, TradeExecutionProofs, FiniteSetTheorems

Cards == {"card", "executing", "failed"}
Entries == Cards \cup {"absent", "result"}
Message == [sig: Signals, kind: {"card", "result"}]

\* A request in flight carries a card of a signal.
Carried(q) == q = API!NoRequest \/ q \in [sig: Signals, kind: Cards, held: BOOLEAN]

FlowTypes ==
  /\ active \in [Signals -> Entries]
  /\ connected \subseteq Conns
  /\ inbox \in [Conns -> Seq(Message)]
  /\ request = [r \in Requests |-> request[r]]
  /\ \A r \in Requests : Carried(request[r])
  /\ alerted \subseteq Signals
  /\ skipped \subseteq Signals
  /\ sent \in [Signals -> SUBSET Cards]

\* What no message is about and no task works on.
Mentions(q, s) == {i \in DOMAIN q : q[i].sig = s}

OnlyDispatchedRun ==
  \A s \in Signals : dispatched[s] = 0 =>
    /\ \A n \in 0..MAX_TASK_RETRIES : queue[s][n] = 0
    /\ \A w \in Workers : run[w].sig # s

\* The life of a signal that was never dispatched, with one dashboard: one message at
\* most, which comes before the entry in the store and never after it.
InOrder(s, c) ==
  /\ \A i, j \in Mentions(inbox[c], s) : i = j
  /\ Mentions(inbox[c], s) # {} => s \in alerted /\ active[s] = "absent" /\ s \notin skipped
  /\ active[s] # "absent" => s \in alerted /\ s \notin skipped
  /\ s \in skipped => s \in alerted
  /\ \A r \in Requests : request[r].held /\ request[r].sig = s => active[s] # "absent"

OneDashboard == \A c \in Conns : Conns = {c} =>
  \A s \in Signals : dispatched[s] = 0 => InOrder(s, c)

FlowInv == FlowTypes /\ IInv /\ OnlyDispatchedRun /\ OneDashboard

-----------------------------------------------------------------------------
(* Every step of the composition is a step of the tasks, or leaves them alone *)

\* A request in flight is about a signal and carries a card.
LEMMA RequestCarries ==
  ASSUME FlowTypes, NEW r \in Requests, request[r] # API!NoRequest
  PROVE  /\ request[r].sig \in Signals
         /\ request[r].kind \in Cards
         /\ request[r].held \in BOOLEAN
BY DEF FlowTypes, Carried

\* Confirm dispatches, the rest of the API leaves the tasks alone, the worker works.
LEMMA TaskStep == FlowTypes /\ [FlowNext]_flowVars => [Next]_vars
<1>1. SUFFICES ASSUME FlowTypes, [FlowNext]_flowVars PROVE [Next]_vars
  OBVIOUS
<1>2. CASE UNCHANGED flowVars
  BY <1>2 DEF flowVars
<1>3. CASE API!Local /\ UNCHANGED <<vars, sent>>
  BY <1>3
<1>4. ASSUME NEW r \in Requests, DispatchRequest(r) PROVE [Next]_vars
  <2>1. request[r] # API!NoRequest
    BY <1>4 DEF DispatchRequest, API!Executing, API!Mark
  <2> QED
    BY <1>1, <1>4, <2>1, RequestCarries DEF DispatchRequest, Next
<1>5. ASSUME NEW w \in Workers,
             PublishExecutionResult(w) \/ PublishFailure(w) \/ WorkAlone(w)
      PROVE  [Next]_vars
  BY <1>5 DEF PublishExecutionResult, PublishFailure, WorkAlone, Next, Work
<1> QED
  BY <1>1, <1>2, <1>3, <1>4, <1>5 DEF FlowNext

-----------------------------------------------------------------------------
(* Types *)

\* Replacing an entry leaves every request with what it carries.
LEMMA StoreTyped ==
  ASSUME FlowTypes, NEW s \in Signals, NEW e \in Entries, API!Store(s, e)
  PROVE  /\ active' \in [Signals -> Entries]
         /\ request' = [r \in Requests |-> request'[r]]
         /\ \A r \in Requests : Carried(request'[r])
<1>1. active' \in [Signals -> Entries] /\ request' = [r \in Requests |-> request'[r]]
  BY DEF FlowTypes, API!Store
<1>2. ASSUME NEW r \in Requests PROVE Carried(request'[r])
  <2>1. Carried(request[r])
    BY DEF FlowTypes
  <2>2. CASE request[r].sig # s
    BY <2>1, <2>2 DEF API!Store
  <2>3. CASE request[r].sig = s
    <3>1. request'[r] = [request[r] EXCEPT !.held = FALSE]
      BY <2>3 DEF API!Store
    <3>2. request[r] # API!NoRequest
      BY <2>3, RetriesAssumption DEF API!NoRequest
    <3> QED
      BY <2>1, <3>1, <3>2 DEF Carried
  <2> QED
    BY <2>2, <2>3
<1> QED
  BY <1>1, <1>2

\* A message sent to the connected dashboards is one.
LEMMA BroadcastTyped ==
  ASSUME FlowTypes, NEW s \in Signals, NEW k \in {"card", "result"}, API!Broadcast(s, k)
  PROVE  inbox' \in [Conns -> Seq(Message)]
<1> DEFINE m == [sig |-> s, kind |-> k]
<1>1. m \in Message
  BY DEF Message
<1>2. ASSUME NEW c \in Conns PROVE inbox[c] \in Seq(Message) /\ Append(inbox[c], m) \in Seq(Message)
  BY <1>1 DEF FlowTypes
<1> HIDE DEF m
<1>3. inbox' = [c \in Conns |-> IF c \in connected THEN Append(inbox[c], m) ELSE inbox[c]]
  BY DEF API!Broadcast, m
<1> QED
  BY <1>2, <1>3

\* Marking a request's card marks the store's, when it is the same dictionary.
LEMMA MarkTyped ==
  ASSUME FlowTypes, NEW r \in Requests, NEW e \in Cards, API!Mark(r, e)
  PROVE  /\ active' \in [Signals -> Entries]
         /\ request' = [q \in Requests |-> request'[q]]
         /\ \A q \in Requests : Carried(request'[q])
         /\ UNCHANGED <<connected, inbox, alerted, skipped>>
<1>1. request[r] # API!NoRequest /\ request[r].sig \in Signals
  BY RequestCarries DEF API!Mark
<1>2. active' \in [Signals -> Entries]
  BY <1>1 DEF FlowTypes, API!Mark, Entries
<1>3. request' = [request EXCEPT ![r] = API!NoRequest]
  BY DEF API!Mark
<1> QED
  BY <1>2, <1>3 DEF FlowTypes, Carried, API!Mark

\* The endpoints and the alert stream keep the types.
LEMMA LocalTyped ==
  ASSUME FlowTypes, API!Local, UNCHANGED <<vars, sent>>
  PROVE  FlowTypes'
<1>1. ASSUME NEW s \in Signals, API!PublishAlert(s) PROVE FlowTypes'
  BY <1>1, BroadcastTyped DEF API!PublishAlert, FlowTypes
<1>2. ASSUME NEW s \in Signals, API!Skip(s) \/ API!Expire(s) PROVE FlowTypes'
  <2>1. API!Store(s, "absent") /\ "absent" \in Entries
    BY <1>2 DEF API!Skip, API!Expire, Entries
  <2> QED
    BY <1>2, <2>1, StoreTyped DEF API!Skip, API!Expire, FlowTypes
<1>3. ASSUME NEW c \in Conns, API!Connect(c) \/ API!Disconnect(c) PROVE FlowTypes'
  <2>1. <<>> \in Seq(Message)
    OBVIOUS
  <2>2. inbox' \in [Conns -> Seq(Message)] /\ connected' \subseteq Conns
    BY <1>3, <2>1 DEF API!Connect, API!Disconnect, FlowTypes
  <2> QED
    BY <1>3, <2>2 DEF API!Connect, API!Disconnect, FlowTypes
<1>4. ASSUME NEW c \in Conns, API!Receive(c) PROVE FlowTypes'
  <2>1. inbox[c] \in Seq(Message) /\ inbox[c] # <<>>
    BY <1>4 DEF FlowTypes, API!Receive
  <2>2. Head(inbox[c]) \in Message /\ Tail(inbox[c]) \in Seq(Message)
    BY <2>1
  <2>3. Head(inbox[c]).sig \in Signals /\ Head(inbox[c]).kind \in Entries
    BY <2>2 DEF Message, Entries, Cards
  <2>4. inbox' \in [Conns -> Seq(Message)]
    BY <1>4, <2>2 DEF FlowTypes, API!Receive
  <2> QED
    BY <1>4, <2>3, <2>4, StoreTyped DEF API!Receive, FlowTypes
<1>5. ASSUME NEW r \in Requests, NEW s \in Signals, API!Confirm(r, s) PROVE FlowTypes'
  <2>1. active[s] \in Cards
    BY <1>5 DEF API!Confirm, API!Sizeable, Cards
  <2>2. request' = [request EXCEPT ![r] = API!Pending(s, active[s])]
    BY <1>5 DEF API!Confirm
  <2>3. Carried(API!Pending(s, active[s]))
    BY <2>1 DEF Carried, API!Pending
  <2>4. /\ request' = [q \in Requests |-> request'[q]]
        /\ \A q \in Requests : Carried(request'[q])
    BY <2>2, <2>3 DEF FlowTypes
  <2> QED
    BY <1>5, <2>4 DEF API!Confirm, FlowTypes
<1>6. ASSUME NEW r \in Requests, API!DispatchFails(r) PROVE FlowTypes'
  <2>1. API!Mark(r, "failed") /\ "failed" \in Cards
    BY <1>6 DEF API!DispatchFails, Cards
  <2> QED
    BY <2>1, MarkTyped DEF FlowTypes
<1>7. CASE API!Restart
  <2>1. \A c \in Conns : <<>> \in Seq(Message)
    OBVIOUS
  <2> QED
    BY <1>7, <2>1 DEF API!Restart, FlowTypes, Entries, Carried
<1> QED
  BY <1>1, <1>2, <1>3, <1>4, <1>5, <1>6, <1>7 DEF API!Local

\* Whatever is dispatched was carried by a request.
LEMMA DispatchTyped ==
  ASSUME FlowTypes, NEW r \in Requests, DispatchRequest(r)
  PROVE  FlowTypes'
<1>1. API!Mark(r, "executing") /\ "executing" \in Cards
  BY DEF DispatchRequest, API!Executing, Cards
<1>2. request[r].sig \in Signals /\ request[r].kind \in Cards
  BY <1>1, RequestCarries DEF API!Mark
<1>3. sent' \in [Signals -> SUBSET Cards]
  BY <1>2 DEF DispatchRequest, FlowTypes
<1> QED
  BY <1>1, <1>3, MarkTyped DEF FlowTypes

\* A run at work is about a signal, so its event is a message.
LEMMA EventTyped ==
  ASSUME FlowTypes, TypeOK, NEW w \in Workers, run[w].at # "idle",
         API!PublishResult(run[w].sig), UNCHANGED sent
  PROVE  FlowTypes' /\ run[w].sig \in Signals
<1>1. run[w].sig \in Signals
  BY DEF TypeOK
<1> QED
  BY <1>1, BroadcastTyped DEF API!PublishResult, FlowTypes

LEMMA FlowTypesStep == FlowTypes /\ TypeOK /\ [FlowNext]_flowVars => FlowTypes'
<1>1. SUFFICES ASSUME FlowTypes, TypeOK, [FlowNext]_flowVars PROVE FlowTypes'
  OBVIOUS
<1>2. CASE UNCHANGED flowVars
  BY <1>1, <1>2 DEF flowVars, store, FlowTypes
<1>3. CASE API!Local /\ UNCHANGED <<vars, sent>>
  BY <1>1, <1>3, LocalTyped
<1>4. ASSUME NEW r \in Requests, DispatchRequest(r) PROVE FlowTypes'
  BY <1>1, <1>4, DispatchTyped
<1>5. ASSUME NEW w \in Workers, PublishExecutionResult(w) \/ PublishFailure(w)
      PROVE  FlowTypes'
  BY <1>1, <1>5, EventTyped
     DEF PublishExecutionResult, PublishFailure, PublishResult, RetryTask
<1>6. ASSUME NEW w \in Workers, WorkAlone(w) PROVE FlowTypes'
  BY <1>1, <1>6 DEF WorkAlone, store, FlowTypes
<1> QED
  BY <1>1, <1>2, <1>3, <1>4, <1>5, <1>6 DEF FlowNext

-----------------------------------------------------------------------------
(* A signal nobody dispatched *)

\* A worker that goes on or stops keeps its signal or drops it, and queues no other.
LEMMA WorkKeepsSignal ==
  ASSUME TypeOK, NEW w \in Workers, Work(w) \/ LoseWorker(w), ~Take(w)
  PROVE  /\ \A v \in Workers : run'[v].sig \in {run[v].sig, NoSignal}
         /\ \A t \in Signals : t # run[w].sig => queue'[t] = queue[t]
<1>1. run \in [Workers -> RunType] /\ queue \in [Signals -> [0..MAX_TASK_RETRIES -> Nat]]
  BY DEF TypeOK, RunType
<1>2. ASSUME NEW r, r.sig \in {run[w].sig, NoSignal}, Become(w, r)
      PROVE  \A v \in Workers : run'[v].sig \in {run[v].sig, NoSignal}
  BY <1>1, <1>2 DEF Become
<1>3. ASSUME NEW at, Advance(w, at)
      PROVE  \A v \in Workers : run'[v].sig \in {run[v].sig, NoSignal}
  BY <1>1, <1>3 DEF Become, Advance, RunType
<1>4. ASSUME NEW n, Enqueue(run[w].sig, n)
      PROVE  \A t \in Signals : t # run[w].sig => queue'[t] = queue[t]
  BY <1>1, <1>4 DEF Enqueue
<1>5. CASE Prepare(w) \/ SetupFails(w) \/ ReportFailure(w) \/ RecordEntry(w)
           \/ RegisterPosition(w) \/ PublishResult(w) \/ Finish(w)
  BY <1>3, <1>5
     DEF Prepare, SetupFails, ReportFailure, RecordEntry, RegisterPosition, PublishResult, Finish
<1>6. CASE RetryTask(w)
  BY <1>3, <1>4, <1>6 DEF RetryTask
<1>7. CASE Acknowledge(w) \/ LoseWorker(w)
  <2>1. Idle.sig = NoSignal
    BY DEF Idle, Run
  <2> QED
    BY <1>2, <1>4, <1>7, <2>1 DEF Acknowledge, LoseWorker
<1>8. CASE SubmitRaises(w)
  <2>1. Retry(w) /\ UNCHANGED queue
    BY <1>8 DEF SubmitRaises
  <2> DEFINE r == [run[w] EXCEPT !.attempt = @ + 1]
  <2>2. r.sig = run[w].sig
    BY <1>1 DEF RunType
  <2>3. Become(w, r) \/ \E at : Advance(w, at)
    BY <2>1 DEF Retry, GiveUp
  <2> HIDE DEF r
  <2> QED
    BY <1>2, <1>3, <2>1, <2>2, <2>3
<1>9. CASE SubmitOk(w)
  BY <1>1, <1>9 DEF SubmitOk, Become, RunType
<1> QED
  BY <1>5, <1>6, <1>7, <1>8, <1>9 DEF Work

\* What was not dispatched before a step was not dispatched after it either, unless the
\* step dispatches; and only a dispatched signal is queued or run.
LEMMA DispatchedStep ==
  ASSUME TypeOK, OnlyDispatchedRun, [Next]_vars
  PROVE  /\ OnlyDispatchedRun'
         /\ \A s \in Signals : dispatched'[s] = 0 => dispatched[s] = 0
<1> DEFINE Untouched(s) ==
      /\ \A n \in 0..MAX_TASK_RETRIES : queue[s][n] = 0
      /\ \A w \in Workers : run[w].sig # s
<1>1. SUFFICES ASSUME NEW s \in Signals, dispatched'[s] = 0
               PROVE  /\ dispatched[s] = 0
                      /\ \A n \in 0..MAX_TASK_RETRIES : queue'[s][n] = 0
                      /\ \A w \in Workers : run'[w].sig # s
  BY DEF OnlyDispatchedRun
<1>2. dispatched[s] = 0 => Untouched(s)
  BY DEF OnlyDispatchedRun
<1>3. /\ queue \in [Signals -> [0..MAX_TASK_RETRIES -> Nat]]
      /\ dispatched \in [Signals -> Nat]
      /\ \A w \in Workers : run[w].at = "idle" <=> run[w].sig = NoSignal
      /\ run = [w \in Workers |-> run[w]]
  BY DEF TypeOK
<1>4. CASE UNCHANGED vars
  BY <1>1, <1>2, <1>4 DEF vars
<1>5. ASSUME NEW t \in Signals, Dispatch(t)
      PROVE  dispatched[s] = 0 /\ Untouched(s)'
  <2>1. t # s /\ dispatched[s] = 0
    BY <1>1, <1>3, <1>5 DEF Dispatch
  <2>2. queue'[s] = queue[s]
    BY <1>3, <1>5, <2>1 DEF Dispatch, Enqueue
  <2> QED
    BY <1>2, <1>5, <2>1, <2>2 DEF Dispatch
<1>6. ASSUME NEW w \in Workers, Work(w) \/ LoseWorker(w)
      PROVE  dispatched[s] = 0 /\ Untouched(s)'
  <2>1. dispatched[s] = 0 /\ Untouched(s)
    BY <1>1, <1>2, <1>6
       DEF Work, Take, Prepare, SetupFails, ReportFailure, RetryTask, SubmitOk, SubmitRaises,
           RecordEntry, RegisterPosition, PublishResult, Finish, Acknowledge, LoseWorker
  <2>2. CASE Take(w)
    <3>1. PICK t \in Signals, n \in 0..MAX_TASK_RETRIES :
            /\ queue[t][n] > 0
            /\ queue' = [queue EXCEPT ![t][n] = @ - 1]
            /\ Become(w, Run("setup", t, n, 1, 0))
      BY <2>2 DEF Take
    <3>2. t # s
      BY <2>1, <3>1
    <3> QED
      BY <1>3, <2>1, <3>1, <3>2 DEF Become, Run
  <2>3. CASE ~Take(w)
    <3>1. s # run[w].sig /\ s # NoSignal
      BY <2>1, RetriesAssumption
    <3> QED
      BY <1>6, <2>1, <2>3, <3>1, WorkKeepsSignal
  <2> QED
    BY <2>1, <2>2, <2>3
<1> QED
  BY <1>1, <1>2, <1>4, <1>5, <1>6 DEF Next

-----------------------------------------------------------------------------
(* One dashboard: the order of message, entry and skip *)

\* Sending a message about s mentions s once more, and nothing else.
LEMMA AppendMentions ==
  ASSUME NEW q \in Seq(Message), NEW m \in Message, NEW s \in Signals
  PROVE  /\ m.sig # s => Mentions(Append(q, m), s) = Mentions(q, s)
         /\ m.sig = s => Mentions(Append(q, m), s) = Mentions(q, s) \cup {Len(q) + 1}
<1>1. /\ DOMAIN Append(q, m) = DOMAIN q \cup {Len(q) + 1}
      /\ \A i \in DOMAIN q : Append(q, m)[i] = q[i]
      /\ Append(q, m)[Len(q) + 1] = m
  OBVIOUS
<1> QED
  BY <1>1 DEF Mentions

\* Handling the first message leaves the mentions that come after it.
LEMMA TailMentions ==
  ASSUME NEW q \in Seq(Message), q # <<>>, NEW s \in Signals,
         \A i, j \in Mentions(q, s) : i = j
  PROVE  /\ Head(q).sig = s => Mentions(q, s) # {} /\ Mentions(Tail(q), s) = {}
         /\ \A i, j \in Mentions(Tail(q), s) : i = j
         /\ Mentions(Tail(q), s) # {} => Mentions(q, s) # {}
<1>1. /\ 1 \in DOMAIN q /\ Head(q) = q[1]
      /\ \A i \in DOMAIN Tail(q) :
           /\ i \in Nat \ {0}
           /\ i + 1 \in DOMAIN q
           /\ Tail(q)[i] = q[i + 1]
  OBVIOUS
<1>2. \A i \in Mentions(Tail(q), s) : i \in Nat \ {0} /\ i + 1 \in Mentions(q, s)
  BY <1>1 DEF Mentions
<1>3. Head(q).sig = s => 1 \in Mentions(q, s)
  BY <1>1 DEF Mentions
<1> QED
  BY <1>2, <1>3

\* What is neither in a message nor touched in the store stays in order.
LEMMA InOrderKept ==
  ASSUME NEW s \in Signals, NEW c \in Conns, InOrder(s, c),
         Mentions(inbox'[c], s) = Mentions(inbox[c], s) \/ Mentions(inbox'[c], s) = {},
         active'[s] = active[s] \/ active'[s] = "absent",
         s \in alerted <=> s \in alerted',
         s \in skipped <=> s \in skipped',
         \A r \in Requests : request'[r].held /\ request'[r].sig = s =>
           active'[s] # "absent"
  PROVE  InOrder(s, c)'
BY DEF InOrder

LEMMA OrderAlert ==
  ASSUME FlowTypes, NEW s \in Signals, NEW c \in Conns, InOrder(s, c),
         NEW t \in Signals, API!PublishAlert(t)
  PROVE  InOrder(s, c)'
<1> DEFINE m == [sig |-> t, kind |-> "card"]
<1>1. inbox[c] \in Seq(Message) /\ m \in Message /\ m.sig = t
  BY DEF FlowTypes, Message
<1>2. inbox'[c] = inbox[c] \/ inbox'[c] = Append(inbox[c], m)
  BY DEF API!PublishAlert, API!Broadcast
<1> HIDE DEF m
<1> DEFINE q == inbox[c]
<1>5. /\ t # s => Mentions(Append(q, m), s) = Mentions(q, s)
      /\ t = s => Mentions(Append(q, m), s) = Mentions(q, s) \cup {Len(q) + 1}
  <2> HIDE DEF q
  <2> QED
    BY <1>1, AppendMentions DEF q
<1>3. CASE t # s
  <2>1. Mentions(inbox'[c], s) = Mentions(inbox[c], s)
    BY <1>2, <1>3, <1>5
  <2> QED
    BY <1>3, <2>1 DEF InOrder, API!PublishAlert
<1>4. CASE t = s
  <2>1. Mentions(inbox[c], s) = {} /\ active[s] = "absent" /\ s \notin skipped
    BY <1>4 DEF InOrder, API!PublishAlert
  <2>2. Mentions(inbox'[c], s) \subseteq {Len(inbox[c]) + 1}
    BY <1>2, <1>4, <1>5, <2>1
  <2> QED
    BY <1>4, <2>1, <2>2 DEF InOrder, API!PublishAlert
<1> QED
  BY <1>3, <1>4

\* A request that still holds its card after an entry is replaced carries another signal.
LEMMA StoreHeld ==
  ASSUME FlowTypes, NEW t \in Signals, NEW e \in Entries, API!Store(t, e)
  PROVE  \A r \in Requests : request'[r].held => request'[r] = request[r] /\ request[r].sig # t
<1> SUFFICES ASSUME NEW r \in Requests, request'[r].held
             PROVE  request'[r] = request[r] /\ request[r].sig # t
  OBVIOUS
<1>1. CASE request[r].sig # t
  BY <1>1 DEF API!Store
<1>2. CASE request[r].sig = t
  <2>1. request'[r] = [request[r] EXCEPT !.held = FALSE]
    BY <1>2 DEF API!Store
  <2>2. request[r] \in [sig: Signals, kind: Cards, held: BOOLEAN]
    BY <1>2, RetriesAssumption DEF FlowTypes, Carried, API!NoRequest
  <2>3. request'[r].held = FALSE
    BY <2>1, <2>2
  <2> QED
    BY <2>3
<1> QED
  BY <1>1, <1>2

LEMMA OrderStore ==
  ASSUME FlowTypes, NEW s \in Signals, NEW c \in Conns, InOrder(s, c),
         NEW t \in Signals, API!Skip(t) \/ API!Expire(t)
  PROVE  InOrder(s, c)'
<1>1. /\ API!Store(t, "absent") /\ "absent" \in Entries
      /\ UNCHANGED <<inbox, alerted>> /\ active[t] # "absent"
  BY DEF API!Skip, API!Expire, Entries
<1>2. \A r \in Requests : request'[r].held => request'[r] = request[r] /\ request[r].sig # t
  BY <1>1, StoreHeld
<1>3. active'[t] = "absent" /\ \A u \in Signals : u # t => active'[u] = active[u]
  BY <1>1 DEF API!Store, FlowTypes
<1>4. skipped' = skipped \/ skipped' = skipped \cup {t}
  BY DEF API!Skip, API!Expire
<1> QED
  BY <1>1, <1>2, <1>3, <1>4 DEF InOrder

LEMMA OrderReceive ==
  ASSUME FlowTypes, NEW s \in Signals, NEW c \in Conns, InOrder(s, c), API!Receive(c)
  PROVE  InOrder(s, c)'
<1> DEFINE q == inbox[c]
           t == Head(q).sig
           e == Head(q).kind
<1>1. /\ q \in Seq(Message) /\ q # <<>>
      /\ inbox'[c] = Tail(q)
      /\ UNCHANGED <<alerted, skipped>>
      /\ API!Store(t, e)
  BY DEF FlowTypes, API!Receive
<1>2. t \in Signals /\ e \in Entries /\ e # "absent"
  <2>1. Head(q) \in Message
    BY <1>1
  <2> QED
    BY <2>1 DEF Message, Entries, Cards
<1>3. /\ t = s => Mentions(q, s) # {} /\ Mentions(inbox'[c], s) = {}
      /\ \A i, j \in Mentions(inbox'[c], s) : i = j
      /\ Mentions(inbox'[c], s) # {} => Mentions(q, s) # {}
  <2>1. \A i, j \in Mentions(q, s) : i = j
    BY DEF InOrder
  <2> HIDE DEF q
  <2> QED
    BY <1>1, <2>1, TailMentions
<1> HIDE DEF t, e
<1>4. active'[t] = e /\ \A u \in Signals : u # t => active'[u] = active[u]
  BY <1>1, <1>2 DEF API!Store, FlowTypes
<1>5. \A r \in Requests : request'[r].held => request'[r] = request[r] /\ request[r].sig # t
  BY <1>1, <1>2, StoreHeld
<1> QED
  BY <1>1, <1>2, <1>3, <1>4, <1>5 DEF InOrder

LEMMA OrderConfirm ==
  ASSUME FlowTypes, NEW s \in Signals, NEW c \in Conns, InOrder(s, c),
         NEW r \in Requests, NEW t \in Signals, API!Confirm(r, t)
  PROVE  InOrder(s, c)'
<1>1. active[t] # "absent" /\ UNCHANGED <<active, inbox, alerted, skipped>>
  BY DEF API!Confirm, API!Sizeable
<1>2. \A v \in Requests : request'[v] = request[v] \/ request'[v].sig = t
  BY DEF API!Confirm, API!Pending, FlowTypes
<1> QED
  BY <1>1, <1>2 DEF InOrder

\* A request marks the store only under a signal that is in it.
LEMMA OrderMark ==
  ASSUME FlowTypes, NEW s \in Signals, NEW c \in Conns, InOrder(s, c),
         NEW r \in Requests, NEW e \in Cards, API!Mark(r, e)
  PROVE  InOrder(s, c)'
<1>1. UNCHANGED <<inbox, alerted, skipped>> /\ request[r].sig \in Signals /\ e # "absent"
  BY RequestCarries DEF API!Mark, Cards
<1>2. \A v \in Requests : request'[v].held => request'[v] = request[v]
  BY DEF API!Mark, API!NoRequest, FlowTypes
<1>3. active'[s] = active[s] \/ (active[s] # "absent" /\ active'[s] # "absent")
  BY <1>1 DEF API!Mark, FlowTypes, InOrder
<1> QED
  BY <1>1, <1>2, <1>3 DEF InOrder

\* An event about another signal changes nothing for s.
LEMMA OrderEvent ==
  ASSUME FlowTypes, NEW s \in Signals, NEW c \in Conns, InOrder(s, c),
         NEW t \in Signals, t # s, API!PublishResult(t)
  PROVE  InOrder(s, c)'
<1> DEFINE m == [sig |-> t, kind |-> "result"]
           q == inbox[c]
<1>1. q \in Seq(Message) /\ m \in Message /\ m.sig # s
  BY DEF FlowTypes, Message
<1>2. inbox'[c] = q \/ inbox'[c] = Append(q, m)
  BY DEF API!PublishResult, API!Broadcast
<1> HIDE DEF m, q
<1>3. Mentions(Append(q, m), s) = Mentions(q, s)
  BY <1>1, AppendMentions
<1>4. Mentions(inbox'[c], s) = Mentions(q, s)
  BY <1>2, <1>3
<1> QED
  BY <1>4 DEF InOrder, API!PublishResult, q

\* A dashboard that connects or leaves, and a restarted API, lose messages at most.
LEMMA OrderLost ==
  ASSUME FlowTypes, NEW s \in Signals, NEW c \in Conns, InOrder(s, c),
         (\E d \in Conns : API!Connect(d) \/ API!Disconnect(d)) \/ API!Restart
  PROVE  InOrder(s, c)'
<1>1. Mentions(<<>>, s) = {}
  BY DEF Mentions
<1>2. CASE \E d \in Conns : API!Connect(d) \/ API!Disconnect(d)
  <2>1. inbox'[c] \in {inbox[c], <<>>}
    BY <1>2 DEF API!Connect, API!Disconnect, FlowTypes
  <2> QED
    BY <1>1, <1>2, <2>1 DEF InOrder, API!Connect, API!Disconnect
<1>3. CASE API!Restart
  BY <1>1, <1>3 DEF InOrder, API!Restart, API!NoRequest
<1> QED
  BY <1>2, <1>3

LEMMA OneDashboardStep ==
  FlowTypes /\ TypeOK /\ OnlyDispatchedRun /\ OneDashboard /\ [FlowNext]_flowVars => OneDashboard'
<1>1. SUFFICES ASSUME FlowTypes, TypeOK, OnlyDispatchedRun, OneDashboard, [FlowNext]_flowVars,
                      NEW c \in Conns, Conns = {c},
                      NEW s \in Signals, dispatched'[s] = 0
               PROVE  InOrder(s, c)'
  BY DEF OneDashboard
<1>2. dispatched[s] = 0
  BY <1>1, TaskStep, DispatchedStep
<1>3. InOrder(s, c) /\ \A w \in Workers : run[w].sig # s
  BY <1>1, <1>2 DEF OneDashboard, OnlyDispatchedRun
<1>4. CASE UNCHANGED flowVars
  BY <1>3, <1>4 DEF flowVars, store, InOrder
<1>5. CASE API!Local
  <2>1. ASSUME NEW t \in Signals, API!PublishAlert(t) \/ API!Skip(t) \/ API!Expire(t)
        PROVE  InOrder(s, c)'
    BY <1>1, <1>3, <2>1, OrderAlert, OrderStore
  <2>2. ASSUME NEW d \in Conns, API!Connect(d) \/ API!Disconnect(d) \/ API!Receive(d)
        PROVE  InOrder(s, c)'
    BY <1>1, <1>3, <2>2, OrderLost, OrderReceive
  <2>3. ASSUME NEW r \in Requests, NEW t \in Signals, API!Confirm(r, t)
        PROVE  InOrder(s, c)'
    BY <1>1, <1>3, <2>3, OrderConfirm
  <2>4. ASSUME NEW r \in Requests, API!DispatchFails(r) PROVE InOrder(s, c)'
    BY <1>1, <1>3, <2>4, OrderMark DEF API!DispatchFails, Cards
  <2>5. CASE API!Restart
    BY <1>1, <1>3, <2>5, OrderLost
  <2> QED
    BY <1>5, <2>1, <2>2, <2>3, <2>4, <2>5 DEF API!Local
<1>6. ASSUME NEW r \in Requests, DispatchRequest(r) PROVE InOrder(s, c)'
  BY <1>1, <1>3, <1>6, OrderMark DEF DispatchRequest, API!Executing, Cards
<1>7. ASSUME NEW w \in Workers, PublishExecutionResult(w) \/ PublishFailure(w)
      PROVE  InOrder(s, c)'
  <2>1. run[w].at # "idle" /\ API!PublishResult(run[w].sig)
    BY <1>7 DEF PublishExecutionResult, PublishFailure, PublishResult, RetryTask
  <2>2. run[w].sig \in Signals /\ run[w].sig # s
    BY <1>1, <1>3, <2>1 DEF TypeOK
  <2> QED
    BY <1>1, <1>3, <2>1, <2>2, OrderEvent
<1>8. ASSUME NEW w \in Workers, WorkAlone(w) PROVE InOrder(s, c)'
  BY <1>3, <1>8 DEF WorkAlone, store, InOrder
<1> QED
  BY <1>1, <1>4, <1>5, <1>6, <1>7, <1>8 DEF FlowNext

-----------------------------------------------------------------------------

LEMMA InitFlow == FlowInit => FlowInv
<1>1. SUFFICES ASSUME FlowInit PROVE FlowInv
  OBVIOUS
<1>2. Init /\ API!Init /\ sent = [s \in Signals |-> {}]
  BY <1>1 DEF FlowInit
<1>3. IInv
  BY <1>2, InitIInv
<1>4. FlowTypes
  <2>1. \A c \in Conns : <<>> \in Seq(Message)
    OBVIOUS
  <2> QED
    BY <1>2, <2>1 DEF API!Init, FlowTypes, Carried, Entries
<1>5. OnlyDispatchedRun
  BY <1>2, RetriesAssumption DEF Init, OnlyDispatchedRun, Idle, Run
<1>6. OneDashboard
  <2>1. \A s \in Signals : Mentions(<<>>, s) = {}
    BY DEF Mentions
  <2> QED
    BY <1>2, <2>1 DEF API!Init, OneDashboard, InOrder, API!NoRequest
<1> QED
  BY <1>3, <1>4, <1>5, <1>6 DEF FlowInv

LEMMA NextFlow == FlowInv /\ [FlowNext]_flowVars => FlowInv'
<1>1. IInv => TypeOK
  BY DEF IInv
<1> QED
  BY <1>1, TaskStep, NextIInv, FlowTypesStep, DispatchedStep, OneDashboardStep DEF FlowInv

LEMMA FlowInductive == FlowSpec => []FlowInv
BY InitFlow, NextFlow, PTL DEF FlowSpec

\* The composition implements the tasks: behind the API, the queue and the workers do
\* what TradeExecution lets them do, and dispatches come from confirm requests only.
THEOREM FlowImplementsTasks == FlowSpec => Spec
<1>1. FlowInv => FlowTypes
  BY DEF FlowInv
<1>2. FlowInit => Init
  BY DEF FlowInit
<1> QED
  BY <1>1, <1>2, FlowInductive, TaskStep, PTL DEF FlowSpec, Spec

\* So a dashboard that confirms, skips, reconnects or restarts cannot make a task report,
\* record or register an order the exchange has not accepted, or journal one twice.
THEOREM FlowReportsBacked == FlowSpec => [](ReportsAreBacked /\ JournalledOnce)
BY FlowImplementsTasks, ReportsBacked, EntriesJournalledOnce, PTL

\* No execution event is dispatched in a card's place: compute_position_size lets only
\* entries with prices through (confirm_signal).
THEOREM CardsOnly == FlowSpec => []OnlyCardsDispatched
<1>1. FlowInv => OnlyCardsDispatched
  BY DEF FlowInv, FlowTypes, OnlyCardsDispatched, Cards
<1> QED
  BY <1>1, FlowInductive, PTL

\* With one dashboard a card that was skipped and never confirmed does not come back
\* (skip_signal, confirm_signal, alert_stream).
THEOREM SkipsStay == FlowSpec => []UnconfirmedSkipStays
<1>1. FlowInv => UnconfirmedSkipStays
  <2>1. SUFFICES ASSUME FlowInv, Cardinality(Conns) = 1, NEW s \in skipped, dispatched[s] = 0
                 PROVE  active[s] = "absent"
    BY DEF UnconfirmedSkipStays
  <2>2. PICK c : Conns = {c}
    BY <2>1, FlowAssumption, FS_Singleton
  <2>3. s \in Signals
    BY <2>1 DEF FlowInv, FlowTypes
  <2>4. InOrder(s, c)
    BY <2>1, <2>2, <2>3 DEF FlowInv, OneDashboard
  <2> QED
    BY <2>1, <2>4 DEF InOrder
<1> QED
  BY <1>1, FlowInductive, PTL
=============================================================================
