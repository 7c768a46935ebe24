------------------------- MODULE TradeExecutionProofs -------------------------
(***************************************************************************)
(* Proofs about TradeExecution, for any number of signals, workers,        *)
(* dispatches, retries and mishaps.  The invariant that is inductive says  *)
(* of every run that the entry order it holds is one the exchange has      *)
(* accepted: a run past the entry step holds one, and accepted orders stay. *)
(***************************************************************************)
EXTENDS TradeExecution, TLAPS

RunType == [at: Steps, sig: Signals \cup {NoSignal}, retries: 0..MAX_TASK_RETRIES,
            attempt: 0..MAX_RETRIES, order: Nat]

PlacedType == [Signals -> [Kinds -> Nat]]

\* A run at work is backed: its order was accepted, and it has one when it should.
Backed(r, accepted) ==
  r.at # "idle" =>
    /\ r.order <= accepted[r.sig]["entry"]
    /\ r.at \in {"sl", "tp", "journal", "register"} => r.order # 0

HeldOrders == \A w \in Workers : Backed(run[w], placed)

IInv == TypeOK /\ HeldOrders /\ ExitsNeedEntry /\ ReportsAreBacked

\* Accepted orders stay accepted.
Grows ==
  /\ placed' \in PlacedType
  /\ \A s \in Signals : placed'[s]["entry"] >= placed[s]["entry"]

-----------------------------------------------------------------------------

\* A run that is replaced by a backed run leaves all runs typed and backed.
LEMMA BecomeBacked ==
  ASSUME TypeOK, HeldOrders, Grows,
         NEW w \in Workers, NEW r \in RunType, Become(w, r),
         r.at = "idle" <=> r.sig = NoSignal,
         Backed(r, placed')
  PROVE  /\ run' \in [Workers -> RunType]
         /\ \A v \in Workers : run'[v].at = "idle" <=> run'[v].sig = NoSignal
         /\ HeldOrders'
<1>1. run \in [Workers -> RunType] /\ run' = [run EXCEPT ![w] = r]
  BY DEF TypeOK, RunType, Become
<1>2. run' \in [Workers -> RunType]
  BY <1>1
<1>3. ASSUME NEW v \in Workers
      PROVE  /\ run'[v].at = "idle" <=> run'[v].sig = NoSignal
             /\ Backed(run'[v], placed')
  <2>1. CASE v = w
    BY <1>1, <2>1
  <2>2. CASE v # w
    <3>1. run'[v] = run[v]
      BY <1>1, <2>2
    <3>2. run[v].at = "idle" <=> run[v].sig = NoSignal
      BY DEF TypeOK
    <3>3. Backed(run[v], placed)
      BY DEF HeldOrders
    <3>4. Backed(run[v], placed')
      <4>1. SUFFICES ASSUME run[v].at # "idle"
                     PROVE  run[v].order <= placed'[run[v].sig]["entry"]
        BY <3>3 DEF Backed
      <4>2. run[v].sig \in Signals /\ run[v].order \in Nat
        BY <4>1, <3>2, <1>1 DEF RunType
      <4>3. placed[run[v].sig]["entry"] \in Nat /\ placed'[run[v].sig]["entry"] \in Nat
        BY <4>2 DEF TypeOK, Kinds, Grows, PlacedType
      <4>4. placed'[run[v].sig]["entry"] >= placed[run[v].sig]["entry"]
        BY <4>2 DEF Grows
      <4>5. run[v].order <= placed[run[v].sig]["entry"]
        BY <4>1, <3>3 DEF Backed
      <4> QED
        BY <4>2, <4>3, <4>4, <4>5
    <3> QED
      BY <3>1, <3>2, <3>4
  <2> QED
    BY <2>1, <2>2
<1> QED
  BY <1>2, <1>3 DEF HeldOrders

\* The idle run is one.
LEMMA IdleBacked ==
  ASSUME NEW p
  PROVE  /\ Idle \in RunType
         /\ Idle.at = "idle" <=> Idle.sig = NoSignal
         /\ Backed(Idle, p)
  BY RetriesAssumption DEF Idle, Run, RunType, Steps, Backed

\* Everything but the runs stays: what is known of the orders stays known.
LEMMA OrdersKept ==
  ASSUME ExitsNeedEntry, ReportsAreBacked, UNCHANGED <<placed, Outcome>>
  PROVE  ExitsNeedEntry' /\ ReportsAreBacked' /\ (TypeOK => Grows)
  BY DEF ExitsNeedEntry, ReportsAreBacked, Outcome, Grows, PlacedType, TypeOK, Kinds

-----------------------------------------------------------------------------
(* Types of what the steps write *)

\* A message put on the queue or taken from it leaves counters.
LEMMA QueueTyped ==
  ASSUME TypeOK, NEW s \in Signals, NEW n \in 0..MAX_TASK_RETRIES
  PROVE  /\ Enqueue(s, n) => queue' \in [Signals -> [0..MAX_TASK_RETRIES -> Nat]]
         /\ queue[s][n] > 0 /\ queue' = [queue EXCEPT ![s][n] = @ - 1]
              => queue' \in [Signals -> [0..MAX_TASK_RETRIES -> Nat]]
<1>1. queue \in [Signals -> [0..MAX_TASK_RETRIES -> Nat]] /\ queue[s][n] \in Nat
  BY DEF TypeOK
<1>2. ASSUME NEW k \in Nat, queue' = [queue EXCEPT ![s][n] = k]
      PROVE  queue' \in [Signals -> [0..MAX_TASK_RETRIES -> Nat]]
  BY <1>1, <1>2
<1>3. Enqueue(s, n) => queue' = [queue EXCEPT ![s][n] = queue[s][n] + 1]
  BY DEF Enqueue
<1>4. queue[s][n] + 1 \in Nat /\ (queue[s][n] > 0 => queue[s][n] - 1 \in Nat)
  BY <1>1
<1>5. PICK k, l : k = queue[s][n] + 1 /\ l = queue[s][n] - 1
  OBVIOUS
<1> QED
  BY <1>2, <1>3, <1>4, <1>5

\* A mishap is counted.
LEMMA MishapTyped ==
  ASSUME TypeOK, NEW m \in MishapKinds, Mishap(m)
  PROVE  mishaps' \in [MishapKinds -> Nat]
BY DEF TypeOK, Mishap

\* The parts of TypeOK besides the runs and the orders accepted.
Rest ==
  /\ queue \in [Signals -> [0..MAX_TASK_RETRIES -> Nat]]
  /\ journal \in [Signals -> Seq(Nat \ {0})]
  /\ registered \in [Signals -> Nat]
  /\ status \in [Signals -> [value: {"none", "Filled", "Failed"}, order: Nat]]
  /\ dispatched \in [Signals -> Nat]
  /\ mishaps \in [MishapKinds -> Nat]

\* TypeOK contains these parts.
LEMMA TypeParts == TypeOK => Rest /\ placed \in PlacedType
BY DEF TypeOK, Rest, PlacedType

\* A step keeps the invariant when it leaves the rest typed, takes no order back and
\* gives a worker a backed run.
LEMMA StepKeeps ==
  ASSUME IInv, Rest', Grows, ExitsNeedEntry', ReportsAreBacked',
         NEW w \in Workers, NEW r \in RunType, Become(w, r),
         r.at = "idle" <=> r.sig = NoSignal,
         Backed(r, placed')
  PROVE  IInv'
<1>1. TypeOK /\ HeldOrders
  BY DEF IInv
<1>2. /\ run' \in [Workers -> RunType]
      /\ \A v \in Workers : run'[v].at = "idle" <=> run'[v].sig = NoSignal
      /\ HeldOrders'
  BY <1>1, BecomeBacked
<1>3. TypeOK'
  BY <1>2 DEF TypeOK, Rest, Grows, PlacedType, RunType
<1> QED
  BY <1>2, <1>3 DEF IInv

\* The same for a step that touches neither orders nor outcome.
LEMMA QuietStep ==
  ASSUME IInv, Rest', UNCHANGED <<placed, Outcome>>,
         NEW w \in Workers, NEW r \in RunType, Become(w, r),
         r.at = "idle" <=> r.sig = NoSignal,
         Backed(r, placed)
  PROVE  IInv'
<1>1. ExitsNeedEntry' /\ ReportsAreBacked' /\ Grows
  BY OrdersKept DEF IInv
<1>2. Backed(r, placed')
  <2>1. placed' = placed
    OBVIOUS
  <2> QED
    BY <2>1
<1> QED
  BY <1>1, <1>2, StepKeeps

\* The same for a run that moves to a step at which it holds what it should.
LEMMA MoveStep ==
  ASSUME IInv, Rest', Grows, ExitsNeedEntry', ReportsAreBacked',
         NEW w \in Workers, run[w].at # "idle",
         NEW at \in Steps \ {"idle"}, NEW attempt \in 0..MAX_RETRIES,
         Become(w, [run[w] EXCEPT !.at = at, !.attempt = attempt]),
         at \in {"sl", "tp", "journal", "register"} => run[w].order # 0
  PROVE  IInv'
<1>1. TypeOK /\ Backed(run[w], placed)
  BY DEF IInv, HeldOrders
<1>2. PICK r : r = [run[w] EXCEPT !.at = at, !.attempt = attempt]
  OBVIOUS
<1>3. run[w] \in RunType /\ run[w].sig # NoSignal /\ run[w].sig \in Signals
  BY <1>1 DEF TypeOK, RunType
<1>4. /\ r \in RunType /\ r.sig = run[w].sig /\ r.order = run[w].order /\ r.at = at
      /\ r.at = "idle" <=> r.sig = NoSignal
  BY <1>2, <1>3 DEF RunType
<1>5. Backed(r, placed')
  <2>1. /\ placed[run[w].sig]["entry"] \in Nat /\ placed'[run[w].sig]["entry"] \in Nat
        /\ run[w].order \in Nat
    BY <1>1, <1>3 DEF TypeOK, Kinds, Grows, PlacedType, RunType
  <2>2. placed'[run[w].sig]["entry"] >= placed[run[w].sig]["entry"]
    BY <1>3 DEF Grows
  <2>3. run[w].order <= placed[run[w].sig]["entry"]
    BY <1>1 DEF Backed
  <2>4. run[w].order <= placed'[run[w].sig]["entry"]
    BY <2>1, <2>2, <2>3
  <2> QED
    BY <1>4, <2>4 DEF Backed
<1> QED
  BY <1>2, <1>4, <1>5, StepKeeps

\* The same for a run that goes on to its next step and writes its outcome.
LEMMA AdvanceStep ==
  ASSUME IInv, Rest', UNCHANGED placed, ReportsAreBacked',
         NEW w \in Workers, run[w].at # "idle",
         NEW at \in Steps \ {"idle"}, Advance(w, at),
         at \in {"sl", "tp", "journal", "register"} => run[w].order # 0
  PROVE  IInv'
<1>1. TypeOK /\ ExitsNeedEntry
  BY DEF IInv
<1>2. Grows /\ ExitsNeedEntry'
  <2>1. placed' = placed
    OBVIOUS
  <2>2. placed \in PlacedType /\ \A s \in Signals : placed[s]["entry"] \in Nat
    BY <1>1 DEF TypeOK, PlacedType, Kinds
  <2>3. \A s \in Signals : placed[s]["entry"] >= placed[s]["entry"]
    BY <2>2
  <2> QED
    BY <1>1, <2>1, <2>2, <2>3 DEF Grows, ExitsNeedEntry
<1>3. 1 \in 0..MAX_RETRIES
  BY RetriesAssumption
<1>4. Become(w, [run[w] EXCEPT !.at = at, !.attempt = 1])
  BY DEF Advance
<1> QED
  BY <1>2, <1>3, <1>4, MoveStep

-----------------------------------------------------------------------------
(* Messages *)

\* A confirmed signal put on the queue keeps the invariant.
LEMMA DispatchStep ==
  ASSUME IInv, NEW s \in Signals, Dispatch(s)
  PROVE  IInv'
<1>1. TypeOK /\ HeldOrders /\ ExitsNeedEntry /\ ReportsAreBacked
  BY DEF IInv
<1>2. UNCHANGED <<run, placed, Outcome, mishaps>>
  BY DEF Dispatch
<1>3. queue' \in [Signals -> [0..MAX_TASK_RETRIES -> Nat]]
  <2>1. 0 \in 0..MAX_TASK_RETRIES
    BY RetriesAssumption
  <2> QED
    BY <1>1, <2>1, QueueTyped DEF Dispatch
<1>4. dispatched' \in [Signals -> Nat]
  BY <1>1 DEF TypeOK, Dispatch
<1>5. TypeOK'
  BY <1>1, <1>2, <1>3, <1>4 DEF TypeOK, Outcome
<1>6. ExitsNeedEntry' /\ ReportsAreBacked'
  BY <1>1, <1>2, OrdersKept
<1>7. HeldOrders'
  BY <1>1, <1>2 DEF HeldOrders
<1> QED
  BY <1>5, <1>6, <1>7 DEF IInv

\* A worker that takes a message keeps the invariant.
LEMMA TakeStep ==
  ASSUME IInv, NEW w \in Workers, Take(w)
  PROVE  IInv'
<1>1. TypeOK
  BY DEF IInv
<1>2. PICK s \in Signals, n \in 0..MAX_TASK_RETRIES :
        /\ queue[s][n] > 0
        /\ queue' = [queue EXCEPT ![s][n] = @ - 1]
        /\ Become(w, Run("setup", s, n, 1, 0))
  BY DEF Take
<1>3. UNCHANGED <<placed, Outcome, dispatched, mishaps>>
  BY DEF Take
<1>4. Rest'
  <2>1. queue' \in [Signals -> [0..MAX_TASK_RETRIES -> Nat]]
    BY <1>1, <1>2, QueueTyped
  <2> QED
    BY <1>1, <1>3, <2>1, TypeParts DEF Rest, Outcome
<1>5. PICK r : r = Run("setup", s, n, 1, 0)
  OBVIOUS
<1>6. r \in RunType /\ (r.at = "idle" <=> r.sig = NoSignal)
  BY <1>5, RetriesAssumption DEF Run, RunType, Steps
<1>7. Backed(r, placed)
  <2>1. placed[s]["entry"] \in Nat
    BY <1>1 DEF TypeOK, Kinds
  <2> QED
    BY <1>5, <2>1 DEF Backed, Run
<1> QED
  BY <1>2, <1>3, <1>4, <1>5, <1>6, <1>7, QuietStep

\* A lost worker, whose message goes back, keeps the invariant.
LEMMA LoseWorkerStep ==
  ASSUME IInv, NEW w \in Workers, LoseWorker(w)
  PROVE  IInv'
<1>1. TypeOK
  BY DEF IInv
<1>2. UNCHANGED <<placed, Outcome, dispatched>> /\ Become(w, Idle)
  BY DEF LoseWorker
<1>3. Rest'
  <2>1. mishaps' \in [MishapKinds -> Nat]
    BY <1>1, MishapTyped DEF LoseWorker, MishapKinds
  <2>2. run[w].sig \in Signals /\ run[w].retries \in 0..MAX_TASK_RETRIES
    BY <1>1 DEF TypeOK, LoseWorker
  <2>3. queue' \in [Signals -> [0..MAX_TASK_RETRIES -> Nat]]
    BY <1>1, <2>2, QueueTyped DEF LoseWorker
  <2> QED
    BY <1>1, <1>2, <2>1, <2>3, TypeParts DEF Rest, Outcome
<1> QED
  BY <1>2, <1>3, IdleBacked, QuietStep

-----------------------------------------------------------------------------
(* Before the executor, and the events *)

\* Reading the configuration and building the exchange keeps the invariant.
LEMMA PrepareStep ==
  ASSUME IInv, NEW w \in Workers, Prepare(w) \/ PublishResult(w)
  PROVE  IInv'
<1>1. PICK at \in {"entry", "status"} : Advance(w, at) /\ run[w].at # "idle"
  BY DEF Prepare, PublishResult
<1>2. UNCHANGED <<queue, placed, Outcome, dispatched, mishaps>>
  BY DEF Prepare, PublishResult
<1>3. Rest' /\ ReportsAreBacked'
  BY <1>2, TypeParts, OrdersKept DEF IInv, Rest, Outcome
<1> QED
  BY <1>1, <1>2, <1>3, AdvanceStep DEF Steps

\* A failure before the first order keeps the invariant.
LEMMA SetupFailsStep ==
  ASSUME IInv, NEW w \in Workers, SetupFails(w)
  PROVE  IInv'
<1>1. Advance(w, "failing") /\ run[w].at # "idle" /\ UNCHANGED <<queue, placed, Outcome, dispatched>>
  BY DEF SetupFails
<1>2. mishaps' \in [MishapKinds -> Nat]
  BY MishapTyped DEF SetupFails, MishapKinds, IInv
<1>3. Rest' /\ ReportsAreBacked'
  BY <1>1, <1>2, TypeParts, OrdersKept DEF IInv, Rest, Outcome
<1> QED
  BY <1>1, <1>3, AdvanceStep DEF Steps

\* A task that is queued again keeps the invariant.
LEMMA RetryTaskStep ==
  ASSUME IInv, NEW w \in Workers, RetryTask(w)
  PROVE  IInv'
<1>1. TypeOK
  BY DEF IInv
<1>2. run[w].at # "idle" /\ Advance(w, "ack") /\ UNCHANGED <<placed, Outcome, dispatched, mishaps>>
  BY DEF RetryTask
<1>3. run[w].sig \in Signals /\ run[w].retries \in 0..MAX_TASK_RETRIES
  BY <1>1 DEF TypeOK, RetryTask
<1>4. queue' \in [Signals -> [0..MAX_TASK_RETRIES -> Nat]]
  <2>1. CASE run[w].retries < MAX_TASK_RETRIES
    <3>1. run[w].retries + 1 \in 0..MAX_TASK_RETRIES
      BY <1>3, <2>1, RetriesAssumption
    <3> QED
      BY <1>1, <1>3, <2>1, <3>1, QueueTyped DEF RetryTask
  <2>2. CASE ~(run[w].retries < MAX_TASK_RETRIES)
    BY <1>1, <2>2 DEF RetryTask, TypeOK
  <2> QED
    BY <2>1, <2>2
<1>5. Rest' /\ ReportsAreBacked'
  BY <1>1, <1>2, <1>4, TypeParts, OrdersKept DEF IInv, Rest, Outcome
<1> QED
  BY <1>2, <1>5, AdvanceStep DEF Steps

\* Acknowledging the message of an ended task keeps the invariant.
LEMMA AcknowledgeStep ==
  ASSUME IInv, NEW w \in Workers, Acknowledge(w)
  PROVE  IInv'
<1>1. Become(w, Idle) /\ UNCHANGED <<queue, placed, Outcome, dispatched, mishaps>>
  BY DEF Acknowledge
<1>2. Rest'
  BY <1>1, TypeParts DEF IInv, Rest, Outcome
<1> QED
  BY <1>1, <1>2, IdleBacked, QuietStep

-----------------------------------------------------------------------------
(* The executor *)

\* An accepted order adds one of its kind.
LEMMA AcceptCounts ==
  ASSUME TypeOK, NEW s \in Signals, NEW kind \in Kinds, Accept(s, kind)
  PROVE  /\ placed' \in PlacedType
         /\ \A t \in Signals, k \in Kinds :
              placed'[t][k] = IF t = s /\ k = kind THEN placed[t][k] + 1 ELSE placed[t][k]
BY DEF TypeOK, PlacedType, Accept

\* What reports refer to is still accepted when more is.
LEMMA GrowsBacks ==
  ASSUME TypeOK, ReportsAreBacked, Grows, UNCHANGED Outcome
  PROVE  ReportsAreBacked'
<1>1. \A s \in Signals : placed[s]["entry"] \in Nat /\ placed'[s]["entry"] \in Nat
  BY DEF TypeOK, Grows, PlacedType, Kinds
<1>2. \A s \in Signals :
        1..placed[s]["entry"] \subseteq 1..placed'[s]["entry"]
        /\ 0..placed[s]["entry"] \subseteq 0..placed'[s]["entry"]
  BY <1>1 DEF Grows
<1> QED
  BY <1>2 DEF ReportsAreBacked, Outcome

\* An order of a run at its step keeps what is known of the orders: exit orders are
\* placed for a run that holds its entry.
LEMMA AcceptKeeps ==
  ASSUME IInv, NEW w \in Workers, run[w].at \in Kinds,
         Accept(run[w].sig, run[w].at), UNCHANGED Outcome
  PROVE  Grows /\ ExitsNeedEntry' /\ ReportsAreBacked'
<1>1. TypeOK /\ ExitsNeedEntry /\ ReportsAreBacked /\ Backed(run[w], placed)
  BY DEF IInv, HeldOrders
<1>2. run[w].sig \in Signals /\ run[w].order \in Nat
  BY <1>1 DEF TypeOK, Kinds
<1>3. /\ placed' \in PlacedType
      /\ \A t \in Signals, k \in Kinds :
           placed'[t][k] = IF t = run[w].sig /\ k = run[w].at
                           THEN placed[t][k] + 1 ELSE placed[t][k]
  BY <1>1, <1>2, AcceptCounts
<1>4. \A t \in Signals, k \in Kinds : placed[t][k] \in Nat
  BY <1>1 DEF TypeOK
<1>5. Grows
  BY <1>3, <1>4 DEF Grows, Kinds
<1>6. ReportsAreBacked'
  BY <1>1, <1>5, GrowsBacks
<1>7. run[w].at # "entry" => placed[run[w].sig]["entry"] > 0
  BY <1>1, <1>2, <1>4 DEF Backed, Kinds
<1>8. ExitsNeedEntry'
  <2>1. SUFFICES ASSUME NEW t \in Signals, placed'[t]["sl"] + placed'[t]["tp"] > 0
                 PROVE  placed'[t]["entry"] > 0
    BY DEF ExitsNeedEntry
  <2>2. placed[t]["entry"] > 0 => placed'[t]["entry"] > 0
    BY <1>3, <1>4 DEF Kinds
  <2>3. CASE t = run[w].sig /\ run[w].at # "entry"
    BY <1>7, <2>2, <2>3
  <2>4. CASE ~(t = run[w].sig /\ run[w].at # "entry")
    <3>1. placed'[t]["sl"] = placed[t]["sl"] /\ placed'[t]["tp"] = placed[t]["tp"]
      BY <1>3, <2>4 DEF Kinds
    <3>2. placed[t]["entry"] > 0
      BY <1>1, <2>1, <3>1 DEF ExitsNeedEntry
    <3> QED
      BY <2>2, <3>2
  <2> QED
    BY <2>3, <2>4
<1> QED
  BY <1>5, <1>6, <1>8

\* An order that is accepted and answered keeps the invariant.
LEMMA SubmitOkStep ==
  ASSUME IInv, NEW w \in Workers, SubmitOk(w)
  PROVE  IInv'
<1>1. TypeOK /\ Backed(run[w], placed)
  BY DEF IInv, HeldOrders
<1>2. /\ run[w].at \in Kinds
      /\ Accept(run[w].sig, run[w].at)
      /\ UNCHANGED <<queue, Outcome, dispatched, mishaps>>
  BY DEF SubmitOk
<1>3. Grows /\ ExitsNeedEntry' /\ ReportsAreBacked'
  BY <1>2, AcceptKeeps
<1>4. Rest'
  BY <1>1, <1>2, TypeParts DEF Rest, Outcome
<1>5. run[w].sig \in Signals /\ run[w].order \in Nat /\ run[w].at # "idle"
  BY <1>1, <1>2 DEF TypeOK, Kinds
<1>6. PICK order : order = IF run[w].at = "entry" THEN placed[run[w].sig]["entry"] + 1
                           ELSE run[w].order
  OBVIOUS
<1>7. order \in Nat /\ order # 0 /\ order <= placed'[run[w].sig]["entry"]
  <2>1. placed[run[w].sig]["entry"] \in Nat
    BY <1>1, <1>5 DEF TypeOK, Kinds
  <2>2. placed'[run[w].sig]["entry"] =
          IF run[w].at = "entry" THEN placed[run[w].sig]["entry"] + 1
                                 ELSE placed[run[w].sig]["entry"]
    BY <1>1, <1>2, <1>5, AcceptCounts DEF Kinds
  <2>3. CASE run[w].at = "entry"
    BY <1>6, <2>1, <2>2, <2>3
  <2>4. CASE run[w].at # "entry"
    BY <1>1, <1>2, <1>5, <1>6, <2>1, <2>2, <2>4 DEF Backed, Kinds
  <2> QED
    BY <2>3, <2>4
<1>8. PICK at \in Steps \ {"idle"} : at = After(run[w].at)
  BY <1>2 DEF Kinds, After, Steps
<1>9. PICK attempt \in 0..MAX_RETRIES : attempt = 1
  BY RetriesAssumption
<1>10. PICK r : r = [run[w] EXCEPT !.at = at, !.attempt = attempt, !.order = order]
  OBVIOUS
<1>11. /\ r \in RunType /\ r.order = order /\ r.sig = run[w].sig
       /\ r.at = "idle" <=> r.sig = NoSignal
  <2>1. run[w] \in RunType /\ run[w].sig # NoSignal
    BY <1>1, <1>5 DEF TypeOK, RunType
  <2> QED
    BY <1>7, <1>10, <2>1 DEF RunType
<1>12. Backed(r, placed')
  BY <1>7, <1>11 DEF Backed
<1>13. Become(w, r)
  <2>1. r = [run[w] EXCEPT !.at = After(run[w].at), !.attempt = 1,
               !.order = IF run[w].at = "entry" THEN placed[run[w].sig]["entry"] + 1 ELSE @]
    BY <1>6, <1>8, <1>9, <1>10
  <2> QED
    BY <2>1 DEF SubmitOk
<1> QED
  BY <1>3, <1>4, <1>11, <1>12, <1>13, StepKeeps

\* An order that raises, accepted or not, keeps the invariant.
LEMMA SubmitRaisesStep ==
  ASSUME IInv, NEW w \in Workers, SubmitRaises(w)
  PROVE  IInv'
<1>1. TypeOK /\ ExitsNeedEntry /\ ReportsAreBacked /\ Backed(run[w], placed)
  BY DEF IInv, HeldOrders
<1>2. /\ run[w].at \in Kinds /\ Retry(w)
      /\ UNCHANGED <<queue, Outcome, dispatched>>
      /\ Accept(run[w].sig, run[w].at) \/ UNCHANGED placed
      /\ UNCHANGED mishaps \/ \E m \in MishapKinds : Mishap(m)
  BY DEF SubmitRaises, MishapKinds
<1>3. Grows /\ ExitsNeedEntry' /\ ReportsAreBacked'
  <2>1. CASE Accept(run[w].sig, run[w].at)
    BY <1>2, <2>1, AcceptKeeps
  <2>2. CASE UNCHANGED placed
    BY <1>1, <1>2, <2>2, OrdersKept
  <2> QED
    BY <1>2, <2>1, <2>2
<1>4. Rest'
  <2>1. mishaps' \in [MishapKinds -> Nat]
    <3>1. CASE UNCHANGED mishaps
      BY <1>1, <3>1 DEF TypeOK
    <3>2. CASE \E m \in MishapKinds : Mishap(m)
      BY <1>1, <3>2, MishapTyped
    <3> QED
      BY <1>2, <3>1, <3>2
  <2> QED
    BY <1>1, <1>2, <2>1, TypeParts DEF Rest, Outcome
<1>5. run[w] \in RunType /\ run[w].at # "idle"
  BY <1>1, <1>2 DEF TypeOK, RunType, Kinds
<1>6. CASE run[w].attempt < MAX_RETRIES
  <2>1. PICK attempt \in 0..MAX_RETRIES : attempt = run[w].attempt + 1
    BY <1>5, <1>6, RetriesAssumption DEF RunType
  <2>2. PICK at \in Steps \ {"idle"} : at = run[w].at
    BY <1>5 DEF RunType
  <2>3. Become(w, [run[w] EXCEPT !.attempt = attempt])
    BY <1>2, <1>6, <2>1 DEF Retry
  <2>4. [run[w] EXCEPT !.attempt = attempt] = [run[w] EXCEPT !.at = at, !.attempt = attempt]
    BY <1>5, <2>2 DEF RunType
  <2>5. at \in {"sl", "tp", "journal", "register"} => run[w].order # 0
    BY <1>1, <1>5, <2>2 DEF Backed
  <2> QED
    BY <1>3, <1>4, <1>5, <2>3, <2>4, <2>5, MoveStep
<1>7. CASE ~(run[w].attempt < MAX_RETRIES)
  <2>1. PICK at \in Steps \ {"idle"} :
          at = IF run[w].at = "entry" THEN "publish" ELSE After(run[w].at)
    BY <1>2 DEF Kinds, After, Steps
  <2>2. Become(w, [run[w] EXCEPT !.at = at, !.attempt = 1])
    BY <1>2, <1>7, <2>1 DEF Retry, GiveUp, Advance
  <2>3. at \in {"sl", "tp", "journal", "register"} => run[w].order # 0
    BY <1>1, <1>2, <1>5, <2>1 DEF Backed, Kinds
  <2>4. 1 \in 0..MAX_RETRIES
    BY RetriesAssumption
  <2> QED
    BY <1>3, <1>4, <1>5, <2>2, <2>3, <2>4, MoveStep
<1> QED
  BY <1>6, <1>7

-----------------------------------------------------------------------------
(* After the executor *)

\* A status that is written is typed and backed when what is written is.
LEMMA StatusWritten ==
  ASSUME TypeOK, ReportsAreBacked, UNCHANGED <<placed, journal, registered>>,
         NEW s \in Signals, NEW value \in {"Filled", "Failed"}, NEW order \in Nat,
         value = "Filled" => order \in 1..placed[s]["entry"],
         WriteStatus(s, value, order)
  PROVE  /\ status' \in [Signals -> [value: {"none", "Filled", "Failed"}, order: Nat]]
         /\ mishaps' \in [MishapKinds -> Nat]
         /\ ReportsAreBacked'
<1>1. CASE UNCHANGED status /\ Mishap("store")
  <2>1. mishaps' \in [MishapKinds -> Nat]
    BY <1>1, MishapTyped DEF MishapKinds
  <2> QED
    BY <1>1, <2>1 DEF TypeOK, ReportsAreBacked
<1>2. CASE status' = [status EXCEPT ![s] = Status(value, order)] /\ UNCHANGED mishaps
  <2>1. status \in [Signals -> [value: {"none", "Filled", "Failed"}, order: Nat]]
    BY DEF TypeOK
  <2>2. PICK written : written = Status(value, order)
    OBVIOUS
  <2>3. /\ written \in [value: {"none", "Filled", "Failed"}, order: Nat]
        /\ written.value = value /\ written.order = order
    BY <2>2 DEF Status
  <2>4. status' = [status EXCEPT ![s] = written]
    BY <1>2, <2>2
  <2>5. status' \in [Signals -> [value: {"none", "Filled", "Failed"}, order: Nat]]
    BY <2>1, <2>3, <2>4
  <2>6. ASSUME NEW t \in Signals, status'[t].value = "Filled"
        PROVE  status'[t].order \in 1..placed[t]["entry"]
    <3>1. CASE t = s
      BY <2>1, <2>3, <2>4, <2>6, <3>1
    <3>2. CASE t # s
      BY <2>1, <2>4, <2>6, <3>2 DEF ReportsAreBacked
    <3> QED
      BY <3>1, <3>2
  <2> QED
    BY <1>2, <2>5, <2>6 DEF TypeOK, ReportsAreBacked
<1> QED
  BY <1>1, <1>2 DEF WriteStatus

\* Writing the status of a failed task keeps the invariant.
LEMMA ReportFailureStep ==
  ASSUME IInv, NEW w \in Workers, ReportFailure(w)
  PROVE  IInv'
<1>1. TypeOK /\ ReportsAreBacked
  BY DEF IInv
<1>2. /\ run[w].at # "idle" /\ Advance(w, "failed")
      /\ WriteStatus(run[w].sig, "Failed", 0)
      /\ UNCHANGED <<queue, placed, journal, registered, dispatched>>
  BY DEF ReportFailure
<1>3. run[w].sig \in Signals
  BY <1>1, <1>2 DEF TypeOK
<1>4. /\ status' \in [Signals -> [value: {"none", "Filled", "Failed"}, order: Nat]]
      /\ mishaps' \in [MishapKinds -> Nat]
      /\ ReportsAreBacked'
  BY <1>1, <1>2, <1>3, StatusWritten
<1>5. Rest'
  BY <1>1, <1>2, <1>4, TypeParts DEF Rest
<1> QED
  BY <1>2, <1>4, <1>5, AdvanceStep DEF Steps

\* Writing the status of a finished task keeps the invariant.
LEMMA FinishStep ==
  ASSUME IInv, NEW w \in Workers, Finish(w)
  PROVE  IInv'
<1>1. TypeOK /\ ReportsAreBacked /\ Backed(run[w], placed)
  BY DEF IInv, HeldOrders
<1>2. /\ run[w].at = "status" /\ Advance(w, "ack")
      /\ WriteStatus(run[w].sig, IF run[w].order # 0 THEN "Filled" ELSE "Failed",
                     run[w].order)
      /\ UNCHANGED <<queue, placed, journal, registered, dispatched>>
  BY DEF Finish
<1>3. run[w].sig \in Signals /\ run[w].order \in Nat
  BY <1>1, <1>2 DEF TypeOK
<1>4. PICK value \in {"Filled", "Failed"} :
        value = IF run[w].order # 0 THEN "Filled" ELSE "Failed"
  OBVIOUS
<1>5. value = "Filled" => run[w].order \in 1..placed[run[w].sig]["entry"]
  <2>1. placed[run[w].sig]["entry"] \in Nat
    BY <1>1, <1>3 DEF TypeOK, Kinds
  <2> QED
    BY <1>1, <1>2, <1>3, <1>4, <2>1 DEF Backed
<1>6. /\ status' \in [Signals -> [value: {"none", "Filled", "Failed"}, order: Nat]]
      /\ mishaps' \in [MishapKinds -> Nat]
      /\ ReportsAreBacked'
  BY <1>1, <1>2, <1>3, <1>4, <1>5, StatusWritten
<1>7. Rest'
  BY <1>1, <1>2, <1>6, TypeParts DEF Rest
<1> QED
  BY <1>2, <1>6, <1>7, AdvanceStep DEF Steps

\* Writing the journal keeps the invariant (record_entry).
LEMMA RecordEntryStep ==
  ASSUME IInv, NEW w \in Workers, RecordEntry(w)
  PROVE  IInv'
<1>1. TypeOK /\ ReportsAreBacked /\ Backed(run[w], placed)
  BY DEF IInv, HeldOrders
<1>2. /\ run[w].at = "journal" /\ Advance(w, "register")
      /\ UNCHANGED <<queue, placed, registered, status, dispatched>>
  BY DEF RecordEntry
<1>3. run[w].sig \in Signals /\ run[w].order \in Nat \ {0}
  BY <1>1, <1>2 DEF TypeOK, Backed
<1>4. run[w].order \in 1..placed[run[w].sig]["entry"]
  <2>1. placed[run[w].sig]["entry"] \in Nat
    BY <1>1, <1>3 DEF TypeOK, Kinds
  <2> QED
    BY <1>1, <1>2, <1>3, <2>1 DEF Backed
<1>5. /\ journal' \in [Signals -> Seq(Nat \ {0})]
      /\ mishaps' \in [MishapKinds -> Nat]
      /\ \A s \in Signals : \A k \in DOMAIN journal'[s] :
           journal'[s][k] \in 1..placed[s]["entry"]
  <2>1. /\ journal \in [Signals -> Seq(Nat \ {0})]
        /\ \A s \in Signals : \A k \in DOMAIN journal[s] :
             journal[s][k] \in 1..placed[s]["entry"]
    BY <1>1 DEF TypeOK, ReportsAreBacked
  <2>2. CASE UNCHANGED journal /\ Mishap("store")
    <3>1. mishaps' \in [MishapKinds -> Nat]
      BY <1>1, <2>2, MishapTyped DEF MishapKinds
    <3> QED
      BY <2>1, <2>2, <3>1
  <2>3. CASE /\ journal' = [journal EXCEPT ![run[w].sig] = Append(@, run[w].order)]
             /\ UNCHANGED mishaps
    <3>1. PICK longer : longer = Append(journal[run[w].sig], run[w].order)
      OBVIOUS
    <3>2. journal[run[w].sig] \in Seq(Nat \ {0})
      BY <1>3, <2>1
    <3>3. /\ longer \in Seq(Nat \ {0})
          /\ \A k \in DOMAIN longer : longer[k] \in 1..placed[run[w].sig]["entry"]
      BY <1>3, <1>4, <2>1, <3>1, <3>2
    <3>4. journal' = [journal EXCEPT ![run[w].sig] = longer]
      BY <2>3, <3>1
    <3>5. mishaps' \in [MishapKinds -> Nat]
      BY <1>1, <2>3 DEF TypeOK
    <3> QED
      BY <1>3, <2>1, <3>3, <3>4, <3>5
  <2> QED
    BY <2>2, <2>3 DEF RecordEntry
<1>6. ReportsAreBacked'
  BY <1>1, <1>2, <1>5 DEF ReportsAreBacked
<1>7. Rest'
  BY <1>1, <1>2, <1>5, TypeParts DEF Rest
<1>8. run[w].order # 0
  BY <1>3
<1> QED
  BY <1>2, <1>6, <1>7, <1>8, AdvanceStep DEF Steps

\* Registering the position keeps the invariant (register_open_position).
LEMMA RegisterPositionStep ==
  ASSUME IInv, NEW w \in Workers, RegisterPosition(w)
  PROVE  IInv'
<1>1. TypeOK /\ ReportsAreBacked /\ Backed(run[w], placed)
  BY DEF IInv, HeldOrders
<1>2. /\ run[w].at = "register" /\ Advance(w, "publish")
      /\ UNCHANGED <<queue, placed, journal, status, dispatched>>
  BY DEF RegisterPosition
<1>3. run[w].sig \in Signals /\ run[w].order \in Nat
  BY <1>1, <1>2 DEF TypeOK
<1>4. run[w].order \in 0..placed[run[w].sig]["entry"]
  <2>1. placed[run[w].sig]["entry"] \in Nat
    BY <1>1, <1>3 DEF TypeOK, Kinds
  <2> QED
    BY <1>1, <1>2, <1>3, <2>1 DEF Backed
<1>5. /\ registered' \in [Signals -> Nat]
      /\ mishaps' \in [MishapKinds -> Nat]
      /\ \A s \in Signals : registered'[s] \in 0..placed[s]["entry"]
  <2>1. registered \in [Signals -> Nat] /\ \A s \in Signals : registered[s] \in 0..placed[s]["entry"]
    BY <1>1 DEF TypeOK, ReportsAreBacked
  <2>2. CASE UNCHANGED registered /\ Mishap("store")
    <3>1. mishaps' \in [MishapKinds -> Nat]
      BY <1>1, <2>2, MishapTyped DEF MishapKinds
    <3> QED
      BY <2>1, <2>2, <3>1
  <2>3. CASE registered' = [registered EXCEPT ![run[w].sig] = run[w].order] /\ UNCHANGED mishaps
    <3>1. mishaps' \in [MishapKinds -> Nat]
      BY <1>1, <2>3 DEF TypeOK
    <3> QED
      BY <1>3, <1>4, <2>1, <2>3, <3>1
  <2> QED
    BY <2>2, <2>3 DEF RegisterPosition
<1>6. ReportsAreBacked'
  BY <1>1, <1>2, <1>5 DEF ReportsAreBacked
<1>7. Rest'
  BY <1>1, <1>2, <1>5, TypeParts DEF Rest
<1> QED
  BY <1>2, <1>6, <1>7, AdvanceStep DEF Steps

-----------------------------------------------------------------------------
(* Theorems *)

\* The empty system satisfies the invariant.
LEMMA InitIInv == Init => IInv
<1>1. SUFFICES ASSUME Init PROVE IInv
  OBVIOUS
<1>2. Idle \in RunType /\ Idle.at = "idle" /\ Idle.sig = NoSignal
  BY RetriesAssumption DEF Idle, Run, RunType, Steps
<1>3. run \in [Workers -> RunType] /\ \A w \in Workers : run[w] = Idle
  BY <1>1, <1>2 DEF Init
<1>4. NoStatus \in [value: {"none", "Filled", "Failed"}, order: Nat] /\ NoStatus.value = "none"
  BY DEF NoStatus, Status
<1>5. status \in [Signals -> [value: {"none", "Filled", "Failed"}, order: Nat]]
  BY <1>1, <1>4 DEF Init
<1>6. placed \in [Signals -> [Kinds -> Nat]]
  BY <1>1 DEF Init
<1>7. Rest
  BY <1>1, <1>5 DEF Rest, Init
<1>8. TypeOK
  BY <1>2, <1>3, <1>6, <1>7 DEF TypeOK, Rest, RunType
<1>9. HeldOrders
  BY <1>2, <1>3 DEF HeldOrders, Backed
<1>10. ExitsNeedEntry
  BY <1>1 DEF Init, ExitsNeedEntry, Kinds
<1>11. ReportsAreBacked
  BY <1>1, <1>4 DEF Init, ReportsAreBacked, Kinds
<1> QED
  BY <1>8, <1>9, <1>10, <1>11 DEF IInv

\* Every step of a dispatch or of a worker keeps the invariant.
LEMMA NextIInv == IInv /\ [Next]_vars => IInv'
<1>1. SUFFICES ASSUME IInv, [Next]_vars PROVE IInv'
  OBVIOUS
<1>2. CASE UNCHANGED vars
  BY <1>1, <1>2 DEF IInv, vars, TypeOK, HeldOrders, ExitsNeedEntry, ReportsAreBacked
<1>3. ASSUME NEW s \in Signals, Dispatch(s) PROVE IInv'
  BY <1>1, <1>3, DispatchStep
<1>4. ASSUME NEW w \in Workers, Work(w) PROVE IInv'
  <2>1. CASE Take(w) \/ SetupFails(w) \/ ReportFailure(w) \/ RetryTask(w) \/ Acknowledge(w)
    BY <1>1, <2>1, TakeStep, SetupFailsStep, ReportFailureStep, RetryTaskStep, AcknowledgeStep
  <2>2. CASE Prepare(w) \/ PublishResult(w)
    BY <1>1, <2>2, PrepareStep
  <2>3. CASE SubmitOk(w) \/ SubmitRaises(w)
    BY <1>1, <2>3, SubmitOkStep, SubmitRaisesStep
  <2>4. CASE RecordEntry(w) \/ RegisterPosition(w) \/ Finish(w)
    BY <1>1, <2>4, RecordEntryStep, RegisterPositionStep, FinishStep
  <2> QED
    BY <1>4, <2>1, <2>2, <2>3, <2>4 DEF Work
<1>5. ASSUME NEW w \in Workers, LoseWorker(w) PROVE IInv'
  BY <1>1, <1>5, LoseWorkerStep
<1> QED
  BY <1>1, <1>2, <1>3, <1>4, <1>5 DEF Next

\* Every behaviour keeps it: what a run holds was accepted by the exchange.
THEOREM Inductive == Spec => []IInv
BY NextIInv, InitIInv, PTL DEF Spec

\* Every variable keeps its type: attempts and task retries stay in range, and a run
\* holds a signal exactly while it is at work.
THEOREM TypeCorrect == Spec => []TypeOK
<1>1. IInv => TypeOK
  BY DEF IInv
<1> QED
  BY <1>1, Inductive, PTL

\* No exit order is placed for a signal without an accepted entry (execute).
THEOREM ExitsFollowEntry == Spec => []ExitsNeedEntry
<1>1. IInv => ExitsNeedEntry
  BY DEF IInv
<1> QED
  BY <1>1, Inductive, PTL

\* Status, journal and registry name only orders the exchange accepted (execute_trade).
THEOREM ReportsBacked == Spec => []ReportsAreBacked
<1>1. IInv => ReportsAreBacked
  BY DEF IInv
<1> QED
  BY <1>1, Inductive, PTL

-----------------------------------------------------------------------------
(* Journal and registry: a second invariant, over runs that are backed.  Two *)
(* runs never hold the same entry order, so each is journalled by one run.   *)

Written(j, n) == \E k \in DOMAIN j : j[k] = n

\* A run holds an order only after the entry; it journals the order after the exits.
Unfiled(r, j) ==
  /\ r.at \in {"idle", "setup", "failing", "failed", "entry"} => r.order = 0
  /\ r.at \in {"sl", "tp", "journal"} => ~Written(j[r.sig], r.order)

\* While no store failed, a run past a store has left its order there.
Filed(r, j, g) ==
  r.order # 0 =>
    /\ r.at \in {"register", "publish", "status", "ack"} => Written(j[r.sig], r.order)
    /\ r.at \in {"publish", "status", "ack"} => g[r.sig] # 0

Distinct(q) ==
  \A v, w \in Workers :
    v # w /\ q[v].order # 0 /\ q[v].sig = q[w].sig => q[v].order # q[w].order

StoresWork == mishaps["store"] = 0

JInv ==
  /\ Distinct(run)
  /\ \A w \in Workers : Unfiled(run[w], journal)
  /\ StoresWork => \A w \in Workers : Filed(run[w], journal, registered)
  /\ JournalledOnce
  /\ FilledIsRecorded

\* What the new run may hold: nothing, what it held, or an order nobody holds.
Free(w, r) ==
  r.order # 0 => \A v \in Workers \ {w} : run[v].sig = r.sig => run[v].order # r.order

LEMMA MishapStores ==
  ASSUME TypeOK, NEW m \in MishapKinds, Mishap(m)
  PROVE  StoresWork' => StoresWork /\ m # "store"
<1>1. mishaps \in [MishapKinds -> Nat] /\ mishaps' = [mishaps EXCEPT ![m] = mishaps[m] + 1]
  BY DEF TypeOK, Mishap
<1>2. "store" \in MishapKinds /\ mishaps["store"] \in Nat
  BY <1>1 DEF MishapKinds
<1>3. CASE m = "store"
  <2>1. mishaps'["store"] = mishaps["store"] + 1
    BY <1>1, <1>2, <1>3
  <2>2. QED
    BY <1>2, <2>1 DEF StoresWork
<1>4. CASE m # "store"
  BY <1>1, <1>2, <1>4 DEF StoresWork
<1>5. QED
  BY <1>3, <1>4

\* A run that is replaced by one whose order is free leaves the orders distinct.
LEMMA BecomeDistinct ==
  ASSUME TypeOK, Distinct(run), NEW w \in Workers, NEW r, Become(w, r), Free(w, r)
  PROVE  /\ Distinct(run')
         /\ run'[w] = r
         /\ \A v \in Workers \ {w} : run'[v] = run[v]
<1>1. run' = [run EXCEPT ![w] = r] /\ DOMAIN run = Workers
  BY DEF TypeOK, Become
<1>2. run'[w] = r /\ \A v \in Workers \ {w} : run'[v] = run[v]
  BY <1>1
<1>3. ASSUME NEW u \in Workers, NEW v \in Workers, u # v, run'[u].order # 0, run'[u].sig = run'[v].sig
      PROVE  run'[u].order # run'[v].order
  <2>1. CASE u = w
    BY <1>2, <1>3, <2>1 DEF Free
  <2>2. CASE v = w
    BY <1>2, <1>3, <2>2 DEF Free
  <2>3. CASE u # w /\ v # w
    BY <1>2, <1>3, <2>3 DEF Distinct
  <2>4. QED
    BY <2>1, <2>2, <2>3
<1>4. QED
  BY <1>2, <1>3 DEF Distinct

\* A step of one run that leaves journal, registry and status.
LEMMA OrderStep ==
  ASSUME TypeOK, JInv, NEW w \in Workers, NEW r, Become(w, r), Free(w, r), UNCHANGED Outcome,
         Unfiled(r, journal),
         StoresWork' => StoresWork /\ Filed(r, journal, registered)
  PROVE  JInv'
<1>1. Distinct(run') /\ run'[w] = r /\ \A v \in Workers \ {w} : run'[v] = run[v]
  BY BecomeDistinct DEF JInv
<1>2. journal' = journal /\ registered' = registered /\ status' = status
  BY DEF Outcome
<1>3. \A v \in Workers : Unfiled(run'[v], journal')
  BY <1>1, <1>2 DEF JInv
<1>4. StoresWork' => \A v \in Workers : Filed(run'[v], journal', registered')
  BY <1>1, <1>2 DEF JInv
<1>5. JournalledOnce'
  BY <1>2 DEF JInv, JournalledOnce
<1>6. FilledIsRecorded'
  BY <1>2 DEF JInv, FilledIsRecorded, StoresWork
<1>7. QED
  BY <1>1, <1>3, <1>4, <1>5, <1>6 DEF JInv

\* A run keeps its order as it goes on.
LEMMA KeepsFree ==
  ASSUME JInv, NEW w \in Workers, NEW r, r.sig = run[w].sig, r.order = run[w].order
  PROVE  Free(w, r)
BY DEF JInv, Distinct, Free

LEMMA AdvancesTo ==
  ASSUME TypeOK, NEW w \in Workers, NEW step
  PROVE  LET r == [run[w] EXCEPT !.at = step, !.attempt = 1]
         IN r.at = step /\ r.sig = run[w].sig /\ r.order = run[w].order
<1>1. run[w] \in RunType
  BY DEF TypeOK, RunType
<1>2. QED
  BY <1>1 DEF RunType

LEMMA QuietOrders ==
  ASSUME JInv, UNCHANGED <<run, Outcome, mishaps>>
  PROVE  JInv'
BY DEF JInv, Outcome, StoresWork, JournalledOnce, FilledIsRecorded

\* Taking a message, losing the worker and acknowledging: the run holds no order after it.
LEMMA EmptyOrders ==
  ASSUME TypeOK, JInv, NEW w \in Workers, NEW r, Become(w, r), UNCHANGED Outcome,
         r.order = 0, r.at \in {"idle", "setup"},
         StoresWork' => StoresWork
  PROVE  JInv'
<1>1. Free(w, r) /\ Unfiled(r, journal) /\ Filed(r, journal, registered)
  BY DEF Free, Unfiled, Filed
<1>2. QED
  BY <1>1, OrderStep

LEMMA TakeOrders == ASSUME TypeOK, JInv, NEW w \in Workers, Take(w) \/ LoseWorker(w) \/ Acknowledge(w) PROVE JInv'
<1>1. CASE Take(w)
  <2>1. PICK s, n : Become(w, Run("setup", s, n, 1, 0))
    BY <1>1 DEF Take
  <2>2. UNCHANGED Outcome /\ (StoresWork' => StoresWork)
    BY <1>1 DEF Take, StoresWork
  <2>3. QED
    BY <2>1, <2>2, EmptyOrders DEF Run
<1>2. CASE LoseWorker(w) \/ Acknowledge(w)
  <2>1. Become(w, Idle) /\ UNCHANGED Outcome
    BY <1>2 DEF LoseWorker, Acknowledge
  <2>2. StoresWork' => StoresWork
    BY <1>2, MishapStores DEF LoseWorker, Acknowledge, StoresWork, MishapKinds
  <2>3. QED
    BY <2>1, <2>2, EmptyOrders DEF Idle, Run
<1>3. QED
  BY <1>1, <1>2

\* Steps before the executor and the event: the run goes on with what it holds.
LEMMA AdvanceOrders ==
  ASSUME TypeOK, JInv, NEW w \in Workers,
         Prepare(w) \/ SetupFails(w) \/ RetryTask(w) \/ PublishResult(w)
  PROVE  JInv'
<1>1. PICK step \in {"entry", "failing", "ack", "status"} :
        /\ Advance(w, step) /\ UNCHANGED Outcome
        /\ (run[w].at \in {"setup", "failed"} \/ (run[w].at = "publish" /\ step = "status"))
  BY DEF Prepare, SetupFails, RetryTask, PublishResult
<1>2. StoresWork' => StoresWork
  BY MishapStores DEF Prepare, SetupFails, RetryTask, PublishResult, StoresWork, MishapKinds
<1> DEFINE r == [run[w] EXCEPT !.at = step, !.attempt = 1]
<1>3. Become(w, r) /\ r.at = step /\ r.sig = run[w].sig /\ r.order = run[w].order
  BY <1>1, AdvancesTo DEF Advance
<1> HIDE DEF r
<1>4. Unfiled(r, journal)
  <2>1. run[w].at \in {"setup", "failed"} => r.order = 0
    BY <1>3 DEF JInv, Unfiled
  <2>2. QED
    BY <1>1, <1>3, <2>1 DEF Unfiled
<1>5. StoresWork => Filed(r, journal, registered)
  <2>1. run[w].at \in {"setup", "failed"} => r.order = 0
    BY <1>3 DEF JInv, Unfiled
  <2>2. StoresWork => Filed(run[w], journal, registered)
    BY DEF JInv
  <2>3. QED
    BY <1>1, <1>3, <2>1, <2>2 DEF Filed
<1>6. QED
  BY <1>1, <1>2, <1>3, <1>4, <1>5, KeepsFree, OrderStep

\* The number of an entry order that is about to be accepted is held and journalled nowhere.
LEMMA NewNumber ==
  ASSUME IInv, NEW s \in Signals
  PROVE  LET n == placed[s]["entry"] + 1
         IN /\ n # 0
            /\ \A v \in Workers : run[v].sig = s => run[v].order # n
            /\ ~Written(journal[s], n)
<1> DEFINE n == placed[s]["entry"] + 1
<1>1. placed[s]["entry"] \in Nat
  BY DEF IInv, TypeOK, Kinds
<1>2. ASSUME NEW v \in Workers, run[v].sig = s PROVE run[v].order # n
  <2>1. run[v].at # "idle" /\ run[v].order \in Nat
    BY <1>2, RetriesAssumption DEF IInv, TypeOK
  <2>2. run[v].order <= placed[s]["entry"]
    BY <1>2, <2>1 DEF IInv, HeldOrders, Backed
  <2>3. QED
    BY <1>1, <2>1, <2>2
<1>3. ~Written(journal[s], n)
  BY <1>1 DEF IInv, ReportsAreBacked, Written
<1>4. QED
  BY <1>1, <1>2, <1>3

\* A run at an order keeps its number, or takes the new one at the entry.
LEMMA SubmitOkOrders == ASSUME IInv, JInv, NEW w \in Workers, SubmitOk(w) PROVE JInv'
<1> DEFINE kind == run[w].at
           s == run[w].sig
           n == IF kind = "entry" THEN placed[s]["entry"] + 1 ELSE run[w].order
           r == [run[w] EXCEPT !.at = After(kind), !.attempt = 1, !.order = n]
<1>1. TypeOK /\ run[w] \in RunType /\ kind \in Kinds /\ s \in Signals
  BY RetriesAssumption DEF IInv, TypeOK, RunType, SubmitOk, Kinds
<1>2. Become(w, r) /\ UNCHANGED <<Outcome, mishaps>>
  BY <1>1 DEF SubmitOk, RunType
<1>3. r.at = After(kind) /\ r.sig = s /\ r.order = n
  BY <1>1 DEF RunType
<1>4. After(kind) \in {"sl", "tp", "journal"} /\ (kind # "entry" => kind \in {"sl", "tp"})
  BY <1>1 DEF After, Kinds
<1> HIDE DEF r
<1>5. Free(w, r) /\ ~Written(journal[s], n)
  <2>1. CASE kind = "entry"
    BY <1>1, <1>3, <2>1, NewNumber DEF Free
  <2>2. CASE kind # "entry"
    <3>1. r.sig = run[w].sig /\ r.order = run[w].order
      BY <1>3, <2>2
    <3>2. Unfiled(run[w], journal)
      BY DEF JInv
    <3>3. QED
      BY <1>4, <2>2, <3>1, <3>2, KeepsFree DEF Unfiled
  <2>3. QED
    BY <2>1, <2>2
<1>6. Unfiled(r, journal) /\ Filed(r, journal, registered)
  BY <1>3, <1>4, <1>5 DEF Unfiled, Filed
<1>7. QED
  BY <1>1, <1>2, <1>5, <1>6, OrderStep DEF StoresWork

LEMMA SubmitRaisesOrders == ASSUME IInv, JInv, NEW w \in Workers, SubmitRaises(w) PROVE JInv'
<1>1. TypeOK /\ run[w] \in RunType /\ run[w].at \in Kinds /\ UNCHANGED Outcome
  BY DEF IInv, TypeOK, RunType, SubmitRaises
<1>2. StoresWork' => StoresWork
  <2>1. UNCHANGED mishaps \/ Mishap("reply") \/ Mishap("refused")
    BY DEF SubmitRaises
  <2>2. QED
    BY <1>1, <2>1, MishapStores DEF StoresWork, MishapKinds
<1>3. Unfiled(run[w], journal)
  BY DEF JInv
<1>4. PICK r :
        /\ Become(w, r) /\ r.sig = run[w].sig /\ r.order = run[w].order
        /\ run[w].at = "entry" => r.at \in {"entry", "publish"}
        /\ run[w].at # "entry" => r.at \in {run[w].at, "tp", "journal"}
  <2>1. CASE run[w].attempt < MAX_RETRIES
    <3> DEFINE q == [run[w] EXCEPT !.attempt = run[w].attempt + 1]
    <3>1. Become(w, q)
      BY <2>1 DEF SubmitRaises, Retry
    <3>2. q.at = run[w].at /\ q.sig = run[w].sig /\ q.order = run[w].order
      BY <1>1 DEF RunType
    <3> HIDE DEF q
    <3>3. QED
      BY <3>1, <3>2
  <2>2. CASE ~(run[w].attempt < MAX_RETRIES)
    <3> DEFINE t == IF run[w].at = "entry" THEN "publish" ELSE After(run[w].at)
               q == [run[w] EXCEPT !.at = t, !.attempt = 1]
    <3>1. Become(w, q)
      BY <2>2 DEF SubmitRaises, Retry, GiveUp, Advance
    <3>2. /\ run[w].at = "entry" => t = "publish"
          /\ run[w].at # "entry" => t \in {"tp", "journal"}
      BY <1>1 DEF After, Kinds
    <3>3. q.at = t /\ q.sig = run[w].sig /\ q.order = run[w].order
      BY <1>1, AdvancesTo
    <3> HIDE DEF t, q
    <3>4. QED
      BY <3>1, <3>2, <3>3
  <2>3. QED
    BY <2>1, <2>2
<1>5. CASE run[w].at = "entry"
  <2>1. r.order = 0 /\ r.at \in {"entry", "publish"}
    BY <1>3, <1>4, <1>5 DEF Unfiled
  <2>2. Unfiled(r, journal) /\ Filed(r, journal, registered)
    BY <2>1 DEF Unfiled, Filed
  <2>3. QED
    BY <1>1, <1>2, <1>4, <2>2, KeepsFree, OrderStep
<1>6. CASE run[w].at # "entry"
  <2>1. run[w].at \in {"sl", "tp"} /\ r.at \in {"sl", "tp", "journal"}
    BY <1>1, <1>4, <1>6 DEF Kinds
  <2>2. Unfiled(r, journal) /\ Filed(r, journal, registered)
    BY <1>3, <1>4, <2>1 DEF Unfiled, Filed
  <2>3. QED
    BY <1>1, <1>2, <1>4, <2>2, KeepsFree, OrderStep
<1>7. QED
  BY <1>5, <1>6

\* A run that comes to the journal holds an order no entry of the journal names.
LEMMA RecordEntryOrders == ASSUME IInv, JInv, NEW w \in Workers, RecordEntry(w) PROVE JInv'
<1> DEFINE s == run[w].sig
           n == run[w].order
           r == [run[w] EXCEPT !.at = "register", !.attempt = 1]
<1>1. TypeOK /\ run[w].at = "journal" /\ s \in Signals /\ n \in Nat
  BY RetriesAssumption DEF IInv, TypeOK, RecordEntry
<1>2. n # 0 /\ ~Written(journal[s], n)
  BY <1>1 DEF IInv, HeldOrders, Backed, JInv, Unfiled
<1>3. Become(w, r) /\ r.at = "register" /\ r.sig = s /\ r.order = n
  BY <1>1, AdvancesTo DEF RecordEntry, Advance
<1> HIDE DEF r
<1>4. Free(w, r) /\ Unfiled(r, journal)
  BY <1>3, KeepsFree DEF Unfiled
<1>5. CASE UNCHANGED journal /\ Mishap("store")
  <2>1. ~StoresWork'
    BY <1>1, <1>5, MishapStores DEF MishapKinds
  <2>2. UNCHANGED Outcome
    BY <1>5 DEF RecordEntry, Outcome
  <2>3. QED
    BY <1>1, <1>3, <1>4, <2>1, <2>2, OrderStep
<1>6. CASE journal' = [journal EXCEPT ![s] = Append(journal[s], n)] /\ UNCHANGED mishaps
  <2>1. UNCHANGED <<registered, status>> /\ (StoresWork' <=> StoresWork)
    BY <1>6 DEF RecordEntry, StoresWork
  <2>2. journal \in [Signals -> Seq(Nat \ {0})] /\ journal[s] \in Seq(Nat \ {0})
    BY <1>1 DEF TypeOK
  <2>3. /\ journal'[s] = Append(journal[s], n)
        /\ \A t \in Signals \ {s} : journal'[t] = journal[t]
    BY <1>1, <1>6, <2>2
  <2>4. /\ DOMAIN journal'[s] = DOMAIN journal[s] \cup {Len(journal[s]) + 1}
        /\ Len(journal[s]) + 1 \notin DOMAIN journal[s]
        /\ journal'[s][Len(journal[s]) + 1] = n
        /\ \A k \in DOMAIN journal[s] : journal'[s][k] = journal[s][k]
    BY <1>1, <1>2, <2>2, <2>3
  <2>5. \A m : Written(journal'[s], m) <=> Written(journal[s], m) \/ m = n
    BY <2>4 DEF Written
  <2>6. Distinct(run') /\ run'[w] = r /\ \A v \in Workers \ {w} : run'[v] = run[v]
    BY <1>1, <1>3, <1>4, BecomeDistinct DEF JInv
  <2>7. ASSUME NEW v \in Workers \ {w}, run[v].at # "idle"
        PROVE  /\ Unfiled(run[v], journal')
               /\ StoresWork => Filed(run[v], journal', registered)
    <3>1. run[v].sig \in Signals
      BY <1>1, <2>7 DEF TypeOK
    <3>2. Unfiled(run[v], journal) /\ (StoresWork => Filed(run[v], journal, registered))
      BY DEF JInv
    <3>3. CASE run[v].sig # s
      BY <2>3, <3>1, <3>2, <3>3 DEF Unfiled, Filed
    <3>4. CASE run[v].sig = s
      <4>1. run[v].order # n
        BY <1>2, <3>4 DEF JInv, Distinct
      <4>2. QED
        BY <2>5, <3>2, <3>4, <4>1 DEF Unfiled, Filed
    <3>5. QED
      BY <3>3, <3>4
  <2>8. \A v \in Workers : Unfiled(run'[v], journal') /\ (StoresWork => Filed(run'[v], journal', registered))
    <3>1. TAKE v \in Workers
    <3>2. CASE v = w
      BY <1>3, <2>5, <2>6, <3>2 DEF Unfiled, Filed
    <3>3. CASE v # w /\ run[v].at = "idle"
      <4>1. run[v].order = 0
        BY <3>3 DEF JInv, Unfiled
      <4>2. QED
        BY <2>6, <3>3, <4>1 DEF Unfiled, Filed
    <3>4. CASE v # w /\ run[v].at # "idle"
      BY <2>6, <2>7, <3>4
    <3>5. QED
      BY <3>2, <3>3, <3>4
  <2>9. JournalledOnce'
    <3>1. SUFFICES ASSUME NEW t \in Signals, NEW k \in DOMAIN journal'[t], NEW l \in DOMAIN journal'[t],
                          journal'[t][k] = journal'[t][l]
                   PROVE  k = l
      BY DEF JournalledOnce
    <3>2. CASE t # s
      BY <2>3, <3>1, <3>2 DEF JInv, JournalledOnce
    <3>3. CASE t = s
      BY <1>1, <1>2, <2>4, <3>1, <3>3 DEF JInv, JournalledOnce, Written
    <3>4. QED
      BY <3>2, <3>3
  <2>10. FilledIsRecorded'
    <3>1. SUFFICES ASSUME NEW t \in Signals, status[t].value = "Filled", StoresWork
                   PROVE  Written(journal'[t], status[t].order) /\ registered[t] # 0
      BY <2>1 DEF FilledIsRecorded, StoresWork, Written
    <3>2. Written(journal[t], status[t].order) /\ registered[t] # 0
      BY <3>1 DEF JInv, FilledIsRecorded, StoresWork, Written
    <3>3. QED
      BY <2>3, <2>5, <3>2
  <2>11. QED
    BY <2>1, <2>6, <2>8, <2>9, <2>10 DEF JInv
<1>7. QED
  BY <1>5, <1>6 DEF RecordEntry

\* A run that comes to the registry holds the order it has journalled.
LEMMA RegisterOrders == ASSUME IInv, JInv, NEW w \in Workers, RegisterPosition(w) PROVE JInv'
<1> DEFINE s == run[w].sig
           n == run[w].order
           r == [run[w] EXCEPT !.at = "publish", !.attempt = 1]
<1>1. TypeOK /\ run[w].at = "register" /\ s \in Signals
  BY RetriesAssumption DEF IInv, TypeOK, RegisterPosition
<1>2. n # 0
  BY <1>1 DEF IInv, HeldOrders, Backed
<1>3. Become(w, r) /\ r.at = "publish" /\ r.sig = s /\ r.order = n
  BY <1>1, AdvancesTo DEF RegisterPosition, Advance
<1> HIDE DEF r
<1>4. Free(w, r) /\ Unfiled(r, journal)
  BY <1>3, KeepsFree DEF Unfiled
<1>5. UNCHANGED <<journal, status>>
  BY DEF RegisterPosition
<1>6. CASE UNCHANGED registered /\ Mishap("store")
  <2>1. ~StoresWork' /\ UNCHANGED Outcome
    BY <1>1, <1>5, <1>6, MishapStores DEF MishapKinds, Outcome
  <2>2. QED
    BY <1>1, <1>3, <1>4, <2>1, OrderStep
<1>7. CASE registered' = [registered EXCEPT ![s] = n] /\ UNCHANGED mishaps
  <2>1. /\ registered'[s] = n
        /\ \A t \in Signals : registered'[t] = registered[t] \/ registered'[t] # 0
    BY <1>1, <1>2, <1>7 DEF TypeOK
  <2>2. StoresWork' <=> StoresWork
    BY <1>7 DEF StoresWork
  <2>3. Distinct(run') /\ run'[w] = r /\ \A v \in Workers \ {w} : run'[v] = run[v]
    BY <1>1, <1>3, <1>4, BecomeDistinct DEF JInv
  <2>4. StoresWork => Filed(r, journal, registered')
    <3>1. StoresWork => Filed(run[w], journal, registered)
      BY DEF JInv
    <3>2. QED
      BY <1>1, <1>2, <1>3, <2>1, <3>1 DEF Filed
  <2>5. ASSUME NEW v \in Workers, v # w, StoresWork PROVE Filed(run[v], journal, registered')
    <3>1. Filed(run[v], journal, registered)
      BY <2>5 DEF JInv
    <3>2. CASE run[v].at = "idle"
      BY <3>2 DEF Filed
    <3>3. CASE run[v].at # "idle"
      <4>1. run[v].sig \in Signals
        BY <1>1, <3>3 DEF TypeOK
      <4>2. QED
        BY <2>1, <3>1, <4>1 DEF Filed
    <3>4. QED
      BY <3>2, <3>3
  <2>6. \A v \in Workers : Unfiled(run'[v], journal') /\ (StoresWork' => Filed(run'[v], journal', registered'))
    BY <1>4, <1>5, <2>2, <2>3, <2>4, <2>5 DEF JInv
  <2>7. JournalledOnce' /\ FilledIsRecorded'
    BY <1>5, <2>1, <2>2 DEF JInv, JournalledOnce, FilledIsRecorded, StoresWork
  <2>8. QED
    BY <2>3, <2>6, <2>7 DEF JInv
<1>8. QED
  BY <1>6, <1>7 DEF RegisterPosition

\* A status is written: "Filled" only with an order that is recorded.
LEMMA StatusOrders ==
  ASSUME TypeOK, JInv, NEW w \in Workers, NEW value, NEW n, NEW r,
         WriteStatus(run[w].sig, value, n), Become(w, r), Free(w, r), UNCHANGED <<journal, registered>>,
         run[w].sig \in Signals, Unfiled(r, journal),
         StoresWork => Filed(r, journal, registered),
         StoresWork /\ value = "Filled" => Written(journal[run[w].sig], n) /\ registered[run[w].sig] # 0
  PROVE  JInv'
<1> DEFINE s == run[w].sig
<1>1. CASE UNCHANGED status /\ Mishap("store")
  <2>1. ~StoresWork' /\ UNCHANGED Outcome
    BY <1>1, MishapStores DEF MishapKinds, Outcome
  <2>2. QED
    BY <2>1, OrderStep
<1>2. CASE status' = [status EXCEPT ![s] = Status(value, n)] /\ UNCHANGED mishaps
  <2>1. /\ status'[s] = Status(value, n)
        /\ \A t \in Signals \ {s} : status'[t] = status[t]
    BY <1>2 DEF TypeOK
  <2>2. StoresWork' <=> StoresWork
    BY <1>2 DEF StoresWork
  <2>3. Distinct(run') /\ run'[w] = r /\ \A v \in Workers \ {w} : run'[v] = run[v]
    BY BecomeDistinct DEF JInv
  <2>4. \A v \in Workers : Unfiled(run'[v], journal') /\ (StoresWork' => Filed(run'[v], journal', registered'))
    BY <2>2, <2>3 DEF JInv
  <2>5. JournalledOnce'
    BY DEF JInv, JournalledOnce
  <2>6. FilledIsRecorded'
    <3>1. SUFFICES ASSUME NEW t \in Signals, status'[t].value = "Filled", StoresWork
                   PROVE  Written(journal[t], status'[t].order) /\ registered[t] # 0
      BY <2>2 DEF FilledIsRecorded, StoresWork, Written
    <3>2. CASE t = s
      BY <2>1, <3>1, <3>2 DEF Status
    <3>3. CASE t # s
      BY <2>1, <3>1, <3>3 DEF JInv, FilledIsRecorded, StoresWork, Written
    <3>4. QED
      BY <3>2, <3>3
  <2>7. QED
    BY <2>3, <2>4, <2>5, <2>6 DEF JInv
<1>3. QED
  BY <1>1, <1>2 DEF WriteStatus

LEMMA ReportFailureOrders == ASSUME IInv, JInv, NEW w \in Workers, ReportFailure(w) PROVE JInv'
<1> DEFINE r == [run[w] EXCEPT !.at = "failed", !.attempt = 1]
<1>1. TypeOK /\ run[w].at = "failing" /\ run[w].sig \in Signals
  BY RetriesAssumption DEF IInv, TypeOK, ReportFailure
<1>2. Become(w, r) /\ r.at = "failed" /\ r.sig = run[w].sig /\ r.order = run[w].order
  BY <1>1, AdvancesTo DEF ReportFailure, Advance
<1>3. run[w].order = 0
  BY <1>1 DEF JInv, Unfiled
<1> HIDE DEF r
<1>4. Free(w, r) /\ Unfiled(r, journal) /\ Filed(r, journal, registered)
  BY <1>2, <1>3 DEF Free, Unfiled, Filed
<1>5. WriteStatus(run[w].sig, "Failed", 0) /\ UNCHANGED <<journal, registered>>
  BY DEF ReportFailure
<1>6. QED
  BY <1>1, <1>2, <1>4, <1>5, StatusOrders

LEMMA FinishOrders == ASSUME IInv, JInv, NEW w \in Workers, Finish(w) PROVE JInv'
<1> DEFINE r == [run[w] EXCEPT !.at = "ack", !.attempt = 1]
           value == IF run[w].order # 0 THEN "Filled" ELSE "Failed"
<1>1. TypeOK /\ run[w].at = "status" /\ run[w].sig \in Signals
  BY RetriesAssumption DEF IInv, TypeOK, Finish
<1>2. Become(w, r) /\ r.at = "ack" /\ r.sig = run[w].sig /\ r.order = run[w].order
  BY <1>1, AdvancesTo DEF Finish, Advance
<1> HIDE DEF r
<1>3. StoresWork => Filed(run[w], journal, registered)
  BY DEF JInv
<1>4. Free(w, r) /\ Unfiled(r, journal)
  BY <1>2, KeepsFree DEF Unfiled
<1>5. StoresWork => Filed(r, journal, registered)
  BY <1>1, <1>2, <1>3 DEF Filed
<1>6. StoresWork /\ value = "Filled" =>
        Written(journal[run[w].sig], run[w].order) /\ registered[run[w].sig] # 0
  BY <1>1, <1>3 DEF Filed
<1>7. WriteStatus(run[w].sig, value, run[w].order) /\ UNCHANGED <<journal, registered>>
  BY DEF Finish
<1> HIDE DEF value
<1>8. QED
  BY <1>1, <1>2, <1>4, <1>5, <1>6, <1>7, StatusOrders

LEMMA InitOrders == Init => JInv
<1>1. SUFFICES ASSUME Init PROVE JInv
  OBVIOUS
<1>2. \A w \in Workers : run[w].order = 0 /\ run[w].at = "idle"
  BY <1>1 DEF Init, Idle, Run
<1>3. \A s \in Signals : journal[s] = <<>> /\ status[s].value = "none"
  BY <1>1 DEF Init, NoStatus, Status
<1>4. QED
  BY <1>2, <1>3 DEF JInv, Distinct, Unfiled, Filed, JournalledOnce, FilledIsRecorded

LEMMA NextOrders == IInv /\ JInv /\ [Next]_vars => JInv'
<1>1. SUFFICES ASSUME IInv, JInv, [Next]_vars PROVE JInv'
  OBVIOUS
<1>2. TypeOK
  BY <1>1 DEF IInv
<1>3. CASE UNCHANGED vars
  BY <1>1, <1>3, QuietOrders DEF vars, Outcome
<1>4. ASSUME NEW s \in Signals, Dispatch(s) PROVE JInv'
  BY <1>1, <1>4, QuietOrders DEF Dispatch
<1>5. ASSUME NEW w \in Workers, Work(w) \/ LoseWorker(w) PROVE JInv'
  <2>1. CASE Take(w) \/ LoseWorker(w) \/ Acknowledge(w)
    BY <1>1, <1>2, <2>1, TakeOrders
  <2>2. CASE Prepare(w) \/ SetupFails(w) \/ RetryTask(w) \/ PublishResult(w)
    BY <1>1, <1>2, <2>2, AdvanceOrders
  <2>3. CASE SubmitOk(w) \/ SubmitRaises(w)
    BY <1>1, <2>3, SubmitOkOrders, SubmitRaisesOrders
  <2>4. CASE RecordEntry(w) \/ RegisterPosition(w)
    BY <1>1, <2>4, RecordEntryOrders, RegisterOrders
  <2>5. CASE ReportFailure(w) \/ Finish(w)
    BY <1>1, <2>5, ReportFailureOrders, FinishOrders
  <2>6. QED
    BY <1>5, <2>1, <2>2, <2>3, <2>4, <2>5 DEF Work
<1>6. QED
  BY <1>1, <1>3, <1>4, <1>5 DEF Next

LEMMA OrdersInductive == Spec => []JInv
<1>1. Spec => []IInv
  BY Inductive
<1>2. QED
  BY <1>1, InitOrders, NextOrders, PTL DEF Spec

-----------------------------------------------------------------------------

\* No order is journalled twice, however often its signal is dispatched, retried or
\* redelivered and whichever worker runs it (record_entry).
THEOREM EntriesJournalledOnce == Spec => []JournalledOnce
<1>1. JInv => JournalledOnce
  BY DEF JInv
<1> QED
  BY <1>1, OrdersInductive, PTL

\* While the stores work, a trade reported as filled is in the journal and its signal in the
\* registry (execute_trade).
THEOREM FillsRecorded == Spec => []FilledIsRecorded
<1>1. JInv => FilledIsRecorded
  BY DEF JInv
<1> QED
  BY <1>1, OrdersInductive, PTL
=============================================================================
