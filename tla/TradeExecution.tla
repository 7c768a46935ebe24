---------------------------- MODULE TradeExecution ----------------------------
(***************************************************************************)
(* From a confirmed signal to orders on the exchange: the Celery task      *)
(* execute_trade of trade/tasks.py, the order sequence of trade/executor.py *)
(* and what they leave behind: trade journal, open-position registry and   *)
(* the status key the dashboard polls.                                     *)
(*                                                                         *)
(* Celery acknowledges a message after its task has ended and puts it back *)
(* when the worker is lost, so a run may be repeated from the start.       *)
(***************************************************************************)
EXTENDS Integers, Sequences, FiniteSets, Functions

CONSTANTS
  Signals,
  NoSignal,
  Workers,
  MAX_RETRIES,        \* attempts to submit one order
  MAX_TASK_RETRIES,   \* retries of the task
  Awaitable,          \* create_order can be awaited: true of an ExchangeInterface,
                      \* false of the ExchangeClient build_ccxt_exchange returns
  MaxDispatches,      \* bound: dispatches of one signal
  MaxMishaps          \* bound: mishaps of any kind

ASSUME RetriesAssumption ==
  /\ MAX_RETRIES \in Nat \ {0}
  /\ MAX_TASK_RETRIES \in Nat
  /\ Awaitable \in BOOLEAN
  /\ NoSignal \notin Signals

VARIABLES
  queue,       \* messages waiting, by signal and task retries so far
  run,         \* what each worker is doing
  placed,      \* orders the exchange has accepted, by signal and kind
  journal,     \* trade_journal: entry orders recorded, by signal
  registered,  \* portfolio:open_positions: the entry order a signal registered
  status,      \* trade:status:<signal>
  dispatched,  \* times a signal was dispatched
  mishaps      \* history: how often each kind of thing went wrong

vars == <<queue, run, placed, journal, registered, status, dispatched, mishaps>>

-----------------------------------------------------------------------------

Kinds == {"entry", "sl", "tp"}
MishapKinds == {"setup", "refused", "reply", "store", "worker"}
Steps == {"idle", "setup", "failing", "failed", "entry", "sl", "tp", "journal", "register",
          "publish", "status", "ack"}

\* order is the number of the entry order the executor returned, 0 for none.
Run(at, sig, retries, attempt, order) ==
  [at |-> at, sig |-> sig, retries |-> retries, attempt |-> attempt, order |-> order]

Idle == Run("idle", NoSignal, 0, 0, 0)

Status(value, order) == [value |-> value, order |-> order]
NoStatus == Status("none", 0)

Init ==
  /\ queue = [s \in Signals |-> [n \in 0..MAX_TASK_RETRIES |-> 0]]
  /\ run = [w \in Workers |-> Idle]
  /\ placed = [s \in Signals |-> [k \in Kinds |-> 0]]
  /\ journal = [s \in Signals |-> <<>>]
  /\ registered = [s \in Signals |-> 0]
  /\ status = [s \in Signals |-> NoStatus]
  /\ dispatched = [s \in Signals |-> 0]
  /\ mishaps = [m \in MishapKinds |-> 0]

\* "setup": configuration, database or testnet guard raises; "refused": the exchange
\* does not take an order; "reply": it takes it and the answer is lost; "store": a
\* journal, registry or status write fails; "worker": the worker process is lost.
Mishap(m) ==
  /\ SumFunction(mishaps) < MaxMishaps
  /\ mishaps' = [mishaps EXCEPT ![m] = @ + 1]

Outcome == <<journal, registered, status>>
Enqueue(s, n) == queue' = [queue EXCEPT ![s][n] = @ + 1]
Become(w, r) == run' = [run EXCEPT ![w] = r]
Advance(w, at) == Become(w, [run[w] EXCEPT !.at = at, !.attempt = 1])

-----------------------------------------------------------------------------
(* Messages: execute_trade.delay, delivery, redelivery *)

Dispatch(s) ==
  /\ dispatched[s] < MaxDispatches
  /\ dispatched' = [dispatched EXCEPT ![s] = @ + 1]
  /\ Enqueue(s, 0)
  /\ UNCHANGED <<run, placed, Outcome, mishaps>>

Take(w) ==
  /\ run[w] = Idle
  /\ \E s \in Signals, n \in 0..MAX_TASK_RETRIES :
       /\ queue[s][n] > 0
       /\ queue' = [queue EXCEPT ![s][n] = @ - 1]
       /\ Become(w, Run("setup", s, n, 1, 0))
  /\ UNCHANGED <<placed, Outcome, dispatched, mishaps>>

\* Mutant: the message is acknowledged when it is delivered (acks_late off).
LoseWorker_EarlyAck(w) ==
  /\ run[w].at # "idle"
  /\ Mishap("worker")
  /\ Become(w, Idle)
  /\ UNCHANGED <<queue, placed, Outcome, dispatched>>

\* task_acks_late, task_reject_on_worker_lost: the message returns to the queue.
LoseWorker(w) ==
  /\ run[w].at # "idle"
  /\ Mishap("worker")
  /\ Become(w, Idle)
  /\ Enqueue(run[w].sig, run[w].retries)
  /\ UNCHANGED <<placed, Outcome, dispatched>>

-----------------------------------------------------------------------------
(* Before the executor: configuration, exchange client, testnet guard.  An *)
(* exception reports "Failed" and retries the task while retries are left. *)

Prepare(w) ==
  /\ run[w].at = "setup"
  /\ Advance(w, "entry")
  /\ UNCHANGED <<queue, placed, Outcome, dispatched, mishaps>>

\* A status write that fails is logged and forgotten.
WriteStatus(s, value, order) ==
  \/ status' = [status EXCEPT ![s] = Status(value, order)] /\ UNCHANGED mishaps
  \/ UNCHANGED status /\ Mishap("store")

SetupFails(w) ==
  /\ run[w].at = "setup"
  /\ Mishap("setup")
  /\ Advance(w, "failing")
  /\ UNCHANGED <<queue, placed, Outcome, dispatched>>

ReportFailure(w) ==
  /\ run[w].at = "failing"
  /\ WriteStatus(run[w].sig, "Failed", 0)
  /\ Advance(w, "failed")
  /\ UNCHANGED <<queue, placed, journal, registered, dispatched>>

\* Publishes the failure and raises self.retry, which sends the message again with
\* one retry less.
RetryTask(w) ==
  /\ run[w].at = "failed"
  /\ IF run[w].retries < MAX_TASK_RETRIES
       THEN Enqueue(run[w].sig, run[w].retries + 1)
       ELSE UNCHANGED queue
  /\ Advance(w, "ack")
  /\ UNCHANGED <<placed, Outcome, dispatched, mishaps>>

-----------------------------------------------------------------------------
(* The executor: entry, stop loss, take profit, each with its retries *)

Accept(s, kind) == placed' = [placed EXCEPT ![s][kind] = @ + 1]

After(kind) == CASE kind = "entry" -> "sl" [] kind = "sl" -> "tp" [] OTHER -> "journal"

\* Mutant: the executor returns the client's order number, not the exchange's.
SubmitOk_OwnNumber(w) ==
  LET kind == run[w].at
      s == run[w].sig
  IN /\ kind \in Kinds
     /\ Awaitable
     /\ Accept(s, kind)
     /\ Become(w, [run[w] EXCEPT !.at = After(kind), !.attempt = 1,
          !.order = IF kind = "entry" THEN placed[s]["entry"] + run[w].attempt + 1 ELSE @])
     /\ UNCHANGED <<queue, Outcome, dispatched, mishaps>>

\* The order is accepted and the executor learns it.
SubmitOk(w) ==
  LET kind == run[w].at
      s == run[w].sig
  IN /\ kind \in Kinds
     /\ Awaitable
     /\ Accept(s, kind)
     /\ Become(w, [run[w] EXCEPT !.at = After(kind), !.attempt = 1,
          !.order = IF kind = "entry" THEN placed[s]["entry"] + 1 ELSE @])
     /\ UNCHANGED <<queue, Outcome, dispatched, mishaps>>

\* Mutant: a failed entry does not end the sequence.
GiveUp_GoOn(w) == Advance(w, After(run[w].at))
\* The last attempt failed: without an entry the result is a failure; a failed
\* exit order is only logged.
GiveUp(w) ==
  Advance(w, IF run[w].at = "entry" THEN "publish" ELSE After(run[w].at))

Retry(w) ==
  IF run[w].attempt < MAX_RETRIES
    THEN Become(w, [run[w] EXCEPT !.attempt = @ + 1]) ELSE GiveUp(w)

\* create_order raises.  The exchange may have accepted the order all the same:
\* its reply was lost, or what the client returned cannot be awaited.
SubmitRaises(w) ==
  /\ run[w].at \in Kinds
  /\ \/ ~Awaitable /\ Accept(run[w].sig, run[w].at) /\ UNCHANGED mishaps
     \/ Awaitable /\ Accept(run[w].sig, run[w].at) /\ Mishap("reply")
     \/ UNCHANGED placed /\ Mishap("refused")
  /\ Retry(w)
  /\ UNCHANGED <<queue, Outcome, dispatched>>

-----------------------------------------------------------------------------
(* After the executor *)

\* Mutant: the row is added again by the caller's commit.
RecordEntry_Twice(w) ==
  /\ run[w].at = "journal"
  /\ journal' = [journal EXCEPT ![run[w].sig] = @ \o <<run[w].order, run[w].order>>]
  /\ Advance(w, "register")
  /\ UNCHANGED <<queue, placed, registered, status, dispatched, mishaps>>

\* A journal or registry that fails is logged and forgotten.
RecordEntry(w) ==
  /\ run[w].at = "journal"
  /\ \/ journal' = [journal EXCEPT ![run[w].sig] = Append(@, run[w].order)] /\ UNCHANGED mishaps
     \/ UNCHANGED journal /\ Mishap("store")
  /\ Advance(w, "register")
  /\ UNCHANGED <<queue, placed, registered, status, dispatched>>

RegisterPosition(w) ==
  /\ run[w].at = "register"
  /\ \/ registered' = [registered EXCEPT ![run[w].sig] = run[w].order] /\ UNCHANGED mishaps
     \/ UNCHANGED registered /\ Mishap("store")
  /\ Advance(w, "publish")
  /\ UNCHANGED <<queue, placed, journal, status, dispatched>>

\* Mutant: the trade is reported before it is recorded, and then not recorded.
PublishResult_First(w) ==
  /\ run[w].at \in {"journal", "publish"}
  /\ Advance(w, "status")
  /\ UNCHANGED <<queue, placed, Outcome, dispatched, mishaps>>

\* The event for the dashboard; who receives it is modelled in TradeFlow.
PublishResult(w) ==
  /\ run[w].at = "publish"
  /\ Advance(w, "status")
  /\ UNCHANGED <<queue, placed, Outcome, dispatched, mishaps>>

Finish(w) ==
  /\ run[w].at = "status"
  /\ WriteStatus(run[w].sig, IF run[w].order # 0 THEN "Filled" ELSE "Failed", run[w].order)
  /\ Advance(w, "ack")
  /\ UNCHANGED <<queue, placed, journal, registered, dispatched>>

\* The task has ended, well or with a retry: Celery acknowledges its message.
Acknowledge(w) ==
  /\ run[w].at = "ack"
  /\ Become(w, Idle)
  /\ UNCHANGED <<queue, placed, Outcome, dispatched, mishaps>>

-----------------------------------------------------------------------------

Work(w) ==
  \/ Take(w)
  \/ Prepare(w)
  \/ SetupFails(w)
  \/ ReportFailure(w)
  \/ RetryTask(w)
  \/ SubmitOk(w)
  \/ SubmitRaises(w)
  \/ RecordEntry(w)
  \/ RegisterPosition(w)
  \/ PublishResult(w)
  \/ Finish(w)
  \/ Acknowledge(w)

Next ==
  \/ \E s \in Signals : Dispatch(s)
  \/ \E w \in Workers : Work(w) \/ LoseWorker(w)

Spec == Init /\ [][Next]_vars

\* A worker process keeps running: Celery fetches the next message and the task
\* code has no unbounded wait (every order has MAX_RETRIES attempts).
FairSpec == Spec /\ \A w \in Workers : WF_vars(Work(w))

-----------------------------------------------------------------------------
(* Types *)

\* Counters count, and a run at a step holds a signal and an attempt in range.
TypeOK ==
  /\ queue \in [Signals -> [0..MAX_TASK_RETRIES -> Nat]]
  /\ run \in [Workers -> [at: Steps, sig: Signals \cup {NoSignal},
                          retries: 0..MAX_TASK_RETRIES, attempt: 0..MAX_RETRIES,
                          order: Nat]]
  /\ \A w \in Workers : run[w].at = "idle" <=> run[w].sig = NoSignal
  /\ placed \in [Signals -> [Kinds -> Nat]]
  /\ journal \in [Signals -> Seq(Nat \ {0})]
  /\ registered \in [Signals -> Nat]
  /\ status \in [Signals -> [value: {"none", "Filled", "Failed"}, order: Nat]]
  /\ dispatched \in [Signals -> Nat]
  /\ mishaps \in [MishapKinds -> Nat]

-----------------------------------------------------------------------------
(* Safety *)

\* Exit orders are placed only for a signal whose entry the exchange accepted,
\* whatever is retried or repeated (execute).
ExitsNeedEntry ==
  \A s \in Signals :
    placed[s]["sl"] + placed[s]["tp"] > 0 => placed[s]["entry"] > 0

\* What is reported, recorded and registered is an order the exchange accepted: no
\* lost reply, retry or redelivery makes a fill up (execute_trade).
ReportsAreBacked ==
  \A s \in Signals :
    /\ status[s].value = "Filled" => status[s].order \in 1..placed[s]["entry"]
    /\ registered[s] \in 0..placed[s]["entry"]
    /\ \A k \in DOMAIN journal[s] : journal[s][k] \in 1..placed[s]["entry"]

\* One order is journalled at most once, although runs repeat (record_entry).
JournalledOnce ==
  \A s \in Signals : \A k, l \in DOMAIN journal[s] :
    journal[s][k] = journal[s][l] => k = l

\* While the stores work, "Filled" is reported only after the order is in the
\* journal and some order of the signal in the registry (execute_trade).
FilledIsRecorded ==
  \A s \in Signals : status[s].value = "Filled" /\ mishaps["store"] = 0 =>
    /\ \E k \in DOMAIN journal[s] : journal[s][k] = status[s].order
    /\ registered[s] # 0

-----------------------------------------------------------------------------
(* Liveness *)

\* Every dispatched trade is reported in the end, although workers are lost and
\* set-up fails: the message outlives the run (task_acks_late).  Only a status write
\* that fails leaves it unreported.
Reported ==
  \A s \in Signals :
    dispatched[s] > 0 ~> status[s].value # "none" \/ mishaps["store"] > 0

-----------------------------------------------------------------------------
(* What the documents say and the code does not *)

\* "Execute a confirmed signal: submit entry order + SL + TP": a dispatch puts one
\* entry order on the exchange.
OneEntryPerDispatch ==
  \A s \in Signals : placed[s]["entry"] <= dispatched[s]

=============================================================================
