------------------------------ MODULE MCExecution ------------------------------
(***************************************************************************)
(* The execution of trades, checked in one run: a behaviour is about the    *)
(* execution task with all its workers, about the flow from the dashboard   *)
(* through one of them, or about the paper exchange, and leaves the rest    *)
(* alone.  Only the task's workers are fair.                                *)
(***************************************************************************)
EXTENDS TradeFlow, MockExchange

CONSTANT w1   \* the worker of the flow

VARIABLE focus

executionVars == <<focus, flowVars, exchangeVars>>

-----------------------------------------------------------------------------
(* The paper exchange's inputs: prices 1 to 5, entry at 3 *)

Plan(dir, sl, tp1, tp2) ==
  [dir |-> dir, entry |-> 3, sl |-> sl, tp1 |-> tp1, tp2 |-> tp2]

\* A long plan with both targets, a short one without the second, and an entry
\* without metadata, as TradeExecutor sends it.
MCPlans == {Plan("long", 2, 4, 5), Plan("short", 4, 2, None), Plan("long", None, None, None)}

\* Quiet, up, down, and a candle wide enough for stop and targets.
MCCandles == {[low |-> 3, high |-> 3], [low |-> 3, high |-> 4],
              [low |-> 2, high |-> 3], [low |-> 1, high |-> 5]}

-----------------------------------------------------------------------------

ExecutionInit ==
  /\ focus \in {"task", "flow", "paper"}
  /\ FlowInit /\ ExchangeInit

\* Bound of the flow: one worker.
OneWorker == \A w \in Workers \ {w1} : run'[w] = run[w]

OfTask(step) ==
  focus = "task" /\ step /\ UNCHANGED <<focus, store, sent, exchangeVars>>
OfFlow(step) ==
  focus = "flow" /\ step /\ OneWorker /\ UNCHANGED <<focus, exchangeVars>>
OfPaper(step) ==
  focus = "paper" /\ step /\ UNCHANGED <<focus, flowVars>>

ExecutionNext ==
  \/ OfTask(Next)
  \/ OfFlow(FlowNext)
  \/ OfPaper(ExchangeNext)

\* The fairness of TradeExecution.
ExecutionFairSpec ==
  /\ ExecutionInit /\ [][ExecutionNext]_executionVars
  /\ \A w \in Workers : WF_executionVars(OfTask(Work(w)))

-----------------------------------------------------------------------------
(* Liveness, of the task *)

\* Every dispatched trade is reported in the end (see Reported).
DispatchesReported == focus = "task" => Reported
=============================================================================
