------------------------------- MODULE TradeFlow -------------------------------
(***************************************************************************)
(* The dashboard API and the execution worker together: a confirm request  *)
(* puts a task on the queue, the worker's trade_executed event comes back  *)
(* through the alerts channel, and the execution endpoint reads the status *)
(* key first and the store second.                                         *)
(***************************************************************************)
EXTENDS TradeExecution

CONSTANTS
  Conns, Requests, MayRestart   \* see SignalStore

ASSUME FlowAssumption ==
  /\ IsFiniteSet(Conns)
  /\ MayRestart \in BOOLEAN

VARIABLES
  active, connected, inbox, request, alerted, skipped,   \* see SignalStore
  sent   \* what was dispatched: the kind of entry each task was given

store == <<active, connected, inbox, request, alerted, skipped>>
flowVars == <<store, vars, sent>>

API == INSTANCE SignalStore

FlowInit ==
  /\ API!Init
  /\ Init
  /\ sent = [s \in Signals |-> {}]

\* confirm_signal after its await, with execute_trade.delay.
DispatchRequest(r) ==
  /\ API!Executing(r)
  /\ Dispatch(request[r].sig)
  /\ sent' = [sent EXCEPT ![request[r].sig] = @ \cup {request[r].kind}]

\* _publish_execution_result reaches the connected dashboards.
PublishExecutionResult(w) ==
  /\ PublishResult(w)
  /\ API!PublishResult(run[w].sig)
  /\ UNCHANGED sent

PublishFailure(w) ==
  /\ RetryTask(w)
  /\ API!PublishResult(run[w].sig)
  /\ UNCHANGED sent

WorkAlone(w) ==
  /\ \/ Take(w) \/ Prepare(w) \/ SetupFails(w) \/ ReportFailure(w)
     \/ SubmitOk(w) \/ SubmitRaises(w)
     \/ RecordEntry(w) \/ RegisterPosition(w) \/ Finish(w)
     \/ Acknowledge(w) \/ LoseWorker(w)
  /\ UNCHANGED <<store, sent>>

FlowNext ==
  \/ API!Local /\ UNCHANGED <<vars, sent>>
  \/ \E r \in Requests : DispatchRequest(r)
  \/ \E w \in Workers : PublishExecutionResult(w) \/ PublishFailure(w) \/ WorkAlone(w)

FlowSpec == FlowInit /\ [][FlowNext]_flowVars

-----------------------------------------------------------------------------

\* The worker only ever gets a signal card with prices, never an execution event
\* that took the card's place in the store (alert_stream, confirm_signal).
OnlyCardsDispatched == \A s \in Signals : "result" \notin sent[s]

\* With one dashboard, a signal that was skipped and never confirmed stays out of the
\* store: a confirm request overtaken by the skip marks only its own dictionary
\* (confirm_signal, skip_signal).
UnconfirmedSkipStays ==
  Cardinality(Conns) = 1 =>
    \A s \in skipped : dispatched[s] = 0 => active[s] = "absent"

=============================================================================
