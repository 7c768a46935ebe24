------------------------------ MODULE MCPipelines ------------------------------
(***************************************************************************)
(* The pipelines that hand work from process to process - the candles and    *)
(* the audit - checked in one run: a behaviour picks one and leaves the     *)
(* other alone, and only the one it picks is fair.                          *)
(***************************************************************************)
EXTENDS CandlePipeline, AuditTrail, TLC

VARIABLE focus

pipeVars == <<focus, vars, auditVars>>

PipeInit ==
  /\ focus \in {"candles", "audit"}
  /\ Init /\ AuditInit

OfCandles(step) == focus = "candles" /\ step /\ UNCHANGED <<focus, auditVars>>
OfAudit(step) == focus = "audit" /\ step /\ UNCHANGED <<focus, vars>>

PipeNext ==
  \/ OfCandles(Next)
  \/ OfAudit(AuditNext)

PipeSpec == PipeInit /\ [][PipeNext]_pipeVars

\* The fairness of CandlePipeline and of AuditTrail.
PipeFairSpec ==
  /\ PipeSpec
  /\ WF_pipeVars(OfCandles(Serve))
  /\ WF_pipeVars(OfAudit(Run)) /\ WF_pipeVars(OfAudit(Tick))

-----------------------------------------------------------------------------
(* Liveness, of the pipeline the behaviour is about *)

\* A candle that closes reaches the ring.
EveryCandleArrives == focus = "candles" => CandlesArrive
\* Every recorded snapshot is completed.
EverySnapshotCompletes == focus = "audit" => AuditCompletes
=============================================================================
