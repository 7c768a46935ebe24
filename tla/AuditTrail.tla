------------------------------ MODULE AuditTrail ------------------------------
(***************************************************************************)
(* The audit of signals and trades: AuditClient (audit/client.py) pushes    *)
(* snapshots on the Redis list audit:pending_snapshots, AuditConsumer of    *)
(* the mock exchange takes them one by one, SignalAuditor records them and  *)
(* looks up the price 15, 60 and 240 minutes later, NoSignalAuditor and     *)
(* TradeAuditor judge what came of them.                                    *)
(*                                                                         *)
(* The market after a snapshot went "up" to the targets of a long or "down" *)
(* to those of a short.  The clock counts the windows T1, T4 and T16.       *)
(***************************************************************************)
EXTENDS Integers, Sequences, FiniteSets, SequencesExt

CONSTANTS
  Markets,       \* where the market may go after a snapshot
  MaxSnapshots,  \* bound: snapshots taken
  MaxClosed,     \* bound: trades closed
  MaxClock,      \* bound: the last window
  MaxAuditFaults \* bound: failed calls and crashes

VARIABLES
  clock,         \* windows since the start
  up,            \* the mock exchange runs
  queue,         \* audit:pending_snapshots
  hand,          \* what the consumer has taken, as a sequence of at most one
  log,           \* signal_audit_log
  jobs,          \* price checks scheduled or running: [id, window]
  backlog,       \* records of the startup backfill -> the window they are at
  entries,       \* no_signal_audit_log: ids of records, oldest first
  trades,        \* trade_audit_log: [trade, reason, verdict]
  taken,         \* history: snapshots taken
  closedTrades,  \* history: trades closed
  auditFaults    \* history: faults so far

auditVars == <<clock, up, queue, hand, log, jobs, backlog, entries, trades, taken,
               closedTrades, auditFaults>>

Windows == {1, 2, 3}    \* T1, T4, T16
NoJudgement == "none"

AuditInit ==
  /\ clock = 0 /\ up = TRUE /\ queue = <<>> /\ hand = <<>>
  /\ log = <<>> /\ jobs = {} /\ backlog = [i \in {} |-> 0]
  /\ entries = <<>> /\ trades = <<>> /\ taken = 0 /\ closedTrades = 0 /\ auditFaults = 0

AuditFault == auditFaults < MaxAuditFaults /\ auditFaults' = auditFaults + 1

-----------------------------------------------------------------------------
(* The producers: scoring service and position tracker *)

\* A signal a filter blocked has no levels.
Kinds == {"SIGNAL", "NO_SIGNAL", "BLOCKED"}

\* A push that fails is logged and forgotten.
TakeSnapshot ==
  /\ taken < MaxSnapshots
  /\ taken' = taken + 1
  /\ \/ \E dir \in {"long", "short"}, market \in Markets, kind \in Kinds :
          queue' = Append(queue, [type |-> "signal", dir |-> dir, market |-> market,
                                  kind |-> kind, at |-> clock])
        /\ UNCHANGED auditFaults
     \/ AuditFault /\ UNCHANGED queue
  /\ UNCHANGED <<clock, up, hand, log, jobs, backlog, entries, trades, closedTrades>>

CloseTrade ==
  /\ closedTrades < MaxClosed
  /\ closedTrades' = closedTrades + 1
  /\ \E reason \in {"TP1_HIT", "SL_HIT", "MANUAL_CLOSE"}, id \in 0..Len(log) :
       queue' = Append(queue, [type |-> "trade", trade |-> closedTrades', reason |-> reason,
                               id |-> id])
  /\ UNCHANGED <<clock, up, hand, log, jobs, backlog, entries, trades, taken, auditFaults>>

-----------------------------------------------------------------------------
(* AuditConsumer, SignalAuditor.process, TradeAuditor *)

\* BLPOP: the event is gone from Redis before it is handled.
Consume ==
  /\ up /\ backlog = [i \in {} |-> 0] /\ hand = <<>> /\ queue # <<>>
  /\ hand' = <<Head(queue)>> /\ queue' = Tail(queue)
  /\ UNCHANGED <<clock, up, log, jobs, backlog, entries, trades, taken, closedTrades, auditFaults>>

Due(i, window) == log[i].at + window <= clock
Jobs(i) == {[id |-> i, window |-> w] : w \in Windows}

\* raced: T4 and T16 are started at once, the record being old already.
\* lost: T16 was skipped or could not be stored since the process was started.
Record(s) == [dir |-> s.dir, market |-> s.market, kind |-> s.kind, at |-> s.at,
              status |-> "PENDING", priced |-> {}, hit |-> NoJudgement, judgedAs |-> NoJudgement,
              raced |-> s.at + 3 <= clock, lost |-> FALSE]

HandleSignal ==
  /\ hand # <<>> /\ hand[1].type = "signal"
  /\ hand' = <<>>
  /\ \/ /\ log' = Append(log, Record(hand[1]))
        /\ jobs' = jobs \cup Jobs(Len(log'))
        /\ UNCHANGED auditFaults
     \/ AuditFault /\ UNCHANGED <<log, jobs>>
  /\ UNCHANGED <<clock, up, queue, backlog, entries, trades, taken, closedTrades>>

Levels(r) == r.kind # "BLOCKED"

\* The range since the snapshot reaches tp1, looked at in this direction.
Reached(r, dir) == IF (dir = "long") = (r.market = "up") THEN "hit" ELSE "missed"

\* A stop is premature when the price of T4, if known by now, is back above the entry.
Verdict(reason, id) ==
  CASE reason = "TP1_HIT" -> "TRUE_POSITIVE"
    [] reason = "SL_HIT" /\ id # 0 /\ 2 \in log[id].priced
         /\ Reached(log[id], log[id].dir) = "hit" -> "PREMATURE_SL"
    [] reason = "SL_HIT" -> "FALSE_POSITIVE"
    [] OTHER -> NoJudgement

\* The row of the trade is created when it closes; the snapshot counts as followed up.
HandleTrade ==
  /\ hand # <<>> /\ hand[1].type = "trade"
  /\ hand' = <<>>
  /\ LET id == hand[1].id
     IN /\ trades' = Append(trades, [trade |-> hand[1].trade, reason |-> hand[1].reason,
                                     verdict |-> Verdict(hand[1].reason, id)])
        /\ log' = IF id # 0 /\ log[id].status = "PENDING"
                  THEN [log EXCEPT ![id].status = "PARTIAL"] ELSE log
  /\ UNCHANGED <<clock, up, queue, jobs, backlog, entries, taken, closedTrades, auditFaults>>

-----------------------------------------------------------------------------
(* _fetch_t1, _fetch_t4, _fetch_t16 and the startup backfill *)

\* T1 leaves a status that is no longer pending alone, T4 does not.
Priced(i, window) ==
  [log EXCEPT ![i].priced = @ \cup {window},
              ![i].status = IF window = 2 \/ @ = "PENDING" THEN "PARTIAL" ELSE @]

\* The snapshot that is pushed says no direction and the record has no column for it.
AssumedDir == "long"

\* Mutant: without a price the record is left as it is.
Completed_PricedOnly(i, price, range) ==
  IF ~price THEN log
  ELSE [log EXCEPT ![i].priced = @ \cup {3},
                   ![i].hit = IF range /\ Levels(log[i]) THEN Reached(log[i], AssumedDir) ELSE @,
                   ![i].judgedAs = IF range /\ Levels(log[i]) THEN AssumedDir ELSE @,
                   ![i].status = "COMPLETE"]
\* T16 completes the record whatever could be fetched.
Completed(i, price, range) ==
  [log EXCEPT ![i].priced = IF price THEN @ \cup {3} ELSE @,
              ![i].hit = IF range /\ Levels(log[i]) THEN Reached(log[i], AssumedDir) ELSE @,
              ![i].judgedAs = IF range /\ Levels(log[i]) THEN AssumedDir ELSE @,
              ![i].status = "COMPLETE"]

\* A price that cannot be fetched is not asked for again.  The last disjunct is also the
\* database write that fails, which is rolled back and logged, and the job that the scheduler
\* skips as more than misfire_grace_time too late: nothing tries this check again.
Check(i, window) ==
  \/ /\ window = 3
     /\ \E price, range \in BOOLEAN :
          /\ log' = Completed(i, price, range)
          /\ IF price /\ range THEN UNCHANGED auditFaults ELSE AuditFault
  \/ window # 3 /\ log' = Priced(i, window) /\ UNCHANGED auditFaults
  \/ AuditFault /\ log' = [log EXCEPT ![i].lost = @ \/ window = 3]

RunJob ==
  /\ \E job \in jobs :
       /\ Due(job.id, job.window)
       /\ Check(job.id, job.window)
       /\ jobs' = jobs \ {job}
  /\ UNCHANGED <<clock, up, queue, hand, backlog, entries, trades, taken, closedTrades>>

\* One record and window: a window that is due and has no price is looked up.
Backfill(i) ==
  /\ IF Due(i, backlog[i]) /\ backlog[i] \notin log[i].priced
     THEN Check(i, backlog[i]) ELSE UNCHANGED <<log, auditFaults>>
  /\ backlog' = [backlog EXCEPT ![i] = @ + 1]
  /\ UNCHANGED <<clock, up, queue, hand, jobs, entries, trades, taken, closedTrades>>

\* All three checks are scheduled again, those already due to run at once.
Reschedule(i) ==
  /\ jobs' = jobs \cup Jobs(i)
  /\ log' = [log EXCEPT ![i].raced = @ \/ Due(i, 3)]
  /\ backlog' = [k \in DOMAIN backlog \ {i} |-> backlog[k]]
  /\ UNCHANGED <<clock, up, queue, hand, entries, trades, taken, closedTrades, auditFaults>>

BackfillStep ==
  /\ up
  /\ \E i \in DOMAIN backlog : IF backlog[i] = 4 THEN Reschedule(i) ELSE Backfill(i)

-----------------------------------------------------------------------------
(* NoSignalAuditor *)

\* What came to nothing, is complete and had levels to look for.
NoSignal(i) == log[i].status = "COMPLETE" /\ log[i].kind # "SIGNAL" /\ log[i].hit # NoJudgement

\* Mutant: what has an entry is not looked up.
Judged_Again == {i \in DOMAIN log : NoSignal(i)}
Judged == {i \in DOMAIN log : NoSignal(i)} \ Range(entries)

Counterfactual ==
  /\ up /\ backlog = [i \in {} |-> 0]
  /\ Len(entries) <= MaxSnapshots
  /\ \E i \in Judged : entries' = Append(entries, i)
  /\ UNCHANGED <<clock, up, queue, hand, log, jobs, backlog, trades, taken, closedTrades,
                 auditFaults>>

-----------------------------------------------------------------------------

\* The scheduler runs a check in the window it is due.
Tick ==
  /\ clock < MaxClock
  /\ \A job \in jobs : ~Due(job.id, job.window)
  /\ backlog = [i \in {} |-> 0]
  /\ clock' = clock + 1
  /\ UNCHANGED <<up, queue, hand, log, jobs, backlog, entries, trades, taken, closedTrades,
                 auditFaults>>

\* The jobs are in memory only, and the event in hand is lost.
Crash ==
  /\ up /\ AuditFault
  /\ up' = FALSE /\ hand' = <<>> /\ jobs' = {} /\ backlog' = [i \in {} |-> 0]
  /\ UNCHANGED <<clock, queue, log, entries, trades, taken, closedTrades>>

\* Mutant: what T1 or T4 has touched is taken to be in hand.
Unfinished_Pending == {i \in DOMAIN log : log[i].status = "PENDING"}
Unfinished_All == DOMAIN log
Unfinished == {i \in DOMAIN log : log[i].status # "COMPLETE"}

StartService ==
  /\ ~up /\ up' = TRUE
  /\ backlog' = [i \in Unfinished |-> 1]
  /\ log' = [i \in DOMAIN log |-> [log[i] EXCEPT !.lost = FALSE]]
  /\ UNCHANGED <<clock, queue, hand, jobs, entries, trades, taken, closedTrades, auditFaults>>

Run ==
  \/ Consume \/ HandleSignal \/ HandleTrade \/ RunJob
  \/ BackfillStep \/ Counterfactual \/ StartService

AuditNext ==
  \/ TakeSnapshot
  \/ CloseTrade
  \/ Consume
  \/ HandleSignal
  \/ HandleTrade
  \/ RunJob
  \/ BackfillStep
  \/ Counterfactual
  \/ Tick
  \/ Crash
  \/ StartService

AuditSpec == AuditInit /\ [][AuditNext]_auditVars

\* The process is restarted when it stops, its loops and jobs run, and time passes.
AuditFairSpec == AuditSpec /\ WF_auditVars(Run) /\ WF_auditVars(Tick)

-----------------------------------------------------------------------------
(* Properties *)

\* A record that is complete stays so: the checks come in order, unless they were all due
\* when they were started (a backlog, a restart) and T4 overtakes T16.
CompleteStays ==
  [][\A i \in DOMAIN log :
       log[i].status = "COMPLETE" /\ ~log[i].raced => log'[i].status = "COMPLETE"]_auditVars

\* The targets of a short are looked for below its entry, those of a long above.
JudgedOwnWay == \A i \in DOMAIN log : log[i].judgedAs \in {NoJudgement, log[i].dir}

\* Every snapshot has one counterfactual entry at the most, although T16 may be run
\* again, and only one whose targets were looked at.
CounterfactualOnce ==
  /\ \A j, k \in DOMAIN entries : j # k => entries[j] # entries[k]
  /\ \A k \in DOMAIN entries : log[entries[k]].hit # NoJudgement

\* Every recorded snapshot is completed, through failed lookups and crashes, as the backfill
\* takes up what the lost jobs leave.  Two may stay partial until the next restart: one whose
\* checks were all started late so that T4 may overtake T16, and one whose T16 the running
\* process has lost, to the scheduler or to a write that was rolled back.
AuditCompletes ==
  \A i \in 1..MaxSnapshots :
    (i \in DOMAIN log /\ log[i].at + 3 <= MaxClock)
      ~> (i \in DOMAIN log
            /\ (log[i].status = "COMPLETE" \/ log[i].raced \/ (log[i].lost /\ up)))

=============================================================================
