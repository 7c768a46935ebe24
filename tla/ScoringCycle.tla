----------------------------- MODULE ScoringCycle -----------------------------
(***************************************************************************)
(* ScoringService._run_cycle (engine/scoring_service.py) with its filters   *)
(* (engine/filters), on the loop that also polls the BTC candles: a cycle   *)
(* has no await, so it is one step.  The breaker and the cached trading     *)
(* parameters change between cycles (CircuitBreaker, ConfigStore).          *)
(***************************************************************************)
EXTENDS Scores, BtcGuard

CONSTANTS
  Symbols, BTC,    \* the assets, and the one the guard never filters
  Inputs,          \* the readings of a cycle
  Settings,        \* thresholds the API lets a user save
  FilterLists,     \* active filters: sets of names
  NoAlert,         \* no alert
  MaxCycles        \* bound: cycles

ASSUME ScoringAssumption ==
  /\ \A r \in Inputs : IsReading(r)
  /\ \A t \in Settings : t.alert \in Int /\ t.watch \in Int

VARIABLES
  filters,     \* filters.active
  locked,      \* the circuit breaker is locked
  thresholds,  \* thresholds in _tp_cache
  runs,        \* cycles so far
  snapshots,   \* audit snapshots emitted
  lost,        \* history: cycles that raised
  alert        \* the alert the step before has published

cycleVars == <<filters, locked, thresholds, runs, snapshots, lost, alert>>
scoringVars == <<guardVars, cycleVars>>

Known == {"mtf_bias", "btc_guard", "circuit_breaker", "daily_bias"}

ScoringInit ==
  /\ GuardInit
  /\ filters \in FilterLists
  /\ locked = FALSE
  /\ thresholds = Defaults
  /\ runs = 0 /\ snapshots = 0 /\ lost = 0
  /\ alert = NoAlert

LockTurns ==
  /\ locked' = ~locked /\ alert' = NoAlert
  /\ UNCHANGED <<guardVars, filters, thresholds, runs, snapshots, lost>>

\* The parameters are saved, and the cache is refreshed.
Retune ==
  /\ thresholds' \in Settings
  /\ thresholds' # thresholds /\ alert' = NoAlert
  /\ UNCHANGED <<guardVars, filters, locked, runs, snapshots, lost>>

-----------------------------------------------------------------------------
(* The filters *)

AlignedAs(r) ==
  IF "mtf_bias" \in filters THEN Alignment(r.bias4h, Direction(r)) ELSE "clean"

\* The guard runs for every symbol but BTC, unless an earlier filter has blocked.
Guarded(symbol, r) ==
  symbol # BTC /\ "btc_guard" \in filters /\ taken > 0 /\ AlignedAs(r) # "opposing"
\* The spike in force after the filter; guard is what it makes of it.
AfterGuard(symbol, r) == IF Guarded(symbol, r) THEN Checked(spike, taken) ELSE spike
Answer(symbol, r) == IF Guarded(symbol, r) THEN CoolingFor(AfterGuard(symbol, r)) ELSE "flat"
\* Redis does not answer: only the candles speak.
BlindAnswer(symbol, r) == IF Guarded(symbol, r) THEN Examined(taken) ELSE "flat"

\* The reason of the first filter that blocks.
Blocked(r, guard) ==
  IF AlignedAs(r) = "opposing" THEN "MTF_BLOCK"
  ELSE IF guard = "dump" THEN "BTC_GUARD"
  ELSE IF "circuit_breaker" \in filters /\ locked THEN "CB_LOCKED"
  ELSE "none"

\* The size multiplier of a signal, in 512ths.
Size(r, guard) ==
  AlignmentSize(AlignedAs(r)) * (IF guard = "pump" THEN 4 ELSE 8)
    * (IF "daily_bias" \in filters THEN DailySize(r.daily, Direction(r)) ELSE 8)

-----------------------------------------------------------------------------
(* The cycle *)

Adj(r) == Adjustment(AlignedAs(r))
Kind(r) == IF Class(Final(r), Adj(r), thresholds) = "ALERT" THEN "SIGNAL" ELSE "NO_SIGNAL"

\* An alert goes out for a class, a valid stop and enough reward.
Alerts(r) == Kind(r) = "SIGNAL" /\ r.atr > 0 /\ r.rewarding

AlertOf(symbol, r, guard) ==
  [symbol |-> symbol, size |-> Size(r, guard), book |-> r.book, adj |-> Adj(r),
   asked |-> thresholds.alert, score |-> Adjusted(Final(r), Adj(r))]

Begins ==
  /\ runs < MaxCycles
  /\ runs' = runs + 1
  /\ UNCHANGED <<time, moves, taken, filters, locked, thresholds>>

\* A filter blocks: a log line, a snapshot, and nothing else.
Block(symbol, r) ==
  /\ Begins /\ filters \subseteq Known
  /\ spike' = AfterGuard(symbol, r)
  /\ Blocked(r, Answer(symbol, r)) # "none"
  /\ snapshots' = snapshots + 1
  /\ alert' = NoAlert
  /\ UNCHANGED <<lost, mishaps>>

\* The signal is scored, then audited, and alerted with its size when it deserves it.
GoesOn(symbol, r, guard, published) ==
  /\ Begins /\ filters \subseteq Known
  /\ Usable(thresholds)
  /\ snapshots' = snapshots + 1
  /\ alert' = IF Alerts(r) /\ published THEN AlertOf(symbol, r, guard) ELSE NoAlert
  /\ UNCHANGED lost
Completes(symbol, r, guard, published) ==
  Blocked(r, guard) = "none" /\ GoesOn(symbol, r, guard, published)

Scored(symbol, r) ==
  /\ Completes(symbol, r, Answer(symbol, r), TRUE)
  /\ spike' = AfterGuard(symbol, r)
  /\ UNCHANGED mishaps

\* The database refuses the row: the signal goes on without one.
Unstored(symbol, r) ==
  /\ Mishap("row")
  /\ Completes(symbol, r, Answer(symbol, r), TRUE)
  /\ spike' = AfterGuard(symbol, r)

\* The alert cannot be published: everything before it stays.
Unpublished(symbol, r) ==
  /\ Mishap("publish") /\ Alerts(r)
  /\ Completes(symbol, r, Answer(symbol, r), FALSE)
  /\ spike' = AfterGuard(symbol, r)

\* The guard cannot read the spike, and lets the signal through.
Unguarded(symbol, r) ==
  /\ Mishap("blind") /\ Guarded(symbol, r)
  /\ Completes(symbol, r, BlindAnswer(symbol, r), TRUE)
  /\ UNCHANGED spike

\* The breaker's flag cannot be read: its filter, the last to block, lets the signal through.
Unchecked(symbol, r) ==
  /\ Mishap("breaker") /\ Blocked(r, Answer(symbol, r)) = "CB_LOCKED"
  /\ GoesOn(symbol, r, Answer(symbol, r), TRUE)
  /\ spike' = AfterGuard(symbol, r)

\* Redis fails inside the cycle, before the guard has run or after.
Interrupted(symbol, r) ==
  /\ Begins
  /\ Mishap("interrupted")
  /\ spike' \in {spike, AfterGuard(symbol, r)}
  /\ alert' = NoAlert
  /\ lost' = lost + 1
  /\ UNCHANGED snapshots

\* The list names a filter that does not exist, or the scorer refuses the thresholds.
Refused(symbol, r) ==
  /\ Begins
  /\ IF filters \subseteq Known
     THEN /\ ~Usable(thresholds) /\ Blocked(r, Answer(symbol, r)) = "none"
          /\ spike' = AfterGuard(symbol, r)
     ELSE UNCHANGED spike
  /\ alert' = NoAlert
  /\ lost' = lost + 1
  /\ UNCHANGED <<snapshots, mishaps>>

ScoringNext ==
  \/ /\ GuardNext
     /\ alert' = NoAlert
     /\ UNCHANGED <<filters, locked, thresholds, runs, snapshots, lost>>
  \/ LockTurns
  \/ Retune
  \/ \E symbol \in Symbols, r \in Inputs :
       \/ Block(symbol, r)
       \/ Scored(symbol, r)
       \/ Unstored(symbol, r)
       \/ Unpublished(symbol, r)
       \/ Unguarded(symbol, r)
       \/ Unchecked(symbol, r)
       \/ Interrupted(symbol, r)
       \/ Refused(symbol, r)

ScoringSpec == ScoringInit /\ [][ScoringNext]_scoringVars

-----------------------------------------------------------------------------
(* Properties *)

Alerted == runs' # runs /\ alert' # NoAlert

\* No alt alert leaves a cycle while the guard cools down from a dump, or while the candle
\* it examines is one and no pump came before; none leaves while the breaker is locked.
\* Only a guard or a breaker that cannot be read in this very cycle lets one through.
NothingPastTheGuards ==
  [][Alerted /\ filters = Known =>
       /\ "breaker" \notin mishaps' \ mishaps => ~locked
       /\ "blind" \notin mishaps' \ mishaps /\ alert'.symbol # BTC =>
            /\ CoolingFor(spike) # "dump"
            /\ Examined(taken) = "dump" => CoolingFor(spike) = "pump" /\ alert'.size <= 256
    ]_scoringVars

\* Without an order book a signal alerts only where the user has asked for alerts at sixty or
\* less, and never because the 4h bias lifts it.
BlindScoresAreCapped ==
  alert # NoAlert /\ ~alert.book =>
    alert.score <= 60 /\ alert.adj <= 0 /\ alert.asked <= 60
=============================================================================
