------------------------------- MODULE DeltaTape -------------------------------
(***************************************************************************)
(* The cumulative delta of one symbol: DeltaService (data/delta_service.py) *)
(* adds the signed volume of new trades to a Redis key, and every scoring   *)
(* cycle (15m and 1h alike) appends it to delta_history and resets it.      *)
(*                                                                         *)
(* A trade has a millisecond and a signed volume; the service recognises    *)
(* trades it has counted by the millisecond alone.  The fetch is the only   *)
(* await of a poll, so a cycle may run between the fetch and the count.     *)
(***************************************************************************)
EXTENDS Integers, Sequences, FiniteSets, SequencesExt, FiniteSetsExt, Functions

CONSTANTS
  TRADE_LIMIT,         \* trades returned by a fetch
  DELTA_HISTORY_SIZE,  \* entries the history keeps
  MaxTrades,           \* bound: trades on the tape
  MaxCycles,           \* bound: scoring cycles
  MaxMishaps           \* bound: failures of any kind

ASSUME TapeAssumption == TRADE_LIMIT \in Nat \ {0} /\ DELTA_HISTORY_SIZE \in Nat \ {0}

VARIABLES
  tape,       \* the exchange's trades, oldest first
  polling,    \* the service runs
  lastTs,     \* _last_trade_id[symbol], 0 for none
  storedTs,   \* delta_last_ts:<symbol>, 0 for none
  fetched,    \* trades of the fetch that is being handled
  delta,      \* delta:<symbol>:5m, 0 when missing
  history,    \* delta_history:<symbol>
  counted,    \* history: how often each trade was added to the delta
  dropped,    \* history: what left the delta or the history other than by a cycle
  cycled,     \* history: cycles so far
  mishaps     \* history: the failures so far

deltaVars == <<tape, polling, lastTs, storedTs, fetched, delta, history, counted,
               dropped, cycled, mishaps>>

DeltaInit ==
  /\ tape = <<>> /\ counted = <<>>
  /\ polling = FALSE /\ lastTs = 0 /\ storedTs = 0 /\ fetched = {}
  /\ delta = 0 /\ history = <<>> /\ dropped = 0 /\ cycled = 0
  /\ mishaps = <<>>

Mishap(kind) == Len(mishaps) < MaxMishaps /\ mishaps' = Append(mishaps, kind)

Volume(trades) == SumFunction([i \in trades |-> tape[i].v])
Total(list) == SumFunction(list)

\* A trade in the millisecond of the one before or later.
Trade ==
  /\ Len(tape) < MaxTrades
  /\ \E v \in {1, -1}, gap \in IF tape = <<>> THEN {1} ELSE {0, 1} :
       tape' = Append(tape, [ts |-> (IF tape = <<>> THEN 0 ELSE Last(tape).ts) + gap, v |-> v])
  /\ counted' = Append(counted, 0)
  /\ UNCHANGED <<polling, lastTs, storedTs, fetched, delta, history, dropped, cycled, mishaps>>

\* Mutant: the stored timestamp is not read.
Start_Forgets ==
  /\ ~polling
  /\ polling' = TRUE
  /\ lastTs' = 0
  /\ UNCHANGED <<tape, storedTs, fetched, delta, history, counted, dropped, cycled, mishaps>>
\* The process starts: what was counted is remembered in Redis only.
Start ==
  /\ ~polling
  /\ polling' = TRUE
  /\ lastTs' = storedTs
  /\ UNCHANGED <<tape, storedTs, fetched, delta, history, counted, dropped, cycled, mishaps>>

\* Redis does not answer: the service begins with nothing counted.
StartBlind ==
  /\ ~polling /\ storedTs # 0
  /\ Mishap("blind")
  /\ polling' = TRUE
  /\ lastTs' = 0
  /\ UNCHANGED <<tape, storedTs, fetched, delta, history, counted, dropped, cycled>>

New(trades) == {i \in trades : tape[i].ts > lastTs}

\* A poll behind which more trades have passed than a fetch returns is late.
Fetch ==
  /\ polling /\ fetched = {}
  /\ fetched' = (1 + Max({0, Len(tape) - TRADE_LIMIT}))..Len(tape)
  /\ fetched' # {}
  /\ IF New(1..Len(tape)) \subseteq fetched' THEN UNCHANGED mishaps ELSE Mishap("late")
  /\ UNCHANGED <<tape, polling, lastTs, storedTs, delta, history, counted, dropped, cycled>>

\* The newest timestamp is remembered, then stored; a failure to store is ignored.
Marked(stamp) ==
  /\ polling /\ fetched # {}
  /\ fetched' = {}
  /\ IF New(fetched) = {} THEN UNCHANGED <<lastTs, storedTs>>
     ELSE /\ lastTs' = Max({tape[i].ts : i \in New(fetched)})
          /\ storedTs' = IF stamp THEN lastTs' ELSE storedTs

Added ==
  /\ delta' = delta + Volume(New(fetched))
  /\ counted' = [i \in DOMAIN counted |-> counted[i] + (IF i \in New(fetched) THEN 1 ELSE 0)]

Count ==
  /\ Marked(TRUE) /\ Added
  /\ UNCHANGED <<tape, polling, history, dropped, cycled, mishaps>>

StampFails ==
  /\ Marked(FALSE) /\ Added /\ New(fetched) # {}
  /\ Mishap("stamp")
  /\ UNCHANGED <<tape, polling, history, dropped, cycled>>

\* Redis fails, or the process ends, between the timestamp and the sum.
AddFails ==
  /\ Marked(TRUE) /\ New(fetched) # {}
  /\ Mishap("add")
  /\ polling' \in BOOLEAN
  /\ UNCHANGED <<tape, delta, history, counted, dropped, cycled>>

StopPolling ==
  /\ polling
  /\ Mishap("stop")
  /\ polling' = FALSE /\ fetched' = {}
  /\ UNCHANGED <<tape, lastTs, storedTs, delta, history, counted, dropped, cycled>>

\* Fifty minutes without a new trade, or five for the delta.
StampExpires ==
  /\ storedTs # 0
  /\ Mishap("expired")
  /\ storedTs' = 0
  /\ UNCHANGED <<tape, polling, lastTs, fetched, delta, history, counted, dropped, cycled>>
DeltaExpires ==
  /\ delta # 0
  /\ Mishap("quiet")
  /\ delta' = 0
  /\ dropped' = dropped + delta
  /\ UNCHANGED <<tape, polling, lastTs, storedTs, fetched, history, counted, cycled>>

Newest(list) == SubSeq(list, Max({1, Len(list) - DELTA_HISTORY_SIZE + 1}), Len(list))

CycleReads ==
  /\ cycled < MaxCycles
  /\ cycled' = cycled + 1
  /\ history' = Newest(Append(history, delta))
  /\ dropped' = dropped + Total(Append(history, delta)) - Total(history')

\* _run_cycle of either timeframe, on the loop of the service.
Cycle ==
  /\ CycleReads
  /\ delta' = 0
  /\ UNCHANGED <<tape, polling, lastTs, storedTs, fetched, counted, mishaps>>

\* The reset raises: the cycle ends, and the delta it recorded stays.
ResetFails ==
  /\ CycleReads
  /\ Mishap("reset")
  /\ UNCHANGED <<tape, polling, lastTs, storedTs, fetched, delta, counted>>

\* A BTC dump resets the deltas of the other symbols (reset_alt_deltas).
DumpReset ==
  /\ delta # 0
  /\ delta' = 0
  /\ dropped' = dropped + delta
  /\ UNCHANGED <<tape, polling, lastTs, storedTs, fetched, history, counted, cycled, mishaps>>

DeltaNext ==
  \/ Trade
  \/ Start
  \/ StartBlind
  \/ Fetch
  \/ Count
  \/ StampFails
  \/ AddFails
  \/ StopPolling
  \/ StampExpires
  \/ DeltaExpires
  \/ Cycle
  \/ ResetFails
  \/ DumpReset

DeltaSpec == DeltaInit /\ [][DeltaNext]_deltaVars

-----------------------------------------------------------------------------
(* Properties *)

Mishaps == {mishaps[k] : k \in DOMAIN mishaps}
Unique(i) == \A j \in DOMAIN tape \ {i} : tape[j].ts # tape[i].ts

\* No trade enters the delta twice across polls, cycles and restarts, as long as its
\* timestamp was stored and is still there when the service starts again.
NotTwice ==
  Mishaps \cap {"blind", "stamp", "expired"} = {} => \A i \in DOMAIN counted : counted[i] <= 1

\* A trade no newer than the newest one counted was counted, unless it shares its
\* millisecond with another, the poll was late or the sum failed: restarts lose none.
NothingSkipped ==
  Mishaps \cap {"late", "add"} = {} =>
    \A i \in DOMAIN tape : tape[i].ts <= lastTs /\ Unique(i) => counted[i] > 0

\* What was counted is in the delta or in the history, once: a cycle that falls
\* between fetch and count moves no trade twice and drops none, whichever timeframe it is of.
HistoryAccounts ==
  "reset" \notin Mishaps =>
    delta + Total(history) + dropped
      = SumFunction([i \in DOMAIN counted |-> counted[i] * tape[i].v])

\* The delta the scoring service reads is made of every trade once: none is added twice, the
\* history and the delta account for what was counted, and none is passed over.
CountedOnce == NotTwice /\ HistoryAccounts /\ NothingSkipped
=============================================================================
