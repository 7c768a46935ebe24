------------------------------- MODULE BtcGuard -------------------------------
(***************************************************************************)
(* BTCVolatilityGuard (engine/btc_guard.py): a BTC candle that moves by two  *)
(* percent starts a cooldown kept in Redis.  OHLCVService checks after every *)
(* BTC candle it stores, the filter of every alt cycle checks again.        *)
(***************************************************************************)
EXTENDS Integers, Sequences, FiniteSets, SequencesExt

CONSTANTS
  PERIOD,     \* ticks of a 15m candle
  COOLDOWN,   \* ticks of COOLDOWN_MINUTES
  MaxTime,    \* bound: ticks
  MaxMishaps  \* bound: failures of any kind

ASSUME GuardAssumption == COOLDOWN \in Nat \ {0}

VARIABLES
  time,     \* ticks
  moves,    \* closed BTC candles, oldest first: flat, dump or pump
  taken,    \* how many of them ohlcv:BTC/USDT:15m holds
  spike,    \* btc_guard:spike
  mishaps   \* history: the failures so far

guardVars == <<time, moves, taken, spike, mishaps>>

NoSpike == [dir |-> "flat", until |-> 0]

GuardInit ==
  /\ time = 0 /\ moves = <<>> /\ taken = 0 /\ spike = NoSpike
  /\ mishaps = {}

Mishap(kind) == Cardinality(mishaps) < MaxMishaps /\ kind \notin mishaps
                /\ mishaps' = mishaps \cup {kind}

CoolingFor(s) == IF time < s.until THEN s.dir ELSE "flat"

\* The candle looked at when n are stored: the second newest.
Examined(n) == IF n < 2 THEN "flat" ELSE moves[n - 1]

\* Mutant: the ring is looked at before the cooldown.
Checked_RingFirst(s, n) ==
  IF Examined(n) # "flat" THEN [dir |-> Examined(n), until |-> time + COOLDOWN] ELSE s
\* check_btc_spike: the spike that is in force afterwards.
Checked(s, n) ==
  IF CoolingFor(s) # "flat" \/ Examined(n) = "flat" THEN s
  ELSE [dir |-> Examined(n), until |-> time + COOLDOWN]

Tick ==
  /\ time < MaxTime
  /\ time' = time + 1
  /\ IF time' % PERIOD = 0 THEN \E m \in {"flat", "dump", "pump"} : moves' = Append(moves, m)
                           ELSE UNCHANGED moves
  /\ UNCHANGED <<taken, spike, mishaps>>

\* A poll stores what has closed and checks after each candle.
Poll ==
  /\ taken < Len(moves)
  /\ taken' = Len(moves)
  /\ spike' = FoldLeft(Checked, spike, [k \in 1..(Len(moves) - taken) |-> taken + k])
  /\ UNCHANGED <<time, moves, mishaps>>

\* The candles are stored and the check fails.
PollUnchecked ==
  /\ taken < Len(moves)
  /\ Mishap("check")
  /\ taken' = Len(moves)
  /\ UNCHANGED <<time, moves, spike>>

GuardNext == Tick \/ Poll \/ PollUnchecked

=============================================================================
