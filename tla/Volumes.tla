-------------------------------- MODULE Volumes --------------------------------
(***************************************************************************)
(* What the engine reads from volumes and deltas: the dynamic threshold of  *)
(* the order flow (engine/order_flow.py), and exhausted and absorbing       *)
(* candles (engine/vsa.py).                                                 *)
(* Fractions are cleared: each operator names its unit.                     *)
(***************************************************************************)
EXTENDS Integers, Sequences, FiniteSets, SequencesExt, FiniteSetsExt, TLC

CONSTANTS
  MIN_HISTORY_POINTS,  \* deltas below which the threshold is fixed
  FALLBACK, FLOOR, CEILING   \* FALLBACK_DELTA_THRESHOLD and the sanity bounds

Sized(n) == IF n < 0 THEN -n ELSE n
Total(s) == FoldSeq(+, 0, s)

\* Four times the 75th percentile as numpy interpolates it.
ThirdQuartile(s) ==
  LET z == SortSeq(s, <)
      at == 3 * (Len(s) - 1)
      k == at \div 4 + 1
  IN 4 * z[k] + (IF at % 4 = 0 THEN 0 ELSE (at % 4) * (z[k + 1] - z[k]))

-----------------------------------------------------------------------------
(* Order flow *)

\* Mutant: the deltas of sellers stay negative.
Moved_Signed(history) == SelectSeq(history, LAMBDA x : x # 0)
\* The sizes of the deltas that are not zero.
Moved(history) == SelectSeq([i \in DOMAIN history |-> Sized(history[i])], LAMBDA x : x # 0)

\* compute_dynamic_delta_threshold, in eighths.
Threshold(history) ==
  IF Len(history) < MIN_HISTORY_POINTS \/ Moved(history) = <<>> THEN 8 * FALLBACK
  ELSE Max({8 * FLOOR, Min({3 * ThirdQuartile(Moved(history)), 8 * CEILING})})

Strong(delta, history) == 8 * delta > Threshold(history)

-----------------------------------------------------------------------------
(* Volume spread: the last candle against the five before it *)

LOOKBACK == 5
Now(volumes) == volumes[Len(volumes)]
Before(volumes) == SubSeq(volumes, Len(volumes) - LOOKBACK, Len(volumes) - 1)

\* detect_no_supply: below two fifths of the impulse.
NoSupply(volumes) ==
  Len(volumes) > LOOKBACK /\ 10 * Now(volumes) < ThirdQuartile(Before(volumes))

\* detect_effort_vs_result: half the volume, three tenths of the ATR.
EffortVsResult(volumes, spread, atr) ==
  /\ Len(volumes) > LOOKBACK /\ atr > 0
  /\ 2 * Now(volumes) < Max({Before(volumes)[i] : i \in 1..LOOKBACK})
  /\ 10 * spread < 3 * atr

\* detect_absorption: half as much again as the average of the last five, half the ATR.
Absorption(volumes, spread, atr) ==
  /\ Len(volumes) >= LOOKBACK /\ atr > 0
  /\ 10 * Now(volumes) > 3 * Total(SubSeq(volumes, Len(volumes) - LOOKBACK + 1, Len(volumes)))
  /\ 2 * spread < atr

-----------------------------------------------------------------------------
(* Properties over bounded inputs *)

\* A delta is called strong only when it stands out: at most a quarter of the history it is
\* compared with, buying or selling, is as large.
StrongIsRare(history) ==
  Len(history) >= MIN_HISTORY_POINTS =>
    \A delta \in 1..CEILING : Strong(delta, history) =>
      4 * Cardinality({i \in DOMAIN history : Sized(history[i]) >= delta}) <= Len(history)

\* A candle without supply is quiet in every reading: it is never absorbing as well, and when it
\* is narrow its effort has no result either.
QuietIsQuiet(volumes) ==
  NoSupply(volumes) => ~Absorption(volumes, 0, 1) /\ EffortVsResult(volumes, 0, 1)
=============================================================================
