------------------------------- MODULE Labelling -------------------------------
(***************************************************************************)
(* How the tuning scripts label a signal from the candles after it         *)
(* (tuning/outcome_loader.py), beside the backtest that trades on the same *)
(* market.  The loader takes candles of five minutes, the first 96 from the *)
(* signal on; the backtest those of its strategy, without a limit, each of *)
(* one or several of the loader's.  In which order several of them touch   *)
(* the two levels inside one candle of the backtest is left open.          *)
(***************************************************************************)
EXTENDS Backtest

CONSTANT
  OUTCOME_WINDOW   \* OUTCOME_WINDOW_CANDLES, and MIN_SIGNAL_AGE_HOURS, in the backtest's candles

ASSUME WindowAssumption == OUTCOME_WINDOW \in Nat \ {0}

\* Mutant: all candles since the signal are looked at.
Touches_All(candles, level, above) ==
  {i \in DOMAIN candles : IF above THEN candles[i].h >= level ELSE candles[i].l <= level}
\* The candles fetched that touch a level.
Touches(candles, level, above) ==
  {i \in 1..OUTCOME_WINDOW : IF above THEN candles[i].h >= level ELSE candles[i].l <= level}

\* Mutant: a candle of five minutes that touches both is a win.
Outcomes_TargetFirst(candles, finer, direction, stop, target) ==
  LET won == Touches(candles, target, direction = "long")
      lost == Touches(candles, stop, direction = "short")
  IN IF Len(candles) < OUTCOME_WINDOW \/ won \cup lost = {} THEN {"PENDING"}
     ELSE IF won # {} /\ (lost = {} \/ Min(won) <= Min(lost)) THEN {"WIN"} ELSE {"LOSS"}
\* The labels a signal may get.  A younger one is not looked at; one of the loader's candles that
\* touches both is a loss; of finer ones either may be the first.
Outcomes(candles, finer, direction, stop, target) ==
  LET won == Touches(candles, target, direction = "long")
      lost == Touches(candles, stop, direction = "short")
  IN CASE Len(candles) < OUTCOME_WINDOW \/ won \cup lost = {} -> {"PENDING"}
       [] OTHER -> IF won # {} /\ (lost = {} \/ Min(won) < Min(lost)) THEN {"WIN"}
                   ELSE IF finer /\ won # {} /\ Min(won) = Min(lost) THEN {"WIN", "LOSS"}
                   ELSE {"LOSS"}

After(t) == SubSeq(data, t.entered + 2, Len(data))
LabelsOf(t, finer) == Outcomes(After(t), finer, t.direction, t.stop, t.tp1)

\* How a trade ended, as far as the loader looks.
EndOf(t, finer) ==
  IF Len(data) - t.entered - 1 < OUTCOME_WINDOW \/ t.exited - t.entered > OUTCOME_WINDOW
  THEN {"PENDING"}
  ELSE CASE t.reason = "tp1" -> {"WIN"}
         [] t.reason = "sl"  -> {"LOSS"} \cup {l \in {"WIN"} : finer /\ Reached(t, data[t.exited + 1])}
         [] OTHER            -> {"PENDING"}

\* The tuner and the backtest differ on what became of a trade in three cases only: while the
\* signal is too young, when the trade was held for longer than the loader looks (both are pending
\* to the tuner), and when the candle it ended on reached the stop and the target, the target
\* first: a loss of the backtest and a win of the tuner.  Otherwise a trade is labelled a win
\* exactly when it ended at its target and a loss exactly when it ended at its stop, however many
\* candles arrived since.
LabelledAsTested ==
  \A i \in DOMAIN results, finer \in BOOLEAN : LabelsOf(results[i], finer) = EndOf(results[i], finer)

\* What a backtest reports can be relied on: every trade it opened is there once, in order and
\* one at a time; none is flattered by the order of events inside a candle; and the tuner, which
\* looks at the same market by rules of its own, differs on no trade that ended where it looks,
\* but for that order.
TestIsHonest == TradesAccounted /\ StopsComeFirst /\ LabelledAsTested
=============================================================================
