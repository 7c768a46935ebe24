-------------------------------- MODULE Scores --------------------------------
(***************************************************************************)
(* How one scoring cycle turns what it has detected into points, a final    *)
(* score and a class: engine/order_flow.py, smc.py, vsa.py, context.py,     *)
(* confluence.py, regime_detector.py, mtf_bias.py and scorer.py.            *)
(*                                                                         *)
(* A reading is a record of findings.  Points are counted in thirds, since  *)
(* the confluence bonus is a third of whole points; the module weights keep *)
(* their default, one.                                                      *)
(***************************************************************************)
EXTENDS Integers, FiniteSets

\* What every reading has: findings, and the bonus.
IsReading(r) ==
  /\ {r.strong, r.dominant, r.absorbed, r.retest, r.gap, r.dry, r.effort, r.neutral, r.away,
      r.parabolic, r.book} \subseteq BOOLEAN
  /\ r.best \in Nat

Thirds(n) == 3 * n
When(finding, points) == IF finding THEN points ELSE 0
Capped(n, most) == IF n > most THEN most ELSE n

OrderFlow(r) ==
  Capped(When(r.strong, 15) + When(r.dominant, 10) + When(r.absorbed, 10), 35)

Aligned(side, bias) == bias # "neutral" /\ side = bias

\* _run_cycle: short needs a bearish break under a bearish 1h bias; the rest is long.
Direction(r) == IF r.choch = "bearish" /\ r.htf = "bearish" THEN "short" ELSE "long"
Side(direction) == IF direction = "long" THEN "bullish" ELSE "bearish"

Smc(r) ==
  Capped(When(Aligned(r.choch, r.htf), 10) + When(r.retest, 10) + When(r.gap, 10), 30)

Vsa(r) ==
  Capped(When(r.dry, 10) + When(r.effort, 10)
         + (CASE r.spot = "poc" -> 10 [] r.spot = "edge" -> 6 [] OTHER -> 0), 30)

Context(r) ==
  Capped(When(Aligned(Side(Direction(r)), r.htf), 8) + When(r.neutral, 4) + When(r.away, 3), 15)

\* RegimeDetector.classify: the spike of the ATR comes first.
Regime(parabolic, adx) ==
  IF parabolic THEN "PARABOLIC"
  ELSE CASE adx = "high" -> "TRENDING" [] adx = "low" -> "CHOPPY" [] OTHER -> "RANGING"
Multiplier(regime) ==
  CASE regime = "TRENDING" -> 100 [] regime = "PARABOLIC" -> 60 [] OTHER -> 85

\* best is the bonus before its division by 45 * 15, which makes thirds of it.
Raw(r) ==
  Thirds(OrderFlow(r) + Smc(r) + Vsa(r) + Context(r)) + Capped(r.best, 45)

Rounded(n, d) == (2 * n + d) \div (2 * d)

Suppressed(r) == Regime(r.parabolic, r.adx) = "PARABOLIC" /\ Direction(r) = "short"

NO_BOOK_CAP == 60

\* Mutant: the cap is for readings that have a book.
Final_CapSwapped(r) ==
  LET n == Rounded(Raw(r) * Multiplier(Regime(r.parabolic, r.adx)), 375)
  IN IF Suppressed(r) THEN 0 ELSE Capped(Capped(n, 100), IF r.book THEN NO_BOOK_CAP ELSE 100)
\* Mutant: the cap is missing.
Final_NoCap(r) ==
  IF Suppressed(r) THEN 0
  ELSE Capped(Rounded(Raw(r) * Multiplier(Regime(r.parabolic, r.adx)), 375), 100)
Final(r) ==
  LET n == Rounded(Raw(r) * Multiplier(Regime(r.parabolic, r.adx)), 375)
  IN IF Suppressed(r) THEN 0 ELSE Capped(Capped(n, 100), IF r.book THEN 100 ELSE NO_BOOK_CAP)

Thresholds(alert, watch) == [alert |-> alert, watch |-> watch]
Defaults == Thresholds(75, 55)
\* SignalScorer refuses the others.
Usable(t) == t.watch < t.alert
Classify(score, t) ==
  IF score >= t.alert THEN "ALERT" ELSE IF score >= t.watch THEN "WATCH" ELSE "IGNORE"

\* get_mtf_alignment: what the 4h bias does to a signal.
Alignment(bias4h, direction) ==
  CASE bias4h = "none" -> "clean"
    [] bias4h = "ranging" -> "diverging"
    [] bias4h = Side(direction) -> "aligned"
    [] OTHER -> "opposing"
Adjustment(alignment) ==
  CASE alignment = "aligned" -> 10 [] alignment = "diverging" -> -10 [] OTHER -> 0
\* Sizes in eighths.
AlignmentSize(alignment) == IF alignment = "diverging" THEN 4 ELSE 8
DailySize(daily, direction) == IF daily = "BEAR" /\ direction = "long" THEN 6 ELSE 8

Clamped(n) == IF n < 0 THEN 0 ELSE Capped(n, 100)
\* An adjusted score is classified with the default thresholds.
Adjusted(score, adj) == IF adj = 0 THEN score ELSE Clamped(score + adj)
Class(score, adj, t) == Classify(Adjusted(score, adj), IF adj = 0 THEN t ELSE Defaults)

-----------------------------------------------------------------------------
(* Properties of a reading *)

Biases == {"bullish", "bearish", "neutral"}
AllReadings ==
  [choch : {"bullish", "bearish", "none"}, htf : Biases, retest : BOOLEAN, gap : BOOLEAN,
   strong : BOOLEAN, dominant : BOOLEAN, absorbed : BOOLEAN, dry : BOOLEAN, effort : BOOLEAN,
   spot : {"poc", "edge", "away"}, neutral : BOOLEAN, away : BOOLEAN, best : Nat,
   parabolic : BOOLEAN, adx : {"low", "high", "between"}, book : BOOLEAN]

\* More evidence never lowers a score: a finding added to any reading, an order book that
\* arrives or a calmer market leaves the final score at least where it was.
MoreIsNotLess(r) ==
  /\ \A f \in {"retest", "gap", "strong", "dominant", "absorbed", "dry", "effort", "neutral",
               "away", "book"} : Final(r) <= Final([r EXCEPT ![f] = TRUE])
  /\ Final([r EXCEPT !.parabolic = TRUE]) <= Final(r)

\* A market in a parabolic move alerts nobody at the default thresholds, and no short at any:
\* however strong the reading and whatever the 4h bias adds.
ParabolicIsQuiet(r) ==
  r.parabolic =>
    /\ \A b \in Biases \cup {"ranging", "none"} :
         Class(Final(r), Adjustment(Alignment(b, Direction(r))), Defaults) # "ALERT"
    /\ Direction(r) = "short" => Final(r) = 0
=============================================================================
