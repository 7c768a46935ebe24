------------------------------ MODULE MCAnalysis ------------------------------
(***************************************************************************)
(* The analysis of the market, checked in one run: the scoring cycle with   *)
(* the BTC guard, the evidence it scores, the chart and the volume profile,  *)
(* the backtest, the tuner and the audits are state machines, the rest are  *)
(* operators.  A behaviour picks one of them; for operators it makes up     *)
(* their input step by step.                                                *)
(***************************************************************************)
EXTENDS ScoringCycle, Evidence, Labelling, Strategies, VolumeProfile, Tuning, AuditReports, TLC

VARIABLES
  focus,   \* what the behaviour is about
  input    \* the input of operators

-----------------------------------------------------------------------------
(* The scoring cycle *)

Strongest ==
  [choch |-> "bullish", htf |-> "bullish", retest |-> TRUE, gap |-> TRUE, strong |-> TRUE,
   dominant |-> TRUE, absorbed |-> TRUE, dry |-> TRUE, effort |-> TRUE, spot |-> "poc",
   neutral |-> TRUE, away |-> TRUE, best |-> 45, parabolic |-> FALSE, adx |-> "high",
   book |-> TRUE, bias4h |-> "bullish", daily |-> "BULL", atr |-> 1, rewarding |-> TRUE]
CycleInputs ==
  {Strongest, [Strongest EXCEPT !.book = FALSE],
   [Strongest EXCEPT !.bias4h = "ranging", !.daily = "BEAR", !.strong = FALSE],
   [Strongest EXCEPT !.bias4h = "bearish"],
   [Strongest EXCEPT !.choch = "bearish", !.htf = "bearish", !.bias4h = "none"],
   [Strongest EXCEPT !.choch = "bearish", !.htf = "bearish", !.parabolic = TRUE,
                     !.bias4h = "bearish"],
   [Strongest EXCEPT !.atr = 0]}
Pair(alert_, watch) == [alert |-> alert_, watch |-> watch]

CycleSettings == {Pair(75, 55), Pair(60, 50), Pair(55, 75)}
\* Absorption and effort count as dominance and a dry candle do.
CycleFindings ==
  [choch |-> {"bullish", "bearish", "none"}, htf |-> Biases, spot |-> {"poc", "edge", "away"},
   best |-> {0, 10, 45}, adx |-> {"low", "high"}]
  @@ [f \in {"retest", "gap", "strong", "dominant", "dry", "neutral", "parabolic", "book"} |-> BOOLEAN]
CycleFilters ==
  {{"mtf_bias", "btc_guard", "circuit_breaker", "daily_bias"}, {"mtf_bias", "misspelt"}}

-----------------------------------------------------------------------------
(* Volumes, charts and strategies *)

Volume == INSTANCE Volumes WITH
  MIN_HISTORY_POINTS <- 4, FALLBACK <- 5, FLOOR <- 2, CEILING <- 20

Gapped == INSTANCE Gaps
\* The series in which a zero is a missing candle.
Quote == [v \in {9, 20} |-> IF v = 9 THEN [o |-> 2, h |-> 9, l |-> 1, c |-> 4]
                            ELSE [o |-> 18, h |-> 20, l |-> 3, c |-> 5]]
Series(volumes) ==
  LET row(i) == [at |-> i, v |-> volumes[i], made |-> FALSE, per |-> 1] @@ Quote[volumes[i]]
      there(i) == volumes[i] # 0
      stamps == SelectSeq([i \in DOMAIN volumes |-> i], there)
  IN [n \in DOMAIN stamps |-> row(stamps[n])]

\* Candles by what they add to the last close: o, h, l, c, and a volume.
Shape(o, h, l, c, v) == [o |-> o, h |-> h, l |-> l, c |-> c, v |-> v]
Rallies == {Shape(0, 5, 0, 5, 3), Shape(3, 6, 3, 6, 2), Shape(0, 1, -2, 1, 1)}
Falls == {Shape(0, 0, -5, -5, 3), Shape(-3, -3, -6, -6, 2), Shape(0, 2, -1, -1, 1)}
Swings == {Shape(0, 4, -1, 3, 1), Shape(0, 1, -4, -3, 1), Shape(0, 1, -1, 0, 1)}
Tails == {Shape(0, 1, -5, 1, 2), Shape(0, 5, -1, -1, 2)}

\* Candles of one price, without volume, and of ranges that share bins.
RangedCandles == {[l |-> l, h |-> l + r, v |-> v] : l \in 1..3, r \in {0, 1, 3}, v \in {0, 2}}

FirstCandle == Shape(1000, 1001, 999, 1000, 2)
SeenShapes == Tails \cup Rallies \cup Falls
Warmup ==
  [s \in Strategies |-> IF s \in {"engulfing", "inside_bar"} THEN 2
                       ELSE IF s \in {"quasimodo", "rsi_momentum"} THEN 6 ELSE 5]

-----------------------------------------------------------------------------
(* The backtest *)

TestCandles ==
  {Shape(5, 6, 4, 5, 0), Shape(5, 8, 3, 4, 0), Shape(5, 8, 5, 7, 0), Shape(5, 5, 2, 3, 0)}

-----------------------------------------------------------------------------
(* The tuning scripts; thresholds in units of five points *)

Grid == <<250, 875, 3000>>
Flow == [of |-> 30, smc |-> 10, vsa |-> 0, ctx |-> 8, bonus |-> 0]
Structure == [of |-> 0, smc |-> 30, vsa |-> 10, ctx |-> 8, bonus |-> 5]
Labelled(score, win, rr, parts, regime) ==
  [score |-> score, win |-> win, rr |-> rr, parts |-> parts, regime |-> regime,
   mult |-> IF regime = "TRENDING" THEN 100 ELSE 85]
Sample ==
  <<Labelled(12, FALSE, 15, Flow, "CHOPPY"), Labelled(12, TRUE, 10, Structure, "CHOPPY"),
    Labelled(13, TRUE, 30, Flow, "TRENDING"), Labelled(15, FALSE, 15, Structure, "CHOPPY"),
    Labelled(17, FALSE, 20, Flow, "TRENDING"), Labelled(17, TRUE, 15, Structure, "TRENDING")>>
\* The signal as an audited trade: one is of an unknown regime, the signal of another is not found.
Audited(k) ==
  [linked |-> k # 3, score |-> Sample[k].score, win |-> Sample[k].win,
   regime |-> IF k = 2 THEN "UNKNOWN" ELSE Sample[k].regime,
   reason |-> IF Sample[k].win THEN "none" ELSE IF k = 1 THEN "NOISE" ELSE "TREND_REVERSAL"]
AuditedTrades == {Audited(k) : k \in DOMAIN Sample}
TriedThresholds == <<12, 13, 15, 17>>
Loaded == Range(Sample)
Params ==
  {[alert |-> p[1], watch |-> p[2], weights |-> [m \in Modules |-> 1000]] :
     p \in {<<10, 9>>, <<13, 12>>, <<15, 9>>, <<19, 12>>}}

-----------------------------------------------------------------------------
(* The behaviours *)

vars == <<focus, input, scoringVars, reading, testVars, seen, traded, tuningVars, audited>>

\* What the input of a focus may grow by, and its length at most.
Grown ==
  CASE focus = "history" -> {Append(input, d) : d \in {-25, -8, -1, 0, 3, 8}}
    [] focus = "volumes" -> {Append(input, v) : v \in {0, 9, 20}}
    [] focus = "charts" -> {Append(input, Drawn(input[Len(input)].c, s)) : s \in Rallies \cup Falls}
    [] focus = "swings" -> {Append(input, Drawn(input[Len(input)].c, s)) : s \in Swings}
    [] focus = "windows" -> {<<n>> : n \in 0..15}
    [] OTHER -> {}
Longest ==
  CASE focus \in {"charts", "volumes"} -> 6 [] focus = "history" -> 5
    [] focus = "swings" -> 10 [] OTHER -> 1

\* The order of a sample does not matter: one is looked at, the last two in the order of all.
InOrder(sample, all) ==
  LET n == Len(sample)
  IN n > 1 => \E j \in DOMAIN all : \E k \in 1..j : sample[n] = all[j] /\ sample[n - 1] = all[k]

Init ==
  /\ focus \in {"cycle", "backtest", "history", "volumes", "profile", "charts", "swings",
                "strategies", "readings", "windows", "tuning", "audit"}
  /\ input = CASE focus \in {"charts", "swings"} -> <<Shape(40, 41, 39, 40, 2)>>
               [] OTHER -> <<>>
  /\ ScoringInit /\ EvidenceInit /\ BacktestInit /\ ChartInit /\ ProfileInit /\ TuningInit /\ ReportsInit
  /\ "misspelt" \in filters => focus = "cycle"
  /\ focus # "backtest" => data[1].c = 5
  /\ focus # "tuning" => inUse.alert = 10

Next ==
  \/ /\ focus = "cycle" /\ ScoringNext
     /\ UNCHANGED <<focus, input, reading, testVars, seen, traded, tuningVars, audited>>
  \/ /\ focus = "readings" /\ EvidenceNext
     /\ UNCHANGED <<focus, input, scoringVars, testVars, seen, traded, tuningVars, audited>>
  \/ /\ focus = "backtest" /\ BacktestNext
     /\ UNCHANGED <<focus, input, scoringVars, reading, seen, traded, tuningVars, audited>>
  \/ /\ Len(input) < Longest /\ input' \in Grown
     /\ UNCHANGED <<focus, scoringVars, reading, testVars, seen, traded, tuningVars, audited>>
  \/ /\ focus = "strategies" /\ ChartNext
     /\ UNCHANGED <<focus, input, scoringVars, reading, testVars, traded, tuningVars, audited>>
  \/ /\ focus = "profile" /\ NextCandle
     /\ UNCHANGED <<focus, input, scoringVars, reading, testVars, seen, tuningVars, audited>>
  \/ /\ focus = "tuning" /\ TuningNext
     /\ InOrder(labelled', Sample)
     /\ UNCHANGED <<focus, input, scoringVars, reading, testVars, seen, traded, audited>>
  \/ /\ focus = "audit" /\ ReportsNext
     /\ InOrder(audited', [k \in DOMAIN Sample |-> Audited(k)])
     /\ UNCHANGED <<focus, input, scoringVars, reading, testVars, seen, traded, tuningVars>>

Spec == Init /\ [][Next]_vars

-----------------------------------------------------------------------------
(* The properties of operators, over the inputs made up *)

\* A strong delta stands out, a candle without supply is quiet throughout, and filling a gap
\* trades nothing.
VolumesAccount ==
  /\ focus = "history" => Volume!StrongIsRare(input)
  /\ focus = "volumes" /\ Len(input) = 6 => Volume!QuietIsQuiet(input)
  /\ focus = "volumes" /\ Series(input) # <<>> =>
       \A delta \in {1, 2} : /\ Gapped!GapsAreRuns(Series(input), delta)
                             /\ Gapped!FilledHonestly(Series(input), delta)
\* Long and short are read alike, and so are cheap and dear.
ReadAlike ==
  /\ (focus = "charts" /\ Len(input) >= 5) \/ (focus = "swings" /\ Len(input) = 10) =>
       MirrorSymmetric(input, 80)
  /\ focus = "charts" /\ Len(input) = 5 => RegimeAlike(input, 80)
  /\ focus = "charts" /\ Len(input) = 5 => ScoredAlike(input, 80, 100)
\* Tuned weights put more signals in order; the metrics of a backtest tell one story, and its
\* windows follow one another.
StudiesHold ==
  /\ focus = "tuning" /\ Len(labelled) >= 3 => WeightsOrder(labelled, inUse)
  /\ focus = "history" => MetricsAgree(input)
  /\ focus = "windows" => \A i \in DOMAIN input : WindowsTile(input[i], 3, 2)

\* What is computed anew from its input agrees with what it is computed from: thresholds and
\* filled gaps with the volumes, a chart with its mirror and its multiple, weights and metrics
\* with the trades.
ComputationsAgree == VolumesAccount /\ ReadAlike /\ StudiesHold
=============================================================================
