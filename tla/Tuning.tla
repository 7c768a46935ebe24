-------------------------------- MODULE Tuning --------------------------------
(***************************************************************************)
(* The tuning scripts (trade-audit-result/scripts/tuning): what a labelled  *)
(* sample recommends, and what of it is written into trading_params; module *)
(* Labelling has the labels, module ConfigStore the transaction.            *)
(*                                                                         *)
(* A sample is a sequence of signals [score, win, rr, parts, mult, regime]: *)
(* rr in tenths, the multiplier in percent.  The bootstrap intervals, the   *)
(* correlations and the p-values are only reported and left out.            *)
(***************************************************************************)
EXTENDS Integers, Sequences, FiniteSets, SequencesExt, FiniteSetsExt, Functions

CONSTANTS
  T_MIN, T_MAX,            \* thresholds swept
  MIN_ALERTS,              \* MIN_ALERTS_AT_THRESHOLD
  MIN_SAMPLE_THRESHOLD, MIN_SAMPLE_WEIGHT, MIN_SAMPLE_REGIME, MIN_REGIME_SAMPLE,
  THRESHOLD_MAX_JUMP,
  LOWEST, HIGHEST,         \* safety bounds of an applied threshold
  GRID,                    \* weights tried, in thousandths, WEIGHT_MIN to WEIGHT_MAX
  COORD_MAX_ITER,
  Labels,                  \* signals that may be loaded
  Starts,                  \* parameters that may be in use at first
  MaxSample                \* bound: signals loaded

\* The thresholds swept reach no further beyond the safety bounds than one jump (50 to 95
\* against 60 to 95, by 10); an operator may have stored any pair of thresholds.
ASSUME TuningAssumption ==
  /\ {T_MIN, T_MAX, LOWEST, HIGHEST, THRESHOLD_MAX_JUMP, MIN_ALERTS} \subseteq Int
  /\ LOWEST <= HIGHEST /\ THRESHOLD_MAX_JUMP > 0
  /\ LOWEST - T_MIN <= THRESHOLD_MAX_JUMP /\ T_MAX - HIGHEST <= THRESHOLD_MAX_JUMP
  /\ \A s \in Labels : s.rr \in Int /\ s.regime # "alert"
  /\ \A p \in Starts : /\ DOMAIN p = {"alert", "watch", "weights"}
                        /\ p.alert \in Int /\ p.watch \in Int

Wins(sample) == {i \in DOMAIN sample : sample[i].win}

-----------------------------------------------------------------------------
(* threshold_analyzer.py and the threshold of recommender.py *)

Above(sample, t) == {i \in DOMAIN sample : sample[i].score >= t}

\* The expected value of a trade at threshold t, in tenths of its risk, as a fraction.
Ev(sample, t) ==
  <<SumFunctionOnSet([i \in DOMAIN sample |-> IF sample[i].win THEN sample[i].rr ELSE -10],
                     Above(sample, t)),
    Max({1, Cardinality(Above(sample, t))})>>
Lead(a, b) == a[1] * b[2] - b[1] * a[2]

\* The lowest of the best thresholds, or the one in use when none has enough signals.
BestOf(valid, ev, alert) ==
  IF valid = {} THEN alert
  ELSE Min({t \in valid : \A o \in valid : Lead(ev[o], ev[t]) <= 0})
Optimal(sample, alert) ==
  BestOf({t \in T_MIN..T_MAX : Cardinality(Above(sample, t)) >= MIN_ALERTS},
         [t \in T_MIN..T_MAX |-> Ev(sample, t)], alert)

\* Mutant: the shift is not capped.
Shift_Uncapped(from, to) == to - from
\* Mutant: every shift is a whole jump.
Shift_Whole(from, to) == IF to > from THEN THRESHOLD_MAX_JUMP ELSE -THRESHOLD_MAX_JUMP
Shift(from, to) == Max({-THRESHOLD_MAX_JUMP, Min({THRESHOLD_MAX_JUMP, to - from})})

\* The difference counts from a twentieth of the risk, for better or worse.
Matters(a, b) == 2 * Max({Lead(a, b), Lead(b, a)}) >= a[2] * b[2]
ThresholdAdvice(sample, alert) ==
  {[param |-> "alert", value |-> alert + Shift(alert, best)] :
     best \in {t \in {Optimal(sample, alert)} \ {alert} :
                 /\ Len(sample) >= MIN_SAMPLE_THRESHOLD
                 /\ alert \in T_MIN..T_MAX
                 /\ Matters(Ev(sample, t), Ev(sample, alert))}}

-----------------------------------------------------------------------------
(* weight_analyzer.py and the weights of recommender.py *)

MODULE_CAPS == [of |-> 35, smc |-> 30, vsa |-> 30, ctx |-> 15, bonus |-> 15]
Order == <<"of", "smc", "vsa", "ctx", "bonus">>
Modules == DOMAIN MODULE_CAPS

Weighed(parts, w) == FoldSet(LAMBDA m, s : s + parts[m] * w[m], 0, Modules)

\* numpy rounds a half to the even neighbour.
HalfEven(n, d) ==
  LET q == n \div d
      r == 2 * (n % d)
  IN IF r > d \/ (r = d /\ q % 2 = 1) THEN q + 1 ELSE q

\* _rescore
Rescored(sample, w) ==
  [i \in DOMAIN sample |->
     Min({100, HalfEven(Weighed(sample[i].parts, w) * sample[i].mult, Weighed(MODULE_CAPS, w))})]

\* Mutant: a score at the threshold is below it.
Hits_Above(sample, scores, t) ==
  <<Cardinality({i \in Wins(sample) : scores[i] > t}),
    Cardinality({i \in DOMAIN sample \ Wins(sample) : scores[i] > t})>>
\* _auc_from_scores: twice the area under the curve, in pairs of a win and a loss.
Hits(sample, scores, t) ==
  <<Cardinality({i \in Wins(sample) : scores[i] >= t}),
    Cardinality({i \in DOMAIN sample \ Wins(sample) : scores[i] >= t})>>
Curve(sample, scores, levels) ==
  <<<<0, 0>>>> \o [k \in DOMAIN levels |-> Hits(sample, scores, levels[k])]
Under(points) ==
  FoldSet(LAMBDA k, s : s + (points[k][2] - points[k - 1][2]) * (points[k][1] + points[k - 1][1]),
          0, 2..Len(points))
Area(sample, scores) == Under(Curve(sample, scores, SetToSortSeq(Range(scores), >)))

Pairs(sample) == Cardinality(Wins(sample)) * (Len(sample) - Cardinality(Wins(sample)))

Fit(sample, w) == [w |-> w, area |-> Area(sample, Rescored(sample, w)), settled |-> FALSE]

\* The best weight of one module, the others as they are.
Bettered(trial, best) == IF trial.area > best.area THEN trial ELSE best
Swept(sample, fit, m) ==
  FoldLeft(LAMBDA best, x : Bettered(Fit(sample, [best.w EXCEPT ![m] = x]), best), fit, GRID)

\* A round over the modules; it was the last when the area grew by less than 0.002.
Settled(sample, fit, next) ==
  [next EXCEPT !.settled = 250 * (next.area - fit.area) < Pairs(sample)]
Round(sample, fit) ==
  IF fit.settled THEN fit
  ELSE Settled(sample, fit, FoldLeft(LAMBDA f, m : Swept(sample, f, m), fit, Order))

Baseline(sample) == Fit(sample, [m \in Modules |-> 1000])
Optimized(sample) ==
  IF Pairs(sample) = 0 THEN Baseline(sample)
  ELSE FoldLeft(LAMBDA f, k : Round(sample, f), Baseline(sample), [k \in 1..COORD_MAX_ITER |-> k])

\* The weights are kept to two decimals, their area is that of before.
TwoDecimals(w) == [m \in Modules |-> 10 * HalfEven(w[m], 10)]
\* A gain of at least 0.02 counts, and a weight that differs by 0.1.
Changes(best, gain, pairs, weights) ==
  IF gain = 0 \/ 25 * gain < pairs THEN {}
  ELSE {[param |-> m, value |-> best[m]] :
          m \in {k \in Modules : Max({best[k] - weights[k], weights[k] - best[k]}) >= 100}}
WeightAdvice(sample, weights) ==
  IF Len(sample) < MIN_SAMPLE_WEIGHT THEN {}
  ELSE Changes(TwoDecimals(Optimized(sample).w), Optimized(sample).area - Baseline(sample).area,
               Pairs(sample), weights)

-----------------------------------------------------------------------------
(* regime_analyzer.py, config_applier.py *)

RegimeVerdict(n, wins) ==
  IF n < MIN_REGIME_SAMPLE THEN "INSUFFICIENT_SAMPLE"
  ELSE IF 100 * wins < 35 * n THEN "BLOCK"
  ELSE IF 100 * wins < 48 * n THEN "RAISE_THRESHOLD"
  ELSE IF 100 * wins > 62 * n THEN "LOWER_THRESHOLD"
  ELSE "KEEP"

RegimeAdvice(sample) ==
  LET of(regime) == {i \in DOMAIN sample : sample[i].regime = regime}
  IN {[param |-> g, value |-> 1] :
        g \in {h \in {sample[i].regime : i \in DOMAIN sample} :
                 /\ Cardinality(of(h)) >= MIN_SAMPLE_REGIME
                 /\ RegimeVerdict(Cardinality(of(h)), Cardinality(of(h) \cap Wins(sample))) = "BLOCK"}}

Advice(sample, params) ==
  ThresholdAdvice(sample, params.alert) \cup WeightAdvice(sample, params.weights)
    \cup RegimeAdvice(sample)

\* apply: within the safety bounds, never at or below the watch threshold; regimes are skipped.
Bounded(v) == Max({LOWEST, Min({HIGHEST, v})})
Moved(advice, params) ==
  {Bounded(a.value) : a \in {x \in advice : x.param = "alert" /\ Bounded(x.value) > params.watch}}
Applied(advice, params) ==
  [params EXCEPT
     !.alert = IF Moved(advice, params) = {} THEN @ ELSE Min(Moved(advice, params)),
     !.weights = [m \in Modules |-> IF \E a \in advice : a.param = m
                                    THEN (CHOOSE a \in advice : a.param = m).value ELSE @[m]]]

Tuned(sample, params) == Applied(Advice(sample, params), params)

-----------------------------------------------------------------------------
(* One tuning run after another, while signals find their outcomes *)

VARIABLES
  labelled,   \* the labelled sample
  inUse       \* the row of trading_params in use: alert, watch, weights

tuningVars == <<labelled, inUse>>

TuningInit == labelled = <<>> /\ inUse \in Starts

\* The outcome of one more signal is known.
Label ==
  /\ Len(labelled) < MaxSample
  /\ \E s \in Labels : labelled' = Append(labelled, s)
  /\ UNCHANGED inUse

\* A run with --apply.
Tune == inUse' = Tuned(labelled, inUse) /\ UNCHANGED labelled

TuningNext == Label \/ Tune
TuningSpec == TuningInit /\ [][TuningNext]_tuningVars

-----------------------------------------------------------------------------
(* Properties *)

Distance(a, b) == IF a > b THEN a - b ELSE b - a
FitForUse(from, to, watch) ==
  watch < to /\ to \in LOWEST..HIGHEST /\ to - from \in -THRESHOLD_MAX_JUMP..THRESHOLD_MAX_JUMP
Nearer(from, to, goal) == Distance(to, goal) < Distance(from, goal)

\* However the sample came out and whatever was in use, a threshold that a tuning run sets is
\* usable (above the watch threshold, or every scoring cycle would fail), within the safety bounds
\* and at most one jump away, although those bounds may push it further than was recommended; and
\* it is nearer to the best one that the bounds allow than the one before, so that runs over the
\* same sample come to rest and never swing.
ThresholdsSettle ==
  [][inUse'.alert # inUse.alert =>
       /\ FitForUse(inUse.alert, inUse'.alert, inUse'.watch)
       /\ Nearer(inUse.alert, inUse'.alert, Bounded(Optimal(labelled, inUse.alert)))]_tuningVars

Mixed(sample) == Wins(sample) \X (DOMAIN sample \ Wins(sample))

\* The area that weights are judged by is the share of pairs of a win and a loss that the scores
\* put in order, ties for half; weights are advised only where they order more pairs, and a
\* second run over the same sample advises nothing.
WeightsOrder(sample, params) ==
  /\ \A scores \in {Rescored(sample, params.weights)} :
       Area(sample, scores) =
         2 * Cardinality({p \in Mixed(sample) : scores[p[1]] > scores[p[2]]})
         + Cardinality({p \in Mixed(sample) : scores[p[1]] = scores[p[2]]})
  /\ \A next \in {Tuned(sample, params)} :
       /\ next.weights # params.weights =>
            Area(sample, Rescored(sample, next.weights)) > Baseline(sample).area
       /\ WeightAdvice(sample, next.weights) = {}
=============================================================================
