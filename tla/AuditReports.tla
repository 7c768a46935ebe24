------------------------------ MODULE AuditReports ------------------------------
(***************************************************************************)
(* What the paper exchange recommends from its audited trades               *)
(* (audit/analysis_engine.py).  A trade is [linked, score, regime, win,     *)
(* reason]: linked says that the signal it came from was found, without     *)
(* which it has neither score nor regime; reason is why a stop was hit.     *)
(* Rates are pairs <<part, whole>>; rounding them to a tenth of a percent,  *)
(* the confidence intervals and the correlations are left out.              *)
(***************************************************************************)
EXTENDS Integers, Sequences, FiniteSets, SequencesExt, FiniteSetsExt

CONSTANTS
  MIN_ROWS,   \* trades below which nothing is suggested (10)
  Tried,      \* thresholds tried, range(75, 95, 5)
  DEFAULT,    \* the threshold before any is better (75)
  Audits,     \* what an audit may find of a trade
  MaxAudits   \* bound: audits

ASSUME AuditAssumption ==
  /\ Tried \in Seq(Int) /\ Tried # <<>> /\ DEFAULT = Tried[1]
  /\ \A i, j \in DOMAIN Tried : i < j => Tried[i] < Tried[j]
  /\ \A t \in Audits : t.linked \in BOOLEAN /\ t.win \in BOOLEAN /\ t.score \in Int

Rate(part, whole) == <<Cardinality(part), Cardinality(whole)>>
Below(a, b) == a[1] * b[2] < b[1] * a[2]

\* The join of trades and signals.
Rows(trades) == {i \in DOMAIN trades : trades[i].linked}
Won(trades, rows) == {i \in rows : trades[i].win}

\* _confidence_level, as far as anything depends on it.
Insufficient(trades) == Len(trades) < MIN_ROWS

\* _win_rate_by_field and its likes: the rate of each key that occurs, given the key of each trade.
WinRateBy(trades, keys) ==
  LET of(k) == {i \in Rows(trades) : keys[i] = k}
  IN [k \in {keys[i] : i \in Rows(trades)} |-> Rate(Won(trades, of(k)), of(k))]

Regimes(trades) == [i \in DOMAIN trades |-> trades[i].regime]

\* _sl_reason_distribution, over every trade that was stopped for a known reason.
SlReasons(trades) ==
  LET stopped == {i \in DOMAIN trades : ~trades[i].win /\ trades[i].reason # "none"}
  IN [r \in {trades[i].reason : i \in stopped} |->
        Rate({i \in stopped : trades[i].reason = r}, stopped)]

\* The harmonic mean of the win rate at a threshold and of the share of trades it keeps.
F1(trades, t) ==
  LET above == {i \in Rows(trades) : trades[i].score >= t}
      won == Cardinality(Won(trades, above))
      kept == Cardinality(above)
  IN IF won = 0 /\ kept = 0 THEN <<0, 1>>
     ELSE <<2 * won * kept, won * Cardinality(Rows(trades)) + kept * kept>>

\* Mutant: of two that are as good, the last is kept.
Better_Last(trades, so, t) ==
  IF Below(F1(trades, t), so.f1) THEN so ELSE [at |-> t, f1 |-> F1(trades, t)]
Better(trades, so, t) ==
  IF Below(so.f1, F1(trades, t)) THEN [at |-> t, f1 |-> F1(trades, t)] ELSE so

\* _suggest_optimal_threshold: the first of the best, or none.
AtFirst == [at |-> DEFAULT, f1 |-> <<0, 1>>]
Suggested(trades) ==
  IF Cardinality(Rows(trades)) < MIN_ROWS THEN {}
  ELSE {FoldLeft(LAMBDA so, t : Better(trades, so, t), AtFirst, Tried).at}

\* _build_tuning
Recommendations(trades) ==
  LET rates == WinRateBy(trades, Regimes(trades))
      reasons == SlReasons(trades)
      poor == {r \in DOMAIN rates : Below(rates[r], <<4, 10>>) /\ r # "UNKNOWN"}
      noisy == "NOISE" \in DOMAIN reasons /\ Below(<<4, 10>>, reasons["NOISE"])
  IN IF Insufficient(trades) THEN [threshold |-> {}, filter |-> {}, widen |-> FALSE]
     ELSE [threshold |-> Suggested(trades), filter |-> poor, widen |-> noisy]

-----------------------------------------------------------------------------
(* One trade after another is audited *)

VARIABLE audited   \* the audited trades

ReportsInit == audited = <<>>
ReportsNext == Len(audited) < MaxAudits /\ \E t \in Audits : audited' = Append(audited, t)
ReportsSpec == ReportsInit /\ [][ReportsNext]_audited

-----------------------------------------------------------------------------
(* Properties *)

\* Following the advice is safe: no threshold tried is better than the one suggested and no lower
\* one as good, it keeps a winner when any threshold does, and leaving out the regimes it names
\* never lowers the win rate of the trades whose regime is known, nor leaves out all of them while
\* that rate is good.
AdviceHelps ==
  LET advice == Recommendations(audited)
      known == {i \in Rows(audited) : audited[i].regime # "UNKNOWN"}
      left == {i \in known : audited[i].regime \notin advice.filter}
      overall == Rate(Won(audited, known), known)
  IN /\ \A t \in advice.threshold, o \in Range(Tried) :
          /\ ~Below(F1(audited, t), F1(audited, o))
          /\ o < t => Below(F1(audited, o), F1(audited, t))
          /\ F1(audited, o)[1] > 0 => \E i \in Rows(audited) : audited[i].win /\ audited[i].score >= t
     /\ left # {} => ~Below(Rate(Won(audited, left), left), overall)
     /\ known # {} /\ ~Below(overall, <<4, 10>>) => left # {}
=============================================================================
