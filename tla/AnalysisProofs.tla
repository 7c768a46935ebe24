---------------------------- MODULE AnalysisProofs ----------------------------
(***************************************************************************)
(* Proofs about the analysis of the market, for any readings, thresholds,  *)
(* filter lists and candles: how evidence is scored and that more of it    *)
(* scores no less, what leaves a scoring cycle, what a backtest does with  *)
(* its trades and how the tuner labels them, what is still reported of a   *)
(* chart when a candle is added, that long and short are read alike, and   *)
(* where a strategy's levels lie.                                          *)
(***************************************************************************)
EXTENDS ScoringCycle, Evidence, Labelling, Strategies, FiniteSetTheorems, SequenceTheorems, WellFoundedInduction, TLAPS

(* The guard checks the candles of a poll in turn: the fold of the community modules is a *)
(* recursive function over the subsets of a sequence's domain.                            *)

\* What holds of a subset whenever it holds of the smaller ones, holds of every subset.
LEMMA SubsetInduction ==
  ASSUME NEW D, IsFiniteSet(D), NEW P,
         \A s \in SUBSET D : (\A t \in SUBSET s : t # s => t \in P) => s \in P
  PROVE  SUBSET D \subseteq P
<1> DEFINE T == {s \in SUBSET D : s \notin P}
<1>1. FiniteSubsetsOf(D) = SUBSET D
  BY FS_FiniteSubsetsOfFinite
<1>2. IsWellFoundedOn(StrictSubsetOrdering(D), SUBSET D)
  BY <1>1, FS_StrictSubsetOrderingWellFounded
<1>3. SUFFICES ASSUME T # {} PROVE FALSE
  OBVIOUS
<1>4. T \subseteq SUBSET D
  OBVIOUS
<1> HIDE DEF T
<1>5. PICK m \in T : \A y \in T : <<y, m>> \notin StrictSubsetOrdering(D)
  BY <1>2, <1>3, <1>4, WFMin
<1>6. ASSUME NEW t \in SUBSET m, t # m PROVE t \in P
  <2>1. t \in SUBSET D /\ m \in SUBSET D
    BY <1>4
  <2>2. <<t, m>> \in StrictSubsetOrdering(D)
    BY <1>6, <2>1 DEF StrictSubsetOrdering
  <2> QED
    BY <1>5, <2>1, <2>2 DEF T
<1> QED
  BY <1>4, <1>5, <1>6 DEF T

LEMMA MaxIn ==
  ASSUME NEW S, IsFiniteSet(S), S \subseteq Int, S # {}
  PROVE  Max(S) \in S /\ S \ {Max(S)} # S
<1> DEFINE P == {s \in SUBSET S : s = {} \/ \E x \in s : \A y \in s : x >= y}
<1>1. ASSUME NEW s \in SUBSET S, \A t \in SUBSET s : t # s => t \in P
      PROVE  s \in P
  <2>1. CASE s = {}
    BY <2>1
  <2>2. CASE s # {}
    <3>1. PICK z \in s : TRUE
      BY <2>2
    <3> DEFINE t == s \ {z}
    <3>2. t \in P
      BY <1>1, <3>1
    <3>3. z \in Int
      BY <3>1
    <3>4. CASE t = {}
      <4>1. s = {z}
        BY <3>1, <3>4
      <4>2. \A y \in s : z >= y
        BY <3>3, <4>1
      <4> QED
        BY <3>1, <4>2
    <3>5. CASE t # {}
      <4>1. PICK x \in t : \A y \in t : x >= y
        BY <3>2, <3>5
      <4>2. x \in s /\ x \in Int
        BY <4>1
      <4>3. CASE x >= z
        <5>1. \A y \in s : x >= y
          BY <4>1, <4>3
        <5> QED
          BY <4>2, <5>1
      <4>4. CASE z > x
        <5>1. \A y \in s : y \in Int
          OBVIOUS
        <5>2. \A y \in s : z >= y
          BY <3>3, <4>1, <4>2, <4>4, <5>1
        <5> QED
          BY <3>1, <5>2
      <4> QED
        BY <3>3, <4>2, <4>3, <4>4
    <3> QED
      BY <3>4, <3>5
  <2> QED
    BY <2>1, <2>2
<1> HIDE DEF P
<1>2. S \in P
  BY <1>1, SubsetInduction
<1>3. \E x \in S : \A y \in S : x >= y
  BY <1>2 DEF P
<1>4. Max(S) \in S
  BY <1>3 DEF Max
<1> QED
  BY <1>4

\* One level of the fold, and a table of its results for every subset of D.
Stage(g, base, q, s) == IF s = {} THEN base ELSE Checked(g[s \ {Max(s)}], q[Max(s)])
ChecksOver(g, base, q, D) == g = [s \in SUBSET D |-> Stage(g, base, q, s)]

\* g and h are such tables, h of a larger set.
Tabled(base, q, g, h, C, D) ==
  /\ IsFiniteSet(C) /\ C \subseteq D /\ D \subseteq Int
  /\ ChecksOver(g, base, q, C) /\ ChecksOver(h, base, q, D)

LEMMA ChecksAgree ==
  \A base, q, g, h, C, D : Tabled(base, q, g, h, C, D) => \A s \in SUBSET C : g[s] = h[s]
<1> TAKE base, q, g, h, C, D
<1> HAVE Tabled(base, q, g, h, C, D)
<1> USE DEF Tabled
<1> DEFINE P == {s \in SUBSET C : g[s] = h[s]}
<1>1. ASSUME NEW s \in SUBSET C, \A t \in SUBSET s : t # s => t \in P
      PROVE  s \in P
  <2>1. g[s] = Stage(g, base, q, s) /\ h[s] = Stage(h, base, q, s)
    BY DEF ChecksOver
  <2>2. CASE s = {}
    BY <2>1, <2>2 DEF Stage
  <2>3. CASE s # {}
    <3>1. s \ {Max(s)} # s
      BY <2>3, MaxIn, FS_Subset
    <3>2. g[s \ {Max(s)}] = h[s \ {Max(s)}]
      BY <1>1, <3>1
    <3> QED
      BY <2>1, <2>3, <3>2 DEF Stage
  <2> QED
    BY <2>2, <2>3
<1> HIDE DEF P
<1>2. SUBSET C \subseteq P
  BY <1>1, SubsetInduction
<1> QED
  BY <1>2 DEF P

LEMMA ChecksExist ==
  \A base, q, D : IsFiniteSet(D) /\ D \subseteq Int => \E g : ChecksOver(g, base, q, D)
<1> SUFFICES ASSUME NEW base, NEW q, NEW D, IsFiniteSet(D), D \subseteq Int
             PROVE  \E g : ChecksOver(g, base, q, D)
  OBVIOUS
<1> DEFINE P == {s \in SUBSET D : \E g : ChecksOver(g, base, q, s)}
<1>1. ASSUME NEW s \in SUBSET D, \A t \in SUBSET s : t # s => t \in P
      PROVE  s \in P
  <2> DEFINE some(t) == CHOOSE g : ChecksOver(g, base, q, t)
             before(t) == t \ {Max(t)}
             g == [t \in SUBSET s |-> IF t = {} THEN base
                                      ELSE Checked(some(before(t))[before(t)], q[Max(t)])]
  <2>1. ASSUME NEW t \in SUBSET s, t # s PROVE ChecksOver(some(t), base, q, t)
    BY <1>1, <2>1
  <2>2. ASSUME NEW t \in SUBSET s, t # {}
        PROVE  before(t) \in SUBSET s /\ before(t) # s /\ IsFiniteSet(before(t)) /\ IsFiniteSet(t)
    <3>1. IsFiniteSet(t) /\ t \subseteq Int
      BY FS_Subset
    <3>2. before(t) # t /\ Max(t) \in t
      BY <2>2, <3>1, MaxIn
    <3> QED
      BY <3>1, <3>2, FS_Subset
  <2> HIDE DEF some
  <2>3. ASSUME NEW t \in SUBSET s, t # s PROVE g[t] = some(t)[t]
    <3>1. some(t)[t] = Stage(some(t), base, q, t)
      BY <2>1, <2>3 DEF ChecksOver
    <3>2. CASE t = {}
      BY <3>1, <3>2 DEF Stage
    <3>3. CASE t # {}
      <4>1. /\ before(t) \in SUBSET t /\ before(t) \in SUBSET s /\ before(t) # s
            /\ IsFiniteSet(before(t)) /\ t \subseteq Int
        BY <2>2, <3>3
      <4>2. ChecksOver(some(t), base, q, t) /\ ChecksOver(some(before(t)), base, q, before(t))
        BY <2>1, <2>3, <4>1
      <4>3. some(t)[before(t)] = some(before(t))[before(t)]
        <5> DEFINE b == before(t)
                   gb == some(b)
                   gt == some(t)
        <5>1. Tabled(base, q, gb, gt, b, t)
          BY <4>1, <4>2 DEF Tabled
        <5> HIDE DEF b, gb, gt
        <5>2. \A u \in SUBSET b : gb[u] = gt[u]
          BY <5>1, ChecksAgree
        <5>3. gb[b] = gt[b]
          BY <5>2
        <5> QED
          BY <5>3 DEF b, gb, gt
      <4> QED
        BY <3>1, <3>3, <4>3 DEF Stage
    <3> QED
      BY <3>2, <3>3
  <2>4. ASSUME NEW t \in SUBSET s PROVE g[t] = Stage(g, base, q, t)
    <3>1. CASE t = {}
      BY <3>1 DEF Stage
    <3>2. CASE t # {}
      <4>1. g[before(t)] = some(before(t))[before(t)]
        BY <2>2, <2>3, <3>2
      <4> QED
        BY <3>2, <4>1 DEF Stage
    <3> QED
      BY <3>1, <3>2
  <2>5. ChecksOver(g, base, q, s)
    <3>1. \A t \in SUBSET s : g[t] = Stage(g, base, q, t)
      BY <2>4
    <3>2. DOMAIN g = SUBSET s /\ g = [t \in SUBSET s |-> g[t]]
      OBVIOUS
    <3> HIDE DEF g
    <3> QED
      BY <3>1, <3>2 DEF ChecksOver
  <2> QED
    BY <2>5
<1> HIDE DEF P
<1>2. SUBSET D \subseteq P
  BY <1>1, SubsetInduction
<1> QED
  BY <1>2 DEF P

\* A check of any candle of q keeps a spike in K.
Kept(base, q, K) ==
  /\ IsFiniteSet(DOMAIN q) /\ DOMAIN q \subseteq Int /\ base \in K
  /\ \A s \in K, i \in DOMAIN q : Checked(s, q[i]) \in K

\* What every check keeps, checking candle after candle keeps.
LEMMA ChecksKeep == \A base, q, K : Kept(base, q, K) => FoldLeft(Checked, base, q) \in K
<1> TAKE base, q, K
<1> HAVE Kept(base, q, K)
<1> USE DEF Kept
<1> DEFINE D == DOMAIN q
           it == CHOOSE h : h = [s \in SUBSET D |-> IF s = {} THEN base
                                   ELSE Checked(h[s \ {Max(s)}], q[Max(s)])]
<1>1. PICK h : ChecksOver(h, base, q, D)
  BY ChecksExist
<1>2. h = [s \in SUBSET D |-> IF s = {} THEN base ELSE Checked(h[s \ {Max(s)}], q[Max(s)])]
  BY <1>1 DEF ChecksOver, Stage
<1>3. it = [s \in SUBSET D |-> IF s = {} THEN base ELSE Checked(it[s \ {Max(s)}], q[Max(s)])]
  BY <1>2
<1>4. FoldLeft(Checked, base, q) = it[D]
  BY DEF FoldLeft, MapThenFoldSet
<1> HIDE DEF it
<1>5. \A s \in SUBSET D : it[s] = IF s = {} THEN base ELSE Checked(it[s \ {Max(s)}], q[Max(s)])
  BY <1>3
<1> DEFINE P == {s \in SUBSET D : it[s] \in K}
<1>6. ASSUME NEW s \in SUBSET D, \A t \in SUBSET s : t # s => t \in P
      PROVE  s \in P
  <2>1. CASE s = {}
    BY <1>5, <2>1
  <2>2. CASE s # {}
    <3>1. Max(s) \in s /\ s \ {Max(s)} # s
      BY <2>2, MaxIn, FS_Subset
    <3>2. it[s \ {Max(s)}] \in K
      BY <1>6, <3>1
    <3>3. it[s] = Checked(it[s \ {Max(s)}], q[Max(s)])
      BY <1>5, <2>2
    <3> QED
      BY <3>1, <3>2, <3>3
  <2> QED
    BY <2>1, <2>2
<1> HIDE DEF P
<1>7. D \in P
  BY <1>6, SubsetInduction
<1> QED
  BY <1>4, <1>7 DEF P

-----------------------------------------------------------------------------
(* Scores *)

LEMMA WhenIs ==
  \A b \in BOOLEAN, n \in Nat : When(b, n) \in {0, n} /\ (b => When(b, n) = n)
                                /\ (~b => When(b, n) = 0)
BY DEF When

LEMMA CappedIs ==
  \A n, m, k \in Int : /\ Capped(n, k) \in Int /\ Capped(n, k) <= k /\ Capped(n, k) <= n
                       /\ 0 <= n /\ 0 <= k => 0 <= Capped(n, k)
                       /\ n <= m => Capped(n, k) <= Capped(m, k)
                       /\ n <= k => Capped(n, k) = n
BY DEF Capped

LEMMA TimesKeeps ==
  ASSUME NEW n \in Nat, NEW m \in Nat, n <= m, NEW k \in {60, 85, 100}
  PROVE  n * k \in Nat /\ m * k \in Nat /\ n * k <= m * k /\ n * 60 <= n * k
<1>1. CASE k = 60
  BY <1>1
<1>2. CASE k = 85
  BY <1>2
<1>3. CASE k = 100
  BY <1>3
<1> QED
  BY <1>1, <1>2, <1>3

LEMMA RoundedIs ==
  \A n, m \in Nat : /\ Rounded(n, 375) \in Nat
                    /\ n <= m => Rounded(n, 375) <= Rounded(m, 375)
                    /\ n <= 22500 => Rounded(n, 375) <= 60
BY DEF Rounded

\* No group of findings exceeds its share of the hundred points and of the bonus.
LEMMA PartsBounded ==
  ASSUME NEW r, IsReading(r)
  PROVE  /\ OrderFlow(r) \in 0..35 /\ Smc(r) \in 0..30 /\ Vsa(r) \in 0..30 /\ Context(r) \in 0..15
         /\ Capped(r.best, 45) \in 0..45 /\ Raw(r) \in 0..375
<1>1. OrderFlow(r) \in 0..35
  BY DEF OrderFlow, When, Capped
<1>2. Smc(r) \in 0..30
  BY DEF Smc, When, Capped
<1>3. Vsa(r) \in 0..30
  BY DEF Vsa, When, Capped
<1>4. Context(r) \in 0..15
  BY DEF Context, When, Capped
<1>5. Capped(r.best, 45) \in 0..45
  BY DEF IsReading, Capped
<1> QED
  <2> DEFINE of == OrderFlow(r)
             smc == Smc(r)
             vsa == Vsa(r)
             ctx == Context(r)
             bonus == Capped(r.best, 45)
  <2>1. Raw(r) = 3 * (of + smc + vsa + ctx) + bonus
    BY DEF Raw, Thirds
  <2>2. of \in 0..35 /\ smc \in 0..30 /\ vsa \in 0..30 /\ ctx \in 0..15 /\ bonus \in 0..45
    BY <1>1, <1>2, <1>3, <1>4, <1>5
  <2> HIDE DEF of, smc, vsa, ctx, bonus
  <2>3. Raw(r) \in 0..375
    BY <2>1, <2>2
  <2> QED
    BY <1>1, <1>2, <1>3, <1>4, <1>5, <2>3

\* q is a reading that differs from r at most in findings it has and r has not.
More(r, q) ==
  /\ q.choch = r.choch /\ q.htf = r.htf /\ q.spot = r.spot /\ q.best = r.best
  /\ q.parabolic = r.parabolic /\ q.adx = r.adx
  /\ r.strong => q.strong
  /\ r.dominant => q.dominant
  /\ r.absorbed => q.absorbed
  /\ r.retest => q.retest
  /\ r.gap => q.gap
  /\ r.dry => q.dry
  /\ r.effort => q.effort
  /\ r.neutral => q.neutral
  /\ r.away => q.away
  /\ r.book => q.book

LEMMA MoreParts ==
  ASSUME NEW r, NEW q, IsReading(r), IsReading(q), More(r, q)
  PROVE  Raw(r) <= Raw(q)
<1>1. OrderFlow(r) <= OrderFlow(q)
  BY DEF OrderFlow, When, Capped, More
<1>2. Smc(r) <= Smc(q)
  BY DEF Smc, When, Capped, More
<1>3. Vsa(r) <= Vsa(q)
  BY DEF Vsa, When, Capped, More
<1>4. Context(r) <= Context(q)
  <2>1. Direction(q) = Direction(r)
    BY DEF More, Direction
  <2> QED
    BY <2>1 DEF Context, When, Capped, More
<1>5. Capped(r.best, 45) = Capped(q.best, 45)
  BY DEF More
<1>6. /\ OrderFlow(r) \in Nat /\ Smc(r) \in Nat /\ Vsa(r) \in Nat /\ Context(r) \in Nat
      /\ OrderFlow(q) \in Nat /\ Smc(q) \in Nat /\ Vsa(q) \in Nat /\ Context(q) \in Nat
      /\ Capped(r.best, 45) \in Nat
  BY PartsBounded
<1>7. /\ Raw(r) = 3 * (OrderFlow(r) + Smc(r) + Vsa(r) + Context(r)) + Capped(r.best, 45)
      /\ Raw(q) = 3 * (OrderFlow(q) + Smc(q) + Vsa(q) + Context(q)) + Capped(r.best, 45)
  BY <1>5 DEF Raw, Thirds
<1> QED
  BY <1>1, <1>2, <1>3, <1>4, <1>6, <1>7

\* The score in hundredths before it is rounded.
Weighed(r) == Raw(r) * Multiplier(Regime(r.parabolic, r.adx))

LEMMA WeighedIs ==
  ASSUME NEW r, IsReading(r)
  PROVE  /\ Weighed(r) \in Nat /\ Multiplier(Regime(r.parabolic, r.adx)) \in {60, 85, 100}
         /\ r.parabolic => Weighed(r) = Raw(r) * 60 /\ Weighed(r) <= 22500
<1>1. Multiplier(Regime(r.parabolic, r.adx)) \in {60, 85, 100}
  BY DEF Multiplier, Regime
<1>2. r.parabolic => Multiplier(Regime(r.parabolic, r.adx)) = 60
  BY DEF Multiplier, Regime
<1> QED
  BY <1>1, <1>2, PartsBounded DEF Weighed

\* A final score, as the cap of the rounded score.
LEMMA FinalIs ==
  ASSUME NEW r, IsReading(r)
  PROVE  /\ Final(r) \in 0..100
         /\ Suppressed(r) => Final(r) = 0
         /\ ~Suppressed(r) => Final(r) = Capped(Capped(Rounded(Weighed(r), 375), 100),
                                                IF r.book THEN 100 ELSE 60)
         /\ ~r.book => Final(r) <= 60
         /\ r.parabolic => Final(r) <= 60
<1>1. Rounded(Weighed(r), 375) \in Nat /\ (r.parabolic => Rounded(Weighed(r), 375) <= 60)
  BY WeighedIs, RoundedIs
<1> DEFINE n == Rounded(Weighed(r), 375)
<1>2. Final(r) = IF Suppressed(r) THEN 0 ELSE Capped(Capped(n, 100), IF r.book THEN 100 ELSE 60)
  BY DEF Final, Weighed, NO_BOOK_CAP
<1> HIDE DEF n
<1>3. n \in Nat /\ (r.parabolic => n <= 60)
  BY <1>1 DEF n
<1> QED
  BY <1>2, <1>3 DEF Capped, n

LEMMA FinalMonotone ==
  ASSUME NEW r, NEW q, IsReading(r), IsReading(q), More(r, q)
  PROVE  Final(r) <= Final(q)
<1>1. CASE Suppressed(r)
  <2>1. Final(r) = 0 /\ Final(q) \in 0..100
    BY <1>1, FinalIs
  <2> QED
    BY <2>1
<1>2. CASE ~Suppressed(r)
  <2>1. ~Suppressed(q)
    BY <1>2 DEF Suppressed, More, Direction
  <2>2. Weighed(r) <= Weighed(q) /\ Weighed(r) \in Nat /\ Weighed(q) \in Nat
    <3>1. Raw(r) <= Raw(q) /\ Raw(r) \in 0..375 /\ Raw(q) \in 0..375
      BY MoreParts, PartsBounded
    <3>2. /\ Multiplier(Regime(r.parabolic, r.adx)) \in {60, 85, 100}
          /\ Multiplier(Regime(q.parabolic, q.adx)) = Multiplier(Regime(r.parabolic, r.adx))
      BY WeighedIs DEF More
    <3> DEFINE mult == Multiplier(Regime(r.parabolic, r.adx))
    <3>3. Weighed(r) = Raw(r) * mult /\ Weighed(q) = Raw(q) * mult
      BY <3>2 DEF Weighed
    <3> HIDE DEF mult
    <3>4. mult \in {60, 85, 100}
      BY <3>2 DEF mult
    <3>5. Raw(r) \in Nat /\ Raw(q) \in Nat
      BY <3>1
    <3>6. /\ Raw(r) * mult \in Nat /\ Raw(q) * mult \in Nat
          /\ Raw(r) * mult <= Raw(q) * mult
      BY <3>1, <3>4, <3>5, TimesKeeps
    <3> QED
      BY <3>3, <3>6
  <2>3. /\ Rounded(Weighed(r), 375) \in Nat /\ Rounded(Weighed(q), 375) \in Nat
        /\ Rounded(Weighed(r), 375) <= Rounded(Weighed(q), 375)
    BY <2>2, RoundedIs
  <2> DEFINE n == Rounded(Weighed(r), 375)
             m == Rounded(Weighed(q), 375)
  <2>4. /\ Final(r) = Capped(Capped(n, 100), IF r.book THEN 100 ELSE 60)
        /\ Final(q) = Capped(Capped(m, 100), IF q.book THEN 100 ELSE 60)
    BY <1>2, <2>1, FinalIs
  <2> HIDE DEF n, m
  <2>5. n \in Nat /\ m \in Nat /\ n <= m
    BY <2>3 DEF n, m
  <2>6. r.book \in BOOLEAN /\ q.book \in BOOLEAN /\ (r.book => q.book)
    BY DEF IsReading, More
  <2> QED
    BY <2>4, <2>5, <2>6 DEF Capped
<1> QED
  BY <1>1, <1>2

\* Any finding may be there or not, and the bonus may be any number.
LEMMA EveryFinding ==
  ASSUME NEW r \in AllReadings,
         NEW f \in {"retest", "gap", "strong", "dominant", "absorbed", "dry", "effort", "neutral",
                    "away", "book"}
  PROVE  IsReading(r) /\ IsReading([r EXCEPT ![f] = TRUE]) /\ More(r, [r EXCEPT ![f] = TRUE])
<1> DEFINE q == [r EXCEPT ![f] = TRUE]
<1>1. IsReading(r)
  BY DEF AllReadings, IsReading
<1>2. q \in AllReadings
  BY DEF AllReadings
<1>3. IsReading(q)
  <2> HIDE DEF q
  <2> QED
    BY <1>2 DEF AllReadings, IsReading
<1>4. \A g \in DOMAIN r : g # f => q[g] = r[g]
  OBVIOUS
<1>5. q[f] = TRUE
  BY DEF AllReadings
<1>6. More(r, q)
  <2>1. DOMAIN r = {"choch", "htf", "retest", "gap", "strong", "dominant", "absorbed", "dry", "effort",
                    "spot", "neutral", "away", "best", "parabolic", "adx", "book"}
    BY DEF AllReadings
  <2> HIDE DEF q
  <2> QED
    BY <1>4, <1>5, <2>1 DEF More
<1> QED
  BY <1>1, <1>3, <1>6

LEMMA ParabolicLowers ==
  ASSUME NEW r \in AllReadings
  PROVE  Final([r EXCEPT !.parabolic = TRUE]) <= Final(r)
<1> DEFINE q == [r EXCEPT !.parabolic = TRUE]
<1>1. /\ IsReading(r) /\ IsReading(q) /\ q.parabolic /\ q.book = r.book
      /\ Direction(q) = Direction(r)
  BY DEF AllReadings, IsReading, Direction
<1>2. Raw(q) = Raw(r)
  <2>1. /\ q.choch = r.choch /\ q.htf = r.htf /\ q.spot = r.spot /\ q.best = r.best
        /\ q.strong = r.strong /\ q.dominant = r.dominant /\ q.absorbed = r.absorbed
        /\ q.retest = r.retest /\ q.gap = r.gap /\ q.dry = r.dry /\ q.effort = r.effort
        /\ q.neutral = r.neutral /\ q.away = r.away
    BY DEF AllReadings
  <2> HIDE DEF q
  <2> QED
    BY <1>1, <2>1 DEF Raw, OrderFlow, Smc, Vsa, Context
<1> HIDE DEF q
<1>3. CASE Suppressed(q)
  <2>1. Final(q) = 0 /\ Final(r) \in 0..100
    BY <1>1, <1>3, FinalIs
  <2> QED
    BY <2>1 DEF q
<1>4. CASE ~Suppressed(q)
  <2>1. ~Suppressed(r)
    BY <1>1, <1>4 DEF Suppressed, Regime
  <2>2. Weighed(q) <= Weighed(r) /\ Weighed(q) \in Nat /\ Weighed(r) \in Nat
    <3> DEFINE mult == Multiplier(Regime(r.parabolic, r.adx))
    <3>1. Weighed(r) = Raw(r) * mult
      BY DEF Weighed
    <3>2. mult \in {60, 85, 100} /\ Weighed(q) = Raw(q) * 60 /\ Raw(r) \in Nat
      BY <1>1, WeighedIs, PartsBounded
    <3> HIDE DEF mult
    <3> QED
      BY <1>2, <3>1, <3>2, TimesKeeps
  <2> DEFINE n == Rounded(Weighed(q), 375)
             m == Rounded(Weighed(r), 375)
  <2>3. n \in Nat /\ m \in Nat /\ n <= m
    BY <2>2, RoundedIs
  <2>4. /\ Final(q) = Capped(Capped(n, 100), IF r.book THEN 100 ELSE 60)
        /\ Final(r) = Capped(Capped(m, 100), IF r.book THEN 100 ELSE 60)
    BY <1>1, <1>4, <2>1, FinalIs
  <2> HIDE DEF n, m
  <2>5. Final(q) <= Final(r)
    BY <2>3, <2>4 DEF Capped
  <2> QED
    BY <2>5 DEF q
<1> QED
  BY <1>3, <1>4

LEMMA AdjustmentIs == \A a : Adjustment(a) \in {-10, 0, 10}
BY DEF Adjustment

\* What the 4h bias lifts to at most, and the class it gives.
LEMMA LiftedBelow ==
  ASSUME NEW n \in 0..60, NEW adj \in {-10, 0, 10}
  PROVE  Adjusted(n, adj) <= 70 /\ Class(n, adj, Defaults) # "ALERT"
<1>1. Adjusted(n, adj) \in 0..70
  BY DEF Adjusted, Clamped, Capped
<1> QED
  BY <1>1 DEF Class, Classify, Defaults, Thresholds

\* Whatever a reading is made of, a finding it lacks, an order book that arrives or a market
\* that calms never lowers its score; and in a parabolic market nobody is alerted at the default
\* thresholds, whatever the 4h bias adds, and no short scores at all (compute_* of the four
\* groups, RegimeDetector.classify, SignalScorer.score and SignalScorer.classify).
THEOREM MoreEvidenceNeverLowers ==
  \A r \in AllReadings : MoreIsNotLess(r) /\ ParabolicIsQuiet(r)
<1> SUFFICES ASSUME NEW r \in AllReadings PROVE MoreIsNotLess(r) /\ ParabolicIsQuiet(r)
  OBVIOUS
<1>1. MoreIsNotLess(r)
  BY EveryFinding, FinalMonotone, ParabolicLowers DEF MoreIsNotLess
<1>2. ParabolicIsQuiet(r)
  <2> SUFFICES ASSUME r.parabolic
               PROVE  /\ \A b \in Biases \cup {"ranging", "none"} :
                           Class(Final(r), Adjustment(Alignment(b, Direction(r))), Defaults) # "ALERT"
                      /\ Direction(r) = "short" => Final(r) = 0
    BY DEF ParabolicIsQuiet
  <2>1. IsReading(r)
    BY DEF AllReadings, IsReading
  <2>2. Final(r) \in 0..60
    BY <2>1, FinalIs
  <2>3. Direction(r) = "short" => Final(r) = 0
    BY <2>1, FinalIs DEF Suppressed, Regime
  <2> QED
    BY <2>2, <2>3, AdjustmentIs, LiftedBelow
<1> QED
  BY <1>1, <1>2

\* What is detected is a reading.
EvidenceInv == reading \in AllReadings

LEMMA EvidenceIs == EvidenceSpec => []EvidenceInv
<1>1. EvidenceInit => EvidenceInv
  BY DEF EvidenceInv, EvidenceInit, AllReadings, Biases
<1>2. EvidenceInv /\ [EvidenceNext]_reading => EvidenceInv'
  <2> SUFFICES ASSUME reading \in AllReadings, NEW f \in DOMAIN Findings, NEW v \in Findings[f],
                      reading' = [reading EXCEPT ![f] = v]
               PROVE  reading' \in AllReadings
    BY DEF EvidenceInv, EvidenceNext
  <2>1. CASE f = "choch"
    BY <2>1, EvidenceAssumption DEF AllReadings
  <2>2. CASE f = "htf"
    BY <2>2, EvidenceAssumption DEF AllReadings
  <2>3. CASE f = "spot"
    BY <2>3, EvidenceAssumption DEF AllReadings
  <2>4. CASE f = "best"
    BY <2>4, EvidenceAssumption DEF AllReadings
  <2>5. CASE f = "adx"
    BY <2>5, EvidenceAssumption DEF AllReadings
  <2>6. CASE f \notin {"choch", "htf", "spot", "best", "adx"}
    <3>1. v \in BOOLEAN
      BY <2>6, EvidenceAssumption
    <3>2. f \in {"retest", "gap", "strong", "dominant", "absorbed", "dry", "effort", "neutral",
                "away", "parabolic", "book"}
      BY <2>6, EvidenceAssumption
    <3> QED
      BY <3>1, <3>2 DEF AllReadings
  <2> QED
    BY <2>1, <2>2, <2>3, <2>4, <2>5, <2>6
<1> QED
  BY <1>1, <1>2, PTL DEF EvidenceSpec

\* Whatever the market shows, in whatever order findings come and go: a finding more never lowers
\* the score that _run_cycle gives, and a parabolic market alerts nobody.
THEOREM ScoresStayOrdered == EvidenceSpec => []ScoresOrdered
<1>1. EvidenceInv => ScoresOrdered
  BY MoreEvidenceNeverLowers DEF EvidenceInv, ScoresOrdered
<1> QED
  BY <1>1, EvidenceIs, PTL

-----------------------------------------------------------------------------
(* The scoring cycle *)

Moves == {"flat", "dump", "pump"}
Spikes == [dir : Moves, until : Nat]

\* A spike was made by a candle that was stored.
GuardTypes ==
  /\ time \in Nat /\ taken \in Nat /\ moves \in Seq(Moves) /\ taken <= Len(moves)
  /\ spike \in Spikes
  /\ taken = 0 => spike = NoSpike
ThresholdsWhole == thresholds.alert \in Int /\ thresholds.watch \in Int
CycleInv == GuardTypes /\ ThresholdsWhole /\ BlindScoresAreCapped

LEMMA ExaminedIs ==
  ASSUME GuardTypes
  PROVE  \A n \in 0..Len(moves) : Examined(n) \in Moves
<1> SUFFICES ASSUME NEW n \in 0..Len(moves) PROVE Examined(n) \in Moves
  OBVIOUS
<1>1. CASE n < 2
  BY <1>1 DEF Examined, Moves
<1>2. CASE ~(n < 2)
  <2>1. moves \in Seq(Moves) /\ n - 1 \in 1..Len(moves)
    BY <1>2 DEF GuardTypes
  <2>2. moves[n - 1] \in Moves
    BY <2>1
  <2> QED
    BY <1>2, <2>2 DEF Examined
<1> QED
  BY <1>1, <1>2

LEMMA CheckedIs ==
  ASSUME GuardTypes
  PROVE  \A s \in Spikes, n \in 0..Len(moves) : Checked(s, n) \in Spikes
<1> SUFFICES ASSUME NEW s \in Spikes, NEW n \in 0..Len(moves) PROVE Checked(s, n) \in Spikes
  OBVIOUS
<1>1. Examined(n) \in Moves
  BY ExaminedIs
<1>2. time + COOLDOWN \in Nat
  BY GuardAssumption DEF GuardTypes
<1> QED
  BY <1>1, <1>2 DEF Checked, Spikes

LEMMA GuardTurns == GuardTypes /\ GuardNext => GuardTypes'
<1> SUFFICES ASSUME GuardTypes, GuardNext PROVE GuardTypes'
  OBVIOUS
<1>1. /\ time \in Nat /\ taken \in Nat /\ moves \in Seq(Moves) /\ taken <= Len(moves)
      /\ spike \in Spikes /\ (taken = 0 => spike = NoSpike)
  BY DEF GuardTypes
<1>2. CASE Tick
  <2>1. time' \in Nat /\ UNCHANGED <<taken, spike>>
    BY <1>1, <1>2 DEF Tick
  <2>2. moves' \in Seq(Moves) /\ Len(moves') >= Len(moves)
    <3>1. moves' = moves \/ \E m \in Moves : moves' = Append(moves, m)
      BY <1>2 DEF Tick, Moves
    <3>2. ASSUME NEW m \in Moves
          PROVE  Append(moves, m) \in Seq(Moves) /\ Len(Append(moves, m)) = Len(moves) + 1
      BY <1>1
    <3>3. Len(moves) \in Nat
      BY <1>1
    <3> QED
      BY <1>1, <3>1, <3>2, <3>3
  <2>3. taken <= Len(moves')
    <3>1. Len(moves) \in Nat /\ Len(moves') \in Nat
      BY <1>1, <2>2
    <3> QED
      BY <1>1, <2>2, <3>1
  <2> QED
    BY <1>1, <2>1, <2>2, <2>3 DEF GuardTypes, NoSpike
<1>3. CASE Poll
  <2> DEFINE q == [k \in 1..(Len(moves) - taken) |-> taken + k]
  <2>1. /\ taken < Len(moves) /\ taken' = Len(moves) /\ UNCHANGED <<time, moves>>
        /\ spike' = FoldLeft(Checked, spike, q)
    BY <1>3 DEF Poll
  <2>2. /\ DOMAIN q = 1..(Len(moves) - taken) /\ IsFiniteSet(DOMAIN q) /\ DOMAIN q \subseteq Int
        /\ \A i \in DOMAIN q : q[i] \in 0..Len(moves)
    BY <1>1, FS_Interval
  <2> HIDE DEF q
  <2>3. \A s \in Spikes, i \in DOMAIN q : Checked(s, q[i]) \in Spikes
    BY <2>2, CheckedIs
  <2>4. FoldLeft(Checked, spike, q) \in Spikes
    <3>1. Kept(spike, q, Spikes)
      BY <1>1, <2>2, <2>3 DEF Kept
    <3> QED
      BY <3>1, ChecksKeep
  <2> QED
    BY <1>1, <2>1, <2>4 DEF GuardTypes
<1>4. CASE PollUnchecked
  BY <1>1, <1>4 DEF PollUnchecked, GuardTypes
<1> QED
  BY <1>2, <1>3, <1>4 DEF GuardNext

\* What a cycle does to the guard's state: a spike may start where candles are stored.
LEMMA CycleGuards ==
  ASSUME GuardTypes, NEW symbol, NEW r, UNCHANGED <<time, moves, taken>>,
         spike' \in {spike, AfterGuard(symbol, r)}
  PROVE  GuardTypes'
<1>1. CASE spike' = spike
  BY <1>1 DEF GuardTypes, NoSpike
<1>2. CASE spike' = AfterGuard(symbol, r) /\ Guarded(symbol, r)
  <2>1. spike' = Checked(spike, taken) /\ taken > 0
    BY <1>2 DEF AfterGuard, Guarded
  <2>2. spike' \in Spikes
    BY <2>1, CheckedIs DEF GuardTypes
  <2> QED
    BY <2>1, <2>2 DEF GuardTypes
<1>3. CASE spike' = AfterGuard(symbol, r) /\ ~Guarded(symbol, r)
  BY <1>1, <1>3 DEF AfterGuard
<1> QED
  BY <1>1, <1>2, <1>3

\* An alert without an order book: neither the cap nor the 4h bias lets it by.
LEMMA BlindAlert ==
  ASSUME ThresholdsWhole, NEW symbol, NEW r \in Inputs, NEW guard, Alerts(r), ~r.book
  PROVE  /\ AlertOf(symbol, r, guard).score <= 60
         /\ AlertOf(symbol, r, guard).adj <= 0
         /\ AlertOf(symbol, r, guard).asked <= 60
<1> DEFINE adj == Adj(r)
           n == Final(r)
<1>1. IsReading(r)
  BY ScoringAssumption
<1>2. n \in 0..60
  BY <1>1, FinalIs
<1>3. adj \in {-10, 0, 10}
  BY AdjustmentIs DEF Adj
<1>4. Class(n, adj, thresholds) = "ALERT"
  BY DEF Alerts, Kind
<1> HIDE DEF adj, n
<1>5. adj = 0
  <2>1. adj # 0 => Class(n, adj, thresholds) = Class(n, adj, Defaults)
    BY DEF Class
  <2> QED
    BY <1>2, <1>3, <1>4, <2>1, LiftedBelow
<1>6. Adjusted(n, adj) = n /\ Class(n, adj, thresholds) = Classify(n, thresholds)
  BY <1>5 DEF Adjusted, Class
<1>7. n >= thresholds.alert
  BY <1>4, <1>6 DEF Classify
<1>8. thresholds.alert <= 60
  BY <1>2, <1>7 DEF ThresholdsWhole
<1> QED
  BY <1>2, <1>5, <1>6, <1>8 DEF AlertOf, adj, n

LEMMA CompletesBlind ==
  ASSUME ThresholdsWhole, NEW symbol, NEW r \in Inputs, NEW guard, NEW published,
         GoesOn(symbol, r, guard, published)
  PROVE  BlindScoresAreCapped'
<1>1. CASE alert' = NoAlert
  BY <1>1 DEF BlindScoresAreCapped
<1>2. CASE alert' # NoAlert
  <2>1. Alerts(r) /\ alert' = AlertOf(symbol, r, guard)
    BY <1>2 DEF GoesOn
  <2>2. CASE r.book
    <3>1. alert'.book
      BY <2>1, <2>2 DEF AlertOf
    <3> QED
      BY <3>1 DEF BlindScoresAreCapped
  <2>3. CASE ~r.book
    BY <2>1, <2>3, BlindAlert DEF BlindScoresAreCapped
  <2> QED
    BY <2>2, <2>3
<1> QED
  BY <1>1, <1>2

LEMMA CycleKeeps == CycleInv /\ [ScoringNext]_scoringVars => CycleInv'
<1> SUFFICES ASSUME CycleInv, [ScoringNext]_scoringVars PROVE CycleInv'
  OBVIOUS
<1>1. GuardTypes /\ ThresholdsWhole /\ BlindScoresAreCapped
  BY DEF CycleInv
<1>2. CASE GuardNext /\ alert' = NoAlert /\ UNCHANGED thresholds
  BY <1>1, <1>2, GuardTurns DEF CycleInv, ThresholdsWhole, BlindScoresAreCapped
<1>3. CASE LockTurns
  BY <1>1, <1>3 DEF LockTurns, CycleInv, guardVars, GuardTypes, NoSpike, ThresholdsWhole,
                    BlindScoresAreCapped
<1>4. CASE Retune
  <2>1. ThresholdsWhole'
    BY <1>4, ScoringAssumption DEF Retune, ThresholdsWhole
  <2> QED
    BY <1>1, <1>4, <2>1 DEF Retune, CycleInv, guardVars, GuardTypes, NoSpike, BlindScoresAreCapped
<1>5. ASSUME NEW symbol, NEW r \in Inputs, Begins, spike' \in {spike, AfterGuard(symbol, r)},
             BlindScoresAreCapped'
      PROVE  CycleInv'
  <2>1. UNCHANGED <<time, moves, taken, thresholds>>
    BY <1>5 DEF Begins
  <2>2. GuardTypes'
    BY <1>1, <1>5, <2>1, CycleGuards
  <2>3. ThresholdsWhole'
    BY <1>1, <2>1 DEF ThresholdsWhole
  <2> QED
    BY <1>5, <2>2, <2>3 DEF CycleInv
<1>6. ASSUME NEW symbol, NEW r \in Inputs,
             Block(symbol, r) \/ Interrupted(symbol, r) \/ Refused(symbol, r)
      PROVE  CycleInv'
  <2>1. Begins /\ alert' = NoAlert /\ spike' \in {spike, AfterGuard(symbol, r)}
    BY <1>6 DEF Block, Interrupted, Refused
  <2>2. BlindScoresAreCapped'
    BY <2>1 DEF BlindScoresAreCapped
  <2> QED
    BY <1>5, <2>1, <2>2
<1>7. ASSUME NEW symbol, NEW r \in Inputs,
             \/ Scored(symbol, r) \/ Unstored(symbol, r) \/ Unpublished(symbol, r)
             \/ Unguarded(symbol, r) \/ Unchecked(symbol, r)
      PROVE  CycleInv'
  <2>1. spike' \in {spike, AfterGuard(symbol, r)}
    BY <1>7 DEF Scored, Unstored, Unpublished, Unguarded, Unchecked
  <2>2. PICK guard, published : GoesOn(symbol, r, guard, published)
    BY <1>7 DEF Scored, Unstored, Unpublished, Unguarded, Unchecked, Completes
  <2>3. BlindScoresAreCapped'
    BY <1>1, <2>2, CompletesBlind
  <2>4. Begins
    BY <2>2 DEF GoesOn
  <2> QED
    BY <1>5, <2>1, <2>3, <2>4
<1>8. CASE UNCHANGED scoringVars
  BY <1>1, <1>8 DEF scoringVars, guardVars, cycleVars, CycleInv, GuardTypes, NoSpike, ThresholdsWhole,
                    BlindScoresAreCapped
<1> QED
  BY <1>2, <1>3, <1>4, <1>6, <1>7, <1>8 DEF ScoringNext

LEMMA CycleStarts == ScoringInit => CycleInv
<1> SUFFICES ASSUME ScoringInit PROVE CycleInv
  OBVIOUS
<1>1. GuardTypes
  BY DEF ScoringInit, GuardInit, GuardTypes, NoSpike, Spikes, Moves
<1>2. ThresholdsWhole
  BY DEF ScoringInit, ThresholdsWhole, Defaults, Thresholds
<1> QED
  BY <1>1, <1>2 DEF ScoringInit, CycleInv, BlindScoresAreCapped

LEMMA CycleInvariant == ScoringSpec => []CycleInv
BY CycleStarts, CycleKeeps, PTL DEF ScoringSpec

\* Whatever is read, saved as thresholds or listed as filters, a signal without an order book
\* alerts at sixty points or less, only where the user asks for alerts that low, and never
\* because the 4h bias lifts it (SignalScorer.score and the adjustment in _run_cycle).
THEOREM BlindStaysCapped == ScoringSpec => []BlindScoresAreCapped
<1>1. CycleInv => BlindScoresAreCapped
  BY DEF CycleInv
<1> QED
  BY <1>1, CycleInvariant, PTL

\* A guard that speaks for a symbol: what it answers, and what it saw.
LEMMA GuardAnswers ==
  ASSUME GuardTypes, NEW symbol, NEW r, symbol # BTC, "btc_guard" \in filters,
         AlignedAs(r) # "opposing", Answer(symbol, r) # "dump"
  PROVE  /\ CoolingFor(spike) # "dump"
         /\ Examined(taken) = "dump" => CoolingFor(spike) = "pump" /\ Answer(symbol, r) = "pump"
<1>1. /\ time \in Nat /\ spike \in Spikes /\ taken \in Nat /\ taken <= Len(moves)
      /\ Len(moves) \in Nat
  BY DEF GuardTypes
<1>2. CASE taken = 0
  BY <1>1, <1>2 DEF GuardTypes, NoSpike, CoolingFor, Examined
<1>3. CASE taken > 0
  <2>1. Answer(symbol, r) = CoolingFor(Checked(spike, taken))
    BY <1>3 DEF Answer, AfterGuard, Guarded
  <2>2. CASE CoolingFor(spike) # "flat"
    <3>1. Checked(spike, taken) = spike
      BY <2>2 DEF Checked
    <3>2. CoolingFor(spike) \in Moves
      BY <1>1 DEF CoolingFor, Spikes, Moves
    <3> QED
      BY <2>1, <2>2, <3>1, <3>2 DEF Moves
  <2>3. CASE CoolingFor(spike) = "flat"
    <3>1. ASSUME Examined(taken) = "dump" PROVE FALSE
      <4>1. Checked(spike, taken) = [dir |-> "dump", until |-> time + COOLDOWN]
        BY <2>3, <3>1 DEF Checked
      <4>2. time < time + COOLDOWN
        BY <1>1, GuardAssumption
      <4> QED
        BY <2>1, <4>1, <4>2 DEF CoolingFor
    <3> QED
      BY <2>3, <3>1
  <2> QED
    BY <2>2, <2>3
<1> QED
  BY <1>1, <1>2, <1>3

\* While the guard pumps a position is at most half.
LEMMA PumpedSize == \A r : Size(r, "pump") <= 256
BY DEF Size, AlignmentSize, DailySize

\* What an alert the guard has let through looks like.
LEMMA LetThrough ==
  ASSUME GuardTypes, NEW symbol, NEW r, "btc_guard" \in filters, AlignedAs(r) # "opposing",
         Answer(symbol, r) # "dump", alert' = AlertOf(symbol, r, Answer(symbol, r)),
         alert'.symbol # BTC
  PROVE  /\ CoolingFor(spike) # "dump"
         /\ Examined(taken) = "dump" => CoolingFor(spike) = "pump" /\ alert'.size <= 256
<1>1. alert'.symbol = symbol /\ alert'.size = Size(r, Answer(symbol, r))
  BY DEF AlertOf
<1>2. /\ CoolingFor(spike) # "dump"
      /\ Examined(taken) = "dump" => CoolingFor(spike) = "pump" /\ Answer(symbol, r) = "pump"
  BY <1>1, GuardAnswers
<1> QED
  BY <1>1, <1>2, PumpedSize

\* What NothingPastTheGuards says of one step.
StepGuarded ==
  Alerted /\ filters = Known =>
    /\ "breaker" \notin mishaps' \ mishaps => ~locked
    /\ "blind" \notin mishaps' \ mishaps /\ alert'.symbol # BTC =>
         /\ CoolingFor(spike) # "dump"
         /\ Examined(taken) = "dump" => CoolingFor(spike) = "pump" /\ alert'.size <= 256

LEMMA StepsGuarded == CycleInv /\ [ScoringNext]_scoringVars => [StepGuarded]_scoringVars
<1> SUFFICES ASSUME CycleInv, ScoringNext, Alerted, filters = Known
             PROVE  /\ "breaker" \notin mishaps' \ mishaps => ~locked
                    /\ "blind" \notin mishaps' \ mishaps /\ alert'.symbol # BTC =>
                         /\ CoolingFor(spike) # "dump"
                         /\ Examined(taken) = "dump" =>
                              CoolingFor(spike) = "pump" /\ alert'.size <= 256
  BY DEF StepGuarded
<1>1. alert' # NoAlert /\ runs' # runs
  BY DEF Alerted
<1>2. PICK symbol \in Symbols, r \in Inputs :
        \/ Scored(symbol, r) \/ Unstored(symbol, r) \/ Unpublished(symbol, r)
        \/ Unguarded(symbol, r) \/ Unchecked(symbol, r)
  BY <1>1 DEF ScoringNext, LockTurns, Retune, Block, Interrupted, Refused
<1>3. {"btc_guard", "circuit_breaker"} \subseteq filters
  BY DEF Known
<1>4. CASE Unguarded(symbol, r)
  <2>1. "blind" \in mishaps' \ mishaps
    BY <1>4 DEF Unguarded, Mishap
  <2>2. ~locked
    BY <1>3, <1>4 DEF Unguarded, Completes, Blocked
  <2> QED
    BY <2>1, <2>2
<1>5. CASE Scored(symbol, r) \/ Unstored(symbol, r) \/ Unpublished(symbol, r)
  <2>1. PICK published : Completes(symbol, r, Answer(symbol, r), published)
    BY <1>5 DEF Scored, Unstored, Unpublished
  <2>2. /\ Blocked(r, Answer(symbol, r)) = "none"
        /\ alert' = AlertOf(symbol, r, Answer(symbol, r))
    BY <1>1, <2>1 DEF Completes, GoesOn
  <2>3. ~locked /\ AlignedAs(r) # "opposing" /\ Answer(symbol, r) # "dump"
    BY <1>3, <2>2 DEF Blocked
  <2> QED
    BY <1>3, <2>2, <2>3, LetThrough DEF CycleInv
<1>6. CASE Unchecked(symbol, r)
  <2>1. /\ "breaker" \in mishaps' \ mishaps
        /\ Blocked(r, Answer(symbol, r)) = "CB_LOCKED"
        /\ GoesOn(symbol, r, Answer(symbol, r), TRUE)
    BY <1>6 DEF Unchecked, Mishap
  <2>2. alert' = AlertOf(symbol, r, Answer(symbol, r))
    BY <1>1, <2>1 DEF GoesOn
  <2>3. AlignedAs(r) # "opposing" /\ Answer(symbol, r) # "dump"
    BY <2>1 DEF Blocked
  <2> QED
    BY <1>3, <2>1, <2>2, <2>3, LetThrough DEF CycleInv
<1> QED
  BY <1>2, <1>4, <1>5, <1>6

\* For any filters that name the four, no alert leaves a cycle while the breaker is locked; none
\* of an alt while the guard cools down from a dump or the candle it examines is one, unless a
\* pump came before, and then at half the size; only a guard or a breaker that cannot be read in
\* that cycle lets one through (ScoringService._run_cycle, CircuitBreakerFilter, BTCGuardFilter,
\* BTCVolatilityGuard.check_btc_spike).
THEOREM GuardsHold == ScoringSpec => NothingPastTheGuards
<1>1. [StepGuarded]_scoringVars => [Alerted /\ filters = Known =>
         /\ "breaker" \notin mishaps' \ mishaps => ~locked
         /\ "blind" \notin mishaps' \ mishaps /\ alert'.symbol # BTC =>
              /\ CoolingFor(spike) # "dump"
              /\ Examined(taken) = "dump" => CoolingFor(spike) = "pump" /\ alert'.size <= 256
       ]_scoringVars
  BY DEF StepGuarded
<1> QED
  BY <1>1, StepsGuarded, CycleInvariant, PTL DEF ScoringSpec, NothingPastTheGuards

-----------------------------------------------------------------------------
(* The backtest *)

\* A trade as its signal made it, but for the funding.
Priced(t) ==
  /\ t \in TestTrades
  /\ t.price \in Nat /\ t.price >= RISK
  /\ t.entry = Slipped(t.price, t.direction = "long")
  /\ t.stop = IF t.direction = "long" THEN t.price - RISK ELSE t.price + RISK

\* No candle after the one it was opened on, up to the last given, touches its stop.
Untouched(t, last) == \A at \in (t.entered + 1)..last : ~Stopped(t, data[at + 1])

TestTypes ==
  /\ data \in Seq(Candles) /\ data # <<>>
  /\ results \in Seq(TestTrades) /\ opened \in Seq(Nat)
  /\ open = NoTrade \/ Priced(open)

\* Every trade opened is closed, in the order of the signals, or open.
InOrder ==
  /\ Len(opened) = Len(results) + (IF open = NoTrade THEN 0 ELSE 1)
  /\ \A i \in DOMAIN results :
       /\ results[i].entered = opened[i] /\ results[i].exited < Len(data)
       /\ results[i].exited > results[i].entered \/ results[i].reason = "end_of_data"
       /\ i > 1 => results[i].entered > results[i - 1].exited
  /\ open # NoTrade =>
       /\ open.entered = opened[Len(opened)] /\ open.entered < Len(data)
       /\ results # <<>> => open.entered > results[Len(results)].exited
  /\ ended => open = NoTrade

NotFlattered ==
  /\ StopsComeFirst
  /\ open # NoTrade => Untouched(open, Len(data) - 1)

TestInv == TestTypes /\ InOrder /\ NotFlattered

\* Closing a trade keeps what it was.
LEMMA FilledIs ==
  ASSUME NEW t \in TestTrades, NEW at \in Nat, NEW price \in Int, NEW reason \in Reasons
  PROVE  /\ Filled(t, at, price, reason) \in TestTrades
         /\ Filled(t, at, price, reason).entered = t.entered
         /\ Filled(t, at, price, reason).direction = t.direction
         /\ Filled(t, at, price, reason).stop = t.stop
         /\ Filled(t, at, price, reason).entry = t.entry
         /\ Filled(t, at, price, reason).funding = t.funding
         /\ Filled(t, at, price, reason).exit = price
         /\ Filled(t, at, price, reason).exited = at
         /\ Filled(t, at, price, reason).reason = reason
BY DEF Filled, TestTrades

\* What a factor of a loss is: never positive, or never negative.
LEMMA Products ==
  /\ \A a, b \in Nat : a * b \in Nat
  /\ \A a, b \in Nat \ {0} : a * b \in Nat \ {0}
  /\ \A a, b \in Int : a * b \in Int
  /\ \A a \in Nat \ {0}, b \in Int : b < 0 => a * b < 0
OBVIOUS

\* A trade that ends at its stop loses, whatever the slippage, the fees and the funding.
LEMMA StopLoses ==
  ASSUME NEW t, Priced(t), NEW at \in Nat
  PROVE  Net(Filled(t, at, Slipped(t.stop, t.direction = "short"), "sl")) < 0
<1> DEFINE p == t.price
           s == SLIPPAGE
           exit == Slipped(t.stop, t.direction = "short")
           z == Filled(t, at, exit, "sl")
           move == IF t.direction = "long" THEN exit - t.entry ELSE t.entry - exit
<1>1. /\ p \in Nat \ {0} /\ p >= RISK /\ RISK \in Nat \ {0} /\ s \in Nat \ {0} /\ FEE \in Nat \ {0}
      /\ PAYMENT \in Nat /\ t.funding \in Nat /\ t.direction \in {"long", "short"}
  BY TestAssumption DEF Priced, TestTrades
<1>2. /\ t.entry \in Nat /\ exit \in Nat /\ move \in Int /\ move < 0
  <2>1. CASE t.direction = "long"
    <3>1. t.entry = (s + 1) * p /\ exit = (s - 1) * (p - RISK) /\ move = exit - t.entry
      BY <2>1 DEF Priced, Slipped
    <3>2. s - 1 \in Nat /\ p - RISK \in Nat /\ s + 1 \in Nat
      BY <1>1
    <3>3. t.entry \in Nat /\ exit \in Nat
      BY <1>1, <3>1, <3>2, Products
    <3>4. (s - 1) * (p - RISK) <= (s - 1) * p
      BY <1>1, <3>2
    <3>5. (s - 1) * p < (s + 1) * p
      BY <1>1
    <3>6. (s - 1) * p \in Int /\ (s + 1) * p \in Int /\ (s - 1) * (p - RISK) \in Int
      BY <1>1, <3>2, Products
    <3> HIDE DEF exit, move, p, s
    <3> QED
      BY <3>1, <3>3, <3>4, <3>5, <3>6
  <2>2. CASE t.direction = "short"
    <3>1. t.entry = (s - 1) * p /\ exit = (s + 1) * (p + RISK) /\ move = t.entry - exit
      BY <2>2 DEF Priced, Slipped
    <3>2. s - 1 \in Nat /\ p + RISK \in Nat /\ s + 1 \in Nat
      BY <1>1
    <3>3. t.entry \in Nat /\ exit \in Nat
      BY <1>1, <3>1, <3>2, Products
    <3>4. (s + 1) * p <= (s + 1) * (p + RISK)
      BY <1>1, <3>2
    <3>5. (s - 1) * p < (s + 1) * p
      BY <1>1
    <3>6. (s - 1) * p \in Int /\ (s + 1) * p \in Int /\ (s + 1) * (p + RISK) \in Int
      BY <1>1, <3>2, Products
    <3> HIDE DEF exit, move, p, s
    <3> QED
      BY <3>1, <3>3, <3>4, <3>5, <3>6
  <2> QED
    BY <1>1, <2>1, <2>2
<1> HIDE DEF exit
<1>3. /\ z.direction = t.direction /\ z.entry = t.entry /\ z.exit = exit /\ z.funding = t.funding
  <2>1. t \in TestTrades /\ exit \in Int /\ "sl" \in Reasons
    BY <1>2 DEF Priced, Reasons
  <2> QED
    BY <2>1, FilledIs
<1> HIDE DEF z
<1>4. Net(z) = 100 * s * FEE * move
                 - t.entry * (100 * t.entry + exit + s * FEE * t.funding * PAYMENT)
  BY <1>3 DEF Net, EntryFee, ExitFee, Position
<1> DEFINE won == 100 * s * FEE * move
           paid == t.entry * (100 * t.entry + exit + s * FEE * t.funding * PAYMENT)
<1> HIDE DEF move, s
<1>5. won \in Int /\ won < 0
  <2>1. 100 * s * FEE \in Nat \ {0}
    <3>1. 100 * s \in Nat \ {0}
      BY <1>1
    <3> QED
      BY <1>1, <3>1, Products
  <2> DEFINE k == 100 * s * FEE
  <2> HIDE DEF k
  <2>2. k \in Nat \ {0}
    BY <2>1 DEF k
  <2>3. k * move \in Int /\ k * move < 0
    BY <1>2, <2>2, Products
  <2> QED
    BY <2>3 DEF k
<1>6. paid \in Nat
  <2>1. s * FEE \in Nat
    BY <1>1, Products
  <2>2. s * FEE * t.funding \in Nat
    BY <1>1, <2>1, Products
  <2>3. s * FEE * t.funding * PAYMENT \in Nat
    BY <1>1, <2>2, Products
  <2>4. 100 * t.entry \in Nat
    BY <1>2
  <2>5. 100 * t.entry + exit + s * FEE * t.funding * PAYMENT \in Nat
    BY <1>2, <2>3, <2>4
  <2> QED
    BY <1>2, <2>5, Products
<1>7. Net(z) = won - paid
  BY <1>4
<1> HIDE DEF won, paid
<1>8. Net(z) < 0
  BY <1>5, <1>6, <1>7
<1> QED
  BY <1>8 DEF z, exit

\* A candle that ends a trade ends it with the candle's index, at a level of the trade.
LEMMA ExitIs ==
  ASSUME NEW t, Priced(t), NEW k \in Candles, NEW at \in Nat, NEW z \in Exits(t, k, at)
  PROVE  /\ z \in TestTrades /\ z.entered = t.entered /\ z.exited = at
         /\ z.direction = t.direction /\ z.stop = t.stop
         /\ z.reason = "sl" => Net(z) < 0
         /\ z.reason # "sl" => ~Stopped(t, k)
<1>1. /\ t \in TestTrades /\ t.stop \in Int /\ t.tp1 \in Int /\ SLIPPAGE \in Nat
      /\ "sl" \in Reasons /\ "tp1" \in Reasons
  BY TestAssumption DEF Priced, TestTrades, Reasons
<1>2. \A level \in Int, buying \in BOOLEAN : Slipped(level, buying) \in Int
  <2>1. SLIPPAGE + 1 \in Int /\ SLIPPAGE - 1 \in Int
    BY <1>1
  <2> QED
    BY <2>1, Products DEF Slipped
<1> DEFINE buying == t.direction = "short"
           atStop == Filled(t, at, Slipped(t.stop, buying), "sl")
           atTarget == Filled(t, at, Slipped(t.tp1, buying), "tp1")
<1>3. Slipped(t.stop, buying) \in Int /\ Slipped(t.tp1, buying) \in Int
  BY <1>1, <1>2
<1>4. CASE Stopped(t, k)
  <2>1. z = atStop
    BY <1>4 DEF Exits
  <2>2. Net(atStop) < 0
    BY StopLoses
  <2> HIDE DEF buying
  <2>3. /\ atStop \in TestTrades /\ atStop.entered = t.entered /\ atStop.exited = at
        /\ atStop.direction = t.direction /\ atStop.stop = t.stop /\ atStop.reason = "sl"
    BY <1>1, <1>3, FilledIs
  <2> QED
    BY <2>1, <2>2, <2>3
<1>5. CASE ~Stopped(t, k)
  <2>1. z = atTarget
    BY <1>5 DEF Exits
  <2> HIDE DEF buying
  <2>2. /\ atTarget \in TestTrades /\ atTarget.entered = t.entered /\ atTarget.exited = at
        /\ atTarget.direction = t.direction /\ atTarget.stop = t.stop /\ atTarget.reason = "tp1"
    BY <1>1, <1>3, FilledIs
  <2> QED
    BY <1>5, <2>1, <2>2
<1> QED
  BY <1>4, <1>5

\* What being stopped and having touched the stop look at.
LEMMA SameStop ==
  \A t, z : z.direction = t.direction /\ z.stop = t.stop =>
    \A k : Stopped(z, k) <=> Stopped(t, k)
BY DEF Stopped

\* Candles that arrive leave the earlier ones as they are.
LEMMA EarlierStay ==
  ASSUME TestTypes, NEW k \in Candles, data' = Append(data, k)
  PROVE  /\ data' \in Seq(Candles) /\ data' # <<>> /\ Len(data') = Len(data) + 1
         /\ \A i \in 1..Len(data) : data'[i] = data[i]
         /\ data'[Len(data) + 1] = k
BY DEF TestTypes

\* A trade has touched its stop up to a candle that was there exactly if it had before.
LEMMA TouchesStay ==
  ASSUME TestTypes, NEW k \in Candles, data' = Append(data, k)
  PROVE  \A t, last : (t.entered \in Nat /\ last \in Int /\ last < Len(data)) =>
           ((\A at \in (t.entered + 1)..last : ~Stopped(t, data'[at + 1]))
             <=> (\A at \in (t.entered + 1)..last : ~Stopped(t, data[at + 1])))
<1> TAKE t, last
<1> HAVE t.entered \in Nat /\ last \in Int /\ last < Len(data)
<1>1. Len(data) \in Nat
  BY DEF TestTypes
<1>2. \A at \in (t.entered + 1)..last : at + 1 \in 1..Len(data)
  BY <1>1
<1>3. \A at \in (t.entered + 1)..last : data'[at + 1] = data[at + 1]
  BY <1>2, EarlierStay
<1> QED
  BY <1>3

\* A trade in the results has lost at its stop or has not touched it.
Settled(t) ==
  IF t.reason = "sl" THEN Net(t) < 0
  ELSE \A at \in (t.entered + 1)..t.exited : ~Stopped(t, data[at + 1])

LEMMA SettledStays ==
  ASSUME TestTypes, NEW k \in Candles, data' = Append(data, k)
  PROVE  \A t \in TestTrades : t.exited < Len(data) /\ Settled(t) => Settled(t)'
<1> TAKE t \in TestTrades
<1> HAVE t.exited < Len(data) /\ Settled(t)
<1>1. t.entered \in Nat /\ t.exited \in Int
  BY DEF TestTrades
<1>2. (\A at \in (t.entered + 1)..t.exited : ~Stopped(t, data'[at + 1]))
        <=> (\A at \in (t.entered + 1)..t.exited : ~Stopped(t, data[at + 1]))
  BY <1>1, TouchesStay
<1> QED
  BY <1>2 DEF Settled, Net, EntryFee, ExitFee

\* The open trade stays untouched on a candle that does not touch its stop.
LEMMA UntouchedStays ==
  ASSUME TestTypes, NEW k \in Candles, data' = Append(data, k)
  PROVE  \A t \in TestTrades : Untouched(t, Len(data) - 1) /\ ~Stopped(t, k) =>
           \A at \in (t.entered + 1)..Len(data) : ~Stopped(t, data'[at + 1])
<1> TAKE t \in TestTrades
<1> HAVE Untouched(t, Len(data) - 1) /\ ~Stopped(t, k)
<1>1. t.entered \in Nat /\ Len(data) \in Nat /\ data'[Len(data) + 1] = k
  BY EarlierStay DEF TestTrades, TestTypes
<1>2. \A at \in (t.entered + 1)..(Len(data) - 1) : ~Stopped(t, data'[at + 1])
  BY <1>1, TouchesStay DEF Untouched
<1>3. \A at \in (t.entered + 1)..Len(data) :
        at = Len(data) \/ at \in (t.entered + 1)..(Len(data) - 1)
  BY <1>1
<1> QED
  BY <1>1, <1>2, <1>3

LEMMA TestInit == BacktestInit => TestInv
<1> SUFFICES ASSUME BacktestInit PROVE TestInv
  OBVIOUS
<1>1. PICK k \in Candles : data = <<k>>
  BY DEF BacktestInit
<1>2. TestTypes
  BY <1>1 DEF BacktestInit, TestTypes
<1> QED
  BY <1>2 DEF BacktestInit, TestInv, InOrder, NotFlattered, StopsComeFirst

\* What holds of the results holds after a candle that adds none.
LEMMA ResultsStay ==
  ASSUME TestInv, NEW k \in Candles, data' = Append(data, k), results' = results
  PROVE  /\ results' \in Seq(TestTrades) /\ StopsComeFirst'
         /\ \A i \in DOMAIN results : results'[i].exited < Len(data')
<1>1. results \in Seq(TestTrades) /\ \A i \in DOMAIN results : results[i] \in TestTrades
  BY DEF TestInv, TestTypes
<1>2. \A i \in DOMAIN results : results[i].exited < Len(data) /\ results[i].exited \in Int
  BY <1>1 DEF TestInv, InOrder, TestTrades
<1>3. \A i \in DOMAIN results : Settled(results[i])
  BY DEF TestInv, NotFlattered, StopsComeFirst, Settled
<1>4. \A t \in TestTrades : t.exited < Len(data) /\ Settled(t) => Settled(t)'
  BY SettledStays DEF TestInv
<1>5. \A i \in DOMAIN results' : Settled(results[i])'
  BY <1>1, <1>2, <1>3, <1>4
<1>6. StopsComeFirst'
  BY <1>5 DEF StopsComeFirst, Settled
<1>7. Len(data) \in Nat /\ Len(data') = Len(data) + 1
  BY EarlierStay DEF TestInv, TestTypes
<1> QED
  BY <1>1, <1>2, <1>6, <1>7

LEMMA PassKeepsInv ==
  ASSUME TestInv, NEW k \in Candles, Passes(k)
  PROVE  TestInv'
<1>1. /\ data' = Append(data, k) /\ results' = results /\ open' = open /\ opened' = opened
      /\ open = NoTrade /\ ended' = ended
  BY DEF Passes, Arrives
<1>2. /\ results' \in Seq(TestTrades) /\ StopsComeFirst'
      /\ \A i \in DOMAIN results : results'[i].exited < Len(data')
  BY <1>1, ResultsStay
<1>3. TestTypes'
  BY <1>1, <1>2, EarlierStay DEF TestInv, TestTypes
<1>4. InOrder'
  BY <1>1, <1>2 DEF TestInv, InOrder
<1> QED
  BY <1>1, <1>2, <1>3, <1>4 DEF TestInv, NotFlattered

\* A candle that the open trade survives has not touched its stop.
LEMMA HoldKeepsInv ==
  ASSUME TestInv, NEW k \in Candles, Holds(k)
  PROVE  TestInv'
<1> DEFINE t == Charged(open, Len(data))
<1>1. /\ data' = Append(data, k) /\ results' = results /\ opened' = opened /\ ended' = ended
      /\ open # NoTrade /\ Exits(open, k, Len(data)) = {} /\ open' = t
  BY DEF Holds, Arrives
<1>2. /\ results' \in Seq(TestTrades) /\ StopsComeFirst'
      /\ \A i \in DOMAIN results : results'[i].exited < Len(data')
  BY <1>1, ResultsStay
<1>3. Priced(open) /\ open \in TestTrades
  BY <1>1 DEF TestInv, TestTypes, Priced
<1>4. /\ t \in TestTrades /\ t.entered = open.entered /\ t.direction = open.direction
      /\ t.stop = open.stop /\ t.price = open.price /\ t.entry = open.entry
  BY <1>3 DEF Charged, TestTrades
<1>5. Priced(t) /\ t # NoTrade
  BY <1>3, <1>4, TestAssumption DEF Priced, Slipped
<1> HIDE DEF t
<1>6. ~Stopped(open, k)
  BY <1>1 DEF Exits
<1>7. Len(data) \in Nat /\ Len(data') = Len(data) + 1
  BY <1>1, EarlierStay DEF TestInv, TestTypes
<1>8. Untouched(open, Len(data) - 1)'
  <2>1. Untouched(open, Len(data) - 1)
    BY <1>1 DEF TestInv, NotFlattered
  <2>2. \A at \in (open.entered + 1)..Len(data) : ~Stopped(open, data'[at + 1])
    BY <1>1, <1>3, <1>6, <2>1, UntouchedStays DEF TestInv
  <2>3. \A c : Stopped(t, c) <=> Stopped(open, c)
    BY <1>4, SameStop
  <2>4. \A at \in (t.entered + 1)..Len(data) : ~Stopped(t, data'[at + 1])
    BY <1>4, <2>2, <2>3
  <2>5. Len(data') - 1 = Len(data)
    BY <1>7
  <2> QED
    BY <1>1, <2>4, <2>5 DEF Untouched
<1>9. TestTypes'
  <2>1. Priced(open)'
    BY <1>1, <1>5 DEF Priced, Slipped
  <2> QED
    BY <1>1, <1>2, <2>1, EarlierStay DEF TestInv, TestTypes
<1>10. InOrder'
  <2>1. open'.entered = open.entered /\ open' # NoTrade /\ open.entered \in Nat
    BY <1>1, <1>3, <1>4, <1>5 DEF TestTrades
  <2> QED
    BY <1>1, <1>2, <1>7, <2>1 DEF TestInv, InOrder
<1> QED
  BY <1>1, <1>2, <1>8, <1>9, <1>10 DEF TestInv, NotFlattered

\* A trade is opened after all that was closed.
LEMMA EnterKeepsInv ==
  ASSUME TestInv, NEW k \in Candles, NEW direction \in {"long", "short"}, Enters(k, direction)
  PROVE  TestInv'
<1> DEFINE t == Trade([direction |-> direction], Len(data), k.c)
<1>1. /\ data' = Append(data, k) /\ results' = results /\ ended' = ended
      /\ open = NoTrade /\ open' = t /\ opened' = Append(opened, Len(data)) /\ ~ended
  BY DEF Enters, Arrives
<1>2. /\ results' \in Seq(TestTrades) /\ StopsComeFirst'
      /\ \A i \in DOMAIN results : results'[i].exited < Len(data')
  BY <1>1, ResultsStay
<1>3. Len(data) \in Nat /\ Len(data') = Len(data) + 1
  BY <1>1, EarlierStay DEF TestInv, TestTypes
<1>4. /\ k.c \in Nat /\ k.c >= RISK /\ RISK \in Nat /\ REWARD \in Nat /\ SLIPPAGE \in Nat
  BY TestAssumption
<1>5. \A buying \in BOOLEAN : Slipped(k.c, buying) \in Int
  <2>1. SLIPPAGE + 1 \in Int /\ SLIPPAGE - 1 \in Int
    BY <1>4
  <2> QED
    BY <1>4, <2>1, Products DEF Slipped
<1>6. /\ t \in TestTrades /\ t.entered = Len(data) /\ t.price = k.c
      /\ t.direction = direction /\ t.entry = Slipped(k.c, direction = "long")
      /\ t.stop = IF direction = "long" THEN k.c - RISK ELSE k.c + RISK
  <2> DEFINE fill == Slipped(k.c, direction = "long")
  <2>1. fill \in Int
    BY <1>5
  <2>2. t = [direction |-> direction, entered |-> Len(data), entry |-> fill, price |-> k.c,
             stop |-> IF direction = "long" THEN k.c - RISK ELSE k.c + RISK,
             tp1 |-> IF direction = "long" THEN k.c + REWARD ELSE k.c - REWARD,
             funding |-> 0, exit |-> 0, exited |-> 0, reason |-> "open"]
    BY DEF Trade
  <2> HIDE DEF fill, t
  <2>3. t \in TestTrades
    BY <1>3, <1>4, <2>1, <2>2 DEF TestTrades, Reasons
  <2> QED
    BY <2>2, <2>3 DEF fill
<1> HIDE DEF t
<1>7. Priced(t) /\ t # NoTrade
  BY <1>4, <1>6, TestAssumption DEF Priced
<1>8. TestTypes'
  <2>1. Priced(open)'
    BY <1>1, <1>7 DEF Priced, Slipped
  <2>2. opened' \in Seq(Nat)
    BY <1>1, <1>3 DEF TestInv, TestTypes
  <2> QED
    BY <1>1, <1>2, <2>1, <2>2, EarlierStay DEF TestInv, TestTypes
<1>9. InOrder'
  <2>1. /\ results \in Seq(TestTrades) /\ opened \in Seq(Nat)
        /\ Len(results) \in Nat /\ Len(opened) = Len(results)
    BY <1>1 DEF TestInv, TestTypes, InOrder
  <2>2. /\ Len(opened') = Len(results) + 1 /\ opened'[Len(opened')] = Len(data)
        /\ \A i \in DOMAIN results : opened'[i] = opened[i]
    BY <1>1, <1>3, <2>1
  <2>3. results # <<>> => Len(data) > results[Len(results)].exited
    <3>1. \A i \in DOMAIN results : results[i] \in TestTrades
      BY <2>1
    <3>2. \A i \in DOMAIN results : results[i].exited \in Nat /\ results[i].exited < Len(data)
      BY <3>1 DEF TestInv, InOrder, TestTrades
    <3> QED
      BY <1>3, <2>1, <3>2
  <2>4. \A i \in DOMAIN results' :
          /\ results'[i].entered = opened'[i] /\ results'[i].exited < Len(data')
          /\ results'[i].exited > results'[i].entered \/ results'[i].reason = "end_of_data"
          /\ i > 1 => results'[i].entered > results'[i - 1].exited
    BY <1>1, <1>2, <2>2 DEF TestInv, InOrder
  <2>5. open' # NoTrade /\ open'.entered = Len(data) /\ Len(data) < Len(data') /\ ~ended'
    BY <1>1, <1>3, <1>6, <1>7
  <2> QED
    BY <1>1, <2>1, <2>2, <2>3, <2>4, <2>5 DEF InOrder
<1>10. Untouched(open, Len(data) - 1)'
  <2>1. Len(data') - 1 = Len(data)
    BY <1>3
  <2>2. (t.entered + 1)..Len(data) = {}
    BY <1>3, <1>6
  <2> QED
    BY <1>1, <2>1, <2>2 DEF Untouched
<1> QED
  BY <1>1, <1>2, <1>8, <1>9, <1>10 DEF TestInv, NotFlattered

\* The open trade takes its place after all that was closed.
LEMMA ClosingKeepsOrder ==
  ASSUME TestInv, open # NoTrade, open' = NoTrade, opened' = opened,
         Len(data') \in Nat, Len(data') >= Len(data)
  PROVE  \A z \in TestTrades :
           (/\ results' = Append(results, z)
            /\ z.entered = open.entered /\ z.exited < Len(data')
            /\ z.exited > z.entered \/ z.reason = "end_of_data")
           => InOrder'
<1> TAKE z \in TestTrades
<1> HAVE /\ results' = Append(results, z)
         /\ z.entered = open.entered /\ z.exited < Len(data')
         /\ z.exited > z.entered \/ z.reason = "end_of_data"
<1> DEFINE n == Len(results)
<1>1. /\ results \in Seq(TestTrades) /\ n \in Nat /\ Len(data) \in Nat
      /\ Len(opened) = n + 1 /\ open.entered = opened[Len(opened)]
      /\ results # <<>> => open.entered > results[n].exited
  BY DEF TestInv, TestTypes, InOrder
<1>2. /\ Len(results') = n + 1 /\ DOMAIN results' = 1..(n + 1) /\ DOMAIN results = 1..n
      /\ results'[n + 1] = z /\ \A i \in 1..n : results'[i] = results[i]
  BY <1>1
<1>3. \A i \in 1..n : results'[i].exited < Len(data')
  <2>1. \A i \in 1..n : results[i] \in TestTrades
    BY <1>1
  <2>2. \A i \in 1..n : results[i].exited \in Nat /\ results[i].exited < Len(data)
    BY <1>2, <2>1 DEF TestInv, InOrder, TestTrades
  <2> QED
    BY <1>1, <1>2, <2>2
<1>4. ASSUME NEW i \in DOMAIN results'
      PROVE  /\ results'[i].entered = opened'[i] /\ results'[i].exited < Len(data')
             /\ results'[i].exited > results'[i].entered \/ results'[i].reason = "end_of_data"
             /\ i > 1 => results'[i].entered > results'[i - 1].exited
  <2>1. CASE i \in 1..n
    <3>1. i > 1 => i - 1 \in 1..n
      BY <1>1, <2>1
    <3> QED
      BY <1>2, <1>3, <2>1, <3>1 DEF TestInv, InOrder
  <2>2. CASE i = n + 1
    <3>1. i > 1 => n \in 1..n /\ i - 1 = n /\ results # <<>>
      BY <1>1, <2>2
    <3> QED
      BY <1>1, <1>2, <2>2, <3>1
  <2> QED
    BY <1>1, <1>2, <2>1, <2>2
<1> HIDE DEF n
<1>5. Len(opened') = Len(results')
  BY <1>1, <1>2
<1> QED
  BY <1>1, <1>2, <1>4, <1>5 DEF InOrder

\* What is settled in the results and in the trade that joins them is settled in the new results.
LEMMA ClosingKeepsSettled ==
  \A z \in TestTrades :
    (/\ results \in Seq(TestTrades) /\ results' = Append(results, z)
     /\ \A i \in DOMAIN results : Settled(results[i])'
     /\ Settled(z)')
    => StopsComeFirst'
<1> TAKE z \in TestTrades
<1> HAVE /\ results \in Seq(TestTrades) /\ results' = Append(results, z)
         /\ \A i \in DOMAIN results : Settled(results[i])'
         /\ Settled(z)'
<1> QED
  BY DEF StopsComeFirst, Settled

\* The candle that ends a trade settles it.
LEMMA CloseKeepsInv ==
  ASSUME TestInv, NEW k \in Candles, Closes(k)
  PROVE  TestInv'
<1>1. PICK z \in Exits(open, k, Len(data)) : results' = Append(results, z)
  BY DEF Closes
<1>2. /\ data' = Append(data, k) /\ opened' = opened /\ ended' = ended
      /\ open # NoTrade /\ open' = NoTrade
  BY DEF Closes, Arrives
<1>3. /\ Len(data) \in Nat /\ Len(data') = Len(data) + 1 /\ results \in Seq(TestTrades)
      /\ TestTypes
  BY <1>2, EarlierStay DEF TestInv, TestTypes
<1>4. /\ Priced(open) /\ open \in TestTrades /\ open.entered \in Nat
      /\ open.entered < Len(data) /\ Untouched(open, Len(data) - 1)
  BY <1>2 DEF TestInv, TestTypes, Priced, TestTrades, InOrder, NotFlattered
<1>5. /\ z \in TestTrades /\ z.entered = open.entered /\ z.exited = Len(data)
      /\ z.direction = open.direction /\ z.stop = open.stop
      /\ z.reason = "sl" => Net(z) < 0
      /\ z.reason # "sl" => ~Stopped(open, k)
  BY <1>3, <1>4, ExitIs
<1>6. InOrder'
  BY <1>1, <1>2, <1>3, <1>4, <1>5, ClosingKeepsOrder
<1>7. Settled(z)'
  <2>1. CASE z.reason = "sl"
    BY <1>5, <2>1 DEF Settled, Net, EntryFee, ExitFee
  <2>2. CASE z.reason # "sl"
    <3>1. \A at \in (open.entered + 1)..Len(data) : ~Stopped(open, data'[at + 1])
      BY <1>2, <1>3, <1>4, <1>5, <2>2, UntouchedStays
    <3>2. \A c : Stopped(z, c) <=> Stopped(open, c)
      BY <1>5, SameStop
    <3> QED
      BY <1>5, <2>2, <3>1, <3>2 DEF Settled
  <2> QED
    BY <2>1, <2>2
<1>8. \A i \in DOMAIN results : Settled(results[i])'
  <2>1. \A i \in DOMAIN results : results[i] \in TestTrades /\ results'[i] = results[i]
    BY <1>1, <1>3
  <2>2. \A i \in DOMAIN results : results[i].exited < Len(data) /\ Settled(results[i])
    BY DEF TestInv, InOrder, NotFlattered, StopsComeFirst, Settled
  <2>3. \A t \in TestTrades : t.exited < Len(data) /\ Settled(t) => Settled(t)'
    BY <1>2, <1>3, SettledStays
  <2> QED
    BY <2>1, <2>2, <2>3
<1>9. StopsComeFirst'
  BY <1>1, <1>3, <1>5, <1>7, <1>8, ClosingKeepsSettled
<1>10. TestTypes'
  <2>1. results' \in Seq(TestTrades)
    BY <1>1, <1>3, <1>5
  <2> QED
    BY <1>2, <2>1, EarlierStay DEF TestInv, TestTypes
<1> QED
  BY <1>2, <1>6, <1>9, <1>10 DEF TestInv, NotFlattered

\* The end of the data closes what is open, untouched as it is.
LEMMA EndKeepsInv ==
  ASSUME TestInv, End
  PROVE  TestInv'
<1> DEFINE z == Filled(open, Len(data) - 1, SLIPPAGE * Last(data).c, "end_of_data")
<1>1. data' = data /\ opened' = opened /\ open' = NoTrade
  BY DEF End
<1>2. /\ Len(data) \in Nat \ {0} /\ results \in Seq(TestTrades) /\ TestTypes
      /\ data' \in Seq(Candles) /\ data' # <<>> /\ opened' \in Seq(Nat)
  BY <1>1 DEF TestInv, TestTypes
<1>3. \A t \in TestTrades : Settled(t)' <=> Settled(t)
  BY <1>1 DEF Settled, Net, EntryFee, ExitFee
<1>4. CASE open = NoTrade
  <2>1. results' = results /\ open' = open
    BY <1>1, <1>4 DEF End
  <2> QED
    BY <1>1, <1>2, <1>4, <2>1 DEF TestInv, TestTypes, InOrder, NotFlattered, StopsComeFirst
<1>5. CASE open # NoTrade
  <2>1. results' = Append(results, z)
    BY <1>5 DEF End
  <2>2. /\ open \in TestTrades /\ open.entered \in Nat /\ Untouched(open, Len(data) - 1)
    BY <1>5 DEF TestInv, TestTypes, Priced, TestTrades, NotFlattered
  <2>3. SLIPPAGE * Last(data).c \in Int
    <3>1. Last(data) \in Candles
      BY <1>2 DEF TestTypes, Last
    <3>2. SLIPPAGE \in Int /\ Last(data).c \in Int
      BY <3>1, TestAssumption
    <3> QED
      BY <3>2, Products
  <2>4. Len(data) - 1 \in Nat /\ "end_of_data" \in Reasons
    BY <1>2 DEF Reasons
  <2>5. /\ z \in TestTrades /\ z.entered = open.entered /\ z.exited = Len(data) - 1
        /\ z.direction = open.direction /\ z.stop = open.stop /\ z.reason = "end_of_data"
    <3> DEFINE at == Len(data) - 1
               price == SLIPPAGE * Last(data).c
    <3>1. at \in Nat /\ price \in Int /\ z = Filled(open, at, price, "end_of_data")
      BY <2>3, <2>4
    <3> HIDE DEF at, price, z
    <3>2. /\ z \in TestTrades /\ z.entered = open.entered /\ z.exited = at
          /\ z.direction = open.direction /\ z.stop = open.stop /\ z.reason = "end_of_data"
      BY <2>2, <2>4, <3>1, FilledIs
    <3> QED
      BY <3>2 DEF at
  <2> HIDE DEF z
  <2>6. InOrder'
    <3>1. Len(data') = Len(data) /\ z.exited < Len(data')
      BY <1>1, <1>2, <2>5
    <3> QED
      BY <1>1, <1>2, <1>5, <2>1, <2>5, <3>1, ClosingKeepsOrder
  <2>7. Settled(z)
    <3>1. \A c : Stopped(z, c) <=> Stopped(open, c)
      BY <2>5, SameStop
    <3> QED
      BY <2>2, <2>5, <3>1 DEF Settled, Untouched
  <2>8. \A i \in DOMAIN results : Settled(results[i])'
    <3>1. \A i \in DOMAIN results : results[i] \in TestTrades /\ results'[i] = results[i]
      BY <1>2, <2>1, <2>5
    <3>2. \A i \in DOMAIN results : Settled(results[i])
      BY DEF TestInv, NotFlattered, StopsComeFirst, Settled
    <3> QED
      BY <1>3, <3>1, <3>2
  <2>9. StopsComeFirst'
    BY <1>2, <1>3, <2>1, <2>5, <2>7, <2>8, ClosingKeepsSettled
  <2>10. results' \in Seq(TestTrades)
    BY <1>2, <2>1, <2>5
  <2> QED
    BY <1>1, <1>2, <2>6, <2>9, <2>10 DEF TestInv, TestTypes, NotFlattered
<1> QED
  BY <1>4, <1>5

LEMMA TestNext == TestInv /\ [BacktestNext]_testVars => TestInv'
<1> SUFFICES ASSUME TestInv, [BacktestNext]_testVars PROVE TestInv'
  OBVIOUS
<1>1. ASSUME NEW k \in Candles, Closes(k) PROVE TestInv'
  BY <1>1, CloseKeepsInv
<1>2. ASSUME NEW k \in Candles, Holds(k) PROVE TestInv'
  BY <1>2, HoldKeepsInv
<1>3. ASSUME NEW k \in Candles, Passes(k) PROVE TestInv'
  BY <1>3, PassKeepsInv
<1>4. ASSUME NEW k \in Candles, NEW direction \in {"long", "short"}, Enters(k, direction)
      PROVE  TestInv'
  BY <1>4, EnterKeepsInv
<1>5. CASE End
  BY <1>5, EndKeepsInv
<1>6. CASE UNCHANGED testVars
  <2>1. /\ data' = data /\ open' = open /\ results' = results /\ opened' = opened
        /\ ended' = ended
    BY <1>6 DEF testVars
  <2>2. TestTypes' /\ InOrder'
    BY <2>1 DEF TestInv, TestTypes, InOrder, Priced, Slipped
  <2>3. NotFlattered'
    BY <2>1 DEF TestInv, NotFlattered, StopsComeFirst, Untouched
  <2> QED
    BY <2>2, <2>3 DEF TestInv
<1> QED
  BY <1>1, <1>2, <1>3, <1>4, <1>5, <1>6 DEF BacktestNext

\* BacktestingEngine.run holds one trade at a time and loses none: over every market and of any
\* length, the results are the signals taken, in their order, each closed after it was opened.
THEOREM NoTradeLost == BacktestSpec => []TradesAccounted
<1>1. TestInv => TradesAccounted
  BY DEF TestInv, InOrder, TradesAccounted
<1> QED
  BY <1>1, TestInit, TestNext, PTL DEF BacktestSpec

\* _check_exit looks at the stop before the target, and _fill_exit fills at the level: whatever
\* the prices, the slippage, the fee and the funding, a trade that ended at its stop has lost, and
\* any other has not touched its stop since it was opened.
THEOREM NotFlatteredByTheOrder == BacktestSpec => []StopsComeFirst
<1>1. TestInv => StopsComeFirst
  BY DEF TestInv, NotFlattered
<1> QED
  BY <1>1, TestInit, TestNext, PTL DEF BacktestSpec

-----------------------------------------------------------------------------
(* Charts *)

ChartInv == seen \in Seq(Bars) /\ seen # <<>>

LEMMA ChartGrows == ChartSpec => []ChartInv
<1>1. ChartInit => ChartInv
  <2>1. FIRST \in Bars
    BY ChartAssumption
  <2> HIDE DEF Bars
  <2> QED
    BY <2>1 DEF ChartInit, ChartInv
<1>2. ASSUME ChartInv, [ChartNext]_seen PROVE ChartInv'
  <2>1. CASE UNCHANGED seen
    BY <1>2, <2>1 DEF ChartInv
  <2>2. CASE ChartNext
    <3>1. PICK s \in Shapes : /\ Drawn(Last(seen).c, s).l > 0
                              /\ seen' = Append(seen, Drawn(Last(seen).c, s))
      BY <2>2 DEF ChartNext
    <3>2. Last(seen) \in Bars
      <4> HIDE DEF Bars
      <4> QED
        BY <1>2 DEF ChartInv, Last
    <3>3. /\ s \in [o : Int, h : Int, l : Int, c : Int, v : Nat] /\ Within(s)
      BY ChartAssumption
    <3> DEFINE k == Drawn(Last(seen).c, s)
               c == Last(seen).c
    <3>4. c \in Nat
      BY <3>2 DEF Bars
    <3> HIDE DEF c
    <3>5. /\ k.l = c + s.l /\ k.h = c + s.h /\ k.o = c + s.o /\ k.c = c + s.c /\ k.v = s.v
          /\ k = [o |-> k.o, h |-> k.h, l |-> k.l, c |-> k.c, v |-> k.v]
      BY DEF Drawn, c
    <3>6. k.l > 0
      BY <3>1
    <3> HIDE DEF k
    <3>7. /\ k.l \in Nat /\ k.h \in Nat /\ k.o \in Nat /\ k.c \in Nat /\ k.v \in Nat
          /\ Within(k) /\ 0 < k.l
      BY <3>3, <3>4, <3>5, <3>6 DEF Within
    <3>8. k \in Bars
      BY <3>5, <3>7 DEF Bars
    <3>9. seen' = Append(seen, k)
      BY <3>1 DEF k
    <3> HIDE DEF Bars
    <3> QED
      BY <1>2, <3>8, <3>9 DEF ChartInv
  <2> QED
    BY <1>2, <2>1, <2>2
<1> QED
  BY <1>1, <1>2, PTL DEF ChartSpec

\* What is said of a chart is said of charts of candles.
Charts == {chart \in Seq(Bars) : chart # <<>>}

LEMMA CandleIs ==
  \A chart \in Charts :
    /\ Len(chart) \in Nat \ {0}
    /\ DOMAIN chart = 1..Len(chart)
    /\ \A i \in 1..Len(chart) : chart[i] \in Bars
    /\ Last_(chart) \in Bars
<1> HIDE DEF Bars
<1> SUFFICES ASSUME NEW chart \in Charts
             PROVE /\ Len(chart) \in Nat \ {0}
                   /\ DOMAIN chart = 1..Len(chart)
                   /\ \A i \in 1..Len(chart) : chart[i] \in Bars
                   /\ Last_(chart) \in Bars
  OBVIOUS
<1>1. chart \in Seq(Bars) /\ chart # <<>>
  BY DEF Charts
<1> QED
  BY <1>1 DEF Last_

LEMMA BarIs ==
  \A k \in Bars : /\ k.o \in Nat /\ k.h \in Nat /\ k.l \in Nat /\ k.c \in Nat
                  /\ k.l <= k.o /\ k.l <= k.c /\ k.o <= k.h /\ k.c <= k.h /\ 0 < k.l
BY DEF Bars, Within

LEMMA ImageFinite ==
  ASSUME NEW S, IsFiniteSet(S), NEW f, S \subseteq DOMAIN f
  PROVE  IsFiniteSet({f[x] : x \in S})
<1> DEFINE T == {f[x] : x \in S}
           g == [x \in S |-> f[x]]
<1>1. g \in Surjection(S, T)
  BY DEF Surjection
<1> HIDE DEF g
<1> QED
  BY <1>1, FS_Surjection

\* The lowest low of some candles is no higher than any, and the highest high no lower.
LEMMA MinIn ==
  ASSUME NEW S, IsFiniteSet(S), S \subseteq Int, S # {}
  PROVE  Min(S) \in S /\ \A y \in S : y >= Min(S)
<1> DEFINE P == {s \in SUBSET S : s = {} \/ \E x \in s : \A y \in s : y >= x}
<1>1. ASSUME NEW s \in SUBSET S, \A t \in SUBSET s : t # s => t \in P
      PROVE  s \in P
  <2>1. CASE s = {}
    BY <2>1
  <2>2. CASE s # {}
    <3>1. PICK z \in s : TRUE
      BY <2>2
    <3> DEFINE t == s \ {z}
    <3>2. t \in P
      BY <1>1, <3>1
    <3>3. z \in Int
      BY <3>1
    <3>4. CASE t = {}
      <4>1. s = {z}
        BY <3>1, <3>4
      <4>2. \A y \in s : y >= z
        BY <3>3, <4>1
      <4> QED
        BY <3>1, <4>2
    <3>5. CASE t # {}
      <4>1. PICK x \in t : \A y \in t : y >= x
        BY <3>2, <3>5
      <4>2. x \in Int /\ x \in s
        BY <4>1
      <4>3. CASE z >= x
        <5>1. \A y \in s : y >= x
          BY <4>1, <4>3
        <5> QED
          BY <4>2, <5>1
      <4>4. CASE ~(z >= x)
        <5>1. \A y \in s : y \in Int
          OBVIOUS
        <5>2. \A y \in s : y >= z
          BY <3>3, <4>1, <4>2, <4>4, <5>1
        <5> QED
          BY <3>1, <5>2
      <4> QED
        BY <4>3, <4>4
    <3> QED
      BY <3>4, <3>5
  <2> QED
    BY <2>1, <2>2
<1> HIDE DEF P
<1>2. S \in P
  BY <1>1, SubsetInduction
<1>3. \E x \in S : \A y \in S : y >= x
  BY <1>2 DEF P
<1>4. Min(S) \in S /\ \A y \in S : Min(S) <= y
  BY <1>3 DEF Min
<1> QED
  BY <1>4

LEMMA MaxAbove ==
  ASSUME NEW S, IsFiniteSet(S), S \subseteq Int, S # {}
  PROVE  Max(S) \in S /\ \A y \in S : Max(S) >= y
<1> DEFINE N == {0 - y : y \in S}
           f == [y \in S |-> 0 - y]
<1>1. IsFiniteSet(N)
  <2>1. N = {f[y] : y \in S}
    OBVIOUS
  <2> HIDE DEF N
  <2>2. S \subseteq DOMAIN f
    OBVIOUS
  <2> HIDE DEF f
  <2> QED
    BY <2>1, <2>2, ImageFinite
<1>2. N \subseteq Int /\ N # {}
  <2>1. PICK y \in S : TRUE
    OBVIOUS
  <2>2. 0 - y \in N
    BY <2>1
  <2>3. \A z \in S : 0 - z \in Int
    OBVIOUS
  <2> QED
    BY <2>2, <2>3
<1> HIDE DEF N
<1>3. PICK m \in N : \A y \in N : y >= m
  BY <1>1, <1>2, MinIn
<1>4. PICK x \in S : m = 0 - x
  BY <1>3 DEF N
<1>5. \A y \in S : y \in Int /\ 0 - y \in N
  BY DEF N
<1>6. \A y \in S : x >= y
  BY <1>3, <1>4, <1>5
<1>7. Max(S) \in S /\ \A y \in S : Max(S) >= y
  BY <1>6 DEF Max
<1> QED
  BY <1>7

\* A stop is beyond the price when the extreme it is set behind is.
LEMMA StopBelow ==
  \A S \in SUBSET Bars, margin \in {2, 3}, price \in Nat, b \in Bars :
    IsFiniteSet(S) /\ b \in S /\ b.l <= price =>
      Beyond(S, margin, "long") \in Int /\ Beyond(S, margin, "long") < 4000 * price
<1> SUFFICES ASSUME NEW S \in SUBSET Bars, NEW margin \in {2, 3}, NEW price \in Nat, NEW b \in S,
                    IsFiniteSet(S), b.l <= price
             PROVE  Beyond(S, margin, "long") \in Int /\ Beyond(S, margin, "long") < 4000 * price
  OBVIOUS
<1> DEFINE L == {k.l : k \in S}
           f == [k \in S |-> k.l]
           m == Min(L)
<1>1. IsFiniteSet(L)
  <2>1. L = {f[k] : k \in S}
    OBVIOUS
  <2>2. S \subseteq DOMAIN f
    OBVIOUS
  <2> HIDE DEF L, f
  <2> QED
    BY <2>1, <2>2, ImageFinite
<1>2. \A k \in S : k.l \in Nat /\ 0 < k.l
  BY BarIs
<1>3. L \subseteq Int /\ b.l \in L
  BY <1>2
<1>4. L # {}
  BY <1>3
<1>5. \A y \in L : y \in Nat /\ 0 < y
  BY <1>2
<1> HIDE DEF L
<1>6. m \in L /\ m <= b.l
  BY <1>1, <1>3, <1>4, MinIn
<1>7. m \in Nat /\ 0 < m
  BY <1>5, <1>6
<1>8. b.l \in Nat
  BY <1>2
<1>9. Beyond(S, margin, "long") = 4 * (1000 - margin) * m
  BY DEF Beyond, L
<1> HIDE DEF m
<1>10. CASE margin = 2
  <2>1. 4 * (1000 - margin) * m = 3992 * m
    BY <1>7, <1>10
  <2> QED
    BY <1>6, <1>7, <1>8, <1>9, <2>1
<1>11. CASE margin = 3
  <2>1. 4 * (1000 - margin) * m = 3988 * m
    BY <1>7, <1>11
  <2> QED
    BY <1>6, <1>7, <1>8, <1>9, <2>1
<1> QED
  BY <1>10, <1>11

LEMMA StopAbove ==
  \A S \in SUBSET Bars, margin \in {2, 3}, price \in Nat, b \in Bars :
    IsFiniteSet(S) /\ b \in S /\ b.h >= price /\ price > 0 =>
      Beyond(S, margin, "short") \in Int /\ Beyond(S, margin, "short") > 4000 * price
<1> SUFFICES ASSUME NEW S \in SUBSET Bars, NEW margin \in {2, 3}, NEW price \in Nat, NEW b \in S,
                    IsFiniteSet(S), b.h >= price, price > 0
             PROVE  Beyond(S, margin, "short") \in Int /\ Beyond(S, margin, "short") > 4000 * price
  OBVIOUS
<1> DEFINE L == {k.h : k \in S}
           f == [k \in S |-> k.h]
           m == Max(L)
<1>1. IsFiniteSet(L)
  <2>1. L = {f[k] : k \in S}
    OBVIOUS
  <2>2. S \subseteq DOMAIN f
    OBVIOUS
  <2> HIDE DEF L, f
  <2> QED
    BY <2>1, <2>2, ImageFinite
<1>2. \A k \in S : k.h \in Nat
  BY BarIs
<1>3. L \subseteq Int /\ b.h \in L
  BY <1>2
<1>4. L # {}
  BY <1>3
<1> HIDE DEF L
<1>6. m \in L /\ m >= b.h
  BY <1>1, <1>3, <1>4, MaxAbove
<1>7. m \in Int
  BY <1>3, <1>6
<1>8. b.h \in Nat
  BY <1>2
<1>9. Beyond(S, margin, "short") = 4 * (1000 + margin) * m
  BY DEF Beyond, L
<1> HIDE DEF m
<1>10. CASE margin = 2
  <2>1. 4 * (1000 + margin) * m = 4008 * m
    BY <1>7, <1>10
  <2> QED
    BY <1>6, <1>7, <1>8, <1>9, <2>1
<1>11. CASE margin = 3
  <2>1. 4 * (1000 + margin) * m = 4012 * m
    BY <1>7, <1>11
  <2> QED
    BY <1>6, <1>7, <1>8, <1>9, <2>1
<1> QED
  BY <1>10, <1>11

\* The targets lie on the other side of the entry than the stop, one after the other.
LEMMA TargetsLie ==
  \A entry, stop \in Int, d \in {"long", "short"} :
    LET s == SignalOf(d, entry, stop)
    IN /\ s.direction = d /\ s.entry = entry /\ s.stop = stop
       /\ stop < entry => s.entry < s.tp1 /\ s.tp1 < s.tp2
       /\ stop > entry => s.entry > s.tp1 /\ s.tp1 > s.tp2
<1> SUFFICES ASSUME NEW entry \in Int, NEW stop \in Int, NEW d \in {"long", "short"}
             PROVE  LET s == SignalOf(d, entry, stop)
                    IN /\ s.direction = d /\ s.entry = entry /\ s.stop = stop
                       /\ stop < entry => s.entry < s.tp1 /\ s.tp1 < s.tp2
                       /\ stop > entry => s.entry > s.tp1 /\ s.tp1 > s.tp2
  OBVIOUS
<1> DEFINE s == SignalOf(d, entry, stop)
           x == entry - stop
           a == (3 * x) \div 2
           b == (5 * x) \div 2
<1>1. x \in Int /\ (stop < entry => x > 0) /\ (stop > entry => x < 0)
  OBVIOUS
<1>2. /\ s.direction = d /\ s.entry = entry /\ s.stop = stop
      /\ s.tp1 = entry + a /\ s.tp2 = entry + b
  BY DEF SignalOf
<1> HIDE DEF s, x
<1>3. a \in Int /\ b \in Int /\ (x > 0 => 0 < a /\ a < b) /\ (x < 0 => 0 > a /\ a > b)
  BY <1>1
<1> HIDE DEF a, b
<1>4. /\ stop < entry => s.entry < s.tp1 /\ s.tp1 < s.tp2
      /\ stop > entry => s.entry > s.tp1 /\ s.tp1 > s.tp2
  BY <1>1, <1>2, <1>3
<1> QED
  BY <1>2, <1>4 DEF s

-----------------------------------------------------------------------------
(* Order blocks *)

\* Those of Z that a relation places before z.
Under(Z, R, z) == {y \in Z : <<y, z>> \in R}

\* Every rank is taken, by one element.
OneAtEveryRank(Z, R) ==
  /\ \A n \in 1..Cardinality(Z) : \E z \in Z : Cardinality(Under(Z, R, z)) = n - 1
  /\ \A z \in Z : \E n \in 1..Cardinality(Z) : Cardinality(Under(Z, R, z)) = n - 1
  /\ \A x, y \in Z : Cardinality(Under(Z, R, x)) = Cardinality(Under(Z, R, y)) => x = y

\* Ranked by a strict total order, a set has just one element at every rank.
LEMMA EveryRankTaken ==
  ASSUME NEW Z, IsFiniteSet(Z), NEW R,
         \A x \in Z : <<x, x>> \notin R,
         \A x, y, z \in Z : <<x, y>> \in R /\ <<y, z>> \in R => <<x, z>> \in R,
         \A x, y \in Z : x = y \/ <<x, y>> \in R \/ <<y, x>> \in R
  PROVE  OneAtEveryRank(Z, R)
<1> DEFINE better(z) == {y \in Z : <<y, z>> \in R}
           N == Cardinality(Z)
           rank == [z \in Z |-> Cardinality(better(z))]
<1>1. N \in Nat
  BY FS_CardinalityType
<1>2. \A z \in Z : better(z) \subseteq Z /\ z \notin better(z)
  OBVIOUS
<1>3. \A z \in Z : IsFiniteSet(better(z)) /\ Cardinality(better(z)) \in Nat
  <2> TAKE z \in Z
  <2> DEFINE b == better(z)
  <2>1. b \in SUBSET Z
    OBVIOUS
  <2> HIDE DEF b
  <2>2. IsFiniteSet(b)
    BY <2>1, FS_Subset
  <2>3. Cardinality(b) \in Nat
    BY <2>2, FS_CardinalityType
  <2> QED
    BY <2>2, <2>3 DEF b
<1>4. \A x, z \in Z : <<x, z>> \in R => better(x) \subseteq better(z) /\ x \in better(z)
  OBVIOUS
<1> HIDE DEF better
<1>5. \A x, z \in Z : <<x, z>> \in R => Cardinality(better(x)) < Cardinality(better(z))
  <2> SUFFICES ASSUME NEW x \in Z, NEW z \in Z, <<x, z>> \in R
               PROVE  Cardinality(better(x)) < Cardinality(better(z))
    OBVIOUS
  <2> DEFINE a == better(x)
             b == better(z)
  <2>1. a \in SUBSET b /\ x \in b /\ x \notin a
    BY <1>2, <1>4
  <2>2. IsFiniteSet(a) /\ IsFiniteSet(b) /\ Cardinality(a) \in Nat /\ Cardinality(b) \in Nat
    BY <1>3
  <2> HIDE DEF a, b
  <2>3. Cardinality(a) <= Cardinality(b) /\ (Cardinality(b) = Cardinality(a) => b = a)
    BY <2>1, <2>2, FS_Subset
  <2>4. Cardinality(a) < Cardinality(b)
    BY <2>1, <2>2, <2>3
  <2> QED
    BY <2>4 DEF a, b
<1>6. \A z \in Z : Cardinality(better(z)) \in 0..(N - 1)
  <2> SUFFICES ASSUME NEW z \in Z PROVE Cardinality(better(z)) \in 0..(N - 1)
    OBVIOUS
  <2> DEFINE b == better(z)
  <2>1. b \in SUBSET Z /\ z \notin b /\ Cardinality(b) \in Nat
    BY <1>2, <1>3
  <2> HIDE DEF b
  <2>2. Cardinality(b) <= N /\ (N = Cardinality(b) => Z = b)
    BY <2>1, FS_Subset
  <2>3. Cardinality(b) \in 0..(N - 1)
    BY <1>1, <2>1, <2>2
  <2> QED
    BY <2>3 DEF b
<1>7. rank \in Injection(Z, 0..(N - 1))
  <2>1. rank \in [Z -> 0..(N - 1)]
    BY <1>6
  <2>2. ASSUME NEW x \in Z, NEW y \in Z, rank[x] = rank[y] PROVE x = y
    <3>1. Cardinality(better(x)) = Cardinality(better(y))
      BY <2>2
    <3>2. Cardinality(better(x)) \in Nat
      BY <1>3
    <3>3. ~(Cardinality(better(x)) < Cardinality(better(y)))
      BY <3>1, <3>2
    <3>4. ~(Cardinality(better(y)) < Cardinality(better(x)))
      BY <3>1, <3>2
    <3> QED
      BY <1>5, <3>3, <3>4
  <2> HIDE DEF rank
  <2> QED
    BY <2>1, <2>2 DEF Injection, IsInjective
<1>8. IsFiniteSet(0..(N - 1)) /\ Cardinality(0..(N - 1)) = N
  <2> DEFINE b == N - 1
  <2>1. b \in Int /\ (IF 0 > b THEN 0 ELSE b - 0 + 1) = N
    BY <1>1
  <2> HIDE DEF b
  <2>2. IsFiniteSet(0..b) /\ Cardinality(0..b) = N
    BY <2>1, FS_Interval
  <2> QED
    BY <2>2 DEF b
<1> HIDE DEF rank
<1>9. rank \in Surjection(Z, 0..(N - 1))
  BY <1>7, <1>8, FS_Injection DEF N
<1>10. ASSUME NEW n \in 1..N PROVE \E z \in Z : Cardinality(better(z)) = n - 1
  <2>1. n - 1 \in 0..(N - 1)
    BY <1>1
  <2>2. PICK z \in Z : rank[z] = n - 1
    BY <1>9, <2>1 DEF Surjection
  <2> QED
    BY <2>2 DEF rank
<1>11. ASSUME NEW z \in Z PROVE \E n \in 1..N : Cardinality(better(z)) = n - 1
  <2> DEFINE n == Cardinality(better(z)) + 1
  <2>1. n \in 1..N /\ Cardinality(better(z)) = n - 1
    BY <1>1, <1>6
  <2> QED
    BY <2>1
<1>12. ASSUME NEW x \in Z, NEW y \in Z, Cardinality(better(x)) = Cardinality(better(y))
       PROVE  x = y
  <2>1. rank[x] = rank[y]
    BY <1>12 DEF rank
  <2> QED
    BY <1>7, <2>1 DEF Injection, IsInjective
<1>13. \A z \in Z : better(z) = Under(Z, R, z)
  BY DEF better, Under
<1> QED
  BY <1>10, <1>11, <1>12, <1>13 DEF N, OneAtEveryRank

LEMMA FibScoreIs ==
  \A zone, swing : FibScore(zone, swing) \in 0..3
BY DEF FibScore

\* The order of the blocks is one: two blocks of different candles are never level.
LEMMA OrderedTakes ==
  ASSUME NEW Z, IsFiniteSet(Z), NEW price \in Int, NEW swing,
         \A z \in Z : z.top \in Int /\ z.bot \in Int /\ z.at \in Int,
         \A y, z \in Z : y.at = z.at => y = z
  PROVE  /\ DOMAIN Ordered(Z, price, swing) = 1..Cardinality(Z)
         /\ \A n \in 1..Cardinality(Z) : Ordered(Z, price, swing)[n] \in Z
         /\ Range(Ordered(Z, price, swing)) = Z
<1> DEFINE R == {p \in Z \X Z : Before(price, swing, p[1], p[2])}
<1>1. \A x, y \in Z : <<x, y>> \in R <=> Before(price, swing, x, y)
  OBVIOUS
<1> HIDE DEF R
<1>2. \A x \in Z : /\ Off(x, price) \in Int /\ FibScore(x, swing) \in Int /\ x.at \in Int
  <2> TAKE x \in Z
  <2>1. FibScore(x, swing) \in 0..3
    BY FibScoreIs
  <2>2. Off(x, price) \in Int
    BY DEF Off, Gap
  <2> QED
    BY <2>1, <2>2
<1>3. \A x \in Z : <<x, x>> \notin R
  BY <1>1, <1>2 DEF Before
<1>4. \A x, y, z \in Z : <<x, y>> \in R /\ <<y, z>> \in R => <<x, z>> \in R
  BY <1>1, <1>2 DEF Before
<1>5. \A x, y \in Z : x = y \/ <<x, y>> \in R \/ <<y, x>> \in R
  <2> SUFFICES ASSUME NEW x \in Z, NEW y \in Z, x # y
               PROVE  Before(price, swing, x, y) \/ Before(price, swing, y, x)
    BY <1>1
  <2>1. x.at # y.at
    OBVIOUS
  <2>2. x.at > y.at \/ y.at > x.at
    BY <1>2, <2>1
  <2>3. \/ Off(x, price) < Off(y, price) \/ Off(y, price) < Off(x, price)
        \/ Off(x, price) = Off(y, price)
    BY <1>2
  <2>4. \/ FibScore(x, swing) > FibScore(y, swing) \/ FibScore(y, swing) > FibScore(x, swing)
        \/ FibScore(x, swing) = FibScore(y, swing)
    BY <1>2
  <2> QED
    BY <2>2, <2>3, <2>4 DEF Before
<1>0. OneAtEveryRank(Z, R)
  BY <1>3, <1>4, <1>5, EveryRankTaken, Zenon
<1>6. ASSUME NEW n \in 1..Cardinality(Z)
      PROVE  /\ Ordered(Z, price, swing)[n] \in Z
             /\ Cardinality(Under(Z, R, Ordered(Z, price, swing)[n])) = n - 1
  <2>1. PICK z \in Z : Cardinality(Under(Z, R, z)) = n - 1
    BY <1>0 DEF OneAtEveryRank
  <2>2. Under(Z, R, z) = {y \in Z : Before(price, swing, y, z)}
    BY <1>1 DEF Under
  <2>3. \E w \in Z : Cardinality({y \in Z : Before(price, swing, y, w)}) = n - 1
    BY <2>1, <2>2
  <2>4. Ordered(Z, price, swing)[n]
          = CHOOSE w \in Z : Cardinality({y \in Z : Before(price, swing, y, w)}) = n - 1
    BY DEF Ordered
  <2> DEFINE w == Ordered(Z, price, swing)[n]
  <2>5. w \in Z /\ Cardinality({y \in Z : Before(price, swing, y, w)}) = n - 1
    BY <2>3, <2>4
  <2> HIDE DEF w
  <2>6. Under(Z, R, w) = {y \in Z : Before(price, swing, y, w)}
    BY <1>1, <2>5 DEF Under
  <2> QED
    BY <2>5, <2>6 DEF w
<1>7. DOMAIN Ordered(Z, price, swing) = 1..Cardinality(Z)
  BY DEF Ordered
<1>8. ASSUME NEW z \in Z PROVE \E n \in 1..Cardinality(Z) : Ordered(Z, price, swing)[n] = z
  <2>2. PICK n \in 1..Cardinality(Z) : Cardinality(Under(Z, R, z)) = n - 1
    BY <1>0 DEF OneAtEveryRank
  <2>3. Ordered(Z, price, swing)[n] = z
    BY <1>0, <1>6, <2>2 DEF OneAtEveryRank
  <2> QED
    BY <2>3
<1>9. Range(Ordered(Z, price, swing)) = Z
  <2> DEFINE s == Ordered(Z, price, swing)
  <2> HIDE DEF s
  <2>1. Range(s) = Z
    BY <1>6, <1>7, <1>8 DEF s, Range
  <2> QED
    BY <2>1 DEF s
<1> QED
  BY <1>6, <1>7, <1>9

LEMMA FoundWhere ==
  \A chart \in Charts : \A atr, multiplier :
    /\ IsFiniteSet(Found(chart, atr, multiplier))
    /\ \A i \in Found(chart, atr, multiplier) :
         i \in 2..(Len(chart) - 1) /\ IsOrderBlock(chart, i, atr, multiplier)
<1> SUFFICES ASSUME NEW chart \in Charts, NEW atr, NEW multiplier
             PROVE /\ IsFiniteSet(Found(chart, atr, multiplier))
                   /\ \A i \in Found(chart, atr, multiplier) :
                        i \in 2..(Len(chart) - 1) /\ IsOrderBlock(chart, i, atr, multiplier)
  OBVIOUS
<1> DEFINE S == {2, Len(chart) - OB_LOOKBACK}
           F == Found(chart, atr, multiplier)
           from == Max(S)
           to == Len(chart) - 1
<1>1. Len(chart) \in Int /\ OB_LOOKBACK \in Int
  BY CandleIs, ChartAssumption
<1>2. S \subseteq Int /\ S # {} /\ 2 \in S
  BY <1>1
<1>3. IsFiniteSet(S)
  <2> DEFINE x == Len(chart) - OB_LOOKBACK
  <2> HIDE DEF x
  <2>1. IsFiniteSet({2} \cup {x})
    BY FS_Singleton, FS_AddElement
  <2>2. {2} \cup {x} = {2, x}
    OBVIOUS
  <2>3. IsFiniteSet({2, x})
    BY <2>1, <2>2
  <2> QED
    BY <2>3 DEF x
<1> HIDE DEF S
<1>4. from \in Int /\ from >= 2
  BY <1>2, <1>3, MaxAbove
<1>5. F \subseteq from..to
  BY DEF Found, S
<1>6. IsFiniteSet(from..to)
  BY <1>1, <1>4, FS_Interval
<1>7. \A i \in F : IsOrderBlock(chart, i, atr, multiplier)
  BY DEF Found
<1> HIDE DEF F, from
<1>8. IsFiniteSet(F)
  BY <1>5, <1>6, FS_Subset
<1>9. \A i \in F : i \in 2..to
  BY <1>4, <1>5, <1>1
<1> QED
  BY <1>7, <1>8, <1>9 DEF F

\* A block is the candle it is found at, and the last close is not beyond it.
BlockOf(chart, z) ==
  /\ z.at \in 2..(Len(chart) - 1) /\ z = Zone(chart, z.at)
  /\ IF z.side = "bullish" THEN Last_(chart).c >= z.bot ELSE Last_(chart).c <= z.top

LEMMA BlocksHold ==
  \A chart \in Charts :
    /\ \A z \in Range(OrderBlocks(chart, 10)) : BlockOf(chart, z)
    /\ OrderBlocks(chart, 10) # <<>> => BlockOf(chart, OrderBlocks(chart, 10)[1])
<1> SUFFICES ASSUME NEW chart \in Charts
             PROVE /\ \A z \in Range(OrderBlocks(chart, 10)) : BlockOf(chart, z)
                   /\ OrderBlocks(chart, 10) # <<>> => BlockOf(chart, OrderBlocks(chart, 10)[1])
  OBVIOUS
<1> DEFINE blocks == OrderBlocks(chart, 10)
           atr == Atr(chart)
           F == Found(chart, atr, 10)
           L == Latest(F)
           Z == {Zone(chart, i) : i \in L}
           zone == [i \in L |-> Zone(chart, i)]
           n == Len(chart)
<1>0. n \in Nat \ {0} /\ \A i \in 1..n : chart[i] \in Bars
  BY CandleIs
<1>1. IsFiniteSet(F) /\ \A i \in F : i \in 2..(n - 1) /\ IsOrderBlock(chart, i, atr, 10)
  BY FoundWhere
<1>2. L \subseteq F
  BY DEF Latest
<1> HIDE DEF F, L, n
<1>3. IsFiniteSet(L)
  BY <1>1, <1>2, FS_Subset
<1>4. IsFiniteSet(Z)
  <2>1. Z = {zone[i] : i \in L} /\ L \subseteq DOMAIN zone
    OBVIOUS
  <2> HIDE DEF Z, zone
  <2> QED
    BY <1>3, <2>1, ImageFinite
<1>5. \A z \in Z : z.at \in L /\ z = Zone(chart, z.at)
  BY DEF Zone
<1> HIDE DEF Z, zone
<1>6. \A z \in Z : BlockOf(chart, z) /\ z.top \in Nat /\ z.bot \in Nat /\ z.at \in Nat
  <2> SUFFICES ASSUME NEW z \in Z
               PROVE  BlockOf(chart, z) /\ z.top \in Nat /\ z.bot \in Nat /\ z.at \in Nat
    OBVIOUS
  <2> DEFINE i == z.at
  <2>1. /\ i \in 2..(n - 1) /\ IsOrderBlock(chart, i, atr, 10) /\ z = Zone(chart, i)
    BY <1>1, <1>2, <1>5
  <2>2. i \in 1..n /\ n \in (i + 1)..n
    BY <1>0, <2>1
  <2>3. z.side = Leaning(chart[i + 1]) /\ z.top = chart[i].h /\ z.bot = chart[i].l
    BY <2>1 DEF Zone
  <2>4. z.top \in Nat /\ z.bot \in Nat
    BY <1>0, <2>2, <2>3, BarIs
  <2> HIDE DEF i
  <2>5. IF Leaning(chart[i + 1]) = "bullish" THEN chart[n].c >= chart[i].l
                                             ELSE chart[n].c <= chart[i].h
    BY <2>1, <2>2 DEF IsOrderBlock, n
  <2>6. BlockOf(chart, z)
    BY <2>1, <2>3, <2>5 DEF BlockOf, Last_, n, i
  <2>7. z.at \in Nat
    BY <1>0, <2>1 DEF i
  <2> QED
    BY <2>4, <2>6, <2>7
<1>7. \A y, z \in Z : y.at = z.at => y = z
  BY <1>5
<1>8. CASE n < ATR_PERIOD + 2
  <2>1. blocks = <<>>
    BY <1>8 DEF OrderBlocks, n
  <2> HIDE DEF blocks
  <2>2. Range(blocks) = {}
    BY <2>1 DEF Range
  <2> QED
    BY <2>1, <2>2 DEF blocks
<1>9. CASE ~(n < ATR_PERIOD + 2)
  <2> DEFINE price == Last_(chart).c
             swing == PivotSwing(chart)
  <2>1. blocks = Ordered(Z, price, swing)
    BY <1>9 DEF OrderBlocks, n, Z, L, F
  <2>2. price \in Int
    BY CandleIs, BarIs
  <2> HIDE DEF price, swing, blocks
  <2>3. DOMAIN blocks = 1..Cardinality(Z) /\ \A m \in 1..Cardinality(Z) : blocks[m] \in Z
    BY <1>4, <1>6, <1>7, <2>1, <2>2, OrderedTakes
  <2>4. \A z \in Range(blocks) : BlockOf(chart, z)
    BY <1>6, <2>3 DEF Range
  <2>5. ASSUME blocks # <<>> PROVE BlockOf(chart, blocks[1])
    <3>1. Cardinality(Z) \in Nat
      BY <1>4, FS_CardinalityType
    <3>2. ASSUME Cardinality(Z) = 0 PROVE FALSE
      <4>1. Ordered(Z, price, swing) = <<>>
        BY <3>2 DEF Ordered
      <4> QED
        BY <2>1, <2>5, <4>1
    <3>3. 1 \in 1..Cardinality(Z)
      BY <3>1, <3>2
    <3> QED
      BY <1>6, <2>3, <3>3
  <2> QED
    BY <2>4, <2>5 DEF blocks
<1> QED
  BY <1>8, <1>9

-----------------------------------------------------------------------------
(* Stops and targets *)

LEMMA MaxOfTwo ==
  \A a, b \in Int : Max({a, b}) \in {a, b} /\ Max({a, b}) >= a /\ Max({a, b}) >= b
<1> SUFFICES ASSUME NEW a \in Int, NEW b \in Int
             PROVE  Max({a, b}) \in {a, b} /\ Max({a, b}) >= a /\ Max({a, b}) >= b
  OBVIOUS
<1>1. IsFiniteSet({a} \cup {b})
  BY FS_Singleton, FS_AddElement
<1>2. {a} \cup {b} = {a, b}
  OBVIOUS
<1>3. IsFiniteSet({a, b})
  BY <1>1, <1>2
<1> DEFINE S == {a, b}
<1>4. S \subseteq Int /\ S # {} /\ IsFiniteSet(S) /\ a \in S /\ b \in S
  BY <1>3
<1> HIDE DEF S
<1>5. Max(S) \in S /\ Max(S) >= a /\ Max(S) >= b
  BY <1>4, MaxAbove
<1> QED
  BY <1>5 DEF S

LEMMA TailHasLast ==
  \A chart \in Charts : \A m \in 1..Len(chart) :
    LET S == Range(SubSeq(chart, m, Len(chart)))
    IN S \in SUBSET Bars /\ IsFiniteSet(S) /\ Last_(chart) \in S
<1> HIDE DEF Bars
<1> SUFFICES ASSUME NEW chart \in Charts, NEW m \in 1..Len(chart)
             PROVE  LET S == Range(SubSeq(chart, m, Len(chart)))
                    IN S \in SUBSET Bars /\ IsFiniteSet(S) /\ Last_(chart) \in S
  OBVIOUS
<1> DEFINE n == Len(chart)
           t == SubSeq(chart, m, n)
           S == Range(t)
<1>1. n \in Nat \ {0} /\ \A i \in 1..n : chart[i] \in Bars
  BY CandleIs
<1>2. chart \in Seq(Bars)
  BY DEF Charts
<1>3. /\ DOMAIN t = 1..(n - m + 1)
      /\ \A i \in 1..(n - m + 1) : t[i] = chart[m + i - 1]
  BY <1>1, <1>2
<1> HIDE DEF n, t
<1>4. \A i \in 1..(n - m + 1) : m + i - 1 \in 1..n
  BY <1>1 DEF n
<1>5. S = {t[i] : i \in 1..(n - m + 1)}
  BY <1>3 DEF Range
<1>6. IsFiniteSet(1..(n - m + 1))
  BY <1>1, FS_Interval
<1>7. IsFiniteSet(S)
  <2> HIDE DEF S
  <2> QED
    BY <1>3, <1>5, <1>6, ImageFinite
<1>8. S \in SUBSET Bars
  BY <1>1, <1>3, <1>4, <1>5
<1>9. n - m + 1 \in 1..(n - m + 1) /\ m + (n - m + 1) - 1 = n
  BY <1>1 DEF n
<1>10. t[n - m + 1] = chart[n]
  BY <1>3, <1>9
<1>11. Last_(chart) \in S
  BY <1>5, <1>9, <1>10 DEF Last_, n
<1> QED
  BY <1>7, <1>8, <1>11 DEF S, t, n

\* Some candle a stop is set behind has its extreme no nearer than the last close.
Reaches(strategy, chart, d) ==
  /\ Behind(strategy, chart) \in SUBSET Bars /\ IsFiniteSet(Behind(strategy, chart))
  /\ \E b \in Behind(strategy, chart) :
       IF d = "long" THEN b.l <= Last_(chart).c ELSE b.h >= Last_(chart).c

LEMMA WhichIs ==
  \A long, short \in BOOLEAN :
    /\ Which(long, short) \in {"long", "short", "none"}
    /\ Which(long, short) = "long" => long
    /\ Which(long, short) = "short" => short /\ ~long
BY DEF Which

LEMMA OneCandle ==
  \A strategy, chart, d : \A b \in Bars :
    /\ Behind(strategy, chart) = {b}
    /\ IF d = "long" THEN b.l <= Last_(chart).c ELSE b.h >= Last_(chart).c
    => Reaches(strategy, chart, d)
BY FS_Singleton DEF Reaches

LEMMA PinbarReaches ==
  \A chart \in Charts : \A d \in {Pinbar(Last_(chart))} \ {"none"} :
    d \in {"long", "short"} /\ Reaches("pinbar", chart, d)
<1> SUFFICES ASSUME NEW chart \in Charts, NEW d, d = Pinbar(Last_(chart)), d # "none"
             PROVE  d \in {"long", "short"} /\ Reaches("pinbar", chart, d)
  OBVIOUS
<1>1. Last_(chart) \in Bars
  BY CandleIs
<1>2. Behind("pinbar", chart) = {Last_(chart)}
  BY DEF Behind, Last_
<1>3. d \in {"long", "short"}
  BY DEF Pinbar, Which
<1>4. Last_(chart).l <= Last_(chart).c /\ Last_(chart).h >= Last_(chart).c
  BY <1>1, BarIs
<1>5. Reaches("pinbar", chart, d)
  BY <1>1, <1>2, <1>4, OneCandle
<1> QED
  BY <1>3, <1>5

LEMMA EngulfingReaches ==
  \A chart \in Charts : Len(chart) > 1 =>
    \A d \in {Engulfing(Last_(chart), chart[Len(chart) - 1])} \ {"none"} :
      d \in {"long", "short"} /\ Reaches("engulfing", chart, d)
<1> SUFFICES ASSUME NEW chart \in Charts, Len(chart) > 1, NEW d,
                    d = Engulfing(Last_(chart), chart[Len(chart) - 1]), d # "none"
             PROVE  d \in {"long", "short"} /\ Reaches("engulfing", chart, d)
  OBVIOUS
<1> DEFINE k == Last_(chart)
           prior == chart[Len(chart) - 1]
<1>1. k \in Bars /\ prior \in Bars
  BY CandleIs
<1>2. Behind("engulfing", chart) = {prior}
  BY DEF Behind
<1> HIDE DEF k, prior
<1>3. d = Engulfing(k, prior)
  BY DEF k, prior
<1>4. d \in {"long", "short"}
  BY <1>3 DEF Engulfing, Which
<1>5. (d = "long" => k.c >= prior.o) /\ (d = "short" => k.c <= prior.o)
  BY <1>3 DEF Engulfing, Which
<1>6. IF d = "long" THEN prior.l <= k.c ELSE prior.h >= k.c
  BY <1>1, <1>4, <1>5, BarIs
<1>7. Reaches("engulfing", chart, d)
  BY <1>1, <1>2, <1>6, OneCandle DEF k
<1> QED
  BY <1>4, <1>7

LEMMA InsideBarReaches ==
  \A chart \in Charts : \A bias : Len(chart) > 1 =>
    \A d \in {InsideBar(Last_(chart), chart[Len(chart) - 1], bias)} \ {"none"} :
      d \in {"long", "short"} /\ Reaches("inside_bar", chart, d)
<1> SUFFICES ASSUME NEW chart \in Charts, NEW bias, Len(chart) > 1, NEW d,
                    d = InsideBar(Last_(chart), chart[Len(chart) - 1], bias), d # "none"
             PROVE  d \in {"long", "short"} /\ Reaches("inside_bar", chart, d)
  OBVIOUS
<1> DEFINE k == Last_(chart)
           mother == chart[Len(chart) - 1]
<1>1. k \in Bars /\ mother \in Bars
  BY CandleIs
<1>2. Behind("inside_bar", chart) = {mother}
  BY DEF Behind
<1> HIDE DEF k, mother
<1>3. d = InsideBar(k, mother, bias)
  BY DEF k, mother
<1>4. d \in {"long", "short"} /\ k.h < mother.h /\ k.l > mother.l
  BY <1>3 DEF InsideBar, Which
<1>5. mother.l <= k.c /\ mother.h >= k.c
  BY <1>1, <1>4, BarIs
<1>6. Reaches("inside_bar", chart, d)
  BY <1>1, <1>2, <1>5, OneCandle DEF k
<1> QED
  BY <1>4, <1>6

LEMMA QuasimodoReaches ==
  \A chart \in Charts : \A d \in {Quasimodo(chart)} \ {"none"} :
    d \in {"long", "short"} /\ Reaches("quasimodo", chart, d)
<1> SUFFICES ASSUME NEW chart \in Charts, NEW d, d = Quasimodo(chart), d # "none"
             PROVE  d \in {"long", "short"} /\ Reaches("quasimodo", chart, d)
  OBVIOUS
<1> DEFINE n == Len(chart)
           x == n - RECENT + 1
           m == Max({1, x})
           S == Behind("quasimodo", chart)
<1>1. n \in Nat \ {0} /\ RECENT \in Nat \ {0}
  BY CandleIs, StrategiesAssumption
<1>2. x \in Int /\ x <= n /\ 1 <= n
  BY <1>1
<1>3. S = Range(SubSeq(chart, m, n))
  BY DEF Behind, Newest
<1> HIDE DEF n, x
<1>4. m \in {1, x} /\ m >= 1
  BY <1>2, MaxOfTwo
<1> HIDE DEF m, S
<1>5. m \in 1..Len(chart)
  BY <1>1, <1>2, <1>4 DEF n
<1>6. S \in SUBSET Bars /\ IsFiniteSet(S) /\ Last_(chart) \in S
  BY <1>3, <1>5, TailHasLast DEF n
<1>7. Last_(chart).l <= Last_(chart).c /\ Last_(chart).h >= Last_(chart).c
  BY CandleIs, BarIs
<1>8. Reaches("quasimodo", chart, d)
  BY <1>6, <1>7 DEF Reaches, S
<1>9. d \in {"long", "short"}
  BY DEF Quasimodo, Which
<1> QED
  BY <1>8, <1>9

LEMMA FlagReaches ==
  \A chart \in Charts : \A d \in {Flag(chart)} \ {"none"} :
    d \in {"long", "short"} /\ Reaches("flag", chart, d)
<1> SUFFICES ASSUME NEW chart \in Charts, NEW d, d = Flag(chart), d # "none"
             PROVE  d \in {"long", "short"} /\ Reaches("flag", chart, d)
  OBVIOUS
<1> DEFINE n == Len(chart)
           x == n - FLAG_MAX - 4
           from == Max({1, x})
           to == n - FLAG_MAX
           I == Impulses(chart)
           m == Max(I) + 1
           S == Behind("flag", chart)
<1>1. n \in Nat \ {0} /\ FLAG_MAX \in Nat \ {0}
  BY CandleIs, StrategiesAssumption
<1>2. x \in Int /\ to \in Int /\ to < n
  BY <1>1
<1>3. I \subseteq from..to
  BY DEF Impulses, ImpulsesOver
<1>4. S = Range(SubSeq(chart, m, n))
  BY DEF Behind
<1>5. I # {} /\ d \in {"long", "short"}
  BY DEF Flag, Which
<1> HIDE DEF n, x, to
<1>6. from \in Int /\ from >= 1
  BY <1>2, MaxOfTwo
<1> HIDE DEF from, I
<1>7. IsFiniteSet(from..to)
  BY <1>2, <1>6, FS_Interval
<1>8. IsFiniteSet(I) /\ I \subseteq Int
  <2>1. I \subseteq Int
    BY <1>2, <1>3, <1>6
  <2> DEFINE J == from..to
  <2>2. IsFiniteSet(J) /\ I \in SUBSET J
    BY <1>3, <1>7
  <2> HIDE DEF J
  <2>3. IsFiniteSet(I)
    BY <2>2, FS_Subset
  <2> QED
    BY <2>1, <2>3
<1>9. Max(I) \in from..to
  BY <1>3, <1>5, <1>8, MaxAbove
<1>10. m \in 1..Len(chart)
  BY <1>1, <1>2, <1>6, <1>9 DEF n
<1> HIDE DEF m, S
<1>11. S \in SUBSET Bars /\ IsFiniteSet(S) /\ Last_(chart) \in S
  BY <1>4, <1>10, TailHasLast DEF n
<1>12. Last_(chart).l <= Last_(chart).c /\ Last_(chart).h >= Last_(chart).c
  BY CandleIs, BarIs
<1>13. Reaches("flag", chart, d)
  BY <1>11, <1>12 DEF Reaches, S
<1> QED
  BY <1>5, <1>13

LEMMA RetestReaches ==
  \A chart \in Charts : \A d \in {BlockRetest(chart)} \ {"none"} :
    d \in {"long", "short"} /\ Reaches("smc_ob_fvg", chart, d)
<1> SUFFICES ASSUME NEW chart \in Charts, NEW d, d = BlockRetest(chart), d # "none"
             PROVE  d \in {"long", "short"} /\ Reaches("smc_ob_fvg", chart, d)
  OBVIOUS
<1> DEFINE blocks == OrderBlocks(chart, 10)
           z == blocks[1]
           b == chart[z.at]
<1>1. Behind("smc_ob_fvg", chart) = {b}
  BY DEF Behind
<1>2. /\ blocks # <<>> /\ d \in {"long", "short"}
      /\ d = "long" <=> z.side = "bullish"
  BY DEF BlockRetest, RetestOf, Which
<1>3. BlockOf(chart, z)
  BY <1>2, BlocksHold
<1> HIDE DEF blocks, z
<1>4. b \in Bars
  BY <1>3, CandleIs DEF BlockOf
<1>5. z.bot = b.l /\ z.top = b.h
  BY <1>3 DEF BlockOf, Zone
<1> HIDE DEF b
<1>6. Last_(chart).c \in Nat /\ b.l \in Nat /\ b.h \in Nat
  BY <1>4, CandleIs, BarIs
<1>7. IF d = "long" THEN b.l <= Last_(chart).c ELSE b.h >= Last_(chart).c
  BY <1>2, <1>3, <1>5, <1>6 DEF BlockOf
<1>8. Reaches("smc_ob_fvg", chart, d)
  BY <1>1, <1>4, <1>7, OneCandle
<1> QED
  BY <1>2, <1>8

LEMMA PatternReaches ==
  \A chart \in Charts : \A strategy \in Strategies \ {"ema_cross", "rsi_momentum"} : \A bias, strong :
    \A d \in {Pattern(strategy, chart, bias, strong)} \ {"none"} :
      d \in {"long", "short"} /\ Reaches(strategy, chart, d)
<1> SUFFICES ASSUME NEW chart \in Charts,
                    NEW strategy \in Strategies \ {"ema_cross", "rsi_momentum"}, NEW bias, NEW strong,
                    NEW d, d = Pattern(strategy, chart, bias, strong), d # "none"
             PROVE  d \in {"long", "short"} /\ Reaches(strategy, chart, d)
  OBVIOUS
<1>1. ~(Len(chart) < WARMUP[strategy])
  BY DEF Pattern
<1>2. /\ Len(chart) \in Nat /\ WARMUP[strategy] \in Nat
      /\ WARMUP["engulfing"] > 1 /\ WARMUP["inside_bar"] > 1
  BY CandleIs, StrategiesAssumption
<1>3. CASE strategy = "pinbar"
  <2>1. d = Pinbar(Last_(chart))
    BY <1>1, <1>3 DEF Pattern
  <2> QED
    BY <1>3, <2>1, PinbarReaches
<1>4. CASE strategy = "engulfing"
  <2>1. d = Engulfing(Last_(chart), chart[Len(chart) - 1]) /\ Len(chart) > 1
    BY <1>1, <1>2, <1>4 DEF Pattern
  <2> QED
    BY <1>4, <2>1, EngulfingReaches
<1>5. CASE strategy = "inside_bar"
  <2>1. d = InsideBar(Last_(chart), chart[Len(chart) - 1], bias) /\ Len(chart) > 1
    BY <1>1, <1>2, <1>5 DEF Pattern
  <2> QED
    BY <1>5, <2>1, InsideBarReaches
<1>6. CASE strategy = "quasimodo"
  <2>1. d = Quasimodo(chart)
    BY <1>1, <1>6 DEF Pattern
  <2> QED
    BY <1>6, <2>1, QuasimodoReaches
<1>7. CASE strategy = "flag"
  <2>1. d = Flag(chart)
    BY <1>1, <1>7 DEF Pattern
  <2> QED
    BY <1>7, <2>1, FlagReaches
<1>8. CASE strategy = "smc_ob_fvg"
  <2>1. d = BlockRetest(chart)
    BY <1>1, <1>8 DEF Pattern
  <2> QED
    BY <1>8, <2>1, RetestReaches
<1>9. strategy \in {"pinbar", "engulfing", "inside_bar", "quasimodo", "flag", "smc_ob_fvg"}
  BY DEF Strategies
<1> QED
  BY <1>3, <1>4, <1>5, <1>6, <1>7, <1>8, <1>9

LEMMA AverageReaches ==
  \A chart \in Charts : \A strategy \in {"ema_cross", "rsi_momentum"} : \A bias, strong :
    \A d \in {Pattern(strategy, chart, bias, strong)} \ {"none"} : d \in {"long", "short"}
<1> SUFFICES ASSUME NEW chart \in Charts,
                    NEW strategy \in {"ema_cross", "rsi_momentum"}, NEW bias, NEW strong,
                    NEW d, d = Pattern(strategy, chart, bias, strong), d # "none"
             PROVE  d \in {"long", "short"}
  OBVIOUS
<1>1. ~(Len(chart) < WARMUP[strategy])
  BY DEF Pattern
<1>2. CASE strategy = "ema_cross"
  <2>1. d = EmaCross(chart, strong)
    BY <1>1, <1>2 DEF Pattern
  <2> QED
    BY <2>1 DEF EmaCross, Which
<1>3. CASE strategy = "rsi_momentum"
  <2>1. d = RsiMomentum(chart)
    BY <1>1, <1>3 DEF Pattern
  <2> QED
    BY <2>1 DEF RsiMomentum, Turn, Which
<1> QED
  BY <1>2, <1>3

\* The stop of a signal is on the losing side of the last close.
Losing(stop, entry, d) == IF d = "long" THEN stop < entry ELSE stop > entry

LEMMA StopIsLosing ==
  \A chart \in Charts : \A strategy \in Strategies : \A bias, strong :
    \A d \in {Pattern(strategy, chart, bias, strong)} \ {"none"} :
      LET entry == 4000 * Last_(chart).c
          stop == StopOf(strategy, chart, d)
      IN /\ d \in {"long", "short"} /\ entry \in Int /\ stop \in Int
         /\ stop # entry => Losing(stop, entry, d)
<1> SUFFICES ASSUME NEW chart \in Charts, NEW strategy \in Strategies, NEW bias, NEW strong,
                    NEW d \in {Pattern(strategy, chart, bias, strong)} \ {"none"}
             PROVE  LET entry == 4000 * Last_(chart).c
                        stop == StopOf(strategy, chart, d)
                    IN /\ d \in {"long", "short"} /\ entry \in Int /\ stop \in Int
                       /\ stop # entry => Losing(stop, entry, d)
  OBVIOUS
<1> DEFINE k == Last_(chart)
           c == k.c
           stop == StopOf(strategy, chart, d)
<1>1. k \in Bars
  BY CandleIs
<1>2. /\ c \in Nat /\ k.h \in Nat /\ k.l \in Nat /\ k.l <= k.h /\ c > 0
  BY <1>1, BarIs
<1>3. CASE strategy \in {"ema_cross", "rsi_momentum"}
  <2>1. d \in {"long", "short"}
    BY <1>3, AverageReaches
  <2> DEFINE w == Span(k)
  <2>2. w \in Nat
    BY <1>2 DEF Span
  <2>3. stop = 4000 * c + (IF d = "long" THEN -6000 ELSE 6000) * w
    BY <1>3 DEF StopOf
  <2> HIDE DEF c, k, w, stop
  <2>4. CASE d = "long"
    <3>1. stop = 4000 * c + (-6000) * w
      BY <2>3, <2>4
    <3>2. stop \in Int /\ (stop # 4000 * c => stop < 4000 * c)
      BY <1>2, <2>2, <3>1
    <3> QED
      BY <1>2, <2>1, <2>4, <3>2 DEF Losing, stop, c, k
  <2>5. CASE d = "short"
    <3>1. stop = 4000 * c + 6000 * w
      BY <2>3, <2>5
    <3>2. stop \in Int /\ (stop # 4000 * c => stop > 4000 * c)
      BY <1>2, <2>2, <3>1
    <3> QED
      BY <1>2, <2>1, <2>5, <3>2 DEF Losing, stop, c, k
  <2> QED
    BY <2>1, <2>4, <2>5
<1>4. CASE strategy \notin {"ema_cross", "rsi_momentum"}
  <2> DEFINE S == Behind(strategy, chart)
             m == Margin(strategy)
  <2>1. d \in {"long", "short"} /\ Reaches(strategy, chart, d)
    BY <1>4, PatternReaches
  <2>2. PICK b \in S : IF d = "long" THEN b.l <= c ELSE b.h >= c
    BY <2>1 DEF Reaches
  <2>3. S \in SUBSET Bars /\ IsFiniteSet(S) /\ b \in Bars
    BY <2>1 DEF Reaches
  <2>4. m \in {2, 3}
    BY DEF Margin
  <2>5. stop = Beyond(S, m, d)
    BY <1>4 DEF StopOf
  <2> HIDE DEF c, k, S, m, stop
  <2>6. CASE d = "long"
    <3>1. stop \in Int /\ stop < 4000 * c
      BY <1>2, <2>2, <2>3, <2>4, <2>5, <2>6, StopBelow
    <3> QED
      BY <1>2, <2>6, <3>1 DEF Losing, stop, c, k
  <2>7. CASE d = "short"
    <3>1. stop \in Int /\ stop > 4000 * c
      BY <1>2, <2>2, <2>3, <2>4, <2>5, <2>7, StopAbove
    <3> QED
      BY <1>2, <2>7, <3>1 DEF Losing, stop, c, k
  <2> QED
    BY <2>1, <2>6, <2>7
<1> QED
  BY <1>3, <1>4

LEMMA SignalOrdered ==
  \A chart \in Charts : \A strategy \in Strategies : \A bias, regime, strong :
    \A s \in Signals(strategy, chart, bias, regime, strong) :
      IF s.direction = "long" THEN s.stop < s.entry /\ s.entry < s.tp1 /\ s.tp1 < s.tp2
      ELSE s.stop > s.entry /\ s.entry > s.tp1 /\ s.tp1 > s.tp2
<1> SUFFICES ASSUME NEW chart \in Charts, NEW strategy \in Strategies, NEW bias, NEW regime,
                    NEW strong, NEW s \in Signals(strategy, chart, bias, regime, strong)
             PROVE  IF s.direction = "long" THEN s.stop < s.entry /\ s.entry < s.tp1 /\ s.tp1 < s.tp2
                    ELSE s.stop > s.entry /\ s.entry > s.tp1 /\ s.tp1 > s.tp2
  OBVIOUS
<1> DEFINE entry == 4000 * Last_(chart).c
<1>1. PICK d \in {Pattern(strategy, chart, bias, strong)} \ {"none"} :
        s = SignalOf(d, entry, StopOf(strategy, chart, d))
  BY DEF Signals
<1>2. s.stop # s.entry
  BY DEF Signals
<1> DEFINE stop == StopOf(strategy, chart, d)
<1>3. /\ d \in {"long", "short"} /\ entry \in Int /\ stop \in Int
      /\ stop # entry => Losing(stop, entry, d)
  BY StopIsLosing
<1> HIDE DEF entry, stop
<1>4. s = SignalOf(d, entry, stop)
  BY <1>1 DEF stop
<1>5. /\ s.direction = d /\ s.entry = entry /\ s.stop = stop
      /\ stop < entry => s.entry < s.tp1 /\ s.tp1 < s.tp2
      /\ stop > entry => s.entry > s.tp1 /\ s.tp1 > s.tp2
  BY <1>3, <1>4, TargetsLie
<1> QED
  BY <1>2, <1>3, <1>5 DEF Losing

\* Whatever candles come, a strategy that gives a signal sets its stop on the losing side of the
\* entry and its targets on the winning side (strategies/*.py).
THEOREM LevelsAreOrdered == ChartSpec => []LevelsOrdered
<1>1. ChartInv => LevelsOrdered
  <2> SUFFICES ASSUME ChartInv PROVE LevelsOrdered
    OBVIOUS
  <2>1. seen \in Charts
    BY DEF ChartInv, Charts
  <2> QED
    BY <2>1, SignalOrdered DEF LevelsOrdered
<1> QED
  BY <1>1, ChartGrows, PTL

-----------------------------------------------------------------------------
(* Fair value gaps *)

\* The gaps of a chart that no later candle has filled: OpenGap is the newest of them.
Unfilled(chart) ==
  {z \in UNION {GapAt(chart, i) : i \in 3..Len(chart)} :
     \A j \in (z.at + 1)..Len(chart) : ~FilledBy(z, chart[j])}

LEMMA GapIsAt ==
  \A chart, i : \A z \in GapAt(chart, i) : z.at = i
<1> SUFFICES ASSUME NEW chart, NEW i, NEW z \in GapAt(chart, i) PROVE z.at = i
  OBVIOUS
<1> DEFINE up == [side |-> "bullish", top |-> chart[i].l, bot |-> chart[i - 2].h, at |-> i]
           down == [side |-> "bearish", top |-> chart[i - 2].l, bot |-> chart[i].h, at |-> i]
<1>1. z = up \/ z = down
  <2>1. CASE chart[i - 2].h < chart[i].l
    <3>1. GapAt(chart, i) = {up}  \/ GapAt(chart, i) = {down}
      BY <2>1 DEF GapAt
    <3> QED
      BY <3>1
  <2>2. CASE chart[i - 2].l > chart[i].h
    <3>1. GapAt(chart, i) = {up}  \/ GapAt(chart, i) = {down}
      BY <2>2 DEF GapAt
    <3> QED
      BY <3>1
  <2>3. CASE ~(chart[i - 2].h < chart[i].l) /\ ~(chart[i - 2].l > chart[i].h)
    <3>1. GapAt(chart, i) = {}
      BY <2>3 DEF GapAt
    <3> QED
      BY <3>1
  <2> QED
    BY <2>1, <2>2, <2>3
<1>2. up.at = i /\ down.at = i
  OBVIOUS
<1> QED
  BY <1>1, <1>2

LEMMA UnfilledWhere ==
  \A chart, z : z \in Unfilled(chart) <=>
    /\ z.at \in 3..Len(chart) /\ z \in GapAt(chart, z.at)
    /\ \A j \in (z.at + 1)..Len(chart) : ~FilledBy(z, chart[j])
<1> SUFFICES ASSUME NEW chart, NEW z
             PROVE z \in Unfilled(chart) <=>
                     /\ z.at \in 3..Len(chart) /\ z \in GapAt(chart, z.at)
                     /\ \A j \in (z.at + 1)..Len(chart) : ~FilledBy(z, chart[j])
  OBVIOUS
<1> QED
  BY GapIsAt DEF Unfilled

LEMMA FrontIs ==
  \A chart \in Charts :
    /\ Len(Front(chart)) = Len(chart) - 1
    /\ \A i \in 1..(Len(chart) - 1) : Front(chart)[i] = chart[i]
<1> SUFFICES ASSUME NEW chart \in Charts
             PROVE /\ Len(Front(chart)) = Len(chart) - 1
                   /\ \A i \in 1..(Len(chart) - 1) : Front(chart)[i] = chart[i]
  OBVIOUS
<1>1. chart \in Seq(Bars) /\ Len(chart) \in Nat \ {0}
  BY CandleIs DEF Charts
<1> HIDE DEF Bars
<1> DEFINE n == Len(chart)
           f == SubSeq(chart, 1, n - 1)
<1>2. f \in Seq(Bars)
  BY <1>1
<1>3. DOMAIN f = 1..(n - 1) /\ \A i \in 1..(n - 1) : f[i] = chart[i]
  BY <1>1
<1>4. Len(f) = n - 1
  <2>1. Len(f) \in Nat /\ DOMAIN f = 1..Len(f)
    BY <1>2
  <2>2. n - 1 \in Nat
    BY <1>1
  <2> HIDE DEF f, n
  <2> QED
    BY <1>3, <2>1, <2>2
<1>5. Front(chart) = f
  BY DEF Front
<1> HIDE DEF f
<1> QED
  BY <1>3, <1>4, <1>5

\* A gap that was open before the last candle still is unless that candle fills it, and one that
\* is open and not of the last candle was.
LEMMA GapsGoOn ==
  \A chart \in Charts : \A z :
    /\ z \in Unfilled(Front(chart)) /\ ~FilledBy(z, Last_(chart)) => z \in Unfilled(chart)
    /\ z \in Unfilled(chart) /\ z.at # Len(chart) => z \in Unfilled(Front(chart))
<1> SUFFICES ASSUME NEW chart \in Charts, NEW z
             PROVE /\ z \in Unfilled(Front(chart)) /\ ~FilledBy(z, Last_(chart)) => z \in Unfilled(chart)
                   /\ z \in Unfilled(chart) /\ z.at # Len(chart) => z \in Unfilled(Front(chart))
  OBVIOUS
<1> DEFINE n == Len(chart)
           f == Front(chart)
<1>1. n \in Nat \ {0} /\ Len(f) = n - 1 /\ \A i \in 1..(n - 1) : f[i] = chart[i]
  BY CandleIs, FrontIs
<1>2. Last_(chart) = chart[n]
  BY DEF Last_
<1> HIDE DEF n, f
<1>3. ASSUME NEW i \in 3..(n - 1) PROVE GapAt(f, i) = GapAt(chart, i)
  <2>1. i \in 1..(n - 1) /\ i - 2 \in 1..(n - 1)
    BY <1>1
  <2>2. f[i] = chart[i] /\ f[i - 2] = chart[i - 2]
    BY <1>1, <2>1
  <2> QED
    BY <2>2 DEF GapAt
<1>4. ASSUME z \in Unfilled(f), ~FilledBy(z, chart[n]) PROVE z \in Unfilled(chart)
  <2>1. /\ z.at \in 3..(n - 1) /\ z \in GapAt(f, z.at)
        /\ \A j \in (z.at + 1)..(n - 1) : ~FilledBy(z, f[j])
    BY <1>1, <1>4, UnfilledWhere
  <2>2. z.at \in 3..n /\ z \in GapAt(chart, z.at)
    BY <1>1, <1>3, <2>1
  <2>3. ASSUME NEW j \in (z.at + 1)..n PROVE ~FilledBy(z, chart[j])
    <3>1. CASE j = n
      BY <1>4, <3>1
    <3>2. CASE j # n
      <4>1. j \in (z.at + 1)..(n - 1) /\ j \in 1..(n - 1)
        BY <1>1, <2>1, <3>2
      <4> QED
        BY <1>1, <2>1, <4>1
    <3> QED
      BY <3>1, <3>2
  <2> QED
    BY <2>2, <2>3, UnfilledWhere DEF n
<1>5. ASSUME z \in Unfilled(chart), z.at # n PROVE z \in Unfilled(f)
  <2>1. /\ z.at \in 3..n /\ z \in GapAt(chart, z.at)
        /\ \A j \in (z.at + 1)..n : ~FilledBy(z, chart[j])
    BY <1>5, UnfilledWhere DEF n
  <2>2. z.at \in 3..(n - 1)
    BY <1>1, <1>5, <2>1
  <2>3. z \in GapAt(f, z.at)
    BY <1>3, <2>1, <2>2
  <2>4. ASSUME NEW j \in (z.at + 1)..(n - 1) PROVE ~FilledBy(z, f[j])
    <3>1. j \in (z.at + 1)..n /\ j \in 1..(n - 1)
      BY <1>1, <2>2
    <3> QED
      BY <1>1, <2>1, <3>1
  <2> QED
    BY <1>1, <2>2, <2>3, <2>4, UnfilledWhere
<1> QED
  BY <1>2, <1>4, <1>5 DEF n, f

LEMMA OpenIsNewest ==
  \A chart : OpenGap(chart) = {z \in Unfilled(chart) : \A y \in Unfilled(chart) : y.at <= z.at}
BY DEF OpenGap, Unfilled

LEMMA NewestExists ==
  \A chart : Len(chart) \in Nat /\ Unfilled(chart) # {} => OpenGap(chart) # {}
<1> SUFFICES ASSUME NEW chart, Len(chart) \in Nat, Unfilled(chart) # {}
             PROVE  OpenGap(chart) # {}
  OBVIOUS
<1> DEFINE U == Unfilled(chart)
           A == {z.at : z \in U}
           n == Len(chart)
<1>1. \A z \in U : z.at \in 3..n
  BY UnfilledWhere
<1>2. U # {} /\ n \in Nat
  OBVIOUS
<1> HIDE DEF U, n
<1>3. A # {}
  BY <1>2
<1>4. A \in SUBSET (3..n)
  BY <1>1
<1>5. IsFiniteSet(3..n)
  BY <1>2, FS_Interval
<1>6. IsFiniteSet(A) /\ A \subseteq Int
  <2> DEFINE J == 3..n
  <2>1. A \subseteq Int
    BY <1>4
  <2>2. IsFiniteSet(J) /\ A \in SUBSET J
    BY <1>4, <1>5
  <2> HIDE DEF J, A
  <2>3. IsFiniteSet(A)
    BY <2>2, FS_Subset
  <2> QED
    BY <2>1, <2>3
<1>7. \A z \in U : z.at \in A
  OBVIOUS
<1>8. \A a \in A : \E z \in U : z.at = a
  OBVIOUS
<1> HIDE DEF A
<1>9. Max(A) \in A /\ \A a \in A : Max(A) >= a
  BY <1>3, <1>6, MaxAbove
<1>10. PICK z \in U : z.at = Max(A)
  BY <1>8, <1>9
<1>11. \A y \in U : y.at <= z.at
  BY <1>6, <1>7, <1>9, <1>10
<1> QED
  BY <1>10, <1>11, OpenIsNewest DEF U

LEMMA ReadingsGoOn ==
  \A chart \in Charts :
    LET new == Last_(chart)
        gaps == OpenGap(chart)
        gone == OpenGap(Front(chart)) \ gaps
    IN /\ \A z \in gone : FilledBy(z, new) \/ \E y \in gaps : y.at = Len(chart)
       /\ \A z \in gaps \ OpenGap(Front(chart)) : z.at = Len(chart) \/ gone # {}
<1> SUFFICES ASSUME NEW chart \in Charts
             PROVE LET new == Last_(chart)
                       gaps == OpenGap(chart)
                       gone == OpenGap(Front(chart)) \ gaps
                   IN /\ \A z \in gone : FilledBy(z, new) \/ \E y \in gaps : y.at = Len(chart)
                      /\ \A z \in gaps \ OpenGap(Front(chart)) : z.at = Len(chart) \/ gone # {}
  OBVIOUS
<1> DEFINE n == Len(chart)
           new == Last_(chart)
           U == Unfilled(chart)
           P == Unfilled(Front(chart))
           gaps == OpenGap(chart)
           before == OpenGap(Front(chart))
<1>1. /\ gaps = {z \in U : \A y \in U : y.at <= z.at}
      /\ before = {z \in P : \A y \in P : y.at <= z.at}
  BY OpenIsNewest
<1>2. n \in Nat \ {0} /\ Len(Front(chart)) = n - 1
  BY CandleIs, FrontIs
<1>3. (\A z \in U : z.at \in 3..n) /\ (\A z \in P : z.at \in 3..(n - 1))
  BY <1>2, UnfilledWhere
<1>4. \A z \in P : ~FilledBy(z, new) => z \in U
  BY GapsGoOn
<1>5. \A z \in U : z.at # n => z \in P
  BY GapsGoOn
<1>6. P # {} => before # {}
  BY <1>2, NewestExists
<1> HIDE DEF n, new, U, P, gaps, before
<1>7. ASSUME NEW z \in before \ gaps, ~FilledBy(z, new) PROVE \E y \in gaps : y.at = n
  <2>1. z \in P /\ z \in U /\ \A y \in P : y.at <= z.at
    BY <1>1, <1>4, <1>7
  <2>2. PICK y \in U : ~(y.at <= z.at)
    BY <1>1, <1>7, <2>1
  <2>3. y.at = n
    BY <1>5, <2>1, <2>2
  <2>4. \A w \in U : w.at <= y.at
    BY <1>2, <1>3, <2>3
  <2> QED
    BY <1>1, <2>2, <2>3, <2>4
<1>8. ASSUME NEW z \in gaps \ before, z.at # n PROVE before \ gaps # {}
  <2>1. z \in U /\ z \in P /\ \A y \in U : y.at <= z.at
    BY <1>1, <1>5, <1>8
  <2>2. PICK x \in before : TRUE
    BY <1>6, <2>1
  <2>3. x \in P /\ \A y \in P : y.at <= x.at
    BY <1>1, <2>2
  <2>4. PICK y \in P : ~(y.at <= z.at)
    BY <1>1, <1>8, <2>1
  <2>5. x.at > z.at
    BY <1>2, <1>3, <2>1, <2>3, <2>4
  <2>6. x \notin U
    BY <1>2, <1>3, <2>1, <2>3, <2>5
  <2>7. x \notin gaps
    BY <1>1, <2>6
  <2> QED
    BY <2>2, <2>7
<1> QED
  BY <1>7, <1>8 DEF n, new, gaps, before

\* Whatever candles come, a reported gap stays until it is filled or a newer one forms, and no
\* block the last close is beyond is reported (smc.find_fvg, smc.find_order_block).
THEOREM ReadingsArePersistent == ChartSpec => []ReadingsPersist
<1>1. ChartInv => ReadingsPersist
  <2> SUFFICES ASSUME ChartInv PROVE ReadingsPersist
    OBVIOUS
  <2>1. seen \in Charts
    BY DEF ChartInv, Charts
  <2>2. \A z \in Range(OrderBlocks(seen, 10)) :
          IF z.side = "bullish" THEN Last_(seen).c >= z.bot ELSE Last_(seen).c <= z.top
    BY <2>1, BlocksHold DEF BlockOf
  <2> QED
    BY <2>1, <2>2, ReadingsGoOn DEF ReadingsPersist
<1> QED
  BY <1>1, ChartGrows, PTL
-----------------------------------------------------------------------------
(* Charts turned upside down *)

LEMMA MirrorIs ==
  \A chart \in Charts : \A around \in Int :
    /\ Len(Mirrored(chart, around)) = Len(chart)
    /\ DOMAIN Mirrored(chart, around) = 1..Len(chart)
    /\ \A i \in 1..Len(chart) :
         /\ Mirrored(chart, around)[i].o = around - chart[i].o
         /\ Mirrored(chart, around)[i].h = around - chart[i].l
         /\ Mirrored(chart, around)[i].l = around - chart[i].h
         /\ Mirrored(chart, around)[i].c = around - chart[i].c
<1> SUFFICES ASSUME NEW chart \in Charts, NEW around \in Int
             PROVE /\ Len(Mirrored(chart, around)) = Len(chart)
                   /\ DOMAIN Mirrored(chart, around) = 1..Len(chart)
                   /\ \A i \in 1..Len(chart) :
                        /\ Mirrored(chart, around)[i].o = around - chart[i].o
                        /\ Mirrored(chart, around)[i].h = around - chart[i].l
                        /\ Mirrored(chart, around)[i].l = around - chart[i].h
                        /\ Mirrored(chart, around)[i].c = around - chart[i].c
  OBVIOUS
<1> DEFINE m == Mirrored(chart, around)
           n == Len(chart)
           S == {m[i] : i \in 1..n}
<1>1. n \in Nat /\ DOMAIN chart = 1..n
  BY CandleIs
<1> HIDE DEF n
<1>2. DOMAIN m = 1..n
  BY <1>1 DEF Mirrored
<1>3. ASSUME NEW i \in 1..n
      PROVE  /\ m[i].o = around - chart[i].o /\ m[i].h = around - chart[i].l
             /\ m[i].l = around - chart[i].h /\ m[i].c = around - chart[i].c
  BY <1>1 DEF Mirrored
<1>4. m = [i \in 1..n |-> m[i]]
  BY <1>1 DEF Mirrored
<1> HIDE DEF m
<1>5. m \in Seq(S)
  <2>1. \A i \in 1..n : m[i] \in S
    OBVIOUS
  <2> HIDE DEF S
  <2>2. m \in [1..n -> S]
    BY <1>4, <2>1
  <2> QED
    BY <1>1, <2>2, SeqDef
<1>6. Len(m) = n
  <2> HIDE DEF S
  <2>1. Len(m) \in Nat /\ 1..Len(m) = 1..n
    BY <1>2, <1>5, LenProperties
  <2>2. (n >= 1 => n \in 1..n) /\ (Len(m) >= 1 => Len(m) \in 1..Len(m))
    BY <1>1, <2>1
  <2>3. (n >= 1 => n <= Len(m)) /\ (Len(m) >= 1 => Len(m) <= n)
    BY <1>1, <2>1, <2>2
  <2> QED
    BY <1>1, <2>1, <2>3
<1> QED
  BY <1>2, <1>3, <1>6 DEF m, n

LEMMA LeaningTurns ==
  \A chart \in Charts : \A around \in Int : \A i \in 1..Len(chart) :
    /\ Leaning(Mirrored(chart, around)[i]) = Other(Leaning(chart[i]))
    /\ Body(Mirrored(chart, around)[i]) = Body(chart[i])
    /\ Span(Mirrored(chart, around)[i]) = Span(chart[i])
<1> SUFFICES ASSUME NEW chart \in Charts, NEW around \in Int, NEW i \in 1..Len(chart)
             PROVE  /\ Leaning(Mirrored(chart, around)[i]) = Other(Leaning(chart[i]))
                    /\ Body(Mirrored(chart, around)[i]) = Body(chart[i])
                    /\ Span(Mirrored(chart, around)[i]) = Span(chart[i])
  OBVIOUS
<1> DEFINE k == chart[i]
           q == Mirrored(chart, around)[i]
<1>1. /\ q.o = around - k.o /\ q.h = around - k.l /\ q.l = around - k.h /\ q.c = around - k.c
  BY MirrorIs
<1>2. k.o \in Int /\ k.h \in Int /\ k.l \in Int /\ k.c \in Int
  BY CandleIs, BarIs
<1> HIDE DEF k, q
<1>3. Leaning(q) = Other(Leaning(k))
  BY <1>1, <1>2 DEF Leaning, Other
<1>4. Body(q) = Body(k) /\ Span(q) = Span(k)
  BY <1>1, <1>2 DEF Body, Gap, Span
<1> QED
  BY <1>3, <1>4 DEF k, q

\* A range has no direction.
LEMMA RangesStay ==
  \A chart \in Charts : \A around \in Int :
    TrueRanges(Mirrored(chart, around)) = TrueRanges(chart)
<1> SUFFICES ASSUME NEW chart \in Charts, NEW around \in Int
             PROVE  TrueRanges(Mirrored(chart, around)) = TrueRanges(chart)
  OBVIOUS
<1> DEFINE m == Mirrored(chart, around)
           n == Len(chart)
<1>1. n \in Nat \ {0} /\ DOMAIN chart = 1..n /\ DOMAIN m = 1..n
  BY CandleIs, MirrorIs
<1>2. ASSUME NEW i \in 1..n PROVE TrueRange(m, i) = TrueRange(chart, i)
  <2>1. CASE i = 1
    <3>1. Span(m[1]) = Span(chart[1])
      BY <2>1, LeaningTurns
    <3> QED
      BY <2>1, <3>1 DEF TrueRange
  <2>2. CASE i # 1
    <3>1. i - 1 \in 1..n
      BY <1>1, <2>2
    <3> DEFINE j == i - 1
    <3>2. Span(m[i]) = Span(chart[i])
      BY LeaningTurns
    <3>3. m[i].h = around - chart[i].l /\ m[i].l = around - chart[i].h
      BY MirrorIs
    <3>4. m[j].c = around - chart[j].c
      BY <3>1, MirrorIs
    <3>5. chart[i].h \in Int /\ chart[i].l \in Int /\ chart[j].c \in Int
      BY <3>1, CandleIs, BarIs
    <3> HIDE DEF m, j
    <3>6. /\ Gap(m[i].h, m[j].c) = Gap(chart[i].l, chart[j].c)
          /\ Gap(m[i].l, m[j].c) = Gap(chart[i].h, chart[j].c)
      <4>1. \A a, b, c \in Int : Gap(c - a, c - b) = Gap(a, b)
        BY DEF Gap
      <4>2. /\ Gap(around - chart[i].l, around - chart[j].c) = Gap(chart[i].l, chart[j].c)
            /\ Gap(around - chart[i].h, around - chart[j].c) = Gap(chart[i].h, chart[j].c)
        BY <3>5, <4>1
      <4> QED
        BY <3>3, <3>4, <4>2
    <3>7. {Span(m[i]), Gap(m[i].h, m[j].c), Gap(m[i].l, m[j].c)}
            = {Span(chart[i]), Gap(chart[i].h, chart[j].c), Gap(chart[i].l, chart[j].c)}
      BY <3>2, <3>6
    <3>8. TrueRange(m, i) = Max({Span(m[i]), Gap(m[i].h, m[j].c), Gap(m[i].l, m[j].c)})
      BY <2>2 DEF TrueRange, j
    <3>9. TrueRange(chart, i)
            = Max({Span(chart[i]), Gap(chart[i].h, chart[j].c), Gap(chart[i].l, chart[j].c)})
      BY <2>2 DEF TrueRange, j
    <3> QED
      BY <3>7, <3>8, <3>9
  <2> QED
    BY <2>1, <2>2
<1> HIDE DEF m, n
<1>3. TrueRanges(m) = [i \in 1..n |-> TrueRange(m, i)]
  BY <1>1 DEF TrueRanges
<1>4. TrueRanges(chart) = [i \in 1..n |-> TrueRange(chart, i)]
  BY <1>1 DEF TrueRanges
<1>5. [i \in 1..n |-> TrueRange(m, i)] = [i \in 1..n |-> TrueRange(chart, i)]
  BY <1>2
<1> QED
  BY <1>3, <1>4, <1>5 DEF m

-----------------------------------------------------------------------------
(* Blocks and gaps of a chart turned upside down *)

TurnedZone(z, around) ==
  [side |-> Other(z.side), top |-> around - z.bot, bot |-> around - z.top, at |-> z.at]

LEMMA TurnedIs ==
  \A zones, around : Turned(zones, around) = {TurnedZone(z, around) : z \in zones}
BY DEF Turned, TurnedZone

LEMMA BlockTurns ==
  \A chart \in Charts : \A around \in Int : \A i \in 1..(Len(chart) - 1) : \A atr, multiplier :
    /\ IsOrderBlock(Mirrored(chart, around), i, atr, multiplier)
         <=> IsOrderBlock(chart, i, atr, multiplier)
    /\ Zone(Mirrored(chart, around), i) = TurnedZone(Zone(chart, i), around)
<1> SUFFICES ASSUME NEW chart \in Charts, NEW around \in Int, NEW i \in 1..(Len(chart) - 1),
                    NEW atr, NEW multiplier
             PROVE  /\ IsOrderBlock(Mirrored(chart, around), i, atr, multiplier)
                         <=> IsOrderBlock(chart, i, atr, multiplier)
                    /\ Zone(Mirrored(chart, around), i) = TurnedZone(Zone(chart, i), around)
  OBVIOUS
<1> DEFINE m == Mirrored(chart, around)
           n == Len(chart)
           x == i + 1
<1>1. n \in Nat \ {0} /\ Len(m) = n
  BY CandleIs, MirrorIs
<1>2. i \in 1..n /\ x \in 1..n
  BY <1>1
<1>3. /\ Leaning(m[i]) = Other(Leaning(chart[i])) /\ Leaning(m[x]) = Other(Leaning(chart[x]))
      /\ Body(m[x]) = Body(chart[x])
  BY <1>2, LeaningTurns
<1>4. m[i].h = around - chart[i].l /\ m[i].l = around - chart[i].h
  BY <1>2, MirrorIs
<1>5. chart[i].h \in Int /\ chart[i].l \in Int
  BY <1>2, CandleIs, BarIs
<1>6. \A j \in 1..n : m[j].c = around - chart[j].c /\ chart[j].c \in Int
  BY CandleIs, MirrorIs, BarIs
<1>7. Zone(m, i) = TurnedZone(Zone(chart, i), around)
  BY <1>3, <1>4 DEF Zone, TurnedZone
<1> DEFINE a == Leaning(chart[i])
           b == Leaning(chart[x])
           far == Body(chart[x]) * 10 * atr[2] >= multiplier * atr[1]
           held == \A j \in x..n : IF b = "bullish" THEN chart[j].c >= chart[i].l
                                                    ELSE chart[j].c <= chart[i].h
           turned == \A j \in x..n : IF Other(b) = "bullish" THEN m[j].c >= m[i].l
                                                             ELSE m[j].c <= m[i].h
<1>8. IsOrderBlock(chart, i, atr, multiplier) <=> far /\ {a, b} = Sides /\ held
  BY DEF IsOrderBlock
<1>9. IsOrderBlock(m, i, atr, multiplier) <=> far /\ {Other(a), Other(b)} = Sides /\ turned
  BY <1>1, <1>3 DEF IsOrderBlock
<1>10. a \in {"bullish", "bearish", "doji"} /\ b \in {"bullish", "bearish", "doji"}
  BY DEF Leaning
<1> HIDE DEF a, b, far, m, n, x
<1>11. {Other(a), Other(b)} = Sides <=> {a, b} = Sides
  BY <1>10 DEF Other, Sides
<1>12. ASSUME {a, b} = Sides PROVE held <=> turned
  <2>1. \A j \in x..n : j \in 1..n
    BY <1>2
  <2>2. CASE b = "bullish"
    <3>1. Other(b) = "bearish"
      BY <2>2 DEF Other
    <3>2. ASSUME NEW j \in x..n PROVE chart[j].c >= chart[i].l <=> m[j].c <= m[i].h
      BY <1>4, <1>5, <1>6, <2>1
    <3> QED
      BY <2>2, <3>1, <3>2
  <2>3. CASE b = "bearish"
    <3>1. Other(b) = "bullish"
      BY <2>3 DEF Other
    <3>2. ASSUME NEW j \in x..n PROVE chart[j].c <= chart[i].h <=> m[j].c >= m[i].l
      BY <1>4, <1>5, <1>6, <2>1
    <3> QED
      BY <2>3, <3>1, <3>2
  <2> QED
    BY <1>10, <1>12, <2>2, <2>3 DEF Sides
<1>13. IsOrderBlock(m, i, atr, multiplier) <=> IsOrderBlock(chart, i, atr, multiplier)
  BY <1>8, <1>9, <1>11, <1>12
<1> QED
  BY <1>7, <1>13 DEF m

LEMMA FoundTurns ==
  \A chart \in Charts : \A around \in Int : \A atr, multiplier :
    Found(Mirrored(chart, around), atr, multiplier) = Found(chart, atr, multiplier)
<1> SUFFICES ASSUME NEW chart \in Charts, NEW around \in Int, NEW atr, NEW multiplier
             PROVE  Found(Mirrored(chart, around), atr, multiplier) = Found(chart, atr, multiplier)
  OBVIOUS
<1> DEFINE m == Mirrored(chart, around)
           n == Len(chart)
           from == Max({2, n - OB_LOOKBACK})
<1>1. n \in Nat \ {0} /\ Len(m) = n
  BY CandleIs, MirrorIs
<1>2. from \in Int /\ from >= 2
  <2>1. OB_LOOKBACK \in Int /\ n - OB_LOOKBACK \in Int
    BY <1>1, ChartAssumption
  <2> DEFINE x == n - OB_LOOKBACK
  <2> HIDE DEF x
  <2>2. \A a \in Int : \A y \in Int :
          Max({a, y}) \in {a, y} /\ Max({a, y}) >= a /\ Max({a, y}) >= y
    BY MaxOfTwo
  <2>3. x \in Int => Max({2, x}) \in {2, x} /\ Max({2, x}) >= 2
    BY <2>2
  <2> QED
    BY <2>1, <2>3 DEF x
<1>3. /\ Found(chart, atr, multiplier)
           = {i \in from..(n - 1) : atr[1] # 0 /\ IsOrderBlock(chart, i, atr, multiplier)}
      /\ Found(m, atr, multiplier)
           = {i \in from..(n - 1) : atr[1] # 0 /\ IsOrderBlock(m, i, atr, multiplier)}
  BY <1>1 DEF Found
<1> HIDE DEF from
<1>4. \A i \in from..(n - 1) : i \in 1..(n - 1)
  BY <1>1, <1>2
<1>5. \A i \in from..(n - 1) :
        IsOrderBlock(m, i, atr, multiplier) <=> IsOrderBlock(chart, i, atr, multiplier)
  BY <1>4, BlockTurns
<1> QED
  BY <1>3, <1>5

LEMMA RankedAre ==
  \A Z : /\ IsFiniteSet(Z)
         /\ \A z \in Z : z.top \in Int /\ z.bot \in Int /\ z.at \in Int
         /\ \A y, z \in Z : y.at = z.at => y = z
         => \A price \in Int : \A swing : Range(Ordered(Z, price, swing)) = Z
BY OrderedTakes

LEMMA BlocksTurn ==
  \A chart \in Charts : \A around \in Int :
    Range(OrderBlocks(Mirrored(chart, around), 10)) = Turned(Range(OrderBlocks(chart, 10)), around)
<1> SUFFICES ASSUME NEW chart \in Charts, NEW around \in Int
             PROVE  Range(OrderBlocks(Mirrored(chart, around), 10))
                      = Turned(Range(OrderBlocks(chart, 10)), around)
  OBVIOUS
<1> DEFINE m == Mirrored(chart, around)
           n == Len(chart)
           L == Latest(Found(chart, Atr(chart), 10))
           Z == {Zone(chart, i) : i \in L}
           T == {Zone(m, i) : i \in L}
<1>1. n \in Nat \ {0} /\ Len(m) = n
  BY CandleIs, MirrorIs
<1>2. Latest(Found(m, Atr(m), 10)) = L
  <2>1. Atr(m) = Atr(chart)
    BY RangesStay DEF Atr
  <2> QED
    BY <2>1, FoundTurns
<1>3. IsFiniteSet(L) /\ \A i \in L : i \in 2..(n - 1)
  <2> DEFINE F == Found(chart, Atr(chart), 10)
  <2>1. IsFiniteSet(F) /\ \A i \in F : i \in 2..(n - 1)
    BY FoundWhere
  <2>2. L \in SUBSET F
    BY DEF Latest
  <2> HIDE DEF F, L
  <2>3. IsFiniteSet(L)
    BY <2>1, <2>2, FS_Subset
  <2> QED
    BY <2>1, <2>2, <2>3
<1>4. CASE n < ATR_PERIOD + 2
  <2>1. OrderBlocks(m, 10) = <<>> /\ OrderBlocks(chart, 10) = <<>>
    BY <1>1, <1>4 DEF OrderBlocks
  <2>2. Range(<<>>) = {}
    BY DEF Range
  <2>3. Turned({}, around) = {}
    BY DEF Turned
  <2> QED
    BY <2>1, <2>2, <2>3
<1>5. CASE ~(n < ATR_PERIOD + 2)
  <2> HIDE DEF L
  <2>1. \A i \in L : i \in Int /\ i \in 1..(n - 1) /\ i \in 1..n
    BY <1>1, <1>3
  <2>2. \A i \in L : /\ Zone(m, i) = TurnedZone(Zone(chart, i), around)
                     /\ Zone(chart, i).at = i /\ Zone(m, i).at = i
    BY <2>1, BlockTurns DEF Zone
  <2>3. T = Turned(Z, around)
    <3>1. T = {TurnedZone(Zone(chart, i), around) : i \in L}
      BY <2>2
    <3>2. {TurnedZone(z, around) : z \in Z} = {TurnedZone(Zone(chart, i), around) : i \in L}
      OBVIOUS
    <3> QED
      BY <3>1, <3>2, TurnedIs
  <2>4. /\ IsFiniteSet(Z) /\ \A z \in Z : z.top \in Int /\ z.bot \in Int /\ z.at \in Int
        /\ \A y, z \in Z : y.at = z.at => y = z
    <3> DEFINE f == [i \in L |-> Zone(chart, i)]
    <3>1. Z = {f[i] : i \in L} /\ L \subseteq DOMAIN f
      OBVIOUS
    <3>2. IsFiniteSet(Z)
      <4> HIDE DEF Z, f
      <4> QED
        BY <1>3, <3>1, ImageFinite
    <3>3. \A i \in L : chart[i].h \in Int /\ chart[i].l \in Int
      BY <2>1, CandleIs, BarIs
    <3>4. \A i \in L : Zone(chart, i).top \in Int /\ Zone(chart, i).bot \in Int
      BY <3>3 DEF Zone
    <3> QED
      BY <2>1, <2>2, <3>2, <3>4
  <2>5. /\ IsFiniteSet(T) /\ \A z \in T : z.top \in Int /\ z.bot \in Int /\ z.at \in Int
        /\ \A y, z \in T : y.at = z.at => y = z
    <3> DEFINE f == [i \in L |-> Zone(m, i)]
    <3>1. T = {f[i] : i \in L} /\ L \subseteq DOMAIN f
      OBVIOUS
    <3>2. IsFiniteSet(T)
      <4> HIDE DEF T, f
      <4> QED
        BY <1>3, <3>1, ImageFinite
    <3>3. \A i \in L : m[i].h \in Int /\ m[i].l \in Int
      <4>1. \A i \in L : m[i].h = around - chart[i].l /\ m[i].l = around - chart[i].h
        BY <2>1, MirrorIs
      <4>2. \A i \in L : chart[i].h \in Int /\ chart[i].l \in Int
        BY <2>1, CandleIs, BarIs
      <4> QED
        BY <4>1, <4>2
    <3>4. \A i \in L : Zone(m, i).top \in Int /\ Zone(m, i).bot \in Int
      BY <3>3 DEF Zone
    <3> QED
      BY <2>1, <2>2, <3>2, <3>4
  <2>6. Last_(chart).c \in Int /\ Last_(m).c \in Int
    <3>1. chart[n].c \in Int
      BY <1>1, CandleIs, BarIs
    <3>2. m[n].c = around - chart[n].c
      BY <1>1, MirrorIs
    <3> QED
      BY <1>1, <3>1, <3>2 DEF Last_
  <2>7. OrderBlocks(chart, 10) = Ordered(Z, Last_(chart).c, PivotSwing(chart))
    BY <1>5 DEF OrderBlocks, L
  <2>8. OrderBlocks(m, 10) = Ordered(T, Last_(m).c, PivotSwing(m))
    BY <1>1, <1>2, <1>5 DEF OrderBlocks
  <2> HIDE DEF Z, T
  <2>9. Range(OrderBlocks(chart, 10)) = Z
    BY <2>4, <2>6, <2>7, RankedAre
  <2>10. Range(OrderBlocks(m, 10)) = T
    BY <2>5, <2>6, <2>8, RankedAre
  <2> QED
    BY <2>3, <2>9, <2>10 DEF m
<1> QED
  BY <1>4, <1>5

LEMMA GapTurns ==
  \A chart \in Charts : \A around \in Int : \A i \in 3..Len(chart) :
    /\ GapAt(Mirrored(chart, around), i) = Turned(GapAt(chart, i), around)
    /\ \A z \in GapAt(chart, i) : z.side \in Sides /\ z.top \in Int /\ z.bot \in Int
<1> SUFFICES ASSUME NEW chart \in Charts, NEW around \in Int, NEW i \in 3..Len(chart)
             PROVE  /\ GapAt(Mirrored(chart, around), i) = Turned(GapAt(chart, i), around)
                    /\ \A z \in GapAt(chart, i) : z.side \in Sides /\ z.top \in Int /\ z.bot \in Int
  OBVIOUS
<1> DEFINE m == Mirrored(chart, around)
           j == i - 2
           a == chart[j]
           b == chart[i]
           up == [side |-> "bullish", top |-> b.l, bot |-> a.h, at |-> i]
           down == [side |-> "bearish", top |-> a.l, bot |-> b.h, at |-> i]
           mUp == [side |-> "bullish", top |-> m[i].l, bot |-> m[j].h, at |-> i]
           mDown == [side |-> "bearish", top |-> m[j].l, bot |-> m[i].h, at |-> i]
<1>1. i \in 1..Len(chart) /\ j \in 1..Len(chart)
  BY CandleIs
<1>2. /\ a.h \in Int /\ a.l \in Int /\ b.h \in Int /\ b.l \in Int /\ a.l <= a.h /\ b.l <= b.h
  <2>1. a \in Bars /\ b \in Bars
    BY <1>1, CandleIs
  <2> HIDE DEF a, b
  <2>2. \A k \in Bars : k.h \in Int /\ k.l \in Int /\ k.l <= k.h
    BY DEF Bars, Within
  <2> QED
    BY <2>1, <2>2
<1>3. /\ m[i].h = around - b.l /\ m[i].l = around - b.h
      /\ m[j].h = around - a.l /\ m[j].l = around - a.h
  BY <1>1, MirrorIs
<1>4. /\ TurnedZone(up, around) = mDown /\ TurnedZone(down, around) = mUp
  BY <1>3 DEF TurnedZone, Other
<1>5. /\ up.side \in Sides /\ up.top \in Int /\ up.bot \in Int
      /\ down.side \in Sides /\ down.top \in Int /\ down.bot \in Int
  BY <1>2 DEF Sides
<1>6. \A x : Turned({x}, around) = {TurnedZone(x, around)}
  BY DEF Turned, TurnedZone
<1>7. CASE a.h < b.l
  <2>1. ~(a.l > b.h)
    BY <1>2, <1>7
  <2>2. GapAt(chart, i) = {up}
    BY <1>7, <2>1 DEF GapAt
  <2>3. m[j].l > m[i].h /\ ~(m[j].h < m[i].l)
    BY <1>2, <1>3, <1>7
  <2>4. GapAt(m, i) = {mDown}
    BY <2>3 DEF GapAt
  <2> QED
    BY <1>4, <1>5, <1>6, <2>2, <2>4
<1>8. CASE a.l > b.h
  <2>1. ~(a.h < b.l)
    BY <1>2, <1>8
  <2>2. GapAt(chart, i) = {down}
    BY <1>8, <2>1 DEF GapAt
  <2>3. m[j].h < m[i].l /\ ~(m[j].l > m[i].h)
    BY <1>2, <1>3, <1>8
  <2>4. GapAt(m, i) = {mUp}
    BY <2>3 DEF GapAt
  <2> QED
    BY <1>4, <1>5, <1>6, <2>2, <2>4
<1>9. CASE ~(a.h < b.l) /\ ~(a.l > b.h)
  <2>1. GapAt(chart, i) = {}
    BY <1>9 DEF GapAt
  <2>2. ~(m[j].h < m[i].l) /\ ~(m[j].l > m[i].h)
    BY <1>2, <1>3, <1>9
  <2>3. GapAt(m, i) = {}
    BY <2>2 DEF GapAt
  <2>4. Turned({}, around) = {}
    BY DEF Turned
  <2> QED
    BY <2>1, <2>3, <2>4
<1> QED
  BY <1>7, <1>8, <1>9

LEMMA FillingTurns ==
  \A chart \in Charts : \A around \in Int : \A z : \A j \in 1..Len(chart) :
    z.side \in Sides /\ z.top \in Int /\ z.bot \in Int =>
      (FilledBy(TurnedZone(z, around), Mirrored(chart, around)[j]) <=> FilledBy(z, chart[j]))
<1> SUFFICES ASSUME NEW chart \in Charts, NEW around \in Int, NEW z, NEW j \in 1..Len(chart),
                    z.side \in Sides, z.top \in Int, z.bot \in Int
             PROVE  FilledBy(TurnedZone(z, around), Mirrored(chart, around)[j]) <=> FilledBy(z, chart[j])
  OBVIOUS
<1> DEFINE q == Mirrored(chart, around)[j]
           k == chart[j]
           t == TurnedZone(z, around)
<1>1. q.h = around - k.l /\ q.l = around - k.h
  BY MirrorIs
<1>2. k.h \in Int /\ k.l \in Int
  BY CandleIs, BarIs
<1>3. t.side = Other(z.side) /\ t.top = around - z.bot /\ t.bot = around - z.top
  BY DEF TurnedZone
<1> HIDE DEF q, k, t
<1>4. FilledBy(t, q) <=> FilledBy(z, k)
  BY <1>1, <1>2, <1>3 DEF FilledBy, Sides, Other
<1> QED
  BY <1>4 DEF q, k, t

LEMMA UnfilledTurn ==
  \A chart \in Charts : \A around \in Int :
    Unfilled(Mirrored(chart, around)) = Turned(Unfilled(chart), around)
<1> SUFFICES ASSUME NEW chart \in Charts, NEW around \in Int
             PROVE  Unfilled(Mirrored(chart, around)) = Turned(Unfilled(chart), around)
  OBVIOUS
<1> DEFINE m == Mirrored(chart, around)
           n == Len(chart)
           T == {TurnedZone(z, around) : z \in Unfilled(chart)}
<1>1. n \in Nat \ {0} /\ Len(m) = n
  BY CandleIs, MirrorIs
<1>2. \A z : TurnedZone(z, around).at = z.at
  BY DEF TurnedZone
<1>3. \A i \in 3..n : /\ GapAt(m, i) = {TurnedZone(z, around) : z \in GapAt(chart, i)}
                      /\ \A z \in GapAt(chart, i) : z.side \in Sides /\ z.top \in Int /\ z.bot \in Int
  BY GapTurns, TurnedIs
<1>4. ASSUME NEW i \in 3..n, NEW z \in GapAt(chart, i), NEW j \in (i + 1)..n
      PROVE  FilledBy(TurnedZone(z, around), m[j]) <=> FilledBy(z, chart[j])
  <2>1. j \in 1..n
    BY <1>1
  <2> QED
    BY <1>3, <2>1, FillingTurns
<1> HIDE DEF m, n
<1>5. ASSUME NEW z \in Unfilled(chart) PROVE TurnedZone(z, around) \in Unfilled(m)
  <2> DEFINE t == TurnedZone(z, around)
             i == z.at
  <2>1. /\ i \in 3..n /\ z \in GapAt(chart, i)
        /\ \A j \in (i + 1)..n : ~FilledBy(z, chart[j])
    BY UnfilledWhere DEF n
  <2>2. t.at = i
    BY <1>2
  <2>3. t \in GapAt(m, i)
    BY <1>3, <2>1
  <2>4. \A j \in (i + 1)..n : ~FilledBy(t, m[j])
    BY <1>4, <2>1
  <2> HIDE DEF t, i
  <2> QED
    BY <1>1, <2>1, <2>2, <2>3, <2>4, UnfilledWhere DEF t
<1>6. ASSUME NEW t \in Unfilled(m) PROVE \E z \in Unfilled(chart) : t = TurnedZone(z, around)
  <2> DEFINE i == t.at
  <2>1. /\ i \in 3..n /\ t \in GapAt(m, i)
        /\ \A j \in (i + 1)..n : ~FilledBy(t, m[j])
    BY <1>1, UnfilledWhere
  <2>2. PICK z \in GapAt(chart, i) : t = TurnedZone(z, around)
    BY <1>3, <2>1
  <2>3. z.at = i
    BY <1>2, <2>2
  <2>4. \A j \in (i + 1)..n : ~FilledBy(z, chart[j])
    BY <1>4, <2>1, <2>2
  <2> HIDE DEF i
  <2>5. z \in Unfilled(chart)
    BY <2>1, <2>2, <2>3, <2>4, UnfilledWhere DEF n
  <2> QED
    BY <2>2, <2>5
<1>7. Unfilled(m) = T
  BY <1>5, <1>6
<1> QED
  BY <1>7, TurnedIs DEF m

LEMMA OpenTurns ==
  \A chart \in Charts : \A around \in Int :
    OpenGap(Mirrored(chart, around)) = Turned(OpenGap(chart), around)
<1> SUFFICES ASSUME NEW chart \in Charts, NEW around \in Int
             PROVE  OpenGap(Mirrored(chart, around)) = Turned(OpenGap(chart), around)
  OBVIOUS
<1> DEFINE m == Mirrored(chart, around)
           U == Unfilled(chart)
           V == Unfilled(m)
<1>1. V = {TurnedZone(z, around) : z \in U}
  BY UnfilledTurn, TurnedIs
<1>2. \A z : TurnedZone(z, around).at = z.at
  BY DEF TurnedZone
<1>3. /\ OpenGap(chart) = {z \in U : \A y \in U : y.at <= z.at}
      /\ OpenGap(m) = {z \in V : \A y \in V : y.at <= z.at}
  BY OpenIsNewest
<1>4. Turned(OpenGap(chart), around) = {TurnedZone(z, around) : z \in OpenGap(chart)}
  BY TurnedIs
<1> HIDE DEF m, U, V
<1>5. \A z \in U : z \in OpenGap(chart) <=> TurnedZone(z, around) \in OpenGap(m)
  BY <1>1, <1>2, <1>3
<1>6. OpenGap(m) = {TurnedZone(z, around) : z \in OpenGap(chart)}
  BY <1>1, <1>3, <1>5
<1> QED
  BY <1>4, <1>6 DEF m

\* Whatever candles come, long and short are read alike: of the chart turned upside down
\* smc.find_order_block and smc.find_fvg find the same blocks and the same gap with their sides
\* exchanged, and RegimeDetector the same spike.
THEOREM LongAndShortAlike == ChartSpec => []MirroredAlike
<1>1. ChartInv => MirroredAlike
  <2> SUFFICES ASSUME ChartInv PROVE MirroredAlike
    OBVIOUS
  <2> DEFINE around == 2 * Last_(seen).c
             m == Mirrored(seen, around)
  <2>1. seen \in Charts
    BY DEF ChartInv, Charts
  <2>2. around \in Int
    BY <2>1, CandleIs, BarIs
  <2> HIDE DEF around
  <2>3. Range(OrderBlocks(m, 10)) = Turned(Range(OrderBlocks(seen, 10)), around)
    BY <2>1, <2>2, BlocksTurn
  <2>4. OpenGap(m) = Turned(OpenGap(seen), around)
    BY <2>1, <2>2, OpenTurns
  <2>5. Parabolic(m, 12) = Parabolic(seen, 12)
    BY <2>1, <2>2, RangesStay DEF Parabolic
  <2> QED
    BY <2>3, <2>4, <2>5 DEF MirroredAlike, around
<1> QED
  BY <1>1, ChartGrows, PTL

\* What the engine reads of a chart neither forgets nor takes sides, whatever candles come.
THEOREM ChartReadingsHold == ChartSpec => []ReadingsHold
<1>1. ReadingsPersist /\ MirroredAlike => ReadingsHold
  BY DEF ReadingsHold
<1> QED
  BY <1>1, ReadingsArePersistent, LongAndShortAlike, PTL

-----------------------------------------------------------------------------
(* The labels of the backtest's trades *)

\* A candle touches the stop or the target of a trade; none up to the last one given did.
Touched(t, k) == Stopped(t, k) \/ Reached(t, k)
Clear(t, last) == \A at \in (t.entered + 1)..last : ~Touched(t, data[at + 1])

\* A trade ended on the first candle that touched one of its levels, or none did.
EndedAs(t) ==
  /\ t.reason \in {"sl", "tp1", "end_of_data"}
  /\ t.reason = "end_of_data" => ended /\ Clear(t, Len(data) - 1)
  /\ t.reason = "sl" => Clear(t, t.exited - 1) /\ Stopped(t, data[t.exited + 1])
  /\ t.reason = "tp1" =>
       Clear(t, t.exited - 1) /\ ~Stopped(t, data[t.exited + 1]) /\ Reached(t, data[t.exited + 1])

LabelInv ==
  /\ \A i \in DOMAIN results : EndedAs(results[i])
  /\ open # NoTrade => Clear(open, Len(data) - 1)

LEMMA SameLevels ==
  \A t, z : z.direction = t.direction /\ z.stop = t.stop /\ z.tp1 = t.tp1 =>
    \A k : /\ Stopped(z, k) <=> Stopped(t, k)
           /\ Reached(z, k) <=> Reached(t, k)
           /\ Touched(z, k) <=> Touched(t, k)
BY DEF Stopped, Reached, Touched

LEMMA FilledKeepsTarget ==
  ASSUME NEW t \in TestTrades, NEW at \in Nat, NEW price \in Int, NEW reason \in Reasons
  PROVE  Filled(t, at, price, reason).tp1 = t.tp1
BY DEF Filled, TestTrades

\* A candle that ends a trade has touched the level that gives the reason.
LEMMA ExitTouches ==
  ASSUME NEW t, Priced(t), NEW k \in Candles, NEW at \in Nat, NEW z \in Exits(t, k, at)
  PROVE  /\ z.tp1 = t.tp1
         /\ \/ z.reason = "sl" /\ Stopped(t, k)
            \/ z.reason = "tp1" /\ ~Stopped(t, k) /\ Reached(t, k)
<1>1. /\ t \in TestTrades /\ t.stop \in Int /\ t.tp1 \in Int /\ SLIPPAGE \in Nat
      /\ "sl" \in Reasons /\ "tp1" \in Reasons
  BY TestAssumption DEF Priced, TestTrades, Reasons
<1>2. \A level \in Int, buying \in BOOLEAN : Slipped(level, buying) \in Int
  <2>1. SLIPPAGE + 1 \in Int /\ SLIPPAGE - 1 \in Int
    BY <1>1
  <2> QED
    BY <2>1, Products DEF Slipped
<1> DEFINE buying == t.direction = "short"
           stopped == Slipped(t.stop, buying)
           reachedAt == Slipped(t.tp1, buying)
<1>3. stopped \in Int /\ reachedAt \in Int
  BY <1>1, <1>2
<1>4. CASE Stopped(t, k)
  <2>1. z = Filled(t, at, stopped, "sl")
    BY <1>4 DEF Exits
  <2> HIDE DEF stopped
  <2>2. z.tp1 = t.tp1 /\ z.reason = "sl"
    BY <1>1, <1>3, <2>1, FilledIs, FilledKeepsTarget
  <2> QED
    BY <1>4, <2>2
<1>5. CASE ~Stopped(t, k)
  <2>1. z = Filled(t, at, reachedAt, "tp1") /\ Reached(t, k)
    BY <1>5 DEF Exits
  <2> HIDE DEF reachedAt
  <2>2. z.tp1 = t.tp1 /\ z.reason = "tp1"
    BY <1>1, <1>3, <2>1, FilledIs, FilledKeepsTarget
  <2> QED
    BY <1>5, <2>1, <2>2
<1> QED
  BY <1>4, <1>5

\* Candles that arrive touch nothing earlier.
LEMMA ClearStays ==
  ASSUME TestTypes, NEW k \in Candles, data' = Append(data, k)
  PROVE  \A t \in TestTrades : \A last \in Int : last < Len(data) /\ Clear(t, last) =>
           \A at \in (t.entered + 1)..last : ~Touched(t, data'[at + 1])
<1> TAKE t \in TestTrades
<1> TAKE last \in Int
<1> HAVE last < Len(data) /\ Clear(t, last)
<1>1. Len(data) \in Nat /\ t.entered \in Nat
  BY DEF TestTypes, TestTrades
<1>2. \A at \in (t.entered + 1)..last : at + 1 \in 1..Len(data)
  BY <1>1
<1>3. \A at \in (t.entered + 1)..last : data'[at + 1] = data[at + 1]
  BY <1>2, EarlierStay
<1> QED
  BY <1>3 DEF Clear

LEMMA ClearGrows ==
  ASSUME TestTypes, NEW k \in Candles, data' = Append(data, k)
  PROVE  \A t \in TestTrades : Clear(t, Len(data) - 1) /\ ~Touched(t, k) =>
           \A at \in (t.entered + 1)..Len(data) : ~Touched(t, data'[at + 1])
<1> TAKE t \in TestTrades
<1> HAVE Clear(t, Len(data) - 1) /\ ~Touched(t, k)
<1>1. t.entered \in Nat /\ Len(data) \in Nat /\ data'[Len(data) + 1] = k
  BY EarlierStay DEF TestTrades, TestTypes
<1>2. \A at \in (t.entered + 1)..(Len(data) - 1) : ~Touched(t, data'[at + 1])
  <2> DEFINE last == Len(data) - 1
  <2>1. last \in Int /\ last < Len(data)
    BY <1>1
  <2> HIDE DEF last
  <2>2. Clear(t, last)
    BY DEF last
  <2>3. \A at \in (t.entered + 1)..last : ~Touched(t, data'[at + 1])
    BY <2>1, <2>2, ClearStays
  <2> QED
    BY <2>3 DEF last
<1>3. \A at \in (t.entered + 1)..Len(data) :
        at = Len(data) \/ at \in (t.entered + 1)..(Len(data) - 1)
  BY <1>1
<1> QED
  BY <1>1, <1>2, <1>3

\* What ended a trade stays what ended it.
LEMMA EndedStays ==
  ASSUME TestTypes, NEW k \in Candles, data' = Append(data, k), ~ended
  PROVE  \A t \in TestTrades : t.exited < Len(data) /\ EndedAs(t) => EndedAs(t)'
<1> TAKE t \in TestTrades
<1> HAVE t.exited < Len(data) /\ EndedAs(t)
<1> DEFINE last == t.exited - 1
<1>1. /\ t.entered \in Nat /\ t.exited \in Nat /\ Len(data) \in Nat /\ t.exited + 1 \in 1..Len(data)
      /\ last \in Int /\ last < Len(data)
  BY DEF TestTrades, TestTypes
<1>2. data'[t.exited + 1] = data[t.exited + 1]
  BY <1>1, EarlierStay
<1>3. t.reason \in {"sl", "tp1"} /\ Clear(t, last)
  BY DEF EndedAs
<1> HIDE DEF last
<1>4. \A at \in (t.entered + 1)..last : ~Touched(t, data'[at + 1])
  BY <1>1, <1>3, ClearStays
<1> QED
  BY <1>2, <1>3, <1>4 DEF EndedAs, Clear, last

\* What holds of the results holds after a candle.
LEMMA LabelsStay ==
  ASSUME TestInv, LabelInv, ~ended, NEW k \in Candles, data' = Append(data, k),
         \A i \in DOMAIN results : results'[i] = results[i]
  PROVE  \A i \in DOMAIN results : EndedAs(results[i])'
<1>1. \A t \in TestTrades : t.exited < Len(data) /\ EndedAs(t) => EndedAs(t)'
  BY EndedStays DEF TestInv
<1>2. \A i \in DOMAIN results : results[i] \in TestTrades /\ results[i].exited < Len(data)
  <2>1. results \in Seq(TestTrades)
    BY DEF TestInv, TestTypes
  <2>2. \A i \in DOMAIN results : results[i].exited < Len(data)
    BY DEF TestInv, InOrder
  <2> QED
    BY <2>1, <2>2
<1> QED
  BY <1>1, <1>2 DEF LabelInv

\* A trade that joins the results is the last of them.
LEMMA JoinsLast ==
  \A z \in TestTrades : results \in Seq(TestTrades) /\ results' = Append(results, z) =>
    /\ \A i \in DOMAIN results : results'[i] = results[i]
    /\ \A i \in DOMAIN results' : results'[i] = z \/ i \in DOMAIN results
<1> TAKE z \in TestTrades
<1> HAVE results \in Seq(TestTrades) /\ results' = Append(results, z)
<1> DEFINE n == Len(results)
<1>1. /\ n \in Nat /\ DOMAIN results' = 1..(n + 1) /\ DOMAIN results = 1..n
      /\ results'[n + 1] = z /\ \A i \in 1..n : results'[i] = results[i]
  OBVIOUS
<1> HIDE DEF n
<1> QED
  BY <1>1

LEMMA LabelNext == TestInv /\ LabelInv /\ [BacktestNext]_testVars => LabelInv'
<1> SUFFICES ASSUME TestInv, LabelInv, [BacktestNext]_testVars PROVE LabelInv'
  OBVIOUS
<1>1. TestTypes /\ Len(data) \in Nat \ {0} /\ results \in Seq(TestTrades)
  BY DEF TestInv, TestTypes
<1>2. ASSUME NEW k \in Candles, data' = Append(data, k)
      PROVE  Len(data') - 1 = Len(data) /\ data'[Len(data) + 1] = k
  <2>1. Len(data') = Len(data) + 1 /\ data'[Len(data) + 1] = k
    BY <1>1, <1>2, EarlierStay
  <2> QED
    BY <1>1, <2>1
<1>3. ASSUME NEW k \in Candles, Closes(k) PROVE LabelInv'
  <2>1. PICK z \in Exits(open, k, Len(data)) : results' = Append(results, z)
    BY <1>3 DEF Closes
  <2>2. data' = Append(data, k) /\ ~ended /\ open # NoTrade /\ open' = NoTrade
    BY <1>3 DEF Closes, Arrives
  <2>3. Priced(open) /\ open \in TestTrades /\ Clear(open, Len(data) - 1)
    BY <2>2 DEF TestInv, TestTypes, Priced, LabelInv
  <2>4. /\ z \in TestTrades /\ z.entered = open.entered /\ z.exited = Len(data)
        /\ z.direction = open.direction /\ z.stop = open.stop
    BY <1>1, <2>3, ExitIs
  <2>5. /\ z.tp1 = open.tp1
        /\ \/ z.reason = "sl" /\ Stopped(open, k)
           \/ z.reason = "tp1" /\ ~Stopped(open, k) /\ Reached(open, k)
    BY <1>1, <2>3, ExitTouches
  <2>6. \A c : /\ Stopped(z, c) <=> Stopped(open, c)
               /\ Reached(z, c) <=> Reached(open, c)
               /\ Touched(z, c) <=> Touched(open, c)
    BY <2>4, <2>5, SameLevels
  <2>7. \A at \in (z.entered + 1)..(z.exited - 1) : ~Touched(z, data'[at + 1])
    <3> DEFINE last == Len(data) - 1
    <3>1. last \in Int /\ last < Len(data) /\ Clear(open, last)
      BY <1>1, <2>3
    <3> HIDE DEF last
    <3>2. \A at \in (open.entered + 1)..last : ~Touched(open, data'[at + 1])
      BY <1>1, <2>2, <2>3, <3>1, ClearStays
    <3> QED
      BY <2>4, <2>6, <3>2 DEF last
  <2>8. EndedAs(z)'
    <3>1. data'[z.exited + 1] = k
      BY <1>2, <2>2, <2>4
    <3> QED
      BY <2>5, <2>6, <2>7, <3>1 DEF EndedAs, Clear
  <2>9. /\ \A i \in DOMAIN results : results'[i] = results[i]
        /\ \A i \in DOMAIN results' : results'[i] = z \/ i \in DOMAIN results
    BY <1>1, <2>1, <2>4, JoinsLast
  <2>10. \A i \in DOMAIN results : EndedAs(results[i])'
    BY <2>2, <2>9, LabelsStay
  <2> QED
    BY <2>2, <2>8, <2>9, <2>10 DEF LabelInv, EndedAs, Clear
<1>4. ASSUME NEW k \in Candles, Holds(k) PROVE LabelInv'
  <2> DEFINE t == Charged(open, Len(data))
  <2>1. /\ data' = Append(data, k) /\ ~ended /\ results' = results
        /\ open # NoTrade /\ open' = t /\ Exits(open, k, Len(data)) = {}
    BY <1>4 DEF Holds, Arrives
  <2>2. open \in TestTrades /\ Clear(open, Len(data) - 1)
    BY <2>1 DEF TestInv, TestTypes, Priced, LabelInv
  <2>3. /\ t.entered = open.entered /\ t.direction = open.direction
        /\ t.stop = open.stop /\ t.tp1 = open.tp1
    BY <2>2 DEF Charged, TestTrades
  <2> HIDE DEF t
  <2>4. ~Touched(open, k)
    BY <2>1 DEF Exits, Touched
  <2>5. \A at \in (open.entered + 1)..Len(data) : ~Touched(open, data'[at + 1])
    BY <1>1, <2>1, <2>2, <2>4, ClearGrows
  <2>6. \A c : Touched(t, c) <=> Touched(open, c)
    BY <2>3, SameLevels
  <2>7. \A at \in (t.entered + 1)..(Len(data') - 1) : ~Touched(t, data'[at + 1])
    BY <1>2, <2>1, <2>3, <2>5, <2>6
  <2>8. \A i \in DOMAIN results : EndedAs(results[i])'
    BY <2>1, LabelsStay
  <2> QED
    BY <2>1, <2>7, <2>8 DEF LabelInv, Clear, EndedAs
<1>5. ASSUME NEW k \in Candles, Passes(k) PROVE LabelInv'
  <2>1. data' = Append(data, k) /\ ~ended /\ results' = results /\ open' = NoTrade
    BY <1>5 DEF Passes, Arrives
  <2>2. \A i \in DOMAIN results : EndedAs(results[i])'
    BY <2>1, LabelsStay
  <2> QED
    BY <2>1, <2>2 DEF LabelInv, EndedAs, Clear
<1>6. ASSUME NEW k \in Candles, NEW direction \in {"long", "short"}, Enters(k, direction)
      PROVE  LabelInv'
  <2> DEFINE t == Trade([direction |-> direction], Len(data), k.c)
  <2>1. data' = Append(data, k) /\ ~ended /\ results' = results /\ open' = t
    BY <1>6 DEF Enters, Arrives
  <2>2. t.entered = Len(data)
    BY DEF Trade
  <2> HIDE DEF t
  <2>3. \A at \in (t.entered + 1)..(Len(data') - 1) : ~Touched(t, data'[at + 1])
    <3>1. (Len(data) + 1)..Len(data) = {}
      BY <1>1
    <3> QED
      BY <1>2, <2>1, <2>2, <3>1
  <2>4. \A i \in DOMAIN results : EndedAs(results[i])'
    BY <2>1, LabelsStay
  <2> QED
    BY <2>1, <2>3, <2>4 DEF LabelInv, Clear, EndedAs
<1>7. CASE End
  <2>1. data' = data /\ ~ended /\ ended' /\ open' = NoTrade
    BY <1>7 DEF End
  <2>2. \A t : EndedAs(t) => EndedAs(t)'
    BY <2>1 DEF EndedAs, Clear
  <2>3. CASE open = NoTrade
    <3>1. results' = results
      BY <1>7, <2>3 DEF End
    <3> QED
      BY <2>1, <2>2, <3>1 DEF LabelInv, EndedAs, Clear
  <2>4. CASE open # NoTrade
    <3>1. PICK z : /\ results' = Append(results, z)
                   /\ z = Filled(open, Len(data) - 1, SLIPPAGE * Last(data).c, "end_of_data")
      BY <1>7, <2>4 DEF End
    <3>2. open \in TestTrades /\ Clear(open, Len(data) - 1)
      BY <2>4 DEF TestInv, TestTypes, Priced, LabelInv
    <3>3. /\ z \in TestTrades /\ z.entered = open.entered /\ z.direction = open.direction
          /\ z.stop = open.stop /\ z.tp1 = open.tp1 /\ z.reason = "end_of_data"
      <4> DEFINE at == Len(data) - 1
                 price == SLIPPAGE * Last(data).c
      <4>1. at \in Nat
        BY <1>1
      <4>2. price \in Int
        <5>1. Last(data) \in Candles
          BY <1>1 DEF TestTypes, Last
        <5>2. SLIPPAGE \in Int /\ Last(data).c \in Int
          BY <5>1, TestAssumption
        <5> QED
          BY <5>2, Products
      <4>3. z = Filled(open, at, price, "end_of_data") /\ "end_of_data" \in Reasons
        BY <3>1 DEF Reasons
      <4> HIDE DEF at, price
      <4> QED
        BY <3>2, <4>1, <4>2, <4>3, FilledIs, FilledKeepsTarget
    <3>4. \A c : Touched(z, c) <=> Touched(open, c)
      BY <3>3, SameLevels
    <3>5. EndedAs(z)'
      BY <2>1, <3>2, <3>3, <3>4 DEF EndedAs, Clear
    <3>6. /\ \A i \in DOMAIN results : results'[i] = results[i]
          /\ \A i \in DOMAIN results' : results'[i] = z \/ i \in DOMAIN results
      BY <1>1, <3>1, <3>3, JoinsLast
    <3>7. \A i \in DOMAIN results : EndedAs(results[i])'
      BY <2>1, <3>6 DEF LabelInv, EndedAs, Clear
    <3> QED
      BY <2>1, <3>5, <3>6, <3>7 DEF LabelInv, EndedAs, Clear
  <2> QED
    BY <2>3, <2>4
<1>8. CASE UNCHANGED testVars
  BY <1>8 DEF testVars, LabelInv, EndedAs, Clear
<1> QED
  BY <1>3, <1>4, <1>5, <1>6, <1>7, <1>8 DEF BacktestNext

\* What the label is read from: the first of the candles after the entry that touches a level.
LEMMA EndedIsLabel ==
  \A t \in TestTrades, finer \in BOOLEAN :
    TestTypes /\ EndedAs(t) /\ t.exited < Len(data)
      /\ (t.exited > t.entered \/ t.reason = "end_of_data") =>
    LabelsOf(t, finer) = EndOf(t, finer)
<1> TAKE t \in TestTrades, finer \in BOOLEAN
<1> HAVE /\ TestTypes /\ EndedAs(t) /\ t.exited < Len(data)
         /\ t.exited > t.entered \/ t.reason = "end_of_data"
<1> DEFINE e == t.entered
           n == Len(data) - e - 1
           after == SubSeq(data, e + 2, Len(data))
           last == OUTCOME_WINDOW
           wins == {i \in 1..last : Reached(t, after[i])}
           losses == {i \in 1..last : Stopped(t, after[i])}
           j == t.exited - e
<1>1. /\ e \in Nat /\ Len(data) \in Nat \ {0} /\ t.exited \in Nat /\ n \in Int /\ j \in Int
      /\ t.direction \in {"long", "short"} /\ last \in Nat /\ last >= 1
  BY WindowAssumption DEF TestTypes, TestTrades
<1>2. /\ Len(after) = IF n >= 1 THEN n ELSE 0
      /\ \A i \in 1..n : after[i] = data[e + i + 1]
  <2> DEFINE m == e + 2
             k == Len(data)
  <2>1. m \in Int /\ k \in Int /\ m = e + 2 /\ k = Len(data)
    BY <1>1
  <2>2. \A i \in m..k : data[i] \in Candles
    <3>1. \A i \in 1..Len(data) : data[i] \in Candles
      BY DEF TestTypes
    <3> QED
      BY <1>1, <2>1, <3>1
  <2>3. k - m + 1 = n /\ \A i \in 1..n : m + i - 1 = e + i + 1
    BY <1>1
  <2>4. after = SubSeq(data, m, k)
    OBVIOUS
  <2> HIDE DEF m, k, after, n
  <2>5. /\ after \in Seq(Candles)
        /\ Len(after) = IF m <= k THEN k - m + 1 ELSE 0
        /\ \A i \in 1..(k - m + 1) : after[i] = data[m + i - 1]
    BY <2>1, <2>2, <2>4, SubSeqProperties
  <2>6. Len(after) = IF n >= 1 THEN n ELSE 0
    BY <1>1, <2>1, <2>3, <2>5
  <2> QED
    BY <2>3, <2>5, <2>6
<1>3. /\ Touches(after, t.tp1, t.direction = "long") = wins
      /\ Touches(after, t.stop, t.direction = "short") = losses
  BY <1>1 DEF Touches, Reached, Stopped
<1>4. LabelsOf(t, finer) =
        CASE Len(after) < last \/ wins \cup losses = {} -> {"PENDING"}
          [] OTHER -> IF wins # {} /\ (losses = {} \/ Min(wins) < Min(losses)) THEN {"WIN"}
                      ELSE IF finer /\ wins # {} /\ Min(wins) = Min(losses) THEN {"WIN", "LOSS"}
                      ELSE {"LOSS"}
  BY <1>3 DEF LabelsOf, Outcomes, After
<1>5. EndOf(t, finer) =
        IF n < last \/ j > last THEN {"PENDING"}
        ELSE CASE t.reason = "tp1" -> {"WIN"}
               [] t.reason = "sl" ->
                    {"LOSS"} \cup {l \in {"WIN"} : finer /\ Reached(t, data[t.exited + 1])}
               [] OTHER -> {"PENDING"}
  <2>1. Len(data) - t.entered - 1 = n /\ t.exited - t.entered = j
    OBVIOUS
  <2> QED
    BY <2>1 DEF EndOf
<1> HIDE DEF last
<1>6. CASE n < last
  <2>1. Len(after) < last
    BY <1>1, <1>2, <1>6
  <2> HIDE DEF n, after, wins, losses, j
  <2> QED
    BY <1>4, <1>5, <1>6, <2>1
<1>7. ASSUME n >= last
      PROVE  /\ Len(after) = n /\ ~(Len(after) < last)
             /\ \A i \in 1..last : i \in 1..n
  <2>1. n \in Int /\ last \in Nat /\ last >= 1 /\ n >= last
    BY <1>1, <1>7
  <2>2. Len(after) = IF n >= 1 THEN n ELSE 0
    BY <1>2
  <2> HIDE DEF n, after
  <2> QED
    BY <2>1, <2>2
<1>8. SUFFICES ASSUME n >= last PROVE LabelsOf(t, finer) = EndOf(t, finer)
  <2>1. n < last \/ n >= last
    <3>1. n \in Int /\ last \in Int
      BY <1>1
    <3> HIDE DEF n
    <3> QED
      BY <3>1
  <2> QED
    BY <1>6, <2>1
<1>9. /\ wins \subseteq Int /\ losses \subseteq Int /\ IsFiniteSet(wins) /\ IsFiniteSet(losses)
  <2> DEFINE J == 1..last
  <2>1. wins \in SUBSET J /\ losses \in SUBSET J
    OBVIOUS
  <2>2. IsFiniteSet(J) /\ J \subseteq Int
    BY <1>1, FS_Interval
  <2> HIDE DEF J, wins, losses
  <2> QED
    BY <2>1, <2>2, FS_Subset
<1>10. \A i \in wins \cup losses :
         /\ i \in 1..last /\ i \in 1..n /\ after[i] = data[e + i + 1]
         /\ Reached(t, after[i]) \/ Stopped(t, after[i])
  BY <1>2, <1>7, <1>8
<1>11. \A to \in Int : Clear(t, to) => \A i \in wins \cup losses : i > to - e
  <2> SUFFICES ASSUME NEW to \in Int, Clear(t, to), NEW i \in wins \cup losses, ~(i > to - e)
               PROVE  FALSE
    OBVIOUS
  <2>1. i \in 1..n /\ after[i] = data[e + i + 1] /\ (Reached(t, after[i]) \/ Stopped(t, after[i]))
    BY <1>10
  <2> DEFINE at == e + i
  <2>2. at \in (e + 1)..to /\ at + 1 = e + i + 1
    <3>1. e \in Nat /\ i \in Int /\ i >= 1 /\ i <= to - e
      BY <1>1, <2>1
    <3> HIDE DEF e
    <3> QED
      BY <3>1
  <2>3. Touched(t, data[at + 1])
    BY <2>1, <2>2 DEF Touched
  <2> QED
    BY <2>2, <2>3 DEF Clear
<1>12. ASSUME t.reason = "end_of_data" PROVE wins \cup losses = {}
  <2>1. Clear(t, Len(data) - 1)
    BY <1>12 DEF EndedAs
  <2>2. \A i \in wins \cup losses : i \in 1..n
    BY <1>10
  <2> HIDE DEF wins, losses
  <2>3. \A i \in wins \cup losses : i > Len(data) - 1 - e
    <3> DEFINE to == Len(data) - 1
    <3>1. to \in Int
      BY <1>1
    <3> HIDE DEF to
    <3>2. Clear(t, to)
      BY <2>1 DEF to
    <3> QED
      BY <1>11, <3>1, <3>2 DEF to
  <2>4. \A i \in wins \cup losses : FALSE
    BY <1>1, <2>2, <2>3
  <2> QED
    BY <2>4
<1>13. ASSUME t.reason \in {"sl", "tp1"}
       PROVE  /\ j \in 1..n /\ after[j] = data[t.exited + 1]
              /\ \A i \in wins \cup losses : i >= j
  <2>1. j \in 1..n
    BY <1>1, <1>13
  <2>2. e + j + 1 = t.exited + 1
    BY <1>1
  <2>3. Clear(t, t.exited - 1)
    BY <1>13 DEF EndedAs
  <2>4. \A i \in wins \cup losses : i > t.exited - 1 - e
    <3> DEFINE to == t.exited - 1
    <3>1. to \in Int
      BY <1>1
    <3> HIDE DEF to, wins, losses
    <3>2. Clear(t, to)
      BY <2>3 DEF to
    <3> QED
      BY <1>11, <3>1, <3>2 DEF to
  <2>5. \A i \in wins \cup losses : i \in Int
    BY <1>9
  <2>6. \A i \in wins \cup losses : i >= j
    <3> DEFINE x == t.exited
    <3>1. x \in Nat /\ e \in Nat /\ j = x - e /\ \A i \in wins \cup losses : i > x - 1 - e
      BY <1>1, <2>4
    <3> HIDE DEF x, e, j, wins, losses
    <3> QED
      BY <2>5, <3>1
  <2> QED
    BY <1>2, <2>1, <2>2, <2>6
<1>14. ASSUME t.reason \in {"sl", "tp1"}, ~(j > last)
       PROVE  /\ j \in wins <=> Reached(t, data[t.exited + 1])
              /\ j \in losses <=> Stopped(t, data[t.exited + 1])
  <2>1. j \in 1..last
    <3>1. j \in 1..n /\ n \in Int /\ last \in Int
      BY <1>1, <1>13, <1>14
    <3> HIDE DEF j, n
    <3> QED
      BY <1>14, <3>1
  <2> QED
    BY <1>13, <1>14, <2>1
<1>15. \A i \in wins \cup losses : i <= last
  BY <1>1, <1>10
<1>16. ASSUME NEW s \in {wins, losses}, s # {}
       PROVE  Min(s) \in s /\ Min(s) \in Int /\ \A y \in s : y >= Min(s)
  <2>1. s \subseteq Int /\ IsFiniteSet(s)
    BY <1>9
  <2> HIDE DEF wins, losses
  <2>2. Min(s) \in s /\ \A y \in s : y >= Min(s)
    BY <1>16, <2>1, MinIn
  <2> QED
    BY <2>1, <2>2
<1> HIDE DEF wins, losses
<1>17. CASE t.reason = "end_of_data"
  BY <1>4, <1>5, <1>12, <1>17
<1>18. CASE t.reason \in {"sl", "tp1"} /\ j > last
  <2>1. \A i \in wins \cup losses : i >= j /\ i <= last /\ i \in Int
    BY <1>9, <1>13, <1>15, <1>18
  <2>2. j \in Int /\ last \in Int
    BY <1>1
  <2> HIDE DEF j
  <2>3. wins \cup losses = {}
    BY <1>18, <2>1, <2>2
  <2> QED
    BY <1>4, <1>5, <1>18, <2>3
<1>19. CASE t.reason = "sl" /\ ~(j > last)
  <2>1. j \in losses
    BY <1>14, <1>19 DEF EndedAs
  <2>2. Min(losses) = j
    <3>1. Min(losses) \in losses /\ Min(losses) \in Int /\ j >= Min(losses)
      BY <1>16, <2>1
    <3>2. Min(losses) >= j /\ j \in Int
      BY <1>1, <1>13, <1>19, <3>1
    <3> HIDE DEF j
    <3> QED
      BY <3>1, <3>2
  <2>3. /\ wins # {} => ~(Min(wins) < j)
        /\ wins # {} /\ Min(wins) = j <=> j \in wins
    <3>1. wins # {} => Min(wins) \in wins /\ Min(wins) \in Int /\ \A y \in wins : y >= Min(wins)
      BY <1>16
    <3>2. j \in Int /\ \A i \in wins : i >= j
      BY <1>1, <1>13, <1>19
    <3> HIDE DEF j
    <3> QED
      BY <3>1, <3>2
  <2>4. wins \cup losses # {} /\ losses # {}
    BY <2>1
  <2> HIDE DEF n, after, j
  <2>5. LabelsOf(t, finer) = IF finer /\ j \in wins THEN {"WIN", "LOSS"} ELSE {"LOSS"}
    BY <1>4, <1>7, <1>8, <2>2, <2>3, <2>4
  <2>6. EndOf(t, finer) = {"LOSS"} \cup {l \in {"WIN"} : finer /\ j \in wins}
    <3>1. ~(n < last)
      BY <1>7, <1>8
    <3>2. j \in wins <=> Reached(t, data[t.exited + 1])
      BY <1>14, <1>19
    <3> QED
      BY <1>5, <1>19, <3>1, <3>2
  <2> QED
    BY <2>5, <2>6
<1>20. CASE t.reason = "tp1" /\ ~(j > last)
  <2>1. j \in wins /\ j \notin losses
    BY <1>14, <1>20 DEF EndedAs
  <2>2. Min(wins) = j
    <3>1. Min(wins) \in wins /\ Min(wins) \in Int /\ j >= Min(wins)
      BY <1>16, <2>1
    <3>2. Min(wins) >= j /\ j \in Int
      BY <1>1, <1>13, <1>20, <3>1
    <3> HIDE DEF j
    <3> QED
      BY <3>1, <3>2
  <2>3. losses # {} => Min(wins) < Min(losses)
    <3>1. losses # {} => Min(losses) \in losses /\ Min(losses) \in Int /\ Min(losses) # j
      BY <1>16, <2>1
    <3>2. j \in Int /\ \A i \in losses : i >= j
      BY <1>1, <1>13, <1>20
    <3> HIDE DEF j
    <3> QED
      BY <2>2, <3>1, <3>2
  <2>4. wins \cup losses # {} /\ wins # {}
    BY <2>1
  <2> HIDE DEF n, after, j
  <2>5. LabelsOf(t, finer) = {"WIN"}
    BY <1>4, <1>7, <1>8, <2>3, <2>4
  <2>6. EndOf(t, finer) = {"WIN"}
    <3>1. ~(n < last)
      BY <1>7, <1>8
    <3> QED
      BY <1>5, <1>20, <3>1
  <2> QED
    BY <2>5, <2>6
<1> QED
  BY <1>17, <1>18, <1>19, <1>20 DEF EndedAs

\* Over every market and window, the labels of outcome_loader.py and the exits of _check_exit agree
\* on every trade that ended where the loader looks, but for those whose last candle reached both
\* levels; a trade that took longer, or is too young, is pending.
THEOREM TradesLabelledAsTested == BacktestSpec => []LabelledAsTested
<1>1. BacktestInit => LabelInv
  BY DEF BacktestInit, LabelInv
<1>2. TestInv /\ LabelInv => LabelledAsTested
  <2> SUFFICES ASSUME TestInv, LabelInv, NEW i \in DOMAIN results, NEW finer \in BOOLEAN
               PROVE  LabelsOf(results[i], finer) = EndOf(results[i], finer)
    BY DEF LabelledAsTested
  <2> DEFINE t == results[i]
  <2>1. /\ t \in TestTrades /\ TestTypes /\ EndedAs(t) /\ t.exited < Len(data)
        /\ t.exited > t.entered \/ t.reason = "end_of_data"
    BY DEF TestInv, TestTypes, InOrder, LabelInv
  <2> HIDE DEF t
  <2>2. LabelsOf(t, finer) = EndOf(t, finer)
    BY <2>1, EndedIsLabel
  <2> QED
    BY <2>2 DEF t
<1> QED
  BY <1>1, <1>2, TestInit, TestNext, LabelNext, PTL DEF BacktestSpec

\* What the backtest reports can be relied on, over every market: its trades are all there, each
\* ended as its candles tell, and the tuner's labels say the same where it looks, but for the
\* order of events inside a candle.
THEOREM BacktestIsHonest == BacktestSpec => []TestIsHonest
<1>1. TradesAccounted /\ StopsComeFirst /\ LabelledAsTested => TestIsHonest
  BY DEF TestIsHonest
<1> QED
  BY <1>1, NoTradeLost, NotFlatteredByTheOrder, TradesLabelledAsTested, PTL

-----------------------------------------------------------------------------
(* The windows of the walk-forward analysis *)

LEMMA MultiplesApart ==
  ASSUME NEW out \in Nat \ {0}, NEW a \in Nat, NEW b \in Nat
  PROVE  /\ a * out \in Nat /\ b * out \in Nat /\ a <= a * out
         /\ a < b => a * out + out <= b * out
<1>1. a * out \in Nat /\ b * out \in Nat
  OBVIOUS
<1>2. a <= a * out
  <2>1. a * (out - 1) >= 0
    <3> DEFINE less == out - 1
    <3>1. less \in Nat
      OBVIOUS
    <3> HIDE DEF less
    <3>2. a * less \in Nat
      BY <3>1
    <3> QED
      BY <3>2 DEF less
  <2>2. a * (out - 1) = a * out - a
    OBVIOUS
  <2> QED
    BY <1>1, <2>1, <2>2
<1>3. ASSUME a < b PROVE a * out + out <= b * out
  <2>1. (b - a - 1) * out >= 0
    <3> DEFINE less == b - a - 1
    <3>1. less \in Nat
      BY <1>3
    <3> HIDE DEF less
    <3>2. less * out \in Nat
      BY <3>1
    <3> QED
      BY <3>2 DEF less
  <2>2. (b - a - 1) * out = b * out - a * out - out
    OBVIOUS
  <2> QED
    BY <1>1, <2>1, <2>2
<1> QED
  BY <1>1, <1>2, <1>3

LEMMA QuotientAt ==
  ASSUME NEW out \in Nat \ {0}, NEW x \in Nat
  PROVE  /\ x \div out \in Nat
         /\ (x \div out) * out <= x /\ x < (x \div out) * out + out
OBVIOUS

\* Window(s) is the s-th one.
Window(s, in, out) == [first |-> s * out, split |-> s * out + in, last |-> s * out + in + out]

\* A candle is tested on in one window at most, and in one unless it is of the rest.
LEMMA TestedOnce ==
  ASSUME NEW n \in Nat, NEW in \in Nat \ {0}, NEW out \in Nat \ {0}, NEW t \in in..(n - 1)
  PROVE  Cardinality({w \in Windows(n, in, out, out) : w.split <= t /\ t < w.last}) =
           IF t < in + out * ((n - in) \div out) THEN 1 ELSE 0
<1> DEFINE x == t - in
           y == n - in
           q == x \div out
           m == y \div out
           covers == {w \in Windows(n, in, out, out) : w.split <= t /\ t < w.last}
<1>1. x \in Nat /\ y \in Nat /\ t = x + in /\ n = y + in /\ x < y
  OBVIOUS
<1> HIDE DEF x, y
<1>2. q \in Nat /\ q * out <= x /\ x < q * out + out
  BY <1>1, QuotientAt
<1>3. m \in Nat /\ m * out <= y /\ y < m * out + out
  BY <1>1, QuotientAt
<1> HIDE DEF q, m
<1>4. q < m <=> x < m * out
  <2>1. CASE q < m
    BY <1>1, <1>2, <1>3, <2>1, MultiplesApart
  <2>2. CASE ~(q < m)
    <3>1. m = q \/ m * out + out <= q * out
      BY <1>2, <1>3, <2>2, MultiplesApart
    <3>2. q * out \in Nat /\ m * out \in Nat
      BY <1>2, <1>3, MultiplesApart
    <3>3. m * out <= x
      BY <1>1, <1>2, <3>1, <3>2
    <3> QED
      BY <1>1, <2>2, <3>2, <3>3
  <2> QED
    BY <2>1, <2>2
<1>5. q < m <=> q * out + out <= y
  <2>1. q * out \in Nat /\ m * out \in Nat
    BY <1>2, <1>3, MultiplesApart
  <2>2. CASE q < m
    <3>1. q * out + out <= m * out
      BY <1>2, <1>3, <2>2, MultiplesApart
    <3> QED
      BY <1>1, <1>3, <2>1, <2>2, <3>1
  <2>3. CASE ~(q < m)
    <3>1. m = q \/ m * out + out <= q * out
      BY <1>2, <1>3, <2>3, MultiplesApart
    <3> QED
      BY <1>1, <1>3, <2>1, <2>3, <3>1
  <2> QED
    BY <2>2, <2>3
<1>6. \A s \in Nat : s * out <= x /\ x < s * out + out => s = q
  <2> SUFFICES ASSUME NEW s \in Nat, s * out <= x, x < s * out + out, s # q PROVE FALSE
    OBVIOUS
  <2>1. s * out \in Nat /\ q * out \in Nat
    BY <1>2, MultiplesApart
  <2>2. s < q => s * out + out <= q * out
    BY <1>2, MultiplesApart
  <2>3. q < s => q * out + out <= s * out
    BY <1>2, MultiplesApart
  <2> QED
    BY <1>1, <1>2, <2>1, <2>2, <2>3
<1>7. Windows(n, in, out, out) =
        {Window(s, in, out) : s \in {k \in 0..n : k * out + in + out <= n}}
  BY DEF Windows, Window
<1>8. \A w \in covers : w = Window(q, in, out) /\ q * out + out <= y
  <2> SUFFICES ASSUME NEW w \in covers PROVE w = Window(q, in, out) /\ q * out + out <= y
    OBVIOUS
  <2>1. PICK s \in {k \in 0..n : k * out + in + out <= n} : w = Window(s, in, out)
    BY <1>7
  <2>2. s \in Nat /\ s * out + in + out <= n /\ s * out \in Nat
    BY <2>1, MultiplesApart
  <2>3. s * out + in <= t /\ t < s * out + in + out
    BY <2>1 DEF Window
  <2>4. s * out <= x /\ x < s * out + out
    BY <1>1, <2>2, <2>3
  <2>5. s = q
    BY <1>6, <2>2, <2>4
  <2> QED
    BY <1>1, <2>1, <2>2, <2>5
<1>9. q * out + out <= y => Window(q, in, out) \in covers
  <2> SUFFICES ASSUME q * out + out <= y PROVE Window(q, in, out) \in covers
    OBVIOUS
  <2>1. q * out \in Nat /\ q <= q * out
    BY <1>2, MultiplesApart
  <2>2. q \in 0..n /\ q * out + in + out <= n
    BY <1>1, <1>2, <2>1
  <2>3. Window(q, in, out) \in Windows(n, in, out, out)
    BY <1>7, <2>2
  <2>4. q * out + in <= t /\ t < q * out + in + out
    BY <1>1, <1>2, <2>1
  <2> QED
    BY <2>3, <2>4 DEF Window
<1>10. m * out \in Nat /\ out * m = m * out
  BY <1>3, MultiplesApart
<1>11. t < in + out * m <=> x < m * out
  BY <1>1, <1>10
<1> HIDE DEF covers
<1>12. CASE q < m
  <2>1. covers = {Window(q, in, out)}
    BY <1>5, <1>8, <1>9, <1>12
  <2>2. Cardinality(covers) = 1
    BY <2>1, FS_Singleton
  <2> QED
    BY <1>4, <1>11, <1>12, <2>2 DEF covers, m, y
<1>13. CASE ~(q < m)
  <2>1. covers = {}
    BY <1>5, <1>8, <1>13
  <2>2. Cardinality(covers) = 0
    BY <2>1, FS_EmptySet
  <2> QED
    BY <1>4, <1>11, <1>13, <2>2 DEF covers, m, y
<1> QED
  BY <1>12, <1>13

\* For any amount of data and any lengths of the two parts, WalkForwardAnalysis.run tests on no
\* candle that it fitted on in the same window, on none twice, and on every one but a rest too
\* short for a window.
THEOREM WindowsFollow ==
  \A n \in Nat, in, out \in Nat \ {0} : WindowsTile(n, in, out)
<1> SUFFICES ASSUME NEW n \in Nat, NEW in \in Nat \ {0}, NEW out \in Nat \ {0}
             PROVE  WindowsTile(n, in, out)
  OBVIOUS
<1>1. \A w \in Windows(n, in, out, out) : w.first < w.split /\ w.split < w.last /\ w.last <= n
  <2> SUFFICES ASSUME NEW w \in Windows(n, in, out, out)
               PROVE  w.first < w.split /\ w.split < w.last /\ w.last <= n
    OBVIOUS
  <2>1. PICK s \in {k \in 0..n : k * out + in + out <= n} : w = Window(s, in, out)
    BY DEF Windows, Window
  <2>2. s * out \in Nat /\ s * out + in + out <= n
    BY <2>1, MultiplesApart
  <2>3. w.first = s * out /\ w.split = s * out + in /\ w.last = s * out + in + out
    BY <2>1 DEF Window
  <2> QED
    BY <2>2, <2>3
<1> QED
  BY <1>1, TestedOnce DEF WindowsTile
=============================================================================
