----------------------------- MODULE LedgerProofs -----------------------------
(***************************************************************************)
(* Proofs about the ledgers that add something up.  PositionBook, for any  *)
(* assets, trades, limits and stops: a fill adds a key of its own to the   *)
(* worker's memory, and while an asset is taken by one trade at a time the *)
(* registry counts what the stops can lose.  DeltaTape, for any tape,      *)
(* limits and mishaps: the stored timestamp separates the trades that were *)
(* counted from those that were not, and what was counted is kept.         *)
(* LossSeries, for any results: the list holds the losses that are due,    *)
(* and the equity looked at backwards from now peaks where it did.         *)
(* Tuning, for any labelled sample: a tuned threshold is usable and nearer *)
(* to the best one.  AuditReports, for any audits: no threshold tried is   *)
(* better than the one advised, and leaving out the regimes named never    *)
(* lowers the win rate.  VolumeProfile, for any candles: the bins hold all *)
(* volume of the window, and the value area holds seven tenths of it and   *)
(* is no wider than that takes.                                            *)
(***************************************************************************)
EXTENDS PositionBook, DeltaTape, LossSeries, Tuning, AuditReports, VolumeProfile, FiniteSetTheorems, SequenceTheorems, WellFoundedInduction, TLAPS

(* Sums: SumFunctionOnSet of the community modules is a recursive function, so what it *)
(* returns is found by induction over the subsets of a finite set.  A property of the  *)
(* subsets is given as the set of those that have it.                                  *)

\* What holds of a subset whenever it holds of the smaller ones, holds of every subset.
LEMMA SubsetInduction ==
  ASSUME NEW D, IsFiniteSet(D), NEW P,
         \A s \in SUBSET D : (\A t \in SUBSET s : t # s => t \in P) => s \in P
  PROVE  SUBSET D \subseteq P
<1> DEFINE T == {s \in SUBSET D : s \notin P}
<1>1. FiniteSubsetsOf(D) = SUBSET D
  BY FS_FiniteSubsetsOfFinite
<1>2. IsWellFoundedOn(StrictSubsetOrdering(D), SUBSET D)
  BY <1>1, FS_StrictSubsetOrderingWellFounded
<1>3. SUFFICES ASSUME T # {} PROVE FALSE
  OBVIOUS
<1>4. T \subseteq SUBSET D
  OBVIOUS
<1> HIDE DEF T
<1>5. PICK m \in T : \A y \in T : <<y, m>> \notin StrictSubsetOrdering(D)
  BY <1>2, <1>3, <1>4, WFMin
<1>6. ASSUME NEW t \in SUBSET m, t # m PROVE t \in P
  <2>1. t \in SUBSET D /\ m \in SUBSET D
    BY <1>4
  <2>2. <<t, m>> \in StrictSubsetOrdering(D)
    BY <1>6, <2>1 DEF StrictSubsetOrdering
  <2> QED
    BY <1>5, <2>1, <2>2 DEF T
<1> QED
  BY <1>4, <1>5, <1>6 DEF T

\* The element the sum takes out of a set, and one level of its recursion.
Picked(s) == CHOOSE x \in s : TRUE
Level(g, f, s) == IF s = {} THEN 0 ELSE f[Picked(s)] + g[s \ {Picked(s)}]
\* g sums f over every subset of D.
SumsOver(g, f, D) == g = [s \in SUBSET D |-> Level(g, f, s)]

LEMMA PickedIn == \A s : s # {} => Picked(s) \in s /\ s \ {Picked(s)} # s
  BY DEF Picked

\* Two tables of sums agree where both are defined.
LEMMA SumsAgree ==
  ASSUME NEW f, NEW g, NEW h, NEW C, NEW D, IsFiniteSet(C), C \subseteq D,
         SumsOver(g, f, C), SumsOver(h, f, D)
  PROVE  \A s \in SUBSET C : g[s] = h[s]
<1> DEFINE P == {s \in SUBSET C : g[s] = h[s]}
<1>1. ASSUME NEW s \in SUBSET C, \A t \in SUBSET s : t # s => t \in P
      PROVE  s \in P
  <2>1. g[s] = Level(g, f, s) /\ h[s] = Level(h, f, s)
    BY DEF SumsOver
  <2>2. CASE s = {}
    BY <2>1, <2>2 DEF Level
  <2>3. CASE s # {}
    <3>1. g[s \ {Picked(s)}] = h[s \ {Picked(s)}]
      BY <1>1, <2>3, PickedIn
    <3> QED
      BY <2>1, <2>3, <3>1 DEF Level
  <2> QED
    BY <2>2, <2>3
<1> HIDE DEF P
<1>2. SUBSET C \subseteq P
  BY <1>1, SubsetInduction
<1> QED
  BY <1>2 DEF P

\* Every finite set has its table of sums: the recursion is well defined.
LEMMA SumsExist ==
  ASSUME NEW f, NEW D, IsFiniteSet(D)
  PROVE  \E g : SumsOver(g, f, D)
<1> DEFINE P == {s \in SUBSET D : \E g : SumsOver(g, f, s)}
<1>1. ASSUME NEW s \in SUBSET D, \A t \in SUBSET s : t # s => t \in P
      PROVE  s \in P
  <2> DEFINE some(t) == CHOOSE g : SumsOver(g, f, t)
             before(t) == t \ {Picked(t)}
             g == [t \in SUBSET s |->
                     IF t = {} THEN 0 ELSE f[Picked(t)] + some(before(t))[before(t)]]
  <2>1. ASSUME NEW t \in SUBSET s, t # s PROVE SumsOver(some(t), f, t)
    BY <1>1, <2>1
  <2>2. ASSUME NEW t \in SUBSET s, t # {}
        PROVE  before(t) \in SUBSET s /\ before(t) # s /\ IsFiniteSet(before(t))
    BY <2>2, PickedIn, FS_Subset
  <2> HIDE DEF some
  <2>3. ASSUME NEW t \in SUBSET s, t # s PROVE g[t] = some(t)[t]
    <3>1. some(t)[t] = Level(some(t), f, t)
      BY <2>1, <2>3 DEF SumsOver
    <3>2. CASE t = {}
      BY <3>1, <3>2 DEF Level
    <3>3. CASE t # {}
      <4>1. /\ before(t) \in SUBSET t /\ before(t) \in SUBSET s /\ before(t) # s
            /\ IsFiniteSet(before(t))
        BY <2>2, <3>3
      <4>2. SumsOver(some(t), f, t) /\ SumsOver(some(before(t)), f, before(t))
        BY <2>1, <2>3, <4>1
      <4>3. some(t)[before(t)] = some(before(t))[before(t)]
        <5> HIDE DEF before
        <5>1. \A u \in SUBSET before(t) : some(before(t))[u] = some(t)[u]
          BY <4>1, <4>2, SumsAgree
        <5> QED
          BY <5>1
      <4> QED
        BY <3>1, <3>3, <4>3 DEF Level
    <3> QED
      BY <3>2, <3>3
  <2>4. ASSUME NEW t \in SUBSET s PROVE g[t] = Level(g, f, t)
    <3>1. CASE t = {}
      BY <3>1 DEF Level
    <3>2. CASE t # {}
      <4>1. g[before(t)] = some(before(t))[before(t)]
        BY <2>2, <2>3, <3>2
      <4> QED
        BY <3>2, <4>1 DEF Level
    <3> QED
      BY <3>1, <3>2
  <2>5. SumsOver(g, f, s)
    <3>1. \A t \in SUBSET s : g[t] = Level(g, f, t)
      BY <2>4
    <3>2. DOMAIN g = SUBSET s /\ g = [t \in SUBSET s |-> g[t]]
      OBVIOUS
    <3> HIDE DEF g
    <3> QED
      BY <3>1, <3>2 DEF SumsOver
  <2> QED
    BY <2>5
<1> HIDE DEF P
<1>2. SUBSET D \subseteq P
  BY <1>1, SubsetInduction
<1> QED
  BY <1>2 DEF P

\* SumFunctionOnSet is the last entry of any such table.
LEMMA SumIsEntry ==
  ASSUME NEW f, NEW D, NEW g, IsFiniteSet(D), SumsOver(g, f, D)
  PROVE  \A s \in SUBSET D : SumFunctionOnSet(f, s) = g[s]
<1> SUFFICES ASSUME NEW s \in SUBSET D PROVE SumFunctionOnSet(f, s) = g[s]
  OBVIOUS
<1> DEFINE it == CHOOSE h : h = [t \in SUBSET s |-> IF t = {} THEN 0
                                   ELSE f[CHOOSE x \in t : TRUE] + h[t \ {CHOOSE x \in t : TRUE}]]
<1>1. IsFiniteSet(s)
  BY FS_Subset
<1>2. PICK h : SumsOver(h, f, s)
  BY <1>1, SumsExist
<1>3. h = [t \in SUBSET s |-> IF t = {} THEN 0
             ELSE f[CHOOSE x \in t : TRUE] + h[t \ {CHOOSE x \in t : TRUE}]]
  BY <1>2 DEF SumsOver, Level, Picked
<1>4. it = [t \in SUBSET s |-> IF t = {} THEN 0
              ELSE f[CHOOSE x \in t : TRUE] + it[t \ {CHOOSE x \in t : TRUE}]]
  BY <1>3
<1>5. SumFunctionOnSet(f, s) = it[s]
  BY DEF SumFunctionOnSet, FoldFunctionOnSet, MapThenFoldSet
<1> HIDE DEF it
<1>6. SumsOver(it, f, s)
  BY <1>4 DEF SumsOver, Level, Picked
<1>7. it[s] = g[s]
  BY <1>1, <1>6, SumsAgree
<1> QED
  BY <1>5, <1>7

\* One level of the sum itself.
LEMMA SumLevel ==
  ASSUME NEW f, NEW S, IsFiniteSet(S)
  PROVE  /\ SumFunctionOnSet(f, {}) = 0
         /\ S # {} => /\ Picked(S) \in S
                      /\ SumFunctionOnSet(f, S)
                           = f[Picked(S)] + SumFunctionOnSet(f, S \ {Picked(S)})
<1>1. PICK g : SumsOver(g, f, S)
  BY SumsExist
<1>2. \A s \in SUBSET S : SumFunctionOnSet(f, s) = g[s]
  BY <1>1, SumIsEntry
<1>3. g[{}] = Level(g, f, {}) /\ g[S] = Level(g, f, S)
  BY <1>1 DEF SumsOver
<1> QED
  BY <1>2, <1>3, PickedIn DEF Level

LEMMA SumEmpty == \A f : SumFunctionOnSet(f, {}) = 0
BY SumLevel, FS_EmptySet

\* A sum of integers is one.
LEMMA SumInt ==
  ASSUME NEW f, NEW S, IsFiniteSet(S), \A x \in S : f[x] \in Int
  PROVE  SumFunctionOnSet(f, S) \in Int
<1> DEFINE P == {s \in SUBSET S : SumFunctionOnSet(f, s) \in Int}
<1>1. ASSUME NEW s \in SUBSET S, \A t \in SUBSET s : t # s => t \in P
      PROVE  s \in P
  <2>1. IsFiniteSet(s)
    BY FS_Subset
  <2>2. CASE s = {}
    <3>1. SumFunctionOnSet(f, s) = 0
      BY <2>2, SumEmpty
    <3> QED
      BY <3>1
  <2>3. CASE s # {}
    <3>1. /\ Picked(s) \in s
          /\ SumFunctionOnSet(f, s) = f[Picked(s)] + SumFunctionOnSet(f, s \ {Picked(s)})
      BY <2>1, <2>3, SumLevel
    <3>2. SumFunctionOnSet(f, s \ {Picked(s)}) \in Int
      BY <1>1, <3>1
    <3> QED
      BY <3>1, <3>2
  <2> QED
    BY <2>2, <2>3
<1> HIDE DEF P
<1>2. SUBSET S \subseteq P
  BY <1>1, SubsetInduction
<1> QED
  BY <1>2 DEF P

\* Any element may be taken out first: the order of a sum does not matter.
LEMMA SumRemove ==
  ASSUME NEW f, NEW S, IsFiniteSet(S), \A x \in S : f[x] \in Int
  PROVE  \A x \in S : SumFunctionOnSet(f, S) = f[x] + SumFunctionOnSet(f, S \ {x})
<1> DEFINE P == {s \in SUBSET S : \A x \in s :
                   SumFunctionOnSet(f, s) = f[x] + SumFunctionOnSet(f, s \ {x})}
<1>1. ASSUME NEW s \in SUBSET S, \A t \in SUBSET s : t # s => t \in P
      PROVE  s \in P
  <2>1. SUFFICES ASSUME NEW x \in s
                 PROVE  SumFunctionOnSet(f, s) = f[x] + SumFunctionOnSet(f, s \ {x})
    OBVIOUS
  <2>2. IsFiniteSet(s) /\ s # {}
    BY <2>1, FS_Subset
  <2> DEFINE p == Picked(s)
  <2>3. p \in s /\ SumFunctionOnSet(f, s) = f[p] + SumFunctionOnSet(f, s \ {p})
    BY <2>2, SumLevel
  <2> HIDE DEF p
  <2>4. CASE x = p
    BY <2>3, <2>4
  <2>5. CASE x # p
    <3> DEFINE r == (s \ {x}) \ {p}
    <3>1. SumFunctionOnSet(f, s \ {p}) = f[x] + SumFunctionOnSet(f, r)
      <4>1. SumFunctionOnSet(f, s \ {p}) = f[x] + SumFunctionOnSet(f, (s \ {p}) \ {x})
        BY <1>1, <2>3, <2>5
      <4>2. (s \ {p}) \ {x} = r
        OBVIOUS
      <4> QED
        BY <4>1, <4>2
    <3>2. SumFunctionOnSet(f, s \ {x}) = f[p] + SumFunctionOnSet(f, r)
      BY <1>1, <2>3, <2>5
    <3>3. IsFiniteSet(r) /\ \A y \in r : f[y] \in Int
      BY <2>2, FS_Subset
    <3>4. f[x] \in Int /\ f[p] \in Int
      BY <2>3
    <3> HIDE DEF r
    <3>5. SumFunctionOnSet(f, r) \in Int
      BY <3>3, SumInt
    <3> QED
      BY <2>3, <3>1, <3>2, <3>4, <3>5
  <2> QED
    BY <2>4, <2>5
<1> HIDE DEF P
<1>2. SUBSET S \subseteq P
  BY <1>1, SubsetInduction
<1> QED
  BY <1>2 DEF P

\* A new element adds its value.
LEMMA SumInsert ==
  ASSUME NEW f, NEW S, NEW x, x \notin S, IsFiniteSet(S), \A y \in S \cup {x} : f[y] \in Int
  PROVE  SumFunctionOnSet(f, S \cup {x}) = f[x] + SumFunctionOnSet(f, S)
<1>1. IsFiniteSet(S \cup {x}) /\ (S \cup {x}) \ {x} = S
  BY FS_AddElement
<1> QED
  BY <1>1, SumRemove

\* The sum depends on the values on the set alone.
LEMMA SumSame ==
  ASSUME NEW f, NEW g, NEW S, IsFiniteSet(S), \A x \in S : f[x] = g[x]
  PROVE  SumFunctionOnSet(f, S) = SumFunctionOnSet(g, S)
<1> DEFINE P == {s \in SUBSET S : SumFunctionOnSet(f, s) = SumFunctionOnSet(g, s)}
<1>1. ASSUME NEW s \in SUBSET S, \A t \in SUBSET s : t # s => t \in P
      PROVE  s \in P
  <2>1. IsFiniteSet(s)
    BY FS_Subset
  <2>2. CASE s = {}
    BY <2>1, <2>2, SumLevel
  <2>3. CASE s # {}
    <3> DEFINE p == Picked(s)
    <3>1. /\ p \in s
          /\ SumFunctionOnSet(f, s) = f[p] + SumFunctionOnSet(f, s \ {p})
          /\ SumFunctionOnSet(g, s) = g[p] + SumFunctionOnSet(g, s \ {p})
      BY <2>1, <2>3, SumLevel
    <3> HIDE DEF p
    <3>2. SumFunctionOnSet(f, s \ {p}) = SumFunctionOnSet(g, s \ {p})
      BY <1>1, <3>1
    <3>3. f[p] = g[p]
      BY <3>1
    <3> QED
      BY <3>1, <3>2, <3>3
  <2> QED
    BY <2>2, <2>3
<1> HIDE DEF P
<1>2. SUBSET S \subseteq P
  BY <1>1, SubsetInduction
<1> QED
  BY <1>2 DEF P

\* Where m maps S one to one into T and no value of T is negative, the smaller values of S
\* add up to no more than those of T.
LEMMA SumInject ==
  ASSUME NEW S, NEW f, IsFiniteSet(S), \A x \in S : f[x] \in Int,
         NEW T, NEW g, IsFiniteSet(T), \A y \in T : g[y] \in Nat,
         NEW m, \A x \in S : m[x] \in T /\ f[x] <= g[m[x]],
         \A x, y \in S : m[x] = m[y] => x = y
  PROVE  SumFunctionOnSet(f, S) <= SumFunctionOnSet(g, T)
<1> DEFINE Q(s, t) == (\A x \in s : m[x] \in t) => SumFunctionOnSet(f, s) <= SumFunctionOnSet(g, t)
           P == {t \in SUBSET T : \A s \in SUBSET S : Q(s, t)}
<1>1. ASSUME NEW t \in SUBSET T, \A u \in SUBSET t : u # t => u \in P
      PROVE  t \in P
  <2>1. SUFFICES ASSUME NEW s \in SUBSET S, \A x \in s : m[x] \in t
                 PROVE  SumFunctionOnSet(f, s) <= SumFunctionOnSet(g, t)
    OBVIOUS
  <2>2. IsFiniteSet(s) /\ IsFiniteSet(t)
    BY FS_Subset
  <2>3. CASE t = {}
    <3>1. s = {}
      BY <2>1, <2>3
    <3>2. SumFunctionOnSet(f, s) = 0 /\ SumFunctionOnSet(g, t) = 0
      BY <2>3, <3>1, SumEmpty
    <3> QED
      BY <3>2
  <2>4. CASE t # {}
    <3>1. PICK y \in t : TRUE
      BY <2>4
    <3> DEFINE u == t \ {y}
    <3>2. u \in SUBSET t /\ u # t /\ IsFiniteSet(u)
      BY <2>2, <3>1, FS_Subset
    <3>3. SumFunctionOnSet(g, t) = g[y] + SumFunctionOnSet(g, u)
      BY <2>2, <3>1, SumRemove
    <3>4. g[y] \in Nat /\ SumFunctionOnSet(g, u) \in Int
      BY <3>1, <3>2, SumInt
    <3>5. u \in P
      BY <1>1, <3>2
    <3> HIDE DEF u
    <3>6. CASE \E x \in s : m[x] = y
      <4>1. PICK x \in s : m[x] = y
        BY <3>6
      <4> DEFINE r == s \ {x}
      <4>2. r \in SUBSET S /\ IsFiniteSet(r)
        BY <2>2, FS_Subset
      <4>3. \A z \in r : m[z] \in u
        BY <2>1, <4>1 DEF u
      <4>4. SumFunctionOnSet(f, s) = f[x] + SumFunctionOnSet(f, r)
        BY <2>2, <4>1, SumRemove
      <4>5. f[x] \in Int /\ SumFunctionOnSet(f, r) \in Int
        BY <4>1, <4>2, SumInt
      <4> HIDE DEF r
      <4>6. SumFunctionOnSet(f, r) <= SumFunctionOnSet(g, u)
        BY <3>5, <4>2, <4>3
      <4>7. f[x] <= g[y]
        BY <4>1
      <4> QED
        BY <3>3, <3>4, <4>4, <4>5, <4>6, <4>7
    <3>7. CASE \A x \in s : m[x] # y
      <4>1. SumFunctionOnSet(f, s) \in Int
        BY <2>2, SumInt
      <4>2. SumFunctionOnSet(f, s) <= SumFunctionOnSet(g, u)
        BY <2>1, <3>5, <3>7 DEF u
      <4> QED
        BY <3>3, <3>4, <4>1, <4>2
    <3> QED
      BY <3>6, <3>7
  <2> QED
    BY <2>3, <2>4
<1> HIDE DEF P
<1>2. SUBSET T \subseteq P
  BY <1>1, SubsetInduction
<1>3. T \in P
  BY <1>2
<1> QED
  BY <1>3 DEF P

\* A part of what is not negative is no more than the whole.
LEMMA SumPart ==
  ASSUME NEW f, NEW S, NEW T, IsFiniteSet(T), S \subseteq T, \A x \in T : f[x] \in Nat
  PROVE  SumFunctionOnSet(f, S) <= SumFunctionOnSet(f, T)
<1> DEFINE m == [x \in S |-> x]
<1>1. IsFiniteSet(S) /\ \A x \in S : m[x] \in T /\ f[x] \in Int /\ f[x] <= f[m[x]]
  BY FS_Subset
<1>2. \A x, y \in S : m[x] = m[y] => x = y
  OBVIOUS
<1> HIDE DEF m
<1> QED
  BY <1>1, <1>2, SumInject

\* Adding a value on part of the set adds the sum of that part.
LEMMA SumAdd ==
  ASSUME NEW f, NEW g, NEW h, NEW S, NEW N, N \subseteq S, IsFiniteSet(S),
         \A x \in S : f[x] \in Int, \A x \in N : g[x] \in Int,
         \A x \in S : h[x] = f[x] + (IF x \in N THEN g[x] ELSE 0)
  PROVE  SumFunctionOnSet(h, S) = SumFunctionOnSet(f, S) + SumFunctionOnSet(g, N)
<1> DEFINE P == {s \in SUBSET S : SumFunctionOnSet(h, s)
                   = SumFunctionOnSet(f, s) + SumFunctionOnSet(g, s \cap N)}
<1>1. ASSUME NEW s \in SUBSET S, \A t \in SUBSET s : t # s => t \in P
      PROVE  s \in P
  <2>1. IsFiniteSet(s)
    BY FS_Subset
  <2>2. CASE s = {}
    <3>1. s \cap N = {}
      BY <2>2
    <3>2. /\ SumFunctionOnSet(f, s) = 0 /\ SumFunctionOnSet(h, s) = 0
          /\ SumFunctionOnSet(g, s \cap N) = 0
      BY <2>2, <3>1, SumEmpty
    <3> QED
      BY <3>2
  <2>3. CASE s # {}
    <3> DEFINE p == Picked(s)
               r == s \ {p}
    <3>1. /\ p \in s
          /\ SumFunctionOnSet(f, s) = f[p] + SumFunctionOnSet(f, r)
          /\ SumFunctionOnSet(h, s) = h[p] + SumFunctionOnSet(h, r)
      BY <2>1, <2>3, SumLevel
    <3> HIDE DEF p
    <3>2. /\ IsFiniteSet(r) /\ IsFiniteSet(r \cap N) /\ r \in SUBSET s /\ r # s
      BY <2>1, <3>1, FS_Subset
    <3>3. SumFunctionOnSet(h, r) = SumFunctionOnSet(f, r) + SumFunctionOnSet(g, r \cap N)
      BY <1>1, <3>2
    <3>4. /\ f[p] \in Int /\ SumFunctionOnSet(f, r) \in Int
          /\ SumFunctionOnSet(g, r \cap N) \in Int
      BY <3>1, <3>2, SumInt
    <3>5. CASE p \in N
      <4>1. s \cap N = (r \cap N) \cup {p} /\ p \notin r \cap N
        BY <3>1, <3>5
      <4>2. \A y \in (r \cap N) \cup {p} : g[y] \in Int
        BY <3>5
      <4>3. SumFunctionOnSet(g, s \cap N) = g[p] + SumFunctionOnSet(g, r \cap N)
        <5> HIDE DEF r
        <5> QED
          BY <3>2, <4>1, <4>2, SumInsert
      <4>4. h[p] = f[p] + g[p] /\ g[p] \in Int
        BY <3>1, <3>5
      <4> HIDE DEF r
      <4> QED
        BY <3>1, <3>3, <3>4, <4>3, <4>4
    <3>6. CASE p \notin N
      <4>1. s \cap N = r \cap N
        BY <3>6
      <4>2. h[p] = f[p]
        BY <3>1, <3>4, <3>6
      <4>3. SumFunctionOnSet(g, s \cap N) = SumFunctionOnSet(g, r \cap N)
        BY <4>1
      <4> HIDE DEF r
      <4> QED
        BY <3>1, <3>3, <3>4, <4>2, <4>3
    <3> QED
      BY <3>5, <3>6
  <2> QED
    BY <2>2, <2>3
<1> HIDE DEF P
<1>2. S \in P
  BY <1>1, SubsetInduction
<1>3. S \cap N = N
  OBVIOUS
<1> QED
  BY <1>2, <1>3 DEF P

-----------------------------------------------------------------------------
(* The registry and the worker's memory *)

\* The orders in memory have been journalled, the trades to be filled have not.
KeysJournalled ==
  /\ \A t \in Trades : OrderId(t) \in DOMAIN memory => t \in DOMAIN journal
  /\ \A t \in DOMAIN decided : t \in Trades /\ t \notin DOMAIN journal

Watched(a) == \E key \in DOMAIN memory : memory[key].asset = a

IInv == KeysJournalled /\ EntriesWatched

-----------------------------------------------------------------------------

LEMMA WithDomain ==
  ASSUME NEW f, NEW k, NEW v
  PROVE  /\ DOMAIN With(f, k, v) = DOMAIN f \cup {k}
         /\ With(f, k, v)[k] = v
         /\ \A x \in DOMAIN f : x # k => With(f, k, v)[x] = f[x]
  BY DEF With

LEMMA WithoutDomain ==
  ASSUME NEW f, NEW k
  PROVE  /\ DOMAIN Without(f, k) = DOMAIN f \ {k}
         /\ \A x \in DOMAIN f \ {k} : Without(f, k)[x] = f[x]
  BY DEF Without, Restrict

LEMMA InitIInv == BookInit => IInv
  BY DEF BookInit, IInv, KeysJournalled, EntriesWatched, Empty

\* A trade that is decided is neither journalled nor waiting.
LEMMA DecideKeeps == IInv /\ Decide => IInv'
<1>1. SUFFICES ASSUME IInv, Decide PROVE IInv'
  OBVIOUS
<1>2. PICK t \in NextTrade : \E entry : decided' = With(decided, t, entry)
  BY <1>1 DEF Decide
<1>3. t \in Trades /\ t \notin DOMAIN journal
  BY <1>2 DEF NextTrade, Fresh
<1>4. DOMAIN decided' = DOMAIN decided \cup {t}
  BY <1>2, WithDomain
<1>5. UNCHANGED <<hash, memory, journal, lost>>
  BY <1>1 DEF Decide
<1>6. KeysJournalled'
  BY <1>1, <1>3, <1>4, <1>5 DEF IInv, KeysJournalled
<1>7. QED
  BY <1>1, <1>5, <1>6 DEF IInv, EntriesWatched

LEMMA FillKeeps == ASSUME NEW t \in DOMAIN decided, IInv, Fill(t) PROVE IInv'
<1> DEFINE key == OrderId(t)
<1>1. t \in Trades /\ t \notin DOMAIN journal /\ key \notin DOMAIN memory
  BY DEF IInv, KeysJournalled
<1>2. DOMAIN decided' = DOMAIN decided \ {t}
  BY WithoutDomain DEF Fill
<1>3. DOMAIN journal' = DOMAIN journal \cup {t}
  BY WithDomain DEF Fill
<1>4. /\ DOMAIN memory' = DOMAIN memory \cup {key}
      /\ memory'[key] = decided[t]
      /\ \A x \in DOMAIN memory : memory'[x] = memory[x]
  BY <1>1 DEF Fill, With
<1>5. KeysJournalled'
  <2>1. \A u \in Trades : OrderId(u) = key => u = t
    BY DEF OrderId
  <2>2. QED
    BY <1>2, <1>3, <1>4, <2>1 DEF IInv, KeysJournalled
<1>6. EntriesWatched'
  <2>1. SUFFICES ASSUME lost' = {}, NEW a \in DOMAIN hash' PROVE Watched(a)'
    BY DEF EntriesWatched, Watched
  <2>2. hash' = With(hash, decided[t].asset, decided[t].risk) /\ lost = {}
    BY <2>1 DEF Fill, Lose
  <2>3. CASE a = decided[t].asset
    BY <1>4, <2>3 DEF Watched
  <2>4. CASE a \in DOMAIN hash
    <3>1. PICK k \in DOMAIN memory : memory[k].asset = a
      BY <2>2, <2>4 DEF IInv, EntriesWatched
    <3>2. QED
      BY <1>4, <3>1 DEF Watched
  <2>5. DOMAIN hash' = DOMAIN hash \cup {decided[t].asset}
    BY <2>2 DEF With
  <2>6. QED
    BY <2>3, <2>4, <2>5
<1>7. QED
  BY <1>5, <1>6 DEF IInv

\* The entry of an asset leaves the hash with the trade that leaves the memory.
LEMMA SettleKeeps == ASSUME NEW key \in looked, IInv, Settle(key) PROVE IInv'
<1>1. decided' = decided /\ DOMAIN journal' = DOMAIN journal
  BY DEF Settle
<1>2. memory' = Without(memory, key)
  BY DEF Settle, Unregistered
<1>3. DOMAIN memory' = DOMAIN memory \ {key} /\ \A x \in DOMAIN memory \ {key} : memory'[x] = memory[x]
  BY <1>2, WithoutDomain
<1>4. KeysJournalled'
  BY <1>1, <1>3 DEF IInv, KeysJournalled
<1>5. EntriesWatched'
  <2>1. SUFFICES ASSUME lost' = {}, NEW a \in DOMAIN hash' PROVE Watched(a)'
    BY DEF EntriesWatched, Watched
  <2>2. CASE key \notin DOMAIN memory
    <3>1. hash' = hash /\ lost = {}
      BY <2>1, <2>2 DEF Settle, Unregistered
    <3>2. PICK k \in DOMAIN memory : memory[k].asset = a
      BY <2>1, <3>1 DEF IInv, EntriesWatched
    <3>3. QED
      BY <1>3, <2>2, <3>2 DEF Watched
  <2>3. CASE key \in DOMAIN memory
    <3>1. hash' = Without(hash, memory[key].asset) /\ lost = {}
      BY <2>1, <2>3 DEF Settle, Unregistered, Lose
    <3>2. a \in DOMAIN hash /\ a # memory[key].asset
      BY <2>1, <3>1 DEF Without, Restrict
    <3>3. PICK k \in DOMAIN memory : memory[k].asset = a
      BY <3>1, <3>2 DEF IInv, EntriesWatched
    <3>4. QED
      BY <1>3, <3>2, <3>3 DEF Watched
  <2>4. QED
    BY <2>2, <2>3
<1>6. QED
  BY <1>4, <1>5 DEF IInv

\* What is restored is known by its asset, and a restart is one of the things excepted.
LEMMA RestartKeeps == IInv /\ Restart => IInv'
<1>1. SUFFICES ASSUME IInv, Restart PROVE IInv'
  OBVIOUS
<1>2. \A t \in Trades : OrderId(t) \notin DOMAIN memory'
  BY <1>1 DEF Restart, Empty, OrderId, RestoredId
<1>3. decided' = decided /\ journal' = journal /\ lost' # {}
  BY <1>1 DEF Restart, Lose
<1>4. QED
  BY <1>1, <1>2, <1>3 DEF IInv, KeysJournalled, EntriesWatched

LEMMA NextKeeps == IInv /\ [BookNext]_bookVars => IInv'
<1>1. ASSUME IInv, UNCHANGED <<hash, memory, decided, journal, lost>> PROVE IInv'
  BY <1>1 DEF IInv, KeysJournalled, EntriesWatched
<1>2. CASE UNCHANGED bookVars
  BY <1>1, <1>2 DEF bookVars
<1>3. ASSUME NEW a \in Assets, CloseAtExchange(a) PROVE UNCHANGED <<hash, memory, decided, journal, lost>>
  BY <1>3 DEF CloseAtExchange
<1>4. ASSUME NEW key, Look(key) \/ CheckFails(key) PROVE UNCHANGED <<hash, memory, decided, journal, lost>>
  BY <1>4 DEF Look, CheckFails
<1>5. QED
  BY <1>1, <1>2, <1>3, <1>4, DecideKeeps, FillKeeps, SettleKeeps, RestartKeeps DEF BookNext

-----------------------------------------------------------------------------

\* While no write to Redis has failed and the worker has not restarted, every asset in the
\* registry has a trade in the worker's memory, through any order of fills and position checks:
\* check_position_closed can take every entry out again.
THEOREM RegistryIsWatched == BookSpec => []EntriesWatched
<1>1. IInv => EntriesWatched
  BY DEF IInv
<1>2. QED
  BY <1>1, InitIInv, NextKeeps, PTL DEF BookSpec-----------------------------------------------------------------------------
(* RiskManager and the registry: what it counts *)

Money == [asset: Assets, risk: Nat]

\* What a registry or a set of trades maps its keys to.
BookTypes ==
  /\ IsFiniteSet(DOMAIN hash) /\ \A a \in DOMAIN hash : hash[a] \in Nat
  /\ IsFiniteSet(DOMAIN held) /\ \A t \in DOMAIN held : held[t] \in Money
  /\ \A t \in DOMAIN decided : decided[t] \in Money
  /\ looked \subseteq DOMAIN memory

\* No trade risks more than its share.
Capped ==
  /\ \A t \in DOMAIN decided : decided[t].risk <= RISK * EQUITY
  /\ \A t \in DOMAIN held : held[t].risk <= RISK * EQUITY

\* Where no asset is shared and no write is lost.
Orderly == ~shared /\ "write" \notin lost

\* Trades in flight have assets of their own, neither held nor in the worker's memory.
InFlight ==
  /\ \A t, u \in DOMAIN decided : decided[t].asset = decided[u].asset => t = u
  /\ \A t \in DOMAIN decided :
       /\ \A u \in DOMAIN held : held[u].asset # decided[t].asset
       /\ \A key \in DOMAIN memory : memory[key].asset # decided[t].asset

\* The registry has the risk of every position, under an asset no other position has; what a
\* check is about to take out of it is not held.
Accounted ==
  /\ \A t \in DOMAIN held : held[t].asset \in DOMAIN hash /\ hash[held[t].asset] = held[t].risk
  /\ \A t, u \in DOMAIN held : held[t].asset = held[u].asset => t = u
  /\ \A key \in looked, t \in DOMAIN held : held[t].asset # memory[key].asset

RiskInv == BookTypes /\ Capped /\ (Orderly => InFlight /\ Accounted)

\* The size never risks more than its share, whatever the mode.
LEMMA SizeCapped ==
  ASSUME NEW stop \in Stops, stop > 0, NEW mode, Size(mode, stop) > 0
  PROVE  Size(mode, stop) * stop \in Nat /\ Size(mode, stop) * stop <= RISK * EQUITY
<1> DEFINE q == (EQUITY * RISK) \div stop
           p == (EQUITY * RISK) \div (stop + FEES)
           other == CASE mode = "fixed_usd" -> FIXED
                      [] mode = "risk_pct"  -> (EQUITY * RISK) \div (stop + FEES)
                      [] OTHER              -> (EQUITY * RISK) \div stop
<1>1. EQUITY \in Nat /\ RISK \in Nat /\ FEES \in Nat /\ FIXED \in Nat /\ stop \in Nat
  BY BookAssumption
<1>2. EQUITY * RISK \in Nat /\ EQUITY * RISK = RISK * EQUITY
  BY <1>1
<1>3. \A n \in Nat : n \div stop \in Int /\ (n \div stop) * stop <= n
  BY <1>1
<1>4. \A n \in Nat : n \div (stop + FEES) \in Int
  BY <1>1
<1>5. q \in Int /\ q * stop <= RISK * EQUITY /\ other \in Int
  BY <1>1, <1>2, <1>3, <1>4
<1>6. Size(mode, stop) = Min({q, other})
  BY DEF Size
<1> HIDE DEF q, other
<1>7. Min({q, other}) \in Int /\ Min({q, other}) <= q
  BY <1>5 DEF Min
<1>8. \A k \in Int : k <= q => k * stop <= q * stop
  BY <1>1, <1>5
<1>9. Size(mode, stop) \in Nat /\ Size(mode, stop) <= q
  BY <1>6, <1>7
<1>10. Size(mode, stop) * stop \in Nat /\ Size(mode, stop) * stop <= q * stop
  BY <1>1, <1>8, <1>9
<1>11. q * stop \in Int /\ RISK * EQUITY \in Int
  BY <1>1, <1>5
<1> QED
  BY <1>5, <1>10, <1>11

\* Registering a trade replaces what was under its asset.
LEMMA RegistryGrows ==
  ASSUME BookTypes, NEW a, NEW r \in Nat, hash' = With(hash, a, r)
  PROVE  /\ DOMAIN hash' = DOMAIN hash \cup {a}
         /\ hash'[a] = r /\ \A x \in DOMAIN hash : x # a => hash'[x] = hash[x]
         /\ IsFiniteSet(DOMAIN hash') /\ \A x \in DOMAIN hash' : hash'[x] \in Nat
<1>1. /\ DOMAIN hash' = DOMAIN hash \cup {a}
      /\ hash'[a] = r /\ \A x \in DOMAIN hash : x # a => hash'[x] = hash[x]
  BY DEF With
<1> QED
  BY <1>1, FS_AddElement DEF BookTypes

LEMMA InitRisk == BookInit => RiskInv
<1>1. SUFFICES ASSUME BookInit PROVE RiskInv
  OBVIOUS
<1>2. /\ DOMAIN hash = {} /\ DOMAIN held = {} /\ DOMAIN decided = {}
      /\ looked = {}
  BY <1>1 DEF BookInit, Empty
<1> QED
  BY <1>2, FS_EmptySet DEF RiskInv, BookTypes, Capped, InFlight, Accounted

\* A trade confirmed in an asset nobody holds, watches or waits for is in flight alone.
LEMMA DecideRisk == RiskInv /\ Decide => RiskInv'
<1>1. SUFFICES ASSUME RiskInv, Decide PROVE RiskInv'
  OBVIOUS
<1>2. PICK t \in NextTrade, asset \in Assets, stop \in Stops,
           mode \in {"fixed_usd", "risk_pct", "kelly"} :
        /\ stop > 0 /\ Size(mode, stop) > 0
        /\ decided' = With(decided, t, [asset |-> asset, risk |-> Size(mode, stop) * stop])
        /\ shared' = (shared \/ \E entry \in Entries : entry.asset = asset)
  BY <1>1 DEF Decide
<1> DEFINE risk == Size(mode, stop) * stop
<1>3. risk \in Nat /\ risk <= RISK * EQUITY
  BY <1>2, SizeCapped
<1> HIDE DEF risk
<1>4. decided' = With(decided, t, [asset |-> asset, risk |-> risk])
  BY <1>2 DEF risk
<1>5. /\ DOMAIN decided' = DOMAIN decided \cup {t}
      /\ decided'[t] = [asset |-> asset, risk |-> risk]
      /\ \A u \in DOMAIN decided : u # t => decided'[u] = decided[u]
  BY <1>4 DEF With
<1>6. UNCHANGED <<hash, memory, held, looked, lost>>
  BY <1>1 DEF Decide
<1>7. [asset |-> asset, risk |-> risk] \in Money
  BY <1>3 DEF Money
<1>8. BookTypes' /\ Capped'
  BY <1>1, <1>3, <1>5, <1>6, <1>7 DEF RiskInv, BookTypes, Capped
<1>9. ASSUME Orderly' PROVE InFlight' /\ Accounted'
  <2>1. Orderly
    BY <1>6, <1>9, <1>2 DEF Orderly
  <2>2. InFlight /\ Accounted
    BY <1>1, <2>1 DEF RiskInv
  <2>3. \A entry \in Entries : entry.asset # asset
    BY <1>2, <1>9 DEF Orderly
  <2>4. /\ \A u \in DOMAIN held : held[u].asset # asset
        /\ \A key \in DOMAIN memory : memory[key].asset # asset
        /\ \A u \in DOMAIN decided : decided[u].asset # asset
    BY <2>3 DEF Entries
  <2>5. decided'[t].asset = asset
    BY <1>5
  <2>6. \A u \in DOMAIN decided' : u = t \/ (u \in DOMAIN decided /\ decided'[u] = decided[u])
    BY <1>5
  <2>7. InFlight'
    BY <1>6, <2>2, <2>4, <2>5, <2>6 DEF InFlight
  <2>8. Accounted'
    BY <1>6, <2>2 DEF Accounted
  <2> QED
    BY <2>7, <2>8
<1> QED
  BY <1>8, <1>9 DEF RiskInv

LEMMA FillRisk == ASSUME NEW t \in DOMAIN decided, IInv, RiskInv, Fill(t) PROVE RiskInv'
<1> DEFINE a == decided[t].asset
           r == decided[t].risk
<1>1. /\ DOMAIN held' = DOMAIN held \cup {t}
      /\ held'[t] = decided[t]
      /\ \A u \in DOMAIN held : u # t => held'[u] = held[u]
  BY DEF Fill, With
<1>2. /\ DOMAIN decided' = DOMAIN decided \ {t}
      /\ \A u \in DOMAIN decided' : decided'[u] = decided[u]
  BY WithoutDomain DEF Fill
<1>3. /\ DOMAIN memory' = DOMAIN memory \cup {OrderId(t)}
      /\ \A key \in DOMAIN memory' : \/ memory'[key] = decided[t]
                                     \/ key \in DOMAIN memory /\ memory'[key] = memory[key]
  BY DEF Fill, With
<1>4. decided[t] \in Money /\ a \in Assets /\ r \in Nat
  BY DEF RiskInv, BookTypes, Money
<1>5. UNCHANGED <<looked, shared>>
  BY DEF Fill
<1>6. hash' = hash \/ hash' = With(hash, a, r)
  BY DEF Fill
<1>7. OrderId(t) \notin DOMAIN memory
  BY DEF IInv, KeysJournalled
<1>8. \A key \in DOMAIN memory : memory'[key] = memory[key]
  BY <1>7 DEF Fill, With
<1> HIDE DEF a, r
<1>9. IsFiniteSet(DOMAIN hash') /\ \A x \in DOMAIN hash' : hash'[x] \in Nat
  BY <1>4, <1>6, RegistryGrows DEF RiskInv, BookTypes
<1>10. BookTypes'
  <2>1. IsFiniteSet(DOMAIN held')
    BY <1>1, FS_AddElement DEF RiskInv, BookTypes
  <2> QED
    BY <1>1, <1>2, <1>3, <1>4, <1>5, <1>9, <2>1 DEF RiskInv, BookTypes
<1>11. Capped'
  BY <1>1, <1>2 DEF RiskInv, Capped
<1>12. ASSUME Orderly' PROVE InFlight' /\ Accounted'
  <2>1. Orderly /\ hash' = With(hash, a, r)
    BY <1>5, <1>12 DEF Orderly, Fill, Lose, a, r
  <2>2. InFlight /\ Accounted /\ BookTypes
    BY <2>1 DEF RiskInv
  <2>3. /\ \A u \in DOMAIN held : held[u].asset # a
        /\ \A key \in DOMAIN memory : memory[key].asset # a
        /\ \A u \in DOMAIN decided : u # t => decided[u].asset # a
    BY <2>2 DEF InFlight, a
  <2>4. held'[t].asset = a /\ held'[t].risk = r /\ decided[t].asset = a
    BY <1>1 DEF a, r
  <2>5. \A u \in DOMAIN held' : u = t \/ (u \in DOMAIN held /\ held'[u] = held[u])
    BY <1>1
  <2>6. InFlight'
    <3>1. \A u, v \in DOMAIN decided' : decided'[u].asset = decided'[v].asset => u = v
      BY <1>2, <2>2 DEF InFlight
    <3>2. \A u \in DOMAIN decided', v \in DOMAIN held' : held'[v].asset # decided'[u].asset
      BY <1>2, <2>2, <2>3, <2>4, <2>5 DEF InFlight
    <3>3. \A u \in DOMAIN decided', key \in DOMAIN memory' : memory'[key].asset # decided'[u].asset
      BY <1>2, <1>3, <2>2, <2>3, <2>4 DEF InFlight
    <3> QED
      BY <3>1, <3>2, <3>3 DEF InFlight
  <2>7. Accounted'
    <3>1. /\ DOMAIN hash' = DOMAIN hash \cup {a}
          /\ hash'[a] = r /\ \A x \in DOMAIN hash : x # a => hash'[x] = hash[x]
      BY <1>4, <2>1, <2>2, RegistryGrows
    <3>2. \A key \in looked : memory'[key] = memory[key] /\ memory[key].asset # a
      BY <1>8, <2>2, <2>3 DEF BookTypes
    <3> QED
      BY <1>5, <2>2, <2>3, <2>4, <2>5, <3>1, <3>2 DEF Accounted
  <2> QED
    BY <2>6, <2>7
<1> QED
  BY <1>10, <1>11, <1>12 DEF RiskInv

\* A position that is closed at the exchange is held no longer; the registry still has it.
LEMMA CloseRisk == ASSUME NEW a \in Assets, RiskInv, CloseAtExchange(a) PROVE RiskInv'
<1>1. /\ DOMAIN held' \subseteq DOMAIN held
      /\ \A t \in DOMAIN held' : held'[t] = held[t]
      /\ UNCHANGED <<hash, memory, decided, looked, shared, lost>>
  BY DEF CloseAtExchange, Restrict
<1>2. BookTypes'
  <2>1. IsFiniteSet(DOMAIN held')
    BY <1>1, FS_Subset DEF RiskInv, BookTypes
  <2> QED
    BY <1>1, <2>1 DEF RiskInv, BookTypes
<1>3. Capped'
  BY <1>1 DEF RiskInv, Capped
<1>4. Orderly' => InFlight' /\ Accounted'
  BY <1>1 DEF RiskInv, Orderly, InFlight, Accounted
<1> QED
  BY <1>2, <1>3, <1>4 DEF RiskInv

\* A check that finds no position, or fails, takes nothing out yet.
LEMMA LookRisk ==
  ASSUME RiskInv, (\E key \in DOMAIN memory : Look(key)) \/ (\E key \in looked : CheckFails(key))
  PROVE  RiskInv'
<1>1. UNCHANGED <<hash, memory, decided, held, shared, lost>>
  BY DEF Look, CheckFails
<1>2. \A key \in looked' : key \in looked \/
        (key \in DOMAIN memory /\ \A t \in DOMAIN held : held[t].asset # memory[key].asset)
  BY DEF Look, CheckFails
<1>3. BookTypes'
  BY <1>1, <1>2 DEF RiskInv, BookTypes
<1>4. Capped'
  BY <1>1 DEF RiskInv, Capped
<1>5. ASSUME Orderly' PROVE InFlight' /\ Accounted'
  <2>1. InFlight /\ Accounted
    BY <1>1, <1>5 DEF RiskInv, Orderly
  <2>2. InFlight'
    BY <1>1, <2>1 DEF InFlight
  <2>3. Accounted'
    BY <1>1, <1>2, <2>1 DEF Accounted
  <2> QED
    BY <2>2, <2>3
<1> QED
  BY <1>3, <1>4, <1>5 DEF RiskInv

\* What is taken out of the registry is not held: the rest is accounted for.
LEMMA SettleRisk == ASSUME NEW key \in looked, RiskInv, Settle(key) PROVE RiskInv'
<1> DEFINE a == memory[key].asset
<1>1. key \in DOMAIN memory /\ BookTypes
  BY DEF RiskInv, BookTypes
<1>2. /\ looked' = looked \ {key}
      /\ UNCHANGED <<decided, held, shared>>
      /\ DOMAIN memory' = DOMAIN memory \ {key}
      /\ \A k \in DOMAIN memory' : memory'[k] = memory[k]
  BY WithoutDomain DEF Settle, Unregistered
<1>3. \/ hash' = Without(hash, a) /\ UNCHANGED lost
      \/ hash' = hash /\ Lose("write")
  <2>1. Unregistered(key)
    BY DEF Settle
  <2> QED
    BY <1>1, <2>1 DEF Unregistered
<1> HIDE DEF a
<1>4. hash' = hash \/
        /\ DOMAIN hash' = DOMAIN hash \ {a}
        /\ \A x \in DOMAIN hash \ {a} : hash'[x] = hash[x]
        /\ IsFiniteSet(DOMAIN hash')
  <2>1. IsFiniteSet(DOMAIN hash \ {a})
    BY <1>1, FS_Subset DEF BookTypes
  <2>2. /\ DOMAIN Without(hash, a) = DOMAIN hash \ {a}
        /\ \A x \in DOMAIN hash \ {a} : Without(hash, a)[x] = hash[x]
    BY WithoutDomain
  <2> QED
    BY <1>3, <2>1, <2>2
<1>5. BookTypes'
  BY <1>1, <1>2, <1>4 DEF BookTypes
<1>6. Capped'
  BY <1>2 DEF RiskInv, Capped
<1>7. ASSUME Orderly' PROVE InFlight' /\ Accounted'
  <2>1. Orderly /\ hash' = Without(hash, a)
    BY <1>2, <1>3, <1>7 DEF Orderly, Lose
  <2>2. InFlight /\ Accounted
    BY <2>1 DEF RiskInv
  <2>3. InFlight'
    BY <1>2, <2>2 DEF InFlight
  <2>4. Accounted'
    <3>1. /\ DOMAIN hash' = DOMAIN hash \ {a}
          /\ \A x \in DOMAIN hash \ {a} : hash'[x] = hash[x]
      BY <2>1, WithoutDomain
    <3>2. \A t \in DOMAIN held : held[t].asset # a
      BY <2>2 DEF Accounted, a
    <3> QED
      BY <1>1, <1>2, <2>2, <3>1, <3>2 DEF Accounted, BookTypes
  <2> QED
    BY <2>3, <2>4
<1> QED
  BY <1>5, <1>6, <1>7 DEF RiskInv

\* A restart looks at nothing, and what it restores is not the asset in flight.
LEMMA RestartRisk == RiskInv /\ Restart => RiskInv'
<1>1. SUFFICES ASSUME RiskInv, Restart PROVE RiskInv'
  OBVIOUS
<1>2. /\ looked' = {} /\ lost' = lost \cup {"restart"}
      /\ UNCHANGED <<hash, decided, held>>
  BY <1>1 DEF Restart, Lose
<1>3. BookTypes' /\ Capped'
  BY <1>1, <1>2 DEF RiskInv, BookTypes, Capped
<1>4. ASSUME Orderly' PROVE InFlight' /\ Accounted'
  <2>1. Orderly
    <3>1. ~shared' /\ "write" \notin lost
      BY <1>2, <1>4 DEF Orderly
    <3>2. ~shared
      BY <1>1, <3>1 DEF Restart
    <3> QED
      BY <3>1, <3>2 DEF Orderly
  <2>2. \A t \in DOMAIN decided : \A key \in DOMAIN memory' : memory'[key].asset # decided[t].asset
    <3>1. CASE memory' = Empty
      BY <3>1 DEF Empty
    <3>2. CASE /\ memory' = [key \in {RestoredId(a) : a \in DOMAIN hash} |->
                               [asset |-> key[2], risk |-> hash[key[2]]]]
               /\ shared' = (shared \/ \E t \in DOMAIN decided : decided[t].asset \in DOMAIN hash)
      <4>1. \A key \in DOMAIN memory' : memory'[key].asset \in DOMAIN hash
        BY <3>2 DEF RestoredId
      <4>2. \A t \in DOMAIN decided : decided[t].asset \notin DOMAIN hash
        BY <1>4, <3>2 DEF Orderly
      <4> QED
        BY <4>1, <4>2
    <3> QED
      BY <1>1, <3>1, <3>2 DEF Restart
  <2>3. InFlight'
    BY <1>2, <2>1, <2>2, <1>1 DEF RiskInv, InFlight
  <2>4. Accounted'
    BY <1>1, <1>2, <2>1 DEF RiskInv, Accounted
  <2> QED
    BY <2>3, <2>4
<1> QED
  BY <1>3, <1>4 DEF RiskInv

LEMMA NextRisk == IInv /\ RiskInv /\ [BookNext]_bookVars => RiskInv'
<1>1. ASSUME RiskInv, UNCHANGED bookVars PROVE RiskInv'
  BY <1>1 DEF bookVars, RiskInv, BookTypes, Capped, Orderly, InFlight, Accounted
<1> QED
  BY <1>1, DecideRisk, FillRisk, CloseRisk, LookRisk, SettleRisk, RestartRisk DEF BookNext

\* The positions of a set of assets risk no more than the registry has for these assets.
LEMMA HeldInRegistry ==
  ASSUME BookTypes, Accounted, NEW S
  PROVE  Risks(In(S)) <= SumFunctionOnSet(hash, S \cap DOMAIN hash)
<1> DEFINE f == [t \in In(S) |-> held[t].risk]
           m == [t \in In(S) |-> held[t].asset]
           T == S \cap DOMAIN hash
<1>1. Risks(In(S)) = SumFunctionOnSet(f, In(S))
  BY DEF Risks, SumFunction
<1>2. IsFiniteSet(In(S)) /\ IsFiniteSet(T)
  BY FS_Subset DEF In, BookTypes
<1>3. \A t \in In(S) : f[t] \in Int /\ m[t] \in T /\ f[t] <= hash[m[t]]
  BY DEF In, BookTypes, Accounted, Money
<1>4. \A t, u \in In(S) : m[t] = m[u] => t = u
  BY DEF In, Accounted
<1>5. \A a \in T : hash[a] \in Nat
  BY DEF BookTypes
<1> HIDE DEF f, m, T
<1>6. SumFunctionOnSet(f, In(S)) <= SumFunctionOnSet(hash, T)
  BY <1>2, <1>3, <1>4, <1>5, SumInject
<1> QED
  BY <1>1, <1>6 DEF T

\* No trade risks more than its share in any sizing mode; and for any set of assets the
\* registry counts what their stops can lose, through every order of decisions, fills, closes,
\* position checks and restarts in which an asset is taken by one trade at a time and no write
\* is lost (compute_position_size, register_open_position, unregister_position).
THEOREM RiskIsCounted == BookSpec => []RiskCounted
<1>1. BookInit => IInv /\ RiskInv
  BY InitIInv, InitRisk
<1>2. IInv /\ RiskInv /\ [BookNext]_bookVars => (IInv /\ RiskInv)'
  BY NextKeeps, NextRisk
<1>3. RiskInv => RiskCounted
  BY HeldInRegistry DEF RiskInv, Capped, RiskCounted, Orderly
<1> QED
  BY <1>1, <1>2, <1>3, PTL DEF BookSpec

-----------------------------------------------------------------------------
(* DeltaTape *)

Stamped == [ts: Nat \ {0}, v: {1, -1}]
Failures == {"blind", "late", "stamp", "add", "stop", "expired", "quiet", "reset"}

\* Times never go back on the tape; what is fetched is a stretch of it, and only a service
\* that runs has fetched anything.
TapeTypes ==
  /\ tape \in Seq(Stamped)
  /\ \A i, j \in DOMAIN tape : i <= j => tape[i].ts <= tape[j].ts
  /\ counted \in [DOMAIN tape -> Nat]
  /\ lastTs \in Nat /\ storedTs \in Nat
  /\ fetched = {} \/ \E i, j \in DOMAIN tape : i <= j /\ fetched = i..j
  /\ ~polling => fetched = {}
  /\ mishaps \in Seq(Failures)

LedgerTypes == delta \in Int /\ dropped \in Int /\ history \in Seq(Int)

\* No timestamp is ahead of the tape.
Reached(t) == t = 0 \/ \E i \in DOMAIN tape : t <= tape[i].ts

\* The stored timestamp is the service's own and separates what was counted, once, from
\* what was not.
StampSeparates ==
  Mishaps \cap {"blind", "stamp", "expired"} = {} =>
    /\ polling => lastTs = storedTs
    /\ \A i \in DOMAIN tape : counted[i] <= 1 /\ (counted[i] > 0 => tape[i].ts <= storedTs)

\* Trades up to t were counted, but for those that share a millisecond; and a new trade
\* that is older than one fetched is fetched itself.
Through(t) == \A i \in DOMAIN tape : tape[i].ts <= t /\ Unique(i) => counted[i] > 0
NonePassed ==
  Mishaps \cap {"late", "add"} = {} =>
    /\ Through(lastTs) /\ Through(storedTs)
    /\ \A i \in New(DOMAIN tape), j \in fetched : i <= j => i \in fetched

TapeInv ==
  /\ TapeTypes
  /\ Reached(lastTs) /\ Reached(storedTs)
  /\ StampSeparates /\ NonePassed
LedgerInv == LedgerTypes /\ HistoryAccounts
DeltaInv == TapeInv /\ LedgerInv

LEMMA MishapAdds ==
  ASSUME NEW kind \in Failures, mishaps \in Seq(Failures), Mishap(kind)
  PROVE  mishaps' \in Seq(Failures) /\ Mishaps' = Mishaps \cup {kind}
<1>1. mishaps' = Append(mishaps, kind)
  BY DEF Mishap
<1>2. /\ mishaps' \in Seq(Failures) /\ Len(mishaps') = Len(mishaps) + 1
      /\ \A k \in DOMAIN mishaps : mishaps'[k] = mishaps[k]
      /\ mishaps'[Len(mishaps) + 1] = kind
  BY <1>1
<1> QED
  BY <1>2 DEF Mishaps

\* What the tape's part of the invariant reads.
LEMMA TapeUnchanged ==
  ASSUME TapeInv, UNCHANGED <<tape, polling, lastTs, storedTs, fetched, counted>>,
         mishaps' \in Seq(Failures), Mishaps \subseteq Mishaps'
  PROVE  TapeInv'
<1>1. \A i : Unique(i)' <=> Unique(i)
  BY DEF Unique
<1>2. \A t : /\ Reached(t)' <=> Reached(t)
             /\ Through(t)' <=> Through(t)
  BY <1>1 DEF Reached, Through
<1>3. New(DOMAIN tape)' = New(DOMAIN tape)
  BY DEF New
<1>4. TapeTypes'
  BY DEF TapeInv, TapeTypes
<1>5. Reached(lastTs)' /\ Reached(storedTs)'
  BY <1>2 DEF TapeInv, Reached
<1>6. StampSeparates'
  BY DEF TapeInv, StampSeparates
<1>7. NonePassed'
  <2>1. Through(lastTs)' = Through(lastTs) /\ Through(storedTs)' = Through(storedTs)
    BY <1>1 DEF Through
  <2> QED
    BY <1>3, <2>1 DEF TapeInv, NonePassed
<1> QED
  BY <1>4, <1>5, <1>6, <1>7 DEF TapeInv

LEMMA Stamps ==
  ASSUME NEW list \in Seq(Stamped), NEW i \in DOMAIN list
  PROVE  list[i].ts \in Nat \ {0} /\ list[i].v \in {1, -1}
<1>1. list[i] \in Stamped
  OBVIOUS
<1> QED
  BY <1>1 DEF Stamped

\* A trade on the tape.
LEMMA TapeGrows ==
  ASSUME TapeTypes, Trade
  PROVE  LET n == Len(tape) + 1 IN
         /\ tape' \in Seq(Stamped) /\ DOMAIN tape = 1..Len(tape) /\ DOMAIN tape' = 1..n
         /\ counted' \in [1..n -> Nat] /\ counted'[n] = 0
         /\ \A i \in DOMAIN tape : /\ tape'[i] = tape[i] /\ counted'[i] = counted[i]
                                   /\ tape[i].ts <= tape'[n].ts
<1> DEFINE n == Len(tape) + 1
<1>1. tape \in Seq(Stamped) /\ DOMAIN tape = 1..Len(tape) /\ Len(tape) \in Nat
  BY DEF TapeTypes
<1>2. PICK v \in {1, -1}, gap \in IF tape = <<>> THEN {1} ELSE {0, 1} :
        tape' = Append(tape, [ts |-> (IF tape = <<>> THEN 0 ELSE Last(tape).ts) + gap, v |-> v])
  BY DEF Trade
<1> DEFINE next == [ts |-> (IF tape = <<>> THEN 0 ELSE Last(tape).ts) + gap, v |-> v]
<1>3. next \in Stamped /\ \A i \in DOMAIN tape : tape[i].ts <= next.ts
  <2>1. CASE tape = <<>>
    BY <1>2, <2>1 DEF Stamped
  <2>2. CASE tape # <<>>
    <3>1. Len(tape) \in DOMAIN tape /\ Last(tape) = tape[Len(tape)]
      BY <1>1, <2>2 DEF Last
    <3>2. Last(tape) \in Stamped
      BY <1>1, <3>1
    <3>3. Last(tape).ts \in Nat \ {0} /\ gap \in {0, 1} /\ v \in {1, -1}
      BY <1>2, <2>2, <3>2 DEF Stamped
    <3>4. next = [ts |-> Last(tape).ts + gap, v |-> v]
      BY <2>2
    <3>5. next \in Stamped /\ next.ts >= Last(tape).ts
      BY <3>3, <3>4 DEF Stamped
    <3>6. \A i \in DOMAIN tape : tape[i].ts <= Last(tape).ts /\ tape[i].ts \in Nat
      <4>1. \A i \in DOMAIN tape : i <= Len(tape) => tape[i].ts <= tape[Len(tape)].ts
        BY <3>1 DEF TapeTypes
      <4>2. \A i \in DOMAIN tape : i <= Len(tape)
        BY <1>1
      <4> QED
        BY <1>1, <3>1, <4>1, <4>2, Stamps
    <3> HIDE DEF next
    <3>7. next.ts \in Nat
      BY <3>5 DEF Stamped
    <3> QED
      BY <3>3, <3>5, <3>6, <3>7
  <2> QED
    BY <2>1, <2>2
<1> HIDE DEF next
<1>4. tape' = Append(tape, next)
  BY <1>2 DEF next
<1>5. /\ tape' \in Seq(Stamped) /\ DOMAIN tape' = 1..n /\ tape'[n] = next
      /\ \A i \in DOMAIN tape : tape'[i] = tape[i]
  BY <1>1, <1>3, <1>4
<1>6. counted \in Seq(Nat) /\ Len(counted) = Len(tape)
  <2>1. counted \in [1..Len(tape) -> Nat]
    BY <1>1 DEF TapeTypes
  <2> QED
    BY <1>1, <2>1
<1>7. counted' = Append(counted, 0)
  BY DEF Trade
<1>8. /\ counted' \in [1..n -> Nat] /\ counted'[n] = 0
      /\ \A i \in DOMAIN tape : counted'[i] = counted[i]
  <2>1. /\ counted' \in Seq(Nat) /\ Len(counted') = Len(counted) + 1
        /\ counted'[Len(counted) + 1] = 0
        /\ \A i \in 1..Len(counted) : counted'[i] = counted[i]
    BY <1>6, <1>7
  <2>2. DOMAIN counted' = 1..Len(counted') /\ counted' \in [1..Len(counted') -> Nat]
    BY <2>1
  <2> QED
    BY <1>1, <1>6, <2>1, <2>2
<1> QED
  BY <1>1, <1>3, <1>5, <1>8

LEMMA TradeTape == TapeInv /\ Trade => TapeInv'
<1> SUFFICES ASSUME TapeInv, Trade PROVE TapeInv'
  OBVIOUS
<1> DEFINE n == Len(tape) + 1
<1>1. TapeTypes
  BY DEF TapeInv
<1>2. /\ tape' \in Seq(Stamped) /\ DOMAIN tape = 1..Len(tape) /\ DOMAIN tape' = 1..n
      /\ counted' \in [1..n -> Nat] /\ counted'[n] = 0
      /\ \A i \in DOMAIN tape : /\ tape'[i] = tape[i] /\ counted'[i] = counted[i]
                                /\ tape[i].ts <= tape'[n].ts
  BY <1>1, TapeGrows
<1>3. Len(tape) \in Nat /\ n \notin DOMAIN tape /\ DOMAIN tape' = DOMAIN tape \cup {n}
  BY <1>1, <1>2 DEF TapeTypes
<1> HIDE DEF n
<1>4. tape'[n].ts \in Nat \ {0} /\ \A i \in DOMAIN tape : tape[i].ts \in Nat \ {0}
  <2>1. n \in DOMAIN tape' /\ tape \in Seq(Stamped)
    BY <1>1, <1>3 DEF TapeTypes
  <2> QED
    BY <1>2, <2>1, Stamps
<1>5. /\ UNCHANGED <<polling, lastTs, storedTs, fetched, mishaps>> /\ Mishaps' = Mishaps
      /\ lastTs \in Nat /\ storedTs \in Nat
  BY <1>1 DEF Trade, Mishaps, TapeTypes
<1>6. TapeTypes'
  <2>1. \A i, j \in DOMAIN tape' : i <= j => tape'[i].ts <= tape'[j].ts
    <3> SUFFICES ASSUME NEW i \in DOMAIN tape', NEW j \in DOMAIN tape', i <= j
                 PROVE  tape'[i].ts <= tape'[j].ts
      OBVIOUS
    <3>1. CASE j = n
      BY <1>2, <1>3, <1>4, <3>1
    <3>2. CASE j # n
      <4>1. i \in DOMAIN tape /\ j \in DOMAIN tape
        BY <1>2, <1>3, <3>2 DEF n
      <4> QED
        BY <1>1, <1>2, <4>1 DEF TapeTypes
    <3> QED
      BY <3>1, <3>2
  <2>2. counted' \in [DOMAIN tape' -> Nat]
    BY <1>2
  <2>3. fetched' = {} \/ \E i, j \in DOMAIN tape' : i <= j /\ fetched' = i..j
    BY <1>1, <1>3, <1>5 DEF TapeTypes
  <2>4. (~polling => fetched = {})' /\ mishaps' \in Seq(Failures)
    BY <1>1, <1>5 DEF TapeTypes
  <2>5. tape' \in Seq(Stamped) /\ lastTs' \in Nat /\ storedTs' \in Nat
    BY <1>2, <1>5
  <2> QED
    BY <2>1, <2>2, <2>3, <2>4, <2>5 DEF TapeTypes
<1>7. Reached(lastTs)' /\ Reached(storedTs)'
  BY <1>2, <1>3, <1>5 DEF TapeInv, Reached
<1>8. StampSeparates'
  <2> SUFFICES ASSUME Mishaps' \cap {"blind", "stamp", "expired"} = {}
               PROVE  /\ (polling => lastTs = storedTs)'
                      /\ \A i \in DOMAIN tape' : counted'[i] <= 1
                                                 /\ (counted'[i] > 0 => tape'[i].ts <= storedTs')
    BY DEF StampSeparates
  <2>1. /\ polling => lastTs = storedTs
        /\ \A i \in DOMAIN tape : counted[i] <= 1 /\ (counted[i] > 0 => tape[i].ts <= storedTs)
    BY <1>5 DEF TapeInv, StampSeparates
  <2>2. ASSUME NEW i \in DOMAIN tape'
        PROVE  counted'[i] <= 1 /\ (counted'[i] > 0 => tape'[i].ts <= storedTs')
    <3>1. CASE i = n
      BY <1>2, <3>1
    <3>2. CASE i \in DOMAIN tape
      BY <1>2, <1>5, <2>1, <3>2
    <3> QED
      BY <1>3, <3>1, <3>2
  <2> QED
    BY <1>5, <2>1, <2>2
<1>9. NonePassed'
  <2> SUFFICES ASSUME Mishaps' \cap {"late", "add"} = {}
               PROVE  /\ Through(lastTs)' /\ Through(storedTs)'
                      /\ \A i \in New(DOMAIN tape)', j \in fetched' : i <= j => i \in fetched'
    BY DEF NonePassed
  <2>1. /\ Through(lastTs) /\ Through(storedTs)
        /\ \A i \in New(DOMAIN tape), j \in fetched : i <= j => i \in fetched
    BY <1>5 DEF TapeInv, NonePassed
  <2>2. ASSUME NEW t \in Nat, Reached(t), Through(t),
               NEW i \in DOMAIN tape', tape'[i].ts <= t, Unique(i)'
        PROVE  counted'[i] > 0
    <3>1. CASE i = n
      <4>1. PICK j \in DOMAIN tape : t <= tape[j].ts
        BY <1>4, <2>2, <3>1 DEF Reached
      <4>2. tape'[j].ts = tape'[n].ts /\ j \in DOMAIN tape' /\ j # n
        BY <1>2, <1>3, <1>4, <2>2, <3>1, <4>1
      <4> QED
        BY <2>2, <3>1, <4>2 DEF Unique
    <3>2. CASE i \in DOMAIN tape
      <4>1. Unique(i)
        BY <1>2, <1>3, <2>2, <3>2 DEF Unique
      <4>2. counted[i] > 0
        BY <1>2, <2>2, <3>2, <4>1 DEF Through
      <4> QED
        BY <1>2, <3>2, <4>2
    <3> QED
      BY <1>3, <3>1, <3>2
  <2>3. Through(lastTs)' /\ Through(storedTs)'
    BY <1>5, <2>1, <2>2 DEF TapeInv, Through
  <2>4. \A i \in New(DOMAIN tape)', j \in fetched' : i <= j => i \in fetched'
    <3> SUFFICES ASSUME NEW i \in New(DOMAIN tape)', NEW j \in fetched', i <= j
                 PROVE  i \in fetched'
      OBVIOUS
    <3>1. j \in fetched /\ j \in DOMAIN tape /\ i \in DOMAIN tape' /\ i <= j
      BY <1>1, <1>2, <1>5 DEF New, TapeTypes
    <3>2. i \in DOMAIN tape /\ tape'[i].ts > lastTs
      BY <1>2, <1>5, <3>1 DEF New, n
    <3>3. i \in New(DOMAIN tape)
      BY <1>2, <3>2 DEF New
    <3> QED
      BY <1>5, <2>1, <3>1, <3>3
  <2> QED
    BY <2>3, <2>4
<1> QED
  BY <1>6, <1>7, <1>8, <1>9 DEF TapeInv

LEMMA StartTape == TapeInv /\ (Start \/ StartBlind) => TapeInv'
<1> SUFFICES ASSUME TapeInv, Start \/ StartBlind PROVE TapeInv'
  OBVIOUS
<1>1. /\ TapeTypes /\ ~polling /\ fetched = {} /\ fetched' = {} /\ lastTs' \in {0, storedTs}
      /\ UNCHANGED <<tape, storedTs, counted>>
  BY DEF TapeInv, TapeTypes, Start, StartBlind
<1>2. /\ mishaps' \in Seq(Failures) /\ Mishaps \subseteq Mishaps'
      /\ lastTs' # storedTs => "blind" \in Mishaps'
  <2>1. CASE Start
    BY <1>1, <2>1 DEF Start, Mishaps, TapeTypes
  <2>2. CASE StartBlind
    <3>1. "blind" \in Failures /\ Mishap("blind")
      BY <2>2 DEF StartBlind, Failures
    <3> QED
      BY <1>1, <3>1, MishapAdds DEF TapeTypes
  <2> QED
    BY <2>1, <2>2
<1>3. \A i : Unique(i)' <=> Unique(i)
  BY <1>1 DEF Unique
<1>4. TapeTypes'
  <2>1. lastTs' \in Nat
    BY <1>1 DEF TapeTypes
  <2> QED
    BY <1>1, <1>2, <2>1 DEF TapeTypes
<1>5. Reached(lastTs)' /\ Reached(storedTs)'
  BY <1>1 DEF TapeInv, Reached
<1>6. StampSeparates'
  BY <1>1, <1>2 DEF TapeInv, StampSeparates
<1>7. NonePassed'
  <2> SUFFICES ASSUME Mishaps' \cap {"late", "add"} = {}
               PROVE  Through(lastTs)' /\ Through(storedTs)'
    BY <1>1 DEF NonePassed
  <2>1. Through(storedTs)
    BY <1>2 DEF TapeInv, NonePassed
  <2>2. \A i \in DOMAIN tape : tape[i].ts > 0
    BY <1>1, Stamps DEF TapeTypes
  <2>3. \A i \in DOMAIN tape : tape[i].ts <= lastTs' => tape[i].ts <= storedTs
    <3>1. CASE lastTs' = storedTs
      BY <3>1
    <3>2. CASE lastTs' = 0
      BY <1>1, <2>2, <3>2, Stamps DEF TapeTypes
    <3> QED
      BY <1>1, <3>1, <3>2
  <2> QED
    BY <1>1, <1>3, <2>1, <2>3 DEF Through
<1> QED
  BY <1>4, <1>5, <1>6, <1>7 DEF TapeInv

LEMMA FetchTape == TapeInv /\ Fetch => TapeInv'
<1> SUFFICES ASSUME TapeInv, Fetch PROVE TapeInv'
  OBVIOUS
<1>1. /\ TapeTypes /\ polling /\ polling' /\ fetched' # {}
      /\ fetched' = (1 + Max({0, Len(tape) - TRADE_LIMIT}))..Len(tape)
      /\ UNCHANGED <<tape, lastTs, storedTs, counted>>
  BY DEF TapeInv, Fetch
<1>2. /\ mishaps' \in Seq(Failures) /\ Mishaps \subseteq Mishaps'
      /\ "late" \notin Mishaps' => New(1..Len(tape)) \subseteq fetched'
  <2>1. CASE New(1..Len(tape)) \subseteq fetched'
    BY <1>1, <2>1 DEF Fetch, Mishaps, TapeTypes
  <2>2. CASE ~ (New(1..Len(tape)) \subseteq fetched')
    <3>1. "late" \in Failures /\ Mishap("late")
      BY <2>2 DEF Fetch, Failures
    <3> QED
      BY <1>1, <3>1, MishapAdds DEF TapeTypes
  <2> QED
    BY <2>1, <2>2
<1>3. Len(tape) \in Nat /\ DOMAIN tape = 1..Len(tape)
  BY <1>1 DEF TapeTypes
<1>4. \E i, j \in DOMAIN tape : i <= j /\ fetched' = i..j
  <2> DEFINE m == Max({0, Len(tape) - TRADE_LIMIT})
  <2>1. TRADE_LIMIT \in Nat
    BY TapeAssumption
  <2>2. m \in Int /\ m >= 0
    <3> DEFINE x == Len(tape) - TRADE_LIMIT
               y == IF x <= 0 THEN 0 ELSE x
    <3>1. x \in Int
      BY <1>3, <2>1
    <3>2. y \in {0, x} /\ \A z \in {0, x} : y >= z
      BY <3>1
    <3>3. m \in {0, x} /\ \A z \in {0, x} : m >= z
      BY <3>2 DEF Max
    <3> QED
      BY <3>1, <3>3
  <2> HIDE DEF m
  <2>3. fetched' = (1 + m)..Len(tape)
    BY <1>1 DEF m
  <2>4. 1 + m <= Len(tape)
    <3>1. PICK k : k \in (1 + m)..Len(tape)
      BY <1>1, <2>3
    <3> QED
      BY <1>3, <2>2, <3>1
  <2>5. 1 + m \in DOMAIN tape /\ Len(tape) \in DOMAIN tape
    BY <1>3, <2>2, <2>4
  <2> QED
    BY <2>3, <2>4, <2>5
<1>5. \A i : Unique(i)' <=> Unique(i)
  BY <1>1 DEF Unique
<1>6. TapeTypes'
  BY <1>1, <1>2, <1>4 DEF TapeTypes
<1>7. Reached(lastTs)' /\ Reached(storedTs)'
  BY <1>1 DEF TapeInv, Reached
<1>8. StampSeparates'
  BY <1>1, <1>2 DEF TapeInv, StampSeparates
<1>9. NonePassed'
  <2> SUFFICES ASSUME Mishaps' \cap {"late", "add"} = {}
               PROVE  /\ Through(lastTs)' /\ Through(storedTs)'
                      /\ \A i \in New(DOMAIN tape)' : i \in fetched'
    BY DEF NonePassed
  <2>1. Through(lastTs) /\ Through(storedTs)
    BY <1>2 DEF TapeInv, NonePassed
  <2>2. Through(lastTs)' /\ Through(storedTs)'
    BY <1>1, <1>5, <2>1 DEF Through
  <2>3. New(DOMAIN tape)' = New(1..Len(tape))
    BY <1>1, <1>3 DEF New
  <2> QED
    BY <1>2, <2>2, <2>3
<1> QED
  BY <1>6, <1>7, <1>8, <1>9 DEF TapeInv

\* StopPolling, and StampExpires.
LEMMA LostTape == TapeInv /\ (StopPolling \/ StampExpires) => TapeInv'
<1> SUFFICES ASSUME TapeInv, StopPolling \/ StampExpires PROVE TapeInv'
  OBVIOUS
<1>1. /\ TapeTypes /\ UNCHANGED <<tape, counted, lastTs>>
      /\ fetched' \in {{}, fetched} /\ storedTs' \in {0, storedTs}
      /\ polling' => polling /\ fetched' = fetched
      /\ ~polling' => fetched' = {}
  BY DEF TapeInv, TapeTypes, StopPolling, StampExpires
<1>2. /\ mishaps' \in Seq(Failures) /\ Mishaps \subseteq Mishaps'
      /\ storedTs' # storedTs => "expired" \in Mishaps'
  <2>1. CASE StopPolling
    <3>1. "stop" \in Failures /\ Mishap("stop") /\ storedTs' = storedTs
      BY <2>1 DEF StopPolling, Failures
    <3> QED
      BY <1>1, <3>1, MishapAdds DEF TapeTypes
  <2>2. CASE StampExpires
    <3>1. "expired" \in Failures /\ Mishap("expired")
      BY <2>2 DEF StampExpires, Failures
    <3> QED
      BY <1>1, <3>1, MishapAdds DEF TapeTypes
  <2> QED
    BY <2>1, <2>2
<1>3. \A i : Unique(i)' <=> Unique(i)
  BY <1>1 DEF Unique
<1>4. TapeTypes'
  <2>1. storedTs' \in Nat
    BY <1>1 DEF TapeTypes
  <2> QED
    BY <1>1, <1>2, <2>1 DEF TapeTypes
<1>5. Reached(lastTs)' /\ Reached(storedTs)'
  BY <1>1 DEF TapeInv, Reached
<1>6. StampSeparates'
  BY <1>1, <1>2 DEF TapeInv, StampSeparates
<1>7. NonePassed'
  <2> SUFFICES ASSUME Mishaps' \cap {"late", "add"} = {}
               PROVE  /\ Through(lastTs)' /\ Through(storedTs)'
                      /\ \A i \in New(DOMAIN tape)', j \in fetched' : i <= j => i \in fetched'
    BY DEF NonePassed
  <2>1. /\ Through(lastTs) /\ Through(storedTs)
        /\ \A i \in New(DOMAIN tape), j \in fetched : i <= j => i \in fetched
    BY <1>2 DEF TapeInv, NonePassed
  <2>2. \A i \in DOMAIN tape : tape[i].ts <= storedTs' => tape[i].ts <= storedTs
    <3>1. \A i \in DOMAIN tape : tape[i].ts > 0
      BY <1>1, Stamps DEF TapeTypes
    <3>2. CASE storedTs' = storedTs
      BY <3>2
    <3>3. CASE storedTs' = 0
      BY <1>1, <3>1, <3>3, Stamps DEF TapeTypes
    <3> QED
      BY <1>1, <3>2, <3>3
  <2>3. Through(lastTs)' /\ Through(storedTs)'
    BY <1>1, <1>3, <2>1, <2>2 DEF Through
  <2>4. New(DOMAIN tape)' = New(DOMAIN tape)
    BY <1>1 DEF New
  <2> QED
    BY <1>1, <2>1, <2>3, <2>4
<1> QED
  BY <1>4, <1>5, <1>6, <1>7 DEF TapeInv

\* The newest of the new trades gives the timestamp.
LEMMA NewestStamp ==
  ASSUME TapeTypes, New(fetched) # {}, lastTs' = Max({tape[i].ts : i \in New(fetched)})
  PROVE  \E m \in New(fetched) : /\ lastTs' = tape[m].ts
                                 /\ \A i \in fetched : tape[i].ts <= tape[m].ts
<1>1. PICK i, j \in DOMAIN tape : i <= j /\ fetched = i..j
  BY DEF TapeTypes, New
<1>2. PICK k \in New(fetched) : TRUE
  OBVIOUS
<1>3. tape \in Seq(Stamped) /\ DOMAIN tape = 1..Len(tape) /\ Len(tape) \in Nat /\ lastTs \in Nat
  BY DEF TapeTypes
<1>4. i \in Nat /\ j \in Nat /\ j \in fetched
  BY <1>1, <1>3
<1>5. \A l \in fetched : l \in DOMAIN tape /\ l <= j
  BY <1>1, <1>3, <1>4
<1>6. \A l \in fetched : tape[l].ts <= tape[j].ts /\ tape[l].ts \in Nat
  BY <1>1, <1>3, <1>5, Stamps DEF TapeTypes
<1>7. j \in New(fetched)
  <2>1. k \in fetched /\ tape[k].ts > lastTs
    BY <1>2 DEF New
  <2> QED
    BY <1>3, <1>4, <1>6, <2>1 DEF New
<1> DEFINE S == {tape[l].ts : l \in New(fetched)}
<1>8. tape[j].ts \in S /\ \A y \in S : tape[j].ts >= y /\ y \in Nat
  BY <1>6, <1>7 DEF New
<1>9. Max(S) \in S /\ \A y \in S : Max(S) >= y
  <2> HIDE DEF S
  <2>1. \E x \in S : \A y \in S : x >= y
    BY <1>8
  <2> QED
    BY <2>1 DEF Max
<1>10. lastTs' = tape[j].ts
  <2>1. Max(S) = tape[j].ts
    <3> HIDE DEF S
    <3> QED
      BY <1>8, <1>9
  <2> QED
    BY <2>1
<1> QED
  BY <1>6, <1>7, <1>10

\* What every handling of a fetch does to the timestamps.
LEMMA MarkedStamps ==
  ASSUME NEW stamp \in BOOLEAN, TapeInv, Marked(stamp), UNCHANGED tape
  PROVE  /\ lastTs' \in Nat /\ storedTs' \in {storedTs, lastTs'}
         /\ lastTs <= lastTs' /\ Reached(lastTs)'
         /\ stamp /\ polling /\ lastTs = storedTs => storedTs' = lastTs'
         /\ \A i \in New(fetched) : tape[i].ts <= lastTs'
         /\ lastTs' # lastTs => \E m \in New(fetched) : lastTs' = tape[m].ts
<1>1. /\ tape \in Seq(Stamped) /\ lastTs \in Nat /\ storedTs \in Nat
      /\ New(fetched) \subseteq DOMAIN tape
  <2>1. fetched \subseteq DOMAIN tape
    <3>1. CASE fetched = {}
      BY <3>1
    <3>2. CASE fetched # {}
      <4>1. PICK i, j \in DOMAIN tape : i <= j /\ fetched = i..j
        BY <3>2 DEF TapeInv, TapeTypes
      <4>2. DOMAIN tape = 1..Len(tape) /\ Len(tape) \in Nat
        BY DEF TapeInv, TapeTypes
      <4> QED
        BY <4>1, <4>2
    <3> QED
      BY <3>1, <3>2
  <2> QED
    BY <2>1 DEF TapeInv, TapeTypes, New
<1>2. CASE New(fetched) = {}
  <2>1. lastTs' = lastTs /\ storedTs' = storedTs
    BY <1>2 DEF Marked
  <2> QED
    BY <1>1, <1>2, <2>1 DEF TapeInv, Reached
<1>3. CASE New(fetched) # {}
  <2>1. /\ lastTs' = Max({tape[i].ts : i \in New(fetched)})
        /\ storedTs' = IF stamp THEN lastTs' ELSE storedTs
    BY <1>3 DEF Marked
  <2>2. PICK m \in New(fetched) : /\ lastTs' = tape[m].ts
                                  /\ \A i \in fetched : tape[i].ts <= tape[m].ts
    BY <1>3, <2>1, NewestStamp DEF TapeInv
  <2>3. m \in DOMAIN tape /\ tape[m].ts > lastTs /\ tape[m].ts \in Nat
    BY <1>1, Stamps DEF New
  <2>4. Reached(lastTs)'
    BY <2>2, <2>3 DEF Reached
  <2>5. lastTs <= lastTs' /\ \A i \in New(fetched) : tape[i].ts <= lastTs'
    BY <1>1, <2>2, <2>3 DEF New
  <2> QED
    BY <2>1, <2>2, <2>3, <2>4, <2>5
<1> QED
  BY <1>2, <1>3

\* The parts of the invariant that do not depend on what is counted.
LEMMA MarkedTypes ==
  ASSUME NEW stamp \in BOOLEAN, TapeInv, Marked(stamp), UNCHANGED tape,
         counted' \in [DOMAIN tape -> Nat], mishaps' \in Seq(Failures)
  PROVE  TapeTypes' /\ Reached(lastTs)' /\ Reached(storedTs)'
<1>1. lastTs' \in Nat /\ storedTs' \in {storedTs, lastTs'} /\ Reached(lastTs)'
  BY MarkedStamps
<1>2. fetched' = {}
  BY DEF Marked
<1>3. storedTs' \in Nat
  BY <1>1 DEF TapeInv, TapeTypes
<1>4. TapeTypes'
  BY <1>1, <1>2, <1>3 DEF TapeInv, TapeTypes
<1>5. Reached(storedTs)'
  <2>1. CASE storedTs' = storedTs
    BY <2>1 DEF TapeInv, Reached
  <2>2. CASE storedTs' = lastTs'
    BY <1>1, <2>2 DEF Reached
  <2> QED
    BY <1>1, <2>1, <2>2
<1> QED
  BY <1>1, <1>4, <1>5

\* Count, and StampFails: the new trades are added to the delta.
LEMMA CountTape ==
  ASSUME NEW stamp \in BOOLEAN, TapeInv, Marked(stamp), Added, UNCHANGED <<tape, polling>>,
         mishaps' \in Seq(Failures), Mishaps \subseteq Mishaps', stamp \/ "stamp" \in Mishaps'
  PROVE  TapeInv'
<1> DEFINE N == New(fetched)
<1>1. /\ counted \in [DOMAIN tape -> Nat] /\ polling /\ fetched' = {}
      /\ counted' = [i \in DOMAIN tape |-> counted[i] + (IF i \in N THEN 1 ELSE 0)]
      /\ tape \in Seq(Stamped) /\ lastTs \in Nat /\ storedTs \in Nat
  <2>1. counted \in [DOMAIN tape -> Nat]
    BY DEF TapeInv, TapeTypes
  <2>2. DOMAIN counted = DOMAIN tape
    BY <2>1
  <2> QED
    BY <2>1, <2>2 DEF TapeInv, TapeTypes, Marked, Added
<1>2. /\ lastTs' \in Nat /\ storedTs' \in {storedTs, lastTs'} /\ lastTs <= lastTs'
      /\ stamp /\ lastTs = storedTs => storedTs' = lastTs'
      /\ \A i \in N : tape[i].ts <= lastTs'
      /\ lastTs' # lastTs => \E m \in N : lastTs' = tape[m].ts
  BY <1>1, MarkedStamps
<1>3. \A i \in N : i \in fetched /\ tape[i].ts > lastTs
  BY DEF New
<1>4. \A i \in DOMAIN tape \cap fetched : tape[i].ts > lastTs => i \in N
  BY DEF New
<1> HIDE DEF N
<1>5. counted' \in [DOMAIN tape -> Nat]
  BY <1>1
<1>6. \A i \in DOMAIN tape : /\ counted[i] \in Nat /\ counted'[i] \in Nat
                             /\ i \in N => counted'[i] = counted[i] + 1
                             /\ i \notin N => counted'[i] = counted[i]
                             /\ tape[i].ts \in Nat
  BY <1>1, <1>5, Stamps
<1>7. TapeTypes' /\ Reached(lastTs)' /\ Reached(storedTs)'
  BY <1>5, MarkedTypes
<1>8. StampSeparates'
  <2> SUFFICES ASSUME Mishaps' \cap {"blind", "stamp", "expired"} = {}
               PROVE  /\ (polling => lastTs = storedTs)'
                      /\ \A i \in DOMAIN tape : counted'[i] <= 1
                                                /\ (counted'[i] > 0 => tape[i].ts <= storedTs')
    BY <1>1 DEF StampSeparates
  <2>1. /\ lastTs = storedTs /\ stamp
        /\ \A i \in DOMAIN tape : counted[i] <= 1 /\ (counted[i] > 0 => tape[i].ts <= storedTs)
    BY <1>1 DEF TapeInv, StampSeparates
  <2>2. storedTs' = lastTs'
    BY <1>2, <2>1
  <2>3. ASSUME NEW i \in DOMAIN tape
        PROVE  counted'[i] <= 1 /\ (counted'[i] > 0 => tape[i].ts <= storedTs')
    <3>1. CASE i \in N
      <4>1. tape[i].ts > lastTs /\ tape[i].ts <= lastTs'
        BY <1>2, <1>3, <3>1
      <4>2. counted[i] = 0
        BY <1>1, <1>6, <2>1, <4>1
      <4> QED
        BY <1>6, <2>2, <3>1, <4>1, <4>2
    <3>2. CASE i \notin N
      BY <1>1, <1>2, <1>6, <2>1, <2>2, <3>2
    <3> QED
      BY <3>1, <3>2
  <2> QED
    BY <2>2, <2>3
<1>9. NonePassed'
  <2> SUFFICES ASSUME Mishaps' \cap {"late", "add"} = {}
               PROVE  Through(lastTs)' /\ Through(storedTs)'
    BY <1>1 DEF NonePassed
  <2>1. /\ Through(lastTs) /\ Through(storedTs)
        /\ \A i \in New(DOMAIN tape), j \in fetched : i <= j => i \in fetched
    BY DEF TapeInv, NonePassed
  <2>2. \A i : Unique(i)' <=> Unique(i)
    BY DEF Unique
  <2>3. ASSUME NEW i \in DOMAIN tape, tape[i].ts <= lastTs', Unique(i) PROVE counted'[i] > 0
    <3>1. CASE tape[i].ts <= lastTs
      BY <1>6, <2>1, <2>3, <3>1 DEF Through
    <3>2. CASE tape[i].ts > lastTs
      <4>1. i \in New(DOMAIN tape)
        BY <3>2 DEF New
      <4>2. PICK m \in N : lastTs' = tape[m].ts
        BY <1>1, <1>2, <1>6, <2>3, <3>2
      <4>3. m \in fetched /\ m \in DOMAIN tape /\ m \in Nat /\ i \in Nat
        <5>1. PICK k, l \in DOMAIN tape : fetched = k..l
          BY <1>3, <4>2 DEF TapeInv, TapeTypes
        <5>2. DOMAIN tape = 1..Len(tape) /\ Len(tape) \in Nat
          BY <1>1
        <5> QED
          BY <1>3, <4>2, <5>1, <5>2
      <4>4. CASE i <= m
        <5>1. i \in N
          BY <1>4, <2>1, <3>2, <4>1, <4>3, <4>4
        <5> QED
          BY <1>6, <5>1
      <4>5. CASE i > m
        <5>1. tape[m].ts <= tape[i].ts
          BY <4>3, <4>5 DEF TapeInv, TapeTypes
        <5>2. tape[m].ts = tape[i].ts /\ m # i
          BY <1>6, <2>3, <4>2, <4>3, <4>5, <5>1
        <5> QED
          BY <2>3, <4>3, <5>2 DEF Unique
      <4> QED
        BY <4>3, <4>4, <4>5
    <3> QED
      BY <1>1, <1>6, <3>1, <3>2
  <2>4. Through(lastTs)'
    BY <2>2, <2>3 DEF Through
  <2>5. Through(storedTs)'
    <3>1. ASSUME NEW i \in DOMAIN tape, counted[i] > 0 PROVE counted'[i] > 0
      BY <1>6, <3>1
    <3>2. CASE storedTs' = storedTs
      BY <2>1, <2>2, <3>1, <3>2 DEF Through
    <3>3. CASE storedTs' = lastTs'
      BY <2>2, <2>3, <3>3 DEF Through
    <3> QED
      BY <1>2, <3>2, <3>3
  <2> QED
    BY <2>4, <2>5
<1> QED
  BY <1>7, <1>8, <1>9 DEF TapeInv

LEMMA AddFailsTape == TapeInv /\ AddFails => TapeInv'
<1> SUFFICES ASSUME TapeInv, AddFails PROVE TapeInv'
  OBVIOUS
<1>1. /\ Marked(TRUE) /\ UNCHANGED <<tape, counted>> /\ polling /\ fetched' = {}
      /\ TapeTypes /\ Mishap("add")
  BY DEF TapeInv, AddFails, Marked
<1>2. mishaps' \in Seq(Failures) /\ Mishaps' = Mishaps \cup {"add"}
  <2>1. "add" \in Failures
    BY DEF Failures
  <2> QED
    BY <1>1, <2>1, MishapAdds DEF TapeTypes
<1>3. TapeTypes' /\ Reached(lastTs)' /\ Reached(storedTs)'
  BY <1>1, <1>2, MarkedTypes DEF TapeTypes
<1>4. StampSeparates'
  <2>1. /\ lastTs' \in Nat /\ lastTs \in Nat /\ lastTs <= lastTs' /\ tape \in Seq(Stamped)
        /\ lastTs = storedTs => storedTs' = lastTs'
    BY <1>1, MarkedStamps DEF TapeTypes
  <2> SUFFICES ASSUME Mishaps' \cap {"blind", "stamp", "expired"} = {}
               PROVE  /\ (polling => lastTs = storedTs)'
                      /\ \A i \in DOMAIN tape : counted[i] <= 1
                                                /\ (counted[i] > 0 => tape[i].ts <= storedTs')
    BY <1>1 DEF StampSeparates
  <2>2. /\ lastTs = storedTs
        /\ \A i \in DOMAIN tape : counted[i] <= 1 /\ (counted[i] > 0 => tape[i].ts <= storedTs)
    BY <1>1, <1>2 DEF TapeInv, StampSeparates
  <2>3. \A i \in DOMAIN tape : tape[i].ts \in Nat
    BY <2>1, Stamps
  <2> QED
    BY <2>1, <2>2, <2>3
<1>5. NonePassed'
  BY <1>2 DEF NonePassed
<1> QED
  BY <1>3, <1>4, <1>5 DEF TapeInv

LEMMA NextTape == TapeInv /\ [DeltaNext]_deltaVars => TapeInv'
<1> SUFFICES ASSUME TapeInv, [DeltaNext]_deltaVars PROVE TapeInv'
  OBVIOUS
<1> USE DEF TapeInv
<1>1. CASE Trade
  BY <1>1, TradeTape
<1>2. CASE Start \/ StartBlind
  BY <1>2, StartTape
<1>3. CASE Fetch
  BY <1>3, FetchTape
<1>4. CASE Count
  <2>1. Mishaps' = Mishaps /\ mishaps' \in Seq(Failures)
    BY <1>4 DEF Count, Mishaps, TapeTypes
  <2> QED
    BY <1>4, <2>1, CountTape DEF Count
<1>5. CASE StampFails
  <2>1. "stamp" \in Failures /\ Mishap("stamp") /\ mishaps \in Seq(Failures)
    BY <1>5 DEF StampFails, Failures, TapeTypes
  <2>2. mishaps' \in Seq(Failures) /\ Mishaps' = Mishaps \cup {"stamp"}
    BY <2>1, MishapAdds
  <2> QED
    BY <1>5, <2>2, CountTape DEF StampFails
<1>6. CASE AddFails
  BY <1>6, AddFailsTape
<1>7. CASE StopPolling \/ StampExpires
  BY <1>7, LostTape
<1>8. CASE DeltaExpires
  <2>1. "quiet" \in Failures /\ Mishap("quiet") /\ mishaps \in Seq(Failures)
    BY <1>8 DEF DeltaExpires, Failures, TapeTypes
  <2>2. mishaps' \in Seq(Failures) /\ Mishaps' = Mishaps \cup {"quiet"}
    BY <2>1, MishapAdds
  <2> QED
    BY <1>8, <2>2, TapeUnchanged DEF DeltaExpires
<1>9. CASE ResetFails
  <2>1. "reset" \in Failures /\ Mishap("reset") /\ mishaps \in Seq(Failures)
    BY <1>9 DEF ResetFails, Failures, TapeTypes
  <2>2. mishaps' \in Seq(Failures) /\ Mishaps' = Mishaps \cup {"reset"}
    BY <2>1, MishapAdds
  <2> QED
    BY <1>9, <2>2, TapeUnchanged DEF ResetFails
<1>10. CASE Cycle \/ DumpReset \/ UNCHANGED deltaVars
  <2>1. UNCHANGED <<tape, polling, lastTs, storedTs, fetched, counted, mishaps>>
    BY <1>10 DEF Cycle, DumpReset, deltaVars
  <2>2. Mishaps' = Mishaps /\ mishaps' \in Seq(Failures)
    BY <2>1 DEF Mishaps, TapeTypes
  <2> QED
    BY <2>1, <2>2, TapeUnchanged
<1> QED
  BY <1>1, <1>2, <1>3, <1>4, <1>5, <1>6, <1>7, <1>8, <1>9, <1>10 DEF DeltaNext

\* No mishap is forgotten.
LEMMA MishapsStay == TapeTypes /\ [DeltaNext]_deltaVars => Mishaps \subseteq Mishaps'
<1> SUFFICES ASSUME TapeTypes, [DeltaNext]_deltaVars PROVE Mishaps \subseteq Mishaps'
  OBVIOUS
<1>1. CASE UNCHANGED mishaps
  BY <1>1 DEF Mishaps
<1>2. CASE \E kind \in Failures : Mishap(kind)
  BY <1>2, MishapAdds DEF TapeTypes
<1>3. UNCHANGED mishaps \/ \E kind \in Failures : Mishap(kind)
  BY DEF DeltaNext, deltaVars, Failures, Trade, Start, StartBlind, Fetch, Count, StampFails,
         AddFails, StopPolling, StampExpires, DeltaExpires, Cycle, ResetFails, DumpReset
<1> QED
  BY <1>1, <1>2, <1>3

-----------------------------------------------------------------------------
(* What was counted *)

Worth == [i \in DOMAIN counted |-> counted[i] * tape[i].v]
CountedVolume == SumFunctionOnSet(Worth, DOMAIN tape)

LEMMA WorthInt ==
  ASSUME TapeTypes
  PROVE  /\ IsFiniteSet(DOMAIN tape) /\ DOMAIN counted = DOMAIN tape
         /\ \A i \in DOMAIN tape : /\ Worth[i] \in Int /\ Worth[i] = counted[i] * tape[i].v
                                   /\ counted[i] \in Nat /\ tape[i].v \in {1, -1}
         /\ SumFunction(Worth) = CountedVolume /\ CountedVolume \in Int
<1>1. /\ tape \in Seq(Stamped) /\ DOMAIN tape = 1..Len(tape) /\ Len(tape) \in Nat
      /\ counted \in [DOMAIN tape -> Nat] /\ DOMAIN counted = DOMAIN tape
  BY DEF TapeTypes
<1>2. IsFiniteSet(DOMAIN tape)
  BY <1>1, FS_Interval
<1>3. \A i \in DOMAIN tape : counted[i] \in Nat /\ tape[i].v \in {1, -1}
  BY <1>1, Stamps
<1>4. \A i \in DOMAIN tape : counted[i] * tape[i].v \in Int
  BY <1>3
<1>5. \A i \in DOMAIN tape : Worth[i] \in Int /\ Worth[i] = counted[i] * tape[i].v
  BY <1>1, <1>4 DEF Worth
<1>6. SumFunction(Worth) = CountedVolume
  BY <1>1 DEF SumFunction, CountedVolume, Worth
<1>7. CountedVolume \in Int
  BY <1>2, <1>5, SumInt DEF CountedVolume
<1> QED
  BY <1>1, <1>2, <1>3, <1>5, <1>6, <1>7

\* A new entry adds its value to the total of a list.
LEMMA TotalAppend ==
  ASSUME NEW list \in Seq(Int), NEW x \in Int
  PROVE  Total(Append(list, x)) = Total(list) + x /\ Total(list) \in Int
<1> DEFINE n == Len(list) + 1
           longer == Append(list, x)
<1>1. /\ DOMAIN list = 1..Len(list) /\ Len(list) \in Nat /\ DOMAIN longer = DOMAIN list \cup {n}
      /\ n \notin DOMAIN list /\ longer[n] = x
      /\ \A i \in DOMAIN list : longer[i] = list[i] /\ list[i] \in Int
  OBVIOUS
<1>2. IsFiniteSet(DOMAIN list)
  BY <1>1, FS_Interval
<1>3. Total(list) = SumFunctionOnSet(list, DOMAIN list)
  BY DEF Total, SumFunction
<1>4. Total(longer) = SumFunctionOnSet(longer, DOMAIN list \cup {n})
  BY <1>1 DEF Total, SumFunction
<1> HIDE DEF n, longer
<1>5. SumFunctionOnSet(longer, DOMAIN list \cup {n}) = longer[n] + SumFunctionOnSet(longer, DOMAIN list)
  BY <1>1, <1>2, SumInsert
<1>6. SumFunctionOnSet(longer, DOMAIN list) = SumFunctionOnSet(list, DOMAIN list)
  BY <1>1, <1>2, SumSame
<1>7. Total(list) \in Int
  BY <1>1, <1>2, <1>3, SumInt
<1>8. Total(longer) = Total(list) + x
  BY <1>1, <1>3, <1>4, <1>5, <1>6, <1>7
<1> QED
  BY <1>7, <1>8 DEF longer

LEMMA TotalInt == \A list \in Seq(Int) : Total(list) \in Int
BY TotalAppend

\* A trade that was not counted is worth nothing.
LEMMA TradeWorth == TapeTypes /\ Trade => CountedVolume' = CountedVolume
<1> SUFFICES ASSUME TapeTypes, Trade PROVE CountedVolume' = CountedVolume
  OBVIOUS
<1> DEFINE n == Len(tape) + 1
<1>1. /\ tape' \in Seq(Stamped) /\ DOMAIN tape = 1..Len(tape) /\ DOMAIN tape' = 1..n
      /\ counted' \in [1..n -> Nat] /\ counted'[n] = 0
      /\ \A i \in DOMAIN tape : tape'[i] = tape[i] /\ counted'[i] = counted[i]
  BY TapeGrows
<1>2. Len(tape) \in Nat /\ n \notin DOMAIN tape /\ DOMAIN tape' = DOMAIN tape \cup {n}
  BY <1>1 DEF TapeTypes
<1> HIDE DEF n
<1>3. /\ IsFiniteSet(DOMAIN tape) /\ CountedVolume \in Int
      /\ \A i \in DOMAIN tape : Worth[i] \in Int /\ Worth[i] = counted[i] * tape[i].v
  BY WorthInt
<1>4. n \in DOMAIN tape' /\ DOMAIN counted' = DOMAIN tape'
  BY <1>1, <1>2
<1>5. \A i \in DOMAIN tape' : Worth'[i] = counted'[i] * tape'[i].v
  BY <1>4 DEF Worth
<1>6. Worth'[n] = 0
  <2>1. tape'[n].v \in {1, -1}
    BY <1>1, <1>4, Stamps
  <2> QED
    BY <1>1, <1>4, <1>5, <2>1
<1>7. \A i \in DOMAIN tape : Worth'[i] = Worth[i]
  BY <1>1, <1>2, <1>3, <1>5
<1>8. SumFunctionOnSet(Worth', DOMAIN tape \cup {n}) = Worth'[n] + SumFunctionOnSet(Worth', DOMAIN tape)
  <2>1. \A i \in DOMAIN tape \cup {n} : Worth'[i] \in Int
    BY <1>3, <1>6, <1>7
  <2> QED
    BY <1>2, <1>3, <2>1, SumInsert
<1>9. SumFunctionOnSet(Worth', DOMAIN tape) = SumFunctionOnSet(Worth, DOMAIN tape)
  BY <1>3, <1>7, SumSame
<1> QED
  BY <1>2, <1>3, <1>6, <1>8, <1>9 DEF CountedVolume

\* Counting the new trades adds to the delta what it adds to the count.
LEMMA AddedWorth ==
  ASSUME TapeTypes, TapeTypes', Added, UNCHANGED tape
  PROVE  Volume(New(fetched)) \in Int /\ CountedVolume' = CountedVolume + Volume(New(fetched))
<1> DEFINE N == New(fetched)
           vol == [i \in N |-> tape[i].v]
<1>1. /\ IsFiniteSet(DOMAIN tape) /\ DOMAIN counted = DOMAIN tape
      /\ \A i \in DOMAIN tape : /\ Worth[i] \in Int /\ Worth[i] = counted[i] * tape[i].v
                                /\ counted[i] \in Nat /\ tape[i].v \in {1, -1}
      /\ CountedVolume \in Int
  BY WorthInt
<1>2. N \subseteq DOMAIN tape
  <2>1. CASE fetched = {}
    BY <2>1 DEF New
  <2>2. CASE fetched # {}
    <3>1. PICK i, j \in DOMAIN tape : i <= j /\ fetched = i..j
      BY <2>2 DEF TapeTypes
    <3>2. DOMAIN tape = 1..Len(tape) /\ Len(tape) \in Nat
      BY DEF TapeTypes
    <3> QED
      BY <3>1, <3>2 DEF New
  <2> QED
    BY <2>1, <2>2
<1>3. Volume(N) = SumFunctionOnSet(vol, N)
  BY DEF Volume, SumFunction
<1>4. \A i \in N : vol[i] = tape[i].v /\ vol[i] \in Int
  BY <1>1, <1>2
<1>5. counted' = [i \in DOMAIN counted |-> counted[i] + (IF i \in N THEN 1 ELSE 0)]
  BY DEF Added
<1> HIDE DEF N, vol
<1>6. \A i \in DOMAIN tape : Worth'[i] = counted'[i] * tape[i].v
  BY <1>1, <1>5 DEF Worth
<1>7. \A i \in DOMAIN tape : Worth'[i] = Worth[i] + (IF i \in N THEN vol[i] ELSE 0)
  <2> SUFFICES ASSUME NEW i \in DOMAIN tape
               PROVE  Worth'[i] = Worth[i] + (IF i \in N THEN vol[i] ELSE 0)
    OBVIOUS
  <2>1. /\ counted[i] \in Nat /\ tape[i].v \in {1, -1}
        /\ Worth[i] = counted[i] * tape[i].v /\ Worth'[i] = counted'[i] * tape[i].v
        /\ counted'[i] = counted[i] + (IF i \in N THEN 1 ELSE 0)
    BY <1>1, <1>5, <1>6
  <2>2. CASE i \in N
    <3>1. counted'[i] = counted[i] + 1 /\ vol[i] = tape[i].v
      BY <1>4, <2>1, <2>2
    <3>2. (counted[i] + 1) * tape[i].v = counted[i] * tape[i].v + tape[i].v
      BY <2>1
    <3> QED
      BY <2>1, <2>2, <3>1, <3>2
  <2>3. CASE i \notin N
    <3>1. counted[i] * tape[i].v \in Int
      BY <2>1
    <3> QED
      BY <2>1, <2>3, <3>1
  <2> QED
    BY <2>2, <2>3
<1>8. SumFunctionOnSet(Worth', DOMAIN tape)
        = SumFunctionOnSet(Worth, DOMAIN tape) + SumFunctionOnSet(vol, N)
  <2>1. /\ \A i \in DOMAIN tape : Worth[i] \in Int
        /\ \A i \in N : vol[i] \in Int
    BY <1>1, <1>4
  <2> QED
    BY <1>1, <1>2, <1>7, <2>1, SumAdd
<1>9. IsFiniteSet(N)
  BY <1>1, <1>2, FS_Subset
<1>10. Volume(N) \in Int
  BY <1>3, <1>4, <1>9, SumInt
<1>11. CountedVolume' = SumFunctionOnSet(Worth', DOMAIN tape)
  BY DEF CountedVolume
<1> QED
  BY <1>3, <1>8, <1>10, <1>11 DEF CountedVolume, N

\* HistoryAccounts, with the sum named.
LEMMA AccountsNamed ==
  ASSUME TapeTypes
  PROVE  HistoryAccounts <=> ("reset" \notin Mishaps =>
                                delta + Total(history) + dropped = CountedVolume)
BY WorthInt DEF HistoryAccounts, Worth

\* A cycle keeps of the history its newest entries; what falls out is in dropped.
LEMMA ReadsAccount ==
  ASSUME LedgerTypes, CycleReads
  PROVE  /\ history' \in Seq(Int) /\ dropped' \in Int
         /\ Total(history') + dropped' = Total(history) + dropped + delta
<1> DEFINE longer == Append(history, delta)
<1>1. longer \in Seq(Int) /\ Total(longer) = Total(history) + delta /\ Total(history) \in Int
  BY TotalAppend DEF LedgerTypes
<1>2. history' = Newest(longer) /\ dropped' = dropped + Total(longer) - Total(history')
  BY DEF CycleReads
<1> HIDE DEF longer
<1>3. history' \in Seq(Int)
  <2> DEFINE x == Len(longer) - DELTA_HISTORY_SIZE + 1
             y == IF x <= 1 THEN 1 ELSE x
             m == Max({1, x})
  <2>1. x \in Int /\ DOMAIN longer = 1..Len(longer) /\ Len(longer) \in Nat
    BY <1>1, TapeAssumption
  <2>2. m \in Int /\ m >= 1
    <3>1. y \in {1, x} /\ \A z \in {1, x} : y >= z
      BY <2>1
    <3>2. m \in {1, x} /\ \A z \in {1, x} : m >= z
      BY <3>1 DEF Max
    <3> QED
      BY <2>1, <3>2
  <2>3. history' = SubSeq(longer, m, Len(longer))
    BY <1>2 DEF Newest
  <2> HIDE DEF m
  <2>4. \A i \in m..Len(longer) : longer[i] \in Int
    BY <1>1, <2>1, <2>2
  <2> QED
    BY <2>1, <2>2, <2>3, <2>4, SubSeqProperties
<1>4. Total(history') \in Int
  BY <1>3, TotalInt
<1> QED
  BY <1>1, <1>2, <1>3, <1>4 DEF LedgerTypes

LEMMA NextLedger == TapeInv /\ LedgerInv /\ [DeltaNext]_deltaVars => LedgerInv'
<1> SUFFICES ASSUME TapeInv, LedgerInv, [DeltaNext]_deltaVars PROVE LedgerInv'
  OBVIOUS
<1>1. TapeTypes /\ TapeTypes'
  BY NextTape DEF TapeInv
<1>2. Mishaps \subseteq Mishaps'
  BY <1>1, MishapsStay
<1>3. /\ delta \in Int /\ dropped \in Int /\ history \in Seq(Int) /\ Total(history) \in Int
      /\ CountedVolume \in Int
      /\ "reset" \notin Mishaps => delta + Total(history) + dropped = CountedVolume
  BY <1>1, AccountsNamed, TotalInt, WorthInt DEF LedgerInv, LedgerTypes
<1>4. SUFFICES /\ delta' \in Int /\ dropped' \in Int /\ history' \in Seq(Int)
               /\ "reset" \notin Mishaps' =>
                    delta' + Total(history') + dropped' = CountedVolume'
  <2>1. HistoryAccounts' <=> ("reset" \notin Mishaps' =>
                                delta' + Total(history') + dropped' = CountedVolume')
    <3>1. SumFunction(Worth)' = CountedVolume'
      <4>1. counted' \in [DOMAIN tape' -> Nat]
        BY <1>1 DEF TapeTypes
      <4>2. DOMAIN counted' = DOMAIN tape'
        BY <4>1
      <4> QED
        BY <4>2 DEF SumFunction, CountedVolume, Worth
    <3>2. Total(history)' = Total(history')
      BY DEF Total
    <3> QED
      BY <3>1, <3>2 DEF HistoryAccounts, Worth
  <2> QED
    BY <2>1 DEF LedgerInv, LedgerTypes
<1>5. CASE Trade
  <2>1. UNCHANGED <<delta, history, dropped, mishaps>> /\ CountedVolume' = CountedVolume
    BY <1>1, <1>5, TradeWorth DEF Trade
  <2> QED
    BY <1>2, <1>3, <2>1
<1>6. CASE Count \/ StampFails
  <2>1. Added /\ UNCHANGED <<tape, history, dropped>> /\ delta' = delta + Volume(New(fetched))
    BY <1>6 DEF Count, StampFails, Added
  <2>2. /\ Volume(New(fetched)) \in Int
        /\ CountedVolume' = CountedVolume + Volume(New(fetched))
    BY <1>1, <2>1, AddedWorth
  <2> DEFINE vol == Volume(New(fetched))
  <2> HIDE DEF vol
  <2>3. delta' = delta + vol /\ vol \in Int /\ CountedVolume' = CountedVolume + vol
    BY <2>1, <2>2 DEF vol
  <2>4. history' = history /\ dropped' = dropped /\ Total(history') = Total(history)
    BY <2>1
  <2>5. delta' \in Int
    BY <1>3, <2>3
  <2>6. ASSUME delta + Total(history) + dropped = CountedVolume
        PROVE  delta' + Total(history') + dropped' = CountedVolume'
    BY <1>3, <2>3, <2>4, <2>6
  <2> QED
    BY <1>2, <1>3, <2>4, <2>5, <2>6
<1>7. CASE Cycle
  <2>1. /\ history' \in Seq(Int) /\ dropped' \in Int
        /\ Total(history') + dropped' = Total(history) + dropped + delta
    BY <1>7, ReadsAccount DEF LedgerInv, Cycle
  <2>2. delta' = 0 /\ UNCHANGED <<tape, counted>> /\ Total(history') \in Int
    BY <1>7, <2>1, TotalInt DEF Cycle
  <2>3. CountedVolume' = CountedVolume
    BY <2>2 DEF CountedVolume, Worth
  <2> QED
    BY <1>2, <1>3, <2>1, <2>2, <2>3
<1>8. CASE ResetFails
  <2>1. history' \in Seq(Int) /\ dropped' \in Int /\ delta' = delta
    BY <1>8, ReadsAccount DEF LedgerInv, ResetFails
  <2>2. "reset" \in Mishaps'
    <3>1. "reset" \in Failures /\ Mishap("reset") /\ mishaps \in Seq(Failures)
      BY <1>1, <1>8 DEF ResetFails, Failures, TapeTypes
    <3> QED
      BY <3>1, MishapAdds
  <2> QED
    BY <1>3, <2>1, <2>2
<1>9. CASE DeltaExpires \/ DumpReset
  <2>1. delta' = 0 /\ dropped' = dropped + delta /\ UNCHANGED <<tape, counted, history>>
    BY <1>9 DEF DeltaExpires, DumpReset
  <2>2. CountedVolume' = CountedVolume
    BY <2>1 DEF CountedVolume, Worth
  <2> QED
    BY <1>2, <1>3, <2>1, <2>2
<1>10. CASE UNCHANGED <<tape, counted, delta, history, dropped>>
  <2>1. CountedVolume' = CountedVolume
    BY <1>10 DEF CountedVolume, Worth
  <2> QED
    BY <1>2, <1>3, <1>10, <2>1
<1> QED
  BY <1>5, <1>6, <1>7, <1>8, <1>9, <1>10
     DEF DeltaNext, deltaVars, Start, StartBlind, Fetch, AddFails, StopPolling, StampExpires

LEMMA InitDelta == DeltaInit => DeltaInv
<1> SUFFICES ASSUME DeltaInit PROVE DeltaInv
  OBVIOUS
<1>1. /\ tape = <<>> /\ counted = <<>> /\ DOMAIN tape = {} /\ mishaps = <<>> /\ history = <<>>
      /\ ~polling /\ lastTs = 0 /\ storedTs = 0 /\ fetched = {} /\ delta = 0 /\ dropped = 0
  BY DEF DeltaInit
<1>2. TapeTypes
  <2>1. counted \in [DOMAIN tape -> Nat]
    BY <1>1
  <2> QED
    BY <1>1, <2>1 DEF TapeTypes
<1>3. TapeInv
  BY <1>1, <1>2 DEF TapeInv, Reached, StampSeparates, NonePassed, Through
<1>4. Total(history) = 0 /\ CountedVolume = 0
  BY <1>1, SumEmpty DEF Total, SumFunction, CountedVolume
<1>5. LedgerTypes
  BY <1>1 DEF LedgerTypes
<1>6. HistoryAccounts
  BY <1>1, <1>2, <1>4, AccountsNamed
<1> QED
  BY <1>3, <1>5, <1>6 DEF DeltaInv, LedgerInv

LEMMA DeltaInvCounts == DeltaInv => CountedOnce
<1> SUFFICES ASSUME DeltaInv PROVE NotTwice /\ HistoryAccounts /\ NothingSkipped
  BY DEF CountedOnce
<1>1. DOMAIN counted = DOMAIN tape
  BY WorthInt DEF DeltaInv, TapeInv
<1>2. NotTwice
  BY <1>1 DEF DeltaInv, TapeInv, StampSeparates, NotTwice
<1>3. NothingSkipped
  BY DEF DeltaInv, TapeInv, NonePassed, Through, NothingSkipped
<1> QED
  BY <1>2, <1>3 DEF DeltaInv, LedgerInv

\* Through polls, cycles of both timeframes, restarts and the loss of either Redis key, no
\* trade enters the delta twice, none older than the newest timestamp is passed over, and
\* the delta, the history and what left them account for every trade counted
\* (DeltaService._poll and its stored timestamp, snapshot_delta_to_history, reset_delta).
THEOREM EveryTradeOnce == DeltaSpec => []CountedOnce
<1>1. DeltaInit => DeltaInv
  BY InitDelta
<1>2. DeltaInv /\ [DeltaNext]_deltaVars => DeltaInv'
  BY NextTape, NextLedger DEF DeltaInv
<1>3. DeltaInv => CountedOnce
  BY DeltaInvCounts
<1> QED
  BY <1>1, <1>2, <1>3, PTL DEF DeltaSpec


-----------------------------------------------------------------------------
(* Fractions: the best of a finite set of them *)

LEMMA TimesMonotone ==
  /\ \A x, y \in Int : \A k \in Nat : x <= y => x * k <= y * k
  /\ \A x, y \in Int : \A k \in Nat \ {0} : x * k <= y * k => x <= y
  /\ \A x, y \in Int : x * y \in Int /\ x * y = y * x
<1>1. \A x, y \in Int : x * y \in Int /\ x * y = y * x
  OBVIOUS
<1>2. ASSUME NEW x \in Int, NEW y \in Int, NEW k \in Nat, x <= y PROVE x * k <= y * k
  <2>1. (y - x) \in Nat
    BY <1>2
  <2>2. \A a, b \in Nat : a * b >= 0
    OBVIOUS
  <2>3. (y - x) * k >= 0
    BY <2>1, <2>2
  <2>4. (y - x) * k = y * k - x * k
    OBVIOUS
  <2> QED
    BY <1>1, <2>3, <2>4
<1>3. ASSUME NEW x \in Int, NEW y \in Int, NEW k \in Nat \ {0}, x * k <= y * k PROVE x <= y
  <2> SUFFICES ASSUME ~(x <= y) PROVE FALSE
    OBVIOUS
  <2>1. (x - y) \in Nat \ {0}
    OBVIOUS
  <2>2. \A a, b \in Nat \ {0} : a * b > 0
    OBVIOUS
  <2>3. (x - y) * k > 0
    BY <2>1, <2>2
  <2>4. (x - y) * k = x * k - y * k
    OBVIOUS
  <2> QED
    BY <1>1, <1>3, <2>3, <2>4
<1> QED
  BY <1>1, <1>2, <1>3

LEMMA FractionsOrdered ==
  \A a, c, e \in Int : \A b, d, f \in Nat \ {0} :
    a * d <= c * b /\ c * f <= e * d => a * f <= e * b
<1> SUFFICES ASSUME NEW a \in Int, NEW c \in Int, NEW e \in Int, NEW b \in Nat \ {0},
                    NEW d \in Nat \ {0}, NEW f \in Nat \ {0}, a * d <= c * b, c * f <= e * d
             PROVE  a * f <= e * b
  OBVIOUS
<1>1. (a * d) * f <= (c * b) * f
  BY TimesMonotone
<1>2. (c * f) * b <= (e * d) * b
  BY TimesMonotone
<1>3. /\ (c * b) * f = (c * f) * b /\ (a * d) * f = (a * f) * d /\ (e * d) * b = (e * b) * d
  OBVIOUS
<1>4. a * f \in Int /\ e * b \in Int /\ (a * f) * d \in Int /\ (e * b) * d \in Int /\ (c * f) * b \in Int
  BY TimesMonotone
<1>5. (a * f) * d <= (e * b) * d
  BY <1>1, <1>2, <1>3, <1>4
<1> QED
  BY <1>4, <1>5, TimesMonotone

\* No fraction of S is larger than that of t.
BestOn(S, n, d, t) == \A o \in S : n[o] * d[t] <= n[t] * d[o]

LEMMA BestExists ==
  ASSUME NEW S, IsFiniteSet(S), S # {}, NEW n, NEW d,
         \A t \in S : n[t] \in Int /\ d[t] \in Nat \ {0}
  PROVE  \E t \in S : BestOn(S, n, d, t)
<1> DEFINE P == {s \in SUBSET S : s = {} \/ \E t \in s : BestOn(s, n, d, t)}
<1>1. ASSUME NEW s \in SUBSET S, \A t \in SUBSET s : t # s => t \in P
      PROVE  s \in P
  <2>1. CASE s = {}
    BY <2>1
  <2>2. CASE s # {}
    <3>1. PICK z \in s : TRUE
      BY <2>2
    <3> DEFINE r == s \ {z}
    <3>2. r \in P
      BY <1>1, <3>1
    <3>3. CASE r = {}
      <4>1. s = {z}
        BY <3>1, <3>3
      <4>2. BestOn(s, n, d, z)
        BY <3>1, <4>1, TimesMonotone DEF BestOn
      <4> QED
        BY <3>1, <4>2
    <3>4. CASE r # {}
      <4>1. PICK x \in r : BestOn(r, n, d, x)
        BY <3>2, <3>4
      <4>2. x \in s /\ x \in S /\ z \in S /\ r \subseteq S
        BY <3>1, <4>1
      <4>3. CASE n[z] * d[x] <= n[x] * d[z]
        <5>1. BestOn(s, n, d, x)
          BY <4>1, <4>3 DEF BestOn
        <5> QED
          BY <4>2, <5>1
      <4>4. CASE ~(n[z] * d[x] <= n[x] * d[z])
        <5>1. n[x] * d[z] <= n[z] * d[x]
          BY <4>2, <4>4, TimesMonotone
        <5>2. ASSUME NEW o \in r PROVE n[o] * d[z] <= n[z] * d[o]
          <6>1. n[o] * d[x] <= n[x] * d[o]
            BY <4>1 DEF BestOn
          <6>2. o \in S
            BY <4>2
          <6> QED
            BY <4>2, <5>1, <6>1, <6>2, FractionsOrdered
        <5>3. n[z] * d[z] <= n[z] * d[z]
          BY <4>2, TimesMonotone
        <5>4. BestOn(s, n, d, z)
          BY <5>2, <5>3 DEF BestOn
        <5> QED
          BY <3>1, <5>4
      <4> QED
        BY <4>3, <4>4
    <3> QED
      BY <3>3, <3>4
  <2> QED
    BY <2>1, <2>2
<1> HIDE DEF P
<1>2. S \in P
  BY <1>1, SubsetInduction
<1> QED
  BY <1>2 DEF P

\* The least of some integers is one of them.
LEMMA LeastIn ==
  ASSUME NEW S, IsFiniteSet(S), S \subseteq Int, S # {}
  PROVE  Min(S) \in S /\ \A y \in S : Min(S) <= y
<1> DEFINE n == [t \in S |-> 0 - t]
           d == [t \in S |-> 1]
<1>1. \A t \in S : n[t] \in Int /\ d[t] \in Nat \ {0}
  OBVIOUS
<1>2. \E t \in S : BestOn(S, n, d, t)
  <2> HIDE DEF n, d
  <2> QED
    BY <1>1, BestExists
<1>3. PICK t \in S : BestOn(S, n, d, t)
  BY <1>2
<1>4. ASSUME NEW y \in S PROVE t <= y
  <2>1. n[y] * d[t] <= n[t] * d[y]
    BY <1>3 DEF BestOn
  <2>2. n[y] = 0 - y /\ n[t] = 0 - t /\ d[t] = 1 /\ d[y] = 1 /\ t \in Int /\ y \in Int
    OBVIOUS
  <2> HIDE DEF n, d
  <2> QED
    BY <2>1, <2>2
<1> QED
  BY <1>4 DEF Min

LEMMA LargestIn ==
  ASSUME NEW S, IsFiniteSet(S), S \subseteq Int, S # {}
  PROVE  Max(S) \in S /\ S \ {Max(S)} # S /\ \A y \in S : y <= Max(S)
<1> DEFINE n == [t \in S |-> t]
           d == [t \in S |-> 1]
<1>1. \A t \in S : n[t] \in Int /\ d[t] \in Nat \ {0}
  OBVIOUS
<1>2. \E t \in S : BestOn(S, n, d, t)
  <2> HIDE DEF n, d
  <2> QED
    BY <1>1, BestExists
<1>3. PICK t \in S : BestOn(S, n, d, t)
  BY <1>2
<1>4. ASSUME NEW y \in S PROVE t >= y
  <2>1. n[y] * d[t] <= n[t] * d[y]
    BY <1>3 DEF BestOn
  <2>2. n[y] = y /\ n[t] = t /\ d[t] = 1 /\ d[y] = 1 /\ t \in Int /\ y \in Int
    OBVIOUS
  <2> HIDE DEF n, d
  <2> QED
    BY <2>1, <2>2
<1>5. Max(S) \in S /\ \A y \in S : Max(S) >= y
  BY <1>4 DEF Max
<1> QED
  BY <1>5

-----------------------------------------------------------------------------
(* The series of losses.  Its filter is a fold of the community modules: a recursive function *)
(* over the subsets of a sequence's domain, that takes out the largest index.                 *)

\* What the list holds: the hour of a loss, and its trade.
Losses == [at : Int, trade : Nat]

\* One level of the fold over q, and a table of its results for every subset of D.
Extended(g, q, after, s) ==
  IF q[Max(s)].at > after THEN Append(g[s \ {Max(s)}], q[Max(s)]) ELSE g[s \ {Max(s)}]
Leveled(g, q, after, s) == IF s = {} THEN <<>> ELSE Extended(g, q, after, s)
TableOf(g, q, after, D) == g = [s \in SUBSET D |-> Leveled(g, q, after, s)]

\* g and h are such tables, h of a sequence and a set that continue those of g.
Continues(g, h, q, p, after, C, D) ==
  /\ IsFiniteSet(C) /\ C \subseteq D /\ D \subseteq Int
  /\ \A i \in C : q[i] = p[i]
  /\ TableOf(g, q, after, C) /\ TableOf(h, p, after, D)

LEMMA TablesAgree ==
  \A g, h, q, p, after, C, D :
    Continues(g, h, q, p, after, C, D) => \A s \in SUBSET C : g[s] = h[s]
<1> TAKE g, h, q, p, after, C, D
<1> HAVE Continues(g, h, q, p, after, C, D)
<1> USE DEF Continues
<1> DEFINE P == {s \in SUBSET C : g[s] = h[s]}
<1>1. ASSUME NEW s \in SUBSET C, \A t \in SUBSET s : t # s => t \in P
      PROVE  s \in P
  <2>1. g[s] = Leveled(g, q, after, s) /\ h[s] = Leveled(h, p, after, s)
    BY DEF TableOf
  <2>2. CASE s = {}
    BY <2>1, <2>2 DEF Leveled
  <2>3. CASE s # {}
    <3>1. s \ {Max(s)} # s /\ Max(s) \in C
      BY <2>3, LargestIn, FS_Subset
    <3>2. g[s \ {Max(s)}] = h[s \ {Max(s)}] /\ q[Max(s)] = p[Max(s)]
      BY <1>1, <3>1
    <3> QED
      BY <2>1, <2>3, <3>2 DEF Leveled, Extended
  <2> QED
    BY <2>2, <2>3
<1> HIDE DEF P
<1>2. SUBSET C \subseteq P
  BY <1>1, SubsetInduction
<1> QED
  BY <1>2 DEF P

LEMMA TablesExist ==
  \A q, after, D : IsFiniteSet(D) /\ D \subseteq Int => \E g : TableOf(g, q, after, D)
<1> SUFFICES ASSUME NEW q, NEW after, NEW D, IsFiniteSet(D), D \subseteq Int
             PROVE  \E g : TableOf(g, q, after, D)
  OBVIOUS
<1> DEFINE P == {s \in SUBSET D : \E g : TableOf(g, q, after, s)}
<1>1. ASSUME NEW s \in SUBSET D, \A t \in SUBSET s : t # s => t \in P
      PROVE  s \in P
  <2> DEFINE some(t) == CHOOSE g : TableOf(g, q, after, t)
             before(t) == t \ {Max(t)}
             last(t) == some(before(t))[before(t)]
             g == [t \in SUBSET s |->
                     IF t = {} THEN <<>>
                     ELSE IF q[Max(t)].at > after THEN Append(last(t), q[Max(t)]) ELSE last(t)]
  <2>1. ASSUME NEW t \in SUBSET s, t # s PROVE TableOf(some(t), q, after, t)
    BY <1>1, <2>1
  <2>2. ASSUME NEW t \in SUBSET s, t # {}
        PROVE  before(t) \in SUBSET s /\ before(t) # s /\ IsFiniteSet(before(t)) /\ IsFiniteSet(t)
    <3>1. IsFiniteSet(t) /\ t \subseteq Int
      BY FS_Subset
    <3>2. before(t) # t /\ Max(t) \in t
      BY <2>2, <3>1, LargestIn
    <3> QED
      BY <3>1, <3>2, FS_Subset
  <2> HIDE DEF some
  <2>3. ASSUME NEW t \in SUBSET s, t # s PROVE g[t] = some(t)[t]
    <3>1. some(t)[t] = Leveled(some(t), q, after, t)
      BY <2>1, <2>3 DEF TableOf
    <3>2. CASE t = {}
      BY <3>1, <3>2 DEF Leveled
    <3>3. CASE t # {}
      <4>1. /\ before(t) \in SUBSET t /\ before(t) \in SUBSET s /\ before(t) # s
            /\ IsFiniteSet(before(t)) /\ t \subseteq Int
        BY <2>2, <3>3
      <4>2. TableOf(some(t), q, after, t) /\ TableOf(some(before(t)), q, after, before(t))
        BY <2>1, <2>3, <4>1
      <4>3. some(t)[before(t)] = last(t)
        <5> DEFINE b == before(t)
                   gb == some(b)
                   gt == some(t)
        <5>1. Continues(gb, gt, q, q, after, b, t)
          BY <4>1, <4>2 DEF Continues
        <5> HIDE DEF b, gb, gt
        <5>2. \A u \in SUBSET b : gb[u] = gt[u]
          BY <5>1, TablesAgree
        <5>3. gb[b] = gt[b]
          BY <5>2
        <5> QED
          BY <5>3 DEF b, gb, gt
      <4> QED
        BY <3>1, <3>3, <4>3 DEF Leveled, Extended
    <3> QED
      BY <3>2, <3>3
  <2>4. ASSUME NEW t \in SUBSET s PROVE g[t] = Leveled(g, q, after, t)
    <3>1. CASE t = {}
      BY <3>1 DEF Leveled
    <3>2. CASE t # {}
      <4>1. g[before(t)] = last(t)
        BY <2>2, <2>3, <3>2
      <4> QED
        BY <3>2, <4>1 DEF Leveled, Extended
    <3> QED
      BY <3>1, <3>2
  <2>5. TableOf(g, q, after, s)
    <3>1. \A t \in SUBSET s : g[t] = Leveled(g, q, after, t)
      BY <2>4
    <3>2. DOMAIN g = SUBSET s /\ g = [t \in SUBSET s |-> g[t]]
      OBVIOUS
    <3> HIDE DEF g
    <3> QED
      BY <3>1, <3>2 DEF TableOf
  <2> QED
    BY <2>5
<1> HIDE DEF P
<1>2. SUBSET D \subseteq P
  BY <1>1, SubsetInduction
<1> QED
  BY <1>2 DEF P

\* The filter is read off the table of its sequence.
LEMMA LaterIsTabled ==
  ASSUME NEW S, NEW q \in Seq(S), NEW after
  PROVE  \E g : TableOf(g, q, after, 1..Len(q)) /\ Later(q, after) = g[1..Len(q)]
<1> DEFINE D == DOMAIN q
           it == CHOOSE h : h = [s \in SUBSET D |-> IF s = {} THEN <<>>
                              ELSE IF q[Max(s)].at > after THEN Append(h[s \ {Max(s)}], q[Max(s)])
                                   ELSE h[s \ {Max(s)}]]
<1>1. D = 1..Len(q) /\ IsFiniteSet(D) /\ D \subseteq Int
  BY FS_Interval
<1>2. PICK h : TableOf(h, q, after, D)
  BY <1>1, TablesExist
<1>3. h = [s \in SUBSET D |-> IF s = {} THEN <<>>
             ELSE IF q[Max(s)].at > after THEN Append(h[s \ {Max(s)}], q[Max(s)])
                  ELSE h[s \ {Max(s)}]]
  BY <1>2 DEF TableOf, Leveled, Extended
<1>4. it = [s \in SUBSET D |-> IF s = {} THEN <<>>
              ELSE IF q[Max(s)].at > after THEN Append(it[s \ {Max(s)}], q[Max(s)])
                   ELSE it[s \ {Max(s)}]]
  BY <1>3
<1>5. Later(q, after) = it[D]
  BY DEF Later, FoldLeft, MapThenFoldSet
<1> HIDE DEF it
<1>6. TableOf(it, q, after, D)
  BY <1>4 DEF TableOf, Leveled, Extended
<1> QED
  BY <1>1, <1>5, <1>6

LEMMA LaterEmpty == \A after : Later(<<>>, after) = <<>>
<1> TAKE after
<1>1. PICK g : TableOf(g, <<>>, after, 1..0) /\ Later(<<>>, after) = g[1..0]
  <2>1. <<>> \in Seq(Int) /\ Len(<<>>) = 0
    OBVIOUS
  <2> QED
    BY <2>1, LaterIsTabled
<1>2. 1..0 = {} /\ 1..0 \in SUBSET (1..0)
  OBVIOUS
<1>3. g[1..0] = Leveled(g, <<>>, after, 1..0)
  BY <1>1, <1>2 DEF TableOf
<1> QED
  BY <1>1, <1>2, <1>3 DEF Leveled

\* What a list grows by is kept exactly when it is later.
LEMMA LaterAppend ==
  \A after : \A s \in Seq(Losses), e \in Losses :
    Later(Append(s, e), after)
      = IF e.at > after THEN Append(Later(s, after), e) ELSE Later(s, after)
<1> TAKE after
<1> TAKE s \in Seq(Losses), e \in Losses
<1> DEFINE n == Len(s)
           a == Append(s, e)
           C == 1..n
           D == 1..(n + 1)
<1>1. n \in Nat /\ a \in Seq(Losses) /\ Len(a) = n + 1 /\ a[n + 1] = e /\ \A i \in C : s[i] = a[i]
  OBVIOUS
<1>2. PICK g : TableOf(g, s, after, C) /\ Later(s, after) = g[C]
  BY LaterIsTabled
<1>3. PICK h : TableOf(h, a, after, D) /\ Later(a, after) = h[D]
  BY <1>1, LaterIsTabled
<1>4. /\ IsFiniteSet(C) /\ IsFiniteSet(D) /\ C \subseteq D /\ D \subseteq Int /\ D # {}
      /\ n + 1 \in D
  <2>1. IsFiniteSet(C) /\ IsFiniteSet(D)
    <3>1. n \in Int /\ n + 1 \in Int /\ 1 \in Int
      BY <1>1
    <3> HIDE DEF n
    <3> QED
      BY <3>1, FS_Interval
  <2> QED
    BY <1>1, <2>1
<1>5. Max(D) = n + 1
  <2>1. \A y \in D : n + 1 >= y
    BY <1>1
  <2>2. Max(D) \in D /\ \A y \in D : Max(D) >= y
    BY <1>4, <2>1 DEF Max
  <2>3. n + 1 >= Max(D) /\ Max(D) >= n + 1 /\ Max(D) \in Int
    BY <1>4, <2>1, <2>2
  <2> HIDE DEF D
  <2> QED
    BY <1>1, <2>3
<1>6. D \ {n + 1} = C
  BY <1>1
<1> HIDE DEF C, D, a, n
<1>7. Continues(g, h, s, a, after, C, D)
  BY <1>1, <1>2, <1>3, <1>4 DEF Continues
<1>8. h[C] = g[C]
  BY <1>7, TablesAgree
<1>9. h[D] = Leveled(h, a, after, D)
  BY <1>3 DEF TableOf
<1>10. h[D] = IF e.at > after THEN Append(g[C], e) ELSE g[C]
  BY <1>1, <1>4, <1>5, <1>6, <1>8, <1>9 DEF Leveled, Extended
<1>11. Later(a, after) = IF e.at > after THEN Append(Later(s, after), e) ELSE Later(s, after)
  BY <1>2, <1>3, <1>10
<1> QED
  BY <1>11 DEF a

\* What holds of the empty sequence and of a longer one with each shorter one holds of all.
LEMMA GrowingInduction ==
  ASSUME NEW S, NEW P, <<>> \in P,
         \A s \in Seq(S), e \in S : s \in P => Append(s, e) \in P
  PROVE  Seq(S) \subseteq P
<1> DEFINE T == {n \in Nat : \E s \in Seq(S) : Len(s) = n /\ s \notin P}
<1>1. SUFFICES ASSUME T # {} PROVE FALSE
  BY DEF T
<1>2. PICK m \in T : \A y \in T : <<y, m>> \notin OpToRel(<, Nat)
  BY <1>1, NatLessThanWellFounded, WFMin
<1>3. PICK s \in Seq(S) : Len(s) = m /\ s \notin P
  OBVIOUS
<1>4. s # <<>> /\ m \in Nat /\ m > 0
  BY <1>3
<1> DEFINE f == [i \in 1..(m - 1) |-> s[i]]
<1>5. m - 1 \in Nat /\ f \in Seq(S) /\ Len(f) = m - 1 /\ s[m] \in S
  BY <1>3, <1>4
<1>6. s = Append(f, s[m])
  BY <1>3, <1>4, <1>5
<1>7. f \notin P
  BY <1>3, <1>5, <1>6
<1>8. m - 1 \in T
  BY <1>5, <1>7
<1>9. <<m - 1, m>> \in OpToRel(<, Nat)
  BY <1>4, <1>5 DEF OpToRel
<1> QED
  BY <1>2, <1>8, <1>9

Once(s) == \A i, j \in DOMAIN s : s[i].trade = s[j].trade => i = j

LEMMA RangeOfAppend ==
  \A s \in Seq(Losses), e \in Losses : Range(Append(s, e)) = Range(s) \cup {e}
<1> TAKE s \in Seq(Losses), e \in Losses
<1> DEFINE a == Append(s, e)
<1>1. /\ DOMAIN a = DOMAIN s \cup {Len(s) + 1} /\ a[Len(s) + 1] = e
      /\ \A i \in DOMAIN s : a[i] = s[i]
  OBVIOUS
<1> HIDE DEF a
<1>2. Range(a) = Range(s) \cup {e}
  BY <1>1 DEF Range
<1> QED
  BY <1>2 DEF a

LEMMA OnceAppended ==
  \A s \in Seq(Losses), e \in Losses :
    Once(Append(s, e)) <=> Once(s) /\ \A x \in Range(s) : x.trade # e.trade
<1> TAKE s \in Seq(Losses), e \in Losses
<1> DEFINE a == Append(s, e)
           n == Len(s) + 1
<1>1. /\ DOMAIN a = DOMAIN s \cup {n} /\ a[n] = e /\ n \notin DOMAIN s
      /\ \A i \in DOMAIN s : a[i] = s[i]
  OBVIOUS
<1> HIDE DEF a, n
<1>2. Once(a) <=> Once(s) /\ \A x \in Range(s) : x.trade # e.trade
  BY <1>1 DEF Range, Once
<1> QED
  BY <1>2 DEF a

\* The filter keeps the later losses of a list, and each as often as it was there.
LEMMA LaterKeeps ==
  \A after : \A s \in Seq(Losses) :
    /\ Later(s, after) \in Seq(Losses)
    /\ Range(Later(s, after)) = {e \in Range(s) : e.at > after}
    /\ Once(s) => Once(Later(s, after))
<1> TAKE after
<1> DEFINE P == {s \in Seq(Losses) :
                   /\ Later(s, after) \in Seq(Losses)
                   /\ \A x : x \in Range(Later(s, after)) <=> x \in Range(s) /\ x.at > after
                   /\ Once(s) => Once(Later(s, after))}
<1>1. <<>> \in P
  <2>1. <<>> \in Seq(Losses) /\ Later(<<>>, after) = <<>> /\ Range(<<>>) = {}
    BY LaterEmpty, EmptySeq DEF Range
  <2> QED
    BY <2>1
<1>2. ASSUME NEW s \in Seq(Losses), NEW e \in Losses, s \in P PROVE Append(s, e) \in P
  <2> DEFINE l == Later(s, after)
             a == Append(s, e)
  <2>1. /\ l \in Seq(Losses) /\ \A x : x \in Range(l) <=> x \in Range(s) /\ x.at > after
        /\ Once(s) => Once(l)
    BY <1>2
  <2>2. a \in Seq(Losses) /\ Range(a) = Range(s) \cup {e}
    BY RangeOfAppend
  <2>3. Later(a, after) = IF e.at > after THEN Append(l, e) ELSE l
    BY LaterAppend
  <2>4. Once(a) => Once(s) /\ \A x \in Range(s) : x.trade # e.trade
    BY OnceAppended
  <2> HIDE DEF P, l, a
  <2>5. CASE e.at > after
    <3>1. Append(l, e) \in Seq(Losses) /\ Range(Append(l, e)) = Range(l) \cup {e}
      BY <2>1, RangeOfAppend
    <3>2. Once(a) => Once(Append(l, e))
      BY <2>1, <2>4, OnceAppended
    <3>3. \A x : x \in Range(Append(l, e)) <=> x \in Range(a) /\ x.at > after
      BY <2>1, <2>2, <2>5, <3>1
    <3>4. /\ Later(a, after) \in Seq(Losses)
          /\ \A x : x \in Range(Later(a, after)) <=> x \in Range(a) /\ x.at > after
          /\ Once(a) => Once(Later(a, after))
      BY <2>3, <2>5, <3>1, <3>2, <3>3
    <3> QED
      BY <2>2, <3>4 DEF P, a
  <2>6. CASE ~(e.at > after)
    <3>1. \A x : x \in Range(l) <=> x \in Range(a) /\ x.at > after
      BY <2>1, <2>2, <2>6
    <3>2. /\ Later(a, after) \in Seq(Losses)
          /\ \A x : x \in Range(Later(a, after)) <=> x \in Range(a) /\ x.at > after
          /\ Once(a) => Once(Later(a, after))
      BY <2>1, <2>3, <2>4, <2>6, <3>1
    <3> QED
      BY <2>2, <3>2 DEF P, a
  <2> QED
    BY <2>5, <2>6 DEF a
<1> HIDE DEF P
<1>3. Seq(Losses) \subseteq P
  BY <1>1, <1>2, GrowingInduction
<1> QED
  BY <1>3 DEF P

-----------------------------------------------------------------------------
(* Recording losses.  A list, the journal, the trades skipped and what the workers record are *)
(* parameters: what is said of the list is said of what a worker has read, too.                *)

Journal == [entry : Nat, exit : Nat, pnl : Results]
Recordings == [at : {"idle", "record", "read"}, read : Seq(Losses), trade : Nat]

SeriesTypes ==
  /\ hour \in Nat /\ series \in Seq(Losses)
  /\ recording \in [Workers -> Recordings]
  /\ trades \in Seq(Journal) /\ \A k \in DOMAIN trades : trades[k].exit <= hour
  /\ skipped \subseteq DOMAIN trades

\* A worker records a trade of its own, that has just closed; of two that have read the list
\* both trades have raced.
Apart ==
  /\ \A w \in Workers :
       IF recording[w].at = "idle" THEN recording[w].trade = 0
       ELSE /\ recording[w].trade \in DOMAIN trades \ skipped
            /\ trades[recording[w].trade].exit = hour
            /\ recording[w].at = "read" => trades[recording[w].trade].pnl < 0
  /\ \A v, w \in Workers :
       recording[v].at # "idle" /\ recording[v].trade = recording[w].trade => v = w
  /\ \A v, w \in Workers :
       recording[v].at = "read" /\ recording[w].at = "read" /\ v # w => recording[v].trade \in raced

\* The list has losses of trades that are recorded, each once and at its hour.
FitsJournal(list, T, S, R) ==
  /\ list \in Seq(Losses) /\ Once(list)
  /\ \A e \in Range(list) : /\ e.trade \in DOMAIN T \ S /\ T[e.trade].pnl < 0
                            /\ e.at = T[e.trade].exit
                            /\ \A w \in Workers : R[w].trade # e.trade

DueIn(T, S, R, h) ==
  {k \in DOMAIN T \ S : /\ T[k].pnl < 0 /\ T[k].exit > h - WINDOW
                        /\ \A w \in Workers : R[w].trade # k}
Covers(list, due) == \A k \in due : \E e \in Range(list) : e.trade = k

Kept(list, T, S, R, r, h) == FitsJournal(list, T, S, R) /\ Covers(list, DueIn(T, S, R, h) \ r)

\* The list, and what a worker has read of it, has every loss that is due and has not raced.
ListKept == Kept(series, trades, skipped, recording, raced, hour)
ReadKept ==
  \A w \in Workers : recording[w].at = "read" =>
    Kept(recording[w].read, trades, skipped, recording, raced, hour)

NewestLast == series # <<>> => \A e \in Range(series) : e.at <= Last(series).at

SeriesInv == SeriesTypes /\ Apart /\ ListKept /\ ReadKept /\ NewestLast

\* A window is at least an hour, CONSECUTIVE_LOSS_WINDOW_HOURS.
WindowOpen == WINDOW \in Nat \ {0}

\* A list fits a journal that grew, when nothing it has is skipped or recorded again.
LEMMA KeptStays ==
  ASSUME NEW list, NEW T, NEW S, NEW R, NEW r, NEW h, Kept(list, T, S, R, r, h),
         NEW T2, NEW S2, NEW R2, NEW r2, NEW h2,
         DOMAIN T \subseteq DOMAIN T2, \A k \in DOMAIN T : T2[k] = T[k],
         \A k \in DOMAIN T : k \in S2 => k \in S \/ \E w \in Workers : R[w].trade = k,
         \A k \in DOMAIN T : \A w \in Workers : R2[w].trade = k => \E v \in Workers : R[v].trade = k,
         DueIn(T2, S2, R2, h2) \ r2 \subseteq DueIn(T, S, R, h) \ r
  PROVE  Kept(list, T2, S2, R2, r2, h2)
<1>1. FitsJournal(list, T, S, R) /\ Covers(list, DueIn(T, S, R, h) \ r)
  BY DEF Kept
<1>2. FitsJournal(list, T2, S2, R2)
  BY <1>1 DEF FitsJournal
<1>3. Covers(list, DueIn(T2, S2, R2, h2) \ r2)
  BY <1>1 DEF Covers
<1> QED
  BY <1>2, <1>3 DEF Kept

LEMMA SeriesStarts == SeriesInit => SeriesInv
<1> SUFFICES ASSUME SeriesInit PROVE SeriesInv
  OBVIOUS
<1>1. /\ hour = 0 /\ series = <<>> /\ skipped = {} /\ trades = <<>> /\ raced = {}
      /\ recording = [w \in Workers |-> Nothing]
  BY DEF SeriesInit
<1>2. Nothing \in Recordings /\ Nothing.at = "idle" /\ Nothing.trade = 0
  BY EmptySeq DEF Nothing, Recordings
<1>3. <<>> \in Seq(Losses) /\ <<>> \in Seq(Journal) /\ DOMAIN <<>> = {} /\ Range(<<>>) = {}
  BY EmptySeq DEF Range
<1> HIDE DEF Nothing
<1>4. \A w \in Workers : recording[w] = Nothing
  BY <1>1
<1>5. SeriesTypes
  BY <1>1, <1>2, <1>3 DEF SeriesTypes
<1>6. Apart /\ ReadKept /\ NewestLast
  BY <1>1, <1>2, <1>4 DEF Apart, ReadKept, NewestLast
<1>7. DueIn(trades, skipped, recording, hour) = {}
  BY <1>1, <1>3 DEF DueIn
<1>8. ListKept
  BY <1>1, <1>3, <1>7 DEF ListKept, Kept, FitsJournal, Covers, Once
<1> QED
  BY <1>5, <1>6, <1>8 DEF SeriesInv

\* A step that does not write the list keeps what is said of it and of what has been read,
\* when no more is due and a worker that reads reads the list.
LEMMA SeriesUntouched ==
  ASSUME SeriesInv, series' = series,
         DOMAIN trades \subseteq DOMAIN trades', \A k \in DOMAIN trades : trades'[k] = trades[k],
         \A k \in DOMAIN trades : k \in skipped' => k \in skipped \/ \E w \in Workers : recording[w].trade = k,
         \A k \in DOMAIN trades : \A w \in Workers :
           recording'[w].trade = k => \E v \in Workers : recording[v].trade = k,
         DueIn(trades', skipped', recording', hour') \ raced'
           \subseteq DueIn(trades, skipped, recording, hour) \ raced,
         \A w \in Workers : recording'[w].at = "read" =>
           \/ recording[w].at = "read" /\ recording'[w].read = recording[w].read
           \/ recording'[w].read = series
  PROVE  ListKept' /\ ReadKept'
<1>1. ASSUME NEW list, Kept(list, trades, skipped, recording, raced, hour)
      PROVE  Kept(list, trades', skipped', recording', raced', hour')
  <2> DEFINE T == trades  S == skipped  R == recording  r == raced  h == hour
             T2 == trades'  S2 == skipped'  R2 == recording'  r2 == raced'  h2 == hour'
  <2>1. Kept(list, T, S, R, r, h)
    BY <1>1
  <2>2. /\ DOMAIN T \subseteq DOMAIN T2 /\ \A k \in DOMAIN T : T2[k] = T[k]
        /\ \A k \in DOMAIN T : k \in S2 => k \in S \/ \E w \in Workers : R[w].trade = k
        /\ \A k \in DOMAIN T : \A w \in Workers : R2[w].trade = k => \E v \in Workers : R[v].trade = k
        /\ DueIn(T2, S2, R2, h2) \ r2 \subseteq DueIn(T, S, R, h) \ r
    OBVIOUS
  <2> HIDE DEF T, S, R, r, h, T2, S2, R2, r2, h2
  <2>3. Kept(list, T2, S2, R2, r2, h2)
    BY <2>1, <2>2, KeptStays
  <2> QED
    BY <2>3 DEF T2, S2, R2, r2, h2
<1>2. ListKept'
  BY <1>1 DEF SeriesInv, ListKept
<1>3. ReadKept'
  BY <1>1 DEF SeriesInv, ListKept, ReadKept
<1> QED
  BY <1>2, <1>3

LEMMA CloseKeeps ==
  ASSUME SeriesInv, NEW w \in Workers, Close(w)
  PROVE  SeriesInv'
<1> DEFINE n == Len(trades) + 1
           r == [Nothing EXCEPT !.at = "record", !.trade = n]
<1>1. PICK pnl \in Results, entry \in {0, hour} :
        trades' = Append(trades, [entry |-> entry, exit |-> hour, pnl |-> pnl])
  BY DEF Close
<1> DEFINE row == [entry |-> entry, exit |-> hour, pnl |-> pnl]
<1>2. /\ hour \in Nat /\ trades \in Seq(Journal) /\ skipped \subseteq DOMAIN trades
      /\ recording \in [Workers -> Recordings] /\ recording[w].at = "idle"
      /\ \A k \in DOMAIN trades : trades[k].exit <= hour
  BY DEF SeriesInv, SeriesTypes, Close
<1>3. row \in Journal /\ row.exit = hour
  BY <1>2 DEF Journal
<1>4. trades' = Append(trades, row)
  BY <1>1
<1> HIDE DEF row
<1>5. /\ trades' \in Seq(Journal) /\ Len(trades') = n /\ trades'[n] = row
      /\ DOMAIN trades' = DOMAIN trades \cup {n} /\ n \notin DOMAIN trades /\ n \in Nat \ {0}
      /\ \A k \in DOMAIN trades : trades'[k] = trades[k]
  BY <1>2, <1>3, <1>4
<1>6. /\ UNCHANGED <<hour, series, skipped, raced>>
      /\ recording' = [recording EXCEPT ![w] = r]
  BY <1>5 DEF Close
<1> HIDE DEF n
<1>7. r \in Recordings /\ r.at = "record" /\ r.trade = n
  BY <1>5, EmptySeq DEF Nothing, Recordings
<1> HIDE DEF r
<1>8. /\ recording' \in [Workers -> Recordings]
      /\ \A v \in Workers : recording'[v] = IF v = w THEN r ELSE recording[v]
  BY <1>2, <1>6, <1>7
<1>9. SeriesTypes'
  BY <1>2, <1>3, <1>5, <1>6, <1>8 DEF SeriesInv, SeriesTypes
<1>10. Apart /\ \A v \in Workers : recording[v].trade # n
  <2>1. Apart
    BY DEF SeriesInv
  <2> QED
    BY <1>5, <2>1 DEF Apart
<1>11. Apart'
  <2>1. \A v \in Workers :
          IF recording'[v].at = "idle" THEN recording'[v].trade = 0
          ELSE /\ recording'[v].trade \in DOMAIN trades' \ skipped'
               /\ trades'[recording'[v].trade].exit = hour'
               /\ recording'[v].at = "read" => trades'[recording'[v].trade].pnl < 0
    BY <1>2, <1>3, <1>5, <1>6, <1>7, <1>8, <1>10 DEF Apart
  <2>2. \A u, v \in Workers :
          recording'[u].at # "idle" /\ recording'[u].trade = recording'[v].trade => u = v
    BY <1>7, <1>8, <1>10 DEF Apart
  <2>3. \A u, v \in Workers :
          recording'[u].at = "read" /\ recording'[v].at = "read" /\ u # v => recording'[u].trade \in raced'
    BY <1>6, <1>7, <1>8, <1>10 DEF Apart
  <2> QED
    BY <2>1, <2>2, <2>3 DEF Apart
<1>12. ListKept' /\ ReadKept'
  <2>1. DueIn(trades', skipped', recording', hour') \subseteq DueIn(trades, skipped, recording, hour)
    <3>1. \A k \in DOMAIN trades : (\A v \in Workers : recording'[v].trade # k)
                                     => \A v \in Workers : recording[v].trade # k
      <4>1. Apart /\ 0 \notin DOMAIN trades
        BY <1>2, <1>10
      <4> QED
        BY <1>2, <1>8, <4>1 DEF Apart
    <3>2. recording'[w].trade = n
      BY <1>7, <1>8
    <3> QED
      BY <1>5, <1>6, <3>1, <3>2 DEF DueIn
  <2>2. \A k \in DOMAIN trades : \A v \in Workers :
           recording'[v].trade = k => \E u \in Workers : recording[u].trade = k
    BY <1>5, <1>7, <1>8
  <2>3. \A v \in Workers : recording'[v].at = "read" =>
           recording[v].at = "read" /\ recording'[v].read = recording[v].read
    BY <1>7, <1>8
  <2> QED
    BY <1>5, <1>6, <2>1, <2>2, <2>3, SeriesUntouched
<1>13. NewestLast'
  BY <1>6 DEF SeriesInv, NewestLast
<1> QED
  BY <1>9, <1>11, <1>12, <1>13 DEF SeriesInv

\* A result that adds nothing to the list: the breaker is locked, the loss is a large one, or
\* there is no loss.
LEMMA RecordKeeps ==
  ASSUME SeriesInv, NEW w \in Workers, Ignored(w) \/ RecordLarge(w) \/ RecordGain(w)
  PROVE  SeriesInv'
<1> DEFINE mine == recording[w].trade
<1>1. /\ UNCHANGED <<hour, series, trades, raced>> /\ recording[w].at = "record"
      /\ recording' = [recording EXCEPT ![w] = Nothing]
      /\ skipped' = skipped \cup {mine} \/ (skipped' = skipped /\ trades[mine].pnl >= 0)
  BY DEF Ignored, RecordLarge, RecordGain, Skip, Result
<1>2. /\ recording \in [Workers -> Recordings] /\ trades \in Seq(Journal)
      /\ skipped \subseteq DOMAIN trades
  BY DEF SeriesInv, SeriesTypes
<1>3. Nothing \in Recordings /\ Nothing.at = "idle" /\ Nothing.trade = 0
  BY EmptySeq DEF Nothing, Recordings
<1> HIDE DEF Nothing
<1>4. /\ recording' \in [Workers -> Recordings]
      /\ \A v \in Workers : recording'[v] = IF v = w THEN Nothing ELSE recording[v]
  BY <1>1, <1>2, <1>3
<1>5. Apart
  BY DEF SeriesInv
<1>6. mine \in DOMAIN trades /\ 0 \notin DOMAIN trades
  BY <1>1, <1>2, <1>5 DEF Apart
<1>7. \A k \in skipped' : k \in skipped \/ k = mine
  BY <1>1
<1>8. SeriesTypes'
  BY <1>1, <1>4, <1>6, <1>7 DEF SeriesInv, SeriesTypes
<1>9. Apart'
  <2>1. \A v \in Workers : recording'[v].at # "idle" => v # w /\ recording'[v] = recording[v]
    BY <1>3, <1>4
  <2>2. \A v \in Workers : recording'[v].at # "idle" => recording[v].trade # mine
    BY <1>1, <1>5, <2>1 DEF Apart
  <2>3. \A v \in Workers :
          IF recording'[v].at = "idle" THEN recording'[v].trade = 0
          ELSE /\ recording'[v].trade \in DOMAIN trades' \ skipped'
               /\ trades'[recording'[v].trade].exit = hour'
               /\ recording'[v].at = "read" => trades'[recording'[v].trade].pnl < 0
    BY <1>1, <1>3, <1>4, <1>5, <1>7, <2>1, <2>2 DEF Apart
  <2>4. \A u, v \in Workers :
          recording'[u].at # "idle" /\ recording'[u].trade = recording'[v].trade => u = v
    BY <1>3, <1>4, <1>5, <1>6, <2>1 DEF Apart
  <2>5. \A u, v \in Workers :
          recording'[u].at = "read" /\ recording'[v].at = "read" /\ u # v => recording'[u].trade \in raced'
    BY <1>1, <1>5, <2>1 DEF Apart
  <2> QED
    BY <2>3, <2>4, <2>5 DEF Apart
<1>10. ListKept' /\ ReadKept'
  <2>1. \A k \in DOMAIN trades : \A v \in Workers :
           recording'[v].trade = k => \E u \in Workers : recording[u].trade = k
    BY <1>3, <1>4, <1>6
  <2>2. DueIn(trades', skipped', recording', hour') \subseteq DueIn(trades, skipped, recording, hour)
    <3>1. SUFFICES ASSUME NEW k \in DueIn(trades', skipped', recording', hour')
                   PROVE  k \in DueIn(trades, skipped, recording, hour)
      OBVIOUS
    <3>2. /\ k \in DOMAIN trades /\ k \notin skipped' /\ trades[k].pnl < 0
          /\ trades[k].exit > hour - WINDOW /\ \A v \in Workers : recording'[v].trade # k
      BY <1>1, <3>1 DEF DueIn
    <3>3. k # mine /\ k \notin skipped
      <4>1. trades[mine] \in Journal /\ Results \subseteq Int
        BY <1>2, <1>6, SeriesAssumption
      <4>2. trades[mine].pnl \in Int
        BY <4>1 DEF Journal
      <4> QED
        BY <1>1, <3>2, <4>2
    <3>4. \A v \in Workers : recording[v].trade # k
      BY <1>4, <3>2, <3>3
    <3> QED
      BY <3>2, <3>3, <3>4 DEF DueIn
  <2>3. \A v \in Workers : recording'[v].at = "read" =>
           recording[v].at = "read" /\ recording'[v].read = recording[v].read
    BY <1>3, <1>4
  <2>4. \A k \in DOMAIN trades : k \in skipped' => k \in skipped \/ \E v \in Workers : recording[v].trade = k
    BY <1>7
  <2> QED
    BY <1>1, <2>1, <2>2, <2>3, <2>4, SeriesUntouched
<1>11. NewestLast'
  BY <1>1 DEF SeriesInv, NewestLast
<1> QED
  BY <1>8, <1>9, <1>10, <1>11 DEF SeriesInv

\* A worker reads the list while another has: both trades race.
LEMMA ReadKeeps ==
  ASSUME SeriesInv, NEW w \in Workers, ReadSeries(w)
  PROVE  SeriesInv'
<1> DEFINE others == {v \in Workers : recording[v].at = "read"}
           r == [recording[w] EXCEPT !.at = "read", !.read = series]
<1>1. /\ UNCHANGED <<hour, series, trades, skipped>> /\ recording[w].at = "record"
      /\ recording' = [recording EXCEPT ![w].at = "read", ![w].read = series]
      /\ raced' = IF others = {} THEN raced
                  ELSE raced \cup {recording[v].trade : v \in others \cup {w}}
      /\ trades[recording[w].trade].pnl < 0
  BY DEF ReadSeries, Result
<1>2. /\ recording \in [Workers -> Recordings] /\ series \in Seq(Losses)
      /\ recording[w] \in Recordings
  BY DEF SeriesInv, SeriesTypes
<1>3. r \in Recordings /\ r.at = "read" /\ r.read = series /\ r.trade = recording[w].trade
  BY <1>2 DEF Recordings
<1>4. recording' = [recording EXCEPT ![w] = r]
  BY <1>1, <1>2
<1> HIDE DEF r
<1>5. /\ recording' \in [Workers -> Recordings]
      /\ \A v \in Workers : recording'[v] = IF v = w THEN r ELSE recording[v]
      /\ \A v \in Workers : recording'[v].trade = recording[v].trade
  BY <1>2, <1>3, <1>4
<1>6. SeriesTypes'
  BY <1>1, <1>5 DEF SeriesInv, SeriesTypes
<1>7. Apart
  BY DEF SeriesInv
<1>8. raced \subseteq raced' /\ \A v \in others : recording[v].trade \in raced' /\ recording[w].trade \in raced'
  BY <1>1
<1>9. Apart'
  <2>1. \A v \in Workers :
          IF recording'[v].at = "idle" THEN recording'[v].trade = 0
          ELSE /\ recording'[v].trade \in DOMAIN trades' \ skipped'
               /\ trades'[recording'[v].trade].exit = hour'
               /\ recording'[v].at = "read" => trades'[recording'[v].trade].pnl < 0
    BY <1>1, <1>3, <1>5, <1>7 DEF Apart
  <2>2. \A u, v \in Workers :
          recording'[u].at # "idle" /\ recording'[u].trade = recording'[v].trade => u = v
    BY <1>1, <1>3, <1>5, <1>7 DEF Apart
  <2>3. \A u, v \in Workers :
          recording'[u].at = "read" /\ recording'[v].at = "read" /\ u # v => recording'[u].trade \in raced'
    BY <1>3, <1>5, <1>7, <1>8 DEF Apart
  <2> QED
    BY <2>1, <2>2, <2>3 DEF Apart
<1>10. ListKept' /\ ReadKept'
  <2>1. DueIn(trades', skipped', recording', hour') \ raced'
          \subseteq DueIn(trades, skipped, recording, hour) \ raced
    BY <1>1, <1>5, <1>8 DEF DueIn
  <2>2. \A v \in Workers : recording'[v].at = "read" =>
           \/ recording[v].at = "read" /\ recording'[v].read = recording[v].read
           \/ recording'[v].read = series
    BY <1>3, <1>5
  <2> QED
    BY <1>1, <1>5, <2>1, <2>2, SeriesUntouched
<1>11. NewestLast'
  BY <1>1 DEF SeriesInv, NewestLast
<1> QED
  BY <1>6, <1>9, <1>10, <1>11 DEF SeriesInv

\* What is written is what was read and is still in the window, with this loss; another that
\* has read the list has raced with it.
LEMMA WriteKeeps ==
  ASSUME WindowOpen, SeriesInv, NEW w \in Workers, WriteSeries(w)
  PROVE  SeriesInv'
<1> DEFINE read == recording[w].read
           mine == recording[w].trade
           from == hour - WINDOW
           kept == Later(read, from)
           own == [at |-> hour, trade |-> mine]
<1>1. /\ UNCHANGED <<hour, trades, raced, skipped>> /\ recording[w].at = "read"
      /\ recording' = [recording EXCEPT ![w] = Nothing]
      /\ series' = Append(kept, own)
  BY DEF WriteSeries, Recent
<1>2. /\ recording \in [Workers -> Recordings] /\ trades \in Seq(Journal) /\ hour \in Nat
      /\ \A k \in DOMAIN trades : trades[k].exit \in Nat /\ trades[k].exit <= hour
  <2>1. SeriesTypes
    BY DEF SeriesInv
  <2>2. \A k \in DOMAIN trades : trades[k] \in Journal
    BY <2>1 DEF SeriesTypes
  <2>3. \A k \in DOMAIN trades : trades[k].exit \in Nat
    BY <2>2 DEF Journal
  <2> QED
    BY <2>1, <2>3 DEF SeriesTypes
<1>3. /\ Kept(read, trades, skipped, recording, raced, hour)
      /\ Apart
  BY <1>1 DEF SeriesInv, ReadKept
<1>4. /\ mine \in DOMAIN trades \ skipped /\ trades[mine].exit = hour /\ trades[mine].pnl < 0
      /\ mine \in Nat /\ 0 \notin DOMAIN trades
      /\ \A v \in Workers : v # w => recording[v].trade # mine
  BY <1>1, <1>2, <1>3 DEF Apart
<1>5. Nothing \in Recordings /\ Nothing.at = "idle" /\ Nothing.trade = 0
  BY EmptySeq DEF Nothing, Recordings
<1> HIDE DEF Nothing
<1>6. /\ recording' \in [Workers -> Recordings]
      /\ \A v \in Workers : recording'[v] = IF v = w THEN Nothing ELSE recording[v]
  BY <1>1, <1>2, <1>5
<1>7. own \in Losses /\ own.at = hour /\ own.trade = mine
  BY <1>2, <1>4 DEF Losses
<1>8. FitsJournal(read, trades, skipped, recording)
  BY <1>3 DEF Kept
<1> HIDE DEF read, mine, own, kept
<1>9. /\ kept \in Seq(Losses) /\ Range(kept) = {e \in Range(read) : e.at > from}
      /\ Once(kept)
  BY <1>8, LaterKeeps DEF FitsJournal, kept
<1>10. /\ series' \in Seq(Losses) /\ Range(series') = Range(kept) \cup {own}
       /\ Last(series') = own
  BY <1>1, <1>7, <1>9, RangeOfAppend DEF Last
<1>11. \A v \in Workers : recording'[v].trade # mine
  BY <1>4, <1>5, <1>6
<1>12. \A k \in DOMAIN trades : \A v \in Workers :
         recording'[v].trade = k => recording[v].trade = k
  BY <1>4, <1>5, <1>6
<1>13. FitsJournal(series', trades', skipped', recording')
  <2>1. Once(series')
    <3>1. \A x \in Range(kept) : x.trade # mine
      BY <1>8, <1>9 DEF FitsJournal, mine
    <3> QED
      BY <1>1, <1>7, <1>9, <3>1, OnceAppended
  <2>2. \A e \in Range(series') :
          /\ e.trade \in DOMAIN trades \ skipped /\ trades[e.trade].pnl < 0
          /\ e.at = trades[e.trade].exit
          /\ \A v \in Workers : recording'[v].trade # e.trade
    <3>1. \A e \in Range(kept) :
            /\ e.trade \in DOMAIN trades \ skipped /\ trades[e.trade].pnl < 0
            /\ e.at = trades[e.trade].exit
            /\ \A v \in Workers : recording'[v].trade # e.trade
      BY <1>8, <1>9, <1>12 DEF FitsJournal
    <3> QED
      BY <1>4, <1>7, <1>10, <1>11, <3>1
  <2> QED
    BY <1>1, <1>10, <2>1, <2>2 DEF FitsJournal
<1> DEFINE due == DueIn(trades, skipped, recording, hour)
<1>14. /\ DueIn(trades', skipped', recording', hour') \subseteq due \cup {mine}
       /\ \A k \in due : k \in DOMAIN trades /\ trades[k].exit > from
  <2>1. \A k : (\A v \in Workers : recording'[v].trade # k) /\ k # mine
                 => \A v \in Workers : recording[v].trade # k
    BY <1>6 DEF mine
  <2> QED
    BY <1>1, <2>1 DEF DueIn
<1> HIDE DEF due, from
<1>15. ListKept'
  <2>1. \A k \in due \ raced : \E e \in Range(series') : e.trade = k
    <3>1. SUFFICES ASSUME NEW k \in due \ raced PROVE \E e \in Range(series') : e.trade = k
      OBVIOUS
    <3>2. PICK e \in Range(read) : e.trade = k
      BY <1>3 DEF Kept, Covers, due
    <3>3. e.at > from
      BY <1>8, <1>14, <3>2 DEF FitsJournal
    <3> QED
      BY <1>9, <1>10, <3>2, <3>3
  <2>2. Covers(series', DueIn(trades', skipped', recording', hour') \ raced')
    BY <1>1, <1>7, <1>10, <1>14, <2>1 DEF Covers
  <2> QED
    BY <1>13, <2>2 DEF ListKept, Kept
<1>16. ReadKept'
  <2>1. SUFFICES ASSUME NEW v \in Workers, recording'[v].at = "read"
                 PROVE  Kept(recording[v].read, trades', skipped', recording', raced', hour')
    BY <1>5, <1>6 DEF ReadKept
  <2> DEFINE list == recording[v].read
  <2>2. v # w /\ recording[v].at = "read" /\ mine \in raced
    BY <1>1, <1>3, <1>5, <1>6, <2>1 DEF Apart, mine
  <2>3. Kept(list, trades, skipped, recording, raced, hour)
    BY <2>2 DEF SeriesInv, ReadKept
  <2> HIDE DEF list
  <2>4. FitsJournal(list, trades', skipped', recording')
    BY <1>1, <1>12, <2>3 DEF Kept, FitsJournal
  <2>5. Covers(list, DueIn(trades', skipped', recording', hour') \ raced')
    BY <1>1, <1>14, <2>2, <2>3 DEF Kept, Covers, due
  <2> QED
    BY <2>4, <2>5 DEF Kept, list
<1>17. SeriesTypes'
  BY <1>1, <1>6, <1>10 DEF SeriesInv, SeriesTypes
<1>18. Apart'
  <2>1. \A v \in Workers : recording'[v].at # "idle" => v # w /\ recording'[v] = recording[v]
    BY <1>5, <1>6
  <2>2. \A v \in Workers : recording'[v].at = "idle" => recording'[v].trade = 0
    BY <1>3, <1>5, <1>6 DEF Apart
  <2>3. \A u, v \in Workers :
          recording'[u].at # "idle" /\ recording'[u].trade = recording'[v].trade => u = v
    <3>1. \A u \in Workers : recording'[u].at # "idle" => recording'[u].trade # 0
      BY <1>3, <1>4, <2>1 DEF Apart
    <3> QED
      BY <1>3, <2>1, <2>2, <3>1 DEF Apart
  <2> QED
    BY <1>1, <1>3, <2>1, <2>2, <2>3 DEF Apart
<1>19. NewestLast'
  <2>1. \A e \in Range(series') : e.at <= hour
    BY <1>1, <1>2, <1>13 DEF FitsJournal
  <2> QED
    BY <1>7, <1>10, <2>1 DEF NewestLast
<1> QED
  BY <1>15, <1>16, <1>17, <1>18, <1>19 DEF SeriesInv

\* A list that expires has nothing left of the window.
LEMMA HourKeeps ==
  ASSUME WindowOpen, SeriesInv, HourPasses
  PROVE  SeriesInv'
<1> DEFINE gone == series # <<>> /\ Last(series).at + WINDOW < hour + 1
<1>1. /\ hour' = hour + 1 /\ UNCHANGED <<recording, trades, skipped, raced>>
      /\ \A w \in Workers : recording[w].at = "idle"
      /\ series' = IF gone THEN <<>> ELSE series
  BY DEF HourPasses
<1>2. /\ hour \in Nat /\ series \in Seq(Losses) /\ trades \in Seq(Journal)
      /\ \A k \in DOMAIN trades : trades[k].exit \in Nat /\ trades[k].exit <= hour
  <2>1. SeriesTypes
    BY DEF SeriesInv
  <2>2. \A k \in DOMAIN trades : trades[k] \in Journal
    BY <2>1 DEF SeriesTypes
  <2>3. \A k \in DOMAIN trades : trades[k].exit \in Nat
    BY <2>2 DEF Journal
  <2> QED
    BY <2>1, <2>3 DEF SeriesTypes
<1> HIDE DEF gone
<1>3. SeriesTypes'
  <2>1. series' \in Seq(Losses)
    BY <1>1, <1>2, EmptySeq
  <2>2. \A k \in DOMAIN trades : trades[k].exit <= hour + 1
    BY <1>2
  <2> QED
    BY <1>1, <1>2, <2>1, <2>2 DEF SeriesInv, SeriesTypes
<1>4. Apart'
  BY <1>1 DEF SeriesInv, Apart
<1>5. ReadKept'
  BY <1>1 DEF ReadKept
<1>6. NewestLast'
  BY <1>1 DEF SeriesInv, NewestLast
<1> DEFINE before == DueIn(trades, skipped, recording, hour)
           now == DueIn(trades', skipped', recording', hour')
<1>7. /\ now \subseteq before
      /\ \A k \in now : k \in DOMAIN trades /\ trades[k].exit > hour + 1 - WINDOW
  <2>1. \A k \in DOMAIN trades : trades[k].exit > hour + 1 - WINDOW => trades[k].exit > hour - WINDOW
    BY <1>2 DEF WindowOpen
  <2>2. hour' - WINDOW = hour + 1 - WINDOW
    BY <1>1, <1>2 DEF WindowOpen
  <2>3. \A k \in now : /\ k \in DOMAIN trades \ skipped /\ trades[k].pnl < 0
                        /\ trades[k].exit > hour + 1 - WINDOW
                        /\ \A w \in Workers : recording[w].trade # k
    BY <1>1, <2>2 DEF DueIn
  <2> QED
    BY <2>1, <2>3 DEF DueIn
<1>8. FitsJournal(series, trades, skipped, recording) /\ Covers(series, before \ raced)
  BY DEF SeriesInv, ListKept, Kept
<1> HIDE DEF before, now
<1>9. CASE ~gone
  <2>1. series' = series /\ FitsJournal(series, trades', skipped', recording')
    BY <1>1, <1>8, <1>9 DEF FitsJournal
  <2>2. Covers(series, now \ raced')
    BY <1>1, <1>7, <1>8 DEF Covers
  <2>3. ListKept'
    BY <2>1, <2>2 DEF ListKept, Kept, now
  <2> QED
    BY <1>3, <1>4, <1>5, <1>6, <2>3 DEF SeriesInv
<1>10. CASE gone
  <2>1. series' = <<>> /\ Range(<<>>) = {} /\ Once(<<>>) /\ <<>> \in Seq(Losses)
    BY <1>1, <1>10, EmptySeq DEF Range, Once
  <2>2. FitsJournal(series', trades', skipped', recording')
    BY <2>1 DEF FitsJournal
  <2>3. \A k \in now \ raced : FALSE
    <3>1. SUFFICES ASSUME NEW k \in now \ raced PROVE FALSE
      OBVIOUS
    <3>2. PICK e \in Range(series) : e.trade = k
      BY <1>7, <1>8 DEF Covers
    <3>3. e.at = trades[k].exit /\ trades[k].exit > hour + 1 - WINDOW /\ trades[k].exit \in Nat
      BY <1>2, <1>7, <1>8, <3>2 DEF FitsJournal
    <3>4. series # <<>> /\ e.at <= Last(series).at /\ Last(series).at + WINDOW < hour + 1
      BY <1>10, <3>2 DEF SeriesInv, NewestLast, gone
    <3>5. Last(series).at \in Int
      <4>1. Last(series) = series[Len(series)] /\ series[Len(series)] \in Losses
        BY <1>2, <3>4 DEF Last
      <4> QED
        BY <4>1 DEF Losses
    <3> QED
      BY <1>2, <3>3, <3>4, <3>5 DEF WindowOpen
  <2>4. Covers(series', now \ raced')
    BY <1>1, <2>3 DEF Covers
  <2>5. ListKept'
    BY <2>2, <2>4 DEF ListKept, Kept, now
  <2> QED
    BY <1>3, <1>4, <1>5, <1>6, <2>5 DEF SeriesInv
<1> QED
  BY <1>9, <1>10

LEMMA SeriesKeeps ==
  ASSUME WindowOpen
  PROVE  SeriesInv /\ [SeriesNext]_lossVars => SeriesInv'
<1> SUFFICES ASSUME SeriesInv, [SeriesNext]_lossVars PROVE SeriesInv'
  OBVIOUS
<1>1. ASSUME NEW w \in Workers, Close(w) PROVE SeriesInv'
  BY <1>1, CloseKeeps
<1>2. ASSUME NEW w \in Workers, Ignored(w) \/ RecordLarge(w) \/ RecordGain(w) PROVE SeriesInv'
  BY <1>2, RecordKeeps
<1>3. ASSUME NEW w \in Workers, ReadSeries(w) PROVE SeriesInv'
  BY <1>3, ReadKeeps
<1>4. ASSUME NEW w \in Workers, WriteSeries(w) PROVE SeriesInv'
  BY <1>4, WriteKeeps
<1>5. CASE CheckDrawdown \/ UNCHANGED lossVars
  <2>1. UNCHANGED <<hour, series, recording, trades, skipped, raced>>
    BY <1>5 DEF CheckDrawdown, lossVars
  <2> QED
    BY <2>1 DEF SeriesInv, SeriesTypes, Apart, ListKept, ReadKept, NewestLast
<1>6. CASE HourPasses
  BY <1>6, HourKeeps
<1> QED
  BY <1>1, <1>2, <1>3, <1>4, <1>5, <1>6 DEF SeriesNext

\* What is said of the whole list, of its part in the window.
LEMMA SeriesInvHolds == SeriesInv => SeriesComplete
<1> SUFFICES ASSUME SeriesInv PROVE SeriesComplete
  OBVIOUS
<1> DEFINE from == hour - WINDOW
<1>1. FitsJournal(series, trades, skipped, recording) /\ Covers(series, Due \ raced)
  BY DEF SeriesInv, ListKept, Kept, DueIn, Due
<1>2. Range(Recent(series)) = {e \in Range(series) : e.at > from} /\ Once(Recent(series))
  BY <1>1, LaterKeeps DEF FitsJournal, Recent
<1>3. \A e \in Range(series) : e.at > from => e.trade \in Due
  BY <1>1 DEF FitsJournal, Due
<1>4. ASSUME NEW k \in Due \ raced PROVE k \in Listed
  <2>1. PICK e \in Range(series) : e.trade = k
    BY <1>1 DEF Covers
  <2>2. e.at > from
    BY <1>1, <2>1 DEF FitsJournal, Due
  <2> QED
    BY <1>2, <2>1, <2>2 DEF Listed
<1> HIDE DEF from
<1>5. Listed \subseteq Due
  BY <1>2, <1>3 DEF Listed
<1> QED
  BY <1>2, <1>4, <1>5 DEF SeriesComplete, Once

\* For any number of workers, results, limits and hours: every loss of the journal's last
\* WINDOW hours that was recorded while the breaker was not locked is on the list, unless its own
\* recording overlapped another's; nothing else is on it and nothing twice, although results are
\* skipped while it is locked, recordings race and the list expires between losses
\* (record_trade_result, _check_consecutive_losses and the key's time to live).
THEOREM NoLossMissing == SeriesSpec => []SeriesComplete
<1>1. WindowOpen
  BY SeriesAssumption DEF WindowOpen
<1> QED
  BY <1>1, SeriesInvHolds, SeriesStarts, SeriesKeeps, PTL DEF SeriesSpec

-----------------------------------------------------------------------------
(* The drawdown *)

\* Sums over sets that have nothing in common add up.
LEMMA SumDisjoint ==
  ASSUME NEW f, NEW S, NEW T, IsFiniteSet(S), IsFiniteSet(T), S \cap T = {},
         \A x \in S \cup T : f[x] \in Int
  PROVE  SumFunctionOnSet(f, S \cup T) = SumFunctionOnSet(f, S) + SumFunctionOnSet(f, T)
<1> DEFINE total(t) == SumFunctionOnSet(f, t)
           P == {t \in SUBSET T : total(S \cup t) = total(S) + total(t)}
<1>1. ASSUME NEW t \in SUBSET T, \A u \in SUBSET t : u # t => u \in P
      PROVE  t \in P
  <2>1. IsFiniteSet(t) /\ IsFiniteSet(S \cup t) /\ total(S) \in Int
    BY FS_Subset, FS_Union, SumInt
  <2>2. CASE t = {}
    <3>1. S \cup t = S /\ total(t) = 0
      BY <2>2, SumEmpty
    <3>2. total(S \cup t) = total(S)
      BY <3>1
    <3> HIDE DEF total
    <3> QED
      BY <2>1, <3>1, <3>2
  <2>3. CASE t # {}
    <3>1. PICK x \in t : TRUE
      BY <2>3
    <3> DEFINE u == t \ {x}
               before == S \cup u
    <3>2. u \in P /\ IsFiniteSet(u)
      BY <1>1, <2>1, <3>1, FS_Subset
    <3>3. (S \cup t) \ {x} = before
      BY <3>1
    <3>4. total(S \cup t) = f[x] + total(before)
      <4>1. \A y \in S \cup t : f[y] \in Int
        OBVIOUS
      <4>2. x \in S \cup t
        BY <3>1
      <4>3. total(S \cup t) = f[x] + total((S \cup t) \ {x})
        BY <2>1, <4>1, <4>2, SumRemove
      <4> QED
        BY <3>3, <4>3
    <3>5. total(t) = f[x] + total(u)
      BY <2>1, <3>1, SumRemove
    <3>6. total(u) \in Int /\ f[x] \in Int
      BY <3>1, <3>2, SumInt
    <3>7. total(before) = total(S) + total(u)
      BY <3>2
    <3> HIDE DEF P, u, before, total
    <3>8. total(S \cup t) = total(S) + total(t)
      BY <2>1, <3>4, <3>5, <3>6, <3>7
    <3> QED
      BY <3>8 DEF P
  <2> QED
    BY <2>2, <2>3
<1> HIDE DEF P
<1>2. T \in P
  BY <1>1, SubsetInduction
<1> QED
  BY <1>2 DEF P

\* Results are whole, a lock lasts, and the window of the peak does not look ahead.
Amounts ==
  /\ Results \subseteq Int /\ Capital \in Int
  /\ LOCK \in Nat \ {0} /\ HoursOfDay \in Nat \ {0} /\ PEAK_WINDOW \in Nat

JournalRows == [entry : Nat, exit : Nat, pnl : Results]

\* The journal is in the order of the exits.
JournalInv ==
  /\ hour \in Nat /\ lockEnds \in Int
  /\ trades \in Seq(JournalRows)
  /\ \A k \in DOMAIN trades : trades[k].exit <= hour
  /\ \A j, k \in DOMAIN trades : j <= k => trades[j].exit <= trades[k].exit

\* Before the trade with this place, the equity was what the trades from it on have not made.
LEMMA EquityBefore ==
  ASSUME Amounts, JournalInv
  PROVE  /\ Equity = EquityAfter(Len(trades))
         /\ \A i \in DOMAIN trades : Equity - Made(i..Len(trades)) = EquityAfter(i - 1)
<1> DEFINE n == Len(trades)
           f == [k \in DOMAIN trades |-> trades[k].pnl]
<1>1. n \in Nat /\ DOMAIN trades = 1..n /\ \A k \in 1..n : f[k] \in Int
  <2>1. trades \in Seq(JournalRows)
    BY DEF JournalInv
  <2>2. n \in Nat /\ DOMAIN trades = 1..n /\ \A k \in 1..n : trades[k] \in JournalRows
    BY <2>1
  <2>3. \A k \in 1..n : trades[k].pnl \in Int
    BY <2>2 DEF JournalRows, Amounts
  <2> QED
    BY <2>2, <2>3
<1> HIDE DEF f
<1>2. \A S : Made(S) = SumFunctionOnSet(f, S)
  BY DEF Made, f
<1>3. ASSUME NEW i \in 1..n PROVE Equity - Made(i..n) = EquityAfter(i - 1)
  <2> DEFINE A == 1..(i - 1)
             B == i..n
  <2>1. IsFiniteSet(A) /\ IsFiniteSet(B)
    <3>1. i - 1 \in Int /\ i \in Int /\ n \in Int /\ 1 \in Int
      BY <1>1
    <3> QED
      BY <3>1, FS_Interval
  <2>2. A \cup B = 1..n /\ A \cap B = {}
    BY <1>1
  <2>3. \A x \in A \cup B : f[x] \in Int
    BY <1>1, <2>2
  <2> HIDE DEF A, B
  <2>4. SumFunctionOnSet(f, A \cup B) = SumFunctionOnSet(f, A) + SumFunctionOnSet(f, B)
    BY <2>1, <2>2, <2>3, SumDisjoint
  <2>5. SumFunctionOnSet(f, A) \in Int /\ SumFunctionOnSet(f, B) \in Int
    BY <2>1, <2>3, SumInt
  <2>6. Equity = Capital + SumFunctionOnSet(f, A \cup B)
    BY <1>1, <1>2, <2>2 DEF Equity
  <2>7. EquityAfter(i - 1) = Capital + SumFunctionOnSet(f, A) /\ Made(i..n) = SumFunctionOnSet(f, B)
    BY <1>2 DEF EquityAfter, A, B
  <2> QED
    BY <2>4, <2>5, <2>6, <2>7 DEF Amounts
<1> QED
  BY <1>1, <1>3 DEF Equity, EquityAfter

\* The equities looked at backwards from now are those of every moment of the window.
LEMMA PeakIsHigh ==
  ASSUME Amounts, JournalInv
  PROVE  ComputedPeak = High
<1> DEFINE n == Len(trades)
           back == {Equity} \cup {Equity - Made({k \in InWindow : k >= i}) : i \in InWindow}
           moments == {i \in 0..n : i = n \/ trades[i + 1].exit >= hour - PEAK_WINDOW}
           high == {EquityAfter(i) : i \in moments}
<1>1. n \in Nat /\ DOMAIN trades = 1..n
  BY DEF JournalInv
<1>2. ASSUME NEW i \in InWindow PROVE {k \in InWindow : k >= i} = i..n
  <2>1. i \in 1..n /\ trades[i].exit >= hour - PEAK_WINDOW
    BY <1>1, <1>2 DEF InWindow
  <2>2. \A k \in 1..n : trades[k].exit \in Int
    <3>1. trades \in Seq(JournalRows)
      BY DEF JournalInv
    <3>2. \A k \in 1..n : trades[k] \in JournalRows
      BY <3>1
    <3> QED
      BY <3>2 DEF JournalRows
  <2>3. hour - PEAK_WINDOW \in Int
    BY DEF JournalInv, Amounts
  <2>4. ASSUME NEW k \in 1..n, k >= i PROVE trades[k].exit >= hour - PEAK_WINDOW
    <3>1. trades[i].exit <= trades[k].exit
      BY <1>1, <2>1, <2>4 DEF JournalInv
    <3> QED
      BY <2>1, <2>2, <2>3, <3>1
  <2> QED
    BY <1>1, <2>1, <2>4 DEF InWindow
<1>3. ASSUME NEW i \in InWindow
      PROVE  /\ i - 1 \in moments
             /\ Equity - Made({k \in InWindow : k >= i}) = EquityAfter(i - 1)
  <2>1. i \in 1..n /\ trades[i].exit >= hour - PEAK_WINDOW
    BY <1>1, <1>3 DEF InWindow
  <2>2. i - 1 \in 0..n /\ (i - 1) + 1 = i
    BY <1>1, <2>1
  <2>3. Equity - Made(i..n) = EquityAfter(i - 1)
    BY <1>1, <2>1, EquityBefore
  <2> QED
    BY <1>2, <2>1, <2>2, <2>3
<1>4. ASSUME NEW i \in moments, i # n
      PROVE  /\ i + 1 \in InWindow
             /\ EquityAfter(i) = Equity - Made({k \in InWindow : k >= i + 1})
  <2>1. i \in 0..n /\ trades[i + 1].exit >= hour - PEAK_WINDOW
    BY <1>4
  <2>2. i + 1 \in 1..n /\ (i + 1) - 1 = i
    <3>1. n \in Nat /\ i \in 0..n /\ i # n
      BY <1>1, <1>4
    <3> HIDE DEF n
    <3> QED
      BY <3>1
  <2>3. i + 1 \in InWindow
    BY <1>1, <2>1, <2>2 DEF InWindow
  <2> QED
    BY <1>3, <2>2, <2>3
<1>5. Equity = EquityAfter(n) /\ n \in moments
  BY <1>1, EquityBefore
<1> HIDE DEF moments
<1>6. back \subseteq high
  BY <1>3, <1>5
<1>7. high \subseteq back
  BY <1>4, <1>5
<1>8. back = high
  BY <1>6, <1>7
<1> QED
  BY <1>8 DEF ComputedPeak, High, moments

LEMMA Larger == \A a, b \in Int : Max({a, b}) \in Int /\ Max({a, b}) >= b
<1> SUFFICES ASSUME NEW a \in Int, NEW b \in Int
             PROVE  Max({a, b}) \in Int /\ Max({a, b}) >= b
  OBVIOUS
<1>1. \E x \in {a, b} : \A y \in {a, b} : x >= y
  <2>1. a >= b \/ b >= a
    OBVIOUS
  <2> QED
    BY <2>1
<1>2. Max({a, b}) \in {a, b} /\ \A y \in {a, b} : Max({a, b}) >= y
  BY <1>1 DEF Max
<1> HIDE DEF Max
<1> QED
  BY <1>2

LEMMA JournalStarts == SeriesInit => JournalInv
<1> SUFFICES ASSUME SeriesInit PROVE JournalInv
  OBVIOUS
<1>1. hour = 0 /\ lockEnds = 0 /\ trades = <<>>
  BY DEF SeriesInit
<1>2. <<>> \in Seq(JournalRows)
  BY EmptySeq
<1> QED
  BY <1>1, <1>2 DEF JournalInv

\* Whatever a lock is set to, it ends at some hour.
LEMMA LockWhole ==
  ASSUME Amounts, JournalInv, NEW w \in Workers, RecordLarge(w) \/ RecordGain(w) \/ WriteSeries(w)
  PROVE  lockEnds' \in Int
<1>1. hour \in Int /\ lockEnds \in Int /\ hour + LOCK \in Int
  BY DEF JournalInv, Amounts
<1>2. Midnight \in Int
  <2>1. hour \div HoursOfDay \in Int /\ HoursOfDay \in Int
    BY <1>1 DEF Amounts
  <2> DEFINE d == hour \div HoursOfDay
  <2>2. Midnight = (d + 1) * HoursOfDay
    BY DEF Midnight
  <2> HIDE DEF d
  <2>3. d \in Int
    BY <2>1 DEF d
  <2> QED
    BY <2>1, <2>2, <2>3
<1>3. lockEnds' \in {lockEnds, Max({lockEnds, hour + LOCK}), Max({lockEnds, Midnight})}
  BY DEF RecordLarge, RecordGain, WriteSeries, CheckDaily, Lock
<1> QED
  BY <1>1, <1>2, <1>3, Larger

LEMMA CloseFiles ==
  ASSUME JournalInv, NEW w \in Workers, Close(w)
  PROVE  JournalInv'
<1>1. PICK pnl \in Results, entry \in {0, hour} :
        trades' = Append(trades, [entry |-> entry, exit |-> hour, pnl |-> pnl])
  BY DEF Close
<1> DEFINE n == Len(trades)
           row == [entry |-> entry, exit |-> hour, pnl |-> pnl]
<1>2. hour \in Nat /\ lockEnds \in Int /\ trades \in Seq(JournalRows)
  BY DEF JournalInv
<1>3. row \in JournalRows /\ row.exit = hour
  BY <1>2 DEF JournalRows
<1>4. trades' = Append(trades, row) /\ hour' = hour /\ lockEnds' = lockEnds
  BY <1>1 DEF Close
<1> HIDE DEF row
<1>5. /\ trades' \in Seq(JournalRows) /\ n \in Nat
      /\ DOMAIN trades' = 1..(n + 1) /\ DOMAIN trades = 1..n
      /\ trades'[n + 1] = row /\ \A k \in 1..n : trades'[k] = trades[k]
  BY <1>2, <1>3, <1>4
<1>6. \A k \in 1..n : trades[k].exit \in Int /\ trades[k].exit <= hour
  <2>1. \A k \in 1..n : trades[k] \in JournalRows
    BY <1>2, <1>5
  <2>2. \A k \in 1..n : trades[k].exit \in Int
    BY <2>1 DEF JournalRows
  <2>3. \A k \in DOMAIN trades : trades[k].exit <= hour
    BY DEF JournalInv
  <2> QED
    BY <1>5, <2>2, <2>3
<1> HIDE DEF n
<1>7. ASSUME NEW k \in 1..(n + 1)
      PROVE  trades'[k].exit <= hour /\ (k # n + 1 => k \in 1..n)
  <2>1. k # n + 1 => k \in 1..n
    BY <1>5
  <2>2. CASE k = n + 1
    BY <1>2, <1>3, <1>5, <2>2
  <2>3. CASE k \in 1..n
    BY <1>5, <1>6, <2>3
  <2> QED
    BY <2>1, <2>2, <2>3
<1>8. ASSUME NEW j \in 1..(n + 1), NEW k \in 1..(n + 1), j <= k
      PROVE  trades'[j].exit <= trades'[k].exit
  <2>1. CASE k = n + 1
    BY <1>3, <1>5, <1>7, <2>1
  <2>2. CASE k # n + 1
    <3>1. k \in 1..n /\ j \in 1..n
      BY <1>5, <1>7, <1>8, <2>2
    <3>2. trades[j].exit <= trades[k].exit
      BY <1>5, <1>8, <3>1 DEF JournalInv
    <3> QED
      BY <1>5, <3>1, <3>2
  <2> QED
    BY <2>1, <2>2
<1>9. hour' \in Nat /\ lockEnds' \in Int
  BY <1>2, <1>4
<1> QED
  BY <1>4, <1>5, <1>7, <1>8, <1>9 DEF JournalInv

LEMMA JournalKeeps ==
  ASSUME Amounts
  PROVE  JournalInv /\ [SeriesNext]_lossVars => JournalInv'
<1> SUFFICES ASSUME JournalInv, [SeriesNext]_lossVars PROVE JournalInv'
  OBVIOUS
<1>1. ASSUME NEW w \in Workers, Close(w) PROVE JournalInv'
  BY <1>1, CloseFiles
<1>2. ASSUME hour' = hour, trades' = trades, lockEnds' \in Int PROVE JournalInv'
  BY <1>2 DEF JournalInv
<1>3. ASSUME NEW w \in Workers, RecordLarge(w) \/ RecordGain(w) \/ WriteSeries(w)
      PROVE  JournalInv'
  <2>1. hour' = hour /\ trades' = trades
    BY <1>3 DEF RecordLarge, RecordGain, WriteSeries
  <2>2. lockEnds' \in Int
    BY <1>3, LockWhole
  <2> QED
    BY <1>2, <2>1, <2>2
<1>4. ASSUME NEW w \in Workers, Ignored(w) \/ ReadSeries(w) PROVE JournalInv'
  BY <1>2, <1>4 DEF Ignored, ReadSeries, JournalInv
<1>5. CASE UNCHANGED lossVars
  BY <1>2, <1>5 DEF lossVars, JournalInv
<1>6. CASE CheckDrawdown
  <2>1. hour \in Int /\ lockEnds \in Int /\ hour + LOCK \in Int
    BY DEF JournalInv, Amounts
  <2>2. lockEnds' \in {lockEnds, Max({lockEnds, hour + LOCK})} /\ hour' = hour /\ trades' = trades
    BY <1>6 DEF CheckDrawdown, Lock
  <2> QED
    BY <1>2, <2>1, <2>2, Larger
<1>7. CASE HourPasses
  <2>1. hour' = hour + 1 /\ lockEnds' = lockEnds /\ trades' = trades
    BY <1>7 DEF HourPasses
  <2>2. \A k \in DOMAIN trades : trades[k].exit \in Int
    <3>1. trades \in Seq(JournalRows)
      BY DEF JournalInv
    <3>2. \A k \in DOMAIN trades : trades[k] \in JournalRows
      BY <3>1
    <3> QED
      BY <3>2 DEF JournalRows
  <2> QED
    BY <2>1, <2>2 DEF JournalInv
<1> QED
  BY <1>1, <1>3, <1>4, <1>5, <1>6, <1>7 DEF SeriesNext

\* Who computes the peak, locks at the drawdown.
Seen == CheckDrawdown /\ peak = NoPeak /\ High > 0 =>
          (lockEnds' > hour <=> 100 * (High - Equity) > DRAWDOWN * High)

LEMMA LocksAtDrawdown == ASSUME Amounts, JournalInv PROVE Seen
<1> SUFFICES ASSUME CheckDrawdown, peak = NoPeak, High > 0
             PROVE  lockEnds' > hour <=> 100 * (High - Equity) > DRAWDOWN * High
  BY DEF Seen
<1> DEFINE deep == 100 * (High - Equity) > DRAWDOWN * High
<1>1. Peak = High
  BY PeakIsHigh DEF Peak
<1>2. hour \in Nat /\ lockEnds \in Int /\ ~(lockEnds > hour) /\ LOCK \in Nat \ {0}
  BY DEF JournalInv, Amounts, CheckDrawdown, Locked
<1>3. IF deep THEN lockEnds' = Max({lockEnds, hour + LOCK}) ELSE lockEnds' = lockEnds
  BY <1>1 DEF CheckDrawdown, Lock
<1> HIDE DEF deep
<1>4. hour + LOCK \in Int /\ hour + LOCK > hour
  BY <1>2
<1>5. Max({lockEnds, hour + LOCK}) \in Int /\ Max({lockEnds, hour + LOCK}) >= hour + LOCK
  BY <1>2, <1>4, Larger
<1>6. CASE deep
  <2>1. lockEnds' = Max({lockEnds, hour + LOCK})
    BY <1>3, <1>6
  <2>2. lockEnds' > hour
    BY <1>2, <1>4, <1>5, <2>1
  <2> QED
    BY <1>6, <2>2 DEF deep
<1>7. CASE ~deep
  <2>1. ~(lockEnds' > hour)
    BY <1>2, <1>3, <1>7
  <2> QED
    BY <1>7, <2>1 DEF deep
<1> QED
  BY <1>6, <1>7

\* For any history of trades and any limits: a check that computes the peak of the last days locks
\* exactly when the equity lies more than DRAWDOWN_FROM_PEAK_PCT below the highest it was at any
\* moment of them, although the code reconstructs the equity backwards from the journal and knows
\* no past balance (check_drawdown, _get_7day_equity_peak).
THEOREM DrawdownLocks == SeriesSpec => DrawdownSeen
<1>1. Amounts
  BY SeriesAssumption DEF Amounts
<1>2. JournalInv /\ [SeriesNext]_lossVars => [Seen]_lossVars
  BY <1>1, LocksAtDrawdown
<1>3. [Seen]_lossVars
        => [CheckDrawdown /\ peak = NoPeak /\ High > 0 =>
              (lockEnds' > hour <=> 100 * (High - Equity) > DRAWDOWN * High)]_lossVars
  BY DEF Seen
<1> QED
  BY <1>2, <1>3, <1>1, JournalStarts, JournalKeeps, PTL DEF SeriesSpec, DrawdownSeen


-----------------------------------------------------------------------------
(* The tuning scripts *)

LEMMA OfTwo ==
  \A a, b \in Int : /\ Max({a, b}) = IF a >= b THEN a ELSE b
                    /\ Min({a, b}) = IF a <= b THEN a ELSE b
<1> SUFFICES ASSUME NEW a \in Int, NEW b \in Int
             PROVE  /\ Max({a, b}) = IF a >= b THEN a ELSE b
                    /\ Min({a, b}) = IF a <= b THEN a ELSE b
  OBVIOUS
<1>1. \E x \in {a, b} : \A y \in {a, b} : x >= y
  <2>1. a >= b \/ b >= a
    OBVIOUS
  <2> QED
    BY <2>1
<1>2. Max({a, b}) \in {a, b} /\ \A y \in {a, b} : Max({a, b}) >= y
  BY <1>1 DEF Max
<1>3. \E x \in {a, b} : \A y \in {a, b} : x <= y
  <2>1. a <= b \/ b <= a
    OBVIOUS
  <2> QED
    BY <2>1
<1>4. Min({a, b}) \in {a, b} /\ \A y \in {a, b} : Min({a, b}) <= y
  BY <1>3 DEF Min
<1> HIDE DEF Max, Min
<1> QED
  BY <1>2, <1>4

\* A shift is the difference, cut at a jump; what is applied is cut at the safety bounds.
LEMMA ShiftIs ==
  \A a, best \in Int :
    Shift(a, best) = IF best - a > THRESHOLD_MAX_JUMP THEN THRESHOLD_MAX_JUMP
                     ELSE IF best - a < -THRESHOLD_MAX_JUMP THEN -THRESHOLD_MAX_JUMP
                     ELSE best - a
<1> SUFFICES ASSUME NEW a \in Int, NEW best \in Int
             PROVE  Shift(a, best) = IF best - a > THRESHOLD_MAX_JUMP THEN THRESHOLD_MAX_JUMP
                                     ELSE IF best - a < -THRESHOLD_MAX_JUMP THEN -THRESHOLD_MAX_JUMP
                                     ELSE best - a
  OBVIOUS
<1> DEFINE J == THRESHOLD_MAX_JUMP
           N == -J
           x == best - a
           m == Min({J, x})
<1>1. J \in Int /\ J > 0 /\ N \in Int /\ N = -J /\ x \in Int /\ x = best - a
  BY TuningAssumption
<1>2. Shift(a, best) = Max({N, m})
  BY DEF Shift
<1> HIDE DEF x, N, J
<1>3. m = (IF J <= x THEN J ELSE x) /\ m \in Int
  BY <1>1, OfTwo
<1> HIDE DEF m
<1>4. Max({N, m}) = IF N >= m THEN N ELSE m
  BY <1>1, <1>3, OfTwo
<1>5. Shift(a, best) = IF x > J THEN J ELSE IF x < N THEN N ELSE x
  BY <1>1, <1>2, <1>3, <1>4
<1> QED
  BY <1>1, <1>5 DEF J, x

LEMMA BoundedIs ==
  \A x \in Int : /\ Bounded(x) = IF x > HIGHEST THEN HIGHEST ELSE IF x < LOWEST THEN LOWEST ELSE x
                 /\ Bounded(x) \in Int
<1> SUFFICES ASSUME NEW x \in Int
             PROVE  /\ Bounded(x) = IF x > HIGHEST THEN HIGHEST ELSE IF x < LOWEST THEN LOWEST ELSE x
                    /\ Bounded(x) \in Int
  OBVIOUS
<1> DEFINE m == Min({HIGHEST, x})
<1> USE TuningAssumption
<1>1. m = (IF HIGHEST <= x THEN HIGHEST ELSE x) /\ m \in Int
  BY OfTwo
<1>2. Bounded(x) = Max({LOWEST, m})
  BY DEF Bounded
<1> HIDE DEF m
<1>3. Max({LOWEST, m}) = IF LOWEST >= m THEN LOWEST ELSE m
  BY <1>1, OfTwo
<1> QED
  BY <1>1, <1>2, <1>3

\* The expected value is a fraction of integers.
LEMMA EvIs ==
  \A sample \in Seq(Labels) : \A t :
    Ev(sample, t)[1] \in Int /\ Ev(sample, t)[2] \in Nat \ {0}
<1> SUFFICES ASSUME NEW sample \in Seq(Labels), NEW t
             PROVE  Ev(sample, t)[1] \in Int /\ Ev(sample, t)[2] \in Nat \ {0}
  OBVIOUS
<1> DEFINE f == [i \in DOMAIN sample |-> IF sample[i].win THEN sample[i].rr ELSE -10]
           S == Above(sample, t)
           n == Len(sample)
           c == Cardinality(S)
<1>1. n \in Nat /\ DOMAIN sample = 1..n /\ \A i \in 1..n : sample[i] \in Labels
  OBVIOUS
<1>2. S \in SUBSET (1..n)
  BY <1>1 DEF Above
<1> HIDE DEF n, S
<1>3. IsFiniteSet(S) /\ c \in Nat
  <2> DEFINE J == 1..n
  <2>1. IsFiniteSet(J) /\ S \in SUBSET J
    BY <1>1, <1>2, FS_Interval
  <2> HIDE DEF J
  <2>2. IsFiniteSet(S)
    BY <2>1, FS_Subset
  <2> QED
    BY <2>2, FS_CardinalityType
<1>4. \A i \in S : f[i] \in Int
  BY <1>1, <1>2, TuningAssumption
<1>5. SumFunctionOnSet(f, S) \in Int
  <2> HIDE DEF f
  <2> QED
    BY <1>3, <1>4, SumInt
<1>6. Max({1, c}) \in Nat \ {0}
  <2> HIDE DEF c
  <2>1. Max({1, c}) = IF 1 >= c THEN 1 ELSE c
    BY <1>3, OfTwo
  <2> QED
    BY <1>3, <2>1
<1> QED
  BY <1>5, <1>6 DEF Ev, S

\* The best threshold is one that was swept, or the one in use.
LEMMA OptimalIs ==
  \A sample \in Seq(Labels) : \A alert :
    Optimal(sample, alert) \in T_MIN..T_MAX \/ Optimal(sample, alert) = alert
<1> SUFFICES ASSUME NEW sample \in Seq(Labels), NEW alert
             PROVE  Optimal(sample, alert) \in T_MIN..T_MAX \/ Optimal(sample, alert) = alert
  OBVIOUS
<1> DEFINE J == T_MIN..T_MAX
           S == {t \in J : Cardinality(Above(sample, t)) >= MIN_ALERTS}
           ev == [t \in J |-> Ev(sample, t)]
           best == {t \in S : \A o \in S : Lead(ev[o], ev[t]) <= 0}
           n == [t \in S |-> Ev(sample, t)[1]]
           d == [t \in S |-> Ev(sample, t)[2]]
<1>1. Optimal(sample, alert) = IF S = {} THEN alert ELSE Min(best)
  BY DEF Optimal, BestOf
<1>2. IsFiniteSet(J) /\ J \subseteq Int
  BY TuningAssumption, FS_Interval
<1> HIDE DEF J
<1>3. IsFiniteSet(S) /\ S \subseteq J
  BY <1>2, FS_Subset
<1>4. IsFiniteSet(best) /\ best \in SUBSET J
  <2>1. best \in SUBSET S
    OBVIOUS
  <2> HIDE DEF best, S
  <2> QED
    BY <1>3, <2>1, FS_Subset
<1>5. ASSUME S # {} PROVE best # {}
  <2>1. \A t \in S : n[t] \in Int /\ d[t] \in Nat \ {0}
    BY EvIs
  <2>2. PICK t \in S : BestOn(S, n, d, t)
    <3> HIDE DEF n, d, S
    <3> QED
      BY <1>3, <1>5, <2>1, BestExists
  <2>3. ASSUME NEW o \in S PROVE Lead(ev[o], ev[t]) <= 0
    <3>1. n[o] * d[t] <= n[t] * d[o]
      BY <2>2 DEF BestOn
    <3>2. /\ ev[o][1] = n[o] /\ ev[o][2] = d[o] /\ ev[t][1] = n[t] /\ ev[t][2] = d[t]
          /\ n[o] \in Int /\ n[t] \in Int /\ d[o] \in Nat \ {0} /\ d[t] \in Nat \ {0}
      BY <1>3, <2>1
    <3> HIDE DEF n, d, ev
    <3>3. n[o] * d[t] \in Int /\ n[t] * d[o] \in Int
      BY <3>2, TimesMonotone
    <3>4. n[o] * d[t] - n[t] * d[o] <= 0
      BY <3>1, <3>3
    <3> QED
      BY <3>2, <3>4 DEF Lead
  <2> QED
    BY <2>2, <2>3
<1> HIDE DEF best, S
<1>6. CASE S # {}
  <2>1. Min(best) \in best
    <3>1. best \subseteq Int
      BY <1>2, <1>4
    <3> QED
      BY <1>4, <1>5, <1>6, <3>1, LeastIn
  <2> QED
    BY <1>1, <1>4, <1>6, <2>1 DEF J
<1> QED
  BY <1>1, <1>6

\* What a run may do to the threshold: nothing, or the one recommendation there is, bounded.
LEMMA AlertTuned ==
  \A s \in Seq(Labels) : \A p :
    DOMAIN p = {"alert", "watch", "weights"} /\ p.alert \in Int /\ p.watch \in Int =>
      LET next == Tuned(s, p)
          best == Optimal(s, p.alert)
          b == Bounded(p.alert + Shift(p.alert, best))
      IN /\ DOMAIN next = {"alert", "watch", "weights"} /\ next.watch = p.watch
         /\ \/ next.alert = p.alert
            \/ /\ p.alert \in T_MIN..T_MAX /\ best \in T_MIN..T_MAX /\ best # p.alert
               /\ next.alert = b /\ b \in Int /\ b > p.watch
<1> SUFFICES ASSUME NEW s \in Seq(Labels), NEW p,
                    DOMAIN p = {"alert", "watch", "weights"}, p.alert \in Int, p.watch \in Int
             PROVE  LET next == Tuned(s, p)
                        best == Optimal(s, p.alert)
                        b == Bounded(p.alert + Shift(p.alert, best))
                    IN /\ DOMAIN next = {"alert", "watch", "weights"} /\ next.watch = p.watch
                       /\ \/ next.alert = p.alert
                          \/ /\ p.alert \in T_MIN..T_MAX /\ best \in T_MIN..T_MAX /\ best # p.alert
                             /\ next.alert = b /\ b \in Int /\ b > p.watch
  OBVIOUS
<1> DEFINE next == Tuned(s, p)
           best == Optimal(s, p.alert)
           v == p.alert + Shift(p.alert, best)
           b == Bounded(v)
           M == Moved(Advice(s, p), p)
<1>1. /\ DOMAIN next = {"alert", "watch", "weights"} /\ next.watch = p.watch
      /\ next.alert = IF M = {} THEN p.alert ELSE Min(M)
  BY DEF Tuned, Applied
<1>2. ASSUME NEW a \in Advice(s, p), a.param = "alert" PROVE a \in ThresholdAdvice(s, p.alert)
  <2>1. CASE a \in WeightAdvice(s, p.weights)
    <3>1. "alert" \notin Modules
      BY DEF Modules, MODULE_CAPS
    <3>2. ASSUME NEW lifted, NEW gain, NEW pairs, NEW weights, NEW c \in Changes(lifted, gain, pairs, weights)
          PROVE c.param \in Modules
      <4> DEFINE Off == {k \in Modules : Max({lifted[k] - weights[k], weights[k] - lifted[k]}) >= 100}
      <4>1. c \in {[param |-> m, value |-> lifted[m]] : m \in Off}
        BY Zenon DEF Changes
      <4>2. Off \subseteq Modules
        OBVIOUS
      <4> HIDE DEF Off
      <4>3. PICK m \in Off : c = [param |-> m, value |-> lifted[m]]
        BY <4>1
      <4> QED
        BY <4>2, <4>3
    <3>3. a.param \in Modules
      BY <2>1, <3>2 DEF WeightAdvice
    <3> QED
      BY <1>2, <3>1, <3>3
  <2>2. CASE a \in RegimeAdvice(s)
    <3>1. \A i \in DOMAIN s : s[i].regime # "alert"
      <4> SUFFICES ASSUME NEW i \in DOMAIN s PROVE s[i].regime # "alert"
        OBVIOUS
      <4> DEFINE x == s[i]
      <4>1. x \in Labels
        OBVIOUS
      <4>2. \A l \in Labels : l.regime # "alert"
        BY TuningAssumption
      <4> HIDE DEF x
      <4>3. x.regime # "alert"
        BY <4>1, <4>2
      <4> QED
        BY <4>3 DEF x
    <3>2. a.param \in {s[i].regime : i \in DOMAIN s}
      <4>1. PICK g \in {s[i].regime : i \in DOMAIN s} : a = [param |-> g, value |-> 1]
        BY <2>2, Zenon DEF RegimeAdvice
      <4>2. a.param = g
        BY <4>1
      <4> QED
        BY <4>2
    <3> QED
      BY <1>2, <3>1, <3>2
  <2> QED
    BY <1>2, <2>1, <2>2 DEF Advice
<1>3. ASSUME NEW a \in ThresholdAdvice(s, p.alert)
      PROVE  a.value = v /\ p.alert \in T_MIN..T_MAX /\ best # p.alert
  BY DEF ThresholdAdvice
<1>4. ASSUME NEW m \in M PROVE m = b /\ b > p.watch /\ p.alert \in T_MIN..T_MAX /\ best # p.alert
  <2>1. PICK a \in Advice(s, p) : a.param = "alert" /\ Bounded(a.value) > p.watch /\ m = Bounded(a.value)
    BY DEF Moved
  <2> QED
    BY <1>2, <1>3, <2>1
<1>5. CASE M = {}
  BY <1>1, <1>5
<1>6. CASE M # {}
  <2>1. M = {b} /\ b > p.watch /\ p.alert \in T_MIN..T_MAX /\ best # p.alert
    BY <1>4, <1>6
  <2>2. best \in T_MIN..T_MAX
    BY <2>1, OptimalIs
  <2>3. b \in Int
    <3>1. v \in Int
      <4>1. p.alert \in Int /\ best \in Int
        BY <2>2, TuningAssumption
      <4>2. Shift(p.alert, best) \in Int
        <5>1. THRESHOLD_MAX_JUMP \in Int /\ -THRESHOLD_MAX_JUMP \in Int
          BY TuningAssumption
        <5> HIDE DEF best
        <5>2. best - p.alert \in Int
          BY <4>1
        <5> QED
          BY <4>1, <5>1, <5>2, ShiftIs
      <4> HIDE DEF best
      <4> QED
        BY <4>1, <4>2
    <3> HIDE DEF v
    <3> QED
      BY <3>1, TuningAssumption, BoundedIs
  <2> HIDE DEF b, M
  <2>4. Min({b}) = b
    <3>1. IsFiniteSet({b}) /\ {b} \subseteq Int /\ {b} # {}
      BY <2>3, FS_Singleton
    <3>2. Min({b}) \in {b}
      BY <3>1, LeastIn
    <3> QED
      BY <3>2
  <2> QED
    BY <1>1, <1>6, <2>1, <2>2, <2>3, <2>4 DEF b
<1> QED
  BY <1>5, <1>6

\* Where a shift, capped and bounded, leads: not far, and not past the goal.
LEMMA ShiftLeads ==
  \A a, best \in T_MIN..T_MAX :
    LET b == Bounded(a + Shift(a, best))
    IN /\ b \in LOWEST..HIGHEST
       /\ b - a \in -THRESHOLD_MAX_JUMP..THRESHOLD_MAX_JUMP
       /\ b # a /\ a # best => Distance(b, Bounded(best)) < Distance(a, Bounded(best))
<1> SUFFICES ASSUME NEW a \in T_MIN..T_MAX, NEW best \in T_MIN..T_MAX
             PROVE  LET b == Bounded(a + Shift(a, best))
                    IN /\ b \in LOWEST..HIGHEST
                       /\ b - a \in -THRESHOLD_MAX_JUMP..THRESHOLD_MAX_JUMP
                       /\ b # a /\ a # best =>
                            Distance(b, Bounded(best)) < Distance(a, Bounded(best))
  OBVIOUS
<1> DEFINE J == THRESHOLD_MAX_JUMP
           shift == Shift(a, best)
           v == a + shift
           b == Bounded(v)
           goal == Bounded(best)
<1>1. /\ a \in Int /\ best \in Int /\ J \in Int /\ -J \in Int /\ J > 0
      /\ LOWEST \in Int /\ HIGHEST \in Int /\ LOWEST <= HIGHEST
      /\ LOWEST - a <= J /\ a - HIGHEST <= J
  BY TuningAssumption
<1> HIDE DEF J
<1>2. shift = IF best - a > J THEN J ELSE IF best - a < -J THEN -J ELSE best - a
  BY <1>1, ShiftIs DEF J
<1>3. \A x \in Int : Bounded(x) = IF x > HIGHEST THEN HIGHEST ELSE IF x < LOWEST THEN LOWEST ELSE x
  BY BoundedIs
<1> HIDE DEF shift
<1>4. v \in Int
  BY <1>1, <1>2
<1>5. /\ b = IF v > HIGHEST THEN HIGHEST ELSE IF v < LOWEST THEN LOWEST ELSE v
      /\ goal = IF best > HIGHEST THEN HIGHEST ELSE IF best < LOWEST THEN LOWEST ELSE best
  BY <1>1, <1>3, <1>4
<1>6. v = a + shift
  OBVIOUS
<1> HIDE DEF b, goal, v
<1>7. b \in LOWEST..HIGHEST /\ b - a \in -J..J
  BY <1>1, <1>2, <1>4, <1>5, <1>6
<1>8. b # a /\ a # best => Distance(b, goal) < Distance(a, goal)
  BY <1>1, <1>2, <1>4, <1>5, <1>6 DEF Distance
<1> QED
  BY <1>7, <1>8 DEF b, goal, v, shift, J

\* The parameters in use are a row with both thresholds, whatever was tuned.
TuningInv ==
  /\ labelled \in Seq(Labels)
  /\ DOMAIN inUse = {"alert", "watch", "weights"}
  /\ inUse.alert \in Int /\ inUse.watch \in Int

LEMMA TuningKeeps == TuningSpec => []TuningInv
<1>1. TuningInit => TuningInv
  BY TuningAssumption DEF TuningInit, TuningInv
<1>2. TuningInv /\ [TuningNext]_tuningVars => TuningInv'
  <2> SUFFICES ASSUME TuningInv, [TuningNext]_tuningVars PROVE TuningInv'
    OBVIOUS
  <2>1. CASE Label
    BY <2>1 DEF Label, TuningInv
  <2>2. CASE Tune
    <3>1. /\ DOMAIN inUse' = {"alert", "watch", "weights"} /\ inUse'.watch = inUse.watch
          /\ inUse'.alert \in Int
      BY <2>2, AlertTuned DEF Tune, TuningInv
    <3> QED
      BY <2>2, <3>1 DEF Tune, TuningInv
  <2>3. CASE UNCHANGED tuningVars
    BY <2>3 DEF tuningVars, TuningInv
  <2> QED
    BY <2>1, <2>2, <2>3 DEF TuningNext
<1> QED
  BY <1>1, <1>2, PTL DEF TuningSpec

\* What a step may do to the threshold.
SettlingStep ==
  inUse'.alert # inUse.alert =>
    /\ FitForUse(inUse.alert, inUse'.alert, inUse'.watch)
    /\ Nearer(inUse.alert, inUse'.alert, Bounded(Optimal(labelled, inUse.alert)))

LEMMA TuningSteps ==
  TuningInv /\ [TuningNext]_tuningVars => [SettlingStep]_tuningVars
<1> SUFFICES ASSUME TuningInv, TuningNext, inUse'.alert # inUse.alert
             PROVE  SettlingStep
  BY DEF SettlingStep
<1>1. CASE Label
  BY <1>1 DEF Label
<1>2. CASE Tune
  <2> DEFINE a == inUse.alert
             best == Optimal(labelled, a)
             b == Bounded(a + Shift(a, best))
  <2>1. /\ a \in T_MIN..T_MAX /\ best \in T_MIN..T_MAX /\ best # a /\ inUse'.watch = inUse.watch
        /\ inUse'.alert = b /\ b \in Int /\ b > inUse.watch
    BY <1>2, AlertTuned DEF Tune, TuningInv
  <2>2. /\ b \in LOWEST..HIGHEST /\ b - a \in -THRESHOLD_MAX_JUMP..THRESHOLD_MAX_JUMP
        /\ b # a /\ a # best => Distance(b, Bounded(best)) < Distance(a, Bounded(best))
    BY <2>1, ShiftLeads
  <2>3. inUse.watch \in Int /\ a # b
    BY <2>1 DEF TuningInv
  <2> HIDE DEF b, best
  <2>4. FitForUse(a, inUse'.alert, inUse'.watch)
    BY <2>1, <2>2, <2>3 DEF FitForUse
  <2>5. Nearer(a, inUse'.alert, Bounded(best))
    BY <2>1, <2>2, <2>3 DEF Nearer
  <2> QED
    BY <2>4, <2>5 DEF SettlingStep, best
<1> QED
  BY <1>1, <1>2 DEF TuningNext

\* Whatever signals are labelled and however often it is tuned, ConfigApplier sets a threshold only
\* above the watch threshold, within the safety bounds and at most a jump away, and each one it sets
\* is nearer to the best one that the bounds allow: runs over one sample come to rest.
THEOREM TunedThresholdsSettle == TuningSpec => ThresholdsSettle
<1>1. TuningInv /\ [TuningNext]_tuningVars => [SettlingStep]_tuningVars
  BY TuningSteps
<1>2. TuningSpec => [][SettlingStep]_tuningVars
  BY <1>1, TuningKeeps, PTL DEF TuningSpec
<1> QED
  BY <1>2 DEF ThresholdsSettle, SettlingStep

-----------------------------------------------------------------------------
(* The audit's advice.  The threshold suggested is a fold over those tried. *)

\* One level of the fold, and a table of its results for every subset of D.
Turn(g, rows, s) == IF s = {} THEN AtFirst ELSE Better(rows, g[s \ {Max(s)}], Tried[Max(s)])
TurnsOver(g, rows, D) == g = [s \in SUBSET D |-> Turn(g, rows, s)]

\* g and h are such tables, h of a larger set.
TurnsOf(rows, g, h, C, D) ==
  /\ IsFiniteSet(C) /\ C \subseteq D /\ D \subseteq Int
  /\ TurnsOver(g, rows, C) /\ TurnsOver(h, rows, D)

LEMMA TurnsAgree ==
  \A rows, g, h, C, D : TurnsOf(rows, g, h, C, D) => \A s \in SUBSET C : g[s] = h[s]
<1> TAKE rows, g, h, C, D
<1> HAVE TurnsOf(rows, g, h, C, D)
<1> USE DEF TurnsOf
<1> DEFINE P == {s \in SUBSET C : g[s] = h[s]}
<1>1. ASSUME NEW s \in SUBSET C, \A t \in SUBSET s : t # s => t \in P
      PROVE  s \in P
  <2>1. g[s] = Turn(g, rows, s) /\ h[s] = Turn(h, rows, s)
    BY DEF TurnsOver
  <2>2. CASE s = {}
    BY <2>1, <2>2 DEF Turn
  <2>3. CASE s # {}
    <3>1. s \ {Max(s)} # s
      BY <2>3, LargestIn, FS_Subset
    <3>2. g[s \ {Max(s)}] = h[s \ {Max(s)}]
      BY <1>1, <3>1
    <3> QED
      BY <2>1, <2>3, <3>2 DEF Turn
  <2> QED
    BY <2>2, <2>3
<1> HIDE DEF P
<1>2. SUBSET C \subseteq P
  BY <1>1, SubsetInduction
<1> QED
  BY <1>2 DEF P

LEMMA TurnsExist ==
  \A rows, D : IsFiniteSet(D) /\ D \subseteq Int => \E g : TurnsOver(g, rows, D)
<1> SUFFICES ASSUME NEW rows, NEW D, IsFiniteSet(D), D \subseteq Int
             PROVE  \E g : TurnsOver(g, rows, D)
  OBVIOUS
<1> DEFINE P == {s \in SUBSET D : \E g : TurnsOver(g, rows, s)}
<1>1. ASSUME NEW s \in SUBSET D, \A t \in SUBSET s : t # s => t \in P
      PROVE  s \in P
  <2> DEFINE some(t) == CHOOSE g : TurnsOver(g, rows, t)
             before(t) == t \ {Max(t)}
             g == [t \in SUBSET s |-> IF t = {} THEN AtFirst
                                      ELSE Better(rows, some(before(t))[before(t)], Tried[Max(t)])]
  <2>1. ASSUME NEW t \in SUBSET s, t # s PROVE TurnsOver(some(t), rows, t)
    BY <1>1, <2>1
  <2>2. ASSUME NEW t \in SUBSET s, t # {}
        PROVE  before(t) \in SUBSET s /\ before(t) # s /\ IsFiniteSet(before(t)) /\ IsFiniteSet(t)
    <3>1. IsFiniteSet(t) /\ t \subseteq Int
      BY FS_Subset
    <3>2. before(t) # t /\ Max(t) \in t
      BY <2>2, <3>1, LargestIn
    <3> QED
      BY <3>1, <3>2, FS_Subset
  <2> HIDE DEF some
  <2>3. ASSUME NEW t \in SUBSET s, t # s PROVE g[t] = some(t)[t]
    <3>1. some(t)[t] = Turn(some(t), rows, t)
      BY <2>1, <2>3 DEF TurnsOver
    <3>2. CASE t = {}
      BY <3>1, <3>2 DEF Turn
    <3>3. CASE t # {}
      <4>1. /\ before(t) \in SUBSET t /\ before(t) \in SUBSET s /\ before(t) # s
            /\ IsFiniteSet(before(t)) /\ t \subseteq Int
        BY <2>2, <3>3
      <4>2. TurnsOver(some(t), rows, t) /\ TurnsOver(some(before(t)), rows, before(t))
        BY <2>1, <2>3, <4>1
      <4>3. some(t)[before(t)] = some(before(t))[before(t)]
        <5> DEFINE b == before(t)
                   gb == some(b)
                   gt == some(t)
        <5>1. TurnsOf(rows, gb, gt, b, t)
          BY <4>1, <4>2 DEF TurnsOf
        <5> HIDE DEF b, gb, gt
        <5>2. \A u \in SUBSET b : gb[u] = gt[u]
          BY <5>1, TurnsAgree
        <5>3. gb[b] = gt[b]
          BY <5>2
        <5> QED
          BY <5>3 DEF b, gb, gt
      <4> QED
        BY <3>1, <3>3, <4>3 DEF Turn
    <3> QED
      BY <3>2, <3>3
  <2>4. ASSUME NEW t \in SUBSET s PROVE g[t] = Turn(g, rows, t)
    <3>1. CASE t = {}
      BY <3>1 DEF Turn
    <3>2. CASE t # {}
      <4>1. g[before(t)] = some(before(t))[before(t)]
        BY <2>2, <2>3, <3>2
      <4> QED
        BY <3>2, <4>1 DEF Turn
    <3> QED
      BY <3>1, <3>2
  <2>5. TurnsOver(g, rows, s)
    <3>1. \A t \in SUBSET s : g[t] = Turn(g, rows, t)
      BY <2>4
    <3>2. DOMAIN g = SUBSET s /\ g = [t \in SUBSET s |-> g[t]]
      OBVIOUS
    <3> HIDE DEF g
    <3> QED
      BY <3>1, <3>2 DEF TurnsOver
  <2> QED
    BY <2>5
<1> HIDE DEF P
<1>2. SUBSET D \subseteq P
  BY <1>1, SubsetInduction
<1> QED
  BY <1>2 DEF P

\* Fractions are ordered by Below.
Fractions == Nat \X (Nat \ {0})

LEMMA BelowOrders ==
  \A p, q, r \in Fractions : /\ ~Below(p, p)
                             /\ ~Below(q, p) /\ Below(q, r) => Below(p, r)
<1> SUFFICES ASSUME NEW p \in Fractions, NEW q \in Fractions, NEW r \in Fractions
             PROVE  /\ ~Below(p, p)
                    /\ ~Below(q, p) /\ Below(q, r) => Below(p, r)
  OBVIOUS
<1>1. /\ p[1] \in Int /\ q[1] \in Int /\ r[1] \in Int
      /\ p[2] \in Nat \ {0} /\ q[2] \in Nat \ {0} /\ r[2] \in Nat \ {0}
      /\ p[2] \in Int /\ q[2] \in Int /\ r[2] \in Int
  BY DEF Fractions
<1>2. \A x, y \in {p, q, r} : x[1] * y[2] \in Int
  BY <1>1, TimesMonotone
<1>3. ~Below(p, p)
  BY <1>2 DEF Below
<1>4. ASSUME ~Below(q, p), Below(q, r), ~Below(p, r) PROVE FALSE
  <2>1. p[1] * q[2] <= q[1] * p[2] /\ r[1] * p[2] <= p[1] * r[2] /\ ~(r[1] * q[2] <= q[1] * r[2])
    BY <1>2, <1>4 DEF Below
  <2> QED
    BY <1>1, <2>1, FractionsOrdered
<1> QED
  BY <1>3, <1>4

LEMMA RowsFinite == \A rows \in Seq(Audits) : IsFiniteSet(Rows(rows))
<1> SUFFICES ASSUME NEW rows \in Seq(Audits) PROVE IsFiniteSet(Rows(rows))
  OBVIOUS
<1> DEFINE J == 1..Len(rows)
<1>1. IsFiniteSet(J) /\ Rows(rows) \in SUBSET J
  BY FS_Interval DEF Rows
<1> HIDE DEF J
<1> QED
  BY <1>1, FS_Subset

LEMMA BelowAsymmetric == \A p, q \in Fractions : ~(Below(p, q) /\ Below(q, p))
BY TimesMonotone DEF Fractions, Below

\* F1 is a fraction, positive only when a winner is above the threshold.
LEMMA F1Is ==
  \A rows \in Seq(Audits) : \A t :
    /\ F1(rows, t) \in Fractions
    /\ F1(rows, t)[1] > 0 => \E i \in Rows(rows) : rows[i].win /\ rows[i].score >= t
<1> SUFFICES ASSUME NEW rows \in Seq(Audits), NEW t
             PROVE  /\ F1(rows, t) \in Fractions
                    /\ F1(rows, t)[1] > 0 =>
                         \E i \in Rows(rows) : rows[i].win /\ rows[i].score >= t
  OBVIOUS
<1> DEFINE R == Rows(rows)
           above == {i \in R : rows[i].score >= t}
           W == Won(rows, above)
           won == Cardinality(W)
           kept == Cardinality(above)
           all == Cardinality(R)
<1>1. F1(rows, t) = IF won = 0 /\ kept = 0 THEN <<0, 1>>
                    ELSE <<2 * won * kept, won * all + kept * kept>>
  BY DEF F1
<1>2. IsFiniteSet(R)
  BY RowsFinite
<1>3. above \in SUBSET R /\ W \in SUBSET above
  BY DEF Won
<1>4. \A i \in W : i \in R /\ rows[i].win /\ rows[i].score >= t
  BY DEF Won
<1> HIDE DEF R, above, W
<1>5. IsFiniteSet(above) /\ IsFiniteSet(W)
  BY <1>2, <1>3, FS_Subset
<1>6. /\ won \in Nat /\ kept \in Nat /\ all \in Nat /\ won <= kept
      /\ won # 0 => \E i \in W : TRUE
  BY <1>2, <1>3, <1>5, FS_CardinalityType, FS_Subset, FS_EmptySet
<1> HIDE DEF won, kept, all
<1>7. CASE won = 0 /\ kept = 0
  BY <1>1, <1>7 DEF Fractions
<1>8. CASE ~(won = 0 /\ kept = 0)
  <2>1. kept \in Nat \ {0}
    BY <1>6, <1>8
  <2>2. /\ 2 * won * kept \in Nat /\ won * all \in Nat /\ kept * kept \in Nat \ {0}
        /\ won = 0 => 2 * won * kept = 0
    <3>1. \A a, b \in Nat : a * b \in Nat
      OBVIOUS
    <3>2. \A a, b \in Nat \ {0} : a * b \in Nat \ {0}
      OBVIOUS
    <3> QED
      BY <1>6, <2>1, <3>1, <3>2
  <2>3. won * all + kept * kept \in Nat \ {0}
    BY <2>2
  <2>4. F1(rows, t) = <<2 * won * kept, won * all + kept * kept>>
    BY <1>1, <1>8
  <2> QED
    BY <1>4, <1>6, <2>2, <2>3, <2>4 DEF Fractions, R
<1> QED
  BY <1>7, <1>8

\* What is so far the best of some thresholds: none of them is better, and no lower one as good.
Ahead(rows, so, s) ==
  /\ so.f1 \in Fractions
  /\ \A i \in s : ~Below(so.f1, F1(rows, Tried[i]))
  /\ \/ so = AtFirst
     \/ \E m \in s : /\ so.at = Tried[m] /\ so.f1 = F1(rows, Tried[m])
                     /\ \A i \in s : i < m => Below(F1(rows, Tried[i]), so.f1)

LEMMA AheadOfMore ==
  \A rows \in Seq(Audits) : \A so, s, m :
    s \subseteq Int /\ m \in s /\ (\A i \in s : i <= m) /\ Ahead(rows, so, s \ {m})
      => Ahead(rows, Better(rows, so, Tried[m]), s)
<1> SUFFICES ASSUME NEW rows \in Seq(Audits), NEW so, NEW s, NEW m, s \subseteq Int, m \in s,
                    \A i \in s : i <= m, Ahead(rows, so, s \ {m})
             PROVE  Ahead(rows, Better(rows, so, Tried[m]), s)
  OBVIOUS
<1> DEFINE f(i) == F1(rows, Tried[i])
<1>1. \A i : f(i) \in Fractions
  BY F1Is
<1>2. so.f1 \in Fractions /\ \A i \in s \ {m} : ~Below(so.f1, f(i))
  BY DEF Ahead
<1>3. CASE Below(so.f1, f(m))
  <2> DEFINE new == [at |-> Tried[m], f1 |-> f(m)]
  <2>1. Better(rows, so, Tried[m]) = new /\ new.at = Tried[m] /\ new.f1 = f(m)
    BY <1>3 DEF Better
  <2>2. \A i \in s \ {m} : Below(f(i), f(m))
    <3> HIDE DEF f
    <3> QED
      BY <1>1, <1>2, <1>3, BelowOrders
  <2>3. \A i \in s : ~Below(f(m), f(i))
    <3> SUFFICES ASSUME NEW i \in s, Below(f(m), f(i)) PROVE FALSE
      OBVIOUS
    <3> HIDE DEF f
    <3>1. CASE i = m
      BY <1>1, <3>1, BelowOrders
    <3>2. CASE i # m
      <4>1. Below(f(i), f(m)) /\ ~Below(f(i), f(i))
        BY <1>1, <2>2, <3>2, BelowOrders
      <4> QED
        BY <1>1, <4>1, BelowAsymmetric
    <3> QED
      BY <3>1, <3>2
  <2>4. \A i \in s : i < m => Below(f(i), f(m))
    <3>1. \A i \in s : i < m => i # m
      OBVIOUS
    <3> HIDE DEF f
    <3> QED
      BY <2>2, <3>1
  <2> HIDE DEF new
  <2> QED
    BY <1>1, <2>1, <2>3, <2>4 DEF Ahead
<1>4. CASE ~Below(so.f1, f(m))
  <2>1. Better(rows, so, Tried[m]) = so
    BY <1>4 DEF Better
  <2>2. \A i \in s : ~Below(so.f1, f(i))
    <3> HIDE DEF f
    <3> QED
      BY <1>2, <1>4
  <2>3. CASE so = AtFirst
    BY <1>2, <2>1, <2>2, <2>3 DEF Ahead
  <2>4. CASE so # AtFirst
    <3>1. PICK k \in s \ {m} : /\ so.at = Tried[k] /\ so.f1 = f(k)
                               /\ \A i \in s \ {m} : i < k => Below(f(i), so.f1)
      BY <2>4 DEF Ahead
    <3>2. \A i \in s : i < k => i \in s \ {m}
      OBVIOUS
    <3> QED
      BY <1>2, <2>1, <2>2, <3>1, <3>2 DEF Ahead
  <2> QED
    BY <2>3, <2>4
<1> QED
  BY <1>3, <1>4

LEMMA SuggestedAhead ==
  \A rows \in Seq(Audits) : \A t \in Suggested(rows) :
    \E so : so.at = t /\ Ahead(rows, so, DOMAIN Tried)
<1> SUFFICES ASSUME NEW rows \in Seq(Audits), NEW t \in Suggested(rows)
             PROVE  \E so : so.at = t /\ Ahead(rows, so, DOMAIN Tried)
  OBVIOUS
<1> DEFINE D == DOMAIN Tried
           it == CHOOSE h : h = [s \in SUBSET D |-> IF s = {} THEN AtFirst
                                   ELSE Better(rows, h[s \ {Max(s)}], Tried[Max(s)])]
<1>1. IsFiniteSet(D) /\ D \subseteq Int
  <2>1. D = 1..Len(Tried) /\ Len(Tried) \in Nat
    BY AuditAssumption
  <2> QED
    BY <2>1, FS_Interval
<1>2. PICK h : TurnsOver(h, rows, D)
  BY <1>1, TurnsExist
<1>3. h = [s \in SUBSET D |-> IF s = {} THEN AtFirst
             ELSE Better(rows, h[s \ {Max(s)}], Tried[Max(s)])]
  BY <1>2 DEF TurnsOver, Turn
<1>4. it = [s \in SUBSET D |-> IF s = {} THEN AtFirst
              ELSE Better(rows, it[s \ {Max(s)}], Tried[Max(s)])]
  BY <1>3
<1>5. t = it[D].at
  BY DEF Suggested, FoldLeft, MapThenFoldSet
<1> HIDE DEF it, D
<1>6. \A s \in SUBSET D : it[s] = IF s = {} THEN AtFirst
                                  ELSE Better(rows, it[s \ {Max(s)}], Tried[Max(s)])
  BY <1>4
<1> DEFINE P == {s \in SUBSET D : Ahead(rows, it[s], s)}
<1>7. ASSUME NEW s \in SUBSET D, \A u \in SUBSET s : u # s => u \in P
      PROVE  s \in P
  <2>1. CASE s = {}
    <3>1. it[s] = AtFirst
      BY <1>6, <2>1
    <3>2. AtFirst.f1 \in Fractions
      BY DEF AtFirst, Fractions
    <3>3. Ahead(rows, it[s], s)
      BY <2>1, <3>1, <3>2 DEF Ahead
    <3> QED
      BY <3>3
  <2>2. CASE s # {}
    <3> DEFINE m == Max(s)
               u == s \ {m}
    <3>1. s \subseteq Int /\ m \in s /\ u # s /\ \A i \in s : i <= m
      BY <1>1, <2>2, LargestIn, FS_Subset
    <3>2. Ahead(rows, it[u], u)
      BY <1>7, <3>1
    <3>3. it[s] = Better(rows, it[u], Tried[m])
      BY <1>6, <2>2
    <3> HIDE DEF m
    <3>4. Ahead(rows, it[s], s)
      BY <3>1, <3>2, <3>3, AheadOfMore
    <3> QED
      BY <3>4
  <2> QED
    BY <2>1, <2>2
<1> HIDE DEF P
<1>8. D \in P
  BY <1>1, <1>7, SubsetInduction
<1>9. Ahead(rows, it[D], D)
  BY <1>8 DEF P
<1> QED
  BY <1>5, <1>9 DEF D

\* The suggested threshold is what AdviceHelps says of it.
LEMMA SuggestionHelps ==
  \A rows \in Seq(Audits) : \A t \in Suggested(rows), o \in Range(Tried) :
    /\ ~Below(F1(rows, t), F1(rows, o))
    /\ o < t => Below(F1(rows, o), F1(rows, t))
    /\ F1(rows, o)[1] > 0 => \E i \in Rows(rows) : rows[i].win /\ rows[i].score >= t
<1> SUFFICES ASSUME NEW rows \in Seq(Audits), NEW t \in Suggested(rows), NEW o \in Range(Tried)
             PROVE  /\ ~Below(F1(rows, t), F1(rows, o))
                    /\ o < t => Below(F1(rows, o), F1(rows, t))
                    /\ F1(rows, o)[1] > 0 =>
                         \E i \in Rows(rows) : rows[i].win /\ rows[i].score >= t
  OBVIOUS
<1> DEFINE f(i) == F1(rows, Tried[i])
           D == DOMAIN Tried
<1>1. PICK so : so.at = t /\ Ahead(rows, so, D)
  BY SuggestedAhead
<1>2. PICK j \in D : o = Tried[j]
  BY DEF Range
<1>3. /\ D \subseteq Int /\ 1 \in D /\ (\A i \in D : i >= 1 /\ Tried[i] \in Int)
      /\ \A i, k \in D : i < k => Tried[i] < Tried[k]
  <2>1. D = 1..Len(Tried) /\ Len(Tried) \in Nat /\ Len(Tried) # 0
    BY AuditAssumption
  <2> QED
    BY <2>1, AuditAssumption
<1>4. \A p, q \in Fractions : ~Below(p, q) /\ q[1] > 0 => p[1] > 0
  <2> SUFFICES ASSUME NEW p \in Fractions, NEW q \in Fractions, ~Below(p, q), q[1] > 0, ~(p[1] > 0)
               PROVE  FALSE
    OBVIOUS
  <2>1. /\ p[1] = 0 /\ p[2] \in Nat \ {0} /\ q[1] \in Nat \ {0} /\ q[2] \in Nat
    BY DEF Fractions
  <2>2. \A a, b \in Nat \ {0} : a * b > 0
    OBVIOUS
  <2>3. p[1] * q[2] = 0 /\ q[1] * p[2] > 0
    BY <2>1, <2>2
  <2> QED
    BY <2>3 DEF Below
<1>5. \A i : f(i) \in Fractions
  BY F1Is
<1>6. /\ ~Below(F1(rows, t), f(j))
      /\ o < t => Below(f(j), F1(rows, t))
  <2>1. CASE so = AtFirst
    <3>1. t = Tried[1] /\ so.f1 = <<0, 1>>
      BY <1>1, <2>1, AuditAssumption DEF AtFirst
    <3>2. ~(o < t)
      BY <1>2, <1>3, <3>1
    <3>3. <<0, 1>> \in Fractions /\ ~Below(<<0, 1>>, f(j))
      BY <1>1, <1>2, <3>1 DEF Ahead
    <3>4. ~(f(j)[1] > 0)
      <4> HIDE DEF f
      <4>1. ~(<<0, 1>>[1] > 0)
        OBVIOUS
      <4> QED
        BY <1>4, <1>5, <3>3, <4>1
    <3>5. ~Below(f(1), f(j))
      <4>1. f(1) \in Fractions /\ f(j) \in Fractions
        BY <1>5
      <4> HIDE DEF f
      <4>2. /\ f(j)[1] = 0 /\ f(j)[2] \in Nat /\ f(1)[1] \in Nat /\ f(1)[2] \in Nat
        BY <3>4, <4>1 DEF Fractions
      <4>3. f(j)[1] * f(1)[2] = 0 /\ f(1)[1] * f(j)[2] \in Nat
        <5>1. \A a, b \in Nat : a * b \in Nat
          OBVIOUS
        <5> QED
          BY <4>2, <5>1
      <4> QED
        BY <4>3 DEF Below
    <3> QED
      BY <3>1, <3>2, <3>5
  <2>2. CASE so # AtFirst
    <3>1. PICK m \in D : /\ so.at = Tried[m] /\ so.f1 = f(m)
                         /\ \A i \in D : i < m => Below(f(i), so.f1)
      BY <1>1, <2>2 DEF Ahead
    <3>2. t = Tried[m] /\ f(m) = F1(rows, t) /\ ~Below(so.f1, f(j))
      BY <1>1, <1>2, <3>1 DEF Ahead
    <3>3. o < t => j < m
      <4>1. j < m \/ j = m \/ m < j
        BY <1>2, <1>3
      <4> QED
        BY <1>2, <1>3, <3>2, <4>1
    <3> HIDE DEF f
    <3> QED
      BY <1>2, <3>1, <3>2, <3>3
  <2> QED
    BY <2>1, <2>2
<1>7. F1(rows, o)[1] > 0 => F1(rows, t)[1] > 0
  BY <1>2, <1>4, <1>5, <1>6, F1Is
<1> QED
  BY <1>2, <1>6, <1>7, F1Is

\* How far the winners of some rows are above four in ten, tenfold.
WinsIn(won, s) == Cardinality(won \cap s)
Excess(won, s) == 10 * WinsIn(won, s) - 4 * Cardinality(s)

\* u falls into s and t.
Parts(u, s, t) == IsFiniteSet(s) /\ IsFiniteSet(t) /\ s \cap t = {} /\ u = s \cup t

LEMMA ExcessAdds ==
  \A won, U, S, T : Parts(U, S, T) =>
    /\ Cardinality(U) = Cardinality(S) + Cardinality(T)
    /\ WinsIn(won, U) = WinsIn(won, S) + WinsIn(won, T)
    /\ Excess(won, U) = Excess(won, S) + Excess(won, T)
    /\ Excess(won, S) \in Int
<1> TAKE won, U, S, T
<1> HAVE Parts(U, S, T)
<1> USE DEF Parts
<1> DEFINE A == won \cap S
           B == won \cap T
<1>1. A \in SUBSET S /\ B \in SUBSET T /\ A \cap B = {} /\ won \cap (S \cup T) = A \cup B
  OBVIOUS
<1>2. IsFiniteSet(A) /\ IsFiniteSet(B)
  BY <1>1, FS_Subset
<1>3. Cardinality({}) = 0
  BY FS_EmptySet
<1>4. /\ Cardinality(A) \in Nat /\ Cardinality(B) \in Nat
      /\ Cardinality(S) \in Nat /\ Cardinality(T) \in Nat
  BY <1>2, FS_CardinalityType
<1>5. Cardinality(S \cup T) = Cardinality(S) + Cardinality(T)
  <2>1. Cardinality(S \cup T) = Cardinality(S) + Cardinality(T) - Cardinality(S \cap T)
    BY FS_Union
  <2>2. Cardinality(S \cap T) = 0
    BY <1>3
  <2> QED
    BY <1>4, <2>1, <2>2
<1>6. Cardinality(A \cup B) = Cardinality(A) + Cardinality(B)
  <2> HIDE DEF A, B
  <2>1. Cardinality(A \cup B) = Cardinality(A) + Cardinality(B) - Cardinality(A \cap B)
    BY <1>2, FS_Union
  <2>2. Cardinality(A \cap B) = 0
    BY <1>1, <1>3
  <2> QED
    BY <1>4, <2>1, <2>2
<1>7. /\ Excess(won, S \cup T) = 10 * Cardinality(A \cup B) - 4 * Cardinality(S \cup T)
      /\ Excess(won, S) = 10 * Cardinality(A) - 4 * Cardinality(S)
      /\ Excess(won, T) = 10 * Cardinality(B) - 4 * Cardinality(T)
  BY <1>1 DEF Excess, WinsIn
<1>8. WinsIn(won, S \cup T) = WinsIn(won, S) + WinsIn(won, T)
  BY <1>1, <1>6 DEF WinsIn
<1> HIDE DEF A, B
<1>9. /\ Excess(won, S \cup T) = Excess(won, S) + Excess(won, T)
      /\ Excess(won, S) \in Int
  BY <1>4, <1>5, <1>6, <1>7
<1> QED
  BY <1>5, <1>8, <1>9 DEF Parts

\* The rows whose key is in G.
KeyedIn(R, keys, G) == {i \in R : keys[i] \in G}

\* Groups that each have an excess have one together, and so have groups that lack one.
LEMMA GroupsTogether ==
  ASSUME NEW R, IsFiniteSet(R), NEW keys, NEW won, NEW G, IsFiniteSet(G)
  PROVE  /\ (\A k \in G : Excess(won, KeyedIn(R, keys, {k})) >= 0)
              => Excess(won, KeyedIn(R, keys, G)) >= 0
         /\ G # {} /\ (\A k \in G : Excess(won, KeyedIn(R, keys, {k})) < 0)
              => Excess(won, KeyedIn(R, keys, G)) < 0
<1> DEFINE e(g) == Excess(won, KeyedIn(R, keys, g))
           P == {g \in SUBSET G : /\ (\A k \in g : e({k}) >= 0) => e(g) >= 0
                                  /\ g # {} /\ (\A k \in g : e({k}) < 0) => e(g) < 0}
<1>1. \A g : IsFiniteSet(KeyedIn(R, keys, g)) /\ e(g) \in Int
  <2> TAKE g
  <2>1. KeyedIn(R, keys, g) \in SUBSET R /\ {} \cap KeyedIn(R, keys, g) = {}
    BY DEF KeyedIn
  <2>2. IsFiniteSet(KeyedIn(R, keys, g))
    BY <2>1, FS_Subset
  <2>3. KeyedIn(R, keys, g) \cap {} = {} /\ IsFiniteSet({})
    BY FS_EmptySet
  <2> DEFINE s == KeyedIn(R, keys, g)
             z == {}
             u == s \cup z
  <2>4. Parts(u, s, z)
    BY <2>2, <2>3 DEF Parts
  <2> HIDE DEF s, z, u
  <2>5. Excess(won, s) \in Int
    BY <2>4, ExcessAdds
  <2> QED
    BY <2>2, <2>5 DEF s
<1>2. e({}) = 0
  <2>1. KeyedIn(R, keys, {}) = {} /\ won \cap {} = {}
    BY DEF KeyedIn
  <2> QED
    BY <2>1, FS_EmptySet DEF Excess, WinsIn
<1>3. ASSUME NEW g \in SUBSET G, NEW k \in g PROVE e(g) = e(g \ {k}) + e({k})
  <2> DEFINE S == KeyedIn(R, keys, g \ {k})
             T == KeyedIn(R, keys, {k})
  <2>1. S \cap T = {} /\ KeyedIn(R, keys, g) = S \cup T
    BY DEF KeyedIn
  <2>2. IsFiniteSet(S) /\ IsFiniteSet(T)
    BY <1>1
  <2> HIDE DEF S, T
  <2>3. S \cap T = {}
    BY <2>1
  <2> DEFINE U == KeyedIn(R, keys, g)
  <2>4. U = S \cup T
    BY <2>1
  <2> HIDE DEF U
  <2>5. Parts(U, S, T)
    BY <2>2, <2>3, <2>4 DEF Parts
  <2>6. Excess(won, U) = Excess(won, S) + Excess(won, T)
    BY <2>5, ExcessAdds
  <2> QED
    BY <2>6 DEF S, T, U
<1> HIDE DEF e
<1>4. ASSUME NEW g \in SUBSET G, \A u \in SUBSET g : u # g => u \in P
      PROVE  g \in P
  <2>1. CASE g = {}
    BY <1>2, <2>1
  <2>2. CASE g # {}
    <3>1. PICK k \in g : TRUE
      BY <2>2
    <3> DEFINE u == g \ {k}
    <3>2. u \in P
      BY <1>4, <3>1
    <3>3. e(g) = e(u) + e({k}) /\ e(u) \in Int /\ e({k}) \in Int /\ e(g) \in Int
      BY <1>1, <1>3, <3>1
    <3>4. (\A x \in g : e({x}) >= 0) => e(g) >= 0
      BY <3>1, <3>2, <3>3
    <3>5. (\A x \in g : e({x}) < 0) => e(g) < 0
      <4>1. CASE u = {}
        BY <1>2, <3>1, <3>3, <4>1
      <4>2. CASE u # {}
        BY <3>1, <3>2, <3>3, <4>2
      <4> QED
        BY <4>1, <4>2
    <3> QED
      BY <3>4, <3>5
  <2> QED
    BY <2>1, <2>2
<1> HIDE DEF P
<1>5. G \in P
  BY <1>4, SubsetInduction
<1> QED
  BY <1>5 DEF P, e

LEMMA KeysFinite ==
  \A R, keys : IsFiniteSet(R) => IsFiniteSet({keys[i] : i \in R})
<1> TAKE R, keys
<1> HAVE IsFiniteSet(R)
<1> DEFINE T == {keys[i] : i \in R}
           g == [i \in R |-> keys[i]]
<1>1. g \in Surjection(R, T)
  BY DEF Surjection
<1> HIDE DEF g
<1> QED
  BY <1>1, FS_Surjection

\* Leaving out the regimes that win too little leaves a rate no lower, and leaves something while
\* the rate is good.
LEMMA FilterHelps ==
  \A rows \in Seq(Audits) :
    LET known == {i \in Rows(rows) : rows[i].regime # "UNKNOWN"}
        left == {i \in known : rows[i].regime \notin Recommendations(rows).filter}
        overall == Rate(Won(rows, known), known)
    IN /\ left # {} => ~Below(Rate(Won(rows, left), left), overall)
       /\ known # {} /\ ~Below(overall, <<4, 10>>) => left # {}
<1> SUFFICES ASSUME NEW rows \in Seq(Audits)
             PROVE  LET known == {i \in Rows(rows) : rows[i].regime # "UNKNOWN"}
                        left == {i \in known : rows[i].regime \notin Recommendations(rows).filter}
                        overall == Rate(Won(rows, known), known)
                    IN /\ left # {} => ~Below(Rate(Won(rows, left), left), overall)
                       /\ known # {} /\ ~Below(overall, <<4, 10>>) => left # {}
  OBVIOUS
<1> DEFINE R == Rows(rows)
           keys == Regimes(rows)
           rates == WinRateBy(rows, keys)
           advised == Recommendations(rows).filter
           poor == {r \in DOMAIN rates : Below(rates[r], <<4, 10>>) /\ r # "UNKNOWN"}
           fair == {r \in DOMAIN rates : ~Below(rates[r], <<4, 10>>) /\ r # "UNKNOWN"}
           known == {i \in R : rows[i].regime # "UNKNOWN"}
           left == {i \in known : rows[i].regime \notin advised}
           out == {i \in known : rows[i].regime \in advised}
           W == {i \in R : rows[i].win}
<1>1. IsFiniteSet(R) /\ \A i \in R : keys[i] = rows[i].regime
  BY RowsFinite DEF Regimes, Rows
<1>2. DOMAIN rates = {keys[i] : i \in R} /\ IsFiniteSet(DOMAIN rates)
  <2>1. DOMAIN rates = {keys[i] : i \in R}
    BY DEF WinRateBy
  <2> HIDE DEF R, keys, rates
  <2>2. IsFiniteSet({keys[i] : i \in R})
    BY <1>1, KeysFinite
  <2> QED
    BY <2>1, <2>2
<1>3. \A s \in SUBSET R : /\ Won(rows, s) = W \cap s
                          /\ IsFiniteSet(s)
                          /\ Rate(Won(rows, s), s) = <<WinsIn(W, s), Cardinality(s)>>
                          /\ WinsIn(W, s) \in Nat /\ Cardinality(s) \in Nat
                          /\ s # {} => Cardinality(s) # 0
  <2> TAKE s \in SUBSET R
  <2>1. Won(rows, s) = W \cap s /\ W \cap s \in SUBSET R
    BY DEF Won
  <2>2. IsFiniteSet(s) /\ IsFiniteSet(W \cap s)
    <3> DEFINE v == W \cap s
    <3>1. v \in SUBSET R
      BY <2>1
    <3> HIDE DEF v, R
    <3>2. IsFiniteSet(s) /\ IsFiniteSet(v)
      BY <1>1, <3>1, FS_Subset
    <3> QED
      BY <3>2 DEF v
  <2>3. Cardinality(W \cap s) \in Nat /\ Cardinality(s) \in Nat /\ (s # {} => Cardinality(s) # 0)
    BY <2>2, FS_CardinalityType, FS_EmptySet
  <2> QED
    BY <2>1, <2>2, <2>3 DEF Rate, WinsIn
<1>4. \A r \in DOMAIN rates :
        Below(rates[r], <<4, 10>>) <=> Excess(W, KeyedIn(R, keys, {r})) < 0
  <2> TAKE r \in DOMAIN rates
  <2> DEFINE s == {i \in R : keys[i] = r}
  <2>1. s = KeyedIn(R, keys, {r}) /\ s \in SUBSET R
    BY DEF KeyedIn
  <2>2. rates[r] = Rate(Won(rows, s), s)
    BY DEF WinRateBy
  <2> HIDE DEF s, W, R
  <2>3. rates[r] = <<WinsIn(W, s), Cardinality(s)>>
    BY <1>3, <2>1, <2>2
  <2> HIDE DEF rates
  <2>4. WinsIn(W, s) \in Nat /\ Cardinality(s) \in Nat
    BY <1>3, <2>1
  <2>5. Below(rates[r], <<4, 10>>) <=> 10 * WinsIn(W, s) - 4 * Cardinality(s) < 0
    BY <2>3, <2>4 DEF Below
  <2> QED
    BY <2>1, <2>5 DEF Excess
<1>5. IsFiniteSet(poor) /\ IsFiniteSet(fair)
  <2>1. poor \in SUBSET (DOMAIN rates) /\ fair \in SUBSET (DOMAIN rates)
    OBVIOUS
  <2> HIDE DEF poor, fair, rates
  <2> QED
    BY <1>2, <2>1, FS_Subset
<1>6. /\ Excess(W, KeyedIn(R, keys, fair)) >= 0
      /\ poor # {} => Excess(W, KeyedIn(R, keys, poor)) < 0
  <2>1. \A r \in fair : Excess(W, KeyedIn(R, keys, {r})) >= 0
    <3> SUFFICES ASSUME NEW r \in fair PROVE Excess(W, KeyedIn(R, keys, {r})) >= 0
      OBVIOUS
    <3> DEFINE s == KeyedIn(R, keys, {r})
    <3>1. ~(Excess(W, s) < 0)
      BY <1>4
    <3>2. s \in SUBSET R
      BY DEF KeyedIn
    <3> HIDE DEF s, W, R
    <3>3. WinsIn(W, s) \in Nat /\ Cardinality(s) \in Nat
      BY <1>3, <3>2
    <3>4. Excess(W, s) \in Int
      BY <3>3 DEF Excess
    <3>5. Excess(W, s) >= 0
      BY <3>1, <3>4
    <3> QED
      BY <3>5 DEF s
  <2>2. \A r \in poor : Excess(W, KeyedIn(R, keys, {r})) < 0
    BY <1>4
  <2> HIDE DEF R, W, keys, poor, fair
  <2> QED
    BY <1>1, <1>5, <2>1, <2>2, GroupsTogether
<1>7. advised = {} \/ advised = poor
  BY DEF Recommendations
<1>8. Parts(known, left, out) /\ left \in SUBSET R /\ out \in SUBSET R /\ known \in SUBSET R
  <2>1. left \in SUBSET R /\ out \in SUBSET R /\ known \in SUBSET R
    OBVIOUS
  <2>2. left \cap out = {} /\ known = left \cup out
    OBVIOUS
  <2>3. IsFiniteSet(left) /\ IsFiniteSet(out)
    BY <1>3, <2>1
  <2> QED
    BY <2>1, <2>2, <2>3 DEF Parts
<1>9. CASE advised = {}
  <2>1. left = known
    BY <1>9
  <2> HIDE DEF left, known, advised, R, W
  <2>2. ~Below(Rate(Won(rows, known), known), Rate(Won(rows, known), known))
    <3> DEFINE a == WinsIn(W, known)
               b == Cardinality(known)
    <3>1. a \in Nat /\ b \in Nat /\ Rate(Won(rows, known), known) = <<a, b>>
      BY <1>3, <1>8
    <3> HIDE DEF a, b
    <3>2. a * b \in Int
      BY <3>1, TimesMonotone
    <3> QED
      BY <3>1, <3>2 DEF Below
  <2> QED
    BY <2>1, <2>2 DEF left, known, advised, R
<1>10. CASE advised = poor
  <2>1. left = KeyedIn(R, keys, fair) /\ out = KeyedIn(R, keys, poor)
    BY <1>1, <1>2, <1>10 DEF KeyedIn
  <2>2. out # {} => poor # {}
    BY <2>1 DEF KeyedIn
  <2> DEFINE wl == WinsIn(W, left)
             wo == WinsIn(W, out)
             l == Cardinality(left)
             o == Cardinality(out)
  <2> HIDE DEF left, known, out, advised, R, W, keys, poor, fair
  <2>3. /\ wl \in Nat /\ wo \in Nat /\ l \in Nat /\ o \in Nat
        /\ Rate(Won(rows, left), left) = <<wl, l>>
        /\ Rate(Won(rows, known), known) = <<WinsIn(W, known), Cardinality(known)>>
        /\ out # {} => o # 0
    BY <1>3, <1>8
  <2>4. WinsIn(W, known) = wl + wo /\ Cardinality(known) = l + o
    BY <1>8, ExcessAdds
  <2>5. 10 * wl - 4 * l >= 0 /\ (out # {} => 10 * wo - 4 * o < 0)
    BY <1>6, <2>1, <2>2 DEF Excess
  <2>6. out = {} => wo = 0 /\ o = 0
    <3>1. out = {} => W \cap out = {}
      OBVIOUS
    <3> QED
      BY <3>1, FS_EmptySet DEF WinsIn
  <2>7. left = {} => known = out /\ wl = 0 /\ l = 0
    <3>1. left = {} => W \cap left = {} /\ known = out
      BY <1>8 DEF Parts
    <3> QED
      BY <3>1, FS_EmptySet DEF WinsIn
  <2>8. Rate(Won(rows, known), known) = <<wl + wo, l + o>>
    BY <2>3, <2>4
  <2> HIDE DEF wl, wo, l, o
  <2>9. ~Below(<<wl, l>>, <<wl + wo, l + o>>)
    <3>1. 10 * wo <= 4 * o /\ 4 * l <= 10 * wl
      BY <2>3, <2>5, <2>6
    <3>2. (10 * wo) * l <= (4 * o) * l /\ (4 * l) * o <= (10 * wl) * o
      BY <2>3, <3>1, TimesMonotone
    <3>3. /\ (10 * wo) * l = 10 * (wo * l) /\ (4 * o) * l = 4 * (o * l)
          /\ (4 * l) * o = 4 * (o * l) /\ (10 * wl) * o = 10 * (wl * o)
      BY <2>3
    <3>4. wo * l \in Int /\ o * l \in Int /\ wl * o \in Int /\ wl * l \in Int
      BY <2>3, TimesMonotone
    <3>5. wo * l <= wl * o
      BY <3>2, <3>3, <3>4
    <3>6. wl * (l + o) = wl * l + wl * o /\ (wl + wo) * l = wl * l + wo * l
      BY <2>3
    <3>7. ~(wl * (l + o) < (wl + wo) * l)
      BY <3>4, <3>5, <3>6
    <3> QED
      BY <3>7 DEF Below
  <2>10. left = {} /\ known # {} => Below(<<wl + wo, l + o>>, <<4, 10>>)
    <3> SUFFICES ASSUME left = {}, known # {} PROVE Below(<<wl + wo, l + o>>, <<4, 10>>)
      OBVIOUS
    <3>1. wl = 0 /\ l = 0 /\ 10 * wo - 4 * o < 0
      BY <2>5, <2>7
    <3>2. (wl + wo) * 10 < 4 * (l + o)
      BY <2>3, <3>1
    <3> QED
      BY <3>2 DEF Below
  <2> QED
    BY <2>3, <2>8, <2>9, <2>10 DEF left, known, advised, R
<1> QED
  BY <1>7, <1>9, <1>10

\* The trades audited are trades.
AuditInv == audited \in Seq(Audits)

LEMMA AdviceIs == ASSUME AuditInv PROVE AdviceHelps
<1>1. \A t \in Recommendations(audited).threshold : t \in Suggested(audited)
  BY DEF Recommendations
<1> QED
  BY <1>1, SuggestionHelps, FilterHelps DEF AuditInv, AdviceHelps

\* AdviceHelps, for any trades, thresholds and least number of them: the threshold suggested is
\* the lowest of the best, and the regimes left out only raise the win rate.
THEOREM AuditAdviceHelps == ReportsSpec => []AdviceHelps
<1>1. ReportsInit => AuditInv
  BY DEF ReportsInit, AuditInv
<1>2. AuditInv /\ [ReportsNext]_audited => AuditInv'
  BY DEF ReportsNext, AuditInv
<1>3. AuditInv => AdviceHelps
  BY AdviceIs
<1> QED
  BY <1>1, <1>2, <1>3, PTL DEF ReportsSpec


-----------------------------------------------------------------------------
(* The volume profile: a sum over bins of sums over candles *)

\* A common factor can be taken out.
LEMMA SumScale ==
  ASSUME NEW f, NEW h, NEW S, NEW k \in Int, IsFiniteSet(S),
         \A x \in S : f[x] \in Int /\ h[x] = k * f[x]
  PROVE  SumFunctionOnSet(h, S) = k * SumFunctionOnSet(f, S)
<1> DEFINE P == {s \in SUBSET S : SumFunctionOnSet(h, s) = k * SumFunctionOnSet(f, s)}
<1>1. ASSUME NEW s \in SUBSET S, \A t \in SUBSET s : t # s => t \in P
      PROVE  s \in P
  <2>1. IsFiniteSet(s)
    BY FS_Subset
  <2>2. CASE s = {}
    <3>1. SumFunctionOnSet(f, s) = 0 /\ SumFunctionOnSet(h, s) = 0
      BY <2>2, SumEmpty
    <3> QED
      BY <3>1
  <2>3. CASE s # {}
    <3> DEFINE p == Picked(s)
               r == s \ {p}
               a == SumFunctionOnSet(f, r)
    <3>1. /\ p \in s
          /\ SumFunctionOnSet(f, s) = f[p] + a
          /\ SumFunctionOnSet(h, s) = h[p] + SumFunctionOnSet(h, r)
      BY <2>1, <2>3, SumLevel
    <3>2. r \in P /\ IsFiniteSet(r)
      BY <1>1, <2>1, <3>1, FS_Subset
    <3>3. SumFunctionOnSet(h, r) = k * a
      BY <3>2
    <3>4. a \in Int /\ f[p] \in Int /\ h[p] = k * f[p]
      BY <3>1, <3>2, SumInt
    <3> HIDE DEF p, r, a
    <3>5. k * f[p] + k * a = k * (f[p] + a)
      BY <3>4
    <3>6. SumFunctionOnSet(h, s) = k * SumFunctionOnSet(f, s)
      BY <3>1, <3>3, <3>4, <3>5
    <3> QED
      BY <3>6
  <2> QED
    BY <2>2, <2>3
<1> HIDE DEF P
<1>2. S \in P
  BY <1>1, SubsetInduction
<1> QED
  BY <1>2 DEF P

\* Differences of neighbours add up to that of the ends.
LEMMA SumSteps ==
  ASSUME NEW n \in Nat, NEW c, \A i \in 1..(n + 1) : c[i] \in Int,
         NEW f, \A i \in 1..n : f[i] = c[i + 1] - c[i]
  PROVE  SumFunctionOnSet(f, 1..n) = c[n + 1] - c[1]
<1> DEFINE D == 1..n
           P == {s \in SUBSET D : \A k \in 0..n : s = 1..k => SumFunctionOnSet(f, s) = c[k + 1] - c[1]}
<1>1. IsFiniteSet(D)
  BY FS_Interval
<1>2. \A s \in SUBSET D : \A x \in s :
        SumFunctionOnSet(f, s) = f[x] + SumFunctionOnSet(f, s \ {x})
  <2>1. \A x \in D : f[x] \in Int
    <3> SUFFICES ASSUME NEW x \in 1..n PROVE f[x] \in Int
      OBVIOUS
    <3>1. x \in 1..(n + 1) /\ x + 1 \in 1..(n + 1)
      OBVIOUS
    <3>2. c[x] \in Int /\ c[x + 1] \in Int /\ f[x] = c[x + 1] - c[x]
      BY <3>1
    <3> QED
      BY <3>2
  <2> HIDE DEF D
  <2> SUFFICES ASSUME NEW s \in SUBSET D
               PROVE  \A x \in s : SumFunctionOnSet(f, s) = f[x] + SumFunctionOnSet(f, s \ {x})
    OBVIOUS
  <2>2. IsFiniteSet(s) /\ \A x \in s : f[x] \in Int
    BY <1>1, <2>1, FS_Subset
  <2> QED
    BY <2>2, SumRemove
<1>3. ASSUME NEW s \in SUBSET D, \A t \in SUBSET s : t # s => t \in P
      PROVE  s \in P
  <2> SUFFICES ASSUME NEW k \in 0..n, s = 1..k
               PROVE  SumFunctionOnSet(f, s) = c[k + 1] - c[1]
    OBVIOUS
  <2>1. CASE k = 0
    <3>1. s = {} /\ c[1] \in Int
      BY <2>1
    <3> QED
      BY <2>1, <3>1, SumEmpty
  <2>2. CASE k # 0
    <3> DEFINE r == 1..(k - 1)
    <3>1. k \in s /\ s \ {k} = r /\ r \in SUBSET s /\ r # s /\ k - 1 \in 0..n
      BY <2>2
    <3>2. r \in P
      BY <1>3, <3>1
    <3>3. SumFunctionOnSet(f, r) = c[k] - c[1]
      BY <3>1, <3>2
    <3>5. SumFunctionOnSet(f, s) = f[k] + SumFunctionOnSet(f, r)
      <4>1. SumFunctionOnSet(f, s) = f[k] + SumFunctionOnSet(f, s \ {k})
        BY <1>2, <3>1
      <4> QED
        BY <3>1, <4>1
    <3>6. f[k] = c[k + 1] - c[k] /\ c[k] \in Int /\ c[k + 1] \in Int /\ c[1] \in Int
      BY <2>2
    <3> QED
      BY <3>3, <3>5, <3>6
  <2> QED
    BY <2>1, <2>2
<1>4. D \in P
  <2> HIDE DEF P, D
  <2> QED
    BY <1>1, <1>3, SubsetInduction
<1> QED
  BY <1>4

\* The sum of a column of a table, and of a table by columns and by rows.
Column(f, S, b) == SumFunctionOnSet([i \in S |-> f[i][b]], S)
ByColumn(f, S, T) == SumFunctionOnSet([b \in T |-> Column(f, S, b)], T)
ByRow(f, S, T) == SumFunctionOnSet([i \in S |-> SumFunctionOnSet(f[i], T)], S)

LEMMA ColumnInt ==
  ASSUME NEW S, IsFiniteSet(S), NEW f, NEW b, \A i \in S : f[i][b] \in Int
  PROVE  Column(f, S, b) \in Int
<1> DEFINE g == [i \in S |-> f[i][b]]
<1>1. \A i \in S : g[i] \in Int
  OBVIOUS
<1> HIDE DEF g
<1>2. SumFunctionOnSet(g, S) \in Int
  BY <1>1, SumInt
<1> QED
  BY <1>2 DEF g, Column

LEMMA ColumnLess ==
  ASSUME NEW S, IsFiniteSet(S), NEW f, NEW b, \A i \in S : f[i][b] \in Int, NEW p \in S
  PROVE  Column(f, S, b) = f[p][b] + Column(f, S \ {p}, b)
<1> DEFINE r == S \ {p}
           g == [i \in S |-> f[i][b]]
           h == [i \in r |-> f[i][b]]
<1>1. IsFiniteSet(r) /\ \A i \in S : g[i] \in Int
  BY FS_Subset
<1>2. g[p] = f[p][b] /\ \A i \in r : g[i] = h[i]
  OBVIOUS
<1>3. Column(f, S, b) = SumFunctionOnSet(g, S) /\ Column(f, r, b) = SumFunctionOnSet(h, r)
  BY DEF Column
<1> HIDE DEF g, h
<1>4. SumFunctionOnSet(g, S) = g[p] + SumFunctionOnSet(g, r)
  BY <1>1, SumRemove
<1>5. SumFunctionOnSet(g, r) = SumFunctionOnSet(h, r)
  BY <1>1, <1>2, SumSame
<1> QED
  BY <1>2, <1>3, <1>4, <1>5

\* The order of the two sums does not matter.
LEMMA SumSwap ==
  ASSUME NEW S, IsFiniteSet(S), NEW T, IsFiniteSet(T), NEW f,
         \A i \in S : \A b \in T : f[i][b] \in Int
  PROVE  ByColumn(f, S, T) = ByRow(f, S, T)
<1> DEFINE P == {s \in SUBSET S : ByColumn(f, s, T) = ByRow(f, s, T)}
<1>1. ASSUME NEW s \in SUBSET S, \A t \in SUBSET s : t # s => t \in P
      PROVE  s \in P
  <2>1. IsFiniteSet(s)
    BY FS_Subset
  <2> DEFINE columns(t) == [b \in T |-> Column(f, t, b)]
             sums(t) == [i \in t |-> SumFunctionOnSet(f[i], T)]
  <2>2. CASE s = {}
    <3>1. \A b \in T : columns(s)[b] = 0
      <4>1. \A b \in T : Column(f, s, b) = 0
        BY <2>2, SumEmpty DEF Column
      <4> QED
        BY <4>1
    <3> DEFINE g == columns(s)
    <3>2. \A b \in T : g[b] \in Int /\ g[b] = 0 * g[b]
      BY <3>1
    <3>3. ByColumn(f, s, T) = SumFunctionOnSet(g, T)
      BY DEF ByColumn
    <3> HIDE DEF g
    <3>4. SumFunctionOnSet(g, T) \in Int /\ SumFunctionOnSet(g, T) = 0 * SumFunctionOnSet(g, T)
      BY <3>2, SumInt, SumScale
    <3>5. ByRow(f, s, T) = 0
      BY <2>2, SumEmpty DEF ByRow
    <3> QED
      BY <3>3, <3>4, <3>5
  <2>3. CASE s # {}
    <3>1. PICK p \in s : TRUE
      BY <2>3
    <3> DEFINE r == s \ {p}
               h == columns(s)
               g == columns(r)
               a == f[p]
               u == sums(s)
               v == sums(r)
    <3>2. r \in P /\ IsFiniteSet(r)
      BY <1>1, <2>1, <3>1, FS_Subset
    <3>3. \A b \in T : a[b] \in Int /\ g[b] \in Int /\ h[b] = g[b] + a[b]
      <4> SUFFICES ASSUME NEW b \in T PROVE a[b] \in Int /\ g[b] \in Int /\ h[b] = g[b] + a[b]
        OBVIOUS
      <4>1. \A i \in s : f[i][b] \in Int
        OBVIOUS
      <4>2. Column(f, s, b) = f[p][b] + Column(f, r, b)
        BY <2>1, <3>1, <4>1, ColumnLess
      <4>3. Column(f, r, b) \in Int /\ f[p][b] \in Int
        BY <3>1, <3>2, <4>1, ColumnInt
      <4>4. h[b] = Column(f, s, b) /\ g[b] = Column(f, r, b)
        OBVIOUS
      <4> HIDE DEF h, g, columns
      <4> QED
        BY <4>2, <4>3, <4>4
    <3>4. ByColumn(f, s, T) = SumFunctionOnSet(h, T) /\ ByColumn(f, r, T) = SumFunctionOnSet(g, T)
      BY DEF ByColumn
    <3>5. SumFunctionOnSet(h, T) = SumFunctionOnSet(g, T) + SumFunctionOnSet(a, T)
      <4> HIDE DEF h, g, a
      <4>1. \A b \in T : h[b] = g[b] + (IF b \in T THEN a[b] ELSE 0)
        BY <3>3
      <4> QED
        BY <3>3, <4>1, SumAdd
    <3>6. ByRow(f, s, T) = SumFunctionOnSet(u, s) /\ ByRow(f, r, T) = SumFunctionOnSet(v, r)
      BY DEF ByRow
    <3>7. (\A i \in s : u[i] \in Int) /\ u[p] = SumFunctionOnSet(a, T) /\ \A i \in r : u[i] = v[i]
      <4>1. \A i \in s : SumFunctionOnSet(f[i], T) \in Int
        BY SumInt
      <4> QED
        BY <3>1, <4>1
    <3>8. SumFunctionOnSet(u, s) = u[p] + SumFunctionOnSet(u, r)
      <4> HIDE DEF u
      <4> QED
        BY <2>1, <3>1, <3>7, SumRemove
    <3>9. SumFunctionOnSet(u, r) = SumFunctionOnSet(v, r)
      <4> HIDE DEF u, v
      <4> QED
        BY <3>2, <3>7, SumSame
    <3>10. ByColumn(f, r, T) = ByRow(f, r, T)
      BY <3>2
    <3>11. SumFunctionOnSet(g, T) \in Int /\ SumFunctionOnSet(a, T) \in Int
      <4> HIDE DEF g, a
      <4> QED
        BY <3>3, SumInt
    <3> HIDE DEF h, g, a, u, v, r, P
    <3>12. ByColumn(f, s, T) = ByRow(f, s, T)
      BY <3>4, <3>5, <3>6, <3>7, <3>8, <3>9, <3>10, <3>11
    <3> QED
      BY <3>12 DEF P
  <2> QED
    BY <2>2, <2>3
<1> HIDE DEF P
<1>2. S \in P
  BY <1>1, SubsetInduction
<1> QED
  BY <1>2 DEF P


\* A point cut to a range, and what lies in it of a stretch.
Clip(low, high, x) == IF x < low THEN low ELSE IF x > high THEN high ELSE x

LEMMA ClipSteps ==
  \A low, high, x, y \in Int : low < high /\ x <= y =>
    LET from == Max({low, x})
        to == Min({high, y})
    IN (IF to > from THEN to - from ELSE 0) = Clip(low, high, y) - Clip(low, high, x)
<1> SUFFICES ASSUME NEW low \in Int, NEW high \in Int, NEW x \in Int, NEW y \in Int,
                    low < high, x <= y
             PROVE  (IF Min({high, y}) > Max({low, x}) THEN Min({high, y}) - Max({low, x}) ELSE 0)
                      = Clip(low, high, y) - Clip(low, high, x)
  OBVIOUS
<1>1. Max({low, x}) = (IF low >= x THEN low ELSE x) /\ Min({high, y}) = (IF high <= y THEN high ELSE y)
  BY OfTwo
<1> DEFINE from == Max({low, x})
           to == Min({high, y})
<1> HIDE DEF from, to
<1>2. from = (IF low >= x THEN low ELSE x) /\ to = (IF high <= y THEN high ELSE y)
  BY <1>1 DEF from, to
<1>3. (IF to > from THEN to - from ELSE 0) = Clip(low, high, y) - Clip(low, high, x)
  BY <1>2 DEF Clip
<1> QED
  BY <1>3 DEF from, to

LEMMA CandlesAre ==
  \A c \in ProfileCandles : c.l \in Int /\ c.h \in Int /\ c.v \in Nat /\ c.l <= c.h
BY ProfileAssumption

LEMMA RangesDivide ==
  \A c \in ProfileCandles : c.l < c.h => SHARES % (c.h - c.l) = 0
BY ProfileAssumption

\* The candles of a window with a range.
Spread(rows) == rows \in Seq(ProfileCandles) /\ rows # <<>> /\ Cheapest(rows) < Dearest(rows)

LEMMA PricesBetween ==
  \A rows : Spread(rows) =>
    /\ Cheapest(rows) \in Int /\ Dearest(rows) \in Int
    /\ \A i \in DOMAIN rows : /\ rows[i] \in ProfileCandles
                              /\ Cheapest(rows) <= rows[i].l /\ rows[i].h <= Dearest(rows)
<1> SUFFICES ASSUME NEW rows, Spread(rows)
             PROVE  /\ Cheapest(rows) \in Int /\ Dearest(rows) \in Int
                    /\ \A i \in DOMAIN rows :
                         /\ rows[i] \in ProfileCandles
                         /\ Cheapest(rows) <= rows[i].l /\ rows[i].h <= Dearest(rows)
  OBVIOUS
<1> DEFINE D == DOMAIN rows
           lows == {rows[i].l : i \in D}
           highs == {rows[i].h : i \in D}
           fl == [i \in D |-> rows[i].l]
           fh == [i \in D |-> rows[i].h]
<1>1. /\ IsFiniteSet(D) /\ D # {}
      /\ \A i \in D : rows[i] \in ProfileCandles
  <2> rows \in Seq(ProfileCandles) /\ rows # <<>>
    BY DEF Spread
  <2>1. D = 1..Len(rows) /\ Len(rows) \in Nat /\ Len(rows) # 0
    OBVIOUS
  <2>2. IsFiniteSet(1..Len(rows))
    BY <2>1, FS_Interval
  <2>3. 1 \in D
    BY <2>1
  <2>4. \A i \in D : rows[i] \in ProfileCandles
    OBVIOUS
  <2> QED
    BY <2>1, <2>2, <2>3, <2>4
<1>2. \A i \in D : rows[i].l \in Int /\ rows[i].h \in Int
  BY <1>1, CandlesAre
<1>3. fl \in Surjection(D, lows) /\ fh \in Surjection(D, highs)
  BY DEF Surjection
<1> HIDE DEF fl, fh
<1>4. IsFiniteSet(lows) /\ IsFiniteSet(highs)
  BY <1>1, <1>3, FS_Surjection
<1>5. lows \subseteq Int /\ highs \subseteq Int /\ lows # {} /\ highs # {}
  BY <1>1, <1>2
<1>6. Cheapest(rows) = Min(lows) /\ Dearest(rows) = Max(highs)
  BY DEF Cheapest, Dearest
<1>7. \A i \in D : rows[i].l \in lows /\ rows[i].h \in highs
  OBVIOUS
<1> HIDE DEF lows, highs
<1>8. /\ Min(lows) \in lows /\ \A y \in lows : Min(lows) <= y
      /\ Max(highs) \in highs /\ \A y \in highs : y <= Max(highs)
  BY <1>4, <1>5, LeastIn, LargestIn
<1> QED
  BY <1>1, <1>5, <1>6, <1>7, <1>8

\* The edges of the bins go up from the lowest price to the highest one.
LEMMA EdgesRise ==
  \A rows : Spread(rows) =>
    /\ \A b \in Int : Edge(rows, b) \in Int
    /\ \A b \in Int : Edge(rows, b) <= Edge(rows, b + 1)
    /\ Edge(rows, 1) = BINS * Cheapest(rows)
    /\ Edge(rows, BINS + 1) = BINS * Dearest(rows)
<1> SUFFICES ASSUME NEW rows, Spread(rows)
             PROVE  /\ \A b \in Int : Edge(rows, b) \in Int
                    /\ \A b \in Int : Edge(rows, b) <= Edge(rows, b + 1)
                    /\ Edge(rows, 1) = BINS * Cheapest(rows)
                    /\ Edge(rows, BINS + 1) = BINS * Dearest(rows)
  OBVIOUS
<1> DEFINE low == Cheapest(rows)
           high == Dearest(rows)
           d == high - low
<1>1. low \in Int /\ high \in Int /\ BINS \in Nat \ {0} /\ low < high
  BY PricesBetween, ProfileAssumption DEF Spread
<1>2. \A b : Edge(rows, b) = BINS * low + (b - 1) * d
  BY DEF Edge
<1> HIDE DEF low, high
<1>3. d \in Nat /\ BINS * low \in Int
  BY <1>1
<1>4. BINS * d = BINS * high - BINS * low /\ BINS * high \in Int
  BY <1>1
<1> HIDE DEF d
<1>5. \A b \in Int : (b - 1) * d \in Int /\ ((b + 1) - 1) * d = (b - 1) * d + d
  BY <1>3
<1>6. \A b \in Int : Edge(rows, b) \in Int /\ Edge(rows, b + 1) = Edge(rows, b) + d
  BY <1>2, <1>3, <1>5
<1>7. Edge(rows, 1) = BINS * low
  <2>1. (1 - 1) * d = 0
    BY <1>3
  <2> QED
    BY <1>2, <1>3, <2>1
<1>8. Edge(rows, BINS + 1) = BINS * high
  <2>1. ((BINS + 1) - 1) * d = BINS * d /\ BINS * d \in Int
    BY <1>1, <1>3
  <2> QED
    BY <1>2, <1>3, <1>4, <2>1
<1> QED
  BY <1>3, <1>6, <1>7, <1>8 DEF low, high

\* The bin of a candle without a range is one of the bins.
LEMMA PointBinIn ==
  \A rows : Spread(rows) => \A i \in DOMAIN rows : PointBin(rows, rows[i].l) \in 1..BINS
<1> SUFFICES ASSUME NEW rows, Spread(rows), NEW i \in DOMAIN rows
             PROVE  PointBin(rows, rows[i].l) \in 1..BINS
  OBVIOUS
<1> DEFINE J == 1..(BINS + 1)
           reached == {b \in J : Edge(rows, b) <= BINS * rows[i].l}
<1>1. BINS \in Nat \ {0} /\ IsFiniteSet(J)
  BY ProfileAssumption, FS_Interval
<1>2. 1 \in reached
  <2>1. Cheapest(rows) \in Int /\ Cheapest(rows) <= rows[i].l /\ rows[i].l \in Int
    BY PricesBetween, CandlesAre
  <2>2. Edge(rows, 1) = BINS * Cheapest(rows)
    BY EdgesRise
  <2>3. BINS * Cheapest(rows) <= BINS * rows[i].l
    <3> DEFINE x == Cheapest(rows)
               y == rows[i].l
    <3>1. x \in Int /\ y \in Int /\ x <= y
      BY <2>1
    <3> HIDE DEF x, y
    <3>2. x * BINS <= y * BINS /\ x * BINS = BINS * x /\ y * BINS = BINS * y
      BY <1>1, <3>1, TimesMonotone
    <3>3. BINS * x <= BINS * y
      BY <3>2
    <3> QED
      BY <3>3 DEF x, y
  <2>4. 1 \in J
    BY <1>1
  <2> HIDE DEF J
  <2> QED
    BY <2>2, <2>3, <2>4
<1>3. reached \in SUBSET J /\ reached \subseteq Int
  OBVIOUS
<1>4. PointBin(rows, rows[i].l) = Min({BINS, Max(reached)})
  BY DEF PointBin
<1> HIDE DEF reached
<1>5. IsFiniteSet(reached)
  <2> HIDE DEF J
  <2> QED
    BY <1>1, <1>3, FS_Subset
<1>6. Max(reached) \in reached /\ \A y \in reached : y <= Max(reached)
  BY <1>2, <1>3, <1>5, LargestIn
<1> DEFINE m == Max(reached)
<1>7. m \in Int /\ m >= 1
  BY <1>2, <1>3, <1>6
<1> HIDE DEF m
<1>8. Min({BINS, m}) = IF BINS <= m THEN BINS ELSE m
  <2>1. BINS \in Int /\ m \in Int
    BY <1>1, <1>7
  <2> QED
    BY <2>1, OfTwo
<1>9. Min({BINS, m}) \in 1..BINS
  BY <1>1, <1>7, <1>8
<1> QED
  BY <1>4, <1>9 DEF m

\* What the bins receive of a candle.
Shares(rows, i) == [b \in 1..BINS |-> Part(rows, rows[i], b)]

\* A candle of one price, or without volume, goes into one bin.
LEMMA PointSpread ==
  \A rows : Spread(rows) => \A i \in DOMAIN rows :
    rows[i].h = rows[i].l \/ rows[i].v = 0 =>
      /\ \A b \in 1..BINS : Shares(rows, i)[b] \in Nat
      /\ SumFunctionOnSet(Shares(rows, i), 1..BINS) = (BINS * SHARES) * rows[i].v
<1> SUFFICES ASSUME NEW rows, Spread(rows), NEW i \in DOMAIN rows,
                    rows[i].h = rows[i].l \/ rows[i].v = 0
             PROVE  /\ \A b \in 1..BINS : Shares(rows, i)[b] \in Nat
                    /\ SumFunctionOnSet(Shares(rows, i), 1..BINS) = (BINS * SHARES) * rows[i].v
  OBVIOUS
<1> DEFINE J == 1..BINS
           at == PointBin(rows, rows[i].l)
           all == BINS * SHARES * rows[i].v
           f == Shares(rows, i)
<1>1. IsFiniteSet(J) /\ at \in J
  BY PointBinIn, ProfileAssumption, FS_Interval
<1>2. all \in Nat
  <2>1. BINS \in Nat /\ SHARES \in Nat /\ rows[i].v \in Nat
    BY PricesBetween, CandlesAre, ProfileAssumption
  <2>2. BINS * SHARES \in Nat
    BY <2>1
  <2> QED
    BY <2>1, <2>2
<1>3. \A b \in J : f[b] = IF b = at THEN all ELSE 0
  BY DEF Shares, Part
<1> HIDE DEF J, at, all, f
<1>4. (\A b \in J : f[b] \in Nat) /\ f[at] = all
  BY <1>1, <1>2, <1>3
<1> DEFINE r == J \ {at}
           z == [b \in r |-> 0]
<1>5. SumFunctionOnSet(f, J) = f[at] + SumFunctionOnSet(f, r)
  BY <1>1, <1>4, SumRemove
<1>6. SumFunctionOnSet(f, r) = 0
  <2>1. IsFiniteSet(r) /\ \A b \in r : f[b] \in Int /\ f[b] = 0 * f[b]
    BY <1>1, <1>3, FS_Subset
  <2> HIDE DEF r
  <2>2. SumFunctionOnSet(f, r) = 0 * SumFunctionOnSet(f, r) /\ SumFunctionOnSet(f, r) \in Int
    BY <2>1, SumScale, SumInt
  <2> QED
    BY <2>2
<1>7. SumFunctionOnSet(f, J) = all
  BY <1>2, <1>4, <1>5, <1>6
<1> QED
  BY <1>4, <1>7 DEF J, all, f

\* A range divides the shares.
LEMMA SharesDivide ==
  \A c \in ProfileCandles : c.l < c.h =>
    /\ SHARES \div (c.h - c.l) \in Nat
    /\ (SHARES \div (c.h - c.l)) * (c.h - c.l) = SHARES
<1> SUFFICES ASSUME NEW c \in ProfileCandles, c.l < c.h
             PROVE  /\ SHARES \div (c.h - c.l) \in Nat
                    /\ (SHARES \div (c.h - c.l)) * (c.h - c.l) = SHARES
  OBVIOUS
<1> DEFINE d == c.h - c.l
<1>1. d \in Nat \ {0} /\ SHARES \in Nat /\ SHARES % d = 0
  BY ProfileAssumption, CandlesAre, RangesDivide
<1> HIDE DEF d
<1>2. \A n \in Nat : n \div d \in Nat /\ n % d = n - d * (n \div d)
  BY <1>1
<1>3. SHARES \div d \in Nat /\ SHARES % d = SHARES - d * (SHARES \div d)
  BY <1>1, <1>2
<1> DEFINE q == SHARES \div d
<1> HIDE DEF q
<1>4. q \in Nat /\ 0 = SHARES - d * q
  BY <1>1, <1>3 DEF q
<1>5. d * q \in Nat /\ d * q = q * d
  BY <1>1, <1>4
<1>6. q * d = SHARES
  BY <1>1, <1>4, <1>5
<1> QED
  BY <1>4, <1>6 DEF q, d


\* A candle with a range is shared out among the bins that it overlaps, and to the last share.
LEMMA RangeSpread ==
  \A rows : Spread(rows) => \A i \in DOMAIN rows :
    ~(rows[i].h = rows[i].l \/ rows[i].v = 0) =>
      /\ \A b \in 1..BINS : Shares(rows, i)[b] \in Nat
      /\ SumFunctionOnSet(Shares(rows, i), 1..BINS) = (BINS * SHARES) * rows[i].v
<1> SUFFICES ASSUME NEW rows, Spread(rows), NEW i \in DOMAIN rows,
                    ~(rows[i].h = rows[i].l \/ rows[i].v = 0)
             PROVE  /\ \A b \in 1..BINS : Shares(rows, i)[b] \in Nat
                    /\ SumFunctionOnSet(Shares(rows, i), 1..BINS) = (BINS * SHARES) * rows[i].v
  OBVIOUS
<1> DEFINE k == rows[i]
           low == BINS * k.l
           high == BINS * k.h
           q == SHARES \div (k.h - k.l)
           w == k.v * q
           cut == [b \in 1..(BINS + 1) |-> Clip(low, high, Edge(rows, b))]
           over == [b \in 1..BINS |-> cut[b + 1] - cut[b]]
           f == Shares(rows, i)
<1>1. /\ BINS \in Nat \ {0} /\ k \in ProfileCandles /\ k.l \in Int /\ k.h \in Int /\ k.l < k.h
      /\ k.v \in Nat
  BY PricesBetween, CandlesAre, ProfileAssumption
<1>2. q \in Nat /\ q * (k.h - k.l) = SHARES
  BY <1>1, SharesDivide
<1>3. w \in Nat
  BY <1>1, <1>2
<1>4. low \in Int /\ high \in Int /\ low < high /\ high - low = BINS * (k.h - k.l)
  <2> DEFINE x == k.l
             y == k.h
  <2>1. x \in Int /\ y \in Int /\ x < y /\ BINS \in Nat \ {0}
    BY <1>1
  <2> HIDE DEF x, y
  <2>2. BINS * x \in Int /\ BINS * y \in Int /\ BINS * (y - x) = BINS * y - BINS * x
    BY <2>1
  <2>3. BINS * (y - x) > 0
    BY <2>1
  <2> QED
    BY <2>2, <2>3 DEF x, y
<1>5. \A b \in Int : Edge(rows, b) \in Int /\ Edge(rows, b) <= Edge(rows, b + 1)
  BY EdgesRise
<1>6. /\ \A b \in 1..(BINS + 1) : cut[b] \in Int
      /\ \A b \in 1..BINS : cut[b + 1] - cut[b] \in Nat
  <2> HIDE DEF low, high
  <2>1. \A x \in Int : Clip(low, high, x) \in Int
    BY <1>4 DEF Clip
  <2>2. \A x, y \in Int : x <= y => Clip(low, high, y) - Clip(low, high, x) \in Nat
    BY <1>4 DEF Clip
  <2>3. \A b \in 1..BINS : /\ b \in Int /\ b \in 1..(BINS + 1) /\ b + 1 \in 1..(BINS + 1)
                           /\ b + 1 \in Int
    BY <1>1
  <2>4. \A b \in 1..(BINS + 1) : cut[b] = Clip(low, high, Edge(rows, b)) /\ b \in Int
    BY <1>1
  <2> HIDE DEF cut
  <2> QED
    BY <1>5, <2>1, <2>2, <2>3, <2>4
<1>7. \A b \in 1..BINS : f[b] = w * over[b]
  <2> SUFFICES ASSUME NEW b \in 1..BINS PROVE f[b] = w * over[b]
    OBVIOUS
  <2> DEFINE x == Edge(rows, b)
             y == Edge(rows, b + 1)
             from == Max({low, x})
             to == Min({high, y})
  <2>1. f[b] = IF to > from THEN w * (to - from) ELSE 0
    BY DEF Shares, Part
  <2>2. x \in Int /\ y \in Int /\ x <= y
    BY <1>1, <1>5
  <2>3. b \in 1..(BINS + 1) /\ b + 1 \in 1..(BINS + 1)
    BY <1>1
  <2>4. over[b] = Clip(low, high, y) - Clip(low, high, x)
    BY <2>3
  <2> HIDE DEF w, low, high, x, y, over, f
  <2>5. (IF to > from THEN to - from ELSE 0) = over[b]
    BY <1>4, <2>2, <2>4, ClipSteps
  <2> HIDE DEF from, to
  <2>6. w * 0 = 0
    BY <1>3
  <2> QED
    BY <2>1, <2>5, <2>6
<1>8. SumFunctionOnSet(over, 1..BINS) = cut[BINS + 1] - cut[1]
  <2>1. \A b \in 1..BINS : over[b] = cut[b + 1] - cut[b]
    OBVIOUS
  <2> HIDE DEF over, cut
  <2> QED
    BY <1>1, <1>6, <2>1, SumSteps
<1>9. cut[1] = low /\ cut[BINS + 1] = high
  <2>1. cut[1] = Clip(low, high, Edge(rows, 1)) /\ cut[BINS + 1] = Clip(low, high, Edge(rows, BINS + 1))
    BY <1>1
  <2> DEFINE x == Cheapest(rows)
             y == Dearest(rows)
             l == k.l
             h == k.h
  <2>2. Edge(rows, 1) = BINS * x /\ Edge(rows, BINS + 1) = BINS * y
    BY EdgesRise
  <2>3. x \in Int /\ y \in Int /\ x <= l /\ h <= y /\ l \in Int /\ h \in Int
    BY <1>1, PricesBetween
  <2>4. low = BINS * l /\ high = BINS * h
    OBVIOUS
  <2> HIDE DEF x, y, l, h, low, high
  <2>5. x * BINS <= l * BINS /\ h * BINS <= y * BINS
    BY <1>1, <2>3, TimesMonotone
  <2>6. /\ x * BINS = BINS * x /\ l * BINS = BINS * l /\ h * BINS = BINS * h /\ y * BINS = BINS * y
        /\ BINS * x \in Int /\ BINS * y \in Int
    BY <1>1, <2>3, TimesMonotone
  <2>7. BINS * x <= low /\ high <= BINS * y
    BY <2>4, <2>5, <2>6
  <2> HIDE DEF cut
  <2> QED
    BY <1>4, <2>1, <2>2, <2>6, <2>7 DEF Clip
<1>10. \A b \in 1..BINS : over[b] \in Nat /\ f[b] \in Nat
  <2>1. \A b \in 1..BINS : over[b] \in Nat
    BY <1>6
  <2> HIDE DEF over, w, f
  <2>2. \A x \in Nat : w * x \in Nat
    BY <1>3
  <2> QED
    BY <1>7, <2>1, <2>2
<1>11. SumFunctionOnSet(f, 1..BINS) = w * (high - low)
  <2>1. IsFiniteSet(1..BINS)
    BY <1>1, FS_Interval
  <2> HIDE DEF over, w, f, low, high, cut
  <2> DEFINE J == 1..BINS
  <2>2. (\A b \in J : over[b] \in Int /\ f[b] = w * over[b]) /\ w \in Int /\ IsFiniteSet(J)
    BY <1>3, <1>7, <1>10, <2>1
  <2> HIDE DEF J
  <2>3. SumFunctionOnSet(f, J) = w * SumFunctionOnSet(over, J)
    BY <2>2, SumScale
  <2> QED
    BY <1>8, <1>9, <2>3 DEF J
<1>12. w * (high - low) = (BINS * SHARES) * k.v
  <2> DEFINE d == k.h - k.l
             v == k.v
  <2>1. d \in Nat /\ v \in Nat /\ q \in Nat /\ q * d = SHARES /\ BINS \in Nat
    BY <1>1, <1>2
  <2>2. w = v * q /\ high - low = BINS * d
    BY <1>4
  <2> HIDE DEF d, v, q, w, high, low
  <2>3. (v * q) * (BINS * d) = (BINS * (q * d)) * v
    BY <2>1
  <2>4. w * (high - low) = (BINS * SHARES) * v
    BY <2>1, <2>2, <2>3
  <2> QED
    BY <2>4 DEF v
<1> QED
  BY <1>10, <1>11, <1>12

\* Every bin counts in whole shares, and all the bins together what was traded.
LEMMA VolumeKept ==
  \A rows : Spread(rows) =>
    /\ Profile(rows) \in [1..BINS -> Nat]
    /\ Whole(Profile(rows)) =
         BINS * SHARES * SumFunctionOnSet([i \in DOMAIN rows |-> rows[i].v], DOMAIN rows)
<1> SUFFICES ASSUME NEW rows, Spread(rows)
             PROVE  /\ Profile(rows) \in [1..BINS -> Nat]
                    /\ Whole(Profile(rows)) = BINS * SHARES
                         * SumFunctionOnSet([i \in DOMAIN rows |-> rows[i].v], DOMAIN rows)
  OBVIOUS
<1> DEFINE D == DOMAIN rows
           J == 1..BINS
           f == [i \in D |-> Shares(rows, i)]
           volumes == [i \in D |-> rows[i].v]
           totals == [i \in D |-> SumFunctionOnSet(f[i], J)]
<1>1. IsFiniteSet(D) /\ IsFiniteSet(J) /\ BINS * SHARES \in Int
  <2>1. rows \in Seq(ProfileCandles) /\ BINS \in Nat /\ SHARES \in Nat
    BY ProfileAssumption DEF Spread
  <2>2. D = 1..Len(rows) /\ Len(rows) \in Nat
    BY <2>1
  <2>3. IsFiniteSet(1..Len(rows)) /\ IsFiniteSet(J) /\ BINS * SHARES \in Int
    BY <2>1, <2>2, FS_Interval
  <2> QED
    BY <2>2, <2>3
<1>2. \A i \in D : /\ \A b \in J : f[i][b] \in Nat
                   /\ totals[i] = (BINS * SHARES) * volumes[i] /\ volumes[i] \in Int
  <2> SUFFICES ASSUME NEW i \in D
               PROVE  /\ \A b \in J : f[i][b] \in Nat
                      /\ totals[i] = (BINS * SHARES) * volumes[i] /\ volumes[i] \in Int
    OBVIOUS
  <2>1. f[i] = Shares(rows, i) /\ totals[i] = SumFunctionOnSet(f[i], J) /\ volumes[i] = rows[i].v
    OBVIOUS
  <2>2. rows[i].v \in Int
    BY PricesBetween, CandlesAre
  <2>3. /\ \A b \in J : Shares(rows, i)[b] \in Nat
        /\ SumFunctionOnSet(Shares(rows, i), J) = (BINS * SHARES) * rows[i].v
    BY PointSpread, RangeSpread
  <2> HIDE DEF f, totals, volumes
  <2> QED
    BY <2>1, <2>2, <2>3
<1>3. \A b \in J : Profile(rows)[b] = Column(f, D, b)
  <2> SUFFICES ASSUME NEW b \in J PROVE Profile(rows)[b] = Column(f, D, b)
    OBVIOUS
  <2>1. [i \in D |-> Part(rows, rows[i], b)] = [i \in D |-> f[i][b]]
    BY DEF Shares
  <2>2. Profile(rows)[b] = SumFunctionOnSet([i \in D |-> Part(rows, rows[i], b)], D)
    BY DEF Profile
  <2> QED
    BY <2>1, <2>2 DEF Column
<1>4. Profile(rows) = [b \in J |-> Column(f, D, b)]
  <2>1. Profile(rows) = [b \in J |-> Profile(rows)[b]]
    BY DEF Profile
  <2> QED
    BY <1>3, <2>1
<1>5. Whole(Profile(rows)) = ByColumn(f, D, J)
  <2>1. DOMAIN Profile(rows) = J
    BY <1>4
  <2> QED
    BY <1>4, <2>1 DEF Whole, ByColumn
<1>6. ByRow(f, D, J) = SumFunctionOnSet(totals, D)
  BY DEF ByRow
<1> HIDE DEF D, J, f, totals, volumes
<1>7. ByColumn(f, D, J) = ByRow(f, D, J)
  BY <1>1, <1>2, SumSwap
<1>8. SumFunctionOnSet(totals, D) = (BINS * SHARES) * SumFunctionOnSet(volumes, D)
  BY <1>1, <1>2, SumScale
<1>9. \A b \in J : Column(f, D, b) \in Nat
  <2> SUFFICES ASSUME NEW b \in J PROVE Column(f, D, b) \in Nat
    OBVIOUS
  <2> DEFINE g == [i \in D |-> f[i][b]]
  <2>1. \A i \in D : g[i] \in Nat
    BY <1>2
  <2>2. Column(f, D, b) = SumFunctionOnSet(g, D)
    BY DEF Column
  <2> HIDE DEF g
  <2>3. /\ SumFunctionOnSet(g, D) \in Int /\ SumFunctionOnSet(g, {}) = 0
        /\ SumFunctionOnSet(g, {}) <= SumFunctionOnSet(g, D)
    BY <1>1, <2>1, SumInt, SumEmpty, SumPart
  <2> QED
    BY <2>2, <2>3
<1>10. Profile(rows) \in [J -> Nat]
  BY <1>4, <1>9
<1> QED
  BY <1>5, <1>6, <1>7, <1>8, <1>10 DEF D, J, volumes


-----------------------------------------------------------------------------
(* The value area.  It is a fold over the turns of the loop. *)

\* One level of the fold, and a table of its results for every subset of D.
Turned(g, bins, s) == IF s = {} THEN AtPoc(bins) ELSE Widened(bins, g[s \ {Max(s)}])
AreasOver(g, bins, D) == g = [s \in SUBSET D |-> Turned(g, bins, s)]

\* g and h are such tables, h of a larger set.
AreasOf(bins, g, h, C, D) ==
  /\ IsFiniteSet(C) /\ C \subseteq D /\ D \subseteq Int
  /\ AreasOver(g, bins, C) /\ AreasOver(h, bins, D)

LEMMA AreasAgree ==
  \A bins, g, h, C, D : AreasOf(bins, g, h, C, D) => \A s \in SUBSET C : g[s] = h[s]
<1> TAKE bins, g, h, C, D
<1> HAVE AreasOf(bins, g, h, C, D)
<1> USE DEF AreasOf
<1> DEFINE P == {s \in SUBSET C : g[s] = h[s]}
<1>1. ASSUME NEW s \in SUBSET C, \A t \in SUBSET s : t # s => t \in P
      PROVE  s \in P
  <2>1. g[s] = Turned(g, bins, s) /\ h[s] = Turned(h, bins, s)
    BY DEF AreasOver
  <2>2. CASE s = {}
    BY <2>1, <2>2 DEF Turned
  <2>3. CASE s # {}
    <3>1. s \ {Max(s)} # s
      BY <2>3, LargestIn, FS_Subset
    <3>2. g[s \ {Max(s)}] = h[s \ {Max(s)}]
      BY <1>1, <3>1
    <3> QED
      BY <2>1, <2>3, <3>2 DEF Turned
  <2> QED
    BY <2>2, <2>3
<1> HIDE DEF P
<1>2. SUBSET C \subseteq P
  BY <1>1, SubsetInduction
<1> QED
  BY <1>2 DEF P

LEMMA AreasExist ==
  \A bins, D : IsFiniteSet(D) /\ D \subseteq Int => \E g : AreasOver(g, bins, D)
<1> SUFFICES ASSUME NEW bins, NEW D, IsFiniteSet(D), D \subseteq Int
             PROVE  \E g : AreasOver(g, bins, D)
  OBVIOUS
<1> DEFINE P == {s \in SUBSET D : \E g : AreasOver(g, bins, s)}
<1>1. ASSUME NEW s \in SUBSET D, \A t \in SUBSET s : t # s => t \in P
      PROVE  s \in P
  <2> DEFINE some(t) == CHOOSE g : AreasOver(g, bins, t)
             before(t) == t \ {Max(t)}
             g == [t \in SUBSET s |-> IF t = {} THEN AtPoc(bins)
                                      ELSE Widened(bins, some(before(t))[before(t)])]
  <2>1. ASSUME NEW t \in SUBSET s, t # s PROVE AreasOver(some(t), bins, t)
    BY <1>1, <2>1
  <2>2. ASSUME NEW t \in SUBSET s, t # {}
        PROVE  before(t) \in SUBSET s /\ before(t) # s /\ IsFiniteSet(before(t)) /\ IsFiniteSet(t)
    <3>1. IsFiniteSet(t) /\ t \subseteq Int
      BY FS_Subset
    <3>2. before(t) # t /\ Max(t) \in t
      BY <2>2, <3>1, LargestIn
    <3> QED
      BY <3>1, <3>2, FS_Subset
  <2> HIDE DEF some
  <2>3. ASSUME NEW t \in SUBSET s, t # s PROVE g[t] = some(t)[t]
    <3>1. some(t)[t] = Turned(some(t), bins, t)
      BY <2>1, <2>3 DEF AreasOver
    <3>2. CASE t = {}
      BY <3>1, <3>2 DEF Turned
    <3>3. CASE t # {}
      <4>1. /\ before(t) \in SUBSET t /\ before(t) \in SUBSET s /\ before(t) # s
            /\ IsFiniteSet(before(t)) /\ t \subseteq Int
        BY <2>2, <3>3
      <4>2. AreasOver(some(t), bins, t) /\ AreasOver(some(before(t)), bins, before(t))
        BY <2>1, <2>3, <4>1
      <4>3. some(t)[before(t)] = some(before(t))[before(t)]
        <5> DEFINE b == before(t)
                   gb == some(b)
                   gt == some(t)
        <5>1. AreasOf(bins, gb, gt, b, t)
          BY <4>1, <4>2 DEF AreasOf
        <5> HIDE DEF b, gb, gt
        <5>2. \A u \in SUBSET b : gb[u] = gt[u]
          BY <5>1, AreasAgree
        <5>3. gb[b] = gt[b]
          BY <5>2
        <5> QED
          BY <5>3 DEF b, gb, gt
      <4> QED
        BY <3>1, <3>3, <4>3 DEF Turned
    <3> QED
      BY <3>2, <3>3
  <2>4. ASSUME NEW t \in SUBSET s PROVE g[t] = Turned(g, bins, t)
    <3>1. CASE t = {}
      BY <3>1 DEF Turned
    <3>2. CASE t # {}
      <4>1. g[before(t)] = some(before(t))[before(t)]
        BY <2>2, <2>3, <3>2
      <4> QED
        BY <3>2, <4>1 DEF Turned
    <3> QED
      BY <3>1, <3>2
  <2>5. AreasOver(g, bins, s)
    <3>1. \A t \in SUBSET s : g[t] = Turned(g, bins, t)
      BY <2>4
    <3>2. DOMAIN g = SUBSET s /\ g = [t \in SUBSET s |-> g[t]]
      OBVIOUS
    <3> HIDE DEF g
    <3> QED
      BY <3>1, <3>2 DEF AreasOver
  <2> QED
    BY <2>5
<1> HIDE DEF P
<1>2. SUBSET D \subseteq P
  BY <1>1, SubsetInduction
<1> QED
  BY <1>2 DEF P

\* The area after the turns of s: around the fullest bin, as tight as its last turn left it, and
\* wide enough or one wider for every turn.
Areas == [lo : Int, hi : Int]
Fits(bins, area, s) ==
  /\ area \in Areas /\ 1 <= area.lo /\ area.hi <= BINS
  /\ area.lo <= PocBin(bins) /\ PocBin(bins) <= area.hi
  /\ area.lo < area.hi => \/ ~Enough(bins, [area EXCEPT !.lo = @ + 1])
                          \/ ~Enough(bins, [area EXCEPT !.hi = @ - 1])
  /\ Enough(bins, area) \/ area.hi - area.lo >= Cardinality(s)

LEMMA PocIn == \A bins \in [1..BINS -> Nat] : PocBin(bins) \in 1..BINS
<1> SUFFICES ASSUME NEW bins \in [1..BINS -> Nat] PROVE PocBin(bins) \in 1..BINS
  OBVIOUS
<1> DEFINE J == 1..BINS
           d == [b \in J |-> 1]
           full == {b \in J : \A o \in J : bins[o] <= bins[b]}
<1>1. IsFiniteSet(J) /\ 1 \in J
  BY ProfileAssumption, FS_Interval
<1>2. \A b \in J : bins[b] \in Int /\ d[b] \in Nat \ {0} /\ d[b] = 1
  OBVIOUS
<1>3. PocBin(bins) = Min(full)
  BY DEF PocBin
<1>4. full \in SUBSET J /\ full \subseteq Int
  OBVIOUS
<1>5. \A b \in J : (\A o \in J : bins[o] <= bins[b]) => b \in full
  OBVIOUS
<1> HIDE DEF J, d, full
<1>6. PICK b \in J : BestOn(J, bins, d, b)
  BY <1>1, <1>2, BestExists
<1>7. b \in full
  <2>1. \A o \in J : bins[o] <= bins[b]
    <3> SUFFICES ASSUME NEW o \in J PROVE bins[o] <= bins[b]
      OBVIOUS
    <3>1. bins[o] * d[b] <= bins[b] * d[o]
      BY <1>6 DEF BestOn
    <3> QED
      BY <1>2, <3>1
  <2> QED
    BY <1>5, <2>1
<1>8. Min(full) \in full
  BY <1>1, <1>4, <1>7, FS_Subset, LeastIn
<1> QED
  BY <1>3, <1>4, <1>8 DEF J

\* All the bins are enough.
LEMMA WholeIsEnough ==
  \A bins \in [1..BINS -> Nat] : \A area \in Areas :
    area.lo = 1 /\ area.hi = BINS => Enough(bins, area)
<1> SUFFICES ASSUME NEW bins \in [1..BINS -> Nat], NEW area \in Areas, area.lo = 1, area.hi = BINS
             PROVE  Enough(bins, area)
  OBVIOUS
<1> DEFINE J == 1..BINS
<1>1. IsFiniteSet(J) /\ DOMAIN bins = J /\ \A b \in J : bins[b] \in Nat
  <2>1. BINS \in Int
    BY ProfileAssumption
  <2>2. IsFiniteSet(J)
    BY <2>1, FS_Interval
  <2>3. DOMAIN bins = J /\ \A b \in J : bins[b] \in Nat
    OBVIOUS
  <2> QED
    BY <2>2, <2>3
<1>2. Held(bins, area) = SumFunctionOnSet(bins, J) /\ Whole(bins) = SumFunctionOnSet(bins, J)
  BY <1>1 DEF Held, Whole
<1> HIDE DEF J
<1>3. /\ SumFunctionOnSet(bins, J) \in Int /\ SumFunctionOnSet(bins, {}) = 0
      /\ SumFunctionOnSet(bins, {}) <= SumFunctionOnSet(bins, J)
  <2>1. (\A b \in J : bins[b] \in Int) /\ {} \subseteq J
    BY <1>1
  <2> QED
    BY <1>1, <2>1, SumInt, SumEmpty, SumPart
<1> QED
  BY <1>2, <1>3 DEF Enough

\* A bound that was moved out and back is where it was.
LEMMA StepsBack ==
  \A lo, hi \in Int :
    /\ [[lo |-> lo, hi |-> hi + 1] EXCEPT !.hi = @ - 1] = [lo |-> lo, hi |-> hi]
    /\ [[lo |-> lo - 1, hi |-> hi] EXCEPT !.lo = @ + 1] = [lo |-> lo, hi |-> hi]
<1> SUFFICES ASSUME NEW lo \in Int, NEW hi \in Int
             PROVE  /\ [[lo |-> lo, hi |-> hi + 1] EXCEPT !.hi = @ - 1] = [lo |-> lo, hi |-> hi]
                    /\ [[lo |-> lo - 1, hi |-> hi] EXCEPT !.lo = @ + 1] = [lo |-> lo, hi |-> hi]
  OBVIOUS
<1>1. hi + 1 - 1 = hi /\ lo - 1 + 1 = lo
  OBVIOUS
<1>2. [[lo |-> lo, hi |-> hi + 1] EXCEPT !.hi = @ - 1] = [lo |-> lo, hi |-> hi + 1 - 1]
  OBVIOUS
<1>3. [[lo |-> lo - 1, hi |-> hi] EXCEPT !.lo = @ + 1] = [lo |-> lo - 1 + 1, hi |-> hi]
  OBVIOUS
<1> QED
  BY <1>1, <1>2, <1>3

\* One turn of the loop, which takes one more item of the steps, keeps the area fitting.
LEMMA AreaWidens ==
  \A bins \in [1..BINS -> Nat] : \A area, s, m :
    IsFiniteSet(s) /\ m \in s /\ Fits(bins, area, s \ {m}) => Fits(bins, Widened(bins, area), s)
<1> SUFFICES ASSUME NEW bins \in [1..BINS -> Nat], NEW area, NEW s, NEW m,
                    IsFiniteSet(s), m \in s, Fits(bins, area, s \ {m})
             PROVE  Fits(bins, Widened(bins, area), s)
  OBVIOUS
<1> DEFINE next == Widened(bins, area)
           poc == PocBin(bins)
<1>1. /\ area \in Areas /\ area.lo \in Int /\ area.hi \in Int /\ 1 <= area.lo /\ area.hi <= BINS
      /\ area.lo <= poc /\ poc <= area.hi /\ poc \in Int /\ BINS \in Nat
  BY PocIn, ProfileAssumption DEF Fits, Areas
<1>2. Cardinality(s) \in Nat /\ Cardinality(s \ {m}) = Cardinality(s) - 1
  BY FS_RemoveElement, FS_CardinalityType
<1>3. Len(bins) = BINS
  BY <1>1
<1>4. CASE Enough(bins, area)
  <2>1. next = area
    BY <1>4 DEF Widened
  <2> QED
    BY <1>4, <2>1 DEF Fits
<1>5. CASE ~Enough(bins, area)
  <2>1. area.lo > 1 \/ area.hi < BINS
    BY <1>1, <1>5, WholeIsEnough
  <2>2. /\ area.lo > 1 => bins[area.lo - 1] \in Nat
        /\ area.hi < BINS => bins[area.hi + 1] \in Nat
    <3>1. area.lo > 1 => area.lo - 1 \in 1..BINS
      BY <1>1
    <3>2. area.hi < BINS => area.hi + 1 \in 1..BINS
      BY <1>1
    <3> QED
      BY <3>1, <3>2
  <2>3. \/ area.hi < BINS /\ next = [area EXCEPT !.hi = @ + 1]
        \/ area.lo > 1 /\ next = [area EXCEPT !.lo = @ - 1]
    <3> DEFINE lower == IF area.lo > 1 THEN bins[area.lo - 1] ELSE -1
               upper == IF area.hi < BINS THEN bins[area.hi + 1] ELSE -1
    <3>1. ~(lower = -1 /\ upper = -1) /\ (upper >= lower => area.hi < BINS)
          /\ (~(upper >= lower) => area.lo > 1)
      BY <2>1, <2>2
    <3>2. next = IF Enough(bins, area) \/ (lower = -1 /\ upper = -1) THEN area
                 ELSE IF upper >= lower THEN [area EXCEPT !.hi = @ + 1]
                 ELSE [area EXCEPT !.lo = @ - 1]
      BY <1>3 DEF Widened
    <3> HIDE DEF lower, upper, next
    <3> QED
      BY <1>5, <3>1, <3>2
  <2>4. area.hi - area.lo >= Cardinality(s) - 1
    BY <1>2, <1>5 DEF Fits
  <2>5. CASE area.hi < BINS /\ next = [area EXCEPT !.hi = @ + 1]
    <3>1. next \in Areas /\ next.lo = area.lo /\ next.hi = area.hi + 1
      BY <1>1, <2>5 DEF Areas
    <3>2. [next EXCEPT !.hi = @ - 1] = area
      <4>1. area = [lo |-> area.lo, hi |-> area.hi]
        BY <1>1 DEF Areas
      <4>2. next = [lo |-> area.lo, hi |-> area.hi + 1]
        BY <2>5, <4>1
      <4> HIDE DEF next
      <4> QED
        BY <1>1, <4>1, <4>2, StepsBack
    <3> HIDE DEF next, poc
    <3>3. next.hi <= BINS /\ next.lo <= poc /\ poc <= next.hi /\ 1 <= next.lo
          /\ next.hi - next.lo >= Cardinality(s)
      BY <1>1, <1>2, <2>4, <2>5, <3>1
    <3> QED
      BY <1>5, <3>1, <3>2, <3>3 DEF Fits, next, poc
  <2>6. CASE area.lo > 1 /\ next = [area EXCEPT !.lo = @ - 1]
    <3>1. next \in Areas /\ next.hi = area.hi /\ next.lo = area.lo - 1
      BY <1>1, <2>6 DEF Areas
    <3>2. [next EXCEPT !.lo = @ + 1] = area
      <4>1. area = [lo |-> area.lo, hi |-> area.hi]
        BY <1>1 DEF Areas
      <4>2. next = [lo |-> area.lo - 1, hi |-> area.hi]
        BY <2>6, <4>1
      <4> HIDE DEF next
      <4> QED
        BY <1>1, <4>1, <4>2, StepsBack
    <3> HIDE DEF next, poc
    <3>3. next.hi <= BINS /\ next.lo <= poc /\ poc <= next.hi /\ 1 <= next.lo
          /\ next.hi - next.lo >= Cardinality(s)
      BY <1>1, <1>2, <2>4, <2>6, <3>1
    <3> QED
      BY <1>5, <3>1, <3>2, <3>3 DEF Fits, next, poc
  <2> QED
    BY <2>3, <2>5, <2>6
<1> QED
  BY <1>4, <1>5

LEMMA AreaFits ==
  \A bins \in [1..BINS -> Nat] : Fits(bins, ValueArea(bins), 1..BINS)
<1> SUFFICES ASSUME NEW bins \in [1..BINS -> Nat] PROVE Fits(bins, ValueArea(bins), 1..BINS)
  OBVIOUS
<1> DEFINE D == DOMAIN bins
           it == CHOOSE h : h = [s \in SUBSET D |-> IF s = {} THEN AtPoc(bins)
                                   ELSE Widened(bins, h[s \ {Max(s)}])]
<1>1. IsFiniteSet(D) /\ D \subseteq Int /\ D = 1..BINS
  BY ProfileAssumption, FS_Interval
<1>2. PICK h : AreasOver(h, bins, D)
  BY <1>1, AreasExist
<1>3. h = [s \in SUBSET D |-> IF s = {} THEN AtPoc(bins) ELSE Widened(bins, h[s \ {Max(s)}])]
  BY <1>2 DEF AreasOver, Turned
<1>4. it = [s \in SUBSET D |-> IF s = {} THEN AtPoc(bins) ELSE Widened(bins, it[s \ {Max(s)}])]
  BY <1>3
<1>5. ValueArea(bins) = it[D]
  BY DEF ValueArea, FoldLeft, MapThenFoldSet
<1> HIDE DEF it
<1>6. \A s \in SUBSET D : it[s] = IF s = {} THEN AtPoc(bins) ELSE Widened(bins, it[s \ {Max(s)}])
  BY <1>4
<1> HIDE DEF D
<1> DEFINE P == {s \in SUBSET D : Fits(bins, it[s], s)}
<1>7. ASSUME NEW s \in SUBSET D, \A u \in SUBSET s : u # s => u \in P
      PROVE  s \in P
  <2>1. CASE s = {}
    <3> DEFINE poc == PocBin(bins)
               area == AtPoc(bins)
    <3>1. area \in Areas /\ area.lo = poc /\ area.hi = poc
      BY PocIn DEF AtPoc, Areas
    <3>2. poc \in 1..BINS /\ Cardinality(s) = 0
      BY <2>1, PocIn, FS_EmptySet
    <3> HIDE DEF poc, area
    <3>3. poc \in Int /\ 1 <= poc /\ poc <= BINS
      BY <3>2, ProfileAssumption
    <3>4. area.hi - area.lo >= Cardinality(s) /\ ~(area.lo < area.hi)
      BY <3>1, <3>2, <3>3
    <3>5. Fits(bins, area, s)
      BY <3>1, <3>3, <3>4 DEF Fits, poc
    <3> QED
      BY <1>6, <2>1, <3>5 DEF area
  <2>2. CASE s # {}
    <3> DEFINE m == Max(s)
               u == s \ {m}
    <3>1. IsFiniteSet(s) /\ s \subseteq Int
      BY <1>1, FS_Subset
    <3>2. m \in s /\ u # s
      BY <2>2, <3>1, LargestIn
    <3>3. Fits(bins, it[u], u)
      BY <1>7, <3>2
    <3>4. it[s] = Widened(bins, it[u])
      BY <1>6, <2>2
    <3> HIDE DEF m
    <3>5. Fits(bins, it[s], s)
      BY <3>1, <3>2, <3>3, <3>4, AreaWidens
    <3> QED
      BY <3>5
  <2> QED
    BY <2>1, <2>2
<1> HIDE DEF P
<1>8. D \in P
  <2>1. IsFiniteSet(D)
    BY <1>1
  <2>2. SUBSET D \subseteq P
    BY <1>7, <2>1, SubsetInduction
  <2> QED
    BY <2>2
<1>9. Fits(bins, it[D], D)
  BY <1>8 DEF P
<1> QED
  BY <1>1, <1>5, <1>9

LEMMA AreaTight == \A bins \in [1..BINS -> Nat] : AreaIsTight(bins)
<1> SUFFICES ASSUME NEW bins \in [1..BINS -> Nat] PROVE AreaIsTight(bins)
  OBVIOUS
<1> DEFINE area == ValueArea(bins)
<1>1. Fits(bins, area, 1..BINS)
  BY AreaFits
<1>2. BINS \in Nat \ {0} /\ Cardinality(1..BINS) = BINS /\ DOMAIN bins = 1..BINS
  BY ProfileAssumption, FS_Interval
<1>3. /\ area.lo \in Int /\ area.hi \in Int /\ 1 <= area.lo /\ area.hi <= BINS
      /\ area.lo <= PocBin(bins) /\ PocBin(bins) <= area.hi /\ PocBin(bins) \in Int
  BY <1>1, PocIn DEF Fits, Areas
<1>4. Enough(bins, area)
  <2>1. ~(area.hi - area.lo >= BINS)
    BY <1>2, <1>3
  <2> QED
    BY <1>1, <1>2, <2>1 DEF Fits
<1>5. area.lo < area.hi => \/ ~Enough(bins, [area EXCEPT !.lo = @ + 1])
                           \/ ~Enough(bins, [area EXCEPT !.hi = @ - 1])
  BY <1>1 DEF Fits
<1>6. PocBin(bins) \in area.lo..area.hi /\ area.lo..area.hi \subseteq DOMAIN bins
  <2> HIDE DEF area
  <2> QED
    BY <1>2, <1>3
<1> QED
  BY <1>4, <1>5, <1>6 DEF AreaIsTight

WindowInv == traded \in Seq(ProfileCandles)

\* For any candles, window and number of bins, the volume profile that compute_volume_profile
\* makes of a window accounts for all that was traded in it, and its value area is the tight one.
THEOREM ProfileIsWhole == ProfileSpec => []ProfileAccounts
<1>1. ProfileInit => WindowInv
  BY DEF ProfileInit, WindowInv
<1>2. WindowInv /\ [NextCandle]_traded => WindowInv'
  <2> SUFFICES ASSUME WindowInv, NEW c \in ProfileCandles,
                      traded' = SubSeq(Append(traded, c), Max({1, Len(traded) + 2 - PROFILE_WINDOW}),
                                       Len(traded) + 1)
               PROVE  traded' \in Seq(ProfileCandles)
    BY DEF NextCandle, WindowInv
  <2> DEFINE longer == Append(traded, c)
             n == Len(traded)
             from == Max({1, n + 2 - PROFILE_WINDOW})
  <2>1. longer \in Seq(ProfileCandles) /\ n \in Nat /\ Len(longer) = n + 1 /\ PROFILE_WINDOW \in Nat \ {0}
    BY ProfileAssumption DEF WindowInv
  <2> HIDE DEF longer, n
  <2>2. from = IF 1 >= n + 2 - PROFILE_WINDOW THEN 1 ELSE n + 2 - PROFILE_WINDOW
    BY <2>1, OfTwo
  <2> HIDE DEF from
  <2>3. from \in 1..(n + 2)
    BY <2>1, <2>2
  <2>4. SubSeq(longer, from, n + 1) \in Seq(ProfileCandles)
    BY <2>1, <2>3, SubSeqProperties
  <2> QED
    BY <2>4 DEF longer, from, n
<1>3. WindowInv => ProfileAccounts
  <2> SUFFICES ASSUME WindowInv, traded # <<>>, Cheapest(traded) < Dearest(traded)
               PROVE  /\ Whole(Profile(traded)) = BINS * SHARES
                           * SumFunctionOnSet([i \in DOMAIN traded |-> traded[i].v], DOMAIN traded)
                      /\ AreaIsTight(Profile(traded))
    BY DEF ProfileAccounts
  <2>1. Spread(traded)
    BY DEF Spread, WindowInv
  <2> QED
    BY <2>1, VolumeKept, AreaTight
<1> QED
  BY <1>1, <1>2, <1>3, PTL DEF ProfileSpec
=============================================================================
