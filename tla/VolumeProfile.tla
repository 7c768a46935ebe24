----------------------------- MODULE VolumeProfile -----------------------------
(***************************************************************************)
(* The volume profile of the last candles (engine/volume_profile.py), which *)
(* a scoring cycle computes from its 96 newest ones.  A candle is           *)
(* [l, h, v]; prices are in bins-ths and volumes in shares, so that what a  *)
(* bin receives of a candle is a whole number.                              *)
(***************************************************************************)
EXTENDS Integers, Sequences, FiniteSets, SequencesExt, FiniteSetsExt, Functions

CONSTANTS
  BINS,             \* price bins of the profile
  SHARES,           \* a common multiple of the candle ranges
  PROFILE_WINDOW,   \* candles of a profile
  ProfileCandles            \* candles that may come

ASSUME ProfileAssumption ==
  /\ {BINS, SHARES, PROFILE_WINDOW} \subseteq Nat \ {0}
  /\ \A c \in ProfileCandles :
       /\ c.l \in Int /\ c.h \in Int /\ c.v \in Nat /\ c.l <= c.h
       /\ c.l < c.h => SHARES % (c.h - c.l) = 0

VARIABLE traded   \* the candles of the window

ProfileInit == traded = <<>>

\* A candle closes; the oldest leaves the window.
NextCandle ==
  \E c \in ProfileCandles :
    traded' = SubSeq(Append(traded, c), Max({1, Len(traded) + 2 - PROFILE_WINDOW}), Len(traded) + 1)

ProfileSpec == ProfileInit /\ [][NextCandle]_traded

-----------------------------------------------------------------------------
(* The bins *)

Cheapest(candles) == Min({candles[i].l : i \in DOMAIN candles})
Dearest(candles) == Max({candles[i].h : i \in DOMAIN candles})
Edge(candles, b) == BINS * Cheapest(candles) + (b - 1) * (Dearest(candles) - Cheapest(candles))

\* Mutant: a candle at the highest price falls out of the last bin.
PointBin_Unclamped(candles, price) ==
  Max({b \in 1..(BINS + 1) : Edge(candles, b) <= BINS * price})
\* The bin of a candle without a range.
PointBin(candles, price) ==
  Min({BINS, Max({b \in 1..(BINS + 1) : Edge(candles, b) <= BINS * price})})

\* What bin b receives of a candle.
Part(candles, c, b) ==
  IF c.h = c.l \/ c.v = 0 THEN IF b = PointBin(candles, c.l) THEN BINS * SHARES * c.v ELSE 0
  ELSE LET low == Max({BINS * c.l, Edge(candles, b)})
           high == Min({BINS * c.h, Edge(candles, b + 1)})
       IN IF high > low THEN c.v * (SHARES \div (c.h - c.l)) * (high - low) ELSE 0

Profile(candles) ==
  [b \in 1..BINS |->
     SumFunctionOnSet([i \in DOMAIN candles |-> Part(candles, candles[i], b)], DOMAIN candles)]

-----------------------------------------------------------------------------
(* The value area *)

\* The first of the fullest bins.
PocBin(bins) == Min({b \in DOMAIN bins : \A o \in DOMAIN bins : bins[o] <= bins[b]})

Held(bins, area) == SumFunctionOnSet(bins, area.lo..area.hi)
Whole(bins) == SumFunctionOnSet(bins, DOMAIN bins)
Enough(bins, area) == 10 * Held(bins, area) >= 7 * Whole(bins)

\* One turn of the loop: the side with more volume, above when they are equal.
Widened(bins, area) ==
  LET lower == IF area.lo > 1 THEN bins[area.lo - 1] ELSE -1
      upper == IF area.hi < Len(bins) THEN bins[area.hi + 1] ELSE -1
  IN IF Enough(bins, area) \/ (lower = -1 /\ upper = -1) THEN area
     ELSE IF upper >= lower THEN [area EXCEPT !.hi = @ + 1]
     ELSE [area EXCEPT !.lo = @ - 1]

\* As many turns as there are bins are all that it can take.
AtPoc(bins) == [lo |-> PocBin(bins), hi |-> PocBin(bins)]
ValueArea(bins) == FoldLeft(LAMBDA area, b : Widened(bins, area), AtPoc(bins), bins)

-----------------------------------------------------------------------------
(* Properties *)

\* The value area holds seven tenths of the volume around the fullest bin, ends at bins that
\* there are, and is not wider than its last step made it.
AreaIsTight(bins) ==
  LET area == ValueArea(bins)
  IN /\ PocBin(bins) \in area.lo..area.hi /\ area.lo..area.hi \subseteq DOMAIN bins
     /\ Enough(bins, area)
     /\ area.lo < area.hi => \/ ~Enough(bins, [area EXCEPT !.lo = @ + 1])
                             \/ ~Enough(bins, [area EXCEPT !.hi = @ - 1])

\* Whatever candles come, all volume that was traded in the window is in its profile, the
\* candles at the lowest and at the highest price included, and the value area is made of it.
ProfileAccounts ==
  traded # <<>> /\ Cheapest(traded) < Dearest(traded) =>
    /\ Whole(Profile(traded)) =
         BINS * SHARES * SumFunctionOnSet([i \in DOMAIN traded |-> traded[i].v], DOMAIN traded)
    /\ AreaIsTight(Profile(traded))
=============================================================================
