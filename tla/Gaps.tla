--------------------------------- MODULE Gaps ---------------------------------
(***************************************************************************)
(* Missing candles and the straight lines drawn over them                   *)
(* (data/gap_filler.py).  A candle is [at, o, h, l, c, v, made, per]: its   *)
(* prices are in per-ths, and made marks one that was interpolated.         *)
(***************************************************************************)
EXTENDS Integers, Sequences, FiniteSets, SequencesExt, FiniteSetsExt

\* generate_expected_timestamps: every stamp of the grid that starts at the first one.
Expected(start, end, delta) ==
  IF end < start THEN <<>>
  ELSE [i \in 1..((end - start) \div delta + 1) |-> start + (i - 1) * delta]

Stamps(candles) == {candles[i].at : i \in DOMAIN candles}

\* detect_gaps: missing stamps that are neighbours on the grid belong to one gap.
Gaps(expected, received) ==
  LET neighbours(s, t) == \E i \in 2..Len(expected) : expected[i - 1] = s /\ expected[i] = t
      joined(gaps, t) ==
        IF gaps # <<>> /\ neighbours(Last(gaps)[2], t)
        THEN Append(Front(gaps), <<Last(gaps)[1], t>>)
        ELSE Append(gaps, <<t, t>>)
  IN FoldLeft(joined, <<>>, SelectSeq(expected, LAMBDA t : t \notin received))

\* The candle at stamp t on the lines from a to b; nothing was traded in it.
Between(a, b, t) ==
  LET at(x, y) == x * (b.at - t) + y * (t - a.at)
  IN [at |-> t, o |-> at(a.o, b.o), h |-> at(a.h, b.h), l |-> at(a.l, b.l), c |-> at(a.c, b.c),
      v |-> 0, made |-> TRUE, per |-> b.at - a.at]

\* fill_gaps over candles in order: each gap between the candles nearest to it.
Filled(candles, delta) ==
  LET expected == Expected(candles[1].at, Last(candles).at, delta)
      gaps == Gaps(expected, Stamps(candles))
      drawn(gap) ==
        LET a == Last(SelectSeq(candles, LAMBDA k : k.at < gap[1]))
            b == Head(SelectSeq(candles, LAMBDA k : k.at > gap[2]))
        IN {Between(a, b, t) : t \in {e \in Range(expected) : gap[1] <= e /\ e <= gap[2]}}
      rows == Range(candles) \cup UNION {drawn(gaps[i]) : i \in DOMAIN gaps}
  IN IF candles = <<>> THEN <<>> ELSE SetToSortSeq(rows, LAMBDA x, y : x.at < y.at)

-----------------------------------------------------------------------------
(* Properties over bounded inputs *)

\* The gaps reported are the longest runs of missing stamps, each run once.
GapsAreRuns(candles, delta) ==
  LET expected == Expected(candles[1].at, Last(candles).at, delta)
      gaps == Gaps(expected, Stamps(candles))
      absent(i) == i \in DOMAIN expected /\ expected[i] \notin Stamps(candles)
      run(i, j) == /\ i <= j /\ \A k \in i..j : absent(k)
                   /\ ~absent(i - 1) /\ ~absent(j + 1)
      pairs == (DOMAIN expected) \X (DOMAIN expected)
  IN /\ Range(gaps) = {<<expected[p[1]], expected[p[2]]>> : p \in {q \in pairs : run(q[1], q[2])}}
     /\ IsInjective(gaps)

\* Filling invents no trade and no price outside the candles around the gap: every stamp of the
\* grid is there once and in order, what was received is untouched, a drawn candle is a possible
\* one with prices between its neighbours', the volume is what it was, and nothing is left to fill.
FilledHonestly(candles, delta) ==
  LET filled == Filled(candles, delta)
      expected == Expected(candles[1].at, Last(candles).at, delta)
      Volume(s) == FoldSeq(LAMBDA k, sum : sum + k.v, 0, s)
      highest == Max({candles[i].h : i \in DOMAIN candles})
      lowest == Min({candles[i].l : i \in DOMAIN candles})
  IN /\ \A i \in 2..Len(filled) : filled[i - 1].at < filled[i].at
     /\ Stamps(filled) = Stamps(candles) \cup Range(expected)
     /\ SelectSeq(filled, LAMBDA k : ~k.made) = candles
     /\ \A i \in DOMAIN filled : filled[i].made =>
          /\ filled[i].l <= Min({filled[i].o, filled[i].c})
          /\ Max({filled[i].o, filled[i].c}) <= filled[i].h
          /\ filled[i].per * lowest <= filled[i].l /\ filled[i].h <= filled[i].per * highest
     /\ Volume(filled) = Volume(candles)
     /\ Filled(filled, delta) = filled
=============================================================================
