------------------------------ MODULE PriceAction ------------------------------
(***************************************************************************)
(* What the engine reads from a chart: engine/smc.py, engine/confluence.py, *)
(* engine/regime_detector.py, indicators/atr.py, indicators/adx.py and      *)
(* indicators/candle.py.  A chart is a sequence of candles [o, h, l, c]     *)
(* with integer prices, the newest last; a fraction is a pair               *)
(* <<numerator, denominator>>, and comparisons are cleared of both.         *)
(***************************************************************************)
EXTENDS Integers, Sequences, FiniteSets, SequencesExt, FiniteSetsExt, Functions

CONSTANTS
  ATR_PERIOD,     \* periods of the average true range
  SWING_LOOKBACK, \* candles in which swings are looked for
  FIB_LOOKBACK,   \* candles in which a Fibonacci swing is looked for
  OB_LOOKBACK,    \* candles in which order blocks are looked for
  MAX_OBS,        \* order blocks returned at most
  ATR_WINDOW,     \* ranges the current one is compared with
  FIRST,          \* the first candle
  Shapes,         \* candles that may follow, by what they add to the close before
  MaxSeen      \* bound: candles

\* Its low is the lowest price of a candle and its high the highest.
Within(k) == k.l <= k.o /\ k.l <= k.c /\ k.o <= k.h /\ k.c <= k.h
Bars == {k \in [o : Nat, h : Nat, l : Nat, c : Nat, v : Nat] : Within(k) /\ 0 < k.l}

\* Prices are positive.
ASSUME ChartAssumption ==
  /\ FIRST \in Bars
  /\ Shapes \subseteq {s \in [o : Int, h : Int, l : Int, c : Int, v : Nat] : Within(s)}
  /\ {ATR_PERIOD, OB_LOOKBACK, MAX_OBS} \subseteq Nat

VARIABLE seen     \* the candles so far, the newest last

\* A candle of a shape after the close before it.
Drawn(close, s) ==
  [o |-> close + s.o, h |-> close + s.h, l |-> close + s.l, c |-> close + s.c, v |-> s.v]

ChartInit == seen = <<FIRST>>
ChartNext ==
  /\ Len(seen) < MaxSeen
  /\ \E s \in Shapes :
       LET k == Drawn(Last(seen).c, s)
       IN k.l > 0 /\ seen' = Append(seen, k)

ChartSpec == ChartInit /\ [][ChartNext]_seen

-----------------------------------------------------------------------------
(* Candles *)

Sides == {"bullish", "bearish"}
Last_(chart) == chart[Len(chart)]
Newest(chart, n) == SubSeq(chart, Max({1, Len(chart) - n + 1}), Len(chart))
Tops(chart) == [i \in DOMAIN chart |-> chart[i].h]
Bottoms(chart) == [i \in DOMAIN chart |-> chart[i].l]
Highest(chart) == Max(Range(Tops(chart)))
Lowest(chart) == Min(Range(Bottoms(chart)))
Gap(a, b) == IF a > b THEN a - b ELSE b - a

Body(k) == Gap(k.o, k.c)
UpperWick(k) == k.h - Max({k.o, k.c})
LowerWick(k) == Min({k.o, k.c}) - k.l
Span(k) == k.h - k.l
Leaning(k) == IF k.c > k.o THEN "bullish" ELSE IF k.c < k.o THEN "bearish" ELSE "doji"

-----------------------------------------------------------------------------
(* Average true range *)

TrueRange(chart, i) ==
  IF i = 1 THEN Span(chart[1])
  ELSE Max({Span(chart[i]), Gap(chart[i].h, chart[i - 1].c), Gap(chart[i].l, chart[i - 1].c)})

TrueRanges(chart) == [i \in DOMAIN chart |-> TrueRange(chart, i)]

\* Wilder's average: the mean of the first ranges, then one period's weight for each new range.
Averaged(ranges) ==
  LET p == ATR_PERIOD
      seed == FoldSet(LAMBDA i, s : s + ranges[i], 0, 1..p)
  IN FoldLeft(LAMBDA a, i : <<a[1] * (p - 1) + ranges[i] * a[2], a[2] * p>>,
              <<seed, p>>, [i \in 1..(Len(ranges) - p) |-> i + p])
Atr(chart) == Averaged(TrueRanges(chart))

-----------------------------------------------------------------------------
(* Average directional index and regime *)

ADX_TRENDING == 25
ADX_CHOPPY == 20

gcd[a \in Nat, b \in Nat] == IF b = 0 THEN a ELSE gcd[b, a % b]
Ratio(n, d) == <<n \div gcd[n, d], d \div gcd[n, d]>>
Plus(a, b) == Ratio(a[1] * b[2] + b[1] * a[2], a[2] * b[2])

\* The larger of the moves up and down, if it is one.
MoveUp(chart, i) ==
  LET up == chart[i].h - chart[i - 1].h
  IN IF up > chart[i - 1].l - chart[i].l /\ up > 0 THEN up ELSE 0
MoveDown(chart, i) ==
  LET down == chart[i - 1].l - chart[i].l
  IN IF down > chart[i].h - chart[i - 1].h /\ down > 0 THEN down ELSE 0

Ups(chart) == [i \in 2..Len(chart) |-> MoveUp(chart, i)]
Downs(chart) == [i \in 2..Len(chart) |-> MoveDown(chart, i)]
Ranges(chart) == [i \in 2..Len(chart) |-> TrueRange(chart, i)]

\* Wilder's sum at candle i, times ATR_PERIOD to the number of candles after the seed.
Smoothed(moves, i) ==
  LET p == ATR_PERIOD
  IN FoldLeft(LAMBDA s, j : s * (p - 1) + moves[j] * p ^ (j - p - 1),
              FoldSet(LAMBDA j, s : s + moves[j], 0, 2..(p + 1)),
              [m \in 1..(i - p - 1) |-> m + p + 1])

\* The share of one direction that the other does not take back.
Dx(chart, i) ==
  LET up == Smoothed(Ups(chart), i)
      down == Smoothed(Downs(chart), i)
  IN IF up + down = 0 THEN <<0, 1>> ELSE Ratio(Gap(up, down), up + down)

\* Over the candles that moved at all, from the (2 * ATR_PERIOD)th on; no value before it, and
\* none ever when they did not.
Adx(chart) ==
  LET p == ATR_PERIOD
      seeds == {i \in (p + 1)..(2 * p) : Smoothed(Ranges(chart), i) # 0}
      seed == FoldSet(LAMBDA i, s : Plus(Dx(chart, i), s), <<0, 1>>, seeds)
  IN IF Len(chart) < 2 * p \/ seeds = {} THEN {}
     ELSE {FoldLeft(LAMBDA a, i : Plus(Ratio(a[1] * (p - 1), a[2] * p),
                                       Ratio(Dx(chart, i)[1], Dx(chart, i)[2] * p)),
                    Ratio(seed[1], seed[2] * Cardinality(seeds)),
                    [m \in 1..(Len(chart) - 2 * p) |-> m + 2 * p])}

\* The current range is a multiple (in tenths) of the mean of the newest ones, its own included.
OutOfProportion(ranges, multiplier) ==
  LET n == Len(ranges)
      current == Averaged(ranges)
      total == FoldSet(LAMBDA i, s : LET a == Averaged(SubSeq(ranges, 1, i))
                                     IN s + a[1] * (current[2] \div a[2]),
                       0, (n - ATR_WINDOW + 1)..n)
  IN /\ n >= ATR_PERIOD + ATR_WINDOW
     /\ total # 0
     /\ 10 * ATR_WINDOW * current[1] > multiplier * total
Parabolic(chart, multiplier) == OutOfProportion(TrueRanges(chart), multiplier)

\* A range out of proportion comes before any trend; without an index the market ranges.
RegimeOf(hourly, quarter, multiplier) ==
  IF Parabolic(quarter, multiplier) THEN "PARABOLIC"
  ELSE IF \E a \in Adx(hourly) : 100 * a[1] > ADX_TRENDING * a[2] THEN "TRENDING"
  ELSE IF \E a \in Adx(hourly) : 100 * a[1] < ADX_CHOPPY * a[2] THEN "CHOPPY"
  ELSE "RANGING"

-----------------------------------------------------------------------------
(* Swings and Fibonacci levels *)

\* Two candles on each side are lower (higher).
PivotHighs(chart) ==
  SelectSeq([i \in 1..Max({0, Len(chart) - 4}) |-> i + 2],
    LAMBDA i : \A k \in {-2, -1, 1, 2} : chart[i].h > chart[i + k].h)
PivotLows(chart) ==
  SelectSeq([i \in 1..Max({0, Len(chart) - 4}) |-> i + 2],
    LAMBDA i : \A k \in {-2, -1, 1, 2} : chart[i].l < chart[i + k].l)

\* The swing the priorities of the order blocks are measured on, and the one of the bonus.
WholeSwing(chart) ==
  [top |-> Highest(Newest(chart, FIB_LOOKBACK)), bottom |-> Lowest(Newest(chart, FIB_LOOKBACK))]
SwingBetween(tops, bottoms, whole) ==
  IF tops # {} /\ bottoms # {} THEN [top |-> Max(tops), bottom |-> Min(bottoms)] ELSE whole
PivotSwing(chart) ==
  LET s == Newest(chart, FIB_LOOKBACK)
  IN SwingBetween({s[i].h : i \in Range(PivotHighs(s))}, {s[i].l : i \in Range(PivotLows(s))},
                  WholeSwing(chart))

\* A retracement of k thousandths, measured from the top whichever way the swing went, in thousandths.
Level(swing, k) == 1000 * swing.top - k * (swing.top - swing.bottom)

\* Within half a percent of the middle of a zone.
NearMiddle(zone, level) ==
  2 * Gap(500 * (zone.top + zone.bot), level) <= 5 * (zone.top + zone.bot)

FibScore(zone, swing) ==
  IF swing.top = swing.bottom THEN 0
  ELSE IF NearMiddle(zone, Level(swing, 618)) THEN 3
  ELSE IF NearMiddle(zone, Level(swing, 500)) THEN 2
  ELSE IF NearMiddle(zone, Level(swing, 382)) THEN 1
  ELSE 0

-----------------------------------------------------------------------------
(* Order blocks *)

\* Mutant: the closes after the impulse are not looked at.
IsOrderBlock_Broken(chart, i, atr, multiplier) ==
  /\ Body(chart[i + 1]) * 10 * atr[2] >= multiplier * atr[1]
  /\ {Leaning(chart[i]), Leaning(chart[i + 1])} = Sides
\* A candle before an impulse the other way, not closed beyond since.
IsOrderBlock(chart, i, atr, multiplier) ==
  LET k == chart[i]
      impulse == chart[i + 1]
  IN /\ Body(impulse) * 10 * atr[2] >= multiplier * atr[1]
     /\ {Leaning(k), Leaning(impulse)} = Sides
     /\ \A j \in (i + 1)..Len(chart) :
          IF Leaning(impulse) = "bullish" THEN chart[j].c >= k.l ELSE chart[j].c <= k.h

Zone(chart, i) == [side |-> Leaning(chart[i + 1]), top |-> chart[i].h, bot |-> chart[i].l, at |-> i]

\* Better placed on the Fibonacci levels, or as well and nearer to the price, or the newer one.
Off(zone, price) == Gap(zone.top + zone.bot, 2 * price)
Before(price, swing, a, b) ==
  \/ FibScore(a, swing) > FibScore(b, swing)
  \/ FibScore(a, swing) = FibScore(b, swing) /\ \/ Off(a, price) < Off(b, price)
                                                \/ Off(a, price) = Off(b, price) /\ a.at > b.at

\* find_order_block: the newest ones, the best first; the multiplier in tenths.  The scan stops
\* before the first candle of the chart.
Found(chart, atr, multiplier) ==
  {i \in Max({2, Len(chart) - OB_LOOKBACK})..(Len(chart) - 1) :
     atr[1] # 0 /\ IsOrderBlock(chart, i, atr, multiplier)}
Latest(found) == {i \in found : Cardinality({j \in found : j > i}) < MAX_OBS}
Ordered(zones, price, swing) ==
  LET better(z) == {y \in zones : Before(price, swing, y, z)}
  IN [n \in 1..Cardinality(zones) |-> CHOOSE z \in zones : Cardinality(better(z)) = n - 1]
OrderBlocks(chart, multiplier) ==
  IF Len(chart) < ATR_PERIOD + 2 THEN <<>>
  ELSE Ordered({Zone(chart, i) : i \in Latest(Found(chart, Atr(chart), multiplier))},
               Last_(chart).c, PivotSwing(chart))

\* Within two thousandths of the middle beyond the block.
Retests(zone, price) ==
  /\ 1000 * (zone.bot - price) <= zone.top + zone.bot
  /\ 1000 * (price - zone.top) <= zone.top + zone.bot

-----------------------------------------------------------------------------
(* Fair value gaps *)

GapAt(chart, i) ==
  CASE chart[i - 2].h < chart[i].l ->
         {[side |-> "bullish", top |-> chart[i].l, bot |-> chart[i - 2].h, at |-> i]}
    [] chart[i - 2].l > chart[i].h ->
         {[side |-> "bearish", top |-> chart[i - 2].l, bot |-> chart[i].h, at |-> i]}
    [] OTHER -> {}

\* Mutant: a gap is filled at its middle.
FilledBy_Halfway(zone, k) ==
  IF zone.side = "bullish" THEN 2 * k.l <= zone.top + zone.bot ELSE k.h >= zone.top
FilledBy(zone, k) == IF zone.side = "bullish" THEN k.l <= zone.bot ELSE k.h >= zone.top

\* find_fvg: the newest gap that no later candle has filled.
OpenGap(chart) ==
  LET open == {z \in UNION {GapAt(chart, i) : i \in 3..Len(chart)} :
                 \A j \in (z.at + 1)..Len(chart) : ~FilledBy(z, chart[j])}
  IN {z \in open : \A y \in open : y.at <= z.at}

\* Tolerance in thousandths of the middle.
AtMiddle(zone, price, tolerance) ==
  1000 * Gap(2 * price, zone.top + zone.bot) <= tolerance * (zone.top + zone.bot)

-----------------------------------------------------------------------------
(* Trend and change of character *)

Mean(s) == <<FoldSeq(LAMBDA k, t : k.c + t, 0, s), Len(s)>>

\* The halves' closes when there are too few swings: more than two thousandths apart.
HalvesBias(s) ==
  LET half == Len(s) \div 2
      first == Mean(SubSeq(s, 1, half))
      second == Mean(SubSeq(s, half + 1, Len(s)))
      ratio(k) == 1000 * second[1] * first[2] - k * first[1] * second[2]
  IN IF ratio(1002) > 0 THEN "bullish" ELSE IF ratio(998) < 0 THEN "bearish" ELSE "neutral"

\* detect_htf_bias: higher highs and higher lows, or lower ones.
HtfBias(chart) ==
  LET s == Newest(chart, SWING_LOOKBACK)
      tops == PivotHighs(s)
      bottoms == PivotLows(s)
      dTop == s[tops[Len(tops)]].h - s[tops[Len(tops) - 1]].h
      dBottom == s[bottoms[Len(bottoms)]].l - s[bottoms[Len(bottoms) - 1]].l
  IN IF Len(chart) < 4 THEN "neutral"
     ELSE IF Len(tops) < 2 \/ Len(bottoms) < 2 THEN HalvesBias(s)
     ELSE CASE dTop > 0 /\ dBottom > 0 -> "bullish"
            [] dTop < 0 /\ dBottom < 0 -> "bearish"
            [] OTHER -> "neutral"

\* Mutant: the low is broken before the close is below it.
Choch_OneSided(chart) ==
  LET earlier == Front(Newest(chart, SWING_LOOKBACK))
      close == 10000 * Last_(chart).c
  IN IF Len(chart) < 5 \/ Len(earlier) < 2 THEN "none"
     ELSE IF close > 10005 * Highest(earlier) THEN "bullish"
     ELSE IF close < 10005 * Lowest(earlier) THEN "bearish"
     ELSE "none"
\* detect_choch: the last close is half a thousandth beyond every candle before it.
Choch(chart) ==
  LET s == Newest(chart, SWING_LOOKBACK)
      earlier == Front(s)
      close == 10000 * Last_(chart).c
  IN IF Len(chart) < 5 \/ Len(earlier) < 2 THEN "none"
     ELSE IF close > 10005 * Highest(earlier) THEN "bullish"
     ELSE IF close < 9995 * Lowest(earlier) THEN "bearish"
     ELSE "none"

-----------------------------------------------------------------------------
(* Scores *)

\* compute_smc_score: ten points each for the change of character, a retest and the gap.
SmcScore(chart, bias, direction, multiplier, tolerance) ==
  LET price == Last_(chart).c
      side == IF direction = "long" THEN "bullish" ELSE "bearish"
      retested == \E z \in Range(OrderBlocks(chart, multiplier)) :
                    Retests(z, price) /\ z.side = side
      touched == \E z \in OpenGap(chart) : AtMiddle(z, price, tolerance)
  IN IF Len(chart) < 5 THEN 0
     ELSE (IF Choch(chart) = bias THEN 10 ELSE 0) + (IF retested THEN 10 ELSE 0)
          + (IF touched THEN 10 ELSE 0)

FIB_BONUS == <<<<618, 35>>, <<500, 25>>, <<382, 15>>, <<786, 10>>>>

\* The first level of the table in or near a block.
FibBonus(zone, swing) ==
  LET hit(level) == level > 0 /\ \/ 1000 * zone.bot <= level /\ level <= 1000 * zone.top
                                 \/ NearMiddle(zone, level)
      hits == {n \in DOMAIN FIB_BONUS : hit(Level(swing, FIB_BONUS[n][1]))}
  IN IF hits = {} THEN 0 ELSE FIB_BONUS[Min(hits)][2]

\* compute_confluence_bonus, in thirds of a point: a third of the raw bonus, at most 15.
ConfluenceBonus(chart, blocks) ==
  LET swing == WholeSwing(chart)
      near(zone) == \E z \in OpenGap(chart) : NearMiddle(zone, 500 * (z.top + z.bot))
      raw(zone) == FibBonus(zone, swing) + (IF near(zone) THEN 10 ELSE 0)
  IN IF blocks = <<>> \/ Len(chart) < 4 \/ swing.top = swing.bottom THEN 0
     ELSE Min({45, Max({raw(z) : z \in Range(blocks)})})

-----------------------------------------------------------------------------
(* Properties *)

Other(side) == CASE side = "bullish" -> "bearish" [] side = "bearish" -> "bullish" [] OTHER -> side

\* The chart turned upside down around a price.
Mirrored(chart, around) ==
  [i \in DOMAIN chart |-> [o |-> around - chart[i].o, h |-> around - chart[i].l,
                           l |-> around - chart[i].h, c |-> around - chart[i].c]]
Turned(zones, around) ==
  {[side |-> Other(z.side), top |-> around - z.bot, bot |-> around - z.top, at |-> z.at] : z \in zones}

Scaled(chart, k) ==
  [i \in DOMAIN chart |-> [o |-> k * chart[i].o, h |-> k * chart[i].h,
                          l |-> k * chart[i].l, c |-> k * chart[i].c]]
Places(chart) == [n \in DOMAIN OrderBlocks(chart, 10) |-> OrderBlocks(chart, 10)[n].at]

\* Long and short are read alike: on a chart turned upside down (here around its last close) the
\* same blocks and gaps are found with their sides exchanged, and a spike is one all the same.
\* Only the order of the blocks may differ, since the Fibonacci levels are measured from the top.
MirroredAlike ==
  \A around \in {2 * Last_(seen).c} : \A mirror \in {Mirrored(seen, around)} :
     /\ Range(OrderBlocks(mirror, 10)) = Turned(Range(OrderBlocks(seen, 10)), around)
     /\ OpenGap(mirror) = Turned(OpenGap(seen), around)
     /\ Parabolic(mirror, 12) = Parabolic(seen, 12)

\* The trend and the change of character are opposite then.
MirrorSymmetric(chart, around) ==
  \A mirror \in {Mirrored(chart, around)} :
     /\ HtfBias(mirror) = Other(HtfBias(chart))
     /\ Choch(mirror) = Other(Choch(chart))

\* The regime is too: a fall is as much a trend, or a spike, as the rally it mirrors.
RegimeAlike(chart, around) ==
  RegimeOf(Mirrored(chart, around), Mirrored(chart, around), 12) = RegimeOf(chart, chart, 12)

\* The points are alike too, for a long and a short and for prices in another unit: no tolerance
\* is absolute, and an asset of a hundredth of the price of another gets the same points and the
\* same bonus for the same chart.
ScoredAlike(chart, around, k) ==
  \A scaled \in {Scaled(chart, k)} :
     /\ Places(scaled) = Places(chart)
     /\ HtfBias(scaled) = HtfBias(chart)
     /\ RegimeOf(scaled, scaled, 12) = RegimeOf(chart, chart, 12)
     /\ SmcScore(scaled, "bullish", "long", 10, 3) = SmcScore(chart, "bullish", "long", 10, 3)
     /\ SmcScore(Mirrored(chart, around), "bearish", "short", 10, 3)
          = SmcScore(chart, "bullish", "long", 10, 3)
     /\ ConfluenceBonus(scaled, OrderBlocks(scaled, 10))
          = ConfluenceBonus(chart, OrderBlocks(chart, 10))

\* What a new candle may do to what was read before it: the gap reported stays, unless it is
\* filled or a newer one has formed; and a block it closes beyond is never reported again.
ReadingsPersist ==
  LET new == Last_(seen)
      gaps == OpenGap(seen)
      gone == OpenGap(Front(seen)) \ gaps
  IN /\ \A z \in gone : FilledBy(z, new) \/ \E y \in gaps : y.at = Len(seen)
     /\ \A z \in gaps \ OpenGap(Front(seen)) : z.at = Len(seen) \/ gone # {}
     /\ \A z \in Range(OrderBlocks(seen, 10)) :
          IF z.side = "bullish" THEN new.c >= z.bot ELSE new.c <= z.top

\* What is read of a chart neither forgets nor takes sides: the readings persist from candle to
\* candle, and long and short are read alike.
ReadingsHold == ReadingsPersist /\ MirroredAlike
=============================================================================
