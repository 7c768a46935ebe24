------------------------------- MODULE Strategies -------------------------------
(***************************************************************************)
(* The strategies of strategies/*.py: what each one sees in a chart, and    *)
(* the entry, stop and targets of the signal it then gives.  Prices of a    *)
(* signal are in four-thousandths, so that every factor of the code is an   *)
(* integer.  The score of a signal decides nothing here but its class       *)
(* (module Backtest); the ADX of ema_cross is an input, strong or not.      *)
(***************************************************************************)
EXTENDS PriceAction

CONSTANTS
  WARMUP,            \* candles each strategy waits for
  FAST, SLOW, TREND, \* periods of the averages of ema_cross and rsi_momentum
  RSI_PERIOD,        \* periods of the relative strength
  RECENT,            \* candles in which quasimodo looks for its stop
  FLAG_MAX           \* FLAG_MAX_CANDLES

Strategies == {"pinbar", "engulfing", "inside_bar", "quasimodo", "flag",
               "ema_cross", "rsi_momentum", "smc_ob_fvg"}

\* Strategies that look at candles before the last wait for them.
ASSUME StrategiesAssumption ==
  /\ WARMUP \in [Strategies -> Nat \ {0}] /\ {RECENT, FLAG_MAX} \subseteq Nat \ {0}
  /\ WARMUP["engulfing"] > 1 /\ WARMUP["inside_bar"] > 1 /\ WARMUP["quasimodo"] > 5

-----------------------------------------------------------------------------
(* Indicators *)

\* EMA: seeded with the mean of the first closes.
Ema(chart, p) ==
  FoldLeft(LAMBDA e, k : <<e[1] * (p - 1) + 2 * k.c * e[2], e[2] * (p + 1)>>,
           Mean(SubSeq(chart, 1, p)), SubSeq(chart, p + 1, Len(chart)))

AboveOf(a, b) == a[1] * b[2] > b[1] * a[2]

Rise(chart, i, sign) == Max({0, sign * (chart[i].c - chart[i - 1].c)})

\* Wilder's averages of the gains or of the losses, all over RSI_PERIOD to the power Len(chart).
Strength(chart, sign) ==
  LET p == RSI_PERIOD
      seed == FoldSet(LAMBDA i, s : s + Rise(chart, i, sign), 0, 2..(p + 1))
  IN FoldLeft(LAMBDA a, i : <<a[1] * (p - 1) + Rise(chart, i, sign) * a[2], a[2] * p>>,
              <<seed, 1>>, [i \in 1..(Len(chart) - p - 1) |-> i + p + 1])[1]

\* RSI against 50: above (1), equal (0) or below (-1); 100 when there is no loss.
SideOf(gains, losses) ==
  IF losses = 0 \/ gains > losses THEN 1 ELSE IF gains = losses THEN 0 ELSE -1
RsiSide(chart) == SideOf(Strength(chart, 1), Strength(chart, -1))

-----------------------------------------------------------------------------
(* Patterns: the direction a strategy sees, or none *)

Which(long, short) == IF long THEN "long" ELSE IF short THEN "short" ELSE "none"

\* The tail is twice the body, and the bottom of the body is in the upper or the lower 30%.
Pinbar(k) ==
  LET low == Min({k.o, k.c}) - k.l
      tail(w) == IF Body(k) = 0 THEN 100 * w >= 2 * Span(k) ELSE w >= 2 * Body(k)
  IN IF Span(k) = 0 THEN "none"
     ELSE Which(tail(LowerWick(k)) /\ 10 * low >= 7 * Span(k),
               tail(UpperWick(k)) /\ 10 * low <= 3 * Span(k))

Engulfing(k, prior) ==
  Which(Leaning(k) = "bullish" /\ Leaning(prior) = "bearish" /\ k.o <= prior.c /\ k.c >= prior.o,
       Leaning(k) = "bearish" /\ Leaning(prior) = "bullish" /\ k.o >= prior.c /\ k.c <= prior.o)

InsideBar(k, mother, bias) ==
  IF k.h < mother.h /\ k.l > mother.l THEN Which(bias = "bullish", bias = "bearish") ELSE "none"

\* Swings two candles apart; a chart that shows both is short.
Quasimodo(chart) ==
  LET at(back) == chart[Len(chart) + 1 - back]
      short == at(4).h > at(6).h /\ at(2).h < at(4).h /\ at(1).l < at(3).l
  IN Which(~short /\ at(4).l < at(6).l /\ at(2).l > at(4).l /\ at(1).h > at(3).h, short)

\* Impulses FLAG_MAX to FLAG_MAX + 4 candles back, after which volume fell.
ImpulsesOver(chart, atr) ==
  {i \in Max({1, Len(chart) - FLAG_MAX - 4})..(Len(chart) - FLAG_MAX) :
     /\ atr[1] > 0 /\ 2 * Body(chart[i]) * atr[2] >= 3 * atr[1]
     /\ Last_(chart).v < chart[i + 1].v}
Impulses(chart) == ImpulsesOver(chart, Atr(chart))
Flag(chart) ==
  IF Impulses(chart) = {} THEN "none"
  ELSE Which(Leaning(chart[Max(Impulses(chart))]) = "bullish", TRUE)

EmaCross(chart, strong) ==
  LET crossed(a, b) == /\ ~AboveOf(Ema(Front(chart), a), Ema(Front(chart), b))
                       /\ AboveOf(Ema(chart, a), Ema(chart, b))
  IN Which(strong /\ crossed(FAST, SLOW), strong /\ crossed(SLOW, FAST))

Turn(before, now, price, trend) ==
  Which(before < 0 /\ now >= 0 /\ AboveOf(price, trend),
       before > 0 /\ now <= 0 /\ AboveOf(trend, price))
RsiMomentum(chart) ==
  Turn(RsiSide(Front(chart)), RsiSide(chart), <<Last_(chart).c, 1>>, Ema(chart, TREND))

\* The best block is retested.
RetestOf(blocks, price) ==
  IF blocks = <<>> \/ ~Retests(blocks[1], price) THEN "none"
  ELSE Which(blocks[1].side = "bullish", TRUE)
BlockRetest(chart) == RetestOf(OrderBlocks(chart, 10), Last_(chart).c)

Pattern(strategy, chart, bias, strong) ==
  IF Len(chart) < WARMUP[strategy] THEN "none"
  ELSE CASE strategy = "pinbar" -> Pinbar(Last_(chart))
         [] strategy = "engulfing" -> Engulfing(Last_(chart), chart[Len(chart) - 1])
         [] strategy = "inside_bar" -> InsideBar(Last_(chart), chart[Len(chart) - 1], bias)
         [] strategy = "quasimodo" -> Quasimodo(chart)
         [] strategy = "flag" -> Flag(chart)
         [] strategy = "ema_cross" -> EmaCross(chart, strong)
         [] strategy = "rsi_momentum" -> RsiMomentum(chart)
         [] strategy = "smc_ob_fvg" -> BlockRetest(chart)

-----------------------------------------------------------------------------
(* Signals *)

\* The candles whose extreme the stop is set beyond.
Behind(strategy, chart) ==
  LET n == Len(chart)
  IN CASE strategy = "pinbar" -> {chart[n]}
       [] strategy \in {"engulfing", "inside_bar"} -> {chart[n - 1]}
       [] strategy = "quasimodo" -> Range(Newest(chart, RECENT))
       [] strategy = "flag" -> Range(SubSeq(chart, Max(Impulses(chart)) + 1, n))
       [] strategy = "smc_ob_fvg" -> {chart[OrderBlocks(chart, 10)[1].at]}

Margin(strategy) == IF strategy \in {"quasimodo", "smc_ob_fvg"} THEN 3 ELSE 2

\* Mutant: the margin is taken towards the entry.
Beyond_Inside(candles, margin, direction) ==
  IF direction = "long" THEN 4 * (1000 + margin) * Min({b.l : b \in candles})
  ELSE 4 * (1000 - margin) * Max({b.h : b \in candles})
\* A margin beyond the extreme of some candles.
Beyond(candles, margin, direction) ==
  IF direction = "long" THEN 4 * (1000 - margin) * Min({b.l : b \in candles})
  ELSE 4 * (1000 + margin) * Max({b.h : b \in candles})

\* Beyond an extreme, or one and a half ranges of the candle from the entry.
StopOf(strategy, chart, direction) ==
  IF strategy \in {"ema_cross", "rsi_momentum"}
  THEN 4000 * Last_(chart).c + (IF direction = "long" THEN -6000 ELSE 6000) * Span(Last_(chart))
  ELSE Beyond(Behind(strategy, chart), Margin(strategy), direction)

\* A parabolic market gives no short; pinbar fails where there is a block.
Admitted(strategy, chart, bias, regime, direction) ==
  /\ bias = (IF direction = "long" THEN "bullish" ELSE "bearish")
  /\ ~(regime = "PARABOLIC" /\ direction = "short")
  /\ strategy = "pinbar" => /\ OrderBlocks(chart, 10) = <<>>
                           /\ \E z \in OpenGap(chart) : AtMiddle(z, Last_(chart).c, 3)

SignalOf(direction, entry, stop) ==
  [direction |-> direction, entry |-> entry, stop |-> stop,
   tp1 |-> entry + (3 * (entry - stop)) \div 2, tp2 |-> entry + (5 * (entry - stop)) \div 2]

\* The signals a strategy gives on a chart, at most one.
Signals(strategy, chart, bias, regime, strong) ==
  {s \in {SignalOf(d, 4000 * Last_(chart).c, StopOf(strategy, chart, d)) :
            d \in {d \in {Pattern(strategy, chart, bias, strong)} \ {"none"} :
                     Admitted(strategy, chart, bias, regime, d)}} : s.stop # s.entry}

-----------------------------------------------------------------------------
(* Property *)

\* Whatever chart a strategy gives a signal on, the stop is on the losing side of the entry and
\* the targets are on the winning side, one after the other: no pattern lets the last close be
\* beyond the candles its stop is set behind, although a block may be retested from outside.
LevelsOrdered ==
  \A strategy \in Strategies, bias \in {"bullish", "bearish"} :
    \A s \in Signals(strategy, seen, bias, "RANGING", TRUE) :
      IF s.direction = "long" THEN s.stop < s.entry /\ s.entry < s.tp1 /\ s.tp1 < s.tp2
      ELSE s.stop > s.entry /\ s.entry > s.tp1 /\ s.tp1 > s.tp2
=============================================================================
