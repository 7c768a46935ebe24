-------------------------------- MODULE Backtest --------------------------------
(***************************************************************************)
(* BacktestingEngine.run (backtest/engine.py) over candles that arrive one  *)
(* by one, so that nothing can depend on a later one, and the windows of    *)
(* backtest/walk_forward.py.                                               *)
(* A strategy is what module Strategies promises of it: no signal, a        *)
(* failure, or a signal whose stop and target lie on either side of the     *)
(* close.  Prices are whole; fills are in SLIPPAGE-ths of them.             *)
(***************************************************************************)
EXTENDS Integers, Sequences, FiniteSets, SequencesExt, FiniteSetsExt

CONSTANTS
  Candles,      \* candles [h, l, c] of the market
  RISK, REWARD, \* distance of the stop and of the first target
  FUNDING,      \* candles between two funding payments
  PAYMENT,      \* a funding payment, in dollars
  SLIPPAGE,     \* a fill is off by one SLIPPAGE-th of the price (2000)
  FEE,          \* a fill costs one FEE-th (2500)
  NoTrade,
  MaxCandles    \* bound: candles of the data

Reasons == {"open", "sl", "tp1", "end_of_data"}
TestTrades ==
  [direction : {"long", "short"}, entered : Nat, entry : Int, price : Int, stop : Int, tp1 : Int,
   funding : Nat, exit : Int, exited : Nat, reason : Reasons]

\* Prices are positive, and so is a stop below one.
ASSUME TestAssumption ==
  /\ {RISK, REWARD, FUNDING, SLIPPAGE, FEE} \subseteq Nat \ {0} /\ PAYMENT \in Nat
  /\ \A k \in Candles : {k.h, k.l, k.c} \subseteq Nat /\ k.c >= RISK
  /\ NoTrade \notin TestTrades

VARIABLES
  data,     \* candles processed
  open,     \* open_trade
  results,  \* trades closed
  opened,   \* history: signals that were taken, by candle
  ended     \* the run has returned

testVars == <<data, open, results, opened, ended>>

Position == 100   \* position_size_usd

BacktestInit ==
  /\ \E k \in Candles : data = <<k>>
  /\ open = NoTrade /\ results = <<>> /\ opened = <<>>
  /\ ended = FALSE

-----------------------------------------------------------------------------
(* Fills and results *)

\* _apply_slippage: against the trader.
Slipped(price, buying) == (IF buying THEN SLIPPAGE + 1 ELSE SLIPPAGE - 1) * price

Trade(signal, at, price) ==
  LET long == signal.direction = "long"
      fill == Slipped(price, long)
  IN [direction |-> signal.direction, entered |-> at, entry |-> fill, price |-> price,
      stop |-> IF long THEN price - RISK ELSE price + RISK,
      tp1 |-> IF long THEN price + REWARD ELSE price - REWARD,
      funding |-> 0, exit |-> 0, exited |-> 0, reason |-> "open"]

Stopped(trade, k) == IF trade.direction = "long" THEN k.l <= trade.stop ELSE k.h >= trade.stop
Reached(trade, k) == IF trade.direction = "long" THEN k.h >= trade.tp1 ELSE k.l <= trade.tp1

Filled(trade, at, price, reason) ==
  [trade EXCEPT !.exit = price, !.exited = at, !.reason = reason]

\* Mutant: the target is looked at first.
Exits_TargetFirst(trade, k, at) ==
  LET sold(level) == Slipped(level, trade.direction = "short")
  IN IF Reached(trade, k) THEN {Filled(trade, at, sold(trade.tp1), "tp1")}
     ELSE IF Stopped(trade, k) THEN {Filled(trade, at, sold(trade.stop), "sl")}
     ELSE {}
\* _check_exit: the stop before the target, each filled at its level.
Exits(trade, k, at) ==
  LET sold(level) == Slipped(level, trade.direction = "short")
  IN IF Stopped(trade, k) THEN {Filled(trade, at, sold(trade.stop), "sl")}
     ELSE IF Reached(trade, k) THEN {Filled(trade, at, sold(trade.tp1), "tp1")}
     ELSE {}

\* The fees of both fills in SLIPPAGE * FEE-ths of a dollar: for the entry the price, and not the
\* position, is multiplied by a hundred.
EntryFee(trade) == Position * trade.entry
ExitFee(trade) == trade.exit

\* net_pnl of a closed trade, times its entry price, in the same unit.
Net(trade) ==
  LET move == IF trade.direction = "long" THEN trade.exit - trade.entry
              ELSE trade.entry - trade.exit
  IN Position * SLIPPAGE * FEE * move
     - trade.entry * (EntryFee(trade) + ExitFee(trade) + SLIPPAGE * FEE * trade.funding * PAYMENT)

-----------------------------------------------------------------------------
(* The loop *)

\* The funding of a candle that leaves the trade open.
Charged(trade, at) ==
  IF at % FUNDING = 0 THEN [trade EXCEPT !.funding = @ + 1] ELSE trade

Arrives(k) ==
  /\ ~ended /\ Len(data) < MaxCandles
  /\ data' = Append(data, k)
  /\ UNCHANGED ended

\* The open trade ends on this candle, which gives no signal.
Closes(k) ==
  /\ Arrives(k)
  /\ open # NoTrade
  /\ \E trade \in Exits(open, k, Len(data)) : results' = Append(results, trade)
  /\ open' = NoTrade
  /\ UNCHANGED opened

Holds(k) ==
  /\ Arrives(k)
  /\ open # NoTrade /\ Exits(open, k, Len(data)) = {}
  /\ open' = Charged(open, Len(data))
  /\ UNCHANGED <<results, opened>>

\* Nothing is open: a signal of a class that is traded opens a trade at the close.
Enters(k, direction) ==
  /\ Arrives(k)
  /\ open = NoTrade
  /\ open' = Trade([direction |-> direction], Len(data), k.c)
  /\ opened' = Append(opened, Len(data))
  /\ UNCHANGED results

\* No signal, one to ignore, or a strategy that fails.
Passes(k) ==
  /\ Arrives(k)
  /\ open = NoTrade
  /\ UNCHANGED <<open, results, opened>>

\* Mutant: the trade left open at the end of the data is forgotten.
End_Forgets ==
  /\ ~ended
  /\ ended' = TRUE /\ open' = NoTrade
  /\ UNCHANGED <<data, results, opened>>
\* What is left open is closed at the last close, without slippage.
End ==
  /\ ~ended
  /\ ended' = TRUE
  /\ results' = IF open = NoTrade THEN results
                ELSE Append(results, Filled(open, Len(data) - 1, SLIPPAGE * Last(data).c, "end_of_data"))
  /\ open' = NoTrade
  /\ UNCHANGED <<data, opened>>

BacktestNext ==
  \/ \E k \in Candles :
       \/ Closes(k)
       \/ Holds(k)
       \/ Passes(k)
       \/ \E direction \in {"long", "short"} : Enters(k, direction)
  \/ End

BacktestSpec == BacktestInit /\ [][BacktestNext]_testVars

-----------------------------------------------------------------------------
(* Walk-forward *)

\* WalkForwardAnalysis.run: half-open windows, the second part after the first.
Windows(n, in, out, step) ==
  {[first |-> s * step, split |-> s * step + in, last |-> s * step + in + out] :
     s \in {k \in 0..n : k * step + in + out <= n}}

-----------------------------------------------------------------------------
(* Metrics of the trades' net results, in the order in which they are given; fractions are pairs *)

SumOf(s) == FoldSeq(+, 0, s)
Gains(pnls) == SelectSeq(pnls, LAMBDA x : x > 0)
Losses(pnls) == SelectSeq(pnls, LAMBDA x : x < 0)

\* _build_equity_curve
Equity(pnls) == [i \in DOMAIN pnls |-> SumOf(SubSeq(pnls, 1, i))]

\* _compute_max_drawdown: against the highest equity so far, which is the first one and not the
\* capital before it; no drawdown from a peak of zero.
MaxDrawdown(curve) ==
  LET lower(a, b) == a[1] * b[2] < b[1] * a[2]
      seen(so, val) ==
        LET peak == Max({so.peak, val})
            dd == IF peak = 0 THEN <<0, 1>> ELSE <<val - peak, Max({peak, -peak})>>
        IN [peak |-> peak, dd |-> IF lower(dd, so.dd) THEN dd ELSE so.dd]
  IN IF curve = <<>> THEN <<0, 1>>
     ELSE FoldLeft(seen, [peak |-> curve[1], dd |-> <<0, 1>>], curve).dd

\* compute_metrics; a factor over zero is infinite, and the Sharpe ratio is left out.
Metrics(pnls) ==
  [total |-> Len(pnls),
   wins |-> Len(Gains(pnls)), losses |-> Len(Losses(pnls)),
   factor |-> <<SumOf(Gains(pnls)), -SumOf(Losses(pnls))>>,
   net |-> SumOf(pnls), drawdown |-> MaxDrawdown(Equity(pnls))]

-----------------------------------------------------------------------------
(* Properties *)

\* One trade at a time and none lost: trades are closed in the order in which they were opened,
\* each after the candle it was opened on, none is opened on the candle that closes another, and
\* when the run returns every trade opened is in the results once.
TradesAccounted ==
  /\ \A i \in DOMAIN results :
       /\ results[i].entered = opened[i]
       /\ results[i].exited > results[i].entered \/ results[i].reason = "end_of_data"
       /\ i > 1 => results[i].entered > results[i - 1].exited
  /\ ended => Len(results) = Len(opened)

\* A backtest is not flattered by the order of events inside a candle: a trade that did not end
\* at its stop has not touched it since it was opened, and one that did end there has lost.
StopsComeFirst ==
  \A i \in DOMAIN results :
    LET t == results[i]
    IN IF t.reason = "sl" THEN Net(t) < 0
       ELSE \A at \in (t.entered + 1)..t.exited : ~Stopped(t, data[at + 1])

\* The metrics tell one story: more is won than lost exactly when the account grew, the drawdown
\* misses no fall of an account that stays above zero, from any earlier equity to any later one,
\* and an account that only grows has none.
MetricsAgree(pnls) ==
  LET m == Metrics(pnls)
      curve == Equity(pnls)
      pairs == {p \in (DOMAIN curve) \X (DOMAIN curve) : p[1] <= p[2]}
  IN /\ m.wins + m.losses <= m.total
     /\ m.factor[1] > m.factor[2] <=> m.net > 0
     /\ (\A i \in DOMAIN curve : curve[i] > 0) =>
          /\ \A p \in pairs : m.drawdown[1] * curve[p[1]] <= (curve[p[2]] - curve[p[1]]) * m.drawdown[2]
          /\ curve # <<>> =>
               \E p \in pairs : m.drawdown[1] * curve[p[1]] = (curve[p[2]] - curve[p[1]]) * m.drawdown[2]
     /\ (\A p \in pairs : curve[p[1]] <= curve[p[2]]) => m.drawdown[1] = 0

\* Walk-forward windows never test on what they were fitted on, and no data that fills a
\* window is left over: with a step as long as the test part, the test parts follow one another.
WindowsTile(n, in, out) ==
  LET windows == Windows(n, in, out, out)
  IN /\ \A w \in windows : w.first < w.split /\ w.split < w.last /\ w.last <= n
     /\ \A t \in in..(n - 1) :
          Cardinality({w \in windows : w.split <= t /\ t < w.last}) =
            IF t < in + out * ((n - in) \div out) THEN 1 ELSE 0

=============================================================================
