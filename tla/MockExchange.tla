----------------------------- MODULE MockExchange -----------------------------
(***************************************************************************)
(* The paper exchange of mock-exchange-workspace/exchange: orders,         *)
(* positions and the single account row in SQLite, driven by the order     *)
(* endpoints and by PositionTracker on every closed candle.                *)
(*                                                                         *)
(* Handlers never suspend between their database accesses, so one job runs *)
(* at a time; but each of them commits several times, and a failed commit  *)
(* or a crash leaves what was committed before it.  A job is therefore cut *)
(* at its commits.  Amounts are one unit of the asset; money is counted so *)
(* that fee rate, gain per price step and prices are whole numbers.        *)
(***************************************************************************)
EXTENDS Integers, Sequences, FiniteSets

CONSTANTS
  Symbols,
  Plans,           \* entry orders: direction, price and metadata levels
  Levels,          \* prices of stop-loss and take-profit orders
  Candles,         \* low and high of closed candles
  Fundings,        \* funding a position may have paid when it closes
  InitialBalance,
  FEE_RATE,
  GAIN,            \* result per price step: amount times leverage
  MaxFailures,     \* bound: commits and pushes that fail, crashes
  MaxOrders        \* bound: orders ever placed

None == 0   \* a level that is missing from the metadata

ASSUME DataAssumption ==
  /\ Plans \subseteq [dir: {"long", "short"}, entry: Nat \ {0},
                      sl: Nat, tp1: Nat, tp2: Nat]
  /\ Levels \subseteq Nat \ {0}
  /\ Candles \subseteq [low: Nat, high: Nat]
  /\ Fundings \subseteq Int
  /\ InitialBalance \in Int

ASSUME RatesAssumption == FEE_RATE \in Nat /\ GAIN \in Nat
ASSUME BoundsAssumption == MaxFailures \in Nat /\ MaxOrders \in Nat

VARIABLES
  orders,      \* mock_orders
  positions,   \* mock_positions
  account,     \* mock_account, the row with id 1
  history,     \* mock_account_history
  events,      \* trade_closed events pushed to audit:pending_snapshots
  job,         \* the handler in progress and its next commit
  failures     \* history: what has failed so far

exchangeVars == <<orders, positions, account, history, events, job, failures>>

-----------------------------------------------------------------------------
(* Data *)

Order == [sym: Symbols, type: {"market", "limit", "stop_loss", "take_profit"},
          price: Nat, status: {"OPEN", "FILLED", "CANCELLED"}, fee: Nat]

Position == [sym: Symbols, dir: {"long", "short"}, entry: Nat, sl: Nat, tp1: Nat,
             tp2: Nat, order: Nat, status: {"OPEN", "CLOSED"}, exit: Nat,
             reason: {"none", "SL_HIT", "TP1_HIT", "TP2_HIT"}, funding: Int]

Account == [balance: Int, equity: Int, realized: Int, fees: Int]

HistoryRow == [event: {"trade_opened", "trade_closed"}, trade: Nat, delta: Int,
               balance: Int]

NoCandle == [low |-> 0, high |-> 0]

\* todo holds the positions a candle handler still has to close.
Job(at, order, plan, trade, candle, todo) ==
  [at |-> at, order |-> order, plan |-> plan, trade |-> trade,
   candle |-> candle, todo |-> todo]

NoPlan == [dir |-> "long", entry |-> 0, sl |-> None, tp1 |-> None, tp2 |-> None]
NoJob == Job("idle", 0, NoPlan, 0, NoCandle, {})

\* Mutant: get_open_positions forgets the status filter.
OpenPositions_All(sym) == {i \in DOMAIN positions : positions[i].sym = sym}
OpenPositions(sym) ==
  {i \in DOMAIN positions : positions[i].sym = sym /\ positions[i].status = "OPEN"}

Fee(price) == price * FEE_RATE

-----------------------------------------------------------------------------
(* Results: calculate_pnl *)

GrossPnl(pos) ==
  IF pos.dir = "long" THEN (pos.exit - pos.entry) * GAIN
                      ELSE (pos.entry - pos.exit) * GAIN

NetPnl(pos) == GrossPnl(pos) - Fee(pos.entry) - Fee(pos.exit) - pos.funding

-----------------------------------------------------------------------------
(* Which level a candle hits: stop loss, then TP2, then TP1 *)

Reached(pos, level, candle) ==
  IF pos.dir = "long" THEN candle.high >= level ELSE candle.low <= level

Stopped(pos, candle) ==
  IF pos.dir = "long" THEN candle.low <= pos.sl ELSE candle.high >= pos.sl

Reason(pos, candle) ==
  CASE Stopped(pos, candle) -> "SL_HIT"
    [] ~Stopped(pos, candle) /\ pos.tp2 # None /\ Reached(pos, pos.tp2, candle)
         -> "TP2_HIT"
    [] ~Stopped(pos, candle) /\ ~(pos.tp2 # None /\ Reached(pos, pos.tp2, candle))
         /\ Reached(pos, pos.tp1, candle) -> "TP1_HIT"
    [] OTHER -> "none"

ExitPrice(pos, candle) ==
  CASE Reason(pos, candle) = "SL_HIT"  -> pos.sl
    [] Reason(pos, candle) = "TP2_HIT" -> pos.tp2
    [] OTHER -> pos.tp1

-----------------------------------------------------------------------------
(* Initial state: init_mock_account on an empty database *)

ExchangeInit ==
  /\ orders = <<>>
  /\ positions = <<>>
  /\ account = [balance |-> InitialBalance, equity |-> InitialBalance,
                realized |-> 0, fees |-> 0]
  /\ history = <<>>
  /\ events = <<>>
  /\ job = NoJob
  /\ failures = 0

Fail == failures < MaxFailures /\ failures' = failures + 1

-----------------------------------------------------------------------------
(* create_order: one action per commit *)

Insert(sym, type, price) ==
  /\ Len(orders) < MaxOrders
  /\ orders' = Append(orders, [sym |-> sym, type |-> type, price |-> price,
                               status |-> "OPEN", fee |-> 0])

HasLevels(plan) == plan.sl # None /\ plan.tp1 # None

PlaceMarket(sym, plan) ==
  /\ job = NoJob
  /\ Insert(sym, "market", plan.entry)
  /\ job' = Job("fill", Len(orders) + 1, plan, 0, NoCandle, {})
  /\ UNCHANGED <<positions, account, history, events, failures>>

\* A limit order stays OPEN; its position is opened at once all the same.
PlaceLimit(sym, plan) ==
  /\ job = NoJob
  /\ Insert(sym, "limit", plan.entry)
  /\ job' = IF HasLevels(plan)
              THEN Job("open", Len(orders) + 1, plan, 0, NoCandle, {}) ELSE NoJob
  /\ UNCHANGED <<positions, account, history, events, failures>>

PlaceExit(sym, type, price) ==
  /\ job = NoJob
  /\ Insert(sym, type, price)
  /\ job' = IF OpenPositions(sym) = {} THEN NoJob
            ELSE Job("level", Len(orders) + 1, NoPlan, 0, NoCandle, {})
  /\ UNCHANGED <<positions, account, history, events, failures>>

FillMarketOrder ==
  /\ job.at = "fill"
  /\ orders' = [orders EXCEPT ![job.order].status = "FILLED",
                              ![job.order].fee = Fee(job.plan.entry)]
  /\ job' = IF HasLevels(job.plan) THEN [job EXCEPT !.at = "open"] ELSE NoJob
  /\ UNCHANGED <<positions, account, history, events, failures>>

\* The position row, and then its entry fee.
NewPosition ==
  [sym |-> orders[job.order].sym, dir |-> job.plan.dir, entry |-> job.plan.entry,
   sl |-> job.plan.sl, tp1 |-> job.plan.tp1, tp2 |-> job.plan.tp2,
   order |-> job.order, status |-> "OPEN", exit |-> 0, reason |-> "none",
   funding |-> 0]

\* Mutant: the branch of limit orders forgets record_trade_opened.
CreatePosition_NoFee ==
  /\ job.at = "open"
  /\ positions' = Append(positions, NewPosition)
  /\ job' = IF orders[job.order].type = "limit" THEN NoJob
            ELSE [job EXCEPT !.at = "charge", !.trade = Len(positions) + 1]
  /\ UNCHANGED <<orders, account, history, events, failures>>

CreatePosition ==
  /\ job.at = "open"
  /\ positions' = Append(positions, NewPosition)
  /\ job' = [job EXCEPT !.at = "charge", !.trade = Len(positions) + 1]
  /\ UNCHANGED <<orders, account, history, events, failures>>

\* Account row and history row are committed together.
Book(event, trade, delta) ==
  history' = Append(history, [event |-> event, trade |-> trade, delta |-> delta,
                              balance |-> account.balance + delta])

\* Mutant: the history row is written with the fee not yet taken.
RecordTradeOpened_Unsigned ==
  /\ job.at = "charge"
  /\ LET fee == Fee(job.plan.entry)
     IN /\ account' = [account EXCEPT !.balance = @ - fee, !.fees = @ + fee]
        /\ Book("trade_opened", job.trade, fee)
  /\ job' = NoJob
  /\ UNCHANGED <<orders, positions, events, failures>>

RecordTradeOpened ==
  /\ job.at = "charge"
  /\ LET fee == Fee(job.plan.entry)
     IN /\ account' = [account EXCEPT !.balance = @ - fee, !.fees = @ + fee]
        /\ Book("trade_opened", job.trade, -fee)
  /\ job' = NoJob
  /\ UNCHANGED <<orders, positions, events, failures>>

\* get_position takes the first row the query returns, of any trade of the
\* symbol.  A take profit that finds both slots taken changes nothing.
WithLevel(pos, type, price) ==
  CASE type = "stop_loss" -> [pos EXCEPT !.sl = price]
    [] type = "take_profit" /\ pos.tp1 # price /\ pos.tp2 = None
         -> [pos EXCEPT !.tp2 = price]
    [] OTHER -> pos

UpdateLevel ==
  /\ job.at = "level"
  /\ \E i \in OpenPositions(orders[job.order].sym) :
       positions' = [positions EXCEPT
         ![i] = WithLevel(@, orders[job.order].type, orders[job.order].price)]
  /\ job' = NoJob
  /\ UNCHANGED <<orders, account, history, events, failures>>

CancelOrder(o) ==
  /\ job = NoJob
  /\ orders[o].status = "OPEN"
  /\ orders' = [orders EXCEPT ![o].status = "CANCELLED"]
  /\ UNCHANGED <<positions, account, history, events, job, failures>>

-----------------------------------------------------------------------------
(* PositionTracker: one candle, one position after the other *)

Hit(sym, candle) ==
  {i \in OpenPositions(sym) : Reason(positions[i], candle) # "none"}

\* Positions the candle leaves alone need no step.
CheckPositions(sym, candle) ==
  /\ job = NoJob
  /\ Hit(sym, candle) # {}
  /\ job' = Job("check", 0, NoPlan, 0, candle, Hit(sym, candle))
  /\ UNCHANGED <<orders, positions, account, history, events, failures>>

\* funding is a local of the handler, kept with the row it belongs to.
ClosePosition ==
  /\ job.at = "check"
  /\ \E i \in job.todo, f \in Fundings :
       /\ positions' = [positions EXCEPT
            ![i].status = "CLOSED",
            ![i].exit = ExitPrice(positions[i], job.candle),
            ![i].reason = Reason(positions[i], job.candle),
            ![i].funding = f]
       /\ job' = [job EXCEPT !.at = "settle", !.trade = i, !.todo = @ \ {i}]
  /\ UNCHANGED <<orders, account, history, events, failures>>

\* Mutant: a retry of the commit applies the result once more.
ApplyPnl_Again ==
  /\ job.at = "settle"
  /\ LET net == NetPnl(positions[job.trade])
     IN /\ account' = [account EXCEPT !.balance = @ + net,
                         !.equity = account.balance + net, !.realized = @ + net]
        /\ Book("trade_closed", job.trade, net)
  /\ job' \in {job, [job EXCEPT !.at = "notify"]}
  /\ UNCHANGED <<orders, positions, events, failures>>

ApplyPnl ==
  /\ job.at = "settle"
  /\ LET pos == positions[job.trade]
         net == NetPnl(pos)
     IN /\ account' = [balance |-> account.balance + net,
                       equity |-> account.balance + net,
                       realized |-> account.realized + net,
                       fees |-> account.fees + Fee(pos.entry) + Fee(pos.exit)]
        /\ Book("trade_closed", job.trade, net)
  /\ job' = [job EXCEPT !.at = "notify"]
  /\ UNCHANGED <<orders, positions, events, failures>>

\* Mutant: the handler returns after the first fill.
NextPosition_FirstOnly == job' = NoJob
NextPosition ==
  job' = IF job.todo = {} THEN NoJob ELSE [job EXCEPT !.at = "check"]

\* The push is best effort: its failure is logged and the loop goes on.
Notify ==
  /\ job.at = "notify"
  /\ \/ events' = Append(events, job.trade) /\ UNCHANGED failures
     \/ events' = events /\ Fail
  /\ NextPosition
  /\ UNCHANGED <<orders, positions, account, history>>

-----------------------------------------------------------------------------
(* A commit fails, or the process stops: earlier commits stay, the rest of *)
(* the job is never resumed.                                               *)

Abort ==
  /\ job # NoJob
  /\ Fail
  /\ job' = NoJob
  /\ UNCHANGED <<orders, positions, account, history, events>>

OrderRequest ==
  \E sym \in Symbols :
    \/ \E plan \in Plans : PlaceMarket(sym, plan) \/ PlaceLimit(sym, plan)
    \/ \E type \in {"stop_loss", "take_profit"}, price \in Levels :
         PlaceExit(sym, type, price)

CreateOrder ==
  OrderRequest \/ FillMarketOrder \/ CreatePosition \/ RecordTradeOpened \/ UpdateLevel

TrackPositions ==
  \/ \E sym \in Symbols, candle \in Candles : CheckPositions(sym, candle)
  \/ ClosePosition
  \/ ApplyPnl
  \/ Notify

ExchangeNext ==
  \/ CreateOrder
  \/ \E o \in DOMAIN orders : CancelOrder(o)
  \/ TrackPositions
  \/ Abort

ExchangeSpec == ExchangeInit /\ [][ExchangeNext]_exchangeVars

-----------------------------------------------------------------------------
(* Types *)

Jobs == [at: {"idle", "fill", "open", "charge", "level", "check", "settle", "notify"},
         order: Nat, plan: Plans \cup {NoPlan}, trade: Nat,
         candle: Candles \cup {NoCandle}, todo: SUBSET DOMAIN positions]

\* Every row has its columns' values, and a job names rows that exist.
ExchangeTypeOK ==
  /\ orders \in Seq(Order)
  /\ positions \in Seq(Position)
  /\ account \in Account
  /\ history \in Seq(HistoryRow)
  /\ events \in Seq(DOMAIN positions)
  /\ job \in Jobs
  /\ failures \in Nat
  /\ job.at \in {"fill", "open", "charge", "level"} => job.order \in DOMAIN orders
  /\ job.at \in {"charge", "settle", "notify"} => job.trade \in DOMAIN positions

-----------------------------------------------------------------------------
(* Safety *)

Rows(event, trade) ==
  {k \in DOMAIN history : history[k].event = event /\ history[k].trade = trade}

\* The account's balance can be replayed from mock_account_history: every row
\* continues the one before it and the account shows the last (record_trade_opened,
\* apply_pnl), whatever fails between the commits.
BalanceTrail ==
  LET Before(k) == IF k = 1 THEN InitialBalance ELSE history[k - 1].balance
  IN /\ \A k \in DOMAIN history : history[k].balance = Before(k) + history[k].delta
     /\ account.balance = Before(Len(history) + 1)

\* A result is booked for closed positions only, at most once, and stays the one
\* that can be recomputed from the position's row (calculate_pnl, apply_pnl).
ResultBookedOnce ==
  /\ \A i \in DOMAIN positions : Cardinality(Rows("trade_closed", i)) <= 1
  /\ \A k \in DOMAIN history : history[k].event = "trade_closed" =>
       /\ history[k].trade \in DOMAIN positions
       /\ positions[history[k].trade].status = "CLOSED"
       /\ history[k].delta = NetPnl(positions[history[k].trade])

\* When nothing fails, every position that exists after a handler has its entry fee
\* booked and every closed one its result booked and announced, once each.
SettledWhenIdle ==
  job = NoJob /\ failures = 0 => \A i \in DOMAIN positions :
    /\ Cardinality(Rows("trade_opened", i)) = 1
    /\ positions[i].status = "CLOSED" =>
         /\ Cardinality(Rows("trade_closed", i)) = 1
         /\ Cardinality({k \in DOMAIN events : events[k] = i}) = 1

\* When nothing fails, the handler of a candle leaves no position open that the
\* candle hits: an exit is not postponed to another candle (check_positions_for_symbol).
NothingPassedOver ==
  [][job.at = "notify" /\ job'.at = "idle" /\ failures' = 0 =>
       \A i \in OpenPositions(positions[job.trade].sym) :
         Reason(positions[i], job.candle) = "none"]_exchangeVars

-----------------------------------------------------------------------------
(* Refinement: the exchange keeps the book of TradeBook *)

Trades == 1..MaxOrders

BookState ==
  [t \in Trades |-> IF t \notin DOMAIN positions THEN "absent"
                    ELSE IF positions[t].status = "OPEN" THEN "open" ELSE "closed"]

BookedEvents ==
  [t \in Trades |-> {history[k].event : k \in {l \in DOMAIN history : history[l].trade = t}}]

TB == INSTANCE TradeBook WITH state <- BookState, booked <- BookedEvents,
                              balance <- account.balance

\* The commits of the exchange, one by one and with failures between them, are
\* steps of the book: no trade is reopened, none is booked twice or too early.
KeepsBook == TB!Spec

=============================================================================
