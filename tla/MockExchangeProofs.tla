-------------------------- MODULE MockExchangeProofs --------------------------
(***************************************************************************)
(* Proofs about MockExchange, for any symbols, plans, candles, fundings,   *)
(* rates and numbers of orders and failures.                               *)
(***************************************************************************)
EXTENDS MockExchange, TLAPS, FiniteSetTheorems

-----------------------------------------------------------------------------
(* Amounts, rows and sequences *)

\* Fees are never negative.
LEMMA FeeType == ASSUME NEW price \in Nat PROVE Fee(price) \in Nat
BY RatesAssumption DEF Fee

\* The result of a position is a number.
LEMMA NetPnlType == ASSUME NEW pos \in Position PROVE NetPnl(pos) \in Int
<1>1. Fee(pos.entry) \in Nat /\ Fee(pos.exit) \in Nat
  BY FeeType DEF Position
<1>2. GrossPnl(pos) \in Int
  BY RatesAssumption DEF Position, GrossPnl
<1> QED
  BY <1>1, <1>2 DEF NetPnl, Position

\* A level that is set changes nothing else of a position.
LEMMA LevelType ==
  ASSUME NEW pos \in Position, NEW type, NEW price \in Nat
  PROVE  LET new == WithLevel(pos, type, price)
         IN /\ new \in Position
            /\ new.status = pos.status /\ new.sym = pos.sym /\ new.dir = pos.dir
            /\ new.entry = pos.entry /\ new.exit = pos.exit /\ new.funding = pos.funding
<1>1. CASE type = "stop_loss"
  BY <1>1 DEF WithLevel, Position
<1>2. CASE type # "stop_loss" /\ type = "take_profit" /\ pos.tp1 # price /\ pos.tp2 = None
  BY <1>2 DEF WithLevel, Position
<1>3. CASE type # "stop_loss" /\ ~(type = "take_profit" /\ pos.tp1 # price /\ pos.tp2 = None)
  BY <1>3 DEF WithLevel, Position
<1> QED
  BY <1>1, <1>2, <1>3

\* Where a position leaves is a price, and why is a reason.
LEMMA ExitType ==
  ASSUME NEW pos \in Position, NEW candle
  PROVE  /\ ExitPrice(pos, candle) \in Nat
         /\ Reason(pos, candle) \in {"none", "SL_HIT", "TP1_HIT", "TP2_HIT"}
<1>1. Reason(pos, candle) \in {"none", "SL_HIT", "TP1_HIT", "TP2_HIT"}
  BY DEF Reason
<1>2. ExitPrice(pos, candle) \in Nat
  BY DEF ExitPrice, Position
<1> QED
  BY <1>1, <1>2

\* A plan that is placed, or the empty one, is a plan.
LEMMA PlanType ==
  ASSUME NEW plan \in Plans \cup {NoPlan}
  PROVE  /\ plan.dir \in {"long", "short"} /\ plan.entry \in Nat
         /\ plan.sl \in Nat /\ plan.tp1 \in Nat /\ plan.tp2 \in Nat
BY DataAssumption DEF NoPlan, None

\* An appended row is the last one, and the others stay.
LEMMA Appended ==
  ASSUME NEW S, NEW s \in Seq(S), NEW x \in S
  PROVE  /\ Append(s, x) \in Seq(S)
         /\ Len(Append(s, x)) = Len(s) + 1
         /\ DOMAIN Append(s, x) = DOMAIN s \cup {Len(s) + 1}
         /\ \A i \in DOMAIN s : Append(s, x)[i] = s[i]
         /\ Append(s, x)[Len(s) + 1] = x
         /\ Len(s) \in Nat /\ DOMAIN s = 1..Len(s)
OBVIOUS

\* A sequence over a set is one over a larger set.
LEMMA Widened == ASSUME NEW S, NEW T, S \subseteq T, NEW s \in Seq(S) PROVE s \in Seq(T)
OBVIOUS

-----------------------------------------------------------------------------
(* Types *)

\* The two conjuncts of ExchangeTypeOK that tie a job to the rows it works on.
Named ==
  /\ job.at \in {"fill", "open", "charge", "level"} => job.order \in DOMAIN orders
  /\ job.at \in {"charge", "settle", "notify"} => job.trade \in DOMAIN positions

\* The idle job is a job, and names nothing.
LEMMA NoJobType == ASSUME job' = NoJob PROVE job' \in Jobs' /\ Named'
BY DEF NoJob, Job, Jobs, Named

\* An order is appended as long as there is room for one.
LEMMA InsertType ==
  ASSUME ExchangeTypeOK, NEW sym \in Symbols,
         NEW type \in {"market", "limit", "stop_loss", "take_profit"},
         NEW price \in Nat, Insert(sym, type, price)
  PROVE  /\ orders' \in Seq(Order)
         /\ Len(orders) + 1 \in DOMAIN orders'
         /\ Len(orders) + 1 \in Nat
<1>1. orders \in Seq(Order)
  BY DEF ExchangeTypeOK
<1>2. [sym |-> sym, type |-> type, price |-> price, status |-> "OPEN", fee |-> 0] \in Order
  BY DEF Order
<1> QED
  BY <1>1, <1>2, Appended DEF Insert

\* A handler that starts names the order it has appended.
LEMMA PlaceType ==
  ASSUME ExchangeTypeOK, NEW sym \in Symbols,
         NEW type \in {"market", "limit", "stop_loss", "take_profit"},
         NEW price \in Nat, Insert(sym, type, price),
         NEW at \in {"fill", "open", "level"}, NEW plan \in Plans \cup {NoPlan},
         job' \in {NoJob, Job(at, Len(orders) + 1, plan, 0, NoCandle, {})},
         UNCHANGED <<positions, account, history, events, failures>>
  PROVE  ExchangeTypeOK'
<1>1. orders' \in Seq(Order) /\ Len(orders) + 1 \in DOMAIN orders' /\ Len(orders) + 1 \in Nat
  BY InsertType
<1>2. job' \in Jobs' /\ Named'
  <2>1. CASE job' = NoJob
    BY <2>1, NoJobType
  <2>2. CASE job' = Job(at, Len(orders) + 1, plan, 0, NoCandle, {})
    BY <1>1, <2>2 DEF Job, Jobs, Named
  <2> QED
    BY <2>1, <2>2
<1> QED
  BY <1>1, <1>2 DEF ExchangeTypeOK, Named

\* A row of the history is written with the account it leads to.
LEMMA BookType ==
  ASSUME ExchangeTypeOK, NEW event \in {"trade_opened", "trade_closed"}, NEW trade \in Nat,
         NEW delta \in Int, Book(event, trade, delta)
  PROVE  history' \in Seq(HistoryRow)
<1>1. [event |-> event, trade |-> trade, delta |-> delta, balance |-> account.balance + delta]
        \in HistoryRow
  BY DEF ExchangeTypeOK, Account, HistoryRow
<1> QED
  BY <1>1, Appended DEF Book, ExchangeTypeOK

\* Positions are numbered, and a new one gets the next number.
LEMMA CreateType ==
  ASSUME ExchangeTypeOK, CreatePosition
  PROVE  /\ NewPosition \in Position
         /\ positions' \in Seq(Position)
         /\ Len(positions) \in Nat /\ DOMAIN positions = 1..Len(positions)
         /\ DOMAIN positions' = DOMAIN positions \cup {Len(positions) + 1}
         /\ \A i \in DOMAIN positions : positions'[i] = positions[i]
         /\ positions'[Len(positions) + 1] = NewPosition
<1>1. job.plan \in Plans \cup {NoPlan} /\ job.order \in Nat /\ job.order \in DOMAIN orders
  BY DEF ExchangeTypeOK, Jobs, CreatePosition
<1>2. orders[job.order].sym \in Symbols
  <2>1. orders[job.order] \in Order
    BY <1>1 DEF ExchangeTypeOK
  <2> QED
    BY <2>1 DEF Order
<1>3. NewPosition \in Position
  BY <1>1, <1>2, PlanType DEF NewPosition, Position
<1> QED
  BY <1>3, Appended DEF ExchangeTypeOK, CreatePosition

\* One position changes, and none is added.
LEMMA ChangeType ==
  ASSUME ExchangeTypeOK, NEW i \in DOMAIN positions, NEW pos \in Position,
         positions' = [positions EXCEPT ![i] = pos]
  PROVE  /\ positions' \in Seq(Position)
         /\ DOMAIN positions' = DOMAIN positions
         /\ positions'[i] = pos
         /\ \A j \in DOMAIN positions : j # i => positions'[j] = positions[j]
BY DEF ExchangeTypeOK

\* The row of a position that is closed.
ClosedRow(pos, candle, funding) ==
  [pos EXCEPT !.status = "CLOSED", !.exit = ExitPrice(pos, candle),
              !.reason = Reason(pos, candle), !.funding = funding]

LEMMA CloseType ==
  ASSUME ExchangeTypeOK, ClosePosition
  PROVE  \E i \in job.todo, f \in Fundings :
           LET row == ClosedRow(positions[i], job.candle, f)
           IN /\ i \in DOMAIN positions
              /\ row \in Position /\ row.status = "CLOSED" /\ row.sym = positions[i].sym
              /\ positions' = [positions EXCEPT ![i] = row]
              /\ job' = [job EXCEPT !.at = "settle", !.trade = i, !.todo = @ \ {i}]
<1>1. PICK i \in job.todo, f \in Fundings :
        /\ positions' = [positions EXCEPT
             ![i].status = "CLOSED",
             ![i].exit = ExitPrice(positions[i], job.candle),
             ![i].reason = Reason(positions[i], job.candle),
             ![i].funding = f]
        /\ job' = [job EXCEPT !.at = "settle", !.trade = i, !.todo = @ \ {i}]
  BY DEF ClosePosition
<1> DEFINE row == ClosedRow(positions[i], job.candle, f)
<1>2. i \in DOMAIN positions /\ positions[i] \in Position
  BY DEF ExchangeTypeOK, Jobs
<1>3. row \in Position /\ row.status = "CLOSED" /\ row.sym = positions[i].sym
  <2>1. f \in Int
    BY DataAssumption
  <2> QED
    BY <1>2, <2>1, ExitType DEF ClosedRow, Position
<1>4. positions' = [positions EXCEPT ![i] = row]
  BY <1>1, <1>2 DEF ClosedRow, ExchangeTypeOK
<1> QED
  BY <1>1, <1>2, <1>3, <1>4

\* The row of a position whose level is set.
LEMMA UpdateType ==
  ASSUME ExchangeTypeOK, UpdateLevel
  PROVE  \E i \in DOMAIN positions :
           /\ positions[i].status = "OPEN"
           /\ \E row \in Position :
                /\ row.status = "OPEN" /\ row.sym = positions[i].sym
                /\ positions' = [positions EXCEPT ![i] = row]
<1>1. job.order \in DOMAIN orders /\ orders[job.order] \in Order
  BY DEF ExchangeTypeOK, UpdateLevel
<1>2. PICK i \in OpenPositions(orders[job.order].sym) :
        positions' = [positions EXCEPT
          ![i] = WithLevel(@, orders[job.order].type, orders[job.order].price)]
  BY DEF UpdateLevel
<1>3. i \in DOMAIN positions /\ positions[i].status = "OPEN" /\ positions[i] \in Position
  BY DEF OpenPositions, ExchangeTypeOK
<1> DEFINE row == WithLevel(positions[i], orders[job.order].type, orders[job.order].price)
<1>4. row \in Position /\ row.status = "OPEN" /\ row.sym = positions[i].sym
  <2>1. orders[job.order].price \in Nat
    BY <1>1 DEF Order
  <2> QED
    BY <1>3, <2>1, LevelType
<1>5. positions' = [positions EXCEPT ![i] = row]
  BY <1>2
<1> HIDE DEF row
<1> QED
  BY <1>3, <1>4, <1>5

\* The step a candle's handler takes to the next position, or out.
LEMMA NextPositionType ==
  ASSUME ExchangeTypeOK, NextPosition, UNCHANGED positions
  PROVE  job' \in Jobs' /\ (job'.at = "idle" \/ job'.at = "check") /\ (job'.at = "idle" => job' = NoJob)
<1>1. CASE job' = NoJob
  BY <1>1, NoJobType DEF NoJob, Job
<1>2. CASE job' = [job EXCEPT !.at = "check"]
  BY <1>2 DEF Jobs, ExchangeTypeOK
<1> QED
  BY <1>1, <1>2 DEF NextPosition

\* Rows change, and none is added or removed: what names a row still does.
LEMMA KeptRows ==
  ASSUME ExchangeTypeOK, positions' \in Seq(Position), DOMAIN positions' = DOMAIN positions,
         UNCHANGED <<orders, account, history, events, failures>>,
         job' \in Jobs', Named'
  PROVE  ExchangeTypeOK'
BY DEF ExchangeTypeOK, Named

LEMMA OrderRequestType == ASSUME ExchangeTypeOK, OrderRequest PROVE ExchangeTypeOK'
<1>1. PICK sym \in Symbols :
        \/ \E plan \in Plans : PlaceMarket(sym, plan) \/ PlaceLimit(sym, plan)
        \/ \E type \in {"stop_loss", "take_profit"}, price \in Levels : PlaceExit(sym, type, price)
  BY DEF OrderRequest
<1>2. ASSUME NEW plan \in Plans, PlaceMarket(sym, plan) \/ PlaceLimit(sym, plan)
      PROVE  ExchangeTypeOK'
  <2>1. plan.entry \in Nat
    BY PlanType
  <2>2. CASE PlaceMarket(sym, plan)
    BY <2>1, <2>2, PlaceType DEF PlaceMarket
  <2>3. CASE PlaceLimit(sym, plan)
    BY <2>1, <2>3, PlaceType DEF PlaceLimit
  <2> QED
    BY <1>2, <2>2, <2>3
<1>3. ASSUME NEW type \in {"stop_loss", "take_profit"}, NEW price \in Levels,
             PlaceExit(sym, type, price)
      PROVE  ExchangeTypeOK'
  <2>1. price \in Nat
    BY DataAssumption
  <2> QED
    BY <1>3, <2>1, PlaceType DEF PlaceExit
<1> QED
  BY <1>1, <1>2, <1>3

LEMMA CreateOrderType ==
  ASSUME ExchangeTypeOK, FillMarketOrder \/ CreatePosition \/ RecordTradeOpened \/ UpdateLevel
  PROVE  ExchangeTypeOK'
<1>1. CASE FillMarketOrder
  <2>1. job.order \in DOMAIN orders /\ orders[job.order] \in Order
    BY <1>1 DEF FillMarketOrder, ExchangeTypeOK
  <2>2. Fee(job.plan.entry) \in Nat
    BY PlanType, FeeType DEF ExchangeTypeOK, Jobs
  <2> DEFINE row == [orders[job.order] EXCEPT !.status = "FILLED", !.fee = Fee(job.plan.entry)]
  <2>3. row \in Order /\ orders' = [orders EXCEPT ![job.order] = row]
    BY <1>1, <2>1, <2>2 DEF FillMarketOrder, Order, ExchangeTypeOK
  <2> HIDE DEF row
  <2>4. orders' \in Seq(Order) /\ DOMAIN orders' = DOMAIN orders
    BY <2>1, <2>3 DEF ExchangeTypeOK
  <2>5. job' \in Jobs' /\ Named'
    <3>1. CASE job' = NoJob
      BY <3>1, NoJobType
    <3>2. CASE job' = [job EXCEPT !.at = "open"]
      BY <1>1, <2>1, <2>4, <3>2 DEF FillMarketOrder, Jobs, Named, ExchangeTypeOK
    <3> QED
      BY <1>1, <3>1, <3>2 DEF FillMarketOrder
  <2> QED
    BY <1>1, <2>4, <2>5 DEF FillMarketOrder, ExchangeTypeOK, Named
<1>2. CASE CreatePosition
  <2>1. DOMAIN positions \subseteq DOMAIN positions' /\ Len(positions) + 1 \in DOMAIN positions'
    BY <1>2, CreateType
  <2>2. events' \in Seq(DOMAIN positions')
    BY <1>2, <2>1, Widened DEF CreatePosition, ExchangeTypeOK
  <2>3. job' \in Jobs' /\ Named'
    <3>1. /\ job \in Jobs /\ job.order \in DOMAIN orders
          /\ Len(positions) + 1 \in Nat /\ job.todo \subseteq DOMAIN positions'
      BY <1>2, <2>1, CreateType DEF CreatePosition, ExchangeTypeOK, Jobs
    <3>2. /\ job' = [job EXCEPT !.at = "charge", !.trade = Len(positions) + 1]
          /\ UNCHANGED orders
      BY <1>2 DEF CreatePosition
    <3> QED
      BY <2>1, <3>1, <3>2 DEF Jobs, Named
  <2> QED
    BY <1>2, <2>2, <2>3, CreateType DEF CreatePosition, ExchangeTypeOK, Named
<1>3. CASE RecordTradeOpened
  <2>1. Fee(job.plan.entry) \in Nat /\ job.trade \in Nat
    BY PlanType, FeeType DEF ExchangeTypeOK, Jobs
  <2>2. account' \in Account
    <3> DEFINE fee == Fee(job.plan.entry)
    <3>1. account' = [account EXCEPT !.balance = account.balance - fee,
                                     !.fees = account.fees + fee]
      BY <1>3 DEF RecordTradeOpened
    <3>2. account.balance - fee \in Int /\ account.fees + fee \in Int
      BY <2>1 DEF ExchangeTypeOK, Account
    <3> HIDE DEF fee
    <3> QED
      BY <3>1, <3>2 DEF ExchangeTypeOK, Account
  <2>3. history' \in Seq(HistoryRow)
    BY <1>3, <2>1, BookType DEF RecordTradeOpened
  <2>4. job' \in Jobs' /\ Named'
    BY <1>3, NoJobType DEF RecordTradeOpened
  <2> QED
    BY <1>3, <2>2, <2>3, <2>4 DEF RecordTradeOpened, ExchangeTypeOK, Named
<1>4. CASE UpdateLevel
  <2>1. positions' \in Seq(Position) /\ DOMAIN positions' = DOMAIN positions
    BY <1>4, UpdateType, ChangeType
  <2>2. job' \in Jobs' /\ Named'
    BY <1>4, NoJobType DEF UpdateLevel
  <2> QED
    BY <1>4, <2>1, <2>2, KeptRows DEF UpdateLevel
<1> QED
  BY <1>1, <1>2, <1>3, <1>4

LEMMA TrackPositionsType == ASSUME ExchangeTypeOK, TrackPositions PROVE ExchangeTypeOK'
<1>1. ASSUME NEW sym \in Symbols, NEW candle \in Candles, CheckPositions(sym, candle)
      PROVE  ExchangeTypeOK'
  <2>1. Hit(sym, candle) \subseteq DOMAIN positions
    BY DEF Hit, OpenPositions
  <2>2. job' \in Jobs' /\ Named'
    BY <1>1, <2>1 DEF CheckPositions, Job, Jobs, Named
  <2> QED
    BY <1>1, <2>2, KeptRows DEF CheckPositions, ExchangeTypeOK
<1>2. CASE ClosePosition
  <2>1. PICK i \in DOMAIN positions :
          /\ positions' \in Seq(Position) /\ DOMAIN positions' = DOMAIN positions
          /\ job' = [job EXCEPT !.at = "settle", !.trade = i, !.todo = @ \ {i}]
    BY <1>2, CloseType, ChangeType
  <2>2. i \in Nat
    BY DEF ExchangeTypeOK
  <2>3. job' \in Jobs' /\ Named'
    BY <2>1, <2>2 DEF Jobs, Named, ExchangeTypeOK
  <2> QED
    BY <1>2, <2>1, <2>3, KeptRows DEF ClosePosition
<1>3. CASE ApplyPnl
  <2>1. job.trade \in DOMAIN positions /\ positions[job.trade] \in Position
    BY <1>3 DEF ApplyPnl, ExchangeTypeOK
  <2>2. /\ NetPnl(positions[job.trade]) \in Int /\ job.trade \in Nat
        /\ Fee(positions[job.trade].entry) \in Nat /\ Fee(positions[job.trade].exit) \in Nat
    BY <2>1, NetPnlType, FeeType DEF Position, ExchangeTypeOK, Jobs
  <2>3. account' \in Account
    <3> DEFINE pos == positions[job.trade]
    <3>1. account' = [balance |-> account.balance + NetPnl(pos),
                      equity |-> account.balance + NetPnl(pos),
                      realized |-> account.realized + NetPnl(pos),
                      fees |-> account.fees + Fee(pos.entry) + Fee(pos.exit)]
      BY <1>3 DEF ApplyPnl
    <3>2. account.balance \in Int /\ account.realized \in Int /\ account.fees \in Int
      BY DEF ExchangeTypeOK, Account
    <3> QED
      BY <2>2, <3>1, <3>2 DEF Account
  <2>4. history' \in Seq(HistoryRow)
    BY <1>3, <2>2, BookType DEF ApplyPnl
  <2>5. job' \in Jobs' /\ Named'
    BY <1>3, <2>1 DEF ApplyPnl, Jobs, Named, ExchangeTypeOK
  <2> QED
    BY <1>3, <2>3, <2>4, <2>5 DEF ApplyPnl, ExchangeTypeOK, Named
<1>4. CASE Notify
  <2>1. job.trade \in DOMAIN positions
    BY <1>4 DEF Notify, ExchangeTypeOK
  <2>2. events' \in Seq(DOMAIN positions')
    <3>1. events \in Seq(DOMAIN positions) /\ UNCHANGED positions
      BY <1>4 DEF Notify, ExchangeTypeOK
    <3>2. Append(events, job.trade) \in Seq(DOMAIN positions)
      BY <2>1, <3>1, Appended
    <3> QED
      BY <1>4, <3>1, <3>2 DEF Notify
  <2>3. failures' \in Nat
    BY <1>4 DEF Notify, Fail, ExchangeTypeOK
  <2>4. job' \in Jobs' /\ Named'
    BY <1>4, NextPositionType DEF Notify, Named
  <2> QED
    BY <1>4, <2>2, <2>3, <2>4 DEF Notify, ExchangeTypeOK, Named
<1> QED
  BY <1>1, <1>2, <1>3, <1>4 DEF TrackPositions

LEMMA NextType == ASSUME ExchangeTypeOK, [ExchangeNext]_exchangeVars PROVE ExchangeTypeOK'
<1>1. CASE CreateOrder
  BY <1>1, OrderRequestType, CreateOrderType DEF CreateOrder
<1>2. ASSUME NEW o \in DOMAIN orders, CancelOrder(o)
      PROVE  ExchangeTypeOK'
  <2> DEFINE row == [orders[o] EXCEPT !.status = "CANCELLED"]
  <2>1. row \in Order /\ orders' = [orders EXCEPT ![o] = row]
    <3>1. orders[o] \in Order /\ orders' = [orders EXCEPT ![o].status = "CANCELLED"]
      BY <1>2 DEF CancelOrder, ExchangeTypeOK
    <3> QED
      BY <3>1 DEF Order
  <2> HIDE DEF row
  <2>2. orders' \in Seq(Order) /\ DOMAIN orders' = DOMAIN orders
    BY <2>1 DEF ExchangeTypeOK
  <2> QED
    BY <1>2, <2>2 DEF CancelOrder, ExchangeTypeOK, Jobs
<1>3. CASE TrackPositions
  BY <1>3, TrackPositionsType
<1>4. CASE Abort
  <2>1. failures' \in Nat
    BY <1>4 DEF Abort, Fail, ExchangeTypeOK
  <2> QED
    BY <1>4, <2>1, NoJobType DEF Abort, ExchangeTypeOK, Named
<1>5. CASE UNCHANGED exchangeVars
  BY <1>5 DEF exchangeVars, ExchangeTypeOK, Jobs
<1> QED
  BY <1>1, <1>2, <1>3, <1>4, <1>5 DEF ExchangeNext

\* At every moment every row of the exchange's tables has its columns' values and a job
\* names rows that exist, whatever commits fail and whenever the process stops.
THEOREM TypeCorrect == ExchangeSpec => []ExchangeTypeOK
<1>1. ExchangeInit => ExchangeTypeOK
  BY DataAssumption DEF ExchangeInit, ExchangeTypeOK, Account, Jobs, NoJob, Job, NoPlan, NoCandle
<1>2. ExchangeTypeOK /\ [ExchangeNext]_exchangeVars => ExchangeTypeOK'
  BY NextType
<1> QED
  BY <1>1, <1>2, PTL DEF ExchangeSpec

-----------------------------------------------------------------------------
(* The balance and its history *)

\* A row that is booked continues the trail, if the account is set to its balance.
LEMMA TrailGoesOn ==
  ASSUME ExchangeTypeOK, BalanceTrail,
         NEW event \in {"trade_opened", "trade_closed"}, NEW trade \in Nat, NEW delta \in Int,
         Book(event, trade, delta), account'.balance = account.balance + delta
  PROVE  BalanceTrail'
<1> DEFINE row == [event |-> event, trade |-> trade, delta |-> delta,
                   balance |-> account.balance + delta]
           Before(k) == IF k = 1 THEN InitialBalance ELSE history[k - 1].balance
<1>1. row \in HistoryRow /\ history \in Seq(HistoryRow)
  BY DEF ExchangeTypeOK, Account, HistoryRow
<1>2. /\ history' = Append(history, row)
      /\ row.delta = delta /\ row.balance = account.balance + delta
  BY DEF Book
<1> HIDE DEF row
<1>3. /\ Len(history) \in Nat /\ DOMAIN history = 1..Len(history)
      /\ Len(history') = Len(history) + 1
      /\ DOMAIN history' = 1..(Len(history) + 1)
      /\ \A k \in 1..Len(history) : history'[k] = history[k]
      /\ history'[Len(history) + 1] = row
  BY <1>1, <1>2, Appended
<1>4. ASSUME NEW k \in 1..(Len(history) + 1)
      PROVE  (IF k = 1 THEN InitialBalance ELSE history'[k - 1].balance) = Before(k)
  <2>1. k # 1 => k - 1 \in 1..Len(history)
    BY <1>3
  <2> QED
    BY <1>3, <2>1
<1>5. ASSUME NEW k \in 1..(Len(history) + 1)
      PROVE  history'[k].balance = Before(k) + history'[k].delta
  <2>1. CASE k \in 1..Len(history)
    BY <1>3, <2>1 DEF BalanceTrail
  <2>2. CASE k = Len(history) + 1
    BY <1>2, <1>3, <2>2 DEF BalanceTrail
  <2> QED
    BY <1>3, <2>1, <2>2
<1>6. account'.balance = IF Len(history') + 1 = 1 THEN InitialBalance
                         ELSE history'[(Len(history') + 1) - 1].balance
  BY <1>2, <1>3
<1> QED
  BY <1>3, <1>4, <1>5, <1>6 DEF BalanceTrail

\* Whatever fails between its commits, the balance of the account can be replayed from
\* mock_account_history, for any sequence of requests and candles.
THEOREM TrailKept == ExchangeSpec => []BalanceTrail
<1>1. ExchangeInit => BalanceTrail
  BY DEF ExchangeInit, BalanceTrail
<1>2. ExchangeTypeOK /\ BalanceTrail /\ [ExchangeNext]_exchangeVars => BalanceTrail'
  <2> SUFFICES ASSUME ExchangeTypeOK, BalanceTrail, [ExchangeNext]_exchangeVars PROVE BalanceTrail'
    OBVIOUS
  <2>1. CASE RecordTradeOpened
    <3>1. Fee(job.plan.entry) \in Nat /\ job.trade \in Nat
      BY PlanType, FeeType DEF ExchangeTypeOK, Jobs
    <3>2. -Fee(job.plan.entry) \in Int
      BY <3>1
    <3>3. account'.balance = account.balance + (-Fee(job.plan.entry))
      BY <2>1, <3>1 DEF RecordTradeOpened, ExchangeTypeOK, Account
    <3> QED
      BY <2>1, <3>1, <3>2, <3>3, TrailGoesOn DEF RecordTradeOpened
  <2>2. CASE ApplyPnl
    <3>1. NetPnl(positions[job.trade]) \in Int /\ job.trade \in Nat
      BY <2>2, NetPnlType DEF ApplyPnl, ExchangeTypeOK, Jobs
    <3> QED
      BY <2>2, <3>1, TrailGoesOn DEF ApplyPnl
  <2>3. CASE UNCHANGED <<account, history>>
    BY <2>3 DEF BalanceTrail
  <2>4. UNCHANGED <<account, history>> \/ RecordTradeOpened \/ ApplyPnl
    BY DEF ExchangeNext, exchangeVars, CreateOrder, OrderRequest, PlaceMarket, PlaceLimit, PlaceExit,
           FillMarketOrder, CreatePosition, UpdateLevel, CancelOrder, TrackPositions,
           CheckPositions, ClosePosition, Notify, Abort
  <2> QED
    BY <2>1, <2>2, <2>3, <2>4
<1> QED
  BY <1>1, <1>2, TypeCorrect, PTL DEF ExchangeSpec

-----------------------------------------------------------------------------
(* Results *)

\* What ties the ledger to the positions: a handler closes only what is open; every row names
\* a position, a result one that is closed and whose result it is; an event is booked once for
\* a trade; and a handler about to book finds its trade as the row requires, and no row yet.
TodoOpen == \A i \in job.todo : positions[i].status = "OPEN"
RowsKnown == \A k \in DOMAIN history : history[k].trade \in DOMAIN positions
ResultsBacked ==
  \A k \in DOMAIN history : history[k].event = "trade_closed" =>
    /\ positions[history[k].trade].status = "CLOSED"
    /\ history[k].delta = NetPnl(positions[history[k].trade])
Booked(event, trade) ==
  \E k \in DOMAIN history : history[k].event = event /\ history[k].trade = trade
BookedOnce ==
  \A k, l \in DOMAIN history :
    history[k].event = history[l].event /\ history[k].trade = history[l].trade => k = l
AboutToBook ==
  /\ job.at = "charge" =>
       positions[job.trade].status = "OPEN" /\ ~Booked("trade_opened", job.trade)
  /\ job.at = "settle" =>
       positions[job.trade].status = "CLOSED" /\ ~Booked("trade_closed", job.trade)

Ledger == TodoOpen /\ RowsKnown /\ ResultsBacked /\ BookedOnce /\ AboutToBook

\* The rows stay good as long as no position is removed and a closed one keeps its row.
LEMMA RowsStay ==
  ASSUME ExchangeTypeOK, Ledger, UNCHANGED history,
         \A i \in DOMAIN positions :
           i \in DOMAIN positions' /\ (positions[i].status = "CLOSED" => positions'[i] = positions[i])
  PROVE  RowsKnown' /\ ResultsBacked' /\ BookedOnce'
<1>1. RowsKnown'
  BY DEF Ledger, RowsKnown
<1>2. ASSUME NEW k \in DOMAIN history, history[k].event = "trade_closed"
      PROVE  /\ positions'[history[k].trade].status = "CLOSED"
             /\ history[k].delta = NetPnl(positions'[history[k].trade])
  <2>1. history[k].trade \in DOMAIN positions /\ positions[history[k].trade].status = "CLOSED"
    BY <1>2 DEF Ledger, RowsKnown, ResultsBacked
  <2>2. positions'[history[k].trade] = positions[history[k].trade]
    BY <2>1
  <2>3. /\ positions[history[k].trade].status = "CLOSED"
        /\ history[k].delta = NetPnl(positions[history[k].trade])
    BY <1>2 DEF Ledger, ResultsBacked
  <2> QED
    BY <2>2, <2>3
<1>3. ResultsBacked'
  <2>1. SUFFICES ASSUME NEW k \in DOMAIN history', history'[k].event = "trade_closed"
                 PROVE  /\ positions'[history'[k].trade].status = "CLOSED"
                        /\ history'[k].delta = NetPnl(positions'[history'[k].trade])
    BY DEF ResultsBacked, NetPnl, GrossPnl
  <2> QED
    BY <1>2, <2>1
<1>4. BookedOnce'
  BY DEF Ledger, BookedOnce
<1> QED
  BY <1>1, <1>3, <1>4

\* An event that is not booked yet, for a trade in the right state, keeps the ledger.
LEMMA BookKeeps ==
  ASSUME ExchangeTypeOK, Ledger, UNCHANGED positions,
         NEW event \in {"trade_opened", "trade_closed"}, NEW trade \in DOMAIN positions,
         NEW delta \in Int, Book(event, trade, delta), ~Booked(event, trade),
         event = "trade_closed" =>
           positions[trade].status = "CLOSED" /\ delta = NetPnl(positions[trade])
  PROVE  RowsKnown' /\ ResultsBacked' /\ BookedOnce'
<1> DEFINE row == [event |-> event, trade |-> trade, delta |-> delta,
                   balance |-> account.balance + delta]
<1>1. row \in HistoryRow /\ history \in Seq(HistoryRow)
  BY DEF ExchangeTypeOK, Account, HistoryRow
<1>2. /\ history' = Append(history, row)
      /\ row.delta = delta /\ row.event = event /\ row.trade = trade
  BY DEF Book
<1> HIDE DEF row
<1>3. /\ Len(history) \in Nat /\ DOMAIN history = 1..Len(history)
      /\ DOMAIN history' = DOMAIN history \cup {Len(history) + 1}
      /\ \A k \in DOMAIN history : history'[k] = history[k]
      /\ history'[Len(history) + 1] = row
  BY <1>1, <1>2, Appended
<1>4. RowsKnown'
  BY <1>2, <1>3 DEF Ledger, RowsKnown
<1>5. ResultsBacked'
  <2>1. SUFFICES ASSUME NEW k \in DOMAIN history', history'[k].event = "trade_closed"
                 PROVE  /\ positions[history'[k].trade].status = "CLOSED"
                        /\ history'[k].delta = NetPnl(positions[history'[k].trade])
    BY DEF ResultsBacked, NetPnl, GrossPnl
  <2>2. CASE k \in DOMAIN history
    BY <1>3, <2>1, <2>2 DEF Ledger, ResultsBacked
  <2>3. CASE k = Len(history) + 1
    BY <1>2, <1>3, <2>1, <2>3
  <2> QED
    BY <1>3, <2>2, <2>3
<1>6. BookedOnce'
  <2>1. ASSUME NEW k \in DOMAIN history
        PROVE  ~(history[k].event = event /\ history[k].trade = trade)
    BY DEF Booked
  <2> QED
    BY <1>2, <1>3, <2>1 DEF Ledger, BookedOnce
<1> QED
  BY <1>4, <1>5, <1>6

\* A handler that books nothing next, of positions that are left alone.
LEMMA QuietKeeps ==
  ASSUME ExchangeTypeOK, Ledger, UNCHANGED <<positions, history>>,
         job'.at \notin {"charge", "settle"},
         \A i \in job'.todo : i \in DOMAIN positions /\ positions[i].status = "OPEN"
  PROVE  Ledger'
<1>1. RowsKnown' /\ ResultsBacked' /\ BookedOnce'
  BY RowsStay
<1> QED
  BY <1>1 DEF Ledger, TodoOpen, AboutToBook

LEMMA QuietSteps ==
  ASSUME ExchangeTypeOK, Ledger,
         \/ OrderRequest \/ FillMarketOrder \/ Notify \/ Abort \/ UNCHANGED exchangeVars
         \/ \E o \in DOMAIN orders : CancelOrder(o)
         \/ \E sym \in Symbols, candle \in Candles : CheckPositions(sym, candle)
  PROVE  /\ UNCHANGED <<positions, history>>
         /\ ~UNCHANGED exchangeVars =>
              /\ job'.at \notin {"charge", "settle"}
              /\ \A i \in job'.todo : i \in DOMAIN positions /\ positions[i].status = "OPEN"
<1>1. \A i \in job.todo : i \in DOMAIN positions /\ positions[i].status = "OPEN"
  BY DEF ExchangeTypeOK, Jobs, Ledger, TodoOpen
<1>2. /\ NoJob.at = "idle" /\ NoJob.todo = {}
      /\ \A at, o, plan : Job(at, o, plan, 0, NoCandle, {}).at = at
                            /\ Job(at, o, plan, 0, NoCandle, {}).todo = {}
  BY DEF NoJob, Job
<1>3. CASE OrderRequest
  <2>1. /\ UNCHANGED <<positions, history>>
        /\ \/ job' = NoJob
           \/ \E at \in {"fill", "open", "level"} : \E o, plan : job' = Job(at, o, plan, 0, NoCandle, {})
    BY <1>3 DEF OrderRequest, PlaceMarket, PlaceLimit, PlaceExit
  <2> QED
    BY <2>1, <1>2
<1>4. CASE FillMarketOrder
  <2>1. job' = NoJob \/ job' = [job EXCEPT !.at = "open"]
    BY <1>4 DEF FillMarketOrder
  <2>2. [job EXCEPT !.at = "open"].at = "open" /\ [job EXCEPT !.at = "open"].todo = job.todo
    BY DEF ExchangeTypeOK, Jobs
  <2> QED
    BY <1>1, <1>2, <1>4, <2>1, <2>2 DEF FillMarketOrder
<1>5. CASE Notify
  <2>1. job' = NoJob \/ job' = [job EXCEPT !.at = "check"]
    BY <1>5 DEF Notify, NextPosition
  <2>2. [job EXCEPT !.at = "check"].at = "check" /\ [job EXCEPT !.at = "check"].todo = job.todo
    BY DEF ExchangeTypeOK, Jobs
  <2> QED
    BY <1>1, <1>2, <1>5, <2>1, <2>2 DEF Notify
<1>6. CASE Abort
  BY <1>2, <1>6 DEF Abort
<1>7. ASSUME NEW o \in DOMAIN orders, CancelOrder(o)
      PROVE  UNCHANGED <<positions, history, job>> /\ job = NoJob
  BY <1>7 DEF CancelOrder
<1>8. ASSUME NEW sym \in Symbols, NEW candle \in Candles, CheckPositions(sym, candle)
      PROVE  /\ UNCHANGED <<positions, history>> /\ job'.at = "check"
             /\ \A i \in job'.todo : i \in DOMAIN positions /\ positions[i].status = "OPEN"
  <2>1. \A i \in Hit(sym, candle) : i \in DOMAIN positions /\ positions[i].status = "OPEN"
    BY DEF Hit, OpenPositions
  <2>2. job'.at = "check" /\ job'.todo = Hit(sym, candle)
    BY <1>8 DEF CheckPositions, Job
  <2> QED
    BY <1>8, <2>1, <2>2 DEF CheckPositions
<1>9. CASE UNCHANGED exchangeVars
  BY <1>9 DEF exchangeVars
<1> QED
  BY <1>2, <1>3, <1>4, <1>5, <1>6, <1>7, <1>8, <1>9

LEMMA LedgerStep == ASSUME ExchangeTypeOK, Ledger, [ExchangeNext]_exchangeVars PROVE Ledger'
<1>1. CASE RecordTradeOpened
  <2>1. job.trade \in DOMAIN positions /\ job.at = "charge"
    BY <1>1 DEF RecordTradeOpened, ExchangeTypeOK
  <2>2. -Fee(job.plan.entry) \in Int
    <3>1. Fee(job.plan.entry) \in Nat
      BY PlanType, FeeType DEF ExchangeTypeOK, Jobs
    <3> QED
      BY <3>1
  <2>3. ~Booked("trade_opened", job.trade)
    BY <2>1 DEF Ledger, AboutToBook
  <2>4. RowsKnown' /\ ResultsBacked' /\ BookedOnce'
    BY <1>1, <2>1, <2>2, <2>3, BookKeeps DEF RecordTradeOpened
  <2>5. job'.at = "idle" /\ job'.todo = {}
    BY <1>1 DEF RecordTradeOpened, NoJob, Job
  <2> QED
    BY <2>4, <2>5 DEF Ledger, TodoOpen, AboutToBook
<1>2. CASE ApplyPnl
  <2>1. job.trade \in DOMAIN positions /\ job.at = "settle"
    BY <1>2 DEF ApplyPnl, ExchangeTypeOK
  <2>2. NetPnl(positions[job.trade]) \in Int
    BY <2>1, NetPnlType DEF ExchangeTypeOK
  <2>3. ~Booked("trade_closed", job.trade) /\ positions[job.trade].status = "CLOSED"
    BY <2>1 DEF Ledger, AboutToBook
  <2>4. RowsKnown' /\ ResultsBacked' /\ BookedOnce'
    BY <1>2, <2>1, <2>2, <2>3, BookKeeps DEF ApplyPnl
  <2>5. job'.at = "notify" /\ job'.todo = job.todo
    BY <1>2 DEF ApplyPnl, ExchangeTypeOK, Jobs
  <2> QED
    BY <1>2, <2>4, <2>5 DEF ApplyPnl, Ledger, TodoOpen, AboutToBook
<1>3. CASE CreatePosition
  <2> DEFINE new == Len(positions) + 1
  <2>1. RowsKnown' /\ ResultsBacked' /\ BookedOnce'
    BY <1>3, CreateType, RowsStay DEF CreatePosition
  <2>2. job'.at = "charge" /\ job'.todo = job.todo /\ job'.trade = new
    BY <1>3 DEF CreatePosition, ExchangeTypeOK, Jobs
  <2>3. TodoOpen'
    BY <1>3, <2>2, CreateType DEF Ledger, TodoOpen, ExchangeTypeOK, Jobs
  <2>4. positions'[new].status = "OPEN"
    BY <1>3, CreateType DEF NewPosition
  <2>5. \A k \in DOMAIN history' : history'[k].trade # new
    <3>1. new \notin DOMAIN positions
      BY <1>3, CreateType
    <3> QED
      BY <1>3, <3>1 DEF CreatePosition, Ledger, RowsKnown
  <2> QED
    BY <2>1, <2>2, <2>3, <2>4, <2>5 DEF Ledger, AboutToBook, Booked
<1>4. CASE UpdateLevel
  <2>1. RowsKnown' /\ ResultsBacked' /\ BookedOnce'
    BY <1>4, UpdateType, ChangeType, RowsStay DEF UpdateLevel
  <2>2. job'.at = "idle" /\ job'.todo = {}
    BY <1>4 DEF UpdateLevel, NoJob, Job
  <2> QED
    BY <2>1, <2>2 DEF Ledger, TodoOpen, AboutToBook
<1>5. CASE ClosePosition
  <2>1. PICK i \in job.todo, row \in Position :
          /\ i \in DOMAIN positions /\ row.status = "CLOSED"
          /\ positions' = [positions EXCEPT ![i] = row]
          /\ job' = [job EXCEPT !.at = "settle", !.trade = i, !.todo = @ \ {i}]
    BY <1>5, CloseType
  <2>2. positions[i].status = "OPEN"
    BY DEF Ledger, TodoOpen
  <2>3. /\ DOMAIN positions' = DOMAIN positions /\ positions'[i] = row
        /\ \A j \in DOMAIN positions : j # i => positions'[j] = positions[j]
    BY <2>1, ChangeType
  <2>4. RowsKnown' /\ ResultsBacked' /\ BookedOnce'
    BY <1>5, <2>2, <2>3, RowsStay DEF ClosePosition
  <2>5. job'.at = "settle" /\ job'.trade = i /\ job'.todo = job.todo \ {i}
    BY <2>1 DEF ExchangeTypeOK, Jobs
  <2>6. TodoOpen'
    BY <2>3, <2>5 DEF Ledger, TodoOpen, ExchangeTypeOK, Jobs
  <2>7. ~Booked("trade_closed", i)'
    BY <1>5, <2>2 DEF ClosePosition, Ledger, ResultsBacked, Booked
  <2> QED
    BY <2>1, <2>3, <2>4, <2>5, <2>6, <2>7 DEF Ledger, AboutToBook, Booked
<1>6. CASE \/ OrderRequest \/ FillMarketOrder \/ Notify \/ Abort \/ UNCHANGED exchangeVars
           \/ \E o \in DOMAIN orders : CancelOrder(o)
           \/ \E sym \in Symbols, candle \in Candles : CheckPositions(sym, candle)
  <2>1. CASE UNCHANGED exchangeVars
    BY <2>1 DEF exchangeVars, Ledger, TodoOpen, RowsKnown, ResultsBacked, BookedOnce, AboutToBook, Booked,
                NetPnl, GrossPnl
  <2>2. CASE ~UNCHANGED exchangeVars
    BY <1>6, <2>2, QuietSteps, QuietKeeps
  <2> QED
    BY <2>1, <2>2
<1> QED
  BY <1>1, <1>2, <1>3, <1>4, <1>5, <1>6 DEF ExchangeNext, CreateOrder, TrackPositions

LEMMA LedgerHolds == ExchangeSpec => [](ExchangeTypeOK /\ Ledger)
<1>1. ExchangeInit => Ledger
  BY DEF ExchangeInit, NoJob, Job, Ledger, TodoOpen, RowsKnown, ResultsBacked, BookedOnce, AboutToBook
<1>2. ExchangeTypeOK /\ Ledger /\ [ExchangeNext]_exchangeVars => Ledger'
  BY LedgerStep
<1> QED
  BY <1>1, <1>2, TypeCorrect, PTL DEF ExchangeSpec

\* A set whose members are all the same has at most one.
LEMMA AtMostOne ==
  ASSUME NEW S, \A x, y \in S : x = y
  PROVE  Cardinality(S) <= 1
<1>1. CASE S = {}
  BY <1>1, FS_EmptySet
<1>2. CASE S # {}
  <2>1. PICK x \in S : TRUE
    BY <1>2
  <2>2. S = {x}
    BY <2>1
  <2> QED
    BY <2>2, FS_Singleton
<1> QED
  BY <1>1, <1>2

\* The result of a position is booked at most once, only after it was closed, and it is the
\* one its row says, whatever commits fail.
THEOREM ResultsBookedOnce == ExchangeSpec => []ResultBookedOnce
<1>1. ExchangeTypeOK /\ Ledger => ResultBookedOnce
  <2> SUFFICES ASSUME ExchangeTypeOK, Ledger PROVE ResultBookedOnce
    OBVIOUS
  <2>1. ASSUME NEW i \in DOMAIN positions PROVE Cardinality(Rows("trade_closed", i)) <= 1
    <3>1. \A k, l \in Rows("trade_closed", i) : k = l
      BY DEF Ledger, BookedOnce, Rows
    <3> QED
      BY <3>1, AtMostOne
  <2> QED
    BY <2>1 DEF Ledger, RowsKnown, ResultsBacked, ResultBookedOnce
<1> QED
  BY <1>1, LedgerHolds, PTL

-----------------------------------------------------------------------------
(* Exits *)

\* What the candle in hand hits of a position's symbol is still on the list.
Covered(i) ==
  \A j \in OpenPositions(positions[i].sym) :
    Reason(positions[j], job.candle) # "none" => j \in job.todo
Watchful ==
  /\ job.at \in {"check", "settle", "notify"} => \A i \in job.todo : Covered(i)
  /\ job.at \in {"settle", "notify"} => Covered(job.trade)

LEMMA WatchfulStep == ASSUME ExchangeTypeOK, Watchful, [ExchangeNext]_exchangeVars PROVE Watchful'
<1>1. ASSUME NEW sym \in Symbols, NEW candle \in Candles, CheckPositions(sym, candle)
      PROVE  Watchful'
  <2>1. job' = Job("check", 0, NoPlan, 0, candle, Hit(sym, candle)) /\ UNCHANGED positions
    BY <1>1 DEF CheckPositions
  <2>2. job'.at = "check" /\ job'.candle = candle /\ job'.todo = Hit(sym, candle)
    BY <2>1 DEF Job
  <2>3. ASSUME NEW i \in Hit(sym, candle), NEW j \in OpenPositions(positions[i].sym),
               Reason(positions[j], candle) # "none"
        PROVE  j \in Hit(sym, candle)
    BY <2>3 DEF Hit, OpenPositions
  <2>4. ASSUME NEW i \in job'.todo PROVE Covered(i)'
    BY <2>1, <2>2, <2>3 DEF Covered, OpenPositions, Reason, Stopped, Reached
  <2> QED
    BY <2>2, <2>4 DEF Watchful
<1>2. CASE ClosePosition
  <2>1. PICK i \in job.todo, row \in Position :
          /\ i \in DOMAIN positions /\ row.status = "CLOSED" /\ row.sym = positions[i].sym
          /\ positions' = [positions EXCEPT ![i] = row]
          /\ job' = [job EXCEPT !.at = "settle", !.trade = i, !.todo = @ \ {i}]
    BY <1>2, CloseType
  <2>2. /\ DOMAIN positions' = DOMAIN positions /\ positions'[i] = row
        /\ \A j \in DOMAIN positions : j # i => positions'[j] = positions[j]
    BY <2>1, ChangeType
  <2>3. /\ job'.at = "settle" /\ job'.trade = i /\ job'.todo = job.todo \ {i}
        /\ job'.candle = job.candle
    BY <2>1 DEF ExchangeTypeOK, Jobs
  <2>4. \A k \in job.todo : k \in DOMAIN positions /\ Covered(k)
    BY <1>2 DEF Watchful, ClosePosition, ExchangeTypeOK, Jobs
  <2>5. ASSUME NEW k \in job.todo, NEW j \in DOMAIN positions',
               positions'[j].sym = positions'[k].sym, positions'[j].status = "OPEN",
               Reason(positions'[j], job.candle) # "none"
        PROVE  j \in job'.todo
    <3>1. j # i /\ positions'[j] = positions[j] /\ j \in DOMAIN positions
      BY <2>1, <2>2, <2>5
    <3>2. positions'[k].sym = positions[k].sym
      BY <2>1, <2>2, <2>4
    <3>3. j \in OpenPositions(positions[k].sym)
      BY <2>5, <3>1, <3>2 DEF OpenPositions
    <3>4. Reason(positions[j], job.candle) # "none"
      BY <2>5, <3>1
    <3> QED
      BY <2>3, <2>4, <3>1, <3>3, <3>4 DEF Covered
  <2>6. ASSUME NEW k \in job.todo PROVE Covered(k)'
    BY <2>3, <2>5 DEF Covered, OpenPositions, Reason, Stopped, Reached
  <2> QED
    BY <2>3, <2>6 DEF Watchful
<1>3. CASE ApplyPnl \/ Notify
  <2>1. /\ UNCHANGED positions
        /\ \/ job' = NoJob
           \/ job.at = "settle" /\ job' = [job EXCEPT !.at = "notify"]
           \/ job.at = "notify" /\ job' = [job EXCEPT !.at = "check"]
    BY <1>3 DEF ApplyPnl, Notify, NextPosition
  <2>2. CASE job' = NoJob
    BY <2>2 DEF NoJob, Job, Watchful
  <2>3. CASE job.at = "settle" /\ job' = [job EXCEPT !.at = "notify"]
    <3>1. /\ job'.at = "notify" /\ job'.todo = job.todo /\ job'.trade = job.trade
          /\ job'.candle = job.candle
      BY <2>3 DEF ExchangeTypeOK, Jobs
    <3> QED
      BY <2>1, <2>3, <3>1 DEF Watchful, Covered, OpenPositions, Reason, Stopped, Reached
  <2>4. CASE job.at = "notify" /\ job' = [job EXCEPT !.at = "check"]
    <3>1. job'.at = "check" /\ job'.todo = job.todo /\ job'.candle = job.candle
      BY <2>4 DEF ExchangeTypeOK, Jobs
    <3> QED
      BY <2>1, <2>4, <3>1 DEF Watchful, Covered, OpenPositions, Reason, Stopped, Reached
  <2> QED
    BY <2>1, <2>2, <2>3, <2>4
<1>4. CASE CreateOrder \/ Abort \/ \E o \in DOMAIN orders : CancelOrder(o)
  <2>1. \/ job' = NoJob
        \/ job' = [job EXCEPT !.at = "open"]
        \/ job' = [job EXCEPT !.at = "charge", !.trade = Len(positions) + 1]
        \/ \E at \in {"fill", "open", "level"} : \E o, plan : job' = Job(at, o, plan, 0, NoCandle, {})
    BY <1>4 DEF CreateOrder, OrderRequest, PlaceMarket, PlaceLimit, PlaceExit, FillMarketOrder,
                CreatePosition, RecordTradeOpened, UpdateLevel, Abort, CancelOrder
  <2>2. job'.at \in {"idle", "open", "charge", "fill", "level"}
    <3>1. /\ NoJob.at = "idle"
          /\ \A at, o, plan : Job(at, o, plan, 0, NoCandle, {}).at = at
      BY DEF NoJob, Job
    <3>2. /\ [job EXCEPT !.at = "open"].at = "open"
          /\ [job EXCEPT !.at = "charge", !.trade = Len(positions) + 1].at = "charge"
      BY DEF ExchangeTypeOK, Jobs
    <3>3. ASSUME NEW at \in {"fill", "open", "level"}, NEW o, NEW plan,
                 job' = Job(at, o, plan, 0, NoCandle, {})
          PROVE  job'.at \in {"idle", "open", "charge", "fill", "level"}
      BY <3>1, <3>3
    <3>4. CASE job' = NoJob
      BY <3>1, <3>4
    <3>5. CASE job' = [job EXCEPT !.at = "open"]
      BY <3>2, <3>5
    <3>6. CASE job' = [job EXCEPT !.at = "charge", !.trade = Len(positions) + 1]
      BY <3>2, <3>6
    <3> QED
      BY <2>1, <3>3, <3>4, <3>5, <3>6
  <2> QED
    BY <2>2 DEF Watchful
<1>5. CASE UNCHANGED exchangeVars
  BY <1>5 DEF exchangeVars, Watchful, Covered, OpenPositions, Reason, Stopped, Reached
<1> QED
  BY <1>1, <1>2, <1>3, <1>4, <1>5 DEF ExchangeNext, TrackPositions

\* When nothing fails, the handler of a candle leaves no position open that the candle hits,
\* however many there are.
THEOREM NoExitPostponed == ExchangeSpec => NothingPassedOver
<1>1. ExchangeInit => Watchful
  BY DEF ExchangeInit, NoJob, Job, Watchful
<1>2. ExchangeTypeOK /\ Watchful /\ [ExchangeNext]_exchangeVars => Watchful'
  BY WatchfulStep
<1>3. ExchangeTypeOK /\ Watchful /\ [ExchangeNext]_exchangeVars =>
        [job.at = "notify" /\ job'.at = "idle" /\ failures' = 0 =>
           \A i \in OpenPositions(positions[job.trade].sym) :
             Reason(positions[i], job.candle) = "none"]_exchangeVars
  <2> SUFFICES ASSUME ExchangeTypeOK, Watchful, ExchangeNext, job.at = "notify", job'.at = "idle", failures' = 0
               PROVE  \A i \in OpenPositions(positions[job.trade].sym) :
                        Reason(positions[i], job.candle) = "none"
    OBVIOUS
  <2>1. ~Abort
    BY DEF Abort, Fail, ExchangeTypeOK
  <2>2. Notify
    BY <2>1 DEF ExchangeNext, CreateOrder, OrderRequest, PlaceMarket, PlaceLimit, PlaceExit,
                FillMarketOrder, CreatePosition, RecordTradeOpened, UpdateLevel, CancelOrder,
                TrackPositions, CheckPositions, ClosePosition, ApplyPnl, NoJob, Job
  <2>3. job.todo = {}
    <3>1. job.todo # {} => job'.at = "check"
      BY <2>2 DEF Notify, NextPosition, ExchangeTypeOK, Jobs
    <3> QED
      BY <3>1
  <2> QED
    BY <2>3 DEF Watchful, Covered
<1> QED
  BY <1>1, <1>2, <1>3, TypeCorrect, PTL DEF ExchangeSpec, NothingPassedOver

-----------------------------------------------------------------------------
(* Refinement *)

\* Every position has an order of its own, so that there are never more than MaxOrders.
Sized ==
  /\ Len(orders) <= MaxOrders
  /\ Len(positions) + (IF job.at \in {"fill", "open"} THEN 1 ELSE 0) <= Len(orders)

LEMMA SizedStep == ASSUME ExchangeTypeOK, Sized, [ExchangeNext]_exchangeVars PROVE Sized'
<1>1. Len(orders) \in Nat /\ Len(positions) \in Nat /\ MaxOrders \in Nat
  BY BoundsAssumption DEF ExchangeTypeOK
<1>2. /\ NoJob.at = "idle"
      /\ \A at, o, plan : Job(at, o, plan, 0, NoCandle, {}).at = at
  BY DEF NoJob, Job
<1>3. CASE OrderRequest
  <2>1. PICK sym, type, price : sym \in Symbols /\ Insert(sym, type, price)
    BY <1>3 DEF OrderRequest, PlaceMarket, PlaceLimit, PlaceExit
  <2>2. Len(orders') = Len(orders) + 1 /\ Len(orders) < MaxOrders
    BY <2>1 DEF Insert, ExchangeTypeOK
  <2>3. job.at = "idle" /\ UNCHANGED positions
    BY <1>2, <1>3 DEF OrderRequest, PlaceMarket, PlaceLimit, PlaceExit
  <2> QED
    BY <1>1, <2>2, <2>3 DEF Sized
<1>4. CASE FillMarketOrder
  <2>1. Len(orders') = Len(orders) /\ UNCHANGED positions /\ job.at = "fill"
    BY <1>4 DEF FillMarketOrder, ExchangeTypeOK
  <2> QED
    BY <1>1, <2>1 DEF Sized
<1>5. CASE CreatePosition
  <2>1. Len(positions') = Len(positions) + 1 /\ UNCHANGED orders /\ job.at = "open"
    BY <1>5 DEF CreatePosition, ExchangeTypeOK
  <2>2. job'.at = "charge"
    BY <1>5 DEF CreatePosition, ExchangeTypeOK, Jobs
  <2> QED
    BY <1>1, <2>1, <2>2 DEF Sized
<1>6. CASE UpdateLevel \/ ClosePosition
  <2>1. Len(positions') = Len(positions) /\ UNCHANGED orders
    <3>1. PICK i \in DOMAIN positions, row \in Position : positions' = [positions EXCEPT ![i] = row]
      BY <1>6, UpdateType, CloseType
    <3>2. Len(positions') = Len(positions)
      BY <3>1 DEF ExchangeTypeOK
    <3> QED
      BY <1>6, <3>2 DEF UpdateLevel, ClosePosition
  <2>2. job'.at \notin {"fill", "open"}
    <3>1. CASE UpdateLevel
      BY <1>2, <3>1 DEF UpdateLevel
    <3>2. CASE ClosePosition
      BY <3>2 DEF ClosePosition, ExchangeTypeOK, Jobs
    <3> QED
      BY <1>6, <3>1, <3>2
  <2> QED
    BY <1>1, <2>1, <2>2 DEF Sized
<1>7. CASE RecordTradeOpened \/ ApplyPnl \/ Notify \/ Abort
  <2>1. UNCHANGED <<orders, positions>>
    BY <1>7 DEF RecordTradeOpened, ApplyPnl, Notify, Abort
  <2>2. job'.at \notin {"fill", "open"}
    BY <1>2, <1>7 DEF RecordTradeOpened, ApplyPnl, Notify, NextPosition, Abort, ExchangeTypeOK, Jobs
  <2> QED
    BY <1>1, <2>1, <2>2 DEF Sized
<1>8. ASSUME NEW o \in DOMAIN orders, CancelOrder(o)
      PROVE  Sized'
  <2>1. Len(orders') = Len(orders) /\ UNCHANGED <<positions, job>>
    BY <1>8 DEF CancelOrder, ExchangeTypeOK
  <2> QED
    BY <1>1, <2>1 DEF Sized
<1>9. ASSUME NEW sym \in Symbols, NEW candle \in Candles, CheckPositions(sym, candle)
      PROVE  Sized'
  <2>1. job'.at = "check" /\ UNCHANGED <<orders, positions>>
    BY <1>9 DEF CheckPositions, Job
  <2> QED
    BY <1>1, <2>1 DEF Sized
<1>10. CASE UNCHANGED exchangeVars
  BY <1>10 DEF exchangeVars, Sized
<1> QED
  BY <1>3, <1>4, <1>5, <1>6, <1>7, <1>8, <1>9, <1>10 DEF ExchangeNext, CreateOrder, TrackPositions

\* The positions of the exchange are trades of the book.
LEMMA PositionsAreTrades == ASSUME ExchangeTypeOK, Sized PROVE DOMAIN positions \subseteq Trades
BY BoundsAssumption DEF ExchangeTypeOK, Sized, Trades

\* A row of the history adds its event to those of its trade.
LEMMA BookAdds ==
  ASSUME ExchangeTypeOK, NEW event \in {"trade_opened", "trade_closed"}, NEW trade \in Trades,
         NEW delta \in Int, Book(event, trade, delta)
  PROVE  BookedEvents' = [BookedEvents EXCEPT ![trade] = @ \cup {event}]
<1> DEFINE row == [event |-> event, trade |-> trade, delta |-> delta,
                   balance |-> account.balance + delta]
<1>1. row \in HistoryRow /\ history \in Seq(HistoryRow)
  BY DEF ExchangeTypeOK, Account, HistoryRow, Trades
<1>2. history' = Append(history, row) /\ row.event = event /\ row.trade = trade
  BY DEF Book
<1> HIDE DEF row
<1>3. /\ DOMAIN history' = DOMAIN history \cup {Len(history) + 1}
      /\ Len(history) + 1 \notin DOMAIN history
      /\ \A k \in DOMAIN history : history'[k] = history[k]
      /\ history'[Len(history) + 1] = row
  BY <1>1, <1>2, Appended
<1> DEFINE Events(t) == {history[k].event : k \in {l \in DOMAIN history : history[l].trade = t}}
           Later(t) == {history'[k].event : k \in {l \in DOMAIN history' : history'[l].trade = t}}
<1>4. ASSUME NEW t \in Trades
      PROVE  Later(t) = IF t = trade THEN Events(t) \cup {event} ELSE Events(t)
  <2>1. ASSUME NEW e \in Later(t) PROVE e \in Events(t) \/ (t = trade /\ e = event)
    <3>1. PICK k \in DOMAIN history' : history'[k].trade = t /\ e = history'[k].event
      OBVIOUS
    <3>2. CASE k \in DOMAIN history
      BY <1>3, <3>1, <3>2
    <3>3. CASE k = Len(history) + 1
      BY <1>2, <1>3, <3>1, <3>3
    <3> QED
      BY <1>3, <3>2, <3>3
  <2>2. ASSUME NEW e \in Events(t) PROVE e \in Later(t)
    <3>1. PICK k \in DOMAIN history : history[k].trade = t /\ e = history[k].event
      OBVIOUS
    <3>2. k \in DOMAIN history' /\ history'[k].trade = t /\ e = history'[k].event
      BY <1>3, <3>1
    <3> QED
      BY <3>2
  <2>3. event \in Later(trade)
    <3>1. LET k == Len(history) + 1
          IN k \in DOMAIN history' /\ history'[k].trade = trade /\ history'[k].event = event
      BY <1>2, <1>3
    <3> QED
      BY <3>1
  <2> HIDE DEF Events, Later
  <2> QED
    BY <2>1, <2>2, <2>3
<1>5. BookedEvents = [t \in Trades |-> Events(t)] /\ BookedEvents' = [t \in Trades |-> Later(t)]
  BY DEF BookedEvents
<1> HIDE DEF Events, Later
<1> QED
  BY <1>4, <1>5

\* Only the state of one trade changes.
LEMMA StateChanges ==
  ASSUME NEW i \in DOMAIN positions', i \in Trades,
         DOMAIN positions' = DOMAIN positions \cup {i},
         \A j \in DOMAIN positions : j # i => positions'[j].status = positions[j].status
  PROVE  BookState' = [BookState EXCEPT ![i] =
                         IF positions'[i].status = "OPEN" THEN "open" ELSE "closed"]
BY DEF BookState

\* A step that changes no status and books nothing is none of the book's.
LEMMA StateStays ==
  ASSUME UNCHANGED history, account'.balance = account.balance,
         DOMAIN positions' = DOMAIN positions,
         \A j \in DOMAIN positions : positions'[j].status = positions[j].status
  PROVE  UNCHANGED TB!vars
<1>1. BookState' = BookState
  BY DEF BookState
<1>2. BookedEvents' = BookedEvents
  BY DEF BookedEvents
<1> QED
  BY <1>1, <1>2 DEF TB!vars

LEMMA BookStep == ASSUME ExchangeTypeOK, Ledger, Sized, [ExchangeNext]_exchangeVars PROVE [TB!Next]_TB!vars
<1>1. DOMAIN positions \subseteq Trades
  BY PositionsAreTrades
<1>2. CASE CreatePosition
  <2>1. PICK new : new = Len(positions) + 1
    OBVIOUS
  <2>2. /\ new \in DOMAIN positions' /\ new \notin DOMAIN positions
        /\ DOMAIN positions' = DOMAIN positions \cup {new}
        /\ \A j \in DOMAIN positions : positions'[j] = positions[j]
        /\ positions'[new].status = "OPEN"
    BY <1>2, <2>1, CreateType DEF NewPosition
  <2>3. new \in Trades
    BY <1>2, <2>1, BoundsAssumption DEF CreatePosition, Sized, Trades, ExchangeTypeOK
  <2>4. BookState[new] = "absent" /\ BookState' = [BookState EXCEPT ![new] = "open"]
    <3>1. BookState' = [BookState EXCEPT ![new] =
                          IF positions'[new].status = "OPEN" THEN "open" ELSE "closed"]
      BY <2>2, <2>3, StateChanges
    <3> QED
      BY <2>2, <2>3, <3>1 DEF BookState
  <2>5. BookedEvents' = BookedEvents /\ account' = account
    BY <1>2 DEF CreatePosition, BookedEvents
  <2> QED
    BY <2>3, <2>4, <2>5 DEF TB!Next, TB!Open
<1>3. CASE ClosePosition
  <2>1. PICK i \in job.todo, row \in Position :
          /\ i \in DOMAIN positions /\ row.status = "CLOSED"
          /\ positions' = [positions EXCEPT ![i] = row]
    BY <1>3, CloseType
  <2>2. /\ DOMAIN positions' = DOMAIN positions /\ positions'[i] = row
        /\ \A j \in DOMAIN positions : j # i => positions'[j] = positions[j]
    BY <2>1, ChangeType
  <2>3. i \in Trades /\ positions[i].status = "OPEN"
    BY <1>1, <2>1 DEF Ledger, TodoOpen
  <2>4. BookState[i] = "open" /\ BookState' = [BookState EXCEPT ![i] = "closed"]
    <3>1. BookState' = [BookState EXCEPT ![i] =
                          IF positions'[i].status = "OPEN" THEN "open" ELSE "closed"]
      BY <2>1, <2>2, <2>3, StateChanges
    <3> QED
      BY <2>1, <2>2, <2>3, <3>1 DEF BookState
  <2>5. BookedEvents' = BookedEvents /\ account' = account
    BY <1>3 DEF ClosePosition, BookedEvents
  <2> QED
    BY <2>3, <2>4, <2>5 DEF TB!Next, TB!Close
<1>4. CASE RecordTradeOpened
  <2> DEFINE fee == Fee(job.plan.entry)
             t == job.trade
  <2>1. t \in DOMAIN positions /\ t \in Trades /\ job.at = "charge"
    BY <1>1, <1>4 DEF RecordTradeOpened, ExchangeTypeOK
  <2>2. fee \in Nat
    BY PlanType, FeeType DEF ExchangeTypeOK, Jobs
  <2>3. BookState[t] = "open" /\ "trade_opened" \notin BookedEvents[t]
    <3>1. positions[t].status = "OPEN" /\ ~Booked("trade_opened", t)
      BY <2>1 DEF Ledger, AboutToBook
    <3> QED
      BY <2>1, <3>1 DEF BookState, BookedEvents, Booked
  <2>4. BookedEvents' = [BookedEvents EXCEPT ![t] = @ \cup {"trade_opened"}]
    <3>1. -fee \in Int
      BY <2>2
    <3>2. Book("trade_opened", t, -fee)
      BY <1>4 DEF RecordTradeOpened
    <3> HIDE DEF fee
    <3> QED
      BY <2>1, <3>1, <3>2, BookAdds
  <2>5. account'.balance \in Int /\ account'.balance <= account.balance
    <3>1. account'.balance = account.balance - fee
      BY <1>4 DEF RecordTradeOpened, ExchangeTypeOK, Account
    <3>2. account.balance \in Int
      BY DEF ExchangeTypeOK, Account
    <3> HIDE DEF fee
    <3> QED
      BY <2>2, <3>1, <3>2
  <2>6. BookState' = BookState
    BY <1>4 DEF RecordTradeOpened, BookState
  <2> QED
    BY <2>1, <2>3, <2>4, <2>5, <2>6 DEF TB!Next, TB!BookOpening, TB!Book
<1>5. CASE ApplyPnl
  <2> DEFINE net == NetPnl(positions[job.trade])
             t == job.trade
  <2>1. t \in DOMAIN positions /\ t \in Trades /\ job.at = "settle"
    BY <1>1, <1>5 DEF ApplyPnl, ExchangeTypeOK
  <2>2. net \in Int
    BY <2>1, NetPnlType DEF ExchangeTypeOK
  <2>3. BookState[t] = "closed" /\ "trade_closed" \notin BookedEvents[t]
    <3>1. positions[t].status = "CLOSED" /\ ~Booked("trade_closed", t)
      BY <2>1 DEF Ledger, AboutToBook
    <3> QED
      BY <2>1, <3>1 DEF BookState, BookedEvents, Booked
  <2>4. BookedEvents' = [BookedEvents EXCEPT ![t] = @ \cup {"trade_closed"}]
    <3>1. Book("trade_closed", t, net)
      BY <1>5 DEF ApplyPnl
    <3> HIDE DEF net
    <3> QED
      BY <2>1, <2>2, <3>1, BookAdds
  <2>5. account'.balance \in Int
    <3>1. account'.balance = account.balance + net
      BY <1>5 DEF ApplyPnl
    <3>2. account.balance \in Int
      BY DEF ExchangeTypeOK, Account
    <3> HIDE DEF net
    <3> QED
      BY <2>2, <3>1, <3>2
  <2>6. BookState' = BookState
    BY <1>5 DEF ApplyPnl, BookState
  <2> QED
    BY <2>1, <2>3, <2>4, <2>5, <2>6 DEF TB!Next, TB!BookResult, TB!Book
<1>6. CASE UpdateLevel
  <2>1. PICK i \in DOMAIN positions, row \in Position :
          /\ positions[i].status = "OPEN" /\ row.status = "OPEN"
          /\ positions' = [positions EXCEPT ![i] = row]
    BY <1>6, UpdateType
  <2>2. /\ DOMAIN positions' = DOMAIN positions /\ positions'[i] = row
        /\ \A j \in DOMAIN positions : j # i => positions'[j] = positions[j]
    BY <2>1, ChangeType
  <2> QED
    BY <1>6, <2>1, <2>2, StateStays DEF UpdateLevel
<1>7. CASE UNCHANGED <<positions, history, account>>
  BY <1>7, StateStays
<1> QED
  BY <1>2, <1>3, <1>4, <1>5, <1>6, <1>7
     DEF ExchangeNext, exchangeVars, CreateOrder, OrderRequest, PlaceMarket, PlaceLimit, PlaceExit,
         FillMarketOrder, CancelOrder, TrackPositions, CheckPositions, Notify, Abort

\* The commits of the exchange implement the book of TradeBook: no trade is reopened, none is
\* booked twice or in the wrong state, and the balance moves only with a booking.
THEOREM ExchangeKeepsBook == ExchangeSpec => KeepsBook
<1>1. ExchangeInit => Sized
  BY BoundsAssumption DEF ExchangeInit, Sized, NoJob, Job
<1>2. ExchangeTypeOK /\ Sized /\ [ExchangeNext]_exchangeVars => Sized'
  BY SizedStep
<1>3. ExchangeInit => TB!Init
  BY DEF ExchangeInit, TB!Init, BookState, BookedEvents
<1>4. ExchangeTypeOK /\ Ledger /\ Sized /\ [ExchangeNext]_exchangeVars => [TB!Next]_TB!vars
  BY BookStep
<1> QED
  BY <1>1, <1>2, <1>3, <1>4, LedgerHolds, PTL DEF ExchangeSpec, KeepsBook, TB!Spec

-----------------------------------------------------------------------------
(* What is left when a handler is done *)

Announced(trade) == \E k \in DOMAIN events : events[k] = trade

\* A result is announced after it was booked, and once.
Announcements ==
  /\ \A k \in DOMAIN events : Booked("trade_closed", events[k])
  /\ \A k, l \in DOMAIN events : events[k] = events[l] => k = l
  /\ job.at = "notify" => Booked("trade_closed", job.trade) /\ ~Announced(job.trade)

\* What a position lacks is what the handler in progress is about to do for it.
Underway ==
  failures = 0 => \A i \in DOMAIN positions :
    /\ Booked("trade_opened", i) \/ (job.at = "charge" /\ job.trade = i)
    /\ positions[i].status = "CLOSED" =>
         /\ Booked("trade_closed", i) \/ (job.at = "settle" /\ job.trade = i)
         /\ Announced(i) \/ (job.at \in {"settle", "notify"} /\ job.trade = i)

\* What was booked stays so, and only a booking adds to it.
LEMMA BookedStays ==
  ASSUME ExchangeTypeOK, NEW event \in {"trade_opened", "trade_closed"}, NEW trade \in Nat,
         NEW delta \in Int, Book(event, trade, delta)
  PROVE  \A e, t : Booked(e, t)' <=> Booked(e, t) \/ (e = event /\ t = trade)
<1> DEFINE row == [event |-> event, trade |-> trade, delta |-> delta,
                   balance |-> account.balance + delta]
<1>1. row \in HistoryRow /\ history \in Seq(HistoryRow)
  BY DEF ExchangeTypeOK, Account, HistoryRow
<1>2. history' = Append(history, row) /\ row.event = event /\ row.trade = trade
  BY DEF Book
<1> HIDE DEF row
<1>3. /\ DOMAIN history' = DOMAIN history \cup {Len(history) + 1}
      /\ \A k \in DOMAIN history : history'[k] = history[k]
      /\ history'[Len(history) + 1] = row
  BY <1>1, <1>2, Appended
<1> QED
  BY <1>2, <1>3 DEF Booked

LEMMA AnnouncementsStep ==
  ASSUME ExchangeTypeOK, Ledger, Announcements, [ExchangeNext]_exchangeVars PROVE Announcements'
<1>1. CASE RecordTradeOpened
  <2>1. -Fee(job.plan.entry) \in Int /\ job.trade \in Nat
    <3>1. Fee(job.plan.entry) \in Nat /\ job.trade \in Nat
      BY PlanType, FeeType DEF ExchangeTypeOK, Jobs
    <3> QED
      BY <3>1
  <2>2. \A e, t : Booked(e, t) => Booked(e, t)'
    BY <1>1, <2>1, BookedStays DEF RecordTradeOpened
  <2>3. job'.at = "idle" /\ UNCHANGED events
    BY <1>1 DEF RecordTradeOpened, NoJob, Job
  <2> QED
    BY <2>2, <2>3 DEF Announcements
<1>2. CASE ApplyPnl
  <2>1. /\ job.trade \in DOMAIN positions /\ job.trade \in Nat /\ job.at = "settle"
        /\ NetPnl(positions[job.trade]) \in Int
    BY <1>2, NetPnlType DEF ApplyPnl, ExchangeTypeOK, Jobs
  <2>2. \A e, t : Booked(e, t)' <=> Booked(e, t) \/ (e = "trade_closed" /\ t = job.trade)
    BY <1>2, <2>1, BookedStays DEF ApplyPnl
  <2>3. job'.trade = job.trade /\ UNCHANGED events
    BY <1>2 DEF ApplyPnl, ExchangeTypeOK, Jobs
  <2>4. ~Announced(job.trade)
    BY <2>1 DEF Announcements, Announced, Ledger, AboutToBook
  <2> QED
    BY <2>2, <2>3, <2>4 DEF Announcements, Announced
<1>3. CASE Notify
  <2>1. \A e, t : Booked(e, t)' <=> Booked(e, t)
    BY <1>3 DEF Notify, Booked
  <2>2. job'.at # "notify"
    BY <1>3, NextPositionType DEF Notify
  <2>3. CASE events' = events
    BY <2>1, <2>2, <2>3 DEF Announcements
  <2>4. CASE events' = Append(events, job.trade)
    <3>1. /\ job.trade \in DOMAIN positions /\ events \in Seq(DOMAIN positions)
          /\ job.at = "notify"
      BY <1>3 DEF Notify, ExchangeTypeOK
    <3>2. /\ DOMAIN events' = DOMAIN events \cup {Len(events) + 1}
          /\ \A k \in DOMAIN events : events'[k] = events[k]
          /\ events'[Len(events) + 1] = job.trade
      BY <2>4, <3>1, Appended
    <3>3. Booked("trade_closed", job.trade) /\ ~Announced(job.trade)
      BY <3>1 DEF Announcements
    <3> QED
      BY <2>1, <2>2, <3>2, <3>3 DEF Announcements, Announced
  <2> QED
    BY <1>3, <2>3, <2>4 DEF Notify
<1>4. CASE UNCHANGED <<history, events>> /\ job'.at # "notify"
  BY <1>4 DEF Announcements, Booked
<1>5. CASE UNCHANGED exchangeVars
  BY <1>5 DEF exchangeVars, Announcements, Announced, Booked
<1>6. CASE CreatePosition \/ UpdateLevel \/ ClosePosition
  <2>1. UNCHANGED <<history, events>>
    BY <1>6 DEF CreatePosition, UpdateLevel, ClosePosition
  <2>2. job'.at # "notify"
    <3>1. CASE CreatePosition
      BY <3>1 DEF CreatePosition, ExchangeTypeOK, Jobs
    <3>2. CASE UpdateLevel
      BY <3>2 DEF UpdateLevel, NoJob, Job
    <3>3. CASE ClosePosition
      BY <3>3 DEF ClosePosition, ExchangeTypeOK, Jobs
    <3> QED
      BY <1>6, <3>1, <3>2, <3>3
  <2> QED
    BY <1>4, <2>1, <2>2
<1>7. CASE OrderRequest \/ FillMarketOrder \/ Abort
           \/ \E sym \in Symbols, candle \in Candles : CheckPositions(sym, candle)
  <2>1. UNCHANGED <<history, events>>
    BY <1>7 DEF OrderRequest, PlaceMarket, PlaceLimit, PlaceExit, FillMarketOrder, Abort,
                CheckPositions
  <2>2. job'.at # "notify"
    <3>1. NoJob.at = "idle" /\ \A at, o, plan, candle, todo :
                                 Job(at, o, plan, 0, candle, todo).at = at
      BY DEF NoJob, Job
    <3>2. CASE OrderRequest
      BY <3>1, <3>2 DEF OrderRequest, PlaceMarket, PlaceLimit, PlaceExit
    <3>3. CASE FillMarketOrder
      BY <3>1, <3>3 DEF FillMarketOrder, ExchangeTypeOK, Jobs
    <3>4. CASE Abort
      BY <3>1, <3>4 DEF Abort
    <3>5. CASE \E sym \in Symbols, candle \in Candles : CheckPositions(sym, candle)
      BY <3>1, <3>5 DEF CheckPositions
    <3> QED
      BY <1>7, <3>2, <3>3, <3>4, <3>5
  <2> QED
    BY <1>4, <2>1, <2>2
<1>8. ASSUME NEW o \in DOMAIN orders, CancelOrder(o)
      PROVE  Announcements'
  BY <1>8 DEF CancelOrder, Announcements, Announced, Booked
<1> QED
  BY <1>1, <1>2, <1>3, <1>5, <1>6, <1>7, <1>8 DEF ExchangeNext, CreateOrder, TrackPositions

\* Before a handler books, nothing is underway: the positions are complete.
LEMMA CompleteStays ==
  ASSUME Underway, failures' = 0 => failures = 0,
         job.at \notin {"charge", "settle", "notify"}, UNCHANGED <<history, events>>,
         DOMAIN positions' = DOMAIN positions,
         \A i \in DOMAIN positions : positions'[i].status = positions[i].status
  PROVE  Underway'
BY DEF Underway, Booked, Announced

LEMMA UnderwayStep == ASSUME ExchangeTypeOK, Ledger, Underway, [ExchangeNext]_exchangeVars PROVE Underway'
<1>1. CASE CreatePosition
  <2>1. PICK new : new = Len(positions) + 1
    OBVIOUS
  <2>2. /\ DOMAIN positions' = DOMAIN positions \cup {new}
        /\ \A j \in DOMAIN positions : positions'[j] = positions[j]
        /\ positions'[new].status = "OPEN"
    BY <1>1, <2>1, CreateType DEF NewPosition
  <2>3. /\ job.at = "open" /\ job'.at = "charge" /\ job'.trade = new
        /\ UNCHANGED <<history, events, failures>>
    BY <1>1, <2>1 DEF CreatePosition, ExchangeTypeOK, Jobs
  <2> QED
    BY <2>2, <2>3 DEF Underway, Booked, Announced
<1>2. CASE RecordTradeOpened
  <2>1. -Fee(job.plan.entry) \in Int /\ job.trade \in Nat
    <3>1. Fee(job.plan.entry) \in Nat /\ job.trade \in Nat
      BY PlanType, FeeType DEF ExchangeTypeOK, Jobs
    <3> QED
      BY <3>1
  <2>2. \A e, t : Booked(e, t)' <=> Booked(e, t) \/ (e = "trade_opened" /\ t = job.trade)
    BY <1>2, <2>1, BookedStays DEF RecordTradeOpened
  <2>3. job.at = "charge" /\ UNCHANGED <<positions, events, failures>>
    BY <1>2 DEF RecordTradeOpened
  <2> QED
    BY <2>2, <2>3 DEF Underway, Announced
<1>3. CASE ClosePosition
  <2>1. PICK i \in job.todo, row \in Position :
          /\ i \in DOMAIN positions /\ row.status = "CLOSED"
          /\ positions' = [positions EXCEPT ![i] = row]
          /\ job' = [job EXCEPT !.at = "settle", !.trade = i, !.todo = @ \ {i}]
    BY <1>3, CloseType
  <2>2. /\ DOMAIN positions' = DOMAIN positions
        /\ \A j \in DOMAIN positions : j # i => positions'[j] = positions[j]
    BY <2>1, ChangeType
  <2>3. /\ job.at = "check" /\ job'.at = "settle" /\ job'.trade = i
        /\ UNCHANGED <<history, events, failures>>
    BY <1>3, <2>1 DEF ClosePosition, ExchangeTypeOK, Jobs
  <2> QED
    BY <2>2, <2>3 DEF Underway, Booked, Announced
<1>4. CASE ApplyPnl
  <2>1. /\ job.trade \in Nat /\ NetPnl(positions[job.trade]) \in Int
    BY <1>4, NetPnlType DEF ApplyPnl, ExchangeTypeOK, Jobs
  <2>2. \A e, t : Booked(e, t)' <=> Booked(e, t) \/ (e = "trade_closed" /\ t = job.trade)
    BY <1>4, <2>1, BookedStays DEF ApplyPnl
  <2>3. /\ job.at = "settle" /\ job'.at = "notify" /\ job'.trade = job.trade
        /\ UNCHANGED <<positions, events, failures>>
    BY <1>4 DEF ApplyPnl, ExchangeTypeOK, Jobs
  <2> QED
    BY <2>2, <2>3 DEF Underway, Announced
<1>5. CASE Notify
  <2>1. job.at = "notify" /\ UNCHANGED <<positions, history>>
    BY <1>5 DEF Notify
  <2>2. CASE events' = Append(events, job.trade) /\ UNCHANGED failures
    <3>1. job.trade \in DOMAIN positions /\ events \in Seq(DOMAIN positions)
      BY <2>1 DEF ExchangeTypeOK
    <3>2. /\ DOMAIN events' = DOMAIN events \cup {Len(events) + 1}
          /\ \A k \in DOMAIN events : events'[k] = events[k]
          /\ events'[Len(events) + 1] = job.trade
      BY <2>2, <3>1, Appended
    <3> QED
      BY <2>1, <2>2, <3>2 DEF Underway, Booked, Announced
  <2>3. CASE Fail
    BY <2>3 DEF Fail, Underway, ExchangeTypeOK
  <2> QED
    BY <1>5, <2>2, <2>3 DEF Notify
<1>6. CASE Abort
  BY <1>6 DEF Abort, Fail, Underway, ExchangeTypeOK
<1>7. CASE UpdateLevel
  <2>1. PICK i \in DOMAIN positions, row \in Position :
          /\ positions[i].status = "OPEN" /\ row.status = "OPEN"
          /\ positions' = [positions EXCEPT ![i] = row]
    BY <1>7, UpdateType
  <2>2. /\ DOMAIN positions' = DOMAIN positions /\ positions'[i] = row
        /\ \A j \in DOMAIN positions : j # i => positions'[j] = positions[j]
    BY <2>1, ChangeType
  <2> QED
    BY <1>7, <2>1, <2>2, CompleteStays DEF UpdateLevel
<1>8. CASE OrderRequest \/ FillMarketOrder
           \/ (\E o \in DOMAIN orders : CancelOrder(o))
           \/ \E sym \in Symbols, candle \in Candles : CheckPositions(sym, candle)
  <2>1. UNCHANGED <<positions, history, events, failures>> /\ job.at \in {"idle", "fill"}
    BY <1>8 DEF OrderRequest, PlaceMarket, PlaceLimit, PlaceExit, FillMarketOrder, CancelOrder,
                CheckPositions, NoJob, Job
  <2> QED
    BY <2>1, CompleteStays
<1>9. CASE UNCHANGED exchangeVars
  BY <1>9 DEF exchangeVars, Underway, Booked, Announced
<1> QED
  BY <1>1, <1>2, <1>3, <1>4, <1>5, <1>6, <1>7, <1>8, <1>9 DEF ExchangeNext, CreateOrder, TrackPositions

\* A set with a member, all of whose members are the same, has one.
LEMMA ExactlyOne ==
  ASSUME NEW S, NEW x \in S, \A y \in S : y = x
  PROVE  Cardinality(S) = 1
<1>1. S = {x}
  OBVIOUS
<1> QED
  BY <1>1, FS_Singleton

\* When nothing has failed, every position has its entry fee booked once a handler is done, and
\* every closed one its result booked and announced, once each.
THEOREM SettledBetweenHandlers == ExchangeSpec => []SettledWhenIdle
<1>1. ExchangeInit => Announcements /\ Underway
  BY DEF ExchangeInit, NoJob, Job, Announcements, Underway
<1>2. ExchangeTypeOK /\ Ledger /\ Announcements /\ Underway /\ [ExchangeNext]_exchangeVars => Announcements' /\ Underway'
  BY AnnouncementsStep, UnderwayStep
<1>3. ExchangeTypeOK /\ Ledger /\ Announcements /\ Underway => SettledWhenIdle
  <2> SUFFICES ASSUME ExchangeTypeOK, Ledger, Announcements, Underway, job = NoJob, failures = 0,
                      NEW i \in DOMAIN positions
               PROVE  /\ Cardinality(Rows("trade_opened", i)) = 1
                      /\ positions[i].status = "CLOSED" =>
                           /\ Cardinality(Rows("trade_closed", i)) = 1
                           /\ Cardinality({k \in DOMAIN events : events[k] = i}) = 1
    BY DEF SettledWhenIdle
  <2>1. /\ Booked("trade_opened", i)
        /\ positions[i].status = "CLOSED" => Booked("trade_closed", i) /\ Announced(i)
    BY DEF Underway, NoJob, Job
  <2>2. ASSUME NEW event, Booked(event, i) PROVE Cardinality(Rows(event, i)) = 1
    <3>1. PICK k \in DOMAIN history : history[k].event = event /\ history[k].trade = i
      BY <2>2 DEF Booked
    <3>2. k \in Rows(event, i) /\ \A l \in Rows(event, i) : l = k
      BY <3>1 DEF Rows, Ledger, BookedOnce
    <3> QED
      BY <3>2, ExactlyOne
  <2>3. ASSUME Announced(i) PROVE Cardinality({k \in DOMAIN events : events[k] = i}) = 1
    <3>1. PICK k \in DOMAIN events : events[k] = i
      BY <2>3 DEF Announced
    <3>2. \A l \in {m \in DOMAIN events : events[m] = i} : l = k
      BY <3>1 DEF Announcements
    <3> QED
      BY <3>1, <3>2, ExactlyOne
  <2> QED
    BY <2>1, <2>2, <2>3
<1> QED
  BY <1>1, <1>2, <1>3, LedgerHolds, PTL DEF ExchangeSpec

=============================================================================
