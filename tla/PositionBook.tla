----------------------------- MODULE PositionBook -----------------------------
(***************************************************************************)
(* Sizing and the registry of open positions: the confirm endpoint sizes a  *)
(* trade with RiskManager (risk/manager.py); the worker registers the       *)
(* filled order (trade/position_monitor.py) in portfolio:open_positions, a  *)
(* Redis hash keyed by asset, and under its order in its memory; and        *)
(* check_position_closed takes it out again.  The limits of                 *)
(* CorrelationManager (engine/correlation_manager.py) are here as what the  *)
(* documents promise: the endpoint builds a RiskManager without one.        *)
(*                                                                         *)
(* Risk is counted in money: size times stop distance, in hundredths.       *)
(***************************************************************************)
EXTENDS Integers, FiniteSets, FiniteSetsExt, Functions

CONSTANTS
  Assets,
  Trades,       \* numbers of trades
  Correlated,   \* sets of two assets whose correlation exceeds the threshold
  EQUITY,       \* account_equity
  RISK,         \* risk_pct = max_risk_pct, percent of equity
  FEES,         \* entry and exit fee, percent
  FIXED,        \* fixed_usd
  HEAT,         \* portfolio_heat_limit_pct
  GROUP,        \* max_correlated_risk_pct
  Stops,        \* stop distances, percent of the entry price
  MaxLost       \* bound: kinds of loss, of writes to Redis that fail and of restarts

\* Money and percentages are not negative.
ASSUME BookAssumption ==
  /\ {EQUITY, RISK, FEES, FIXED, HEAT, GROUP} \cup Stops \subseteq Nat
  /\ Trades \subseteq Nat

VARIABLES
  hash,         \* portfolio:open_positions: asset -> risk
  memory,       \* _open_positions: key -> [asset, risk]
  decided,      \* trades confirmed and not yet filled -> [asset, risk]
  held,         \* positions at the exchange: trade -> [asset, risk]
  looked,       \* keys whose position check_position_closed found gone
  journal,      \* trade_journal: trade -> "open" or "closed"
  shared,       \* history: a trade in flight had its asset in flight, held or in the memory
  lost,         \* history: failed writes and restarts
  confirmedClosed  \* history: check_position_closed has answered True

bookVars == <<hash, memory, decided, held, looked, journal, shared, lost, confirmedClosed>>

\* A position is registered under its order, journalled under an id of its own, and
\* restored under its asset.
OrderId(t) == <<"order", t>>
JournalId(t) == <<"journal", t>>
RestoredId(a) == <<"redis", a>>

With(f, k, v) == [x \in DOMAIN f \cup {k} |-> IF x = k THEN v ELSE f[x]]
Without(f, k) == Restrict(f, DOMAIN f \ {k})
Empty == [k \in {} |-> 0]

BookInit ==
  /\ hash = Empty /\ memory = Empty /\ decided = Empty /\ held = Empty
  /\ looked = {} /\ journal = Empty
  /\ shared = FALSE /\ lost = {} /\ confirmedClosed = {}

-----------------------------------------------------------------------------
(* compute_position_size *)

\* Mutant: a fixed size is not capped.
Size_Uncapped(mode, stop) ==
  CASE mode = "fixed_usd" -> FIXED
    [] mode = "risk_pct"  -> (EQUITY * RISK) \div (stop + FEES)
    [] OTHER              -> (EQUITY * RISK) \div stop
\* The size by mode, capped so that the stop loses no more than the maximum.
Size(mode, stop) ==
  Min({(EQUITY * RISK) \div stop,
       CASE mode = "fixed_usd" -> FIXED
         [] mode = "risk_pct"  -> (EQUITY * RISK) \div (stop + FEES)
         [] OTHER              -> (EQUITY * RISK) \div stop})

Entries == {decided[t] : t \in DOMAIN decided} \cup {held[t] : t \in DOMAIN held}
             \cup {memory[key] : key \in DOMAIN memory}
Fresh == Trades \ (DOMAIN decided \cup DOMAIN held \cup DOMAIN journal)
NextTrade == {t \in Fresh : \A u \in Fresh : t <= u}

\* confirm_signal: a stop at the entry, or no size at all, is refused, and nothing else.
Decide ==
  /\ \E t \in NextTrade, asset \in Assets, mode \in {"fixed_usd", "risk_pct", "kelly"}, stop \in Stops :
       LET risk == Size(mode, stop) * stop
       IN /\ stop > 0 /\ Size(mode, stop) > 0
          /\ decided' = With(decided, t, [asset |-> asset, risk |-> risk])
          /\ shared' = (shared \/ \E entry \in Entries : entry.asset = asset)
  /\ UNCHANGED <<hash, memory, held, looked, journal, lost, confirmedClosed>>

-----------------------------------------------------------------------------
(* register_open_position, check_position_closed, unregister_position *)

Lose(what) == Cardinality(lost) < MaxLost /\ lost' = lost \cup {what}

\* The order fills; the worker journals it and registers it in memory, then in Redis.
Fill(t) ==
  /\ held' = With(held, t, decided[t])
  /\ decided' = Without(decided, t)
  /\ journal' = With(journal, t, "open")
  /\ memory' = With(memory, OrderId(t), decided[t])
  /\ \/ /\ hash' = With(hash, decided[t].asset, decided[t].risk)
        /\ UNCHANGED lost
     \/ /\ Lose("write")
        /\ UNCHANGED hash
  /\ UNCHANGED <<looked, shared, confirmedClosed>>

\* A stop, a target or the user closes the position of an asset at the exchange.
CloseAtExchange(asset) ==
  /\ \E t \in DOMAIN held : held[t].asset = asset
  /\ held' = Restrict(held, {t \in DOMAIN held : held[t].asset # asset})
  /\ UNCHANGED <<hash, memory, decided, looked, journal, shared, lost, confirmedClosed>>

\* Mutant: an answer that still has the position is taken for none.
Look_Anyway(key) ==
  /\ looked' = looked \cup {key}
  /\ UNCHANGED <<hash, memory, decided, held, journal, shared, lost, confirmedClosed>>
\* fetch_positions is awaited; another check may run until the answer is used.
Look(key) ==
  /\ \A t \in DOMAIN held : held[t].asset # memory[key].asset
  /\ looked' = looked \cup {key}
  /\ UNCHANGED <<hash, memory, decided, held, journal, shared, lost, confirmedClosed>>

\* Mutant: the entry stays in Redis.
Unregistered_MemoryOnly(key) ==
  /\ memory' = Without(memory, key)
  /\ UNCHANGED <<hash, lost>>
\* unregister_position: the entry of the asset goes with the trade, if it is still known.
Unregistered(key) ==
  /\ memory' = Without(memory, key)
  /\ IF key \notin DOMAIN memory THEN UNCHANGED <<hash, lost>>
     ELSE \/ hash' = Without(hash, memory[key].asset) /\ UNCHANGED lost
          \/ Lose("write") /\ UNCHANGED hash

\* record_exit finds the journal row by the key, if there is one, then the position goes.
Settle(key) ==
  /\ key \in looked
  /\ looked' = looked \ {key}
  /\ journal' = [t \in DOMAIN journal |-> IF JournalId(t) = key THEN "closed" ELSE journal[t]]
  /\ Unregistered(key)
  /\ confirmedClosed' = confirmedClosed \cup {key}
  /\ UNCHANGED <<decided, held, shared>>

\* The exchange or the journal raises: the position stays registered.
CheckFails(key) ==
  /\ key \in looked
  /\ looked' = looked \ {key}
  /\ UNCHANGED <<hash, memory, decided, held, journal, shared, lost, confirmedClosed>>

\* The worker restarts and, if asked to, restores its memory from Redis.
Restart ==
  /\ Lose("restart")
  /\ looked' = {}
  /\ \/ memory' = Empty /\ UNCHANGED shared
     \/ /\ memory' = [key \in {RestoredId(a) : a \in DOMAIN hash} |->
                         [asset |-> key[2], risk |-> hash[key[2]]]]
        /\ shared' = (shared \/ \E t \in DOMAIN decided : decided[t].asset \in DOMAIN hash)
  /\ UNCHANGED <<hash, decided, held, journal, confirmedClosed>>

BookNext ==
  \/ Decide
  \/ \E t \in DOMAIN decided : Fill(t)
  \/ \E a \in Assets : CloseAtExchange(a)
  \/ \E key \in DOMAIN memory : Look(key)
  \/ \E key \in looked : Settle(key) \/ CheckFails(key)
  \/ Restart

BookSpec == BookInit /\ [][BookNext]_bookVars

-----------------------------------------------------------------------------
(* Properties *)

Risks(trades) == SumFunction([t \in trades |-> held[t].risk])
In(assets) == {t \in DOMAIN held : held[t].asset \in assets}

\* No trade risks more than its share, in every sizing mode; and the registry, which the
\* dashboard shows, never counts less for a set of assets than their positions may lose: in
\* whatever order trades are confirmed, filled, closed, checked and restored, as long as an
\* asset is taken by one trade at a time, by the worker's memory too, and no write is lost.
RiskCounted ==
  /\ \A t \in DOMAIN held : held[t].risk <= RISK * EQUITY
  /\ ~shared /\ "write" \notin lost =>
       \A assets \in SUBSET Assets :
         Risks(In(assets)) <= SumFunctionOnSet(hash, assets \cap DOMAIN hash)

\* An entry of the registry belongs to a trade the worker still watches, so that
\* check_position_closed can take it out, unless a write failed or the worker restarted.
EntriesWatched ==
  lost = {} => \A a \in DOMAIN hash : \E key \in DOMAIN memory : memory[key].asset = a

-----------------------------------------------------------------------------
(* What the documents say and the code does not *)

\* get_portfolio_heat: the risk of everything that is registered.
Heat == SumFunction(hash)
Group(asset) == {a \in DOMAIN hash : {a, asset} \in Correlated}

\* check_new_signal: the whole portfolio, then the assets correlated with this one.
Allowed(asset, risk) ==
  /\ Heat + risk <= HEAT * EQUITY
  /\ risk + SumFunctionOnSet(hash, Group(asset)) <= GROUP * EQUITY

\* "Risk limits enforced: ... Correlated group risk, Portfolio heat" (risk/manager.py): a trade
\* is confirmed only if what is registered leaves room for it.
DecisionsAllowed ==
  [][\A t \in DOMAIN decided' \ DOMAIN decided :
       Allowed(decided'[t].asset, decided'[t].risk)]_bookVars

=============================================================================
