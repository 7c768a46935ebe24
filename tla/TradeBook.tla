------------------------------ MODULE TradeBook ------------------------------
(***************************************************************************)
(* What an account book promises about trades, however it is stored: a     *)
(* trade is opened once and closed once, each of the two is booked at most *)
(* once, nothing is booked for a trade in the wrong state, and the balance *)
(* moves only with a booking.  exchange/ of the mock exchange is shown to  *)
(* implement it.                                                           *)
(***************************************************************************)
EXTENDS Integers

CONSTANTS Trades, InitialBalance

VARIABLES
  state,     \* "absent", "open" or "closed", for each trade
  booked,    \* the events booked for each trade
  balance

vars == <<state, booked, balance>>

Init ==
  /\ state = [t \in Trades |-> "absent"]
  /\ booked = [t \in Trades |-> {}]
  /\ balance = InitialBalance

Open(t) ==
  /\ state[t] = "absent"
  /\ state' = [state EXCEPT ![t] = "open"]
  /\ UNCHANGED <<booked, balance>>

Close(t) ==
  /\ state[t] = "open"
  /\ state' = [state EXCEPT ![t] = "closed"]
  /\ UNCHANGED <<booked, balance>>

Book(t, event) ==
  /\ event \notin booked[t]
  /\ booked' = [booked EXCEPT ![t] = @ \cup {event}]
  /\ balance' \in Int
  /\ UNCHANGED state

BookOpening(t) == state[t] = "open" /\ Book(t, "trade_opened") /\ balance' <= balance
BookResult(t) == state[t] = "closed" /\ Book(t, "trade_closed")

Next == \E t \in Trades : Open(t) \/ Close(t) \/ BookOpening(t) \/ BookResult(t)

Spec == Init /\ [][Next]_vars
=============================================================================
