------------------------------ MODULE SignalStore ------------------------------
(***************************************************************************)
(* The dashboard API's in-memory store of alerts (api/main.py,             *)
(* _active_signals): filled by every /ws/alerts connection from its own    *)
(* subscription to the alerts channel, emptied by skip and expire, read    *)
(* and marked by confirm, lost with the process.  All handlers run on one  *)
(* event loop and interleave where they await.                             *)
(***************************************************************************)
EXTENDS Integers, Sequences

CONSTANTS
  Signals,
  NoSignal,
  Conns,       \* dashboards that may connect to /ws/alerts
  Requests,    \* confirm requests that may be in flight
  MayRestart   \* whether the API process may be restarted

VARIABLES
  active,      \* _active_signals: what is stored under each signal id
  connected,   \* connections subscribed to the alerts channel
  inbox,       \* messages each connection has not handled yet
  request,     \* confirm requests suspended in _get_open_positions
  alerted,     \* signals the scoring pipeline has published
  skipped      \* signals the user has skipped

vars == <<active, connected, inbox, request, alerted, skipped>>

-----------------------------------------------------------------------------

\* held: the request's dictionary is still the one in the store.
Pending(s, kind) == [sig |-> s, kind |-> kind, held |-> TRUE]
NoRequest == [sig |-> NoSignal, kind |-> "absent", held |-> FALSE]

Init ==
  /\ active = [s \in Signals |-> "absent"]
  /\ connected = {}
  /\ inbox = [c \in Conns |-> <<>>]
  /\ request = [r \in Requests |-> NoRequest]
  /\ alerted = {}
  /\ skipped = {}

\* The entry of s is replaced or removed: requests keep the old dictionary.
Store(s, entry) ==
  /\ active' = [active EXCEPT ![s] = entry]
  /\ request' = [r \in Requests |->
       IF request[r].sig = s THEN [request[r] EXCEPT !.held = FALSE] ELSE request[r]]

-----------------------------------------------------------------------------
(* The alerts channel: publish reaches who is subscribed, once each *)

Broadcast(s, kind) ==
  inbox' = [c \in Conns |-> IF c \in connected
                              THEN Append(inbox[c], [sig |-> s, kind |-> kind])
                              ELSE inbox[c]]

PublishAlert(s) ==
  /\ s \notin alerted
  /\ alerted' = alerted \cup {s}
  /\ Broadcast(s, "card")
  /\ UNCHANGED <<active, connected, request, skipped>>

PublishResult(s) ==
  /\ Broadcast(s, "result")
  /\ UNCHANGED <<active, connected, request, alerted, skipped>>

Connect(c) ==
  /\ c \notin connected
  /\ connected' = connected \cup {c}
  /\ UNCHANGED <<active, inbox, request, alerted, skipped>>

Disconnect(c) ==
  /\ c \in connected
  /\ connected' = connected \ {c}
  /\ inbox' = [inbox EXCEPT ![c] = <<>>]
  /\ UNCHANGED <<active, request, alerted, skipped>>

\* alert_stream: whatever carries a signal_id is stored under it, again for every
\* connection that receives it.
Receive(c) ==
  /\ inbox[c] # <<>>
  /\ Store(Head(inbox[c]).sig, Head(inbox[c]).kind)
  /\ inbox' = [inbox EXCEPT ![c] = Tail(@)]
  /\ UNCHANGED <<connected, alerted, skipped>>

-----------------------------------------------------------------------------
(* confirm, skip, expire *)

\* Mutant: the zero checks of compute_position_size are missing.
Sizeable_Any(entry) == entry # "absent"
\* compute_position_size rejects an entry without prices: an execution event has none.
Sizeable(entry) == entry \in {"card", "executing", "failed"}

\* confirm_signal up to its await.  A locked circuit breaker and a rejected size
\* change nothing; a confirmed or executing entry is not refused.
Confirm(r, s) ==
  /\ request[r] = NoRequest
  /\ Sizeable(active[s])
  /\ request' = [request EXCEPT ![r] = Pending(s, active[s])]
  /\ UNCHANGED <<active, connected, inbox, alerted, skipped>>

\* Mutant: the marked dictionary is put back into the store.
Mark_Stores(r, entry) ==
  /\ request[r] # NoRequest
  /\ active' = [active EXCEPT ![request[r].sig] = entry]
  /\ request' = [request EXCEPT ![r] = NoRequest]
  /\ UNCHANGED <<connected, inbox, alerted, skipped>>

\* After the await: the dictionary read before it is marked and dispatched.
Mark(r, entry) ==
  /\ request[r] # NoRequest
  /\ active' = IF request[r].held
                 THEN [active EXCEPT ![request[r].sig] = entry] ELSE active
  /\ request' = [request EXCEPT ![r] = NoRequest]
  /\ UNCHANGED <<connected, inbox, alerted, skipped>>

Executing(r) == Mark(r, "executing")
DispatchFails(r) == Mark(r, "failed")

Skip(s) ==
  /\ active[s] # "absent"
  /\ Store(s, "absent")
  /\ skipped' = skipped \cup {s}
  /\ UNCHANGED <<connected, inbox, alerted>>

Expire(s) ==
  /\ active[s] # "absent"
  /\ Store(s, "absent")
  /\ UNCHANGED <<connected, inbox, alerted, skipped>>

\* The process restarts: nothing in memory survives.
Restart ==
  /\ MayRestart
  /\ active' = [s \in Signals |-> "absent"]
  /\ connected' = {}
  /\ inbox' = [c \in Conns |-> <<>>]
  /\ request' = [r \in Requests |-> NoRequest]
  /\ UNCHANGED <<alerted, skipped>>

-----------------------------------------------------------------------------

Local ==
  \/ \E s \in Signals : PublishAlert(s) \/ Skip(s) \/ Expire(s)
  \/ \E c \in Conns : Connect(c) \/ Disconnect(c) \/ Receive(c)
  \/ \E r \in Requests, s \in Signals : Confirm(r, s)
  \/ \E r \in Requests : DispatchFails(r)
  \/ Restart
=============================================================================
