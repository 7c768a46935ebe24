---------------------------- MODULE CandlePipeline ----------------------------
(***************************************************************************)
(* Closed candles of one symbol and timeframe on their way from the        *)
(* exchange to their readers: OHLCVService (data/ohlcv_service.py) seeds    *)
(* and polls, keeps a ring buffer in Redis and publishes candle_close; the  *)
(* scoring cycle reads the head of the ring and CandleFeed of the mock      *)
(* exchange (price_feed/candle_feed.py) reads it with LINDEX -1.           *)
(*                                                                         *)
(* A candle is its number: candle c closes when closed becomes c, and the  *)
(* exchange always returns one more, the candle still forming.             *)
(***************************************************************************)
EXTENDS Integers, Sequences, FiniteSets, SequencesExt

CONSTANTS
  RING,         \* TF_RING_BUFFER: entries the ring keeps
  SEED,         \* TF_STARTUP_FETCH: candles fetched at start
  FETCH,        \* candles fetched by a poll
  Listed,       \* candles already closed when the history begins
  MaxCandles,   \* bound: candles that close at all
  MaxFaults     \* bound: faults of any kind

VARIABLES
  closed,      \* newest closed candle of the exchange
  at,          \* where the service is: seed, poll, push, trim, publish
  last,        \* _last_ts: newest candle taken up, 0 for none
  batch,       \* candles of this poll still to be taken up, the first in work
  ring,        \* ohlcv:<symbol>:<tf>, newest first
  published,   \* candle_close events so far
  cycles,      \* events the scoring listener has put on the loop, not yet scored
  inbox,       \* events CandleFeed has not handled; <<>> while unsubscribed
  subscribed,  \* CandleFeed listens on candle_close
  checked,     \* candle last handed to the position tracker, 0 for none
  faults       \* history: the faults so far

service == <<at, last, batch>>
readers == <<cycles, inbox, subscribed, checked>>
vars == <<closed, service, ring, published, readers, faults>>

Init ==
  /\ closed = Listed
  /\ at = "seed" /\ last = 0 /\ batch = <<>>
  /\ ring = <<>>
  /\ published = <<>>
  /\ cycles = <<>>
  /\ inbox = <<>> /\ subscribed = TRUE /\ checked = 0
  /\ faults = <<>>

Fault(kind) == Len(faults) < MaxFaults /\ faults' = Append(faults, kind)

-----------------------------------------------------------------------------
(* The exchange *)

\* The service asks several times per candle; falling behind by more candles than
\* a poll fetches takes an outage.
CandleCloses ==
  /\ closed < MaxCandles
  /\ closed' = closed + 1
  /\ IF at = "seed" \/ closed' - last < FETCH THEN UNCHANGED faults ELSE Fault("late")
  /\ UNCHANGED <<service, ring, published, readers>>

\* fetch_ohlcv with this limit, oldest first, without its last candle.
ClosedOf(limit) ==
  LET n == IF closed < limit THEN closed ELSE limit - 1
  IN [k \in 1..n |-> closed - n + k]

-----------------------------------------------------------------------------
(* _seed_history *)

Trimmed(list) == SubSeq(list, 1, IF Len(list) < RING THEN Len(list) ELSE RING)

\* Mutant: the forming candle counts as taken up.
SeedMark_Forming == closed + 1
\* candles[-2], or the only candle there is: the one still forming.
SeedMark ==
  LET candles == ClosedOf(SEED)
  IN IF candles # <<>> THEN candles[Len(candles)] ELSE closed + 1

Seed ==
  /\ at = "seed"
  /\ ring' = Trimmed(Reverse(ClosedOf(SEED)) \o ring)
  /\ last' = SeedMark
  /\ at' = "poll"
  /\ UNCHANGED <<closed, batch, published, readers, faults>>

\* The error is logged and polling begins with nothing taken up.
SeedFails ==
  /\ at = "seed"
  /\ Fault("seed")
  /\ at' = "poll"
  /\ UNCHANGED <<closed, last, batch, ring, published, readers>>

-----------------------------------------------------------------------------
(* _poll.  The candles of a batch are handled without an await between     *)
(* them; an error drops the rest of the batch until the next poll.         *)

\* Mutant: the newest candle taken up is taken up again.
Fresh_Again(c) == c >= last
Fresh(c) == c > last

\* The fetched candles that are not skipped: the newest, since they are in order.
Taken(candles) ==
  LET n == Cardinality({k \in DOMAIN candles : Fresh(candles[k])})
  IN SubSeq(candles, Len(candles) - n + 1, Len(candles))

Poll ==
  /\ at = "poll"
  /\ batch' = Taken(ClosedOf(FETCH))
  /\ at' = IF batch' = <<>> THEN "poll" ELSE "push"
  /\ UNCHANGED <<closed, last, ring, published, readers, faults>>

\* Mutant: the error ends the polling task.
FetchFails_Ends ==
  /\ at = "poll"
  /\ Fault("fetch")
  /\ at' = "ended"
  /\ UNCHANGED <<closed, last, batch, ring, published, readers>>
FetchFails ==
  /\ at = "poll"
  /\ Fault("fetch")
  /\ UNCHANGED <<closed, service, ring, published, readers>>

\* The candle is marked, then pushed.
Push ==
  /\ at = "push"
  /\ last' = Head(batch)
  /\ ring' = <<Head(batch)>> \o ring
  /\ at' = "trim"
  /\ UNCHANGED <<closed, batch, published, readers, faults>>

Trim ==
  /\ at = "trim"
  /\ ring' = Trimmed(ring)
  /\ at' = "publish"
  /\ UNCHANGED <<closed, last, batch, published, readers, faults>>

\* The event reaches who is subscribed now; the listener thread of the scoring
\* service is part of this process and always is.
Publish ==
  /\ at = "publish"
  /\ published' = Append(published, Head(batch))
  /\ cycles' = Append(cycles, Head(batch))
  /\ inbox' = IF subscribed THEN Append(inbox, Head(batch)) ELSE inbox
  /\ batch' = Tail(batch)
  /\ at' = IF Tail(batch) = <<>> THEN "poll" ELSE "push"
  /\ UNCHANGED <<closed, last, ring, subscribed, checked, faults>>

\* Redis fails at the push (the candle is already marked), trim or publish.
StoreFails ==
  /\ at \in {"push", "trim", "publish"}
  /\ Fault("store")
  /\ last' = Head(batch)
  /\ batch' = <<>>
  /\ at' = "poll"
  /\ UNCHANGED <<closed, ring, published, readers>>

\* The process ends and is started again; the ring stays in Redis.
Restart ==
  /\ Fault("restart")
  /\ at' = "seed" /\ last' = 0 /\ batch' = <<>>
  /\ cycles' = <<>>
  /\ UNCHANGED <<closed, ring, published, inbox, subscribed, checked>>

-----------------------------------------------------------------------------
(* Readers *)

\* _run_cycle reads the head of the ring on the same loop, when the polling task
\* awaits.
Score ==
  /\ at \in {"seed", "poll"}
  /\ cycles # <<>>
  /\ cycles' = Tail(cycles)
  /\ UNCHANGED <<closed, service, ring, published, inbox, subscribed, checked, faults>>

HandleCandleClose ==
  /\ inbox # <<>>
  /\ inbox' = Tail(inbox)
  /\ checked' = IF ring = <<>> THEN checked ELSE ring[Len(ring)]
  /\ UNCHANGED <<closed, service, ring, published, cycles, subscribed, faults>>

\* The subscription breaks; what was pending is lost and five seconds pass.
FeedBreaks ==
  /\ subscribed
  /\ Fault("feed")
  /\ subscribed' = FALSE
  /\ inbox' = <<>>
  /\ UNCHANGED <<closed, service, ring, published, cycles, checked>>

Subscribe ==
  /\ ~subscribed
  /\ subscribed' = TRUE
  /\ UNCHANGED <<closed, service, ring, published, cycles, inbox, checked, faults>>

-----------------------------------------------------------------------------

Serve == Seed \/ Poll \/ Push \/ Trim \/ Publish

Next ==
  \/ CandleCloses
  \/ Serve
  \/ SeedFails
  \/ FetchFails
  \/ StoreFails
  \/ Restart
  \/ Score
  \/ HandleCandleClose
  \/ FeedBreaks
  \/ Subscribe

Spec == Init /\ [][Next]_vars

\* The polling task sleeps a bounded time and asks again for ever.
FairSpec == Spec /\ WF_vars(Serve)

-----------------------------------------------------------------------------
(* Properties *)

Entries(list) == {list[k] : k \in DOMAIN list}
Happened == Entries(faults)

\* Unless the seed failed, candles are published in order and none twice, across
\* failed polls, failed writes and restarts (_last_ts).
PublishedOnce ==
  "seed" \notin Happened =>
    \A i, j \in DOMAIN published : i < j => published[i] < published[j]

\* While polls keep up, Redis answers and the process lives, the ring is an unbroken
\* run of candles: failed polls are made up for and the seed joins the polls.
NoGaps ==
  Happened \subseteq {"fetch", "feed"} =>
    \A k \in 1..(Len(ring) - 1) : ring[k] = ring[k + 1] + 1

\* A candle that closes reaches the head of the ring, although polls and the seed fail
\* and the service is restarted; only a failed write loses it.
CandlesArrive ==
  \A c \in 1..MaxCandles :
    closed >= c ~> (ring # <<>> /\ ring[1] >= c) \/ "store" \in Happened

-----------------------------------------------------------------------------
(* What the documents say and the code does not *)

\* "LINDEX ohlcv:{symbol}:{timeframe} -1 -> the newest candle": CandleFeed checks the
\* positions against the newest candle.  The ring is pushed at its head.
FeedReadsNewest ==
  [][checked' # checked => checked' = ring[1]]_vars
=============================================================================
