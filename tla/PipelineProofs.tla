--------------------------- MODULE PipelineProofs ----------------------------
(***************************************************************************)
(* Proofs about the pipelines.  CandlePipeline, for any sizes of the ring, *)
(* of the seed and of a poll, and any number of candles and faults: what is *)
(* inductive bounds what was published by the mark _last_ts, the mark by the *)
(* batch in hand, and joins the head of the ring to the mark.  AuditTrail, *)
(* for any market, number of snapshots, trades, faults and any horizon: what *)
(* is inductive orders the checks of a record by the clock - time does not *)
(* pass T16 while T4 is waiting, nothing is complete before T16 - and leaves *)
(* the backfill its records to itself.                                     *)
(***************************************************************************)
EXTENDS CandlePipeline, AuditTrail, FiniteSetTheorems, SequenceTheorems, TLAPS

Sizes == FETCH \in Nat \ {0} /\ SEED \in Nat \ {0} /\ RING \in Nat /\ Listed \in Nat

FaultKinds == {"late", "seed", "fetch", "store", "restart", "feed"}

TypeOK ==
  /\ closed \in Nat /\ last \in Nat
  /\ at \in {"seed", "poll", "push", "trim", "publish"}
  /\ batch \in Seq(Nat) /\ ring \in Seq(Nat) /\ published \in Seq(Nat)
  /\ faults \in Seq(FaultKinds)

\* The batch is a run of closed candles that begins after the mark, or at it once the
\* candle in hand is marked.
InBatch ==
  /\ at \in {"seed", "poll"} => Len(batch) = 0
  /\ at \in {"push", "trim", "publish"} => Len(batch) > 0
  /\ at = "push" => batch[1] > last
  /\ at \in {"trim", "publish"} => batch[1] = last
  /\ \A k \in 1..(Len(batch) - 1) : batch[k + 1] = batch[k] + 1
  /\ \A k \in 1..Len(batch) : batch[k] <= closed

\* Nothing is published that is newer than the mark.
BelowMark ==
  /\ \A k \in 1..Len(published) : published[k] <= closed
  /\ "seed" \notin Happened =>
       /\ at # "seed" => \A k \in 1..Len(published) : published[k] <= last
       /\ at \in {"trim", "publish"} => \A k \in 1..Len(published) : published[k] < last

Steady == Happened \subseteq {"fetch", "feed"}

\* The polls keep up, and the next candle joins the head of the ring.
Joined ==
  Steady =>
    /\ at = "seed" => Len(ring) = 0
    /\ at # "seed" => closed - last < FETCH /\ (Len(ring) > 0 => ring[1] = last)
    /\ at = "push" => batch[1] = last + 1

IInv == TypeOK /\ InBatch /\ BelowMark /\ Joined /\ PublishedOnce /\ NoGaps

-----------------------------------------------------------------------------
(* Operators *)

LEMMA Difference ==
  ASSUME NEW a \in Int, NEW b \in Int, NEW c \in Int, a <= b, c >= 1
  PROVE  a - b < c
OBVIOUS

LEMMA FaultHappened ==
  ASSUME TypeOK, NEW kind \in FaultKinds, faults' = Append(faults, kind)
  PROVE  faults' \in Seq(FaultKinds) /\ Happened' = Happened \cup {kind}
<1>1. faults' = Append(faults, kind) /\ faults \in Seq(FaultKinds)
  BY DEF TypeOK
<1>2. /\ faults' \in Seq(FaultKinds) /\ Len(faults') = Len(faults) + 1
      /\ faults'[Len(faults) + 1] = kind
      /\ \A k \in 1..Len(faults) : faults'[k] = faults[k]
  BY <1>1, AppendProperties
<1>3. DOMAIN faults = 1..Len(faults) /\ DOMAIN faults' = 1..(Len(faults) + 1) /\ Len(faults) \in Nat
  BY <1>1, <1>2
<1>4. Entries(faults') = {faults'[k] : k \in 1..(Len(faults) + 1)} /\ Entries(faults) = {faults[k] : k \in 1..Len(faults)}
  BY <1>3 DEF Entries
<1>5. {faults'[k] : k \in 1..(Len(faults) + 1)} = {faults[k] : k \in 1..Len(faults)} \cup {kind}
  <2>1. 1..(Len(faults) + 1) = 1..Len(faults) \cup {Len(faults) + 1}
    BY <1>3
  <2>2. QED
    BY <1>2, <2>1
<1>6. QED
  BY <1>2, <1>4, <1>5 DEF Happened

LEMMA ClosedOfFacts ==
  ASSUME closed \in Nat, NEW limit \in Nat \ {0}
  PROVE  \E n \in 0..closed :
           /\ n = (IF closed < limit THEN closed ELSE limit - 1)
           /\ ClosedOf(limit) \in Seq(Nat) /\ Len(ClosedOf(limit)) = n
           /\ \A k \in 1..n : ClosedOf(limit)[k] = closed - n + k
<1> DEFINE n == IF closed < limit THEN closed ELSE limit - 1
           c == [k \in 1..n |-> closed - n + k]
<1>1. n \in 0..closed
  OBVIOUS
<1>2. ClosedOf(limit) = c
  BY DEF ClosedOf
<1>3. \A k \in 1..n : c[k] \in Nat /\ c[k] = closed - n + k
  BY <1>1
<1>4. c \in Seq(Nat) /\ Len(c) = n
  <2> HIDE DEF n
  <2>1. n \in Nat
    BY <1>1
  <2>2. c \in [1..n -> Nat]
    BY <1>3
  <2>3. QED
    BY <2>1, <2>2
<1> HIDE DEF n, c
<1>5. QED
  BY <1>1, <1>2, <1>3, <1>4 DEF n

\* What a poll takes up: the run of closed candles after the mark, all of them if the
\* polls keep up.
LEMMA TakenFacts ==
  ASSUME Sizes, closed \in Nat, last \in Nat
  PROVE  \E m \in 0..closed :
           /\ Taken(ClosedOf(FETCH)) \in Seq(Nat) /\ Len(Taken(ClosedOf(FETCH))) = m
           /\ \A k \in 1..m : Taken(ClosedOf(FETCH))[k] = closed - m + k
           /\ m > 0 => closed - m >= last
           /\ m > 0 /\ closed - last < FETCH => closed - m = last
<1> DEFINE c == ClosedOf(FETCH)
           news == {k \in DOMAIN c : Fresh(c[k])}
           m == Cardinality(news)
<1>1. PICK n \in 0..closed :
        /\ n = (IF closed < FETCH THEN closed ELSE FETCH - 1)
        /\ c \in Seq(Nat) /\ Len(c) = n /\ \A k \in 1..n : c[k] = closed - n + k
  BY ClosedOfFacts DEF Sizes
<1> DEFINE a == IF last + n - closed + 1 > 1 THEN last + n - closed + 1 ELSE 1
<1> HIDE DEF c
<1>2. a \in Int /\ a >= 1 /\ a >= last + n - closed + 1 /\ (a = 1 \/ a = last + n - closed + 1)
  BY <1>1
<1>3. news = a..n
  <2>1. DOMAIN c = 1..n
    BY <1>1
  <2>2. \A k \in 1..n : Fresh(c[k]) <=> k >= last + n - closed + 1
    <3>1. TAKE k \in 1..n
    <3>2. c[k] = closed - n + k /\ k \in Int /\ n \in Int
      BY <1>1
    <3>3. closed - n + k > last <=> k >= last + n - closed + 1
      BY <3>2
    <3>4. QED
      BY <3>2, <3>3 DEF Fresh
  <2>3. QED
    BY <2>1, <2>2, <1>1
<1>4. m = IF a > n THEN 0 ELSE n - a + 1
  <2> HIDE DEF news, a
  <2>1. Cardinality(a..n) = IF a > n THEN 0 ELSE n - a + 1
    <3>1. a \in Int /\ n \in Int
      BY <1>1, <1>2
    <3>2. QED
      BY <3>1, FS_Interval, Zenon
  <2>2. QED
    BY <1>3, <2>1
<1> HIDE DEF news, m, a
<1>5. m \in 0..n
  <2>1. n \in Nat /\ a \in Int /\ a >= 1
    BY <1>1, <1>2
  <2>2. QED
    BY <1>4, <2>1
<1> DEFINE p == n - m + 1
<1>6. p \in Int /\ Taken(c) = SubSeq(c, p, n)
  BY <1>1, <1>5 DEF Taken, m, news
<1>7. \A k \in p..n : c[k] \in Nat
  BY <1>1, <1>5
<1> HIDE DEF p
<1>8. /\ SubSeq(c, p, n) \in Seq(Nat)
      /\ Len(SubSeq(c, p, n)) = (IF p <= n THEN n - p + 1 ELSE 0)
      /\ \A k \in 1..(n - p + 1) : SubSeq(c, p, n)[k] = c[p + k - 1]
  BY <1>1, <1>6, <1>7, SubSeqProperties
<1>9. /\ Taken(c) \in Seq(Nat) /\ Len(Taken(c)) = m
      /\ \A k \in 1..m : Taken(c)[k] = closed - m + k
  <2>1. n - p + 1 = m /\ (p <= n <=> m > 0)
    BY <1>1, <1>5 DEF p
  <2>2. \A k \in 1..m : c[p + k - 1] = closed - m + k
    <3>1. TAKE k \in 1..m
    <3>2. p + k - 1 \in 1..n /\ closed - n + (p + k - 1) = closed - m + k
      <4>1. n \in Int /\ m \in Int /\ k \in Int /\ 1 <= k /\ k <= m /\ m <= n /\ closed \in Int
        BY <1>1, <1>5
      <4>2. QED
        BY <4>1 DEF p
    <3>3. QED
      BY <1>1, <3>2
  <2>3. Len(SubSeq(c, p, n)) = m
    BY <1>1, <1>5, <1>6, <1>8, <2>1
  <2>4. QED
    BY <1>6, <1>8, <2>1, <2>2, <2>3
<1>10. /\ m > 0 => closed - m >= last
       /\ m > 0 /\ closed - last < FETCH => closed - m = last
  BY <1>1, <1>2, <1>4 DEF Sizes
<1>11. QED
  BY <1>1, <1>5, <1>9, <1>10 DEF c

LEMMA TrimmedFacts ==
  ASSUME RING \in Nat, NEW list \in Seq(Nat)
  PROVE  /\ Trimmed(list) \in Seq(Nat) /\ Len(Trimmed(list)) <= Len(list)
         /\ \A k \in 1..Len(Trimmed(list)) : Trimmed(list)[k] = list[k]
<1> DEFINE n == IF Len(list) < RING THEN Len(list) ELSE RING
<1>1. n \in 0..Len(list) /\ \A k \in 1..n : list[k] \in Nat
  OBVIOUS
<1>2. Trimmed(list) = SubSeq(list, 1, n)
  BY DEF Trimmed
<1> HIDE DEF n
<1>3. /\ SubSeq(list, 1, n) \in Seq(Nat)
      /\ Len(SubSeq(list, 1, n)) = (IF 1 <= n THEN n - 1 + 1 ELSE 0)
      /\ \A k \in 1..(n - 1 + 1) : SubSeq(list, 1, n)[k] = list[1 + k - 1]
  BY <1>1, SubSeqProperties
<1>4. QED
  BY <1>1, <1>2, <1>3

\* The properties with the domains of sequences written out.
LEMMA Forms ==
  ASSUME published \in Seq(Nat), ring \in Seq(Nat)
  PROVE  /\ Len(published) \in Nat /\ Len(ring) \in Nat
         /\ PublishedOnce <=>
              ("seed" \notin Happened =>
                 \A i, j \in 1..Len(published) : i < j => published[i] < published[j])
         /\ NoGaps <=> (Steady => \A k \in 1..(Len(ring) - 1) : ring[k] = ring[k + 1] + 1)
<1>1. DOMAIN published = 1..Len(published) /\ Len(published) \in Nat /\ Len(ring) \in Nat
  OBVIOUS
<1>2. QED
  BY <1>1 DEF PublishedOnce, NoGaps, Steady

-----------------------------------------------------------------------------
(* The steps *)

LEMMA InitIInv == Sizes /\ Init => IInv
<1>1. SUFFICES ASSUME Sizes, Init PROVE IInv
  OBVIOUS
<1>2. Len(ring) = 0 /\ Len(batch) = 0 /\ Len(published) = 0 /\ at = "seed"
  BY <1>1 DEF Init
<1>3. TypeOK
  BY <1>1 DEF Init, TypeOK, Sizes
<1>4. InBatch /\ BelowMark /\ Joined
  BY <1>2, <1>3 DEF InBatch, BelowMark, Joined
<1>5. PublishedOnce /\ NoGaps
  BY <1>2, <1>3, Forms DEF TypeOK
<1>6. QED
  BY <1>3, <1>4, <1>5 DEF IInv

\* What only Redis' readers see leaves everything in place.
LEMMA ReadersKeep ==
  ASSUME IInv, UNCHANGED <<closed, service, ring, published>>,
         faults' = faults \/ Fault("feed")
  PROVE  IInv'
<1>1. UNCHANGED <<closed, last, at, batch, ring, published>>
  BY DEF service
<1>2. faults' \in Seq(FaultKinds) /\ Happened' \in {Happened, Happened \cup {"feed"}}
  <2>1. TypeOK
    BY DEF IInv
  <2>2. CASE faults' = faults
    BY <2>1, <2>2 DEF TypeOK, Happened
  <2>3. CASE Fault("feed")
    BY <2>1, <2>3, FaultHappened DEF Fault, FaultKinds
  <2>4. QED
    BY <2>2, <2>3
<1>3. TypeOK'
  BY <1>1, <1>2 DEF IInv, TypeOK
<1>4. ("seed" \notin Happened' <=> "seed" \notin Happened) /\ (Steady' <=> Steady)
  BY <1>2 DEF Steady
<1>5. InBatch' /\ BelowMark' /\ Joined'
  BY <1>1, <1>4 DEF IInv, InBatch, BelowMark, Joined
<1>6. PublishedOnce' /\ NoGaps'
  BY <1>1, <1>4 DEF IInv, PublishedOnce, NoGaps, Steady
<1>7. QED
  BY <1>3, <1>5, <1>6 DEF IInv

LEMMA CandleClosesKeeps == ASSUME IInv, CandleCloses PROVE IInv'
<1>1. UNCHANGED <<last, at, batch, ring, published>> /\ closed' = closed + 1
  BY DEF CandleCloses, service
<1>2. /\ faults' \in Seq(FaultKinds)
      /\ \/ Happened' = Happened /\ (at = "seed" \/ closed' - last < FETCH)
         \/ Happened' = Happened \cup {"late"}
  <2>1. CASE at = "seed" \/ closed' - last < FETCH
    BY <2>1 DEF CandleCloses, IInv, TypeOK, Happened
  <2>2. CASE ~(at = "seed" \/ closed' - last < FETCH)
    <3>1. faults' = Append(faults, "late")
      BY <2>2 DEF CandleCloses, Fault
    <3>2. TypeOK
      BY DEF IInv
    <3>3. QED
      BY <3>1, <3>2, FaultHappened DEF FaultKinds
  <2>3. QED
    BY <2>1, <2>2
<1>3. TypeOK'
  BY <1>1, <1>2 DEF IInv, TypeOK
<1>4. ("seed" \notin Happened' <=> "seed" \notin Happened) /\ (Steady' => Steady /\ Happened' = Happened)
  BY <1>2 DEF Steady
<1>5. InBatch'
  BY <1>1 DEF IInv, InBatch, TypeOK
<1>6. BelowMark'
  BY <1>1, <1>4 DEF IInv, BelowMark, TypeOK
<1>7. Joined'
  <2>1. Steady' => at = "seed" \/ closed' - last < FETCH
    BY <1>2, <1>4 DEF Steady
  <2>2. QED
    BY <1>1, <1>4, <2>1 DEF IInv, Joined
<1>8. PublishedOnce' /\ NoGaps'
  BY <1>1, <1>4 DEF IInv, PublishedOnce, NoGaps, Steady
<1>9. QED
  BY <1>3, <1>5, <1>6, <1>7, <1>8 DEF IInv

\* A step that leaves the ring, the events and the faults: what was published stays in order.
LEMMA Kept ==
  ASSUME IInv, UNCHANGED <<ring, published, faults>>
  PROVE  PublishedOnce' /\ NoGaps' /\ Happened' = Happened /\ (Steady' <=> Steady)
BY DEF IInv, PublishedOnce, NoGaps, Happened, Steady

LEMMA PollKeeps == ASSUME Sizes, IInv, Poll PROVE IInv'
<1>1. closed \in Nat /\ last \in Nat /\ at = "poll"
  BY DEF IInv, TypeOK, Poll
<1>2. PICK m \in 0..closed :
        /\ batch' \in Seq(Nat) /\ Len(batch') = m
        /\ \A k \in 1..m : batch'[k] = closed - m + k
        /\ m > 0 => closed - m >= last
        /\ m > 0 /\ closed - last < FETCH => closed - m = last
  BY <1>1, TakenFacts DEF Poll
<1>3. UNCHANGED <<closed, last, ring, published, faults>>
  BY DEF Poll
<1>4. (at' = "poll" /\ m = 0) \/ (at' = "push" /\ m > 0)
  <2>1. batch' = <<>> <=> m = 0
    BY <1>2
  <2>2. QED
    BY <1>2, <2>1 DEF Poll
<1>5. TypeOK'
  BY <1>2, <1>3, <1>4 DEF IInv, TypeOK
<1>6. InBatch'
  <2>1. \A k \in 1..m : batch'[k] <= closed
    BY <1>1, <1>2
  <2>2. \A k \in 1..(m - 1) : batch'[k + 1] = batch'[k] + 1
    BY <1>1, <1>2
  <2>3. m > 0 => batch'[1] > last
    BY <1>1, <1>2
  <2>4. QED
    BY <1>2, <1>3, <1>4, <2>1, <2>2, <2>3 DEF InBatch
<1>7. BelowMark'
  BY <1>1, <1>3, <1>4, Kept DEF IInv, BelowMark
<1>8. Joined'
  <2>1. m > 0 /\ closed - last < FETCH => batch'[1] = last + 1
    BY <1>1, <1>2
  <2>2. QED
    BY <1>1, <1>3, <1>4, <2>1, Kept DEF IInv, Joined
<1>9. QED
  BY <1>3, <1>5, <1>6, <1>7, <1>8, Kept DEF IInv

LEMMA PushKeeps == ASSUME Sizes, IInv, Push PROVE IInv'
<1>1. /\ closed \in Nat /\ last \in Nat /\ at = "push" /\ batch \in Seq(Nat) /\ Len(batch) \in Nat
      /\ ring \in Seq(Nat) /\ Len(ring) \in Nat /\ Len(batch) > 0
  BY DEF IInv, TypeOK, InBatch, Push
<1>2. batch[1] \in Nat /\ batch[1] > last /\ batch[1] <= closed
  BY <1>1 DEF IInv, InBatch
<1>3. /\ last' = batch[1] /\ at' = "trim" /\ ring' = <<batch[1]>> \o ring
      /\ UNCHANGED <<closed, batch, published, faults>>
  BY <1>1 DEF Push
<1>4. /\ ring' \in Seq(Nat) /\ Len(ring') = Len(ring) + 1 /\ ring'[1] = batch[1]
      /\ \A k \in 1..Len(ring) : ring'[k + 1] = ring[k]
  BY <1>1, <1>2, <1>3
<1>5. TypeOK'
  BY <1>2, <1>3, <1>4 DEF IInv, TypeOK
<1>6. InBatch'
  BY <1>1, <1>3 DEF IInv, InBatch
<1>7. Happened' = Happened /\ (Steady' <=> Steady)
  BY <1>3 DEF Happened, Steady
<1>8. BelowMark'
  <2>1. "seed" \notin Happened => \A k \in 1..Len(published) : published[k] < batch[1]
    <3>1. published \in Seq(Nat) /\ \A k \in 1..Len(published) : published[k] \in Nat
      BY DEF IInv, TypeOK
    <3>2. QED
      BY <1>1, <1>2, <3>1 DEF IInv, BelowMark
  <2>2. published \in Seq(Nat) /\ \A k \in 1..Len(published) : published[k] \in Nat
    BY DEF IInv, TypeOK
  <2>3. QED
    BY <1>2, <1>3, <1>7, <2>1, <2>2 DEF IInv, BelowMark
<1>9. Joined'
  BY <1>1, <1>2, <1>3, <1>4, <1>7 DEF IInv, Joined, Sizes
<1>10. PublishedOnce'
  BY <1>3, <1>7 DEF IInv, PublishedOnce
<1>11. NoGaps'
  <2>1. SUFFICES ASSUME Steady, NEW k \in 1..(Len(ring') - 1) PROVE ring'[k] = ring'[k + 1] + 1
    BY <1>7 DEF NoGaps, Steady
  <2>2. CASE k = 1
    <3>1. Len(ring) > 0 /\ ring[1] = last /\ batch[1] = last + 1
      BY <1>1, <1>4, <2>1, <2>2 DEF IInv, Joined
    <3>2. QED
      BY <1>1, <1>4, <2>2, <3>1
  <2>3. CASE k # 1
    <3>1. k - 1 \in 1..(Len(ring) - 1) /\ k - 1 \in 1..Len(ring) /\ k \in 1..Len(ring)
      <4>1. k \in Int /\ Len(ring) \in Int /\ Len(ring') = Len(ring) + 1
        BY <1>1, <1>4
      <4>2. 1 < k /\ k <= Len(ring)
        BY <2>1, <2>3, <4>1
      <4>3. QED
        BY <4>1, <4>2
    <3>2. ring[k - 1] = ring[(k - 1) + 1] + 1
      BY <2>1, <3>1 DEF IInv, NoGaps, Steady
    <3>3. ring'[(k - 1) + 1] = ring[k - 1] /\ ring'[k + 1] = ring[k]
      BY <1>4, <3>1
    <3>4. QED
      BY <3>1, <3>2, <3>3
  <2>4. QED
    BY <2>2, <2>3
<1>12. QED
  BY <1>5, <1>6, <1>8, <1>9, <1>10, <1>11 DEF IInv

LEMMA TrimKeeps == ASSUME Sizes, IInv, Trim PROVE IInv'
<1>1. ring \in Seq(Nat) /\ Len(ring) \in Nat /\ at = "trim"
  BY DEF IInv, TypeOK, Trim
<1>2. /\ ring' \in Seq(Nat) /\ Len(ring') \in Nat /\ Len(ring') <= Len(ring)
      /\ \A k \in 1..Len(ring') : ring'[k] = ring[k]
  BY <1>1, TrimmedFacts DEF Trim, Sizes
<1>3. at' = "publish" /\ UNCHANGED <<closed, last, batch, published, faults>>
  BY DEF Trim
<1>4. Happened' = Happened /\ (Steady' <=> Steady)
  BY <1>3 DEF Happened, Steady
<1>5. TypeOK'
  BY <1>2, <1>3 DEF IInv, TypeOK
<1>6. InBatch' /\ BelowMark'
  BY <1>1, <1>3, <1>4 DEF IInv, InBatch, BelowMark
<1>7. Joined'
  <2>1. Len(ring') > 0 => Len(ring) > 0 /\ ring'[1] = ring[1]
    BY <1>1, <1>2
  <2>2. QED
    BY <1>1, <1>3, <1>4, <2>1 DEF IInv, Joined
<1>8. PublishedOnce'
  BY <1>3, <1>4 DEF IInv, PublishedOnce
<1>9. NoGaps'
  <2>1. SUFFICES ASSUME Steady, NEW k \in 1..(Len(ring') - 1) PROVE ring'[k] = ring'[k + 1] + 1
    BY <1>4 DEF NoGaps, Steady
  <2>2. k \in 1..(Len(ring) - 1) /\ k \in 1..Len(ring') /\ k + 1 \in 1..Len(ring')
    <3>1. Len(ring) \in Int /\ Len(ring') \in Int /\ Len(ring') <= Len(ring) /\ k \in Int
      BY <1>1, <1>2
    <3>2. 1 <= k /\ k <= Len(ring') - 1
      BY <2>1, <3>1
    <3>3. QED
      BY <3>1, <3>2
  <2>3. ring[k] = ring[k + 1] + 1
    BY <2>1, <2>2 DEF IInv, NoGaps, Steady
  <2>4. QED
    BY <1>2, <2>2, <2>3
<1>10. QED
  BY <1>5, <1>6, <1>7, <1>8, <1>9 DEF IInv

\* The candle in hand is newer than everything published before it.
LEMMA PublishKeeps == ASSUME Sizes, IInv, Publish PROVE IInv'
<1>1. /\ closed \in Nat /\ last \in Nat /\ at = "publish"
      /\ batch \in Seq(Nat) /\ Len(batch) \in Nat /\ Len(batch) > 0
      /\ published \in Seq(Nat) /\ Len(published) \in Nat
  BY DEF IInv, TypeOK, InBatch, Publish
<1>2. batch[1] \in Nat /\ batch[1] = last /\ batch[1] <= closed
  BY <1>1 DEF IInv, InBatch
<1>3. published' = Append(published, batch[1]) /\ UNCHANGED <<closed, last, ring, faults>>
  BY <1>1 DEF Publish
<1>4. /\ published' \in Seq(Nat) /\ Len(published') = Len(published) + 1
      /\ published'[Len(published) + 1] = last
      /\ \A k \in 1..Len(published) : published'[k] = published[k] /\ published[k] \in Nat
  BY <1>1, <1>2, <1>3, AppendProperties
<1>5. /\ batch' \in Seq(Nat) /\ Len(batch') = Len(batch) - 1
      /\ \A k \in 1..Len(batch') : batch'[k] = batch[k + 1]
  <2>1. batch # <<>> /\ batch' = Tail(batch)
    BY <1>1 DEF Publish
  <2>2. QED
    BY <1>1, <2>1, HeadTailProperties
<1>6. (at' = "poll" /\ Len(batch') = 0) \/ (at' = "push" /\ Len(batch') > 0)
  BY <1>1, <1>5 DEF Publish
<1>7. Happened' = Happened /\ (Steady' <=> Steady)
  BY <1>3 DEF Happened, Steady
<1>8. TypeOK'
  BY <1>3, <1>4, <1>5, <1>6 DEF IInv, TypeOK
<1>9. InBatch'
  <2>1. \A k \in 1..Len(batch') : k \in 1..(Len(batch) - 1) /\ k + 1 \in 1..Len(batch)
    BY <1>1, <1>5
  <2>2. \A k \in 1..Len(batch') : batch'[k] <= closed
    BY <1>5, <2>1 DEF IInv, InBatch
  <2>3. \A k \in 1..(Len(batch') - 1) : batch'[k + 1] = batch'[k] + 1
    <3>1. TAKE k \in 1..(Len(batch') - 1)
    <3>2. k \in 1..Len(batch') /\ k + 1 \in 1..Len(batch') /\ k + 1 \in 1..(Len(batch) - 1)
      BY <1>1, <1>5
    <3>3. batch[(k + 1) + 1] = batch[k + 1] + 1
      BY <3>2 DEF IInv, InBatch
    <3>4. QED
      BY <1>5, <3>2, <3>3
  <2>4. Len(batch') > 0 => batch'[1] = last + 1
    <3>1. Len(batch') > 0 => 1 \in 1..Len(batch') /\ 1 \in 1..(Len(batch) - 1)
      BY <1>1, <1>5
    <3>2. QED
      BY <1>2, <1>5, <3>1 DEF IInv, InBatch
  <2>5. QED
    BY <1>1, <1>3, <1>6, <2>2, <2>3, <2>4 DEF InBatch
<1>10. BelowMark'
  <2>1. \A k \in 1..Len(published') : k \in 1..Len(published) \/ k = Len(published) + 1
    BY <1>1, <1>4
  <2>2. \A k \in 1..Len(published') : published'[k] <= closed
    BY <1>2, <1>4, <2>1 DEF IInv, BelowMark
  <2>3. "seed" \notin Happened => \A k \in 1..Len(published') : published'[k] <= last
    <3>1. "seed" \notin Happened => \A k \in 1..Len(published) : published[k] < last
      BY <1>1 DEF IInv, BelowMark
    <3>2. SUFFICES ASSUME "seed" \notin Happened, NEW k \in 1..Len(published') PROVE published'[k] <= last
      OBVIOUS
    <3>3. CASE k = Len(published) + 1
      BY <1>1, <1>4, <3>3
    <3>4. CASE k \in 1..Len(published)
      <4>1. published'[k] = published[k] /\ published[k] \in Int /\ last \in Int
        BY <1>1, <1>4, <3>4
      <4>2. published[k] < last
        BY <3>1, <3>2, <3>4
      <4>3. QED
        BY <4>1, <4>2
    <3>5. QED
      BY <2>1, <3>3, <3>4
  <2>4. QED
    BY <1>3, <1>6, <1>7, <2>2, <2>3 DEF BelowMark
<1>11. Joined'
  <2>1. Len(batch') > 0 => batch'[1] = last + 1
    <3>1. Len(batch') > 0 => 1 \in 1..Len(batch') /\ 1 \in 1..(Len(batch) - 1)
      BY <1>1, <1>5
    <3>2. QED
      BY <1>2, <1>5, <3>1 DEF IInv, InBatch
  <2>2. QED
    BY <1>1, <1>3, <1>6, <1>7, <2>1 DEF IInv, Joined
<1>12. PublishedOnce'
  <2>1. SUFFICES ASSUME "seed" \notin Happened, NEW i \in 1..Len(published'), NEW j \in 1..Len(published'), i < j
                 PROVE  published'[i] < published'[j]
    <3>1. DOMAIN published' = 1..Len(published')
      BY <1>4
    <3>2. QED
      BY <1>7, <3>1 DEF PublishedOnce
  <2>2. i \in 1..Len(published)
    BY <1>1, <1>4, <2>1
  <2>3. CASE j = Len(published) + 1
    BY <1>1, <1>4, <2>1, <2>2, <2>3 DEF IInv, BelowMark
  <2>4. CASE j # Len(published) + 1
    <3>1. j \in 1..Len(published)
      <4>1. j \in 1..(Len(published) + 1) /\ Len(published) \in Nat
        BY <1>1, <1>4, <2>1
      <4>2. QED
        BY <2>4, <4>1
    <3>2. published[i] < published[j]
      BY <1>1, <2>1, <2>2, <3>1 DEF IInv, PublishedOnce
    <3>3. QED
      BY <1>4, <2>2, <3>1, <3>2
  <2>5. QED
    BY <2>3, <2>4
<1>13. NoGaps'
  BY <1>3, <1>7 DEF IInv, NoGaps, Steady
<1>14. QED
  BY <1>8, <1>9, <1>10, <1>11, <1>12, <1>13 DEF IInv

\* The mark moves on to the candle in hand, which is not published.
LEMMA StoreFailsKeeps == ASSUME Sizes, IInv, StoreFails PROVE IInv'
<1>1. /\ closed \in Nat /\ last \in Nat /\ at \in {"push", "trim", "publish"}
      /\ batch \in Seq(Nat) /\ Len(batch) \in Nat /\ Len(batch) > 0
      /\ published \in Seq(Nat) /\ \A k \in 1..Len(published) : published[k] \in Nat
  BY DEF IInv, TypeOK, InBatch, StoreFails
<1>2. batch[1] \in Nat /\ batch[1] >= last /\ batch[1] <= closed
  BY <1>1 DEF IInv, InBatch
<1>3. /\ last' = batch[1] /\ batch' = <<>> /\ at' = "poll"
      /\ UNCHANGED <<closed, ring, published>>
  BY <1>1 DEF StoreFails
<1>4. faults' \in Seq(FaultKinds) /\ Happened' = Happened \cup {"store"}
  <2>1. faults' = Append(faults, "store")
    BY DEF StoreFails, Fault
  <2>2. TypeOK
    BY DEF IInv
  <2>3. QED
    BY <2>1, <2>2, FaultHappened DEF FaultKinds
<1>5. ("seed" \notin Happened' <=> "seed" \notin Happened) /\ ~Steady'
  BY <1>4 DEF Steady
<1>6. TypeOK' /\ InBatch' /\ Joined'
  BY <1>2, <1>3, <1>4, <1>5 DEF IInv, TypeOK, InBatch, Joined
<1>7. BelowMark'
  <2>1. "seed" \notin Happened => \A k \in 1..Len(published) : published[k] <= last
    BY <1>1 DEF IInv, BelowMark
  <2>2. "seed" \notin Happened => \A k \in 1..Len(published) : published[k] <= batch[1]
    BY <1>1, <1>2, <2>1
  <2>3. QED
    BY <1>3, <1>5, <2>2 DEF IInv, BelowMark
<1>8. PublishedOnce' /\ NoGaps'
  BY <1>3, <1>5 DEF IInv, PublishedOnce, NoGaps, Steady
<1>9. QED
  BY <1>6, <1>7, <1>8 DEF IInv

\* The ring stays, the mark is forgotten, and the seed sets it again before any poll.
LEMMA RestartKeeps == ASSUME IInv, Restart PROVE IInv'
<1>1. at' = "seed" /\ last' = 0 /\ batch' = <<>> /\ UNCHANGED <<closed, ring, published>>
  BY DEF Restart
<1>2. faults' \in Seq(FaultKinds) /\ Happened' = Happened \cup {"restart"}
  <2>1. faults' = Append(faults, "restart")
    BY DEF Restart, Fault
  <2>2. TypeOK
    BY DEF IInv
  <2>3. QED
    BY <2>1, <2>2, FaultHappened DEF FaultKinds
<1>3. ("seed" \notin Happened' <=> "seed" \notin Happened) /\ ~Steady'
  BY <1>2 DEF Steady
<1>4. TypeOK' /\ InBatch' /\ BelowMark' /\ Joined'
  BY <1>1, <1>2, <1>3 DEF IInv, TypeOK, InBatch, BelowMark, Joined
<1>5. PublishedOnce' /\ NoGaps'
  BY <1>1, <1>3 DEF IInv, PublishedOnce, NoGaps, Steady
<1>6. QED
  BY <1>4, <1>5 DEF IInv

LEMMA SeedFailsKeeps == ASSUME IInv, SeedFails PROVE IInv'
<1>1. /\ at = "seed" /\ at' = "poll"
      /\ UNCHANGED <<closed, last, batch, ring, published>>
  BY DEF SeedFails
<1>2. faults' \in Seq(FaultKinds) /\ Happened' = Happened \cup {"seed"}
  <2>1. faults' = Append(faults, "seed")
    BY DEF SeedFails, Fault
  <2>2. TypeOK
    BY DEF IInv
  <2>3. QED
    BY <2>1, <2>2, FaultHappened DEF FaultKinds
<1>3. "seed" \in Happened' /\ ~Steady'
  BY <1>2 DEF Steady
<1>4. TypeOK' /\ InBatch' /\ BelowMark' /\ Joined'
  BY <1>1, <1>2, <1>3 DEF IInv, TypeOK, InBatch, BelowMark, Joined
<1>5. PublishedOnce' /\ NoGaps'
  BY <1>3 DEF PublishedOnce, NoGaps, Steady
<1>6. QED
  BY <1>4, <1>5 DEF IInv

LEMMA FetchFailsKeeps == ASSUME IInv, FetchFails PROVE IInv'
<1>1. UNCHANGED <<closed, last, at, batch, ring, published>>
  BY DEF FetchFails, service
<1>2. faults' \in Seq(FaultKinds) /\ Happened' = Happened \cup {"fetch"}
  <2>1. faults' = Append(faults, "fetch")
    BY DEF FetchFails, Fault
  <2>2. TypeOK
    BY DEF IInv
  <2>3. QED
    BY <2>1, <2>2, FaultHappened DEF FaultKinds
<1>3. ("seed" \notin Happened' <=> "seed" \notin Happened) /\ (Steady' <=> Steady)
  BY <1>2 DEF Steady
<1>4. TypeOK' /\ InBatch' /\ BelowMark' /\ Joined'
  BY <1>1, <1>2, <1>3 DEF IInv, TypeOK, InBatch, BelowMark, Joined
<1>5. PublishedOnce' /\ NoGaps'
  BY <1>1, <1>3 DEF IInv, PublishedOnce, NoGaps, Steady
<1>6. QED
  BY <1>4, <1>5 DEF IInv

\* The seed joins the ring: it ends at the newest closed candle, which becomes the mark.
LEMMA SeedKeeps == ASSUME Sizes, IInv, Seed PROVE IInv'
<1>1. /\ closed \in Nat /\ last \in Nat /\ at = "seed"
      /\ ring \in Seq(Nat) /\ Len(ring) \in Nat
      /\ published \in Seq(Nat) /\ \A k \in 1..Len(published) : published[k] \in Nat
  BY DEF IInv, TypeOK, Seed
<1> DEFINE c == ClosedOf(SEED)
           r == Reverse(c)
<1>2. PICK n \in 0..closed :
        /\ n = (IF closed < SEED THEN closed ELSE SEED - 1)
        /\ c \in Seq(Nat) /\ Len(c) = n
        /\ \A k \in 1..n : c[k] = closed - n + k
  BY <1>1, ClosedOfFacts DEF Sizes
<1> HIDE DEF c
<1>3. r \in Seq(Nat) /\ Len(r) = n /\ \A k \in 1..n : r[k] = closed - k + 1
  <2>1. r = [k \in 1..n |-> c[(n - k) + 1]]
    BY <1>2 DEF Reverse
  <2>2. \A k \in 1..n : c[(n - k) + 1] \in Nat /\ c[(n - k) + 1] = closed - k + 1
    <3>1. TAKE k \in 1..n
    <3>2. (n - k) + 1 \in 1..n
      BY <1>2
    <3>3. c[(n - k) + 1] = closed - n + ((n - k) + 1)
      BY <1>2, <3>2
    <3>4. n \in Int /\ k \in Int /\ closed \in Int /\ k <= n /\ n <= closed
      BY <1>1, <1>2
    <3>5. closed - n + ((n - k) + 1) = closed - k + 1 /\ closed - k + 1 \in Nat
      BY <3>4
    <3>6. QED
      BY <3>3, <3>5
  <2>3. r \in [1..n -> Nat] /\ \A k \in 1..n : r[k] = closed - k + 1
    <3> HIDE DEF r
    <3>1. QED
      BY <2>1, <2>2
  <2> HIDE DEF r
  <2>4. n \in Nat
    BY <1>2
  <2>5. QED
    BY <2>3, <2>4
<1> HIDE DEF r
<1>4. last' \in Nat /\ last' >= closed /\ (n > 0 => last' = closed)
  <2>1. c # <<>> <=> n > 0
    BY <1>2
  <2>2. last' = IF c # <<>> THEN c[Len(c)] ELSE closed + 1
    BY DEF Seed, SeedMark, c
  <2>3. QED
    BY <1>1, <1>2, <2>1, <2>2
<1>5. at' = "poll" /\ UNCHANGED <<closed, batch, published, faults>>
  BY DEF Seed
<1>6. Happened' = Happened /\ (Steady' <=> Steady)
  BY <1>5 DEF Happened, Steady
<1>7. /\ r \o ring \in Seq(Nat) /\ ring' = Trimmed(r \o ring)
  BY <1>1, <1>3 DEF Seed, r, c
<1>8. /\ ring' \in Seq(Nat) /\ Len(ring') \in Nat /\ Len(ring') <= Len(r \o ring)
      /\ \A k \in 1..Len(ring') : ring'[k] = (r \o ring)[k]
  <2> DEFINE joined == r \o ring
  <2>1. joined \in Seq(Nat) /\ ring' = Trimmed(joined) /\ RING \in Nat
    BY <1>7 DEF Sizes
  <2> HIDE DEF joined
  <2>2. /\ ring' \in Seq(Nat) /\ Len(ring') <= Len(joined)
        /\ \A k \in 1..Len(ring') : ring'[k] = joined[k]
    BY <2>1, TrimmedFacts
  <2>3. Len(ring') \in Nat
    BY <2>2
  <2>4. QED
    BY <2>2, <2>3 DEF joined
<1>9. Steady => Len(ring') <= n /\ \A k \in 1..Len(ring') : ring'[k] = closed - k + 1
  <2>1. SUFFICES ASSUME Steady PROVE Len(ring') <= n /\ \A k \in 1..Len(ring') : ring'[k] = closed - k + 1
    OBVIOUS
  <2>2. Len(ring) = 0
    BY <1>1, <2>1 DEF IInv, Joined
  <2>3. Len(r \o ring) = n /\ \A k \in 1..n : (r \o ring)[k] = r[k]
    BY <1>1, <1>3, <2>2, ConcatProperties
  <2>4. QED
    BY <1>3, <1>8, <2>3
<1>10. TypeOK'
  BY <1>4, <1>5, <1>8 DEF IInv, TypeOK
<1>11. InBatch' /\ BelowMark'
  <2>1. \A k \in 1..Len(published) : published[k] <= closed
    BY DEF IInv, BelowMark
  <2>2. \A k \in 1..Len(published) : published[k] <= last'
    BY <1>1, <1>4, <2>1
  <2>3. QED
    BY <1>1, <1>5, <1>6, <2>1, <2>2 DEF IInv, InBatch, BelowMark
<1>12. Joined'
  <2>1. closed - last' < FETCH
    <3>1. FETCH \in Int /\ FETCH >= 1
      BY DEF Sizes
    <3>2. closed \in Int /\ last' \in Int /\ closed <= last'
      BY <1>1, <1>4
    <3>3. QED
      BY <3>1, <3>2, Difference
  <2>2. Steady /\ Len(ring') > 0 => ring'[1] = last'
    <3>1. Steady /\ Len(ring') > 0 => 1 \in 1..Len(ring') /\ n > 0
      BY <1>2, <1>8, <1>9
    <3>2. QED
      BY <1>1, <1>4, <1>9, <3>1
  <2>3. QED
    BY <1>5, <1>6, <2>1, <2>2 DEF Joined
<1>13. PublishedOnce'
  BY <1>5, <1>6 DEF IInv, PublishedOnce
<1>14. NoGaps'
  <2>1. SUFFICES ASSUME Steady, NEW k \in 1..(Len(ring') - 1) PROVE ring'[k] = ring'[k + 1] + 1
    BY <1>6 DEF NoGaps, Steady
  <2>2. k \in 1..Len(ring') /\ k + 1 \in 1..Len(ring') /\ k \in Int
    BY <1>8, <2>1
  <2>3. QED
    BY <1>1, <1>9, <2>1, <2>2
<1>15. QED
  BY <1>10, <1>11, <1>12, <1>13, <1>14 DEF IInv

LEMMA NextKeeps == Sizes /\ IInv /\ [Next]_vars => IInv'
<1>1. SUFFICES ASSUME Sizes, IInv, [Next]_vars PROVE IInv'
  OBVIOUS
<1>2. CASE UNCHANGED vars
  BY <1>1, <1>2, ReadersKeep DEF vars
<1>3. CASE Serve
  BY <1>1, <1>3, SeedKeeps, PollKeeps, PushKeeps, TrimKeeps, PublishKeeps DEF Serve
<1>4. CASE SeedFails \/ FetchFails \/ StoreFails \/ Restart \/ CandleCloses
  BY <1>1, <1>4, SeedFailsKeeps, FetchFailsKeeps, StoreFailsKeeps, RestartKeeps, CandleClosesKeeps
<1>5. CASE Score \/ HandleCandleClose \/ FeedBreaks \/ Subscribe
  BY <1>1, <1>5, ReadersKeep DEF Score, HandleCandleClose, FeedBreaks, Subscribe
<1>6. QED
  BY <1>1, <1>2, <1>3, <1>4, <1>5 DEF Next

LEMMA Inductive == ASSUME Sizes PROVE Spec => []IInv
<1>1. Init => IInv
  BY InitIInv
<1>2. IInv /\ [Next]_vars => IInv'
  BY NextKeeps
<1>3. QED
  BY <1>1, <1>2, PTL DEF Spec

-----------------------------------------------------------------------------

\* Unless the seed failed, candles are published in order and none twice, for any interleaving
\* of polls, failed polls, failed writes to Redis and restarts: OHLCVService's _last_ts.
THEOREM CandlesOnce == ASSUME Sizes PROVE Spec => []PublishedOnce
<1>1. IInv => PublishedOnce
  BY DEF IInv
<1>2. QED
  BY <1>1, Inductive, PTL

\* While the polls keep up, Redis answers and the process lives, the ring holds consecutive
\* candles whatever polls fail: the seed joins the polls and a poll makes up for those before.
THEOREM RingUnbroken == ASSUME Sizes PROVE Spec => []NoGaps
<1>1. IInv => NoGaps
  BY DEF IInv
<1>2. QED
  BY <1>1, Inductive, PTL

-----------------------------------------------------------------------------
(* The audit trail *)

Dirs == {"long", "short"}
Judgements == {NoJudgement, "hit", "missed"}
LogRow == [dir: Dirs, market: Markets, kind: Kinds, at: Int,
           status: {"PENDING", "PARTIAL", "COMPLETE"}, priced: SUBSET Int,
           hit: Judgements, judgedAs: Dirs \cup {NoJudgement}, raced: BOOLEAN,
           lost: BOOLEAN]
SignalEvent == [type: {"signal"}, dir: Dirs, market: Markets, kind: Kinds, at: Int]
TradeEvent == [type: {"trade"}, trade: Int, reason: {"TP1_HIT", "SL_HIT", "MANUAL_CLOSE"}, id: Int]
Event == SignalEvent \cup TradeEvent

AuditTypeOK ==
  /\ clock \in Int /\ closedTrades \in Int
  /\ queue \in Seq(Event) /\ hand \in Seq(Event)
  /\ log \in Seq(LogRow)
  /\ jobs \subseteq [id: Int, window: Windows]
  /\ \A job \in jobs : job.id \in DOMAIN log
  /\ DOMAIN backlog \subseteq DOMAIN log
  /\ \A i \in DOMAIN backlog : backlog[i] \in 1..4
  /\ entries \in Seq(Int)
  /\ \A k \in DOMAIN entries : entries[k] \in DOMAIN log

T4(i) == [id |-> i, window |-> 2]

\* Time stops before T16 of a record whose T4 waits, unless its checks were started together.
T4First == \A i \in DOMAIN log : T4(i) \in jobs /\ ~log[i].raced => clock < log[i].at + 3
\* Nothing is complete before T16.
NotBefore == \A i \in DOMAIN log : log[i].status = "COMPLETE" => log[i].at + 3 <= clock
\* The backfill works on records that are not complete and have no jobs.
BackfillOwns ==
  \A i \in DOMAIN backlog :
    /\ backlog[i] <= 3 => log[i].status # "COMPLETE"
    /\ \A job \in jobs : job.id # i

Stays ==
  \A i \in DOMAIN log :
    log[i].status = "COMPLETE" /\ ~log[i].raced => log'[i].status = "COMPLETE"

\* A process that is down has neither jobs nor an event in hand.
Down == ~up => jobs = {} /\ hand = <<>>

AuditIInv == AuditTypeOK /\ T4First /\ NotBefore /\ BackfillOwns /\ CounterfactualOnce

-----------------------------------------------------------------------------
(* What a step makes of the log *)

\* One record may have changed; its time and history stay, and a judgement is never withdrawn.
OnlyOne(i) ==
  /\ log' \in Seq(LogRow) /\ Len(log') = Len(log) /\ DOMAIN log' = DOMAIN log
  /\ \A k \in DOMAIN log : k # i => log'[k] = log[k]
  /\ log'[i].at = log[i].at /\ log'[i].raced = log[i].raced
  /\ log[i].hit # NoJudgement => log'[i].hit # NoJudgement

LEMMA LogFacts ==
  ASSUME AuditTypeOK
  PROVE  /\ DOMAIN log = 1..Len(log) /\ Len(log) \in Nat
         /\ \A i \in DOMAIN log : log[i] \in LogRow
  BY DEF AuditTypeOK

\* Replacing a record by another of the type.
LEMMA Replaced ==
  ASSUME AuditTypeOK, NEW i \in DOMAIN log, NEW r \in LogRow, log' = [log EXCEPT ![i] = r],
         r.at = log[i].at, r.raced = log[i].raced,
         log[i].hit # NoJudgement => r.hit # NoJudgement
  PROVE  OnlyOne(i) /\ log'[i] = r
<1>1. DOMAIN log = 1..Len(log) /\ Len(log) \in Nat /\ \A k \in DOMAIN log : log[k] \in LogRow
  BY LogFacts
<1>2. DOMAIN log' = DOMAIN log /\ log'[i] = r /\ \A k \in DOMAIN log : k # i => log'[k] = log[k]
  BY DEF AuditTypeOK
<1>3. log' \in [1..Len(log) -> LogRow]
  BY <1>1, <1>2
<1>4. log' \in Seq(LogRow) /\ Len(log') = Len(log)
  BY <1>1, <1>3
<1>5. QED
  BY <1>2, <1>4 DEF OnlyOne

LEMMA Checks ==
  ASSUME AuditTypeOK, NEW i \in DOMAIN log, NEW w \in Windows, Check(i, w)
  PROVE  /\ OnlyOne(i)
         /\ log'[i].status = "COMPLETE" => w = 3 \/ log[i].status = "COMPLETE"
         /\ w # 2 /\ log[i].status = "COMPLETE" => log'[i].status = "COMPLETE"
<1>1. log[i] \in LogRow
  BY LogFacts
<1>2. CASE log' = [log EXCEPT ![i].lost = @ \/ w = 3]
  <2> DEFINE lost == log[i].lost \/ w = 3
             r == [log[i] EXCEPT !.lost = lost]
  <2>1. log' = [log EXCEPT ![i] = r] /\ lost \in BOOLEAN
    BY <1>1, <1>2 DEF LogRow
  <2> HIDE DEF lost
  <2>2. /\ r \in LogRow /\ r.at = log[i].at /\ r.raced = log[i].raced /\ r.hit = log[i].hit
        /\ r.status = log[i].status
    BY <1>1, <2>1 DEF LogRow
  <2> HIDE DEF r
  <2>3. OnlyOne(i) /\ log'[i] = r
    BY <2>1, <2>2, Replaced
  <2>4. QED
    BY <2>2, <2>3
<1>3. CASE w # 3 /\ log' = Priced(i, w)
  <2> DEFINE priced == log[i].priced \cup {w}
             status == IF w = 2 \/ log[i].status = "PENDING" THEN "PARTIAL" ELSE log[i].status
             r == [log[i] EXCEPT !.priced = priced, !.status = status]
  <2>1. log' = [log EXCEPT ![i] = r]
    BY <1>1, <1>3 DEF Priced, LogRow
  <2>2. /\ r \in LogRow /\ r.at = log[i].at /\ r.raced = log[i].raced /\ r.hit = log[i].hit
        /\ r.status = status
    <3>1. priced \in SUBSET Int
      BY <1>1 DEF LogRow, Windows
    <3>2. status \in {"PENDING", "PARTIAL", "COMPLETE"}
      BY <1>1 DEF LogRow
    <3> HIDE DEF priced, status
    <3>3. QED
      BY <1>1, <3>1, <3>2 DEF LogRow
  <2> HIDE DEF r
  <2>3. OnlyOne(i) /\ log'[i] = r
    BY <2>1, <2>2, Replaced
  <2>4. QED
    BY <1>3, <2>2, <2>3
<1>4. CASE w = 3 /\ \E price, range \in BOOLEAN : log' = Completed(i, price, range)
  <2>1. PICK price \in BOOLEAN, range \in BOOLEAN : log' = Completed(i, price, range)
    BY <1>4
  <2> DEFINE looked == range /\ Levels(log[i])
             priced == IF price THEN log[i].priced \cup {3} ELSE log[i].priced
             hit == IF looked THEN Reached(log[i], AssumedDir) ELSE log[i].hit
             judged == IF looked THEN AssumedDir ELSE log[i].judgedAs
             r == [log[i] EXCEPT !.priced = priced, !.hit = hit, !.judgedAs = judged,
                                 !.status = "COMPLETE"]
  <2>2. log' = [log EXCEPT ![i] = r]
    BY <1>1, <2>1 DEF Completed, LogRow
  <2>3. Reached(log[i], AssumedDir) \in {"hit", "missed"} /\ AssumedDir \in Dirs
    BY DEF Reached, AssumedDir, Dirs
  <2>4. /\ r \in LogRow /\ r.at = log[i].at /\ r.raced = log[i].raced /\ r.status = "COMPLETE"
        /\ r.hit = hit
    <3>1. priced \in SUBSET Int
      BY <1>1 DEF LogRow
    <3>2. hit \in Judgements
      BY <1>1, <2>3 DEF LogRow, Judgements
    <3>3. judged \in Dirs \cup {NoJudgement}
      BY <1>1, <2>3 DEF LogRow
    <3> HIDE DEF priced, hit, judged
    <3>4. QED
      BY <1>1, <3>1, <3>2, <3>3 DEF LogRow
  <2>5. log[i].hit # NoJudgement => r.hit # NoJudgement
    BY <2>3, <2>4 DEF NoJudgement
  <2> HIDE DEF r
  <2>6. OnlyOne(i) /\ log'[i] = r
    BY <2>2, <2>4, <2>5, Replaced
  <2>7. QED
    BY <1>4, <2>4, <2>6
<1>5. QED
  BY <1>2, <1>3, <1>4 DEF Check

\* The entries stay as good as they were when one record changes.
LEMMA EntriesStay ==
  ASSUME AuditIInv, NEW i, OnlyOne(i), entries' = entries
  PROVE  CounterfactualOnce' /\ \A k \in DOMAIN entries' : entries'[k] \in DOMAIN log'
<1>1. \A k \in DOMAIN entries : entries[k] \in DOMAIN log /\ log[entries[k]].hit # NoJudgement
  BY DEF AuditIInv, AuditTypeOK, CounterfactualOnce
<1>2. \A k \in DOMAIN entries : log'[entries[k]].hit # NoJudgement
  BY <1>1 DEF OnlyOne
<1>3. QED
  BY <1>1, <1>2 DEF AuditIInv, CounterfactualOnce, OnlyOne

-----------------------------------------------------------------------------
(* Each action keeps the invariant *)

LEMMA AuditInitIInv == AuditInit => AuditIInv
<1>1. SUFFICES ASSUME AuditInit PROVE AuditIInv
  OBVIOUS
<1>2. queue = <<>> /\ hand = <<>> /\ log = <<>> /\ entries = <<>> /\ jobs = {} /\ clock = 0 /\ closedTrades = 0
  BY <1>1 DEF AuditInit
<1>3. DOMAIN backlog = {}
  BY <1>1 DEF AuditInit
<1>4. AuditTypeOK
  BY <1>2, <1>3 DEF AuditTypeOK
<1>5. QED
  BY <1>2, <1>3, <1>4 DEF AuditIInv, T4First, NotBefore, BackfillOwns, CounterfactualOnce

\* Steps that touch neither the log nor what works on it.
LEMMA AsideKeeps ==
  ASSUME AuditIInv, UNCHANGED <<clock, log, jobs, backlog, entries>>,
         queue' \in Seq(Event), hand' \in Seq(Event), closedTrades' \in Int
  PROVE  AuditIInv'
<1>1. AuditTypeOK'
  BY DEF AuditIInv, AuditTypeOK
<1>2. QED
  BY <1>1 DEF AuditIInv, T4First, NotBefore, BackfillOwns, CounterfactualOnce

LEMMA ProducersKeep == AuditIInv /\ (TakeSnapshot \/ CloseTrade) => AuditIInv'
<1>1. CASE AuditIInv /\ TakeSnapshot
  <2>1. queue' \in Seq(Event)
    <3>1. CASE UNCHANGED queue
      BY <1>1, <3>1 DEF AuditIInv, AuditTypeOK
    <3>2. CASE ~UNCHANGED queue
      <4>1. PICK dir \in Dirs, market \in Markets, kind \in Kinds :
              queue' = Append(queue, [type |-> "signal", dir |-> dir, market |-> market,
                                      kind |-> kind, at |-> clock])
        BY <1>1, <3>2 DEF TakeSnapshot, Dirs
      <4>2. [type |-> "signal", dir |-> dir, market |-> market, kind |-> kind, at |-> clock] \in Event
        BY <1>1 DEF AuditIInv, AuditTypeOK, Event, SignalEvent
      <4>3. QED
        BY <1>1, <4>1, <4>2 DEF AuditIInv, AuditTypeOK
    <3>3. QED
      BY <3>1, <3>2
  <2>2. QED
    BY <1>1, <2>1, AsideKeeps DEF TakeSnapshot, AuditIInv, AuditTypeOK
<1>2. CASE AuditIInv /\ CloseTrade
  <2>1. PICK reason \in {"TP1_HIT", "SL_HIT", "MANUAL_CLOSE"}, id \in 0..Len(log) :
          queue' = Append(queue, [type |-> "trade", trade |-> closedTrades', reason |-> reason, id |-> id])
    BY <1>2 DEF CloseTrade
  <2>2. closedTrades' \in Int
    BY <1>2 DEF CloseTrade, AuditIInv, AuditTypeOK
  <2>3. [type |-> "trade", trade |-> closedTrades', reason |-> reason, id |-> id] \in Event
    BY <2>2 DEF Event, TradeEvent
  <2>4. queue' \in Seq(Event)
    BY <1>2, <2>1, <2>3 DEF AuditIInv, AuditTypeOK
  <2>5. QED
    BY <1>2, <2>2, <2>4, AsideKeeps DEF CloseTrade, AuditIInv, AuditTypeOK
<1>3. QED
  BY <1>1, <1>2

LEMMA ConsumeKeeps == AuditIInv /\ Consume => AuditIInv'
<1>1. SUFFICES ASSUME AuditIInv, Consume PROVE AuditIInv'
  OBVIOUS
<1>2. queue \in Seq(Event) /\ queue # <<>>
  BY <1>1 DEF AuditIInv, AuditTypeOK, Consume
<1>3. Head(queue) \in Event /\ Tail(queue) \in Seq(Event)
  BY <1>2
<1>4. hand' \in Seq(Event) /\ queue' \in Seq(Event)
  BY <1>1, <1>3 DEF Consume
<1>5. QED
  BY <1>1, <1>4, AsideKeeps DEF Consume, AuditIInv, AuditTypeOK

\* The new record is pending, and its checks are marked when they are all late.
LEMMA HandleSignalKeeps == AuditIInv /\ HandleSignal => AuditIInv'
<1>1. SUFFICES ASSUME AuditIInv, HandleSignal PROVE AuditIInv'
  OBVIOUS
<1>2. hand \in Seq(Event) /\ hand # <<>> /\ hand[1].type = "signal"
  BY <1>1 DEF AuditIInv, AuditTypeOK, HandleSignal
<1>3. hand[1] \in SignalEvent
  <2>1. hand[1] \in Event
    BY <1>2
  <2>2. QED
    BY <1>2, <2>1 DEF Event, SignalEvent, TradeEvent
<1>4. hand' \in Seq(Event) /\ UNCHANGED <<clock, queue, backlog, entries, closedTrades>>
  BY <1>1 DEF HandleSignal
<1>5. CASE UNCHANGED <<log, jobs>>
  BY <1>1, <1>4, <1>5, AsideKeeps DEF AuditIInv, AuditTypeOK
<1>6. CASE ~UNCHANGED <<log, jobs>>
  <2> DEFINE r == Record(hand[1])
             n == Len(log) + 1
  <2>1. log' = Append(log, r) /\ jobs' = jobs \cup Jobs(Len(log'))
    BY <1>1, <1>6 DEF HandleSignal
  <2>2. /\ r \in LogRow /\ r.status = "PENDING" /\ r.raced = (r.at + 3 <= clock)
    BY <1>1, <1>3 DEF Record, LogRow, SignalEvent, Judgements, AuditIInv, AuditTypeOK
  <2> HIDE DEF r
  <2>3. log \in Seq(LogRow) /\ DOMAIN log = 1..Len(log) /\ Len(log) \in Nat
    BY <1>1, LogFacts DEF AuditIInv, AuditTypeOK
  <2>4. /\ log' \in Seq(LogRow) /\ Len(log') = n /\ DOMAIN log' = 1..n
        /\ log'[n] = r /\ \A i \in DOMAIN log : log'[i] = log[i]
    BY <2>1, <2>2, <2>3
  <2>5. jobs' = jobs \cup {[id |-> n, window |-> w] : w \in Windows}
    BY <2>1, <2>4 DEF Jobs
  <2>6. \A job \in jobs' : job \in jobs \/ job.id = n
    BY <2>5
  <2>7. jobs' \subseteq [id: Int, window: Windows]
    BY <1>1, <2>3, <2>5 DEF AuditIInv, AuditTypeOK
  <2>8. AuditTypeOK'
    <3>1. DOMAIN log \subseteq DOMAIN log' /\ n \in DOMAIN log'
      BY <2>3, <2>4
    <3>2. \A job \in jobs' : job.id \in DOMAIN log'
      BY <1>1, <2>6, <3>1 DEF AuditIInv, AuditTypeOK
    <3>3. \A k \in DOMAIN entries' : entries'[k] \in DOMAIN log'
      BY <1>1, <1>4, <3>1 DEF AuditIInv, AuditTypeOK
    <3>4. DOMAIN backlog' \subseteq DOMAIN log' /\ \A i \in DOMAIN backlog' : backlog'[i] \in 1..4
      BY <1>1, <1>4, <3>1 DEF AuditIInv, AuditTypeOK
    <3>5. QED
      BY <1>1, <1>4, <2>4, <2>7, <3>2, <3>3, <3>4 DEF AuditIInv, AuditTypeOK
  <2>9. T4First'
    <3>1. SUFFICES ASSUME NEW i \in DOMAIN log', T4(i) \in jobs', ~log'[i].raced
                   PROVE  clock < log'[i].at + 3
      BY <1>4 DEF T4First
    <3>2. CASE i = n
      BY <1>1, <2>2, <2>4, <3>1, <3>2 DEF AuditIInv, AuditTypeOK, LogRow
    <3>3. CASE i # n
      <4>1. i \in DOMAIN log /\ T4(i) \in jobs
        BY <2>3, <2>4, <2>6, <3>1, <3>3 DEF T4
      <4>2. QED
        BY <1>1, <2>4, <3>1, <4>1 DEF AuditIInv, T4First
    <3>4. QED
      BY <3>2, <3>3
  <2>10. NotBefore'
    BY <1>1, <1>4, <2>2, <2>3, <2>4 DEF AuditIInv, NotBefore
  <2>11. BackfillOwns'
    BY <1>1, <1>4, <2>3, <2>4, <2>6 DEF AuditIInv, AuditTypeOK, BackfillOwns
  <2>12. CounterfactualOnce'
    BY <1>1, <1>4, <2>4 DEF AuditIInv, AuditTypeOK, CounterfactualOnce
  <2>13. QED
    BY <2>8, <2>9, <2>10, <2>11, <2>12 DEF AuditIInv
<1>7. QED
  BY <1>5, <1>6

\* A record changes that is neither completed nor taken out of completion.
LEMMA HandleTradeKeeps ==
  ASSUME AuditIInv, HandleTrade
  PROVE  AuditIInv' /\ \A i \in DOMAIN log : log[i].status = "COMPLETE" => log'[i].status = "COMPLETE"
<1> DEFINE id == hand[1].id
<1>1. hand' \in Seq(Event) /\ UNCHANGED <<clock, queue, jobs, backlog, entries, closedTrades>>
  BY DEF HandleTrade
<1>2. CASE log' = log
  BY <1>1, <1>2, AsideKeeps DEF AuditIInv, AuditTypeOK
<1>3. CASE log' # log
  <2>1. log' = [log EXCEPT ![id].status = "PARTIAL"] /\ log[id].status = "PENDING"
    BY <1>3 DEF HandleTrade
  <2>2. id \in DOMAIN log
    BY <1>3, <2>1, LogFacts DEF AuditIInv, AuditTypeOK
  <2> DEFINE r == [log[id] EXCEPT !.status = "PARTIAL"]
  <2>3. log[id] \in LogRow
    BY <2>2, LogFacts DEF AuditIInv
  <2>4. r \in LogRow /\ r.at = log[id].at /\ r.raced = log[id].raced /\ r.hit = log[id].hit /\ r.status = "PARTIAL"
    BY <2>3 DEF LogRow
  <2>5. log' = [log EXCEPT ![id] = r]
    BY <2>1
  <2> HIDE DEF r
  <2>6. OnlyOne(id) /\ log'[id] = r
    BY <2>2, <2>4, <2>5, Replaced DEF AuditIInv
  <2>7. \A i \in DOMAIN log : log'[i].status = "COMPLETE" <=> log[i].status = "COMPLETE"
    BY <2>1, <2>4, <2>6 DEF OnlyOne
  <2>8. \A i \in DOMAIN log : log'[i].at = log[i].at /\ log'[i].raced = log[i].raced
    BY <2>6 DEF OnlyOne
  <2>9. CounterfactualOnce' /\ \A k \in DOMAIN entries' : entries'[k] \in DOMAIN log'
    BY <1>1, <2>6, EntriesStay
  <2>10. AuditTypeOK'
    BY <1>1, <2>6, <2>9 DEF AuditIInv, AuditTypeOK, OnlyOne
  <2>11. T4First' /\ NotBefore' /\ BackfillOwns'
    BY <1>1, <2>6, <2>7, <2>8 DEF AuditIInv, AuditTypeOK, OnlyOne, T4First, NotBefore, BackfillOwns
  <2>12. QED
    BY <2>7, <2>9, <2>10, <2>11 DEF AuditIInv
<1>4. QED
  BY <1>2, <1>3

\* A job runs at its time: T16 completes no record early, and when T4 takes one out of completion
\* all its checks were late.
LEMMA RunJobKeeps == AuditIInv /\ RunJob => AuditIInv' /\ Stays
<1>1. SUFFICES ASSUME AuditIInv, RunJob PROVE AuditIInv' /\ Stays
  OBVIOUS
<1>2. PICK job \in jobs : Due(job.id, job.window) /\ Check(job.id, job.window) /\ jobs' = jobs \ {job}
  BY <1>1 DEF RunJob
<1> DEFINE i == job.id
           w == job.window
<1>3. i \in DOMAIN log /\ w \in Windows /\ job = [id |-> i, window |-> w]
  BY <1>1, <1>2 DEF AuditIInv, AuditTypeOK
<1>4. /\ OnlyOne(i)
      /\ log'[i].status = "COMPLETE" => w = 3 \/ log[i].status = "COMPLETE"
      /\ w # 2 /\ log[i].status = "COMPLETE" => log'[i].status = "COMPLETE"
  BY <1>1, <1>2, <1>3, Checks DEF AuditIInv
<1>5. log[i].at + w <= clock /\ UNCHANGED <<clock, queue, hand, backlog, entries, closedTrades>>
  BY <1>1, <1>2 DEF Due, RunJob
<1>6. i \notin DOMAIN backlog
  BY <1>1, <1>2 DEF AuditIInv, BackfillOwns
<1>7. CounterfactualOnce' /\ \A k \in DOMAIN entries' : entries'[k] \in DOMAIN log'
  BY <1>1, <1>4, <1>5, EntriesStay
<1>8. \A k \in DOMAIN log : log'[k].at = log[k].at /\ log'[k].raced = log[k].raced
  BY <1>4 DEF OnlyOne
<1>9. AuditTypeOK'
  BY <1>1, <1>2, <1>4, <1>5, <1>7 DEF AuditIInv, AuditTypeOK, OnlyOne
<1>10. T4First'
  BY <1>1, <1>2, <1>4, <1>5, <1>8 DEF AuditIInv, T4First, OnlyOne
<1>11. NotBefore'
  BY <1>1, <1>4, <1>5, <1>8 DEF AuditIInv, NotBefore, OnlyOne
<1>12. BackfillOwns'
  BY <1>1, <1>2, <1>4, <1>5, <1>6 DEF AuditIInv, AuditTypeOK, BackfillOwns, OnlyOne
<1>13. Stays
  <2>1. SUFFICES ASSUME log[i].status = "COMPLETE", ~log[i].raced PROVE log'[i].status = "COMPLETE"
    BY <1>4 DEF Stays, OnlyOne
  <2>2. log[i].at \in Int /\ clock \in Int
    BY <1>1, <1>3, LogFacts DEF AuditIInv, AuditTypeOK, LogRow
  <2>3. ~(clock < log[i].at + 3)
    BY <1>1, <1>3, <2>1, <2>2 DEF AuditIInv, NotBefore
  <2>4. w # 2
    BY <1>1, <1>2, <1>3, <2>1, <2>3 DEF AuditIInv, T4First, T4
  <2>5. QED
    BY <1>4, <2>1, <2>4
<1>14. QED
  BY <1>7, <1>9, <1>10, <1>11, <1>12, <1>13 DEF AuditIInv

\* The backfill looks up one record, which is not complete before its T16.
LEMMA BackfillKeeps ==
  ASSUME AuditIInv, NEW i \in DOMAIN backlog, backlog[i] # 4, Backfill(i)
  PROVE  AuditIInv' /\ Stays
<1> DEFINE w == backlog[i]
<1>1. /\ UNCHANGED <<clock, queue, hand, jobs, entries, closedTrades>>
      /\ backlog' = [backlog EXCEPT ![i] = @ + 1]
  BY DEF Backfill
<1>2. i \in DOMAIN log /\ w \in Windows /\ log[i].status # "COMPLETE"
  BY DEF AuditIInv, AuditTypeOK, BackfillOwns, Windows
<1>3. /\ DOMAIN backlog' = DOMAIN backlog
      /\ backlog'[i] = w + 1
      /\ \A k \in DOMAIN backlog : k # i => backlog'[k] = backlog[k]
  BY <1>1 DEF AuditIInv, AuditTypeOK
<1>4. w + 1 \in 1..4 /\ (w + 1 <= 3 => w # 3)
  BY <1>2 DEF Windows
<1>5. /\ OnlyOne(i)
      /\ log'[i].status = "COMPLETE" => w = 3 /\ log[i].at + 3 <= clock
  <2>1. CASE Check(i, w) /\ Due(i, w)
    BY <1>2, <2>1, Checks DEF AuditIInv, Due
  <2>2. CASE UNCHANGED log
    BY <1>2, <2>2, LogFacts DEF OnlyOne, AuditIInv, AuditTypeOK
  <2>3. QED
    BY <2>1, <2>2 DEF Backfill
<1>6. CounterfactualOnce' /\ \A k \in DOMAIN entries' : entries'[k] \in DOMAIN log'
  BY <1>1, <1>5, EntriesStay
<1>7. \A k \in DOMAIN log : log'[k].at = log[k].at /\ log'[k].raced = log[k].raced
  BY <1>5 DEF OnlyOne
<1>8. AuditTypeOK'
  <2>1. \A k \in DOMAIN backlog' : backlog'[k] \in 1..4
    BY <1>3, <1>4 DEF AuditIInv, AuditTypeOK
  <2>2. QED
    BY <1>1, <1>3, <1>5, <1>6, <2>1 DEF AuditIInv, AuditTypeOK, OnlyOne
<1>9. T4First'
  BY <1>1, <1>5, <1>7 DEF AuditIInv, T4First, OnlyOne
<1>10. NotBefore'
  BY <1>1, <1>5, <1>7 DEF AuditIInv, NotBefore, OnlyOne
<1>11. BackfillOwns'
  <2>1. SUFFICES ASSUME NEW k \in DOMAIN backlog'
                 PROVE  /\ backlog'[k] <= 3 => log'[k].status # "COMPLETE"
                        /\ \A job \in jobs : job.id # k
    BY <1>1 DEF BackfillOwns
  <2>2. CASE k = i
    BY <1>3, <1>4, <1>5, <2>2 DEF AuditIInv, BackfillOwns
  <2>3. CASE k # i
    BY <1>3, <1>5, <2>1, <2>3 DEF AuditIInv, AuditTypeOK, BackfillOwns, OnlyOne
  <2>4. QED
    BY <2>2, <2>3
<1>12. Stays
  BY <1>2, <1>5 DEF Stays, OnlyOne
<1>13. QED
  BY <1>6, <1>8, <1>9, <1>10, <1>11, <1>12 DEF AuditIInv

\* All checks of a record are scheduled at once; it is marked when they are all late.
LEMMA RescheduleKeeps ==
  ASSUME AuditIInv, NEW i \in DOMAIN backlog, Reschedule(i)
  PROVE  AuditIInv' /\ Stays
<1> DEFINE r == [log[i] EXCEPT !.raced = @ \/ Due(i, 3)]
<1>1. /\ UNCHANGED <<clock, queue, hand, entries, closedTrades>>
      /\ jobs' = jobs \cup {[id |-> i, window |-> w] : w \in Windows}
      /\ log' = [log EXCEPT ![i] = r]
  BY DEF Reschedule, Jobs
<1>2. DOMAIN backlog' = DOMAIN backlog \ {i} /\ \A k \in DOMAIN backlog \ {i} : backlog'[k] = backlog[k]
  BY DEF Reschedule
<1>3. i \in DOMAIN log
  BY DEF AuditIInv, AuditTypeOK
<1>4. log[i] \in LogRow /\ clock \in Int
  BY <1>3, LogFacts DEF AuditIInv, AuditTypeOK
<1>5. /\ r \in LogRow /\ r.at = log[i].at /\ r.status = log[i].status /\ r.hit = log[i].hit
      /\ r.raced = (log[i].raced \/ log[i].at + 3 <= clock)
  <2> DEFINE b == log[i].raced \/ Due(i, 3)
  <2>1. b \in BOOLEAN /\ b = (log[i].raced \/ log[i].at + 3 <= clock)
    BY <1>4 DEF LogRow, Due
  <2>2. r = [log[i] EXCEPT !.raced = b]
    BY <1>4 DEF LogRow
  <2> HIDE DEF b
  <2>3. /\ r \in LogRow /\ r.at = log[i].at /\ r.status = log[i].status /\ r.hit = log[i].hit
        /\ r.raced = b
    BY <1>4, <2>1, <2>2 DEF LogRow
  <2>4. QED
    BY <2>1, <2>3
<1> HIDE DEF r
<1>6. /\ DOMAIN log' = DOMAIN log /\ log'[i] = r
      /\ \A k \in DOMAIN log : k # i => log'[k] = log[k]
      /\ log' \in Seq(LogRow)
  <2>1. DOMAIN log = 1..Len(log) /\ Len(log) \in Nat /\ \A k \in DOMAIN log : log[k] \in LogRow
    BY LogFacts DEF AuditIInv
  <2>2. DOMAIN log' = DOMAIN log /\ log'[i] = r /\ \A k \in DOMAIN log : k # i => log'[k] = log[k]
    BY <1>1, <1>3, <2>1
  <2>3. log' \in [1..Len(log) -> LogRow]
    BY <1>1, <1>5, <2>1, <2>2
  <2>4. QED
    BY <2>1, <2>2, <2>3
<1>7. \A k \in DOMAIN log : /\ log'[k].at = log[k].at /\ log'[k].status = log[k].status
                            /\ log'[k].hit = log[k].hit
  BY <1>5, <1>6
<1>8. \A job \in jobs' : job \in jobs \/ job.id = i
  BY <1>1
<1>9. AuditTypeOK'
  <2>1. jobs' \subseteq [id: Int, window: Windows] /\ \A job \in jobs' : job.id \in DOMAIN log'
    BY <1>1, <1>3, <1>6, LogFacts DEF AuditIInv, AuditTypeOK
  <2>2. DOMAIN backlog' \subseteq DOMAIN log' /\ \A k \in DOMAIN backlog' : backlog'[k] \in 1..4
    BY <1>2, <1>6 DEF AuditIInv, AuditTypeOK
  <2>3. QED
    BY <1>1, <1>6, <2>1, <2>2 DEF AuditIInv, AuditTypeOK
<1>10. T4First'
  <2>1. SUFFICES ASSUME NEW k \in DOMAIN log', T4(k) \in jobs', ~log'[k].raced
                 PROVE  clock < log'[k].at + 3
    BY <1>1 DEF T4First
  <2>2. CASE k = i
    BY <1>4, <1>5, <1>6, <2>1, <2>2 DEF LogRow
  <2>3. CASE k # i
    <3>1. T4(k) \in jobs
      BY <1>8, <2>1, <2>3 DEF T4
    <3>2. QED
      BY <1>6, <2>1, <2>3, <3>1 DEF AuditIInv, T4First
  <2>4. QED
    BY <2>2, <2>3
<1>11. NotBefore'
  BY <1>1, <1>6, <1>7 DEF AuditIInv, NotBefore
<1>12. BackfillOwns'
  BY <1>2, <1>6, <1>7, <1>8 DEF AuditIInv, AuditTypeOK, BackfillOwns
<1>13. CounterfactualOnce'
  BY <1>1, <1>6, <1>7 DEF AuditIInv, AuditTypeOK, CounterfactualOnce
<1>14. Stays
  BY <1>7 DEF Stays
<1>15. QED
  BY <1>9, <1>10, <1>11, <1>12, <1>13, <1>14 DEF AuditIInv

\* Only a record without an entry is looked up, and only one that was judged.
LEMMA CounterfactualKeeps == AuditIInv /\ Counterfactual => AuditIInv'
<1>1. SUFFICES ASSUME AuditIInv, Counterfactual PROVE AuditIInv'
  OBVIOUS
<1>2. PICK i \in Judged : entries' = Append(entries, i)
  BY <1>1 DEF Counterfactual
<1>3. UNCHANGED <<clock, queue, hand, log, jobs, backlog, closedTrades>>
  BY <1>1 DEF Counterfactual
<1>4. entries \in Seq(Int) /\ DOMAIN entries = 1..Len(entries) /\ Len(entries) \in Nat
  BY <1>1 DEF AuditIInv, AuditTypeOK
<1>5. i \in DOMAIN log /\ log[i].hit # NoJudgement /\ i \in Int
  BY <1>1, <1>2, LogFacts DEF Judged, NoSignal, AuditIInv
<1>6. \A k \in DOMAIN entries : entries[k] # i
  BY <1>2 DEF Judged, Range
<1>7. /\ entries' \in Seq(Int) /\ DOMAIN entries' = 1..(Len(entries) + 1)
      /\ entries'[Len(entries) + 1] = i
      /\ \A k \in DOMAIN entries : entries'[k] = entries[k]
  BY <1>2, <1>4, <1>5
<1>8. CounterfactualOnce' /\ \A k \in DOMAIN entries' : entries'[k] \in DOMAIN log'
  <2> DEFINE n == Len(entries) + 1
  <2>1. \A k \in DOMAIN entries' : k \in DOMAIN entries \/ k = n
    BY <1>4, <1>7
  <2>2. \A k \in DOMAIN entries' : entries'[k] \in DOMAIN log /\ log[entries'[k]].hit # NoJudgement
    BY <1>1, <1>5, <1>7, <2>1 DEF AuditIInv, AuditTypeOK, CounterfactualOnce
  <2>3. ASSUME NEW j \in DOMAIN entries', NEW k \in DOMAIN entries', j # k
        PROVE  entries'[j] # entries'[k]
    BY <1>1, <1>6, <1>7, <2>1, <2>3 DEF AuditIInv, CounterfactualOnce
  <2>4. QED
    BY <1>3, <2>2, <2>3 DEF CounterfactualOnce
<1>9. AuditTypeOK'
  BY <1>1, <1>3, <1>7, <1>8 DEF AuditIInv, AuditTypeOK
<1>10. T4First' /\ NotBefore' /\ BackfillOwns'
  BY <1>1, <1>3 DEF AuditIInv, T4First, NotBefore, BackfillOwns
<1>11. QED
  BY <1>8, <1>9, <1>10 DEF AuditIInv

\* The clock waits for the checks that are due.
LEMMA TickKeeps == AuditIInv /\ Tick => AuditIInv'
<1>1. SUFFICES ASSUME AuditIInv, Tick PROVE AuditIInv'
  OBVIOUS
<1>2. clock' = clock + 1 /\ UNCHANGED <<queue, hand, log, jobs, backlog, entries, closedTrades>>
  BY <1>1 DEF Tick
<1>3. AuditTypeOK' /\ BackfillOwns' /\ CounterfactualOnce'
  BY <1>1, <1>2 DEF AuditIInv, AuditTypeOK, BackfillOwns, CounterfactualOnce
<1>4. clock \in Int /\ \A i \in DOMAIN log : log[i].at \in Int
  BY <1>1, LogFacts DEF AuditIInv, AuditTypeOK, LogRow
<1>5. T4First'
  <2>1. SUFFICES ASSUME NEW i \in DOMAIN log, T4(i) \in jobs PROVE clock + 1 < log[i].at + 3
    BY <1>2 DEF T4First
  <2>2. ~(log[i].at + 2 <= clock)
    BY <1>1, <2>1 DEF Tick, Due, T4
  <2>3. QED
    BY <1>4, <2>2
<1>6. NotBefore'
  BY <1>1, <1>2, <1>4 DEF AuditIInv, NotBefore
<1>7. QED
  BY <1>3, <1>5, <1>6 DEF AuditIInv

LEMMA CrashKeeps == AuditIInv /\ Crash => AuditIInv'
<1>1. SUFFICES ASSUME AuditIInv, Crash PROVE AuditIInv'
  OBVIOUS
<1>2. jobs' = {} /\ DOMAIN backlog' = {} /\ hand' = <<>> /\ UNCHANGED <<clock, queue, log, entries, closedTrades>>
  BY <1>1 DEF Crash
<1>3. AuditTypeOK'
  BY <1>1, <1>2 DEF AuditIInv, AuditTypeOK
<1>4. QED
  BY <1>1, <1>2, <1>3 DEF AuditIInv, T4First, NotBefore, BackfillOwns, CounterfactualOnce

\* The backfill begins with records that are not complete, and no job has survived the crash.
LEMMA AuditRestartKeeps == AuditIInv /\ Down /\ StartService => AuditIInv'
<1>1. SUFFICES ASSUME AuditIInv, Down, StartService PROVE AuditIInv'
  OBVIOUS
<1>2. jobs = {} /\ UNCHANGED <<clock, queue, hand, jobs, entries, closedTrades>>
  BY <1>1 DEF StartService, Down
<1> DEFINE row(i) == [log[i] EXCEPT !.lost = FALSE]
<1>6. log' = [i \in DOMAIN log |-> row(i)]
  BY <1>1 DEF StartService
<1>7. \A i \in DOMAIN log :
        /\ row(i) \in LogRow /\ row(i).at = log[i].at /\ row(i).status = log[i].status
        /\ row(i).hit = log[i].hit /\ row(i).raced = log[i].raced
  BY <1>1, LogFacts DEF AuditIInv, LogRow
<1> HIDE DEF row
<1>8. DOMAIN log' = DOMAIN log /\ \A i \in DOMAIN log : log'[i] = row(i)
  BY <1>6
<1>9. log' \in Seq(LogRow)
  <2>1. DOMAIN log = 1..Len(log) /\ Len(log) \in Nat
    BY <1>1, LogFacts DEF AuditIInv
  <2>2. log' \in [1..Len(log) -> LogRow]
    BY <1>6, <1>7, <2>1
  <2>3. QED
    BY <2>1, <2>2
<1>3. /\ DOMAIN backlog' = Unfinished
      /\ \A i \in Unfinished : backlog'[i] = 1
      /\ \A i \in Unfinished : i \in DOMAIN log /\ log[i].status # "COMPLETE"
  BY <1>1 DEF StartService, Unfinished
<1>4. AuditTypeOK'
  BY <1>1, <1>2, <1>3, <1>8, <1>9 DEF AuditIInv, AuditTypeOK
<1>5. T4First' /\ NotBefore' /\ BackfillOwns'
  BY <1>1, <1>2, <1>3, <1>7, <1>8 DEF AuditIInv, T4First, NotBefore, BackfillOwns
<1>10. CounterfactualOnce'
  BY <1>1, <1>2, <1>7, <1>8 DEF AuditIInv, AuditTypeOK, CounterfactualOnce
<1>11. QED
  BY <1>4, <1>5, <1>10 DEF AuditIInv

LEMMA DownKeeps == Down /\ [AuditNext]_auditVars => Down'
<1>1. SUFFICES ASSUME Down, [AuditNext]_auditVars PROVE Down'
  OBVIOUS
<1>2. CASE UNCHANGED auditVars
  BY <1>1, <1>2 DEF auditVars, Down
<1>3. CASE TakeSnapshot \/ CloseTrade \/ Counterfactual \/ Tick
  BY <1>1, <1>3 DEF TakeSnapshot, CloseTrade, Counterfactual, Tick, Down
<1>4. CASE Consume \/ BackfillStep
  BY <1>1, <1>4 DEF Consume, BackfillStep, Backfill, Reschedule, Down
<1>5. CASE HandleSignal \/ HandleTrade
  BY <1>1, <1>5 DEF HandleSignal, HandleTrade, Down
<1>6. CASE RunJob
  BY <1>1, <1>6 DEF RunJob, Down
<1>7. CASE Crash \/ StartService
  BY <1>1, <1>7 DEF Crash, StartService, Down
<1>8. QED
  BY <1>1, <1>2, <1>3, <1>4, <1>5, <1>6, <1>7 DEF AuditNext

LEMMA StepKeeps == AuditIInv /\ Down /\ [AuditNext]_auditVars => AuditIInv' /\ Stays
<1>1. SUFFICES ASSUME AuditIInv, Down, [AuditNext]_auditVars PROVE AuditIInv' /\ Stays
  OBVIOUS
<1>2. ASSUME UNCHANGED log PROVE Stays
  BY <1>2 DEF Stays
<1>3. CASE UNCHANGED auditVars
  <2>1. queue' \in Seq(Event) /\ hand' \in Seq(Event) /\ closedTrades' \in Int
    BY <1>1, <1>3 DEF auditVars, AuditIInv, AuditTypeOK
  <2>2. QED
    BY <1>1, <1>2, <1>3, <2>1, AsideKeeps DEF auditVars
<1>4. CASE TakeSnapshot \/ CloseTrade
  BY <1>1, <1>2, <1>4, ProducersKeep DEF TakeSnapshot, CloseTrade
<1>5. CASE Consume
  BY <1>1, <1>2, <1>5, ConsumeKeeps DEF Consume
<1>6. CASE HandleSignal
  <2>1. Stays
    <3>1. CASE UNCHANGED log
      BY <1>2, <3>1
    <3>2. CASE log' = Append(log, Record(hand[1]))
      <4>1. \A i \in DOMAIN log : log'[i] = log[i]
        BY <1>1, <3>2, LogFacts DEF AuditIInv, AuditTypeOK
      <4>2. QED
        BY <4>1 DEF Stays
    <3>3. QED
      BY <1>6, <3>1, <3>2 DEF HandleSignal
  <2>2. QED
    BY <1>1, <1>6, <2>1, HandleSignalKeeps
<1>7. CASE HandleTrade
  BY <1>1, <1>7, HandleTradeKeeps DEF Stays
<1>8. CASE RunJob
  BY <1>1, <1>8, RunJobKeeps
<1>9. CASE BackfillStep
  <2>1. PICK i \in DOMAIN backlog : IF backlog[i] = 4 THEN Reschedule(i) ELSE Backfill(i)
    BY <1>9 DEF BackfillStep
  <2>2. QED
    BY <1>1, <2>1, BackfillKeeps, RescheduleKeeps
<1>10. CASE Counterfactual \/ Tick \/ Crash \/ StartService
  <2>1. Stays
    <3>1. CASE Counterfactual \/ Tick \/ Crash
      BY <1>2, <3>1 DEF Counterfactual, Tick, Crash
    <3>2. CASE StartService
      <4>1. \A i \in DOMAIN log : log[i] \in LogRow
        BY <1>1, LogFacts DEF AuditIInv
      <4>2. \A i \in DOMAIN log : log'[i] = [log[i] EXCEPT !.lost = FALSE]
        BY <3>2 DEF StartService
      <4>3. QED
        BY <4>1, <4>2 DEF Stays, LogRow
    <3>3. QED
      BY <1>10, <3>1, <3>2
  <2>2. QED
    BY <1>1, <1>10, <2>1, CounterfactualKeeps, TickKeeps, CrashKeeps, AuditRestartKeeps
<1>11. QED
  BY <1>1, <1>3, <1>4, <1>5, <1>6, <1>7, <1>8, <1>9, <1>10 DEF AuditNext

-----------------------------------------------------------------------------

LEMMA Invariant == AuditSpec => [](AuditIInv /\ Down)
<1>1. AuditInit => AuditIInv /\ Down
  BY AuditInitIInv DEF AuditInit, Down
<1>2. AuditIInv /\ Down /\ [AuditNext]_auditVars => (AuditIInv /\ Down)'
  BY StepKeeps, DownKeeps
<1>3. QED
  BY <1>1, <1>2, PTL DEF AuditSpec

\* Whatever fails and however often the process is restarted, a snapshot has one counterfactual
\* entry at the most, and it has been judged: the set of entries is asked each time, and a check
\* that is run again never withdraws a judgement.
THEOREM EntriesOnce == AuditSpec => []CounterfactualOnce
<1>1. AuditIInv => CounterfactualOnce
  BY DEF AuditIInv
<1>2. QED
  BY <1>1, Invariant, PTL

\* A complete record stays complete unless all its checks were due when they were started: time
\* does not pass T16 while T4 waits, and the backfill leaves complete records alone.
THEOREM CompletionIsKept == AuditSpec => CompleteStays
<1>1. AuditIInv /\ Down /\ [AuditNext]_auditVars =>
        [\A i \in DOMAIN log :
           log[i].status = "COMPLETE" /\ ~log[i].raced => log'[i].status = "COMPLETE"]_auditVars
  BY StepKeeps DEF Stays
<1>2. QED
  BY <1>1, Invariant, PTL DEF AuditSpec, CompleteStays
=============================================================================
