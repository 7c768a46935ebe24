------------------------- MODULE CircuitBreakerProofs -------------------------
(***************************************************************************)
(* Proofs about CircuitBreaker for any number of processes, locks and      *)
(* hours and any lock durations.                                           *)
(***************************************************************************)
EXTENDS CircuitBreaker, TLAPS

USE DurationsAssumption, ActorsAssumption

-----------------------------------------------------------------------------
(* The inductive invariant *)

\* The hour at which row i was first due to end.
Due(i) == UnlockTime(rows[i].trigger, rows[i].triggeredAt)

\* Extensions only push an unlock time out, and no further than one extension
\* from now.
RowsOK ==
  \A i \in DOMAIN rows :
    /\ rows[i].unlockAt >= Due(i)
    /\ rows[i].unlockAt <= Due(i) \/ rows[i].unlockAt <= now + REGIME_UNCHANGED_EXTENSION_HOURS

\* A process's copy of a row lags behind the row but not behind its first due
\* hour; a process about to cache an extension has just written it.
CopyOK ==
  \A p \in Procs :
    /\ call[p].row # NoRow =>
         /\ call[p].row.id \in DOMAIN rows
         /\ call[p].row.unlockAt >= Due(call[p].row.id)
         /\ call[p].row.unlockAt <= rows[call[p].row.id].unlockAt
    /\ call[p].at \in {"extended", "inserted"} => call[p].row # NoRow
    /\ call[p].at = "extended" =>
         now + REGIME_UNCHANGED_EXTENSION_HOURS <= rows[call[p].row.id].unlockAt

IInv == TypeOK /\ RowsOK /\ CopyOK /\ AutoReleaseNotEarly /\ LockFlagWithinLock

-----------------------------------------------------------------------------
(* Lemmas on the operators *)

\* A lock triggered at hour t ends at some hour.
LEMMA UnlockTimeType ==
  ASSUME NEW t \in Nat, NEW trigger \in Triggers
  PROVE  UnlockTime(trigger, t) \in Nat
<1>1. t \div HoursPerDay \in Nat
  OBVIOUS
<1>2. ((t \div HoursPerDay) + 1) * HoursPerDay \in Nat
  BY <1>1
<1>. QED
  BY <1>2 DEF UnlockTime, Triggers

CallType == [at: Ats, op: Ops,
             row: [id: Nat, unlockAt: Nat, regime: Regimes \cup {NoRegime}]]

\* The empty copy is one a call may hold.
LEMMA NoRowType == NoRow \in [id: Nat, unlockAt: Nat, regime: Regimes \cup {NoRegime}]
  BY DEF NoRow

\* Whatever the answer, the call that follows is one without a row.
LEMMA AnsweredType ==
  ASSUME NEW op \in Ops, NEW locked \in BOOLEAN
  PROVE  /\ Answered(op, locked) \in CallType
         /\ Answered(op, locked).row = NoRow
         /\ Answered(op, locked).at \in {"idle", "select", "evaluate"}
  BY NoRowType DEF Answered, Idle, Call, CallType, Ats, Ops

\* A process outside any call holds no copy.
LEMMA IdleType == Idle \in CallType /\ Idle.row = NoRow /\ Idle.at = "idle"
  BY NoRowType DEF Idle, Call, CallType, Ats, Ops

\* A new lock is a row that was triggered now and that nobody has unlocked.
LEMMA NewRowType ==
  ASSUME NEW t \in Triggers, NEW r \in Regimes, now \in Nat
  PROVE  /\ NewRow(t, r) \in Row
         /\ NewRow(t, r).unlockAt = UnlockTime(t, now)
         /\ NewRow(t, r).trigger = t
         /\ NewRow(t, r).triggeredAt = now
         /\ NewRow(t, r).unlockedBy = "none"
  BY UnlockTimeType DEF NewRow, Row

\* The table is a sequence of rows: every index names one.
LEMMA RowAt ==
  ASSUME TypeOK, NEW i \in DOMAIN rows
  PROVE  /\ i \in 1 .. Len(rows)
         /\ rows[i] \in Row
         /\ rows[i].unlockAt \in Nat
         /\ Due(i) \in Nat
<1>1. i \in 1 .. Len(rows) /\ rows[i] \in Row
  BY DEF TypeOK
<1>2. rows[i].unlockAt \in Nat /\ rows[i].triggeredAt \in Nat /\ rows[i].trigger \in Triggers
  BY <1>1 DEF Row
<1>. QED
  BY <1>1, <1>2, UnlockTimeType DEF Due

-----------------------------------------------------------------------------
(* The initial states and the steps *)

\* The empty table satisfies the invariant.
LEMMA InitIInv == Init => IInv
  BY IdleType
  DEF Init, IInv, TypeOK, RowsOK, CopyOK, AutoReleaseNotEarly, LockFlagWithinLock,
      NoKey, CallType, Row

\* A step of p that leaves the table and the clock alone.
LEMMA CallOnly ==
  ASSUME IInv, NEW p \in Procs, NEW c \in CallType,
         UNCHANGED <<now, regime, rows>>,
         Goto(p, c),
         c.row # NoRow => \/ c.row = call[p].row
                          \/ \E i \in DOMAIN rows : c.row = Copy(i),
         c.at \notin {"extended", "inserted"},
         cache' \in [flag: {"none", "0", "1"}, until: Int],
         cache'.flag = "1" => \E i \in DOMAIN rows : cache'.until <= rows[i].unlockAt
  PROVE  IInv'
<1>1. TypeOK'
  BY DEF IInv, TypeOK, Goto, CallType
<1>2. RowsOK' /\ AutoReleaseNotEarly' /\ LockFlagWithinLock'
  BY DEF IInv, RowsOK, AutoReleaseNotEarly, LockFlagWithinLock, Due
<1>3. CopyOK'
  <2>. SUFFICES ASSUME NEW q \in Procs
                PROVE  CopyOK!(q)'
    BY DEF CopyOK
  <2>1. CASE q # p
    BY <2>1 DEF IInv, TypeOK, CopyOK, Goto, Due
  <2>2. CASE q = p
    <3>1. call'[p] = c
      BY DEF IInv, TypeOK, Goto
    <3>2. CASE c.row = call[p].row
      BY <2>2, <3>1, <3>2 DEF IInv, CopyOK, Due
    <3>3. CASE \E i \in DOMAIN rows : c.row = Copy(i)
      <4>1. PICK i \in DOMAIN rows : c.row = Copy(i)
        BY <3>3
      <4>2. c.row.id = i /\ c.row.unlockAt = rows[i].unlockAt
        BY <4>1 DEF Copy
      <4>3. rows[i].unlockAt \in Nat
        BY RowAt DEF IInv
      <4>4. rows[i].unlockAt >= Due(i)
        BY DEF IInv, RowsOK
      <4>5. Due(i)' = Due(i)
        BY DEF Due
      <4>. QED
        BY <2>2, <3>1, <4>2, <4>3, <4>4, <4>5 DEF CopyOK
    <3>4. CASE c.row = NoRow
      BY <2>2, <3>1, <3>4 DEF IInv, CopyOK, Due
    <3>. QED
      BY <3>2, <3>3, <3>4
  <2>. QED
    BY <2>1, <2>2
<1>. QED
  BY <1>1, <1>2, <1>3 DEF IInv

\* The steps that leave the table alone.
LEMMA ReadingSteps ==
  ASSUME IInv, NEW p \in Procs,
         \/ \E op \in {"gate", "record", "drawdown"} : IsLocked(p, op)
         \/ Status(p) \/ Select(p) \/ NothingLocked(p) \/ StillLocked(p)
         \/ CacheExpiry(p) \/ MaskExpiry(p) \/ NoTrigger(p) \/ CacheActivation(p)
         \/ CacheManualUnlock(p) \/ Stop(p) \/ SelectFails(p) \/ ExpiryUpdateFails(p)
  PROVE  IInv'
<1>. USE DEF CallType
<1>0. /\ TypeOK /\ CopyOK /\ now \in Nat /\ call[p] \in CallType
      /\ cache \in [flag: {"none", "0", "1"}, until: Int]
      /\ cache.flag = "1" => \E i \in DOMAIN rows : cache.until <= rows[i].unlockAt
  BY DEF IInv, TypeOK, LockFlagWithinLock
<1>1. /\ UnlockedFlag \in [flag: {"none", "0", "1"}, until: Int]
      /\ UnlockedFlag.flag # "1"
  BY <1>0 DEF UnlockedFlag, Flag
<1>2. /\ [call[p] EXCEPT !.at = "mask"] \in CallType
      /\ [call[p] EXCEPT !.at = "mask"].row = call[p].row
      /\ [call[p] EXCEPT !.at = "mask"].at = "mask"
  BY <1>0 DEF Ats
<1>3. ASSUME NEW op \in {"gate", "record", "drawdown"}, IsLocked(p, op) PROVE IInv'
  <2>1. CASE cache = NoKey
    <3>1. Call("select", op, NoRow) \in CallType
      BY NoRowType DEF Call, Ats, Ops
    <3>. QED
      BY <1>0, <1>3, <2>1, <3>1, CallOnly DEF IsLocked, Call
  <2>2. CASE cache # NoKey
    <3>1. op \in Ops /\ (cache.flag = "1") \in BOOLEAN
      BY DEF Ops
    <3>. QED
      BY <1>0, <1>3, <2>2, <3>1, AnsweredType, CallOnly DEF IsLocked
  <2>. QED
    BY <2>1, <2>2
<1>4. CASE Status(p)
  <2>1. Call("select", "status", NoRow) \in CallType
    BY NoRowType DEF Call, Ats, Ops
  <2>. QED
    BY <1>0, <1>4, <2>1, CallOnly DEF Status, Call
<1>5. CASE Select(p)
  <2>1. call[p].op \in Ops
    BY <1>0
  <2>2. CASE Goto(p, Call("decide", call[p].op, NoRow))
    <3>1. Call("decide", call[p].op, NoRow) \in CallType
      BY <2>1, NoRowType DEF Call, Ats
    <3>. QED
      BY <1>0, <1>5, <2>2, <3>1, CallOnly DEF Select, Call
  <2>3. CASE \E i \in NewestLocked : Goto(p, Call("decide", call[p].op, Copy(i)))
    <3>1. PICK i \in DOMAIN rows : Goto(p, Call("decide", call[p].op, Copy(i)))
      BY <2>3 DEF NewestLocked, LockedRows
    <3>2. Copy(i) \in [id: Nat, unlockAt: Nat, regime: Regimes \cup {NoRegime}]
      BY <1>0, RowAt DEF Copy, Row
    <3>3. Call("decide", call[p].op, Copy(i)) \in CallType
      BY <2>1, <3>2 DEF Call, Ats
    <3>4. /\ Call("decide", call[p].op, Copy(i)).row = Copy(i)
          /\ Call("decide", call[p].op, Copy(i)).at = "decide"
      BY DEF Call
    <3>5. UNCHANGED <<now, regime, rows, cache>>
      BY <1>5 DEF Select
    <3>. QED
      BY <1>0, <3>1, <3>3, <3>4, <3>5, CallOnly
  <2>. QED
    BY <1>5, <2>2, <2>3 DEF Select
<1>6. CASE NothingLocked(p) \/ MaskExpiry(p)
  <2>1. call[p].op \in Ops
    BY <1>0
  <2>2. UNCHANGED <<now, regime, rows>> /\ cache' = UnlockedFlag /\ Goto(p, Answered(call[p].op, FALSE))
    BY <1>6 DEF NothingLocked, MaskExpiry
  <2>. QED
    BY <1>1, <2>1, <2>2, AnsweredType, CallOnly
<1>7. CASE StillLocked(p)
  <2>1. call[p].op \in Ops /\ call[p].row.unlockAt \in Nat
    BY <1>0
  <2>2. /\ cache' \in [flag: {"none", "0", "1"}, until: Int]
        /\ cache'.until = call[p].row.unlockAt
    BY <1>7, <2>1 DEF StillLocked, LockedFlag, Flag
  <2>3. \E i \in DOMAIN rows : cache'.until <= rows[i].unlockAt
    BY <1>0, <1>7, <2>2 DEF StillLocked, CopyOK
  <2>. QED
    BY <1>7, <2>1, <2>2, <2>3, AnsweredType, CallOnly DEF StillLocked
<1>8. CASE CacheExpiry(p)
  <2>1. CASE At(p, "extended")
    <3>1. cache' = [flag |-> "1", until |-> now + REGIME_UNCHANGED_EXTENSION_HOURS]
      BY <1>8, <2>1 DEF CacheExpiry, LockedFlag, Flag
    <3>2. \E i \in DOMAIN rows : now + REGIME_UNCHANGED_EXTENSION_HOURS <= rows[i].unlockAt
      BY <1>0, <2>1 DEF At, CopyOK
    <3>. QED
      BY <1>0, <1>2, <1>8, <3>1, <3>2, CallOnly DEF CacheExpiry
  <2>2. CASE ~At(p, "extended")
    BY <1>1, <1>2, <1>8, <2>2, CallOnly DEF CacheExpiry
  <2>. QED
    BY <2>1, <2>2
<1>9. CASE NoTrigger(p) \/ Stop(p)
  BY <1>0, <1>9, IdleType, CallOnly DEF NoTrigger, Stop
<1>10. CASE CacheActivation(p)
  <2>1. /\ cache' = [flag |-> "1", until |-> call[p].row.unlockAt]
        /\ call[p].row.unlockAt \in Nat
    BY <1>0, <1>10 DEF CacheActivation, LockedFlag, Flag
  <2>2. \E i \in DOMAIN rows : call[p].row.unlockAt <= rows[i].unlockAt
    BY <1>0, <1>10 DEF CacheActivation, At, CopyOK
  <2>. QED
    BY <1>10, <2>1, <2>2, IdleType, CallOnly DEF CacheActivation
<1>11. CASE CacheManualUnlock(p)
  BY <1>1, <1>11, IdleType, CallOnly DEF CacheManualUnlock
<1>12. CASE SelectFails(p)
  BY <1>0, <1>12, AnsweredType, CallOnly DEF SelectFails
<1>13. CASE ExpiryUpdateFails(p)
  BY <1>0, <1>2, <1>13, CallOnly DEF ExpiryUpdateFails
<1>. QED
  BY <1>3, <1>4, <1>5, <1>6, <1>7, <1>8, <1>9, <1>10, <1>11, <1>12, <1>13

\* The expiry handler acts on a copy that is due: the row it names is due too,
\* unless another handler has extended it in the meantime.
LEMMA ExpiredRow ==
  ASSUME IInv, NEW p \in Procs, Expired(p)
  PROVE  /\ call[p].row.id \in 1 .. Len(rows)
         /\ rows[call[p].row.id] \in Row
         /\ Due(call[p].row.id) \in Nat
         /\ Due(call[p].row.id) <= now
         /\ rows[call[p].row.id].unlockAt <= now + REGIME_UNCHANGED_EXTENSION_HOURS
<1>1. TypeOK /\ CopyOK /\ RowsOK /\ now \in Nat /\ call[p] \in CallType
  BY DEF IInv, TypeOK, CallType
<1>2. /\ call[p].row.id \in DOMAIN rows
      /\ call[p].row.unlockAt >= Due(call[p].row.id)
      /\ call[p].row.unlockAt <= now /\ call[p].row.unlockAt \in Nat
  BY <1>1 DEF Expired, CopyOK, CallType
<1>3. /\ call[p].row.id \in 1 .. Len(rows)
      /\ rows[call[p].row.id] \in Row
      /\ Due(call[p].row.id) \in Nat
      /\ rows[call[p].row.id].unlockAt \in Nat
  BY <1>1, <1>2, RowAt
<1>4. Due(call[p].row.id) <= now
  BY <1>1, <1>2, <1>3
<1>5. \/ rows[call[p].row.id].unlockAt <= Due(call[p].row.id)
      \/ rows[call[p].row.id].unlockAt <= now + REGIME_UNCHANGED_EXTENSION_HOURS
  BY <1>1, <1>2 DEF RowsOK
<1>. QED
  BY <1>1, <1>3, <1>4, <1>5

\* What a table is after an UPDATE of one row.
LEMMA UpdateAt ==
  ASSUME NEW S, NEW s \in Seq(S), NEW i \in 1 .. Len(s), NEW e \in S
  PROVE  /\ [s EXCEPT ![i] = e] \in Seq(S)
         /\ DOMAIN [s EXCEPT ![i] = e] = DOMAIN s
         /\ [s EXCEPT ![i] = e][i] = e
         /\ \A j \in DOMAIN s : j # i => [s EXCEPT ![i] = e][j] = s[j]
  OBVIOUS

\* A step that adds rows or pushes unlock times out keeps what is known of the
\* processes that do not move, and of the rows it does not extend.
LEMMA TableStep ==
  ASSUME IInv, now' = now, rows' \in Seq(Row), DOMAIN rows \subseteq DOMAIN rows',
         \A i \in DOMAIN rows : /\ rows'[i].trigger = rows[i].trigger
                              /\ rows'[i].triggeredAt = rows[i].triggeredAt
                              /\ rows'[i].unlockAt >= rows[i].unlockAt
  PROVE  /\ \A i \in DOMAIN rows : /\ Due(i)' = Due(i)
                                 /\ Due(i) \in Nat
                                 /\ rows[i].unlockAt \in Nat
                                 /\ rows'[i].unlockAt \in Nat
                                 /\ rows'[i].unlockAt >= Due(i)
         /\ \A q \in Procs : call'[q] = call[q] => CopyOK!(q)'
         /\ cache' = cache => LockFlagWithinLock'
<1>1. TypeOK /\ RowsOK /\ CopyOK
  BY DEF IInv
<1>2. ASSUME NEW i \in DOMAIN rows
      PROVE  /\ Due(i)' = Due(i) /\ Due(i) \in Nat
             /\ rows[i].unlockAt \in Nat /\ rows'[i].unlockAt \in Nat
             /\ rows'[i].unlockAt >= Due(i)
  <2>1. Due(i) \in Nat /\ rows[i].unlockAt \in Nat
    BY <1>1, RowAt
  <2>2. Due(i)' = Due(i)
    BY DEF Due
  <2>3. rows'[i] \in Row
    OBVIOUS
  <2>4. rows'[i].unlockAt \in Nat
    BY <2>3 DEF Row
  <2>5. rows[i].unlockAt >= Due(i)
    BY <1>1 DEF RowsOK
  <2>. QED
    BY <2>1, <2>2, <2>4, <2>5
<1>3. ASSUME NEW q \in Procs, call'[q] = call[q] PROVE CopyOK!(q)'
  <2>. DEFINE j == call[q].row.id
  <2>1. call[q] \in CallType /\ now \in Nat
    BY <1>1 DEF TypeOK, CallType
  <2>2. CopyOK!(q)
    BY <1>1 DEF CopyOK
  <2>3. CASE call[q].row = NoRow
    BY <1>3, <2>2, <2>3 DEF CopyOK
  <2>4. CASE call[q].row # NoRow
    <3>1. /\ j \in DOMAIN rows /\ call[q].row.unlockAt >= Due(j)
          /\ call[q].row.unlockAt <= rows[j].unlockAt
          /\ call[q].at = "extended" =>
                now + REGIME_UNCHANGED_EXTENSION_HOURS <= rows[j].unlockAt
      BY <2>2, <2>4 DEF CopyOK
    <3>2. /\ Due(j)' = Due(j) /\ j' = j
          /\ rows[j].unlockAt \in Nat /\ rows'[j].unlockAt \in Nat
          /\ rows'[j].unlockAt >= rows[j].unlockAt
      BY <1>2, <1>3, <3>1
    <3>3. call[q].row.unlockAt \in Nat
      BY <2>1 DEF CallType
    <3>4. /\ j \in DOMAIN rows' /\ call[q].row.unlockAt >= Due(j)'
          /\ call[q].row.unlockAt <= rows'[j].unlockAt
          /\ call[q].at = "extended" =>
                now + REGIME_UNCHANGED_EXTENSION_HOURS <= rows'[j].unlockAt
      BY <2>1, <3>1, <3>2, <3>3
    <3>. QED
      BY <1>3, <2>4, <3>2, <3>4 DEF CopyOK
  <2>. QED
    BY <2>3, <2>4
<1>4. ASSUME cache' = cache PROVE LockFlagWithinLock'
  <2>1. cache.until \in Int
    BY <1>1 DEF TypeOK
  <2>. QED
    BY <1>2, <1>4, <2>1 DEF IInv, LockFlagWithinLock
<1>. QED
  BY <1>2, <1>3, <1>4

\* Extending an expired lock keeps the invariant (_handle_lock_expiry, same regime).
LEMMA ExtendStep == ASSUME IInv, NEW p \in Procs, Extend(p) PROVE IInv'
<1>0. PICK id \in Nat : id = call[p].row.id
  BY DEF IInv, TypeOK
<1>. DEFINE later == now + REGIME_UNCHANGED_EXTENSION_HOURS
            new == [rows[id] EXCEPT !.unlockAt = later, !.extended = TRUE]
<1>1. /\ TypeOK /\ CopyOK /\ RowsOK /\ now \in Nat /\ later \in Nat /\ rows \in Seq(Row)
      /\ call[p] \in CallType /\ Expired(p)
  BY DEF IInv, TypeOK, CallType, Extend
<1>2. /\ id \in 1 .. Len(rows) /\ rows[id] \in Row
      /\ Due(id) \in Nat /\ Due(id) <= now
      /\ rows[id].unlockAt <= later
  BY <1>0, <1>1, ExpiredRow
<1>3. /\ new \in Row /\ new.unlockAt = later /\ new.trigger = rows[id].trigger
      /\ new.triggeredAt = rows[id].triggeredAt
      /\ new.unlockedAt = rows[id].unlockedAt /\ new.unlockedBy = rows[id].unlockedBy
  BY <1>1, <1>2 DEF Row
<1>4. rows' = [rows EXCEPT ![id] = new]
  BY <1>0 DEF Extend
<1>5. /\ rows' \in Seq(Row) /\ DOMAIN rows' = DOMAIN rows /\ rows'[id] = new
      /\ \A i \in DOMAIN rows : i # id => rows'[i] = rows[i]
  <2>. HIDE DEF new
  <2>. QED
    BY <1>1, <1>2, <1>3, <1>4, UpdateAt
<1>6. /\ now' = now /\ cache' = cache /\ regime' = regime
      /\ call' = [call EXCEPT ![p] = [call[p] EXCEPT !.at = "extended"]]
  BY DEF Extend, Goto
<1>7. \A i \in DOMAIN rows : /\ rows'[i].trigger = rows[i].trigger
                            /\ rows'[i].triggeredAt = rows[i].triggeredAt
                            /\ rows'[i].unlockedAt = rows[i].unlockedAt
                            /\ rows'[i].unlockedBy = rows[i].unlockedBy
                            /\ rows'[i].unlockAt >= rows[i].unlockAt
  <2>. TAKE i \in DOMAIN rows
  <2>. HIDE DEF new
  <2>1. rows[i].unlockAt \in Nat
    BY <1>1, RowAt
  <2>. QED
    BY <1>1, <1>2, <1>3, <1>5, <2>1
<1>8. /\ \A i \in DOMAIN rows : /\ Due(i)' = Due(i) /\ Due(i) \in Nat
                              /\ rows[i].unlockAt \in Nat /\ rows'[i].unlockAt \in Nat
                              /\ rows'[i].unlockAt >= Due(i)
      /\ \A q \in Procs : call'[q] = call[q] => CopyOK!(q)'
      /\ LockFlagWithinLock'
  BY <1>5, <1>6, <1>7, TableStep
<1>9. TypeOK'
  BY <1>1, <1>5, <1>6 DEF TypeOK, CallType, Ats
<1>10. RowsOK'
  <2>. SUFFICES ASSUME NEW i \in DOMAIN rows
                PROVE  /\ rows'[i].unlockAt >= Due(i)
                       /\ rows'[i].unlockAt <= Due(i) \/ rows'[i].unlockAt <= later
    BY <1>5, <1>6, <1>8 DEF RowsOK
  <2>1. CASE i = id
    <3>. HIDE DEF new
    <3>. QED
      BY <1>1, <1>3, <1>5, <1>8, <2>1
  <2>2. CASE i # id
    BY <1>1, <1>5, <1>8, <2>2 DEF RowsOK
  <2>. QED
    BY <2>1, <2>2
<1>11. CopyOK'
  <2>. SUFFICES ASSUME NEW q \in Procs
                PROVE  CopyOK!(q)'
    BY DEF CopyOK
  <2>1. CASE q = p
    <3>1. call'[p].row = call[p].row /\ call'[p].at = "extended"
      BY <1>1, <1>6 DEF TypeOK, CallType
    <3>2. /\ call[p].row # NoRow /\ call[p].row.unlockAt >= Due(id)
          /\ call[p].row.unlockAt <= now /\ call[p].row.unlockAt \in Nat
      BY <1>0, <1>1 DEF Expired, CopyOK, CallType
    <3>3. Due(id)' = Due(id) /\ rows'[id].unlockAt = later /\ id \in DOMAIN rows'
      <4>. HIDE DEF new
      <4>. QED
        BY <1>2, <1>3, <1>5, <1>8
    <3>4. /\ call'[p].row.id = id
          /\ call[p].row.unlockAt <= later
      BY <1>0, <1>1, <3>1, <3>2
    <3>5. Due(call[p].row.id)' = Due(id)
      BY <3>3, <3>4 DEF Due
    <3>6. /\ call'[p].row.id \in DOMAIN rows'
          /\ call'[p].row.unlockAt >= Due(call[p].row.id)'
          /\ call'[p].row.unlockAt <= rows'[call'[p].row.id].unlockAt
      <4>1. call'[p].row.unlockAt >= Due(call[p].row.id)'
        BY <3>1, <3>2, <3>5
      <4>. QED
        BY <3>1, <3>2, <3>3, <3>4, <4>1
    <3>7. now' + REGIME_UNCHANGED_EXTENSION_HOURS <= rows'[call'[p].row.id].unlockAt
      BY <1>1, <1>6, <3>3, <3>4
    <3>. QED
      BY <2>1, <3>1, <3>2, <3>6, <3>7 DEF CopyOK
  <2>2. CASE q # p
    <3>1. call'[q] = call[q]
      BY <1>1, <1>6, <2>2 DEF TypeOK
    <3>. QED
      BY <1>8, <3>1
  <2>. QED
    BY <2>1, <2>2
<1>12. AutoReleaseNotEarly'
  BY <1>5, <1>7 DEF IInv, AutoReleaseNotEarly
<1>. QED
  BY <1>8, <1>9, <1>10, <1>11, <1>12 DEF IInv

\* A step that changes only who released which row.
LEMMA ReleasingStep ==
  ASSUME IInv, NEW p \in Procs, NEW c \in CallType, Goto(p, c),
         c.row = NoRow \/ c.row = call[p].row, c.at \notin {"extended", "inserted"},
         UNCHANGED <<now, regime, cache>>,
         rows' \in Seq(Row), DOMAIN rows' = DOMAIN rows,
         \A i \in DOMAIN rows :
           /\ rows'[i].trigger = rows[i].trigger
           /\ rows'[i].triggeredAt = rows[i].triggeredAt
           /\ rows'[i].unlockAt = rows[i].unlockAt
           /\ rows'[i].unlockedBy = "auto_regime_change" =>
                \/ rows'[i].unlockedAt = now /\ Due(i) <= now
                \/ /\ rows[i].unlockedBy = "auto_regime_change"
                   /\ rows'[i].unlockedAt = rows[i].unlockedAt
  PROVE  IInv'
<1>1. TypeOK /\ CopyOK /\ RowsOK /\ AutoReleaseNotEarly /\ now \in Nat /\ rows \in Seq(Row)
  BY DEF IInv, TypeOK
<1>2. \A i \in DOMAIN rows : rows[i].unlockAt \in Nat
  BY <1>1, RowAt
<1>3. /\ \A i \in DOMAIN rows : /\ Due(i)' = Due(i) /\ Due(i) \in Nat
                              /\ rows'[i].unlockAt >= Due(i)
      /\ \A q \in Procs : call'[q] = call[q] => CopyOK!(q)'
      /\ LockFlagWithinLock'
  BY <1>2, TableStep
<1>4. TypeOK'
  BY <1>1 DEF TypeOK, Goto, CallType
<1>5. RowsOK'
  BY <1>1, <1>2, <1>3 DEF RowsOK
<1>6. AutoReleaseNotEarly'
  <2>. SUFFICES ASSUME NEW i \in DOMAIN rows, rows'[i].unlockedBy = "auto_regime_change"
                PROVE  rows'[i].unlockedAt >= Due(i)
    BY <1>3 DEF AutoReleaseNotEarly, Due
  <2>1. CASE rows'[i].unlockedAt = now /\ Due(i) <= now
    BY <1>1, <1>3, <2>1
  <2>2. CASE rows[i].unlockedBy = "auto_regime_change" /\ rows'[i].unlockedAt = rows[i].unlockedAt
    BY <1>1, <2>2 DEF AutoReleaseNotEarly, Due
  <2>. QED
    BY <2>1, <2>2
<1>7. CopyOK'
  <2>. SUFFICES ASSUME NEW q \in Procs
                PROVE  CopyOK!(q)'
    BY DEF CopyOK
  <2>1. CASE q # p
    BY <1>1, <1>3, <2>1 DEF TypeOK, Goto
  <2>2. CASE q = p
    <3>1. call'[p] = c
      BY <1>1 DEF TypeOK, Goto
    <3>2. CASE c.row = NoRow
      BY <2>2, <3>1, <3>2 DEF CopyOK
    <3>3. CASE c.row = call[p].row /\ c.row # NoRow
      <4>1. /\ c.row.id \in DOMAIN rows /\ c.row.unlockAt >= Due(c.row.id)
            /\ c.row.unlockAt <= rows[c.row.id].unlockAt
        BY <1>1, <3>3 DEF CopyOK
      <4>2. /\ c.row.id \in DOMAIN rows' /\ c.row.unlockAt >= Due(c.row.id)'
            /\ c.row.unlockAt <= rows'[c.row.id].unlockAt
        BY <1>3, <4>1
      <4>. QED
        BY <2>2, <3>1, <3>3, <4>2 DEF CopyOK, Due
    <3>. QED
      BY <3>2, <3>3
  <2>. QED
    BY <2>1, <2>2
<1>. QED
  BY <1>3, <1>4, <1>5, <1>6, <1>7 DEF IInv

\* Releasing an expired lock keeps the invariant (_handle_lock_expiry, new regime).
LEMMA ReleaseStep == ASSUME IInv, NEW p \in Procs, Release(p) PROVE IInv'
<1>0. PICK id \in Nat : id = call[p].row.id
  BY DEF IInv, TypeOK
<1>. DEFINE new == [rows[id] EXCEPT !.locked = FALSE, !.unlockedAt = now,
                                    !.unlockedBy = "auto_regime_change"]
            c == [call[p] EXCEPT !.at = "released"]
<1>1. now \in Nat /\ rows \in Seq(Row) /\ call[p] \in CallType /\ Expired(p)
  BY DEF IInv, TypeOK, CallType, Release
<1>2. id \in 1 .. Len(rows) /\ rows[id] \in Row /\ Due(id) <= now
  BY <1>0, <1>1, ExpiredRow
<1>3. /\ new \in Row /\ new.unlockAt = rows[id].unlockAt /\ new.trigger = rows[id].trigger
      /\ new.triggeredAt = rows[id].triggeredAt /\ new.unlockedAt = now
  BY <1>1, <1>2 DEF Row
<1>4. rows' = [rows EXCEPT ![id] = new] /\ UNCHANGED <<now, regime, cache>> /\ Goto(p, c)
  BY <1>0 DEF Release
<1>5. c \in CallType /\ c.row = call[p].row /\ c.at = "released"
  BY <1>1 DEF CallType, Ats
<1>. HIDE DEF new, c
<1>6. /\ rows' \in Seq(Row) /\ DOMAIN rows' = DOMAIN rows /\ rows'[id] = new
      /\ \A i \in DOMAIN rows : i # id => rows'[i] = rows[i]
  BY <1>1, <1>2, <1>3, <1>4, UpdateAt
<1>7. \A i \in DOMAIN rows :
         /\ rows'[i].trigger = rows[i].trigger
         /\ rows'[i].triggeredAt = rows[i].triggeredAt
         /\ rows'[i].unlockAt = rows[i].unlockAt
         /\ rows'[i].unlockedBy = "auto_regime_change" =>
              \/ rows'[i].unlockedAt = now /\ Due(i) <= now
              \/ /\ rows[i].unlockedBy = "auto_regime_change"
                 /\ rows'[i].unlockedAt = rows[i].unlockedAt
  BY <1>2, <1>3, <1>6
<1>. QED
  BY <1>4, <1>5, <1>6, <1>7, ReleasingStep

\* Unlocking all rows at once keeps the invariant (manual_unlock).
LEMMA ManualUnlockStep == ASSUME IInv, NEW p \in Procs, ManualUnlock(p) PROVE IInv'
<1>. DEFINE c == Call("cleared", "none", NoRow)
<1>1. now \in Nat /\ rows \in Seq(Row)
  BY DEF IInv, TypeOK
<1>2. c \in CallType /\ c.row = NoRow /\ c.at = "cleared"
  BY NoRowType DEF Call, CallType, Ats, Ops
<1>3. DOMAIN rows = 1 .. Len(rows) /\ \A i \in DOMAIN rows : rows[i] \in Row
  BY <1>1
<1>4. DOMAIN rows' = DOMAIN rows
  BY DEF ManualUnlock
<1>5. \A i \in DOMAIN rows :
         /\ rows'[i] \in Row
         /\ rows'[i].trigger = rows[i].trigger
         /\ rows'[i].triggeredAt = rows[i].triggeredAt
         /\ rows'[i].unlockAt = rows[i].unlockAt
         /\ rows'[i].unlockedBy = "auto_regime_change" =>
              /\ rows[i].unlockedBy = "auto_regime_change"
              /\ rows'[i].unlockedAt = rows[i].unlockedAt
  BY <1>1, <1>3 DEF ManualUnlock, Row
<1>6. rows' \in Seq(Row)
  <2>1. rows' = [i \in 1 .. Len(rows) |-> rows'[i]]
    BY <1>3 DEF ManualUnlock
  <2>. QED
    BY <1>1, <1>3, <1>5, <2>1
<1>. QED
  BY <1>2, <1>4, <1>5, <1>6, ReleasingStep DEF ManualUnlock

\* Inserting a new lock keeps the invariant (_activate).
LEMMA ActivateStep == ASSUME IInv, NEW p \in Procs, Activate(p) PROVE IInv'
<1>1. /\ TypeOK /\ RowsOK /\ CopyOK /\ now \in Nat /\ rows \in Seq(Row)
      /\ call[p] \in CallType
  BY DEF IInv, TypeOK, CallType
<1>2. PICK t \in Triggers, r \in Regimes :
        /\ rows' = Append(rows, NewRow(t, r))
        /\ Goto(p, Call("inserted", call[p].op,
                        [id |-> Len(rows) + 1, unlockAt |-> UnlockTime(t, now), regime |-> r]))
  BY DEF Activate, TriggersOf, Triggers
<1>3. PICK n \in Nat : n = Len(rows) + 1
  BY <1>1
<1>4. PICK u \in Nat : u = UnlockTime(t, now)
  BY <1>1, UnlockTimeType
<1>5. PICK new \in Row : new = NewRow(t, r)
  BY <1>1, NewRowType
<1>6. /\ new.unlockAt = u /\ new.trigger = t /\ new.triggeredAt = now
      /\ new.unlockedBy = "none"
  BY <1>1, <1>4, <1>5, NewRowType
<1>7. UNCHANGED <<now, regime, cache>>
  BY DEF Activate
<1>8. /\ rows' \in Seq(Row) /\ DOMAIN rows' = DOMAIN rows \cup {n} /\ n \notin DOMAIN rows
      /\ rows'[n] = new
      /\ \A i \in DOMAIN rows : rows'[i] = rows[i]
  BY <1>1, <1>2, <1>3, <1>5
<1>9. Due(n)' = u
  BY <1>4, <1>6, <1>8 DEF Due
<1>10. \A i \in DOMAIN rows : rows[i].unlockAt \in Nat
  BY <1>1, RowAt
<1>11. /\ \A i \in DOMAIN rows : Due(i)' = Due(i) /\ Due(i) \in Nat /\ rows'[i].unlockAt >= Due(i)
       /\ \A q \in Procs : call'[q] = call[q] => CopyOK!(q)'
       /\ LockFlagWithinLock'
  BY <1>7, <1>8, <1>10, TableStep
<1>. DEFINE copy == [id |-> n, unlockAt |-> u, regime |-> r]
<1>12. PICK c \in CallType : /\ c = Call("inserted", call[p].op, copy)
                            /\ c.at = "inserted" /\ c.row.id = n /\ c.row.unlockAt = u
  <2>1. /\ Call("inserted", call[p].op, copy) \in CallType
        /\ Call("inserted", call[p].op, copy).at = "inserted"
        /\ Call("inserted", call[p].op, copy).row = copy
    BY <1>1 DEF Call, CallType, Ats
  <2>. QED
    BY <2>1
<1>13. Goto(p, c)
  BY <1>2, <1>3, <1>4, <1>12
<1>14. TypeOK'
  BY <1>1, <1>7, <1>8, <1>13 DEF TypeOK, Goto, CallType
<1>15. RowsOK'
  <2>. SUFFICES ASSUME NEW i \in DOMAIN rows'
                PROVE  RowsOK!(i)'
    BY DEF RowsOK
  <2>1. CASE i = n
    BY <1>6, <1>8, <1>9, <2>1 DEF RowsOK
  <2>2. CASE i \in DOMAIN rows
    BY <1>1, <1>7, <1>8, <1>11, <2>2 DEF RowsOK
  <2>. QED
    BY <1>8, <2>1, <2>2
<1>16. AutoReleaseNotEarly'
  BY <1>6, <1>8 DEF IInv, AutoReleaseNotEarly
<1>17. CopyOK'
  <2>. SUFFICES ASSUME NEW q \in Procs
                PROVE  CopyOK!(q)'
    BY DEF CopyOK
  <2>1. CASE q # p
    BY <1>1, <1>11, <1>13, <2>1 DEF TypeOK, Goto
  <2>2. CASE q = p
    <3>1. call'[p] = c
      BY <1>1, <1>13 DEF TypeOK, Goto
    <3>2. c.row # NoRow
      BY <1>1, <1>3, <1>12 DEF NoRow
    <3>3. /\ c.row.id \in DOMAIN rows' /\ c.row.unlockAt >= Due(c.row.id)'
          /\ c.row.unlockAt <= rows'[c.row.id].unlockAt
      BY <1>6, <1>8, <1>9, <1>12
    <3>. QED
      BY <1>12, <2>2, <3>1, <3>2, <3>3 DEF CopyOK, Due
  <2>. QED
    BY <2>1, <2>2
<1>. QED
  BY <1>11, <1>14, <1>15, <1>16, <1>17 DEF IInv

\* The clock and the regime detector keep the invariant.
LEMMA EnvironmentSteps == ASSUME IInv, Tick \/ RegimeChange PROVE IInv'
<1>1. /\ TypeOK /\ RowsOK /\ CopyOK /\ now \in Nat
      /\ now' = now \/ now' = now + 1
      /\ UNCHANGED <<rows, call>>
      /\ now' # now => \A p \in Procs : call[p].at \notin {"extended", "inserted"}
  BY DEF IInv, TypeOK, Tick, RegimeChange, At
<1>2. /\ cache' \in [flag: {"none", "0", "1"}, until: Int]
      /\ cache' = cache \/ cache'.flag = "none"
      /\ regime' \in Regimes \cup {NoRegime}
  BY DEF IInv, TypeOK, Tick, RegimeChange, NoKey
<1>3. TypeOK' /\ AutoReleaseNotEarly' /\ LockFlagWithinLock'
  BY <1>1, <1>2 DEF IInv, TypeOK, AutoReleaseNotEarly, LockFlagWithinLock
<1>4. \A i \in DOMAIN rows : Due(i)' = Due(i) /\ Due(i) \in Nat /\ rows[i].unlockAt \in Nat
  BY <1>1, RowAt DEF Due
<1>5. RowsOK'
  BY <1>1, <1>4 DEF RowsOK
<1>6. CopyOK'
  BY <1>1, <1>4 DEF CopyOK
<1>. QED
  BY <1>3, <1>5, <1>6 DEF IInv

\* IInv is inductive.
LEMMA NextIInv == IInv /\ [Next]_vars => IInv'
<1>. SUFFICES ASSUME IInv, [Next]_vars PROVE IInv'
  OBVIOUS
<1>1. ASSUME NEW p \in Procs, Step(p) PROVE IInv'
  BY <1>1, ReadingSteps, ExtendStep, ReleaseStep, ActivateStep, ManualUnlockStep DEF Step
<1>2. CASE Tick \/ RegimeChange
  BY <1>2, EnvironmentSteps
<1>3. CASE UNCHANGED vars
  BY <1>3 DEF vars, IInv, TypeOK, RowsOK, CopyOK, Due, AutoReleaseNotEarly, LockFlagWithinLock
<1>. QED
  BY <1>1, <1>2, <1>3 DEF Next

-----------------------------------------------------------------------------
(* Theorems *)

\* The inductive invariant holds throughout.
THEOREM Inductive == Spec => []IInv
  BY InitIInv, NextIInv, PTL DEF Spec

\* Every variable keeps its type.
THEOREM TypeCorrect == Spec => []TypeOK
<1>1. IInv => TypeOK
  BY DEF IInv
<1>. QED
  BY <1>1, Inductive, PTL

\* get_lock_info releases no lock before the hour it was first due to end,
\* whatever other processes do to the row between its SELECT and its UPDATE.
THEOREM ReleaseNotEarly == Spec => []AutoReleaseNotEarly
<1>1. IInv => AutoReleaseNotEarly
  BY DEF IInv
<1>. QED
  BY <1>1, Inductive, PTL

\* The Redis flag "1" never blocks trading past the last lock on record.
THEOREM FlagWithinLock == Spec => []LockFlagWithinLock
<1>1. IInv => LockFlagWithinLock
  BY DEF IInv
<1>. QED
  BY <1>1, Inductive, PTL

\* Handlers of the same expiry never pull an unlock time in.
THEOREM UnlockMonotonic == Spec => UnlockNeverPulledIn
<1>1. ASSUME IInv, [Next]_vars, NEW i \in DOMAIN rows
      PROVE  rows'[i].unlockAt >= rows[i].unlockAt
  <2>1. TypeOK /\ rows[i].unlockAt \in Nat /\ rows \in Seq(Row) /\ now \in Nat
    BY <1>1, RowAt DEF IInv, TypeOK
  <2>2. CASE UNCHANGED rows
    BY <2>1, <2>2
  <2>3. ASSUME NEW p \in Procs, Extend(p) PROVE rows'[i].unlockAt >= rows[i].unlockAt
    <3>1. /\ call[p].row.id \in 1 .. Len(rows) /\ rows[call[p].row.id] \in Row
          /\ rows[call[p].row.id].unlockAt <= now + REGIME_UNCHANGED_EXTENSION_HOURS
      BY <1>1, <2>3, ExpiredRow DEF Extend
    <3>2. CASE i = call[p].row.id
      BY <2>1, <2>3, <3>1, <3>2 DEF Extend, Row
    <3>3. CASE i # call[p].row.id
      BY <2>1, <2>3, <3>1, <3>3 DEF Extend
    <3>. QED
      BY <3>2, <3>3
  <2>4. ASSUME NEW p \in Procs, Release(p) PROVE rows'[i].unlockAt >= rows[i].unlockAt
    <3>1. /\ call[p].row.id \in 1 .. Len(rows) /\ rows[call[p].row.id] \in Row
      BY <1>1, <2>4, ExpiredRow DEF Release
    <3>2. CASE i = call[p].row.id
      <4>1. rows'[i] = [rows[i] EXCEPT !.locked = FALSE, !.unlockedAt = now,
                                      !.unlockedBy = "auto_regime_change"]
        BY <2>1, <2>4, <3>1, <3>2 DEF Release
      <4>2. rows[i] \in Row
        BY <2>1, RowAt
      <4>3. rows'[i].unlockAt = rows[i].unlockAt
        BY <4>1, <4>2 DEF Row
      <4>. QED
        BY <2>1, <4>3
    <3>3. CASE i # call[p].row.id
      BY <2>1, <2>4, <3>1, <3>3 DEF Release
    <3>. QED
      BY <3>2, <3>3
  <2>5. ASSUME NEW p \in Procs, Activate(p) PROVE rows'[i].unlockAt >= rows[i].unlockAt
    BY <2>1, <2>5 DEF Activate
  <2>6. ASSUME NEW p \in Procs, ManualUnlock(p) PROVE rows'[i].unlockAt >= rows[i].unlockAt
    <3>1. rows[i] \in Row
      BY <2>1, RowAt
    <3>2. rows'[i].unlockAt = rows[i].unlockAt
      BY <2>1, <2>6, <3>1 DEF ManualUnlock, Row
    <3>. QED
      BY <2>1, <3>2
  <2>. QED
    BY <1>1, <2>2, <2>3, <2>4, <2>5, <2>6
    DEF Next, Step, vars, IsLocked, Status, Select, NothingLocked, StillLocked, CacheExpiry,
        MaskExpiry, NoTrigger, CacheActivation, CacheManualUnlock, Stop, SelectFails,
        ExpiryUpdateFails, Tick, RegimeChange
<1>2. IInv /\ [Next]_vars =>
        [\A i \in DOMAIN rows : rows'[i].unlockAt >= rows[i].unlockAt]_vars
  BY <1>1
<1>. QED
  BY <1>2, Inductive, PTL DEF Spec, UnlockNeverPulledIn

-----------------------------------------------------------------------------
(* The cached flag when one process runs, and nothing fails.  A lock that   *)
(* is in force and was never extended is the newest locked row, so the row  *)
(* a call picks is the one that counts.                                     *)

Alone(p) == Procs = {p} /\ MayFail = {}

Hot(i) == rows[i].locked /\ now < rows[i].unlockAt /\ ~rows[i].extended
NoneHot == \A i \in DOMAIN rows : ~Hot(i)

KeyOK ==
  /\ cache.flag = "none" => cache = NoKey
  /\ cache # NoKey => now <= cache.until

TableOK ==
  /\ \A i \in DOMAIN rows : rows[i].triggeredAt <= now /\ (rows[i].extended => rows[i].triggeredAt < now)
  /\ \A i, j \in DOMAIN rows : Hot(i) /\ rows[j].locked /\ i # j => rows[j].triggeredAt < rows[i].triggeredAt

\* What the call in progress has read is what the table still says.
ReadOK(c) ==
  /\ c.at = "decide" /\ c.row = NoRow => LockedRows = {}
  /\ c.at = "decide" /\ c.row # NoRow => c.row.id \in NewestLocked /\ c.row.unlockAt = rows[c.row.id].unlockAt
  /\ c.at = "inserted" => c.row.id \in LockedRows /\ now <= c.row.unlockAt
  /\ c.at = "cleared" => LockedRows = {}
  /\ c.at \in {"evaluate", "extended", "released", "mask"} => NoneHot

\* "1" stands for a locked row, "0" for none in force that was not extended.
FlagOK(c) ==
  /\ cache.flag = "1" /\ c.at \notin {"cleared", "released", "mask"} =>
       \E i \in LockedRows : cache.until <= rows[i].unlockAt
  /\ cache.flag = "0" /\ c.at \notin {"inserted", "cleared"} => NoneHot

AloneInv(p) == KeyOK /\ TableOK /\ ReadOK(call[p]) /\ FlagOK(call[p])

LEMMA LaterUnlock ==
  ASSUME NEW t \in Nat, NEW trigger \in Triggers
  PROVE  UnlockTime(trigger, t) > t
<1>1. ((t \div HoursPerDay) + 1) * HoursPerDay > t
  <2>1. t = HoursPerDay * (t \div HoursPerDay) + (t % HoursPerDay) /\ t % HoursPerDay \in 0..(HoursPerDay - 1)
    OBVIOUS
  <2>2. t \div HoursPerDay \in Nat
    OBVIOUS
  <2>3. ((t \div HoursPerDay) + 1) * HoursPerDay = HoursPerDay * (t \div HoursPerDay) + HoursPerDay
    BY <2>2
  <2>4. QED
    BY <2>1, <2>2, <2>3
<1>2. QED
  BY <1>1 DEF UnlockTime, Triggers

LEMMA InitAlone == ASSUME NEW p \in Procs, Init PROVE AloneInv(p)
  BY IdleType DEF Init, AloneInv, KeyOK, TableOK, ReadOK, FlagOK, NoKey, NoneHot, Idle, Call

\* What the table says does not change with a step that leaves it and the clock alone.
LEMMA SameTable ==
  ASSUME UNCHANGED <<now, rows>>
  PROVE  /\ LockedRows' = LockedRows /\ NewestLocked' = NewestLocked /\ (NoneHot' <=> NoneHot)
         /\ (TableOK <=> TableOK')
  BY DEF LockedRows, NewestLocked, NoneHot, Hot, TableOK

LEMMA FlagTypes ==
  ASSUME IInv
  PROVE  /\ now \in Nat /\ cache.flag \in {"none", "0", "1"} /\ cache.until \in Int
         /\ UnlockedFlag.flag = "0" /\ UnlockedFlag # NoKey /\ now <= UnlockedFlag.until
         /\ \A t \in Int : LockedFlag(t).flag = "1" /\ LockedFlag(t) # NoKey /\ LockedFlag(t).until = t
  BY DEF IInv, TypeOK, UnlockedFlag, LockedFlag, Flag, NoKey

\* A call that goes on without touching the table: what is cached must be right for where it goes.
LEMMA CallStep ==
  ASSUME IInv, NEW p \in Procs, AloneInv(p), NEW c, Goto(p, c), UNCHANGED <<now, rows>>,
         KeyOK', ReadOK(c),
         cache'.flag = "1" /\ c.at \notin {"cleared", "released", "mask"} =>
           \E i \in LockedRows : cache'.until <= rows[i].unlockAt,
         cache'.flag = "0" /\ c.at \notin {"inserted", "cleared"} => NoneHot
  PROVE  AloneInv(p)'
<1>1. call'[p] = c
  BY DEF IInv, TypeOK, Goto
<1>2. TableOK'
  BY SameTable DEF AloneInv
<1>3. ReadOK(call[p])' /\ FlagOK(call[p])'
  BY <1>1, SameTable DEF ReadOK, FlagOK
<1>4. QED
  BY <1>2, <1>3 DEF AloneInv

\* The answer "locked" leads to the row, "unlocked" to the triggers.
LEMMA AnsweredAlone ==
  ASSUME IInv, NEW op \in Ops, NEW locked \in BOOLEAN, ~locked => NoneHot
  PROVE  ReadOK(Answered(op, locked)) /\ Answered(op, locked).at \in {"idle", "select", "evaluate"}
<1>1. Answered(op, locked).at \in {"idle", "select", "evaluate"}
  BY AnsweredType
<1>2. locked => Answered(op, locked).at # "evaluate"
  BY DEF Answered, Idle, Call
<1>3. QED
  BY <1>1, <1>2 DEF ReadOK

LEMMA IsLockedAlone ==
  ASSUME IInv, NEW p \in Procs, AloneInv(p), NEW op \in {"gate", "record", "drawdown"}, IsLocked(p, op)
  PROVE  AloneInv(p)'
<1>1. call[p].at = "idle" /\ UNCHANGED <<now, rows, cache>>
  BY DEF IsLocked, At
<1>2. KeyOK' /\ KeyOK /\ FlagOK(call[p])
  BY <1>1 DEF AloneInv, KeyOK
<1>3. CASE cache = NoKey
  <2>1. Goto(p, Call("select", op, NoRow)) /\ Call("select", op, NoRow).at = "select"
    BY <1>3 DEF IsLocked, Call
  <2>2. cache.flag = "none"
    BY <1>3 DEF NoKey
  <2>3. ReadOK(Call("select", op, NoRow))
    BY <2>1 DEF ReadOK
  <2>4. QED
    BY <1>1, <1>2, <2>1, <2>2, <2>3, CallStep
<1>4. CASE cache # NoKey
  <2> DEFINE c == Answered(op, cache.flag = "1")
  <2>1. Goto(p, c)
    BY <1>4 DEF IsLocked
  <2>2. cache.flag \in {"0", "1"}
    BY <1>2, <1>4, FlagTypes DEF KeyOK
  <2>3. cache.flag # "1" => NoneHot
    BY <1>1, <1>2, <2>2 DEF FlagOK
  <2>4. ReadOK(c) /\ c.at \in {"idle", "select", "evaluate"}
    BY <2>3, AnsweredAlone DEF Ops
  <2> HIDE DEF c
  <2>5. QED
    BY <1>1, <1>2, <2>1, <2>4, CallStep DEF FlagOK
<1>5. QED
  BY <1>3, <1>4

LEMMA SelectAlone ==
  ASSUME IInv, NEW p \in Procs, AloneInv(p), Status(p) \/ Select(p)
  PROVE  AloneInv(p)'
<1>1. UNCHANGED <<now, rows, cache>> /\ call[p].at \in {"idle", "select"}
  BY DEF Status, Select, At
<1>2. KeyOK' /\ FlagOK(call[p])
  BY <1>1 DEF AloneInv, KeyOK
<1>3. ASSUME NEW c, Goto(p, c), ReadOK(c), c.at \in {"select", "decide"} PROVE AloneInv(p)'
  BY <1>1, <1>2, <1>3, CallStep DEF FlagOK
<1>4. CASE Status(p)
  <2>1. Call("select", "status", NoRow).at = "select"
    BY DEF Call
  <2>2. QED
    BY <1>3, <1>4, <2>1 DEF Status, ReadOK
<1>5. CASE Select(p) /\ LockedRows = {} /\ Goto(p, Call("decide", call[p].op, NoRow))
  <2>1. Call("decide", call[p].op, NoRow).at = "decide" /\ Call("decide", call[p].op, NoRow).row = NoRow
    BY DEF Call
  <2>2. QED
    BY <1>3, <1>5, <2>1 DEF ReadOK
<1>6. ASSUME NEW i \in NewestLocked, Goto(p, Call("decide", call[p].op, Copy(i))) PROVE AloneInv(p)'
  <2> DEFINE c == Call("decide", call[p].op, Copy(i))
  <2>1. c.at = "decide" /\ c.row.id = i /\ c.row.unlockAt = rows[i].unlockAt
    BY DEF Call, Copy
  <2>2. i \in DOMAIN rows /\ i # 0
    BY DEF NewestLocked, LockedRows, IInv, TypeOK
  <2>3. c.row # NoRow
    BY <2>1, <2>2 DEF NoRow
  <2> HIDE DEF c
  <2>4. ReadOK(c)
    BY <2>1, <2>3 DEF ReadOK
  <2>5. QED
    BY <1>3, <1>6, <2>1, <2>4 DEF c
<1>7. QED
  BY <1>4, <1>5, <1>6 DEF Select

\* Steps that cache "0": nothing that counts is in force.
LEMMA CacheUnlocked ==
  ASSUME IInv, NEW p \in Procs, AloneInv(p), NEW c, Goto(p, c), UNCHANGED <<now, rows>>,
         cache' = UnlockedFlag, NoneHot, ReadOK(c)
  PROVE  AloneInv(p)'
<1>1. cache'.flag = "0" /\ KeyOK'
  BY FlagTypes DEF KeyOK, NoKey
<1>2. QED
  BY <1>1, CallStep

\* Steps that cache "1" for a row that is locked.
LEMMA CacheLocked ==
  ASSUME IInv, NEW p \in Procs, AloneInv(p), NEW c, Goto(p, c), UNCHANGED <<now, rows>>,
         NEW t \in Int, cache' = LockedFlag(t), now <= t, ReadOK(c),
         c.at # "mask" => \E i \in LockedRows : t <= rows[i].unlockAt
  PROVE  AloneInv(p)'
<1>1. cache'.flag = "1" /\ cache'.until = t /\ KeyOK'
  BY FlagTypes DEF KeyOK, NoKey
<1>2. QED
  BY <1>1, CallStep

LEMMA DecideAlone ==
  ASSUME IInv, NEW p \in Procs, AloneInv(p), NothingLocked(p) \/ StillLocked(p) \/ MaskExpiry(p)
  PROVE  AloneInv(p)'
<1>1. call[p].op \in Ops /\ UNCHANGED <<now, rows>> /\ ReadOK(call[p])
  BY DEF IInv, TypeOK, NothingLocked, StillLocked, MaskExpiry, AloneInv
<1>2. CASE NothingLocked(p) \/ MaskExpiry(p)
  <2>1. NoneHot
    BY <1>1, <1>2 DEF NothingLocked, MaskExpiry, At, ReadOK, LockedRows, NoneHot, Hot
  <2>2. Goto(p, Answered(call[p].op, FALSE)) /\ cache' = UnlockedFlag
    BY <1>2 DEF NothingLocked, MaskExpiry
  <2>3. ReadOK(Answered(call[p].op, FALSE))
    BY <1>1, <2>1, AnsweredAlone
  <2>4. QED
    BY <1>1, <2>1, <2>2, <2>3, CacheUnlocked
<1>3. CASE StillLocked(p)
  <2> DEFINE t == call[p].row.unlockAt
             i == call[p].row.id
  <2>1. i \in NewestLocked /\ t = rows[i].unlockAt
    BY <1>1, <1>3 DEF StillLocked, At, ReadOK
  <2>2. i \in LockedRows /\ i \in DOMAIN rows
    BY <2>1 DEF NewestLocked, LockedRows
  <2>3. t \in Int /\ rows[i].unlockAt \in Int /\ now \in Int
    BY <2>1, <2>2, RowAt DEF IInv, TypeOK
  <2>4. Goto(p, Answered(call[p].op, TRUE)) /\ cache' = LockedFlag(t) /\ now <= t
    <3>1. Goto(p, Answered(call[p].op, TRUE)) /\ cache' = LockedFlag(t) /\ now < t
      BY <1>3 DEF StillLocked
    <3>2. now \in Int /\ t \in Int
      BY <2>3
    <3> HIDE DEF t, i
    <3>3. now <= t
      BY <3>1, <3>2
    <3>4. QED
      BY <3>1, <3>3
  <2>5. ReadOK(Answered(call[p].op, TRUE))
    BY <1>1, AnsweredAlone
  <2>6. \E k \in LockedRows : t <= rows[k].unlockAt
    BY <2>1, <2>2, <2>3
  <2> HIDE DEF t, i
  <2>7. QED
    BY <1>1, <2>3, <2>4, <2>5, <2>6, CacheLocked
<1>4. QED
  BY <1>2, <1>3

LEMMA CacheAlone ==
  ASSUME IInv, NEW p \in Procs, AloneInv(p),
         CacheExpiry(p) \/ NoTrigger(p) \/ CacheActivation(p) \/ CacheManualUnlock(p)
  PROVE  AloneInv(p)'
<1>1. UNCHANGED <<now, rows>> /\ ReadOK(call[p]) /\ call[p] \in CallType /\ now \in Nat
  BY DEF CacheExpiry, NoTrigger, CacheActivation, CacheManualUnlock, AloneInv, IInv, TypeOK, CallType
<1>2. CASE CacheExpiry(p)
  <2> DEFINE c == [call[p] EXCEPT !.at = "mask"]
  <2>1. c.at = "mask" /\ Goto(p, c)
    BY <1>1, <1>2 DEF CacheExpiry, CallType
  <2>2. NoneHot
    BY <1>1, <1>2 DEF CacheExpiry, At, ReadOK
  <2> HIDE DEF c
  <2>3. ReadOK(c)
    BY <2>1, <2>2 DEF ReadOK
  <2>4. CASE At(p, "extended")
    <3> DEFINE t == now + REGIME_UNCHANGED_EXTENSION_HOURS
    <3>1. t \in Int /\ now <= t /\ cache' = LockedFlag(t)
      BY <1>1, <1>2, <2>4 DEF CacheExpiry
    <3> HIDE DEF t
    <3>2. QED
      BY <1>1, <2>1, <2>3, <3>1, CacheLocked
  <2>5. CASE ~At(p, "extended")
    BY <1>1, <1>2, <2>1, <2>2, <2>3, <2>5, CacheUnlocked DEF CacheExpiry
  <2>6. QED
    BY <2>4, <2>5
<1>3. Idle.at = "idle" /\ ReadOK(Idle)
  BY IdleType DEF ReadOK
<1>4. CASE NoTrigger(p)
  <2>1. Goto(p, Idle) /\ cache' = cache /\ call[p].at = "evaluate"
    BY <1>4 DEF NoTrigger, At
  <2>2. KeyOK' /\ FlagOK(call[p])
    BY <1>1, <2>1 DEF AloneInv, KeyOK
  <2>3. QED
    BY <1>1, <1>3, <2>1, <2>2, CallStep DEF FlagOK
<1>5. CASE CacheManualUnlock(p)
  <2>1. NoneHot
    BY <1>1, <1>5 DEF CacheManualUnlock, At, ReadOK, LockedRows, NoneHot, Hot
  <2>2. QED
    BY <1>1, <1>3, <1>5, <2>1, CacheUnlocked DEF CacheManualUnlock
<1>6. CASE CacheActivation(p)
  <2> DEFINE t == call[p].row.unlockAt
             i == call[p].row.id
  <2>1. i \in LockedRows /\ call[p].row # NoRow
    BY <1>1, <1>6 DEF CacheActivation, At, ReadOK, IInv, CopyOK
  <2>2. t <= rows[i].unlockAt /\ t \in Int
    BY <1>1, <2>1 DEF IInv, CopyOK, CallType
  <2>3. Goto(p, Idle) /\ cache' = LockedFlag(t)
    BY <1>6 DEF CacheActivation
  <2>4. now <= t
    BY <1>1, <1>6, <2>2 DEF CacheActivation, At, ReadOK
  <2> HIDE DEF t, i
  <2>5. QED
    BY <1>1, <1>3, <2>1, <2>2, <2>3, <2>4, CacheLocked
<1>7. QED
  BY <1>2, <1>4, <1>5, <1>6

\* An expired row is the newest locked one, so no other is in force without an extension.
LEMMA ExpiredAlone ==
  ASSUME IInv, NEW p \in Procs, AloneInv(p), Expired(p)
  PROVE  /\ NoneHot
         /\ call[p].row.id \in LockedRows /\ rows[call[p].row.id].triggeredAt < now
<1> DEFINE i == call[p].row.id
<1>1. i \in NewestLocked /\ rows[i].unlockAt <= now
  <2>1. i \in NewestLocked /\ call[p].row.unlockAt = rows[i].unlockAt
    BY DEF Expired, At, AloneInv, ReadOK
  <2>2. now >= call[p].row.unlockAt
    BY DEF Expired
  <2>3. i \in DOMAIN rows
    BY <2>1 DEF NewestLocked, LockedRows
  <2>4. rows[i].unlockAt \in Nat /\ now \in Nat
    BY <2>3, RowAt DEF IInv, TypeOK
  <2> HIDE DEF i
  <2>5. QED
    BY <2>1, <2>2, <2>4
<1>2. i \in LockedRows /\ i \in DOMAIN rows /\ \A j \in LockedRows : rows[j].triggeredAt <= rows[i].triggeredAt
  BY <1>1 DEF NewestLocked, LockedRows
<1>3. /\ rows[i] \in Row /\ rows[i].triggeredAt \in Nat /\ rows[i].trigger \in Triggers
      /\ Due(i) <= now /\ Due(i) \in Nat /\ now \in Nat
  BY <1>2, RowAt, ExpiredRow DEF Row, IInv, TypeOK
<1>4. rows[i].triggeredAt < now
  <2>1. Due(i) > rows[i].triggeredAt
    BY <1>3, LaterUnlock DEF Due
  <2>2. QED
    BY <1>3, <2>1
<1>5. ASSUME NEW j \in DOMAIN rows, Hot(j) PROVE FALSE
  <2>1. rows[j].unlockAt \in Nat /\ rows[j].triggeredAt \in Nat
    BY RowAt DEF IInv, Row
  <2>2. j # i
    BY <1>1, <1>3, <1>5, <2>1 DEF Hot
  <2>3. rows[i].triggeredAt < rows[j].triggeredAt
    BY <1>2, <1>5, <2>2 DEF AloneInv, TableOK, LockedRows
  <2>4. rows[j].triggeredAt <= rows[i].triggeredAt
    BY <1>2, <1>5 DEF Hot, LockedRows
  <2>5. QED
    BY <1>3, <2>1, <2>3, <2>4
<1>6. QED
  BY <1>2, <1>4, <1>5 DEF NoneHot

\* Extending a row or releasing it creates nothing that counts.
LEMMA ExpiryAlone ==
  ASSUME IInv, IInv', NEW p \in Procs, AloneInv(p), Extend(p) \/ Release(p)
  PROVE  AloneInv(p)'
<1> DEFINE i == call[p].row.id
<1>1. /\ Expired(p) /\ UNCHANGED <<now, cache>>
      /\ NoneHot /\ i \in LockedRows /\ rows[i].triggeredAt < now
      /\ rows \in Seq(Row) /\ i \in 1 .. Len(rows) /\ rows[i] \in Row /\ call[p] \in CallType
      /\ now \in Nat
  BY ExpiredAlone, ExpiredRow DEF Extend, Release, IInv, TypeOK, CallType
<1>2. /\ DOMAIN rows' = DOMAIN rows
      /\ \A j \in DOMAIN rows : j # i => rows'[j] = rows[j]
      /\ rows'[i].triggeredAt = rows[i].triggeredAt
      /\ \/ rows'[i].locked = FALSE /\ rows'[i].extended = rows[i].extended /\ call'[p].at = "released"
         \/ rows'[i].extended /\ rows'[i].locked = rows[i].locked /\ call'[p].at = "extended"
  <2>1. CASE Extend(p)
    <3> DEFINE e == [rows[i] EXCEPT !.unlockAt = now + REGIME_UNCHANGED_EXTENSION_HOURS, !.extended = TRUE]
    <3>1. e \in Row /\ e.triggeredAt = rows[i].triggeredAt /\ e.extended /\ e.locked = rows[i].locked
      <4>1. now + REGIME_UNCHANGED_EXTENSION_HOURS \in Nat
        BY <1>1
      <4> HIDE DEF i
      <4>2. QED
        BY <1>1, <4>1 DEF Row
    <3>2. rows' = [rows EXCEPT ![i] = e]
      BY <2>1 DEF Extend
    <3>3. call'[p].at = "extended"
      BY <1>1, <2>1 DEF Extend, Goto, IInv, TypeOK, CallType
    <3> HIDE DEF e, i
    <3>4. QED
      BY <1>1, <3>1, <3>2, <3>3, UpdateAt
  <2>2. CASE Release(p)
    <3> DEFINE e == [rows[i] EXCEPT !.locked = FALSE, !.unlockedAt = now, !.unlockedBy = "auto_regime_change"]
    <3>1. e \in Row /\ e.triggeredAt = rows[i].triggeredAt /\ e.extended = rows[i].extended /\ e.locked = FALSE
      BY <1>1 DEF Row
    <3>2. rows' = [rows EXCEPT ![i] = e]
      BY <2>2 DEF Release
    <3>3. call'[p].at = "released"
      BY <1>1, <2>2 DEF Release, Goto, IInv, TypeOK, CallType
    <3> HIDE DEF e, i
    <3>4. QED
      BY <1>1, <3>1, <3>2, <3>3, UpdateAt
  <2>3. QED
    BY <2>1, <2>2
<1>3. NoneHot'
  BY <1>1, <1>2 DEF NoneHot, Hot
<1>4. KeyOK' /\ TableOK'
  <2>1. KeyOK'
    BY <1>1 DEF AloneInv, KeyOK
  <2>2. \A j \in DOMAIN rows' : rows'[j].triggeredAt <= now /\ (rows'[j].extended => rows'[j].triggeredAt < now)
    BY <1>1, <1>2 DEF AloneInv, TableOK
  <2>3. QED
    BY <1>1, <1>3, <2>1, <2>2 DEF TableOK, NoneHot, Hot
<1>5. ReadOK(call[p])'
  BY <1>2, <1>3 DEF ReadOK
<1>6. FlagOK(call[p])'
  <2>1. call'[p].at = "extended" /\ cache.flag = "1" => \E k \in LockedRows' : cache.until <= rows'[k].unlockAt
    <3>1. SUFFICES ASSUME call'[p].at = "extended", cache.flag = "1"
                   PROVE  \E k \in LockedRows' : cache.until <= rows'[k].unlockAt
      OBVIOUS
    <3>2. PICK k \in LockedRows : cache.until <= rows[k].unlockAt
      BY <1>1, <3>1 DEF AloneInv, FlagOK, Expired, At
    <3>3. k \in LockedRows'
      BY <1>1, <1>2, <3>1, <3>2 DEF LockedRows
    <3>4. rows[k].unlockAt \in Nat /\ rows'[k].unlockAt \in Nat /\ cache.until \in Int
      <4>1. k \in DOMAIN rows /\ k \in DOMAIN rows'
        BY <1>2, <3>2 DEF LockedRows
      <4>2. rows \in Seq(Row) /\ rows' \in Seq(Row) /\ cache.until \in Int
        BY DEF IInv, TypeOK
      <4>3. rows[k] \in Row /\ rows'[k] \in Row
        BY <4>1, <4>2
      <4>4. QED
        BY <4>2, <4>3 DEF Row
    <3>5. rows'[k].unlockAt >= rows[k].unlockAt
      <4>1. CASE k # i
        <5>1. rows'[k] = rows[k]
          BY <1>2, <3>2, <4>1 DEF LockedRows
        <5>2. QED
          BY <3>4, <5>1
      <4>2. CASE k = i
        <5>1. Extend(p)
          BY <1>1, <3>1 DEF Release, Goto, IInv, TypeOK, CallType
        <5>2. rows'[i].unlockAt = now + REGIME_UNCHANGED_EXTENSION_HOURS
          BY <1>1, <5>1 DEF Extend, Row
        <5>3. rows[i].unlockAt <= now + REGIME_UNCHANGED_EXTENSION_HOURS
          BY <1>1, ExpiredRow
        <5> HIDE DEF i
        <5>4. QED
          BY <1>1, <3>4, <4>2, <5>2, <5>3
      <4>3. QED
        BY <4>1, <4>2
    <3>6. QED
      BY <3>2, <3>3, <3>4, <3>5
  <2>2. QED
    BY <1>1, <1>2, <1>3, <2>1 DEF FlagOK
<1>7. QED
  BY <1>4, <1>5, <1>6 DEF AloneInv

\* A new lock is triggered later than every lock that is left.
LEMMA ActivateAlone == ASSUME IInv, NEW p \in Procs, AloneInv(p), Activate(p) PROVE AloneInv(p)'
<1>1. PICK t \in Triggers, r \in Regimes :
        /\ rows' = Append(rows, NewRow(t, r))
        /\ Goto(p, Call("inserted", call[p].op,
                        [id |-> Len(rows) + 1, unlockAt |-> UnlockTime(t, now), regime |-> r]))
  BY DEF Activate, TriggersOf, Triggers
<1> DEFINE n == Len(rows) + 1
           e == NewRow(t, r)
<1>2. /\ rows \in Seq(Row) /\ now \in Nat /\ Len(rows) \in Nat /\ DOMAIN rows = 1 .. Len(rows)
      /\ NoneHot /\ KeyOK /\ TableOK /\ FlagOK(call[p]) /\ call[p].at = "evaluate"
      /\ UNCHANGED <<now, cache>>
  BY DEF IInv, TypeOK, Activate, At, AloneInv, ReadOK
<1>3. /\ e \in Row /\ e.triggeredAt = now /\ e.locked /\ ~e.extended
      /\ e.unlockAt = UnlockTime(t, now) /\ UnlockTime(t, now) > now /\ UnlockTime(t, now) \in Nat
  BY <1>2, NewRowType, LaterUnlock, UnlockTimeType DEF NewRow
<1>4. /\ call'[p].at = "inserted" /\ call'[p].row.id = n /\ call'[p].row.unlockAt = UnlockTime(t, now)
      /\ call'[p].row # NoRow
  BY <1>1, <1>2 DEF Goto, IInv, TypeOK, Call, NoRow
<1> HIDE DEF e
<1>5. /\ DOMAIN rows' = 1 .. n /\ rows'[n] = e /\ \A j \in DOMAIN rows : rows'[j] = rows[j]
      /\ DOMAIN rows' = DOMAIN rows \cup {n} /\ n \notin DOMAIN rows
  BY <1>1, <1>2, <1>3 DEF e
<1>6. ASSUME NEW j \in DOMAIN rows, rows[j].locked PROVE rows[j].triggeredAt < now
  <2>1. /\ rows[j].triggeredAt \in Nat /\ rows[j].trigger \in Triggers /\ rows[j].unlockAt \in Nat
        /\ Due(j) \in Nat /\ Due(j) <= rows[j].unlockAt
    BY RowAt DEF IInv, Row, RowsOK
  <2>2. rows[j].triggeredAt <= now /\ (rows[j].extended => rows[j].triggeredAt < now)
    BY <1>2 DEF TableOK
  <2>3. Due(j) > rows[j].triggeredAt
    BY <2>1, LaterUnlock DEF Due
  <2>4. CASE rows[j].triggeredAt = now
    <3>1. now < rows[j].unlockAt
      BY <1>2, <2>1, <2>3, <2>4
    <3>2. QED
      BY <1>2, <1>6, <2>2, <2>4, <3>1 DEF NoneHot, Hot
  <2>5. CASE rows[j].triggeredAt # now
    BY <1>2, <2>1, <2>2, <2>5
  <2>6. QED
    BY <2>4, <2>5
<1>7. KeyOK'
  BY <1>2 DEF KeyOK
<1>8. TableOK'
  <2>1. \A i \in DOMAIN rows' : rows'[i].triggeredAt <= now /\ (rows'[i].extended => rows'[i].triggeredAt < now)
    BY <1>2, <1>3, <1>5 DEF TableOK
  <2>2. ASSUME NEW i \in DOMAIN rows', NEW j \in DOMAIN rows', Hot(i)', rows'[j].locked, i # j
        PROVE  rows'[j].triggeredAt < rows'[i].triggeredAt
    <3>1. i = n
      BY <1>2, <1>5, <2>2 DEF NoneHot, Hot
    <3>2. j \in DOMAIN rows /\ rows'[j] = rows[j]
      BY <1>5, <2>2, <3>1
    <3>3. QED
      BY <1>3, <1>5, <1>6, <2>2, <3>1, <3>2
  <2>3. QED
    BY <1>2, <2>1, <2>2 DEF TableOK
<1>9. ReadOK(call[p])'
  <2>1. n \in LockedRows'
    BY <1>3, <1>5 DEF LockedRows
  <2>2. now' <= call'[p].row.unlockAt
    BY <1>2, <1>3, <1>4
  <2>3. QED
    BY <1>4, <2>1, <2>2 DEF ReadOK
<1>10. FlagOK(call[p])'
  <2>1. cache.flag = "1" => \E i \in LockedRows : cache.until <= rows[i].unlockAt
    BY <1>2 DEF FlagOK
  <2>2. \A i \in LockedRows : i \in LockedRows' /\ rows'[i] = rows[i]
    BY <1>5 DEF LockedRows
  <2>3. QED
    BY <1>2, <1>4, <2>1, <2>2 DEF FlagOK
<1>11. QED
  BY <1>7, <1>8, <1>9, <1>10 DEF AloneInv

LEMMA ManualUnlockAlone ==
  ASSUME IInv, NEW p \in Procs, AloneInv(p), ManualUnlock(p)
  PROVE  AloneInv(p)'
<1>1. /\ DOMAIN rows' = DOMAIN rows /\ UNCHANGED <<now, cache>>
      /\ \A i \in DOMAIN rows :
           /\ rows'[i].locked = FALSE /\ rows'[i].triggeredAt = rows[i].triggeredAt
           /\ rows'[i].extended = rows[i].extended
  <2>1. \A i \in DOMAIN rows : rows[i] \in Row
    BY RowAt DEF IInv
  <2>2. /\ DOMAIN rows' = DOMAIN rows /\ UNCHANGED <<now, cache>>
        /\ \A i \in DOMAIN rows :
             rows'[i] = IF rows[i].locked
                        THEN [rows[i] EXCEPT !.locked = FALSE, !.unlockedAt = now, !.unlockedBy = "user"]
                        ELSE rows[i]
    BY DEF ManualUnlock
  <2>3. ASSUME NEW i \in DOMAIN rows
        PROVE  /\ rows'[i].locked = FALSE /\ rows'[i].triggeredAt = rows[i].triggeredAt
               /\ rows'[i].extended = rows[i].extended
    <3>1. rows[i] \in Row
      BY <2>1
    <3>2. CASE rows[i].locked
      <4> DEFINE r == rows[i]
                 e == [r EXCEPT !.locked = FALSE, !.unlockedAt = now, !.unlockedBy = "user"]
      <4>1. e.locked = FALSE /\ e.triggeredAt = r.triggeredAt /\ e.extended = r.extended
        <5> HIDE DEF r
        <5>1. r \in Row
          BY <3>1 DEF r
        <5>2. QED
          BY <5>1 DEF Row
      <4>2. rows'[i] = e
        BY <2>2, <3>2
      <4> HIDE DEF e
      <4>3. QED
        BY <4>1, <4>2
    <3>3. CASE ~rows[i].locked
      BY <2>2, <3>1, <3>3 DEF Row
    <3>4. QED
      BY <3>2, <3>3
  <2>4. QED
    BY <2>2, <2>3
<1>2. call'[p].at = "cleared" /\ LockedRows' = {}
  BY <1>1 DEF ManualUnlock, Goto, IInv, TypeOK, Call, LockedRows
<1>3. KeyOK' /\ TableOK'
  BY <1>1 DEF AloneInv, KeyOK, TableOK, Hot
<1>4. ReadOK(call[p])' /\ FlagOK(call[p])'
  BY <1>2 DEF ReadOK, FlagOK
<1>5. QED
  BY <1>3, <1>4 DEF AloneInv

\* Time only ends locks and keys.
LEMMA TimeAlone ==
  ASSUME IInv, NEW p \in Procs, AloneInv(p), Tick \/ RegimeChange \/ UNCHANGED vars
  PROVE  AloneInv(p)'
<1>1. /\ now \in Nat /\ UNCHANGED <<rows, call>>
      /\ now' = now \/ (now' = now + 1 /\ call[p].at # "inserted")
      /\ cache.until \in Int
  BY DEF IInv, TypeOK, Tick, RegimeChange, At, vars
<1>2. cache' = NoKey \/ (cache' = cache /\ (now' = now \/ cache = NoKey \/ cache.until >= now + 1))
  <2>1. CASE Tick
    BY <1>1, <2>1 DEF Tick
  <2>2. QED
    BY <2>1 DEF RegimeChange, vars
<1>3. KeyOK'
  BY <1>1, <1>2 DEF AloneInv, KeyOK, NoKey
<1>4. \A i \in DOMAIN rows : Hot(i)' => Hot(i)
  <2>1. \A i \in DOMAIN rows : rows[i].unlockAt \in Nat
    BY RowAt DEF IInv
  <2>2. QED
    BY <1>1, <2>1 DEF Hot
<1>5. TableOK'
  <2>1. \A i \in DOMAIN rows : rows[i].triggeredAt \in Nat
    BY RowAt DEF IInv, Row
  <2>2. \A i \in DOMAIN rows : rows[i].triggeredAt <= now' /\ (rows[i].extended => rows[i].triggeredAt < now')
    BY <1>1, <2>1 DEF AloneInv, TableOK
  <2>3. QED
    BY <1>1, <1>4, <2>2 DEF AloneInv, TableOK
<1>6. ReadOK(call[p])'
  <2>1. LockedRows' = LockedRows /\ NewestLocked' = NewestLocked /\ (NoneHot => NoneHot')
    BY <1>1, <1>4 DEF LockedRows, NewestLocked, NoneHot
  <2>2. QED
    BY <1>1, <2>1 DEF AloneInv, ReadOK
<1>7. FlagOK(call[p])'
  BY <1>1, <1>2, <1>4 DEF AloneInv, FlagOK, NoneHot, LockedRows, NoKey
<1>8. QED
  BY <1>3, <1>5, <1>6, <1>7 DEF AloneInv

LEMMA NextAlone ==
  ASSUME NEW p, Alone(p), IInv, IInv', AloneInv(p), [Next]_vars
  PROVE  AloneInv(p)'
<1>1. p \in Procs /\ \A q \in Procs : q = p
  BY DEF Alone
<1>2. ASSUME Step(p) PROVE AloneInv(p)'
  <2>1. ~(Stop(p) \/ SelectFails(p) \/ ExpiryUpdateFails(p))
    BY DEF Alone, Stop, SelectFails, ExpiryUpdateFails
  <2>2. QED
    BY <1>1, <1>2, <2>1, IsLockedAlone, SelectAlone, DecideAlone, CacheAlone, ExpiryAlone,
       ActivateAlone, ManualUnlockAlone DEF Step
<1>3. QED
  BY <1>1, <1>2, TimeAlone DEF Next

\* With one process and no failures, the flag is_locked trusts tells between calls what the table
\* says: "1" only for a lock still within its hours, "0" only when nothing is in force but a lock
\* the expiry handler has extended.
THEOREM FlagAgreesAlone == ASSUME NEW p, Alone(p) PROVE Spec => []FastPathAgrees
<1>1. p \in Procs
  BY DEF Alone
<1>2. Init => AloneInv(p)
  BY <1>1, InitAlone
<1>3. IInv /\ IInv' /\ AloneInv(p) /\ [Next]_vars => AloneInv(p)'
  BY NextAlone
<1>4. Spec => []AloneInv(p)
  BY <1>2, <1>3, Inductive, PTL DEF Spec
<1>5. IInv /\ AloneInv(p) => FastPathAgrees
  <2>1. SUFFICES ASSUME IInv, AloneInv(p), Quiet PROVE FastPathAgrees
    BY DEF FastPathAgrees
  <2>2. call[p].at = "idle"
    BY <1>1, <2>1 DEF Quiet, At
  <2>3. ASSUME cache.flag = "1" PROVE \E i \in LockedRows : now <= rows[i].unlockAt
    <3>1. PICK i \in LockedRows : cache.until <= rows[i].unlockAt
      BY <2>1, <2>2, <2>3 DEF AloneInv, FlagOK
    <3>2. now <= cache.until /\ now \in Int /\ cache.until \in Int
      BY <2>1, <2>3, FlagTypes DEF AloneInv, KeyOK, NoKey
    <3>3. rows[i].unlockAt \in Int
      BY <2>1, <3>1, RowAt DEF LockedRows, IInv
    <3>4. now <= rows[i].unlockAt
      BY <3>1, <3>2, <3>3
    <3>5. QED
      BY <3>4
  <2>4. cache.flag = "0" => NoneHot
    BY <2>1, <2>2 DEF AloneInv, FlagOK
  <2>5. QED
    BY <2>3, <2>4 DEF FastPathAgrees, NoneHot, Hot, InForce
<1>6. QED
  BY <1>4, <1>5, Inductive, PTL
=============================================================================
