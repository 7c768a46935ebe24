---------------------------- MODULE CircuitBreaker ----------------------------
(***************************************************************************)
(* The trading lock of risk/circuit_breaker.py: the rows of the SQL table  *)
(* circuit_breaker_state, the Redis key circuit_breaker:locked that is     *)
(* consulted before them, and the processes (scoring pipeline, API,        *)
(* workers) that read and write both without a common transaction.         *)
(*                                                                         *)
(* A call is cut at every database or Redis access, so that two calls      *)
(* interleave there and a process can stop there.  The clock counts hours. *)
(***************************************************************************)
EXTENDS Integers, Sequences

CONSTANTS
  Procs,         \* processes that hold a CircuitBreaker
  MayFail,       \* those that may stop in a call or lose the database
  Regimes,       \* market regimes
  NoRegime,      \* no regime:* key in Redis
  LOSS_MAGNITUDE_LOCK_HOURS,
  CONSECUTIVE_LOSS_LOCK_HOURS,
  DRAWDOWN_LOCK_HOURS,
  REGIME_UNCHANGED_EXTENSION_HOURS,
  REDIS_LOCK_TTL,
  HoursPerDay,
  MaxTime,       \* bound: the last hour of the model
  MaxRows        \* bound: locks ever triggered

ASSUME DurationsAssumption ==
  /\ LOSS_MAGNITUDE_LOCK_HOURS \in Nat \ {0}
  /\ CONSECUTIVE_LOSS_LOCK_HOURS \in Nat \ {0}
  /\ DRAWDOWN_LOCK_HOURS \in Nat \ {0}
  /\ REGIME_UNCHANGED_EXTENSION_HOURS \in Nat \ {0}
  /\ REDIS_LOCK_TTL \in Nat \ {0}
  /\ HoursPerDay \in Nat \ {0}

ASSUME ActorsAssumption ==
  /\ MayFail \subseteq Procs
  /\ NoRegime \notin Regimes

VARIABLES
  now,      \* hours since the start
  regime,   \* regime of BTC/USDT, else of ETH/USDT, in Redis
  rows,     \* circuit_breaker_state, in insertion order
  cache,    \* circuit_breaker:locked, NoKey when missing or expired
  call      \* the call each process is in

vars == <<now, regime, rows, cache, call>>

-----------------------------------------------------------------------------
(* Rows, cache entries and calls *)

Triggers == {"LOSS_MAGNITUDE", "CONSECUTIVE_LOSSES", "DAILY_LOSS_CAP",
             "DRAWDOWN_FROM_PEAK"}

\* The hour at which a lock triggered at hour t ends.
UnlockTime(trigger, t) ==
  CASE trigger = "LOSS_MAGNITUDE"     -> t + LOSS_MAGNITUDE_LOCK_HOURS
    [] trigger = "CONSECUTIVE_LOSSES" -> t + CONSECUTIVE_LOSS_LOCK_HOURS
    [] trigger = "DAILY_LOSS_CAP"     -> ((t \div HoursPerDay) + 1) * HoursPerDay
    [] OTHER                          -> t + DRAWDOWN_LOCK_HOURS

Row == [trigger: Triggers, triggeredAt: Nat, unlockAt: Nat, regime: Regimes,
        locked: BOOLEAN, review: BOOLEAN, extended: BOOLEAN,
        unlockedAt: Nat, unlockedBy: {"none", "user", "auto_regime_change"}]

NewRow(trigger, r) ==
  [trigger |-> trigger, triggeredAt |-> now, unlockAt |-> UnlockTime(trigger, now),
   regime |-> r, locked |-> TRUE, review |-> (trigger = "DRAWDOWN_FROM_PEAK"),
   extended |-> FALSE, unlockedAt |-> 0, unlockedBy |-> "none"]

LockedRows == {i \in DOMAIN rows : rows[i].locked}

\* SELECT TOP 1 ... WHERE is_locked = 1 ORDER BY triggered_at DESC: any row
\* among those triggered last.
NewestLocked ==
  {i \in LockedRows : \A j \in LockedRows : rows[j].triggeredAt <= rows[i].triggeredAt}

\* "until" is the last hour in which the key still answers.
NoKey == [flag |-> "none", until |-> 0]
Flag(f, until) == [flag |-> f, until |-> until]
LockedFlag(until) == Flag("1", until)
UnlockedFlag == Flag("0", now + REDIS_LOCK_TTL - 1)

NoRow == [id |-> 0, unlockAt |-> 0, regime |-> NoRegime]
Copy(i) == [id |-> i, unlockAt |-> rows[i].unlockAt, regime |-> rows[i].regime]

Ops == {"none", "gate", "status", "record", "drawdown"}
Ats == {"idle", "select", "decide", "extended", "released", "mask",
        "evaluate", "inserted", "cleared"}

Call(at, op, row) == [at |-> at, op |-> op, row |-> row]
Idle == Call("idle", "none", NoRow)

\* How a call goes on once the lock state is known.  The gate (filter, confirm
\* endpoint) and record_trade_result ask get_lock_info for details when locked.
Answered(op, locked) ==
  CASE op = "status" -> Idle
    [] locked /\ op \in {"gate", "record"} -> Call("select", "status", NoRow)
    [] ~locked /\ op \in {"record", "drawdown"} -> Call("evaluate", op, NoRow)
    [] OTHER -> Idle

Goto(p, c) == call' = [call EXCEPT ![p] = c]
At(p, at) == call[p].at = at

-----------------------------------------------------------------------------
(* Initial state: an empty table, nothing cached, all processes idle *)

Init ==
  /\ now = 0
  /\ regime \in Regimes \cup {NoRegime}
  /\ rows = <<>>
  /\ cache = NoKey
  /\ call = [p \in Procs |-> Idle]

-----------------------------------------------------------------------------
(* is_locked and get_lock_info *)

\* is_locked: the cached flag answers when present, else the table is read.
IsLocked(p, op) ==
  /\ At(p, "idle")
  /\ Goto(p, IF cache = NoKey THEN Call("select", op, NoRow)
             ELSE Answered(op, cache.flag = "1"))
  /\ UNCHANGED <<now, regime, rows, cache>>

\* get_lock_info called by itself: GET /api/circuit-breaker/status.
Status(p) ==
  /\ At(p, "idle")
  /\ Goto(p, Call("select", "status", NoRow))
  /\ UNCHANGED <<now, regime, rows, cache>>

Select(p) ==
  /\ At(p, "select")
  /\ \/ /\ LockedRows = {}
        /\ Goto(p, Call("decide", call[p].op, NoRow))
     \/ \E i \in NewestLocked : Goto(p, Call("decide", call[p].op, Copy(i)))
  /\ UNCHANGED <<now, regime, rows, cache>>

NothingLocked(p) ==
  /\ At(p, "decide")
  /\ call[p].row = NoRow
  /\ cache' = UnlockedFlag
  /\ Goto(p, Answered(call[p].op, FALSE))
  /\ UNCHANGED <<now, regime, rows>>

\* Mutant: the flag is cached for the default time to live.
StillLocked_FullTtl(p) ==
  /\ At(p, "decide")
  /\ call[p].row # NoRow
  /\ now < call[p].row.unlockAt
  /\ cache' = LockedFlag(now + REDIS_LOCK_TTL)
  /\ Goto(p, Answered(call[p].op, TRUE))
  /\ UNCHANGED <<now, regime, rows>>

StillLocked(p) ==
  /\ At(p, "decide")
  /\ call[p].row # NoRow
  /\ now < call[p].row.unlockAt
  /\ cache' = LockedFlag(call[p].row.unlockAt)
  /\ Goto(p, Answered(call[p].op, TRUE))
  /\ UNCHANGED <<now, regime, rows>>

\* Mutant: an hour too early.
Expired_Early(p) ==
  /\ At(p, "decide")
  /\ call[p].row # NoRow
  /\ now >= call[p].row.unlockAt - 1

\* _handle_lock_expiry acts on the copy of the row it was given.
Expired(p) ==
  /\ At(p, "decide")
  /\ call[p].row # NoRow
  /\ now >= call[p].row.unlockAt

\* Mutant: the extension is counted from the trigger.
Extend_FromTrigger(p) ==
  /\ Expired(p)
  /\ regime = call[p].row.regime
  /\ rows' = [rows EXCEPT ![call[p].row.id] =
                [@ EXCEPT !.unlockAt = rows[call[p].row.id].triggeredAt + REGIME_UNCHANGED_EXTENSION_HOURS,
                          !.extended = TRUE]]
  /\ Goto(p, [call[p] EXCEPT !.at = "extended"])
  /\ UNCHANGED <<now, regime, cache>>

Extend(p) ==
  /\ Expired(p)
  /\ regime = call[p].row.regime
  /\ rows' = [rows EXCEPT ![call[p].row.id] =
                [@ EXCEPT !.unlockAt = now + REGIME_UNCHANGED_EXTENSION_HOURS,
                          !.extended = TRUE]]
  /\ Goto(p, [call[p] EXCEPT !.at = "extended"])
  /\ UNCHANGED <<now, regime, cache>>

Release(p) ==
  /\ Expired(p)
  /\ regime # call[p].row.regime
  /\ rows' = [rows EXCEPT ![call[p].row.id] =
                [@ EXCEPT !.locked = FALSE, !.unlockedAt = now,
                          !.unlockedBy = "auto_regime_change"]]
  /\ Goto(p, [call[p] EXCEPT !.at = "released"])
  /\ UNCHANGED <<now, regime, cache>>

\* The cache write inside _handle_lock_expiry ...
CacheExpiry(p) ==
  /\ At(p, "extended") \/ At(p, "released")
  /\ cache' = IF At(p, "extended")
              THEN LockedFlag(now + REGIME_UNCHANGED_EXTENSION_HOURS)
              ELSE UnlockedFlag
  /\ Goto(p, [call[p] EXCEPT !.at = "mask"])
  /\ UNCHANGED <<now, regime, rows>>

\* ... and the one of its caller, which does not look at what happened.
MaskExpiry(p) ==
  /\ At(p, "mask")
  /\ cache' = UnlockedFlag
  /\ Goto(p, Answered(call[p].op, FALSE))
  /\ UNCHANGED <<now, regime, rows>>

-----------------------------------------------------------------------------
(* record_trade_result, check_drawdown, _activate *)

TriggersOf(op) ==
  IF op = "drawdown" THEN {"DRAWDOWN_FROM_PEAK"} ELSE Triggers \ {"DRAWDOWN_FROM_PEAK"}

NoTrigger(p) ==
  /\ At(p, "evaluate")
  /\ Goto(p, Idle)
  /\ UNCHANGED <<now, regime, rows, cache>>

Activate(p) ==
  /\ At(p, "evaluate")
  /\ Len(rows) < MaxRows
  /\ \E t \in TriggersOf(call[p].op), r \in Regimes :
       /\ rows' = Append(rows, NewRow(t, r))
       /\ Goto(p, Call("inserted", call[p].op,
                       [id |-> Len(rows) + 1, unlockAt |-> UnlockTime(t, now), regime |-> r]))
  /\ UNCHANGED <<now, regime, cache>>

CacheActivation(p) ==
  /\ At(p, "inserted")
  /\ cache' = LockedFlag(call[p].row.unlockAt)
  /\ Goto(p, Idle)
  /\ UNCHANGED <<now, regime, rows>>

-----------------------------------------------------------------------------
(* manual_unlock, with a review note of at least ten characters *)

ManualUnlock(p) ==
  /\ At(p, "idle")
  /\ rows' = [i \in DOMAIN rows |->
                IF rows[i].locked
                THEN [rows[i] EXCEPT !.locked = FALSE, !.unlockedAt = now,
                                     !.unlockedBy = "user"]
                ELSE rows[i]]
  /\ Goto(p, Call("cleared", "none", NoRow))
  /\ UNCHANGED <<now, regime, cache>>

\* Mutant: manual_unlock leaves the cached flag alone.
CacheManualUnlock_Skipped(p) ==
  /\ At(p, "cleared")
  /\ Goto(p, Idle)
  /\ UNCHANGED <<now, regime, rows, cache>>

CacheManualUnlock(p) ==
  /\ At(p, "cleared")
  /\ cache' = UnlockedFlag
  /\ Goto(p, Idle)
  /\ UNCHANGED <<now, regime, rows>>

-----------------------------------------------------------------------------
(* Failures and the environment *)

\* The process stops, or the last Redis write of the call fails and is logged.
Stop(p) ==
  /\ p \in MayFail
  /\ ~At(p, "idle")
  /\ Goto(p, Idle)
  /\ UNCHANGED <<now, regime, rows, cache>>

\* The SELECT raises: get_lock_info answers "unlocked" and caches nothing.
SelectFails(p) ==
  /\ p \in MayFail
  /\ At(p, "select")
  /\ Goto(p, Answered(call[p].op, FALSE))
  /\ UNCHANGED <<now, regime, rows, cache>>

\* The UPDATE of _handle_lock_expiry raises: logged, and the caller goes on.
ExpiryUpdateFails(p) ==
  /\ p \in MayFail
  /\ Expired(p)
  /\ Goto(p, [call[p] EXCEPT !.at = "mask"])
  /\ UNCHANGED <<now, regime, rows, cache>>

\* An hour passes; a key whose time to live is over disappears.  A commit and
\* the Redis write right behind it fall in the same hour.
Tick ==
  /\ now < MaxTime
  /\ \A p \in Procs : ~At(p, "inserted") /\ ~At(p, "extended")
  /\ now' = now + 1
  /\ cache' = IF cache # NoKey /\ cache.until < now + 1 THEN NoKey ELSE cache
  /\ UNCHANGED <<regime, rows, call>>

\* The regime detector of the scoring service writes regime:BTC/USDT.
RegimeChange ==
  /\ regime' \in (Regimes \cup {NoRegime}) \ {regime}
  /\ UNCHANGED <<now, rows, cache, call>>

Step(p) ==
  \/ \E op \in {"gate", "record", "drawdown"} : IsLocked(p, op)
  \/ Status(p)
  \/ Select(p)
  \/ NothingLocked(p)
  \/ StillLocked(p)
  \/ Extend(p)
  \/ Release(p)
  \/ CacheExpiry(p)
  \/ MaskExpiry(p)
  \/ NoTrigger(p)
  \/ Activate(p)
  \/ CacheActivation(p)
  \/ ManualUnlock(p)
  \/ CacheManualUnlock(p)
  \/ Stop(p)
  \/ SelectFails(p)
  \/ ExpiryUpdateFails(p)

Next ==
  \/ \E p \in Procs : Step(p)
  \/ Tick
  \/ RegimeChange

Spec == Init /\ [][Next]_vars

-----------------------------------------------------------------------------
(* Properties *)

\* Every variable keeps its type.
TypeOK ==
  /\ now \in Nat
  /\ regime \in Regimes \cup {NoRegime}
  /\ rows \in Seq(Row)
  /\ cache \in [flag: {"none", "0", "1"}, until: Int]
  /\ call \in [Procs -> [at: Ats, op: Ops,
                        row: [id: Nat, unlockAt: Nat, regime: Regimes \cup {NoRegime}]]]

\* A lock released by the expiry handler has run its full time, however many
\* processes handle the expiry at once and from however old a copy of the row.
AutoReleaseNotEarly ==
  \A i \in DOMAIN rows :
    rows[i].unlockedBy = "auto_regime_change" =>
      rows[i].unlockedAt >= UnlockTime(rows[i].trigger, rows[i].triggeredAt)

\* A cached "1" never outlives the locks: it is gone at the latest in the hour
\* in which the last lock ever recorded ends.
LockFlagWithinLock ==
  cache.flag = "1" => \E i \in DOMAIN rows : cache.until <= rows[i].unlockAt

\* Competing expiry handlers never pull an unlock time in: each write of
\* unlock_at is at least the value it replaces.
UnlockNeverPulledIn ==
  [][\A i \in DOMAIN rows : rows'[i].unlockAt >= rows[i].unlockAt]_vars

InForce(i) == rows[i].locked /\ now < rows[i].unlockAt
Quiet == \A p \in Procs : At(p, "idle")

\* Between calls, the flag that is_locked trusts tells what the table says: "1"
\* only for a lock still within its hours, "0" only when nothing is in force
\* but a lock that the expiry handler has extended.
FastPathAgrees ==
  Quiet =>
    /\ cache.flag = "1" => \E i \in LockedRows : now <= rows[i].unlockAt
    /\ cache.flag = "0" => \A i \in DOMAIN rows : InForce(i) => rows[i].extended

\* Between calls, an extended lock still blocks: "0" is not cached over it
\* (circuit_breaker.py says "If regime unchanged -> extend lock by 6h").
ExtensionBlocks ==
  Quiet /\ cache.flag = "0" => \A i \in DOMAIN rows : ~(InForce(i) /\ rows[i].extended)

=============================================================================
