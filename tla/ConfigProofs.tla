---------------------------- MODULE ConfigProofs -----------------------------
(***************************************************************************)
(* Proofs about the configuration: ConfigStore, for any number of requests, *)
(* versions and failed refreshes, and ConfigFile, for any levels a setting *)
(* may have and however long the file is edited.  What is inductive says of *)
(* the one transaction that may be open that it has seen every active row, *)
(* unless an UPDATE missed one, and of the cache that it is not older than *)
(* its counter; and of the file that the watcher's time never runs ahead of *)
(* its own, so that a later save always shows.                             *)
(***************************************************************************)
EXTENDS ConfigStore, ConfigFile, FiniteSetTheorems, TLAPS

Secrets == {None, Secret}
Row == [active: BOOLEAN, secret: Secrets, params: Params]
RequestType == [at: {"idle", "open", "queued", "tuning"}, seen: SUBSET Int, row: Nat, secret: Secrets,
                params: Params]

TypeOK ==
  /\ versions \in Seq(Row)
  /\ request \in [Requests -> RequestType]
  /\ missed \in BOOLEAN
  /\ latest \in DOMAIN versions

CacheType ==
  /\ cached \in [loaded: BOOLEAN, alert: Thresholds, weight: Weights]
  /\ cycles \in Nat /\ behind \in Nat /\ outages \in Nat

\* A request names a row there is, and only one transaction is open.
RowsExist == \A p \in Requests : request[p].row <= Len(versions)
OneOpen == \A p, q \in Open : p = q

\* Readers resolve the row committed last; it is the only one if no UPDATE missed a row.
InForce == versions[latest].active
Alone == ~missed => Active = {latest}
SeesAll == ~missed => \A p \in Open : Active \subseteq request[p].seen

TableInv == TypeOK /\ RowsExist /\ OneOpen /\ InForce /\ Alone /\ SeesAll

\* The threshold in the cache has been the one in force within as many cycles as are counted.
Counts == cycles < PARAMS_TTL
Follows == ~missed /\ outages = 0 => behind <= cycles

IInv == TableInv /\ CacheType /\ Counts /\ Follows

-----------------------------------------------------------------------------
(* The table *)

LEMMA DefaultsAreParams == DefaultParams \in Params
  BY StoreAssumption DEF DefaultParams, Params

LEMMA ActiveRows == ASSUME TypeOK PROVE Active \subseteq 1..Len(versions)
  BY DEF TypeOK, Active

LEMMA InitTable == StoreInit => TableInv
<1>1. SUFFICES ASSUME StoreInit PROVE TableInv
  OBVIOUS
<1>2. versions = <<[active |-> TRUE, secret |-> Secret, params |-> DefaultParams]>> /\ latest = 1 /\ missed = FALSE
  BY <1>1 DEF StoreInit
<1>3. \A p \in Requests : request[p] = NoRequest
  BY <1>1 DEF StoreInit
<1>4. versions \in Seq(Row) /\ Len(versions) = 1 /\ DOMAIN versions = {1} /\ versions[1].active
  BY <1>2, DefaultsAreParams DEF Row, Secrets
<1>5. NoRequest \in RequestType
  BY DefaultsAreParams DEF NoRequest, RequestType, Secrets
<1>6. request \in [Requests -> RequestType]
  BY <1>1, <1>5 DEF StoreInit
<1>7. Open = {}
  BY <1>3 DEF Open, NoRequest
<1>8. missed \in BOOLEAN
  BY <1>2
<1>9. TypeOK /\ InForce
  BY <1>2, <1>4, <1>6, <1>8 DEF TypeOK, InForce
<1>10. RowsExist
  BY <1>3, <1>4 DEF RowsExist, NoRequest
<1>11. Alone
  BY <1>2, <1>4 DEF Alone, Active
<1>12. QED
  BY <1>7, <1>9, <1>10, <1>11 DEF TableInv, OneOpen, SeesAll

\* A request changes to another record; the table stays.
LEMMA RequestKeeps ==
  ASSUME TableInv, NEW p \in Requests, NEW r \in RequestType,
         request' = [request EXCEPT ![p] = r],
         r.row <= Len(versions),
         UNCHANGED <<versions, latest>>, missed' \in BOOLEAN, missed => missed',
         r.at = "open" => Open = {} \/ Open = {p},
         r.at = "open" /\ ~missed' => Active \subseteq r.seen
  PROVE  TableInv'
<1>1. request' \in [Requests -> RequestType]
  BY DEF TableInv, TypeOK
<1>2. request'[p] = r /\ \A q \in Requests : q # p => request'[q] = request[q]
  BY DEF TableInv, TypeOK
<1>3. Active' = Active
  BY DEF Active
<1>4. Open' \subseteq IF r.at = "open" THEN {p} ELSE Open \ {p}
  <2>1. CASE r.at = "open"
    BY <1>2, <2>1 DEF Open
  <2>2. CASE r.at # "open"
    BY <1>2, <2>2 DEF Open
  <2>3. QED
    BY <2>1, <2>2
<1>5. TypeOK' /\ RowsExist' /\ InForce'
  BY <1>1, <1>2 DEF TableInv, TypeOK, RowsExist, InForce
<1>6. OneOpen'
  BY <1>4 DEF TableInv, OneOpen
<1>7. Alone'
  BY <1>3 DEF TableInv, Alone
<1>8. SeesAll'
  <2>1. SUFFICES ASSUME ~missed', NEW q \in Open' PROVE Active \subseteq request'[q].seen
    BY <1>3 DEF SeesAll
  <2>2. CASE r.at = "open"
    BY <1>2, <1>4, <2>1, <2>2
  <2>3. CASE r.at # "open"
    BY <1>2, <1>4, <2>1, <2>3 DEF TableInv, SeesAll, Open
  <2>4. QED
    BY <2>2, <2>3
<1>9. QED
  BY <1>5, <1>6, <1>7, <1>8 DEF TableInv

LEMMA DeactivateKeeps == ASSUME TableInv, NEW p \in Requests, Deactivate(p) PROVE TableInv'
<1>1. PICK row \in 0..Len(versions), typed \in BOOLEAN, alert \in Thresholds :
        request' = [request EXCEPT ![p] =
            [at |-> IF Open = {} THEN "open" ELSE "queued",
             seen |-> Active, row |-> row,
             secret |-> IF row = 0 THEN Stored(typed) ELSE versions[row].secret,
             params |-> [DefaultParams EXCEPT !.alert = alert]]]
  BY DEF Deactivate
<1> DEFINE r == [at |-> IF Open = {} THEN "open" ELSE "queued", seen |-> Active, row |-> row,
                 secret |-> IF row = 0 THEN Stored(typed) ELSE versions[row].secret,
                 params |-> [DefaultParams EXCEPT !.alert = alert]]
<1>2. r.secret \in Secrets
  <2>1. Stored(typed) \in Secrets
    BY DEF Stored, Secrets
  <2>2. ASSUME row # 0 PROVE versions[row].secret \in Secrets
    <3>1. row \in 1..Len(versions) /\ versions \in Seq(Row)
      BY <1>1, <2>2 DEF TableInv, TypeOK
    <3>2. versions[row] \in Row
      BY <3>1
    <3>3. QED
      BY <3>2 DEF Row
  <2>3. QED
    BY <2>1, <2>2
<1>3. Active \subseteq Int
  BY ActiveRows DEF TableInv
<1>4. r \in RequestType
  <2>1. [DefaultParams EXCEPT !.alert = alert] \in Params
    BY StoreAssumption DEF DefaultParams, Params
  <2>2. QED
    BY <1>1, <1>2, <1>3, <2>1 DEF RequestType
<1>5. UNCHANGED <<versions, latest, missed>> /\ missed' \in BOOLEAN
  BY DEF Deactivate, TableInv, TypeOK
<1>6. r.row <= Len(versions) /\ (r.at = "open" => Open = {}) /\ r.seen = Active
  BY <1>1 DEF TableInv, TypeOK
<1>7. request' = [request EXCEPT ![p] = r]
  BY <1>1
<1> HIDE DEF r
<1>8. QED
  BY <1>4, <1>5, <1>6, <1>7, RequestKeeps

LEMMA ResumeKeeps == ASSUME TableInv, NEW p \in Requests, Resume(p) PROVE TableInv'
<1>1. PICK sees \in BOOLEAN :
        /\ request' = [request EXCEPT ![p].at = "open",
                                      ![p].seen = IF sees THEN Active ELSE @]
        /\ missed' = (missed \/ (~sees /\ ~(Active \subseteq request[p].seen)))
  BY DEF Resume
<1> DEFINE r == [request[p] EXCEPT !.at = "open", !.seen = IF sees THEN Active ELSE @]
<1>2. request[p] \in RequestType /\ request[p].row <= Len(versions)
  BY DEF TableInv, TypeOK, RowsExist
<1>3. Active \subseteq Int
  BY ActiveRows DEF TableInv
<1>4. r \in RequestType /\ r.row = request[p].row
  BY <1>2, <1>3 DEF RequestType
<1>5. request' = [request EXCEPT ![p] = r]
  BY <1>1 DEF TableInv, TypeOK
<1>6. r.seen = IF sees THEN Active ELSE request[p].seen
  BY <1>2 DEF RequestType
<1>7. missed' \in BOOLEAN /\ (missed => missed')
  BY <1>1 DEF TableInv, TypeOK
<1>8. ~missed' => Active \subseteq r.seen
  BY <1>1, <1>6
<1>9. UNCHANGED <<versions, latest>> /\ Open = {}
  BY DEF Resume
<1> HIDE DEF r
<1>10. QED
  BY <1>2, <1>4, <1>5, <1>7, <1>8, <1>9, RequestKeeps

LEMMA TunerLoadsKeeps == ASSUME TableInv, NEW p \in Requests, TunerLoads(p) PROVE TableInv'
<1> DEFINE r == [at |-> "tuning", seen |-> {latest}, row |-> 0, secret |-> versions[latest].secret,
                 params |-> versions[latest].params]
<1>1. r \in RequestType
  <2>1. versions[latest] \in Row /\ latest \in Int
    BY DEF TableInv, TypeOK
  <2>2. versions[latest].secret \in Secrets /\ versions[latest].params \in Params
    BY <2>1 DEF Row
  <2>3. QED
    BY <2>1, <2>2 DEF RequestType
<1>2. r.row <= Len(versions) /\ r.at # "open"
  BY DEF TableInv, TypeOK
<1>3. request' = [request EXCEPT ![p] = r] /\ UNCHANGED <<versions, latest, missed>> /\ missed' \in BOOLEAN
  BY DEF TunerLoads, TableInv, TypeOK
<1> HIDE DEF r
<1>4. QED
  BY <1>1, <1>2, <1>3, RequestKeeps

LEMMA TunerWritesKeeps == ASSUME TableInv, NEW p \in Requests, TunerWrites(p) PROVE TableInv'
<1>8. PICK params \in Params : request' = [request EXCEPT ![p].at = "open", ![p].params = params]
  BY DEF TunerWrites
<1> DEFINE r == [request[p] EXCEPT !.at = "open", !.params = params]
<1>1. request[p] \in RequestType /\ request[p].row <= Len(versions)
  BY DEF TableInv, TypeOK, RowsExist
<1>2. r \in RequestType /\ r.row = request[p].row /\ r.seen = request[p].seen
  BY <1>1 DEF RequestType
<1>3. request' = [request EXCEPT ![p] = r]
  BY <1>8 DEF TableInv, TypeOK
<1>4. missed' = (missed \/ Active # request[p].seen)
  BY DEF TunerWrites
<1>5. missed' \in BOOLEAN /\ (missed => missed')
  BY <1>4 DEF TableInv, TypeOK
<1>6. ~missed' => Active \subseteq r.seen
  BY <1>2, <1>4
<1>7. UNCHANGED <<versions, latest>> /\ Open = {}
  BY DEF TunerWrites
<1> HIDE DEF r
<1>9. QED
  BY <1>1, <1>2, <1>3, <1>5, <1>6, <1>7, RequestKeeps

LEMMA AbortKeeps == ASSUME TableInv, NEW p \in Requests, Abort(p) PROVE TableInv'
<1>1. NoRequest \in RequestType /\ NoRequest.row <= Len(versions) /\ NoRequest.at # "open"
  BY DefaultsAreParams DEF NoRequest, RequestType, Secrets, TableInv, TypeOK
<1>2. request' = [request EXCEPT ![p] = NoRequest] /\ UNCHANGED <<versions, latest, missed>> /\ missed' \in BOOLEAN
  BY DEF Abort, TableInv, TypeOK
<1>3. QED
  BY <1>1, <1>2, RequestKeeps

\* A commit deactivates the rows its UPDATE saw and puts one in force.
LEMMA Committed ==
  ASSUME TableInv, NEW p \in Requests, Commit(p)
  PROVE  /\ versions' \in Seq(Row)
         /\ Len(versions') >= Len(versions)
         /\ latest' \in DOMAIN versions'
         /\ Active' = (Active \ request[p].seen) \cup {latest'}
<1> DEFINE d == Deactivated(p)
<1>1. request[p] \in RequestType /\ request[p].row <= Len(versions)
  BY DEF TableInv, TypeOK, RowsExist
<1>2. versions \in Seq(Row) /\ DOMAIN versions = 1..Len(versions) /\ Len(versions) \in Nat
  BY DEF TableInv, TypeOK
<1>3. /\ d \in Seq(Row) /\ Len(d) = Len(versions) /\ DOMAIN d = 1..Len(versions)
      /\ \A i \in 1..Len(versions) : d[i].active = (versions[i].active /\ i \notin request[p].seen)
  <2>1. \A i \in 1..Len(versions) : versions[i] \in Row
    BY <1>2
  <2>2. \A i \in 1..Len(versions) :
          /\ d[i] = IF i \in request[p].seen THEN [versions[i] EXCEPT !.active = FALSE] ELSE versions[i]
    BY <1>2 DEF Deactivated
  <2>3. \A i \in 1..Len(versions) : d[i] \in Row
    BY <2>1, <2>2 DEF Row
  <2>4. \A i \in 1..Len(versions) : d[i].active = (versions[i].active /\ i \notin request[p].seen)
    BY <2>1, <2>2 DEF Row
  <2>5. d \in [1..Len(versions) -> Row]
    BY <1>2, <2>3 DEF Deactivated
  <2>6. QED
    BY <1>2, <2>4, <2>5
<1> HIDE DEF d
<1>4. CASE request[p].row = 0
  <2> DEFINE n == Len(versions) + 1
             r == [active |-> TRUE, secret |-> request[p].secret, params |-> request[p].params]
  <2>1. versions' = Append(d, r) /\ latest' = n
    BY <1>4 DEF Commit, d
  <2>2. r \in Row /\ r.active
    BY <1>1 DEF Row, RequestType
  <2> HIDE DEF r
  <2>3. /\ versions' \in Seq(Row) /\ Len(versions') = n /\ DOMAIN versions' = 1..n
        /\ versions'[n] = r /\ \A i \in 1..Len(versions) : versions'[i] = d[i]
    BY <1>2, <1>3, <2>1, <2>2
  <2>4. Active' = (Active \ request[p].seen) \cup {n}
    <3>1. \A i \in 1..Len(versions) : versions'[i].active <=> i \in Active \ request[p].seen
      BY <1>2, <1>3, <2>3 DEF Active
    <3>2. versions'[n].active
      BY <2>2, <2>3
    <3>3. \A i : i \in Active' <=> i \in 1..n /\ versions'[i].active
      BY <2>3 DEF Active
    <3>4. n \in Int /\ 1..n = (1..Len(versions)) \cup {n}
      BY <1>2
    <3>5. Active \subseteq 1..Len(versions)
      BY ActiveRows DEF TableInv
    <3>6. QED
      BY <3>1, <3>2, <3>3, <3>4, <3>5
  <2>5. QED
    BY <1>2, <2>1, <2>3, <2>4
<1>5. CASE request[p].row # 0
  <2> DEFINE n == request[p].row
  <2>1. versions' = [d EXCEPT ![n].active = TRUE] /\ latest' = n
    BY <1>5 DEF Commit, d
  <2>2. n \in 1..Len(versions)
    BY <1>1, <1>2, <1>5 DEF RequestType
  <2>3. /\ DOMAIN versions' = 1..Len(versions)
        /\ versions'[n] = [d[n] EXCEPT !.active = TRUE]
        /\ \A i \in 1..Len(versions) : i # n => versions'[i] = d[i]
    BY <1>3, <2>1, <2>2
  <2>4. d[n] \in Row
    BY <1>3, <2>2
  <2>5. versions'[n] \in Row /\ versions'[n].active
    BY <2>3, <2>4 DEF Row
  <2>6. \A i \in 1..Len(versions) : d[i] \in Row
    BY <1>3
  <2>7. versions' \in [1..Len(versions) -> Row]
    BY <1>3, <2>1, <2>3, <2>5, <2>6
  <2>8. versions' \in Seq(Row) /\ Len(versions') = Len(versions)
    BY <1>2, <2>7
  <2>9. Active' = (Active \ request[p].seen) \cup {n}
    BY <1>2, <1>3, <2>2, <2>3, <2>5 DEF Active
  <2>10. QED
    BY <1>2, <2>1, <2>2, <2>3, <2>8, <2>9
<1>6. QED
  BY <1>4, <1>5

LEMMA CommitKeeps == ASSUME TableInv, NEW p \in Requests, Commit(p) PROVE TableInv'
<1>1. request' = [request EXCEPT ![p] = NoRequest] /\ missed' = missed /\ p \in Open
  BY DEF Commit, Open
<1>2. NoRequest \in RequestType /\ NoRequest.row = 0 /\ NoRequest.at = "idle"
  BY DefaultsAreParams DEF NoRequest, RequestType, Secrets
<1>3. /\ request' \in [Requests -> RequestType]
      /\ request'[p] = NoRequest /\ \A q \in Requests : q # p => request'[q] = request[q]
  BY <1>1, <1>2 DEF TableInv, TypeOK
<1>4. Open' = {}
  BY <1>1, <1>2, <1>3 DEF Open, TableInv, OneOpen
<1>5. TypeOK'
  BY <1>1, <1>3, Committed DEF TableInv, TypeOK
<1>6. RowsExist'
  <2>1. SUFFICES ASSUME NEW q \in Requests PROVE request'[q].row <= Len(versions')
    BY DEF RowsExist
  <2>2. Len(versions) \in Nat /\ Len(versions') \in Nat /\ Len(versions) <= Len(versions')
    BY Committed DEF TableInv, TypeOK
  <2>3. request[q].row \in Nat /\ request[q].row <= Len(versions)
    BY DEF TableInv, TypeOK, RequestType, RowsExist
  <2>4. QED
    BY <1>2, <1>3, <2>2, <2>3
<1>7. InForce'
  BY Committed DEF InForce, Active
<1>8. Alone'
  BY <1>1, Committed DEF TableInv, Alone, SeesAll
<1>9. QED
  BY <1>4, <1>5, <1>6, <1>7, <1>8 DEF TableInv, OneOpen, SeesAll

LEMMA TableKeeps == TableInv /\ [StoreNext]_configVars => TableInv'
<1>1. ASSUME TableInv, UNCHANGED tableVars PROVE TableInv'
  <2>1. UNCHANGED <<versions, request, missed, latest>>
    BY <1>1 DEF tableVars
  <2>2. Open' = Open /\ Active' = Active
    BY <2>1 DEF Open, Active
  <2>3. TypeOK' /\ RowsExist' /\ InForce'
    BY <1>1, <2>1 DEF TableInv, TypeOK, RowsExist, InForce
  <2>4. OneOpen' /\ Alone' /\ SeesAll'
    BY <1>1, <2>1, <2>2 DEF TableInv, OneOpen, Alone, SeesAll
  <2>5. QED
    BY <2>3, <2>4 DEF TableInv
<1>2. CASE UNCHANGED configVars
  BY <1>1, <1>2 DEF configVars
<1>3. CASE ScoringCycle
  BY <1>1, <1>3 DEF ScoringCycle
<1>4. QED
  BY <1>2, <1>3, DeactivateKeeps, ResumeKeeps, TunerLoadsKeeps, TunerWritesKeeps, CommitKeeps,
     AbortKeeps DEF StoreNext

-----------------------------------------------------------------------------
(* The readers *)

\* Two active rows are an error; one is the row committed last.
LEMMA Resolves ==
  ASSUME TableInv
  PROVE  /\ Resolved \in {latest, -1}
         /\ ~missed => Resolved = latest
<1>1. latest \in Active
  BY DEF TableInv, TypeOK, InForce, Active
<1>2. IsFiniteSet(Active)
  <2>1. Len(versions) \in Nat /\ IsFiniteSet(1..Len(versions))
    BY FS_Interval DEF TableInv, TypeOK
  <2>2. Active \in SUBSET (1..Len(versions))
    BY ActiveRows DEF TableInv
  <2>3. QED
    BY <2>1, <2>2, FS_Subset
<1>3. Cardinality(Active) = 1 => Active = {latest}
  BY <1>1, <1>2, FS_Singleton
<1>4. ~missed => Cardinality(Active) = 1
  BY FS_Singleton DEF TableInv, Alone
<1>5. QED
  BY <1>1, <1>3, <1>4 DEF Resolved

LEMMA InitIInv == ASSUME PARAMS_TTL \in Nat \ {0} PROVE StoreInit => IInv
  BY InitTable, StoreAssumption DEF StoreInit, NotLoaded, IInv, CacheType, Counts, Follows

\* A cycle at which the refresh is due resets the counter; any other advances both.
LEMMA ScoringCycleKeeps ==
  ASSUME PARAMS_TTL \in Nat \ {0}, IInv, ScoringCycle
  PROVE  CacheType' /\ Counts' /\ Follows'
<1>1. PICK answers \in BOOLEAN :
        LET due == Counted = PARAMS_TTL \/ ~cached.loaded
            fresh == due /\ answers /\ Resolved > 0
        IN /\ outages' = IF answers THEN outages ELSE outages + 1
           /\ cycles' = IF due THEN 0 ELSE Counted
           /\ cached' = IF fresh THEN Converted(versions[Resolved].params) ELSE cached
           /\ behind' = IF ~cached'.loaded \/ cached'.alert = versions[latest].params.alert
                        THEN 0 ELSE behind + 1
  BY DEF ScoringCycle
<1> DEFINE due == Counted = PARAMS_TTL \/ ~cached.loaded
<1>2. latest \in Nat /\ latest > 0 /\ Resolved \in Int
  BY Resolves DEF IInv, TableInv, TypeOK
<1>3. /\ cached \in [loaded: BOOLEAN, alert: Thresholds, weight: Weights]
      /\ cycles \in Nat /\ behind \in Nat /\ outages \in Nat /\ cycles < PARAMS_TTL
  BY DEF IInv, CacheType, Counts
<1>4. CacheType'
  <2>1. ASSUME Resolved > 0
        PROVE  Converted(versions[Resolved].params) \in [loaded: BOOLEAN, alert: Thresholds, weight: Weights]
    <3>1. versions[latest] \in Row /\ Resolved = latest
      BY <2>1, Resolves DEF IInv, TableInv, TypeOK
    <3>2. QED
      BY <3>1, StoreAssumption DEF Row, Params, Converted
  <2>2. cached' \in [loaded: BOOLEAN, alert: Thresholds, weight: Weights]
    BY <1>1, <1>3, <2>1
  <2>3. QED
    BY <1>1, <1>3, <2>2 DEF CacheType, Counted
<1>5. Counts'
  BY <1>1, <1>3 DEF Counts, Counted
<1>6. Follows'
  <2>1. SUFFICES ASSUME ~missed', outages' = 0 PROVE behind' <= cycles'
    BY DEF Follows
  <2>2. answers /\ outages = 0 /\ ~missed
    BY <1>1, <1>3, <2>1 DEF ScoringCycle, tableVars
  <2>3. Resolved = latest
    BY <2>2, Resolves DEF IInv, TableInv
  <2>4. CASE due
    <3>1. cycles' = 0 /\ cached' = Converted(versions[latest].params)
      BY <1>1, <1>2, <2>2, <2>3, <2>4
    <3>2. cached'.alert = versions[latest].params.alert
      BY <3>1 DEF Converted
    <3>3. QED
      BY <1>1, <3>1, <3>2
  <2>5. CASE ~due
    <3>1. cycles' = cycles + 1 /\ behind' \in {0, behind + 1}
      BY <1>1, <2>5 DEF Counted
    <3>2. behind <= cycles
      BY <2>2 DEF IInv, Follows
    <3>3. QED
      BY <1>3, <3>1, <3>2
  <2>6. QED
    BY <2>4, <2>5
<1>7. QED
  BY <1>4, <1>5, <1>6

LEMMA NextKeeps == ASSUME PARAMS_TTL \in Nat \ {0} PROVE IInv /\ [StoreNext]_configVars => IInv'
<1>1. SUFFICES ASSUME IInv, [StoreNext]_configVars PROVE IInv'
  OBVIOUS
<1>2. TableInv'
  BY <1>1, TableKeeps DEF IInv
<1>3. CASE ScoringCycle
  BY <1>1, <1>2, <1>3, ScoringCycleKeeps DEF IInv
<1>4. ASSUME UNCHANGED cacheVars, missed => missed' PROVE CacheType' /\ Counts' /\ Follows'
  BY <1>1, <1>4 DEF cacheVars, IInv, CacheType, Counts, Follows
<1>5. ASSUME NEW p \in Requests,
             \/ Deactivate(p) \/ Resume(p) \/ TunerLoads(p) \/ TunerWrites(p) \/ Commit(p) \/ Abort(p)
      PROVE  UNCHANGED cacheVars /\ (missed => missed')
  <2>1. CASE Deactivate(p) \/ Abort(p) \/ TunerLoads(p)
    BY <2>1 DEF Deactivate, Abort, TunerLoads
  <2>2. CASE Commit(p)
    BY <2>2 DEF Commit
  <2>3. CASE Resume(p)
    BY <2>3 DEF Resume
  <2>4. CASE TunerWrites(p)
    BY <2>4 DEF TunerWrites
  <2>5. QED
    BY <1>5, <2>1, <2>2, <2>3, <2>4
<1>6. CASE UNCHANGED configVars
  BY <1>4, <1>6, <1>2 DEF configVars, tableVars, IInv
<1>7. QED
  BY <1>1, <1>2, <1>3, <1>4, <1>5, <1>6 DEF StoreNext, IInv

-----------------------------------------------------------------------------

\* At all times a version is in force, it is the one committed last, and readers resolve that
\* version or an error; it is the only active one unless an UPDATE missed a row or the tuner
\* copied a row that was replaced meanwhile.
THEOREM LastCommitInForce == StoreSpec => []OneInForce
<1>1. TableInv => OneInForce
  BY Resolves DEF TableInv, InForce, Alone, OneInForce
<1>2. QED
  BY <1>1, InitTable, TableKeeps, PTL DEF StoreSpec

\* The scoring service follows a change of its thresholds within PARAMS_TTL cycles, unless a
\* refresh failed or the table held two active rows: what a row says of them passes through the
\* conversion into the cache, as its weights do not.
THEOREM ParamsFollow == ASSUME PARAMS_TTL \in Nat \ {0} PROVE StoreSpec => []ParamsRecent
<1>1. IInv => ParamsRecent
  BY DEF IInv, CacheType, Counts, Follows, ParamsRecent
<1>2. QED
  BY <1>1, InitIInv, NextKeeps, PTL DEF StoreSpec

-----------------------------------------------------------------------------
(* The configuration file *)

FileTypeOK ==
  /\ file.text \in Text /\ file.time \in Int
  /\ config \in Text
  /\ mtime \in Int
  /\ masked \in BOOLEAN

NotAhead == mtime <= file.time

Followed == mtime = file.time /\ ~masked /\ Validates(file.text) => config = file.text

FileIInv == FileTypeOK /\ NotAhead /\ Validates(config) /\ Followed

-----------------------------------------------------------------------------

LEMMA InitFileIInv == FileInit => FileIInv
<1>1. SUFFICES ASSUME FileInit PROVE FileIInv
  OBVIOUS
<1>2. file.text \in Text /\ file.time = 1 /\ Validates(file.text)
  <2>1. PICK t \in {t \in Text : Validates(t)}, one \in {1} : file = [text |-> t, time |-> one]
    BY <1>1 DEF FileInit
  <2>2. QED
    BY <2>1
<1>3. config = file.text /\ mtime = 1 /\ masked = FALSE
  BY <1>1 DEF FileInit
<1>4. Validates(config)
  BY <1>2, <1>3 DEF Validates
<1>5. mtime \in Int /\ config \in Text /\ file.time \in Int /\ mtime <= file.time
  BY <1>2, <1>3
<1>6. masked \in BOOLEAN
  BY <1>3
<1>7. QED
  BY <1>2, <1>3, <1>4, <1>5, <1>6 DEF FileIInv, FileTypeOK, NotAhead, Followed

LEMMA WriteKeeps == FileIInv /\ Write => FileIInv'
<1>1. SUFFICES ASSUME FileIInv, Write PROVE FileIInv'
  OBVIOUS
<1>2. PICK text \in Text, later \in {0, 1} :
        /\ file' = [text |-> text, time |-> file.time + later]
        /\ masked' = IF later = 0 THEN masked \/ file.time = mtime ELSE FALSE
  BY <1>1 DEF Write
<1>3. file'.text = text /\ file'.time = file.time + later /\ config' = config /\ mtime' = mtime
  BY <1>1, <1>2 DEF Write
<1>4. FileTypeOK'
  <2>1. file'.time \in Int
    BY <1>1, <1>2, <1>3 DEF FileIInv, FileTypeOK
  <2>2. masked' \in BOOLEAN
    BY <1>1, <1>2 DEF FileIInv, FileTypeOK
  <2>3. QED
    BY <1>1, <1>3, <2>1, <2>2 DEF FileIInv, FileTypeOK
<1>5. NotAhead' /\ Validates(config)'
  BY <1>1, <1>3 DEF FileIInv, FileTypeOK, NotAhead, Validates
\* Saved at the time already noted it is masked; saved later, the watcher has it to see.
<1>6. Followed'
  <2>1. CASE later = 0
    <3>1. masked' = (masked \/ file.time = mtime) /\ file'.time = file.time
      BY <1>1, <1>2, <1>3, <2>1 DEF FileIInv, FileTypeOK
    <3>2. QED
      BY <1>3, <3>1 DEF Followed
  <2>2. CASE later = 1
    BY <1>1, <1>3, <2>2 DEF FileIInv, FileTypeOK, NotAhead, Followed
  <2>3. QED
    BY <2>1, <2>2
<1>7. QED
  BY <1>4, <1>5, <1>6 DEF FileIInv

LEMMA WatchKeeps == FileIInv /\ Watch => FileIInv'
  BY DEF FileIInv, FileTypeOK, NotAhead, Followed, Validates, Watch

LEMMA FileNextKeeps == FileIInv /\ [FileNext]_fileVars => FileIInv'
<1>1. CASE UNCHANGED fileVars
  BY <1>1 DEF fileVars, FileIInv, FileTypeOK, NotAhead, Followed, Validates
<1>2. QED
  BY <1>1, WriteKeeps, WatchKeeps DEF FileNext

-----------------------------------------------------------------------------

\* What ConfigSystem.get serves always satisfies the validators that relate two settings, and it
\* is the text of the file once the watcher has noted its time, unless the text does not validate
\* or was saved within the time already noted.
THEOREM ServedIsValid == FileSpec => []ServesLastValid
<1>1. FileIInv => ServesLastValid
  BY DEF FileIInv, Followed, Validates, ServesLastValid
<1>2. QED
  BY <1>1, InitFileIInv, FileNextKeeps, PTL DEF FileSpec
=============================================================================
