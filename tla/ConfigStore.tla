------------------------------ MODULE ConfigStore ------------------------------
(***************************************************************************)
(* Configuration: profile versions in SQL (config/config_service.py, the    *)
(* tables trading_params and exchange_settings, which are written alike),   *)
(* and their readers (config_resolver.py, the parameter cache of the        *)
(* scoring service).                                                       *)
(*                                                                         *)
(* Requests are handled in a thread pool, each in a transaction of its own; *)
(* the tuning scripts write trading_params from a process of their own      *)
(* (tuning/config_applier.py).                                             *)
(* A request that finds another's rows locked waits for its commit, and its *)
(* UPDATE may then see the new row of the other or not.                     *)
(***************************************************************************)
EXTENDS Integers, Sequences, FiniteSets

CONSTANTS
  Requests,       \* request threads of the API
  PARAMS_TTL,     \* _TP_CACHE_TTL, in scoring cycles
  Secret,         \* credentials a user has typed
  Thresholds,     \* score_alert_threshold: what a user or the tuner may set
  Weights,        \* weight_of, ...: what the tuner may set
  DEFAULT_ALERT,  \* the threshold of a scorer without parameters
  DEFAULT_WEIGHT, \* the default of the weight columns, and of a scorer without them
  MaxVersions,    \* bound: rows of the table
  MaxOutages      \* bound: refreshes at which the database does not answer

ASSUME StoreAssumption == DEFAULT_ALERT \in Thresholds /\ DEFAULT_WEIGHT \in Weights

VARIABLES
  versions,    \* rows: [active, secret, params], oldest first
  request,     \* what each request thread is doing
  missed,      \* history: an UPDATE missed an active row it did not see
  latest,      \* history: row saved or activated by the last commit
  kept,        \* history: the credentials the user last typed
  cached,      \* _tp_cache as the scorer reads it: [loaded, alert, weight]
  cycles,      \* _tp_cache_counter
  behind,      \* history: cycles since the cached threshold was last the one in force
  outages      \* history: refreshes that failed

tableVars == <<versions, request, missed, latest, kept>>
cacheVars == <<cached, cycles, behind, outages>>
configVars == <<tableVars, cacheVars>>

None == "none"
\* One threshold and one weight of a row of trading_params.
Params == [alert: Thresholds, weight: Weights]
DefaultParams == [alert |-> DEFAULT_ALERT, weight |-> DEFAULT_WEIGHT]
NoRequest == [at |-> "idle", seen |-> {}, row |-> 0, secret |-> None, params |-> DefaultParams]
Active == {i \in DOMAIN versions : versions[i].active}

\* Mutant: the dict has no key for a threshold either.
Converted_WithoutThresholds(params) ==
  [loaded |-> TRUE, alert |-> DEFAULT_ALERT, weight |-> DEFAULT_WEIGHT]
\* _trading_params_to_dict has no key for a weight, so that the scorer takes its default.
Converted(params) == [loaded |-> TRUE, alert |-> params.alert, weight |-> DEFAULT_WEIGHT]
NotLoaded == [loaded |-> FALSE, alert |-> DEFAULT_ALERT, weight |-> DEFAULT_WEIGHT]

StoreInit ==
  /\ versions = <<[active |-> TRUE, secret |-> Secret, params |-> DefaultParams]>>
  /\ request = [p \in Requests |-> NoRequest]
  /\ missed = FALSE /\ latest = 1 /\ kept = Secret
  /\ cached = NotLoaded /\ cycles = 0 /\ behind = 0 /\ outages = 0

-----------------------------------------------------------------------------
(* save_trading_params, save_exchange_settings, activate_trading_params_version *)

Open == {p \in Requests : request[p].at = "open"}

\* What a form sends: the mask or nothing, stored as no credentials, or new ones.
Stored(typed) == IF typed THEN Secret ELSE None

\* The UPDATE that deactivates.  row = 0 stands for a new version.  The form and the ORM
\* model have no weights: a new version gets the columns' default.
Deactivate(p) ==
  /\ request[p].at = "idle"
  /\ \E row \in 0..Len(versions), typed \in BOOLEAN, alert \in Thresholds :
       /\ row = 0 => Len(versions) + Cardinality(Requests) <= MaxVersions
       /\ row # 0 => ~typed /\ alert = versions[row].params.alert
       /\ request' = [request EXCEPT ![p] =
            [at |-> IF Open = {} THEN "open" ELSE "queued",
             seen |-> Active, row |-> row,
             secret |-> IF row = 0 THEN Stored(typed) ELSE versions[row].secret,
             params |-> [DefaultParams EXCEPT !.alert = alert]]]
  /\ UNCHANGED <<versions, missed, latest, kept, cacheVars>>

\* The commit it waited for is done.
Resume(p) ==
  /\ request[p].at = "queued" /\ Open = {}
  /\ \E sees \in BOOLEAN :
       /\ request' = [request EXCEPT ![p].at = "open",
                                     ![p].seen = IF sees THEN Active ELSE @]
       /\ missed' = (missed \/ (~sees /\ ~(Active \subseteq request[p].seen)))
  /\ UNCHANGED <<versions, latest, kept, cacheVars>>

\* Mutant: the rows in force stay active.
Deactivated_None(p) == versions
Deactivated(p) ==
  [i \in DOMAIN versions |->
     IF i \in request[p].seen THEN [versions[i] EXCEPT !.active = FALSE] ELSE versions[i]]

\* The row is inserted or set active, and everything commits at once.
Commit(p) ==
  /\ request[p].at = "open"
  /\ LET row == IF request[p].row = 0 THEN Len(versions) + 1 ELSE request[p].row
     IN /\ versions' = IF request[p].row = 0
                       THEN Append(Deactivated(p), [active |-> TRUE, secret |-> request[p].secret,
                                                    params |-> request[p].params])
                       ELSE [Deactivated(p) EXCEPT ![row].active = TRUE]
        /\ latest' = row
        /\ kept' = IF request[p].row = 0 /\ request[p].secret = None THEN kept
                   ELSE request[p].secret
  /\ request' = [request EXCEPT ![p] = NoRequest]
  /\ UNCHANGED <<missed, cacheVars>>

\* The tuner copies the newest active row; the SELECT waits for an open transaction.
TunerLoads(p) ==
  /\ request[p].at = "idle" /\ Open = {}
  /\ Len(versions) + Cardinality(Requests) <= MaxVersions
  /\ request' = [request EXCEPT ![p] = [at |-> "tuning", seen |-> {latest}, row |-> 0,
                                        secret |-> versions[latest].secret,
                                        params |-> versions[latest].params]]
  /\ UNCHANGED <<versions, missed, latest, kept, cacheVars>>

\* It inserts the changed copy and deactivates the row it copied, and no other.
TunerWrites(p) ==
  /\ request[p].at = "tuning" /\ Open = {}
  /\ \E params \in Params :
       request' = [request EXCEPT ![p].at = "open", ![p].params = params]
  /\ missed' = (missed \/ Active # request[p].seen)
  /\ UNCHANGED <<versions, latest, kept, cacheVars>>

\* The insert fails: the session is closed and rolls back.
Abort(p) ==
  /\ request[p].at # "idle"
  /\ request' = [request EXCEPT ![p] = NoRequest]
  /\ UNCHANGED <<versions, missed, latest, kept, cacheVars>>

-----------------------------------------------------------------------------
(* Readers *)

\* get_active_*: the active row, 0 for the defaults; two of them are an error, at
\* which ConfigResolver falls back to config.yaml.
Resolved == IF Active = {} THEN 0 ELSE IF Cardinality(Active) = 1 THEN CHOOSE i \in Active : TRUE
            ELSE -1

\* Mutant: the counter is not advanced.
Counted_Not == cycles
Counted == cycles + 1

\* _run_cycle: the cache is refreshed every PARAMS_TTL cycles; when the refresh fails,
\* what it held stays.
ScoringCycle ==
  /\ \E answers \in BOOLEAN :
       LET due == Counted = PARAMS_TTL \/ ~cached.loaded
           fresh == due /\ answers /\ Resolved > 0
       IN /\ due \/ answers
          /\ outages' = IF answers THEN outages ELSE outages + 1
          /\ cycles' = IF due THEN 0 ELSE Counted
          /\ cached' = IF fresh THEN Converted(versions[Resolved].params) ELSE cached
          /\ behind' = IF ~cached'.loaded \/ cached'.alert = versions[latest].params.alert
                       THEN 0 ELSE behind + 1
  /\ outages' <= MaxOutages
  /\ behind' <= PARAMS_TTL * (MaxOutages + 1)
  /\ UNCHANGED tableVars

-----------------------------------------------------------------------------

StoreNext ==
  \/ \E p \in Requests :
       \/ Deactivate(p)
       \/ Resume(p)
       \/ TunerLoads(p)
       \/ TunerWrites(p)
       \/ Commit(p)
       \/ Abort(p)
  \/ ScoringCycle

StoreSpec == StoreInit /\ [][StoreNext]_configVars

-----------------------------------------------------------------------------
(* Properties *)

\* However saves, rollbacks and failures interleave, a version is in force at all times, it
\* is the one last committed, and it is the only one unless an UPDATE missed a row or the
\* tuner copied a row that was replaced meanwhile (no index forbids two): readers resolve
\* the last commit or an error, never an older one.
OneInForce ==
  /\ versions[latest].active
  /\ Resolved \in {latest, -1}
  /\ ~missed => Active = {latest}

\* The scoring service follows a change of the thresholds, by a user or by the tuner, within
\* PARAMS_TTL cycles, unless the refresh failed or found two active rows.  (The weights never
\* reach it: WeightsLoaded.)
ParamsRecent == ~missed /\ outages = 0 => behind < PARAMS_TTL

-----------------------------------------------------------------------------
(* What the documents say and the code does not *)

\* "Send '***' or empty string to keep existing credentials" (config_routes.py): the
\* version saved last has the credentials typed last.
CredentialsKept == ~missed => versions[latest].secret = kept

\* "Load weight multipliers & thresholds from DB (migration 006)" (scoring_service.py): a
\* refresh that the database answers brings the weight of the row in force to the scorer.
WeightsLoaded ==
  [][ScoringCycle /\ cycles' = 0 /\ outages' = outages /\ ~missed
       => cached'.weight = versions[latest].params.weight]_configVars
=============================================================================
