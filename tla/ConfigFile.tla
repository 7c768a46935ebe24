------------------------------- MODULE ConfigFile -------------------------------
(***************************************************************************)
(* config.yaml and its readers: ConfigSystem (config/config_system.py)      *)
(* serves the last text that validated, ConfigFileWatcher                   *)
(* (config/watcher.py) reloads it when the time of the file changes.        *)
(*                                                                         *)
(* A text has the settings its validators relate: the alert and watch       *)
(* thresholds, the ADX thresholds and the two take profit ratios.           *)
(***************************************************************************)
EXTENDS Integers

CONSTANTS
  Levels,      \* values of a setting
  MaxFileTime      \* bound: times the file can have

VARIABLES
  file,        \* config.yaml: [text, time]
  config,      \* what get() returns
  mtime,       \* _last_mtime
  masked       \* history: a save kept the time of a text already noted

fileVars == <<file, config, mtime, masked>>

Text == [alert: Levels, watch: Levels, trending: Levels, choppy: Levels, tp1: Levels, tp2: Levels]

\* The validators that relate two settings.
Validates(text) ==
  /\ text.choppy < text.trending
  /\ text.tp1 < text.tp2
  /\ text.watch < text.alert

FileInit ==
  /\ file \in [text: {t \in Text : Validates(t)}, time: {1}]
  /\ config = file.text /\ mtime = 1 /\ masked = FALSE

\* The file is saved, whole or not; two saves may get the same time.
Write ==
  /\ file.time < MaxFileTime
  /\ \E text \in Text, later \in {0, 1} :
       /\ file' = [text |-> text, time |-> file.time + later]
       /\ masked' = IF later = 0 THEN masked \/ file.time = mtime ELSE FALSE
  /\ UNCHANGED <<config, mtime>>

\* Mutant: the configuration is replaced before it is validated.
Watch_Replaces ==
  /\ file.time # mtime
  /\ mtime' = file.time
  /\ config' = file.text
  /\ UNCHANGED <<file, masked>>
\* The time is noted, then the file is loaded; a text that does not validate changes
\* nothing and is not tried again.
Watch ==
  /\ file.time # mtime
  /\ mtime' = file.time
  /\ config' = IF Validates(file.text) THEN file.text ELSE config
  /\ UNCHANGED <<file, masked>>

FileNext == Write \/ Watch

FileSpec == FileInit /\ [][FileNext]_fileVars

-----------------------------------------------------------------------------
(* Properties *)

\* What is served keeps watch below alert, choppy below trending and tp1 below tp2,
\* through half-written files, and is the file's own text once the watcher has seen it,
\* unless that text does not validate or was saved within the time already noted.
ServesLastValid ==
  /\ config.watch < config.alert /\ config.choppy < config.trending /\ config.tp1 < config.tp2
  /\ mtime = file.time /\ ~masked /\ Validates(file.text) => config = file.text
=============================================================================
