------------------------------ MODULE MCServices ------------------------------
(***************************************************************************)
(* The services that share no state with one another, checked in one run:   *)
(* a behaviour picks the service it is about and leaves the others alone.   *)
(***************************************************************************)
EXTENDS ConfigStore, ConfigFile, PositionBook, DeltaTape, LossSeries, CircuitBreaker, TLC

CONSTANTS
  r1, r2,          \* request threads
  w1, w2           \* workers

VARIABLE focus

SeriesResults == {-6, -3, 4}

ServicesInit ==
  /\ focus \in {"delta", "store", "file", "book", "series", "breaker"}
  /\ DeltaInit /\ StoreInit /\ FileInit /\ BookInit /\ SeriesInit /\ Init
  /\ focus # "breaker" => regime = NoRegime

ServicesNext ==
  \/ /\ focus = "delta" /\ DeltaNext
     /\ UNCHANGED <<focus, configVars, fileVars, bookVars, lossVars, vars>>
  \/ /\ focus = "store" /\ StoreNext
     /\ UNCHANGED <<focus, deltaVars, fileVars, bookVars, lossVars, vars>>
  \/ /\ focus = "file" /\ FileNext
     /\ UNCHANGED <<focus, deltaVars, configVars, bookVars, lossVars, vars>>
  \/ /\ focus = "book" /\ BookNext
     /\ UNCHANGED <<focus, deltaVars, configVars, fileVars, lossVars, vars>>
  \/ /\ focus = "series" /\ SeriesNext
     /\ UNCHANGED <<focus, deltaVars, configVars, fileVars, bookVars, vars>>
  \/ /\ focus = "breaker" /\ Next
     /\ UNCHANGED <<focus, deltaVars, configVars, fileVars, bookVars, lossVars>>

ServicesSpec == ServicesInit /\ [][ServicesNext]_<<focus, deltaVars, configVars, fileVars,
                                                  bookVars, lossVars, vars>>

Symmetry == Permutations({r1, r2}) \cup Permutations({w1, w2}) \cup Permutations(Assets)
=============================================================================
