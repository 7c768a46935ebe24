------------------------------- MODULE Evidence -------------------------------
(***************************************************************************)
(* What ScoringService._run_cycle has detected when it comes to scoring,   *)
(* from one cycle to the next: a market in which one finding after another *)
(* appears, disappears or changes, in any order.                           *)
(***************************************************************************)
EXTENDS Scores

CONSTANT Findings   \* what each finding may be

ASSUME EvidenceAssumption ==
  /\ DOMAIN Findings \subseteq {"choch", "htf", "retest", "gap", "strong", "dominant", "absorbed",
                                "dry", "effort", "spot", "neutral", "away", "best", "parabolic",
                                "adx", "book"}
  /\ \A f \in DOMAIN Findings :
       Findings[f] \subseteq CASE f = "choch" -> {"bullish", "bearish", "none"}
                               [] f = "htf" -> Biases
                               [] f = "spot" -> {"poc", "edge", "away"}
                               [] f = "best" -> Nat
                               [] f = "adx" -> {"low", "high", "between"}
                               [] OTHER -> BOOLEAN

VARIABLE reading    \* what the detectors have found

\* Before anything is detected.
EvidenceInit ==
  reading = [choch |-> "none", htf |-> "neutral", retest |-> FALSE, gap |-> FALSE,
             strong |-> FALSE, dominant |-> FALSE, absorbed |-> FALSE, dry |-> FALSE,
             effort |-> FALSE, spot |-> "away", neutral |-> FALSE, away |-> FALSE, best |-> 0,
             parabolic |-> FALSE, adx |-> "between", book |-> FALSE]

EvidenceNext ==
  \E f \in DOMAIN Findings : \E v \in Findings[f] : reading' = [reading EXCEPT ![f] = v]

EvidenceSpec == EvidenceInit /\ [][EvidenceNext]_reading

\* Whatever has been detected: more evidence never lowers the score, and a parabolic market
\* alerts nobody.
ScoresOrdered == MoreIsNotLess(reading) /\ ParabolicIsQuiet(reading)
=============================================================================
