------------------------- MODULE AdvancedBifastPolicy -------------------------
(***************************************************************************)
(* AdvancedBifastPolicy.decide, on what AdvancedBifastVerifier gathers.    *)
(* Of the sources whose level is critical only an Error Transfer table     *)
(* that is increasing confirms: the policy asks for one with a critical    *)
(* Avg Transaction first, and then for one without.  The level is never    *)
(* null; with no signal at all it is NORMAL.                               *)
(***************************************************************************)

DecideWithoutComplaint(level, hasComplaint, hasOpenIncident,
                       errorsIncreasing) ==     \* mutant: nobody is asked
    IF level # "CRITICAL" THEN "FALSE_POSITIVE"
    ELSE IF ~hasOpenIncident /\ errorsIncreasing
         THEN "CONFIRMED_INCIDENT"
         ELSE "WAIT"

Decide(level, hasComplaint, hasOpenIncident, errorsIncreasing) ==
    IF level # "CRITICAL" THEN "FALSE_POSITIVE"
    ELSE IF hasComplaint /\ ~hasOpenIncident /\ errorsIncreasing
         THEN "CONFIRMED_INCIDENT"
         ELSE "WAIT"

=============================================================================
