------------------------- MODULE MCIncidentLifecycle -------------------------
(***************************************************************************)
(* IncidentLifecycle on small sets, with everything the code does not rule *)
(* out: executions and runs that overlap, failing calls, restarts.         *)
(***************************************************************************)
EXTENDS IncidentLifecycle, TLC

Symmetry ==
    UNION {Permutations(Entities), Permutations(EventIds),
           Permutations(Slots), Permutations(Runs)}

=============================================================================
