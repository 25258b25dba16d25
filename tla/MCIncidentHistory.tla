-------------------------- MODULE MCIncidentHistory --------------------------
(***************************************************************************)
(* IncidentHistory on small sets.  Messages and banks are interchangeable, *)
(* so are slots and runs.                                                  *)
(***************************************************************************)
EXTENDS IncidentHistory, TLC

Symmetry ==
    UNION {Permutations(Entities), Permutations(EventIds),
           Permutations(Slots), Permutations(Runs)}

=============================================================================
