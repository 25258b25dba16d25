--------------------------- MODULE MCOpenIncidentBot ---------------------------
(***************************************************************************)
(* OpenIncidentBot with one bank, of either kind: a bank whose             *)
(* abbreviation differs from its name, or one that has a single spelling   *)
(* (DANA, Seabank, Shopeepay, BPD Bali).                                   *)
(***************************************************************************)
EXTENDS OpenIncidentBot, TLC

CONSTANTS bank, abbr, dana

OneBank == {bank}
OneBankEntities == {bank, abbr}
OneAbbreviation == bank :> abbr

OneSpelling == {dana}
SameAbbreviation == dana :> dana

Symmetry ==
    UNION {Permutations(EventIds), Permutations(Slots), Permutations(Runs),
           Permutations(Checks)}

=============================================================================
