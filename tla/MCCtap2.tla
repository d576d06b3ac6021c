------------------------------- MODULE MCCtap2 -------------------------------
(* Ctap2 for TLC. *)
EXTENDS Ctap2, TLC

CONSTANTS r1, r2, p1, u1, u2

MCRP == {r1}
MCRPs == {r1, r2}
MCPin == {p1}
MCUser == {u1}
MCUsers == {u1, u2}
MCPermSets == {{"cm", "acfg"}}
MCListPerms == {{"ga", "cm"}}

(* RPs and users are only compared for equality. *)
MCUserSymmetry == Permutations(MCUsers)
MCRPSymmetry == Permutations(MCRPs)
=============================================================================
