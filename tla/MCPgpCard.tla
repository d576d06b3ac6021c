------------------------------ MODULE MCPgpCard ------------------------------
(* PgpCard for TLC. *)
EXTENDS PgpCard, TLC

CONSTANTS x1, x2, c1, c2

MCSecrets == {x1, x2}
MCCodes == {c1, c2}
OneCode == {c1}

(* Secrets and codes are only compared for equality. *)
Symmetry == Permutations(MCSecrets) \cup Permutations(MCCodes)
=============================================================================
