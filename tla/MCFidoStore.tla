----------------------------- MODULE MCFidoStore -----------------------------
(* FidoStore for TLC. *)
EXTENDS FidoStore, TLC

CONSTANTS k1, k2, k3

MCKeys == {k1, k2, k3}

(* Keys are only compared for equality. *)
KeySymmetry == Permutations(MCKeys)
=============================================================================
