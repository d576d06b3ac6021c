----------------------------- MODULE MCPinKernel -----------------------------
(* PinKernel for TLC. *)
EXTENDS PinKernel, TLC

CONSTANTS p1, p2, s1, s2, s3, s4

MCPins == {p1, p2}
MCSecrets == {s1, s2, s3, s4}

(* PINs and secrets are only compared for equality. *)
KernelSymmetry == Permutations(MCPins) \cup Permutations(MCSecrets)
=============================================================================
