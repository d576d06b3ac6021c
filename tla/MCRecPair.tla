------------------------------ MODULE MCRecPair ------------------------------
(* RecPair for TLC: three payloads, one of them too long for a reader. *)
EXTENDS RecPair

CONSTANTS p1, p2, p3

MCPayloads == {p1, p2, p3}
MCTooLong == {p3}
=============================================================================
