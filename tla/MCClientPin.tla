----------------------------- MODULE MCClientPin -----------------------------
(* ClientPin for TLC. *)
EXTENDS ClientPin, TLC

CONSTANTS r1, r2, p1, p2

MCRPs == {r1, r2}
MCPins == {p1, p2}
MCPermSets == {{"mc", "ga"}, {"ga", "cm"}, {"cm", "acfg"}}

(* RPs and PINs are only compared for equality. *)
MCSymmetry == Permutations(MCRPs) \cup Permutations(MCPins)
=============================================================================
