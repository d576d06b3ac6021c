------------------------------ MODULE MCCtapHid ------------------------------
(* Two channels, requests of up to two packets, answers of up to two. *)
EXTENDS CtapHid

CONSTANTS c1, c2

MCChannels == {c1, c2}
=============================================================================
