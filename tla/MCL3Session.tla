---------------------------- MODULE MCL3Session ------------------------------
(* L3Session for TLC. *)
EXTENDS L3Session
=============================================================================
