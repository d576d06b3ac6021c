------------------------------ MODULE ChipCall -------------------------------
(***************************************************************************)
(* What every other module assumes of a call to the secure element: the    *)
(* chip runs it at most once; an answer means that it ran; an error leaves *)
(* open whether it did; and a cut of power ends it either way.             *)
(***************************************************************************)
EXTENDS Naturals

VARIABLES
    busy,       \* a call is out
    runs,       \* how often the chip has run it
    ret         \* "none", "answer" or "error"

vars == <<busy, runs, ret>>

Init == busy = FALSE /\ runs = 0 /\ ret = "none"

Begin == ~busy /\ busy' = TRUE /\ runs' = 0 /\ ret' = "none"

(* Bad arguments, or a chip that did not come up. *)
Refuse == ~busy /\ busy' = FALSE /\ runs' = 0 /\ ret' = "error"

Run == busy /\ runs = 0 /\ runs' = 1 /\ UNCHANGED <<busy, ret>>

Answer == busy /\ runs = 1 /\ busy' = FALSE /\ ret' = "answer" /\ UNCHANGED runs

Fail == busy /\ busy' = FALSE /\ ret' = "error" /\ UNCHANGED runs

Cut == busy' = FALSE /\ runs' = 0 /\ ret' = "none"

Next == Begin \/ Refuse \/ Run \/ Answer \/ Fail \/ Cut

Spec == Init /\ [][Next]_vars
=============================================================================
