----------------------------- MODULE CardSession -----------------------------
(***************************************************************************)
(* What a smart-card reader promises its host: within one session of the   *)
(* bus requests are served one at a time, an answer is the answer to the   *)
(* request before it, and a reset of the bus ends everything: the request, *)
(* the answer and the access status of the card.                           *)
(***************************************************************************)
CONSTANTS
    Requests,   \* what a host may send
    None        \* no request, no answer

VARIABLES
    req,        \* the request being served
    ans,        \* the request whose answer waits for the host
    access      \* some PIN is verified in this session

vars == <<req, ans, access>>

Init == req = None /\ ans = None /\ access = FALSE

Accept == req = None /\ req' \in Requests /\ UNCHANGED <<ans, access>>

(* The card works on the request, which may verify a PIN or end access. *)
Work == req # None /\ access' \in BOOLEAN /\ UNCHANGED <<req, ans>>

Reply == req # None /\ ans = None /\ ans' = req /\ req' = None /\ UNCHANGED access

(* A request too short to answer, or an answer that cannot be sent. *)
Ignore == req # None /\ req' = None /\ UNCHANGED <<ans, access>>

Read == ans # None /\ ans' = None /\ UNCHANGED <<req, access>>

Reset == req' = None /\ ans' = None /\ access' = FALSE

Next == Accept \/ Work \/ Reply \/ Ignore \/ Read \/ Reset

Spec == Init /\ [][Next]_vars
=============================================================================
