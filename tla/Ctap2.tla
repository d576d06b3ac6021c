-------------------------------- MODULE Ctap2 --------------------------------
(***************************************************************************)
(* The CTAP2 commands over the token and the credential store              *)
(* (firmware/src/fido_hid: ctap2.c, ctap2_creds.c, credmgmt.c,             *)
(* ctap2_config.c): policy, touch, GetNextAssertion, the enumerations and  *)
(* the reset.  Requests run one at a time; one that waits for a touch or   *)
(* changes the store is several steps, and time may pass or power be cut   *)
(* between them.                                                           *)
(*                                                                         *)
(* A slot holds a published credential or None: what a cut or failed call  *)
(* leaves of one is in module FidoStore.  A credential that a command      *)
(* cannot read is left out of what it finds.                               *)
(***************************************************************************)
EXTENDS ClientPin, Sequences

CONSTANTS
    NSlots,         \* FIDO_SLOTS_MAX
    Users,          \* user handles
    MaxSeq,         \* UINT32_MAX, the last creation sequence number
    NextTimeout,    \* GET_NEXT_TIMEOUT_MS
    UpTimeout,      \* UP_TIMEOUT_MS
    ResetWindow     \* RESET_WINDOW_MS

ASSUME NSlotsAssumption == NSlots \in Nat \ {0}
ASSUME MaxSeqAssumption == MaxSeq \in Nat
ASSUME TimeoutsAssumption ==
    NextTimeout \in Nat /\ UpTimeout \in Nat \ {0} /\ ResetWindow \in 0 .. TickRange - 1

VARIABLES
    cred,       \* chip: the credential in each slot
    ga,         \* RAM: s_ga, what GetNextAssertion goes on with
    iter,       \* RAM: the iterator of credMgmt
    req,        \* RAM: the request that waits for its touch or for the chip
    ret         \* the last answer

vars == <<pinVars, cred, ga, iter, req, ret>>

SlotIds == 0 .. NSlots - 1
Used == {k \in SlotIds : cred[k] # None}
FreeSlots == SlotIds \ Used
Least(S) == CHOOSE x \in S : \A y \in S : x <= y

(* Lists of slots in S: in the order of the slots, or the newest first. *)
Lists(S) == UNION {[1 .. n -> S] : n \in 0 .. NSlots}
SlotLists == Lists(SlotIds)

BySlot(l) == \A i, j \in DOMAIN l : i < j => l[i] < l[j]
Newer(j, k) == cred[j].seq > cred[k].seq \/ (cred[j].seq = cred[k].seq /\ j < k)
NewestFirst(l) == \A i, j \in DOMAIN l : i < j => Newer(l[i], l[j])

NoGa == [active |-> FALSE, list |-> <<>>, pos |-> 0, rp |-> None, up |-> FALSE, uv |-> FALSE,
         last |-> 0, pin |-> None]
NoIter == [kind |-> "none", list |-> <<>>, pos |-> 0, rp |-> None]
NoReq == [cmd |-> "none"]

Idle == req = NoReq

Answer(c, ok, up, uv, r) == ret' = [cmd |-> c, ok |-> ok, up |-> up, uv |-> uv, rp |-> r]
Refuse == Answer("none", FALSE, FALSE, FALSE, None) /\ req' = NoReq
RefuseCm == Answer("cm", FALSE, FALSE, FALSE, None) /\ req' = NoReq
Start(q) == Answer("none", FALSE, FALSE, FALSE, None) /\ req' = q

(* Mutant: credMgmt iterators survive other commands. *)
DispatchIterNever == UNCHANGED iter

(* fido_hid_cbor_dispatch: every other command ends an enumeration, ... *)
DispatchIter == iter' = NoIter

(* Mutant: only a new GetAssertion ends a sequence of assertions. *)
DispatchGaNever == UNCHANGED ga

(* ... and a sequence of assertions. *)
DispatchGa == ga' = NoGa

-----------------------------------------------------------------------------
(* Requests that change nothing else: GetInfo, an unknown or malformed     *)
(* command, a refused option, or any command while the state is not        *)
(* trusted.  A GetAssertion or credMgmt that is refused early keeps its    *)
(* own state.                                                              *)
OtherCommand ==
    /\ Idle
    /\ \/ DispatchIter /\ DispatchGa
       \/ DispatchIter /\ UNCHANGED ga
       \/ UNCHANGED iter /\ DispatchGa
    /\ UNCHANGED pinVars \/ ReadError
    /\ Refuse
    /\ UNCHANGED cred

ClientPinCommand ==
    /\ Idle
    /\ PinRequest
    /\ DispatchIter /\ DispatchGa
    /\ Refuse
    /\ UNCHANGED cred

(* Mutant: toggleAlwaysUv needs no token. *)
ConfigUnchecked ==
    /\ Idle /\ ready
    /\ always' = ~always
    /\ auth' = None
    /\ UNCHANGED <<now, tok, same, ramVars, pin, left, bound, grant>>
    /\ DispatchIter /\ DispatchGa
    /\ Refuse
    /\ UNCHANGED cred

ctap2_config ==
    /\ Idle /\ ready
    /\ \/ ToggleAlwaysUv
       \/ \E param \in Params : ~PermPasses("acfg", param) /\ CheckFails(param)
    /\ DispatchIter /\ DispatchGa
    /\ Refuse
    /\ UNCHANGED cred

(* A touch that ends in a refusal all the same: the probe with an empty    *)
(* pinUvAuthParam, and an excluded credential.                             *)
Ask == [cmd |-> "ask", since |-> now]

pin_probe ==
    /\ Idle /\ ready
    /\ DispatchIter /\ DispatchGa
    /\ Start(Ask)
    /\ UNCHANGED <<pinVars, cred>>

-----------------------------------------------------------------------------
(* MakeCredential.  An unreadable PIN state counts as a PIN. *)
PinReads == {PinState, "ERROR"}

mc_uv_policy(st, rk, param) ==
    IF always THEN st # "NOT_SET" /\ param # "none"
    ELSE ~(st # "NOT_SET" /\ param = "none" /\ rk)

Checked(st, param) == st # "NOT_SET" /\ param # "none"

NextSeq == 1 + (IF Used = {} THEN 0
                ELSE CHOOSE n \in {cred[k].seq : k \in Used} : \A k \in Used : cred[k].seq <= n)

(* Mutant: the last sequence number is no limit. *)
SeqOffByOne == NextSeq <= MaxSeq + 1

SeqLeft == NextSeq <= MaxSeq

(* Mutant: the scan starts at the second slot. *)
ReplacedFromOne(r, u, rk) ==
    {k \in Used \ {0} : rk /\ cred[k].rk /\ cred[k].rp = r /\ cred[k].user = u}

Replaced(r, u, rk) == {k \in Used : rk /\ cred[k].rk /\ cred[k].rp = r /\ cred[k].user = u}

(* What is left of MakeCredential before the touch: the exclude list, then *)
(* mc_scan, which fails on a credential that it cannot read.               *)
mc_prepare(r, u, rk, uv) ==
    \/ Refuse
    \/ /\ \E k \in Used : cred[k].rp = r
       /\ Start(Ask)
    \/ /\ SeqLeft
       /\ Start([cmd |-> "mc", since |-> now, uv |-> uv, repl |-> Replaced(r, u, rk),
                 new |-> [rp |-> r, user |-> u, rk |-> rk, seq |-> NextSeq]])

ctap2_make_credential ==
    /\ Idle /\ ready
    /\ DispatchIter /\ DispatchGa
    /\ \E r \in RPs, u \in Users, rk \in BOOLEAN, param \in Params, st \in PinReads :
         /\ mc_uv_policy(st, rk, param)
         /\ IF Checked(st, param)
              THEN \/ check_token("mc", r, param) /\ mc_prepare(r, u, rk, TRUE)
                   \/ ~CheckPasses("mc", r, param) /\ CheckFails(param) /\ Refuse
              ELSE UNCHANGED pinVars /\ mc_prepare(r, u, rk, FALSE)
    /\ UNCHANGED cred

(* credstore_make, and the replaced credentials: one bitmap write takes    *)
(* the new one in and the old ones out.                                    *)
Published ==
    [k \in SlotIds |-> IF k = Least(FreeSlots) THEN req.new
                       ELSE IF k \in req.repl THEN None ELSE cred[k]]

Make ==
    /\ req.cmd = "make"
    /\ \/ /\ FreeSlots # {}
          /\ cred' = Published
          /\ UNCHANGED pinVars
          /\ req' = NoReq
          /\ Answer("mc", TRUE, TRUE, req.uv, req.new.rp)
       \/ Refuse /\ UNCHANGED cred /\ (UNCHANGED pinVars \/ ReadError)
       \/ FreeSlots # {} /\ cred' = Published /\ ReadError /\ Refuse
    /\ UNCHANGED <<ga, iter>>

-----------------------------------------------------------------------------
(* GetAssertion: the credentials it may use, the first of which signs.     *)
ga_uv_policy(st, up, param) == always /\ up => st # "NOT_SET" /\ param # "none"

ga_from_allow_list(r) == {<<k>> : k \in {j \in Used : cred[j].rp = r}}

ga_discover(r) == {l \in Lists({k \in Used : cred[k].rk /\ cred[k].rp = r}) : NewestFirst(l)}

ga_prepare(r, up, uv) ==
    \/ Refuse
    \/ \E l \in (ga_from_allow_list(r) \cup ga_discover(r)) \ {<<>>} :
         Start([cmd |-> IF up THEN "ga" ELSE "sign", since |-> now, rp |-> r,
                up |-> up, uv |-> uv, list |-> l])

ctap2_get_assertion ==
    /\ Idle /\ ready
    /\ DispatchIter
    /\ ga' = NoGa
    /\ \E r \in RPs, up \in BOOLEAN, param \in Params, st \in PinReads :
         /\ ga_uv_policy(st, up, param)
         /\ IF Checked(st, param)
              THEN \/ check_token("ga", r, param) /\ ga_prepare(r, up, TRUE)
                   \/ ~CheckPasses("ga", r, param) /\ CheckFails(param) /\ Refuse
              ELSE UNCHANGED pinVars /\ ga_prepare(r, up, FALSE)
    /\ UNCHANGED cred

ga_sign_respond ==
    /\ req.cmd = "sign"
    /\ \/ /\ cred[req.list[1]] # None /\ cred[req.list[1]].rp = req.rp
          /\ Answer("ga", TRUE, req.up, req.uv, req.rp)
          /\ req' = NoReq
          /\ ga' = IF Len(req.list) > 1
                     THEN [active |-> TRUE, list |-> req.list, pos |-> 1, rp |-> req.rp,
                           up |-> req.up, uv |-> req.uv, last |-> Tick32(now), pin |-> pin]
                     ELSE ga
       \/ Refuse /\ UNCHANGED ga
    /\ UNCHANGED <<pinVars, cred, iter>>

ctap2_get_next_assertion ==
    /\ Idle /\ ready
    /\ DispatchIter
    /\ CASE ~ga.active \/ ga.pos >= Len(ga.list) -> Refuse /\ UNCHANGED ga
         [] ga.active /\ ga.pos < Len(ga.list) /\ Age(ga.last) > NextTimeout ->
                Refuse /\ ga' = NoGa
         [] OTHER ->
                LET k == ga.list[ga.pos + 1] IN
                /\ ga' = [ga EXCEPT !.pos = @ + 1, !.last = Tick32(now)]
                /\ \/ /\ cred[k] # None /\ cred[k].rp = ga.rp
                      /\ Answer("gna", TRUE, ga.up, ga.uv, ga.rp)
                      /\ req' = NoReq
                   \/ Refuse
    /\ UNCHANGED <<pinVars, cred>>

-----------------------------------------------------------------------------
(* credMgmt: getCredsMetadata, the two Begins and delete need a token; a   *)
(* refused one leaves the iterator alone, any other starts it anew.        *)
build_rp_list ==
    {l \in Lists(Used) :
        BySlot(l) /\ \A i, j \in DOMAIN l : i # j => cred[l[i]].rp # cred[l[j]].rp}

build_cred_list_for_rp(r) == {l \in Lists({k \in Used : cred[k].rp = r}) : BySlot(l)}

(* An entry of the list is answered, or cannot be read. *)
Entry(l, i) ==
    \/ /\ cred[l[i]] # None
       /\ Answer("list", TRUE, FALSE, FALSE, cred[l[i]].rp)
       /\ req' = NoReq
    \/ Refuse

Enumerate(kind, r, l) ==
    /\ iter' = [kind |-> kind, list |-> l, pos |-> IF l = <<>> THEN 0 ELSE 1, rp |-> r]
    /\ IF l = <<>> THEN RefuseCm ELSE Entry(l, 1)

(* r is the RP that the sub-command is about, None for all of them. *)
Begin(kind, r, lists) ==
    /\ \E param \in Params : check_cm_token(r, param)
    /\ IF puat_rp_matches(tok, r)
         THEN \E l \in lists : Enumerate(kind, r, l)
         ELSE iter' = NoIter /\ RefuseCm
    /\ UNCHANGED cred

do_get_creds_metadata ==
    /\ \E param \in Params : check_cm_token(None, param)
    /\ iter' = NoIter
    /\ RefuseCm
    /\ UNCHANGED cred

do_delete_credential ==
    /\ \E k \in Used, param \in Params :
         /\ check_cm_token(cred[k].rp, param)
         /\ IF puat_rp_matches(tok, cred[k].rp)
              THEN Start([cmd |-> "erase", slot |-> k])
              ELSE RefuseCm
    /\ iter' = NoIter
    /\ UNCHANGED cred

(* GetNextRP, GetNextCredential: kind is "rps" or "creds". *)
GetNext(kind) ==
    /\ \/ StopCm /\ iter' = NoIter /\ Refuse
       \/ /\ ContinueCm
          /\ CASE iter.kind # kind -> iter' = NoIter /\ Refuse
               [] iter.kind = kind /\ iter.pos >= Len(iter.list) -> UNCHANGED iter /\ Refuse
               [] OTHER -> /\ iter' = [iter EXCEPT !.pos = @ + 1]
                           /\ Entry(iter.list, iter.pos + 1)
    /\ UNCHANGED cred

credmgmt_handle_cbor ==
    /\ Idle /\ ready
    /\ DispatchGa
    /\ \/ /\ \E param \in Params : ~PermPasses("cm", param) /\ CheckFails(param)
          /\ RefuseCm
          /\ UNCHANGED <<iter, cred>>
       \/ do_get_creds_metadata
       \/ Begin("rps", None, build_rp_list)
       \/ \E r \in RPs : Begin("creds", r, build_cred_list_for_rp(r))
       \/ do_delete_credential
       \/ \E kind \in {"rps", "creds"} : GetNext(kind)

Erase ==
    /\ req.cmd = "erase"
    /\ \/ cred' = [cred EXCEPT ![req.slot] = None]
       \/ UNCHANGED cred
    /\ UNCHANGED pinVars \/ ReadError
    /\ RefuseCm
    /\ UNCHANGED <<ga, iter>>

-----------------------------------------------------------------------------
(* authenticatorReset *)
Reset ==
    /\ Idle
    /\ DispatchIter /\ DispatchGa
    /\ IF Tick32(now) > ResetWindow
         THEN Refuse
         ELSE Start([cmd |-> "reset", since |-> now])
    /\ UNCHANGED <<pinVars, cred>>

(* The wipe takes credentials first, then the PIN, then O1. *)
Wipe ==
    /\ req.cmd = "reset"
    /\ FactoryReset
    /\ \E S \in SUBSET SlotIds :
         /\ cred' = [k \in SlotIds |-> IF k \in S THEN None ELSE cred[k]]
         /\ ready' \/ <<pin, bound, always>>' # <<pin, bound, always>> => S = SlotIds
    /\ Refuse
    /\ UNCHANGED <<ga, iter>>

(* user_presence_check: the touch, *)
Waiting == req.cmd \in {"ask", "mc", "ga", "reset"}

Touch ==
    /\ req.cmd \in {"mc", "ga"}
    /\ Touched
    /\ req' = [req EXCEPT !.cmd = IF @ = "mc" THEN "make" ELSE "sign"]
    /\ UNCHANGED <<cred, ga, iter, ret>>

(* or none: a cancel, a timeout, or a button that was held down. *)
NoTouch ==
    /\ Waiting
    /\ Refuse
    /\ UNCHANGED <<pinVars, cred, ga, iter>>

(* The read of the PIN state failed earlier in the request (it then counts *)
(* as set), and the request goes on, the last before the next boot.        *)
PinStateLost ==
    /\ ~Idle
    /\ ReadError
    /\ UNCHANGED <<cred, ga, iter, req, ret>>

TimePasses ==
    /\ Waiting => now - req.since < UpTimeout
    /\ Tick
    /\ UNCHANGED <<cred, ga, iter, req, ret>>

PowerCut ==
    /\ PowerCycle
    /\ ga' = NoGa /\ iter' = NoIter
    /\ Refuse
    /\ UNCHANGED cred

-----------------------------------------------------------------------------
Init ==
    /\ PinInit
    /\ cred = [k \in SlotIds |-> None]
    /\ ga = NoGa /\ iter = NoIter /\ req = NoReq
    /\ ret = [cmd |-> "none", ok |-> FALSE, up |-> FALSE, uv |-> FALSE, rp |-> None]

Command == \/ OtherCommand \/ ClientPinCommand \/ ctap2_config \/ pin_probe
           \/ ctap2_make_credential \/ ctap2_get_assertion \/ ctap2_get_next_assertion
           \/ credmgmt_handle_cbor \/ Reset
Continue == Touch \/ NoTouch \/ PinStateLost \/ Make \/ ga_sign_respond \/ Erase \/ Wipe

Next == Command \/ Continue \/ TimePasses \/ PowerCut

Spec == Init /\ [][Next]_vars

-----------------------------------------------------------------------------
Credential == [rp : RPs, user : Users, rk : BOOLEAN, seq : 1 .. MaxSeq]

(* Types of the store, of the state kept between two commands, and of the  *)
(* request in progress; positions stay within their lists.                 *)
TypeOK ==
    /\ PinTypeOK
    /\ cred \in [SlotIds -> Credential \cup {None}]
    /\ ga.list \in SlotLists /\ ga.pos \in 0 .. Len(ga.list) /\ ga.rp \in RPs \cup {None}
    /\ ga.last \in 0 .. TickRange - 1
    /\ iter.kind \in {"none", "rps", "creds"}
    /\ iter.list \in SlotLists /\ iter.pos \in 0 .. Len(iter.list)
    /\ req.cmd \in {"none", "ask", "mc", "make", "ga", "sign", "erase", "reset"}

(* At most one discoverable credential of an account, and a creation order *)
(* without ties: what is read before the touch is still right after it.    *)
OneAccount ==
    \A j, k \in Used : j # k =>
        /\ cred[j].seq # cred[k].seq
        /\ cred[j].rk /\ cred[k].rk => cred[j].rp # cred[k].rp \/ cred[j].user # cred[k].user

(* What is kept between commands is never stale: the slots that are still  *)
(* to come hold credentials, of the RP they were asked for; and no UV bit  *)
(* of a GetAssertion outlives the PIN that earned it.                      *)
NoStaleLists ==
    /\ \A i \in ga.pos + 1 .. Len(ga.list) :
         cred[ga.list[i]] # None /\ cred[ga.list[i]].rp = ga.rp
    /\ ga.active => ga.pin = pin
    /\ \A i \in iter.pos + 1 .. Len(iter.list) :
         cred[iter.list[i]] # None /\ iter.rp \in {None, cred[iter.list[i]].rp}

(* An enumeration answers only within its token: it is in use, has cm, and *)
(* is bound to no RP or to the RP that is named, also in a GetNext, which  *)
(* carries no pinUvAuthParam.                                              *)
EnumerationScope ==
    ret.cmd = "list" /\ ret.ok =>
        tok.inUse /\ "cm" \in tok.perms /\ puat_rp_matches(tok, ret.rp)

(* alwaysUv: while it is on, no assertion or registration with the UP bit  *)
(* lacks UV, GetNextAssertion included, whenever it was switched on.       *)
AlwaysUvHolds == ret.ok /\ ret.up /\ always => ret.uv

(* The commands use the token only through its interface: every step is a  *)
(* step of ClientPin, or leaves its state alone.                           *)
ImplementsClientPin == PinSpec
=============================================================================
