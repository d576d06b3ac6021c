------------------------------ MODULE ClientPin ------------------------------
(***************************************************************************)
(* ClientPIN and the pinUvAuthToken (firmware/src/fido_hid: pin.c,         *)
(* pin_token.c, pin_md.c): who gets a token, what it allows, for how long, *)
(* and the lockout of one power-up.  One action is one request, or one     *)
(* check that another command makes of the token; they run one at a time   *)
(* (module CtapHid).  A chip call may fail in any of them; then the        *)
(* binding may be spent or changed or not (module PinKernel), and the FIDO *)
(* state may no longer be trusted until the next boot or reset.            *)
(*                                                                         *)
(* A PIN is a name.  A host sends a PIN of its choice, or one that no      *)
(* decryption gets right; and a pinUvAuthParam that was made with the      *)
(* token in use ("good") or not ("bad").  Time is counted in units, and    *)
(* HAL_GetTick shows it modulo TickRange.                                  *)
(***************************************************************************)
EXTENDS Integers

CONSTANTS
    RPs,            \* relying parties
    Pins,           \* PINs that satisfy the policy
    None,           \* no PIN, no RP, no authorisation
    PermSets,       \* the permissions that a host asks for
    MaxRetries,     \* FIDO_PIN_ROUNDS
    MaxConsec,      \* PIN_AUTH_BLOCKED_CONSEC
    InitialUse,     \* PUAT_INITIAL_USE_MS
    MaxLife,        \* PUAT_MAX_LIFE_MS
    TickRange,      \* 2^32
    MaxUptime       \* bound: the longest time between two power cycles

Perms == {"mc", "ga", "cm", "acfg"}
Legacy == {"mc", "ga"}

ASSUME NoneAssumption == None \notin RPs /\ None \notin Pins
ASSUME PermSetsAssumption == PermSets \subseteq SUBSET Perms
ASSUME PinBoundsAssumption == MaxRetries \in Nat \ {0} /\ MaxConsec \in Nat \ {0}
ASSUME TimeAssumption ==
    /\ InitialUse \in Nat /\ MaxLife \in Nat /\ InitialUse <= MaxLife
    /\ TickRange \in Nat \ {0} /\ MaxLife < TickRange
    /\ MaxUptime \in Nat

VARIABLES
    now,        \* time since power-up
    tok,        \* RAM: the pinUvAuthToken and its state
    same,       \* RAM: s_iter_gen is the token's generation
    consec,     \* RAM: s_consec_fails
    blocked,    \* RAM: s_auth_blocked
    ready,      \* RAM: credstore_ready
    pin,        \* chip: the PIN that opens the binding
    left,       \* chip: its attempts
    bound,      \* chip: the guard bit of O1
    always,     \* chip: alwaysUv (force_uv) of O1
    grant,      \* history: what the newest token was granted, and its use
    auth        \* history: what the last request was authorised for

pinVars == <<now, tok, same, consec, blocked, ready, pin, left, bound, always, grant, auth>>
chipVars == <<pin, left, bound, always>>
ramVars == <<consec, blocked, ready>>

-----------------------------------------------------------------------------
(* pin_token.c *)
Tick32(t) == t % TickRange
Age(t) == (Tick32(now) - t) % TickRange

NoToken == [inUse |-> FALSE, used |-> FALSE, uv |-> FALSE, perms |-> {},
            rp |-> None, issued |-> 0]

NoGrant == [perms |-> {}, rp |-> None, at |-> 0, pin |-> None, touched |-> FALSE, rps |-> {}]

Expired(t) ==
    t.inUse /\ (Age(t.issued) > MaxLife \/ (~t.used /\ Age(t.issued) > InitialUse))

expire(t) == IF Expired(t) THEN NoToken ELSE t

(* What goes with a token that expires. *)
Lapse == IF Expired(tok) THEN same' = FALSE /\ grant' = NoGrant ELSE UNCHANGED <<same, grant>>

(* Every reset and every new token has a generation of its own. *)
puat_reset == tok' = NoToken /\ same' = FALSE /\ grant' = NoGrant

puat_begin(ps, r) ==
    /\ tok' = [inUse |-> TRUE, used |-> FALSE, uv |-> TRUE, perms |-> ps,
               rp |-> r, issued |-> Tick32(now)]
    /\ same' = FALSE
    /\ grant' = [perms |-> ps, rp |-> r, at |-> now, pin |-> pin, touched |-> FALSE, rps |-> {}]

(* The token after a check of param. *)
puat_verify(param) ==
    LET t == expire(tok) IN IF t.inUse /\ param = "good" THEN [t EXCEPT !.used = TRUE] ELSE t

Verifies(param) == param = "good" /\ expire(tok).inUse

puat_rp_matches(t, r) == t.rp \in {None, r}

(* Mutant: the touch spends userVerified only. *)
puat_consume_uv == tok' = IF tok.inUse THEN [tok EXCEPT !.uv = FALSE] ELSE tok

puat_consume == tok' = IF tok.inUse THEN [tok EXCEPT !.uv = FALSE, !.perms = {}] ELSE tok

-----------------------------------------------------------------------------
(* Checks that the other commands make.  param is "none" when it is absent.*)
Params == {"none", "good", "bad"}

(* ctap2_creds.c check_token, when it passes: the token is bound to r. *)
CheckPasses(perm, r, param) ==
    /\ Verifies(param)
    /\ LET t == puat_verify(param) IN t.uv /\ perm \in t.perms /\ puat_rp_matches(t, r)

check_token(perm, r, param) ==
    /\ CheckPasses(perm, r, param)
    /\ tok' = [puat_verify(param) EXCEPT !.rp = r]
    /\ auth' = [perm |-> perm, rp |-> r, first |-> ~tok.used]
    /\ grant' = [grant EXCEPT !.rps = @ \cup {r}]
    /\ UNCHANGED <<now, same, ramVars, chipVars>>

(* A check that fails, for its MAC or for what the token lacks. *)
CheckFails(param) ==
    /\ tok' = puat_verify(param)
    /\ Lapse
    /\ auth' = None
    /\ UNCHANGED <<now, ramVars, chipVars>>

(* check_cm_token and check_acfg_token ask for one permission. *)
PermPasses(perm, param) == Verifies(param) /\ perm \in puat_verify(param).perms

(* credmgmt.c remembers the generation; r is None when all RPs are meant.  *)
check_cm_token(r, param) ==
    /\ PermPasses("cm", param)
    /\ tok' = puat_verify(param)
    /\ same' = TRUE
    /\ auth' = IF puat_rp_matches(tok, r)
                 THEN [perm |-> "cm", rp |-> r, first |-> ~tok.used] ELSE None
    /\ UNCHANGED <<now, ramVars, chipVars, grant>>

(* GetNextRP and GetNextCredential carry no param. *)
MayContinue == tok.inUse /\ ~Expired(tok) /\ same /\ "cm" \in tok.perms

ContinueCm ==
    /\ MayContinue
    /\ auth' = [perm |-> "cm", rp |-> tok.rp, first |-> FALSE]
    /\ UNCHANGED <<now, tok, same, ramVars, chipVars, grant>>

StopCm ==
    /\ ~MayContinue
    /\ tok' = expire(tok)
    /\ Lapse
    /\ auth' = None
    /\ UNCHANGED <<now, ramVars, chipVars>>

(* The touch of MakeCredential and GetAssertion. *)
Touched ==
    /\ puat_consume
    /\ auth' = None
    /\ grant' = [grant EXCEPT !.touched = tok.inUse]
    /\ UNCHANGED <<now, same, ramVars, chipVars>>

(* ctap2_config.c: toggleAlwaysUv, with a token once a PIN is set (or its  *)
(* state unreadable).                                                      *)
ToggleAlwaysUv ==
    /\ ready
    /\ \/ \E param \in Params :
            /\ PermPasses("acfg", param)
            /\ tok' = puat_verify(param)
            /\ auth' = [perm |-> "acfg", rp |-> None, first |-> ~tok.used]
       \/ pin = None /\ auth' = None /\ UNCHANGED tok
    /\ \/ always' = ~always /\ ready' \in BOOLEAN
       \/ ready' \in BOOLEAN /\ UNCHANGED always
    /\ UNCHANGED <<now, same, consec, blocked, pin, left, bound, grant>>

-----------------------------------------------------------------------------
(* pin.c.  The answer of fido_pin_state, when it can be read. *)
PinState == IF pin = None THEN "NOT_SET" ELSE IF left = 0 THEN "BLOCKED" ELSE "SET"

(* A failed call: the state may have become untrusted. *)
Fault == ready' \in BOOLEAN /\ UNCHANGED <<consec, blocked>>

(* fido_pin_set: the binding, then the guard with alwaysUv.  It may fail   *)
(* before the binding, between the two, or with the guard's reply lost.    *)
set_pin_with_key(p) ==
    \/ /\ pin' = p /\ left' = MaxRetries /\ bound' = TRUE /\ always' = TRUE
       /\ consec' = 0 /\ blocked' = FALSE
       /\ UNCHANGED ready
    \/ Fault /\ UNCHANGED chipVars
    \/ pin' = p /\ left' = MaxRetries /\ Fault /\ UNCHANGED <<bound, always>>
    \/ /\ pin' = p /\ left' = MaxRetries /\ bound' = TRUE /\ always' = TRUE
       /\ ready' = FALSE
       /\ UNCHANGED <<consec, blocked>>

handle_set_pin ==
    /\ ready /\ PinState = "NOT_SET"
    /\ \E p \in Pins : set_pin_with_key(p)
    /\ puat_reset
    /\ auth' = None
    /\ UNCHANGED now

(* Mutant: one wrong PIN too many before the lockout. *)
pin_mismatch_late ==
    /\ left' = left - 1
    /\ consec' = consec + 1
    /\ blocked' = (blocked \/ consec + 1 > MaxConsec)
    /\ ready' \in BOOLEAN
    /\ UNCHANGED pin

(* A wrong PIN: it has cost an attempt, and counts against this power-up;  *)
(* the read of what is left may fail.                                      *)
pin_mismatch_status ==
    /\ left' = left - 1
    /\ consec' = consec + 1
    /\ blocked' = (blocked \/ consec + 1 >= MaxConsec)
    /\ ready' \in BOOLEAN
    /\ UNCHANGED pin

(* An error of verify: the attempt is spent, or given back, or neither. *)
VerifyError == left' \in {left, left - 1, MaxRetries} /\ Fault

MayTry == ready /\ PinState = "SET" /\ ~blocked

(* Mutant: the tokens die only when the change has succeeded. *)
change_pin_keeps_token ==
    /\ MayTry
    /\ \/ /\ pin' \in Pins /\ left' = MaxRetries /\ consec' = 0
          /\ puat_reset
          /\ UNCHANGED <<blocked, ready>>
       \/ pin' \in Pins /\ left' = MaxRetries /\ Fault /\ UNCHANGED <<tok, same, grant>>
       \/ pin_mismatch_status /\ UNCHANGED <<tok, same, grant>>
    /\ auth' = None
    /\ UNCHANGED <<now, bound, always>>

(* The right PIN changes it, or is only verified when the new PIN breaks   *)
(* the policy.  An error may come after the commit.                        *)
handle_change_pin ==
    /\ MayTry
    /\ puat_reset
    /\ \/ /\ pin' \in Pins /\ left' = MaxRetries /\ consec' = 0
          /\ UNCHANGED <<blocked, ready>>
       \/ pin_mismatch_status
       \/ VerifyError /\ UNCHANGED pin
       \/ pin' \in Pins /\ left' = MaxRetries /\ Fault
    /\ auth' = None
    /\ UNCHANGED <<now, bound, always>>

(* issue_token: the older token dies first; the new one needs a random. *)
issue_token(ps, r) == puat_begin(ps, r) \/ puat_reset

(* getPinToken, and getPinUvAuthTokenUsingPinWithPermissions for ps and r. *)
handle_get_pin_token(ps, r) ==
    /\ MayTry
    /\ \/ /\ left' = MaxRetries /\ consec' = 0
          /\ issue_token(ps, r)
          /\ UNCHANGED <<blocked, ready, pin>>
       \/ pin_mismatch_status /\ UNCHANGED <<tok, same, grant>>
       \/ VerifyError /\ UNCHANGED <<pin, tok, same, grant>>
    /\ auth' = None
    /\ UNCHANGED <<now, bound, always>>

GetToken == \/ handle_get_pin_token(Legacy, None)
            \/ \E ps \in PermSets \ {{}}, r \in RPs \cup {None} : handle_get_pin_token(ps, r)

(* A read that fails in any other command. *)
ReadError ==
    /\ ready /\ ready' = FALSE
    /\ auth' = None
    /\ UNCHANGED <<now, tok, same, consec, blocked, chipVars, grant>>

-----------------------------------------------------------------------------
(* authenticatorReset after its touch: the wipe, done or stopped part-way, *)
(* and then pin_reset_ram.                                                 *)
FactoryReset ==
    /\ \/ /\ pin' = None /\ left' = 0 /\ bound' = FALSE /\ always' = FALSE
          /\ ready' \in BOOLEAN
       \/ /\ pin' \in {pin, None} /\ left' = IF pin' = None THEN 0 ELSE left
          /\ ready' = FALSE
          /\ UNCHANGED <<bound, always>>
    /\ puat_reset
    /\ consec' = 0 /\ blocked' = FALSE
    /\ auth' = None
    /\ UNCHANGED now

(* fido_state_boot and pin_init.  A binding without its guard gets it, and *)
(* alwaysUv; a guard without its binding is not served.                    *)
PowerCycle ==
    /\ now' = 0
    /\ puat_reset
    /\ consec' = 0 /\ blocked' = FALSE
    /\ \/ /\ pin # None \/ ~bound
          /\ ready' = TRUE
          /\ bound' = (pin # None)
          /\ always' = (always \/ (pin # None /\ ~bound))
       \/ ready' = FALSE /\ UNCHANGED <<bound, always>>
    /\ auth' = None
    /\ UNCHANGED <<pin, left>>

Tick ==
    /\ now < MaxUptime
    /\ now' = now + 1
    /\ auth' = None
    /\ UNCHANGED <<tok, same, ramVars, chipVars, grant>>

-----------------------------------------------------------------------------
PinInit ==
    /\ now = 0 /\ tok = NoToken /\ same = FALSE /\ consec = 0 /\ blocked = FALSE
    /\ ready = TRUE /\ pin = None /\ left = 0 /\ bound = FALSE /\ always = FALSE
    /\ grant = NoGrant /\ auth = None

(* A request of another command uses the token. *)
TokenUse ==
    \/ \E perm \in Legacy, r \in RPs, param \in Params : check_token(perm, r, param)
    \/ \E r \in RPs \cup {None}, param \in Params : check_cm_token(r, param)
    \/ \E param \in Params : CheckFails(param)
    \/ ContinueCm
    \/ StopCm
    \/ Touched

PinRequest == handle_set_pin \/ handle_change_pin \/ GetToken

PinNext == \/ TokenUse \/ PinRequest \/ ToggleAlwaysUv \/ ReadError
           \/ FactoryReset \/ PowerCycle \/ Tick

PinSpec == PinInit /\ [][PinNext]_pinVars

-----------------------------------------------------------------------------
Token == [inUse : BOOLEAN, used : BOOLEAN, uv : BOOLEAN, perms : SUBSET Perms,
          rp : RPs \cup {None}, issued : 0 .. TickRange - 1]
Grant == [perms : SUBSET Perms, rp : RPs \cup {None}, at : Nat, pin : Pins \cup {None},
          touched : BOOLEAN, rps : SUBSET RPs]
Auth == [perm : Perms, rp : RPs \cup {None}, first : BOOLEAN]

(* Types of the RAM of pin.c and pin_token.c and of the PIN's chip state;  *)
(* s_consec_fails stays within the limit that blocks.                      *)
PinTypeOK ==
    /\ now \in 0 .. MaxUptime
    /\ tok \in Token /\ same \in BOOLEAN
    /\ consec \in 0 .. MaxConsec /\ blocked \in BOOLEAN /\ ready \in BOOLEAN
    /\ pin \in Pins \cup {None} /\ left \in 0 .. MaxRetries
    /\ bound \in BOOLEAN /\ always \in BOOLEAN
    /\ grant \in Grant /\ auth \in Auth \cup {None}

(* No token outlives its PIN: the token in use was issued for the PIN that *)
(* opens the binding now, also when a change fails after its commit.       *)
TokenOfThisPin == tok.inUse => pin # None /\ pin = grant.pin

(* What a token authorises, it was granted: the permission, for one RP     *)
(* (the one it was issued for, or the first it was used for), in time for  *)
(* a first use or within its life, before any touch, under today's PIN.    *)
GrantedUse ==
    auth # None =>
        /\ auth.perm \in grant.perms
        /\ auth.perm # "acfg" => grant.rp \in {None, auth.rp} /\ grant.rps \subseteq {auth.rp}
        /\ now - grant.at <= (IF auth.first THEN InitialUse ELSE MaxLife)
        /\ ~grant.touched
        /\ pin = grant.pin

(* The lockout of a power-up: as many wrong PINs in a row as it allows     *)
(* block, and nothing but a power cycle or a reset spends an attempt or    *)
(* lifts the block then.                                                   *)
LockoutHolds ==
    [][/\ consec >= MaxConsec => blocked
       /\ blocked /\ ~PowerCycle /\ ~FactoryReset => blocked' /\ left' = left /\ pin' = pin]_pinVars
=============================================================================
