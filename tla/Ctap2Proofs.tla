----------------------------- MODULE Ctap2Proofs -----------------------------
(***************************************************************************)
(* Proofs about the tokens and the lockout of ClientPin and the commands   *)
(* of Ctap2, for any PINs, RPs, users, permissions, slots, limits and      *)
(* times.                                                                  *)
(***************************************************************************)
EXTENDS Ctap2, SequenceTheorems, WellFoundedInduction, TLAPS

-----------------------------------------------------------------------------
(* A tick that has not wrapped is the time. *)
LEMMA ModSmall == ASSUME NEW a \in Nat, NEW n \in Nat, a < n PROVE a % n = a
  OBVIOUS

LEMMA AgeNow ==
    ASSUME MaxUptime < TickRange, now \in 0 .. MaxUptime, NEW t \in 0 .. now
    PROVE  Tick32(now) = now /\ Age(t) = now - t
<1>1. now \in Nat /\ now - t \in Nat /\ now < TickRange /\ now - t < TickRange /\ TickRange \in Nat
  BY TimeAssumption
<1>2. now % TickRange = now /\ (now - t) % TickRange = now - t
  BY <1>1, ModSmall
<1> QED
  BY <1>2 DEF Tick32, Age

-----------------------------------------------------------------------------
(* The inductive invariant. *)

(* PinTypeOK in three parts: the flags, the numbers, the records. *)
PinFlags ==
    /\ same \in BOOLEAN /\ blocked \in BOOLEAN /\ ready \in BOOLEAN
    /\ bound \in BOOLEAN /\ always \in BOOLEAN

PinNumbers ==
    /\ now \in 0 .. MaxUptime
    /\ consec \in 0 .. MaxConsec
    /\ pin \in Pins \cup {None} /\ left \in 0 .. MaxRetries

PinRecords == tok \in Token /\ grant \in Grant /\ auth \in Auth \cup {None}

(* The lockout: it starts at the limit, and only a PIN can be blocked. *)
Locked ==
    /\ consec >= MaxConsec => blocked
    /\ blocked => pin # None

(* A token t in use holds no more than its grant g: the PIN of today, its  *)
(* permissions until a touch, and one RP once it has been used for one.    *)
Holds(t, g) ==
    t.inUse =>
        /\ pin # None /\ pin = g.pin
        /\ t.perms \subseteq g.perms
        /\ g.touched => t.perms = {}
        /\ g.rp \in {None, t.rp} /\ g.rps \subseteq {t.rp}
        /\ t.rp = None => g.rps = {}

(* The tick of a token is the time of its grant, unless it has wrapped. *)
Dated(t, g) == t.inUse => t.issued = g.at /\ g.at \in 0 .. now

PinInv == PinNumbers /\ PinRecords /\ Locked /\ Holds(tok, grant)
Timed == Dated(tok, grant) /\ GrantedUse

-----------------------------------------------------------------------------
(* pin_token.c. *)

LEMMA NoTokenFacts ==
    NoToken \in Token /\ ~NoToken.inUse /\ NoGrant \in Grant
  BY TimeAssumption DEF NoToken, Token, NoGrant, Grant, Perms

(* A check that passes leaves everything but the used mark. *)
LEMMA VerifyPasses ==
    ASSUME tok \in Token, NEW param, Verifies(param)
    PROVE  LET t == puat_verify(param)
           IN  /\ tok.inUse /\ ~Expired(tok)
               /\ t \in Token /\ t.inUse /\ t.perms = tok.perms /\ t.rp = tok.rp
               /\ t.uv = tok.uv /\ t.issued = tok.issued
<1>1. ~Expired(tok)
  BY NoTokenFacts DEF Verifies, expire
<1>2. expire(tok) = tok /\ tok.inUse /\ param = "good"
  BY <1>1 DEF Verifies, expire
<1>3. puat_verify(param) = [tok EXCEPT !.used = TRUE]
  BY <1>2 DEF puat_verify
<1> QED
  BY <1>1, <1>2, <1>3 DEF Token

(* A check that fails leaves no token, or the same one. *)
LEMMA VerifyAny ==
    ASSUME tok \in Token, NEW param
    PROVE  LET t == puat_verify(param)
           IN  /\ t \in Token
               /\ Expired(tok) => t = NoToken
               /\ ~Expired(tok) => /\ t.inUse = tok.inUse /\ t.perms = tok.perms /\ t.rp = tok.rp
                                   /\ t.issued = tok.issued
<1>1. CASE Expired(tok)
  BY <1>1, NoTokenFacts DEF puat_verify, expire
<1>2. CASE ~Expired(tok) /\ tok.inUse /\ param = "good"
  BY <1>2 DEF puat_verify, expire, Token
<1>3. CASE ~Expired(tok) /\ ~(tok.inUse /\ param = "good")
  BY <1>3 DEF puat_verify, expire
<1> QED
  BY <1>1, <1>2, <1>3

(* A token that stays, or goes: with it goes its grant. *)
LEMMA Kept ==
    ASSUME PinRecords, Holds(tok, grant), UNCHANGED pin,
           \/ tok'.inUse = tok.inUse /\ tok'.perms = tok.perms /\ tok'.rp = tok.rp /\ UNCHANGED grant
           \/ tok' = NoToken
    PROVE  Holds(tok, grant)'
  BY NoTokenFacts DEF Holds

-----------------------------------------------------------------------------
(* pin.c: the attempts and the lockout. *)

LEMMA Trying == MayTry => pin # None /\ left # 0 /\ ~blocked
  BY DEF MayTry, PinState

(* A wrong PIN counts once, and the last one that is allowed blocks. *)
LEMMA MismatchStep ==
    ASSUME PinNumbers, Locked, MayTry, pin_mismatch_status
    PROVE  /\ consec' \in 0 .. MaxConsec /\ left' \in 0 .. MaxRetries /\ pin' = pin
           /\ consec' >= MaxConsec => blocked'
           /\ pin # None
<1>1. pin # None /\ left # 0 /\ ~blocked
  BY Trying
<1>2. consec' = consec + 1 /\ left' = left - 1 /\ pin' = pin
  BY DEF pin_mismatch_status
<1>3. consec < MaxConsec
  BY <1>1, PinBoundsAssumption DEF PinNumbers, Locked
<1>4. consec + 1 >= MaxConsec => blocked'
  BY DEF pin_mismatch_status
<1> QED
  BY <1>1, <1>2, <1>3, <1>4, PinBoundsAssumption DEF PinNumbers

LEMMA NumbersStep ==
    ASSUME PinNumbers, Locked, [PinNext]_pinVars
    PROVE  PinNumbers' /\ Locked'
<1> USE PinBoundsAssumption, TimeAssumption DEF PinNumbers, Locked
<1>1. CASE TokenUse \/ ToggleAlwaysUv \/ ReadError
  <2>1. UNCHANGED <<now, consec, blocked, pin, left>>
    BY <1>1 DEF TokenUse, check_token, check_cm_token, CheckFails, ContinueCm, StopCm, Touched,
                ToggleAlwaysUv, ReadError, ramVars, chipVars
  <2> QED
    BY <2>1
<1>2. CASE handle_set_pin
  <2>1. pin = None /\ ~blocked /\ UNCHANGED now
    BY <1>2 DEF handle_set_pin, PinState
  <2>2. PICK p \in Pins : set_pin_with_key(p)
    BY <1>2 DEF handle_set_pin
  <2>3. p # None
    BY NoneAssumption
  <2> QED
    BY <2>1, <2>2, <2>3 DEF set_pin_with_key, Fault, chipVars
<1>3. CASE handle_change_pin
  <2>1. MayTry /\ UNCHANGED now
    BY <1>3 DEF handle_change_pin
  <2>2. CASE pin_mismatch_status
    BY <2>1, <2>2, MismatchStep
  <2>3. CASE ~pin_mismatch_status
    <3>1. /\ consec' \in {0, consec} /\ blocked' = blocked
          /\ left' \in {left, left - 1, MaxRetries} /\ (pin' \in Pins \/ pin' = pin)
      BY <1>3, <2>3 DEF handle_change_pin, VerifyError, Fault
    <3> QED
      BY <2>1, <3>1, Trying, NoneAssumption
  <2> QED
    BY <2>2, <2>3
<1>4. ASSUME NEW ps, NEW r, handle_get_pin_token(ps, r) PROVE PinNumbers' /\ Locked'
  <2>1. MayTry /\ UNCHANGED now
    BY <1>4 DEF handle_get_pin_token
  <2>2. CASE pin_mismatch_status
    BY <2>1, <2>2, MismatchStep
  <2>3. CASE ~pin_mismatch_status
    <3>1. /\ consec' \in {0, consec} /\ blocked' = blocked
          /\ left' \in {left, left - 1, MaxRetries} /\ pin' = pin
      BY <1>4, <2>3 DEF handle_get_pin_token, VerifyError, Fault
    <3> QED
      BY <2>1, <3>1, Trying
  <2> QED
    BY <2>2, <2>3
<1>5. CASE FactoryReset
  BY <1>5 DEF FactoryReset
<1>6. CASE PowerCycle
  BY <1>6 DEF PowerCycle
<1>7. CASE Tick
  BY <1>7 DEF Tick, ramVars, chipVars
<1>8. CASE UNCHANGED pinVars
  BY <1>8 DEF pinVars
<1> QED
  BY <1>1, <1>2, <1>3, <1>4, <1>5, <1>6, <1>7, <1>8 DEF PinNext, PinRequest, GetToken

(* Under the block no request spends an attempt, sets a PIN or lifts it. *)
LEMMA LockoutStep ==
    ASSUME PinNumbers, Locked, [PinNext]_pinVars, blocked, ~PowerCycle, ~FactoryReset
    PROVE  blocked' /\ left' = left /\ pin' = pin
<1>1. CASE TokenUse \/ ToggleAlwaysUv \/ ReadError \/ Tick
  BY <1>1 DEF TokenUse, check_token, check_cm_token, CheckFails, ContinueCm, StopCm, Touched,
              ToggleAlwaysUv, ReadError, Tick, ramVars, chipVars
<1>2. ~handle_set_pin
  BY DEF handle_set_pin, PinState, Locked
<1>3. ~handle_change_pin /\ ~GetToken
  BY DEF handle_change_pin, GetToken, handle_get_pin_token, MayTry
<1>4. CASE UNCHANGED pinVars
  BY <1>4 DEF pinVars
<1> QED
  BY <1>1, <1>2, <1>3, <1>4 DEF PinNext, PinRequest

LEMMA PinFlagsStep == PinFlags /\ [PinNext]_pinVars => PinFlags'
<1> SUFFICES ASSUME PinFlags, [PinNext]_pinVars PROVE PinFlags'
  OBVIOUS
<1> USE DEF PinFlags
<1>1. CASE TokenUse
  BY <1>1, Zenon DEF TokenUse, check_token, check_cm_token, CheckFails, ContinueCm, StopCm, Touched,
              Lapse, ramVars, chipVars
<1>2. CASE ToggleAlwaysUv \/ ReadError \/ Tick
  BY <1>2, Zenon DEF ToggleAlwaysUv, ReadError, Tick, ramVars, chipVars
<1>3. CASE handle_set_pin
  BY <1>3, Zenon DEF handle_set_pin, set_pin_with_key, puat_reset, Fault, chipVars
<1>4. CASE handle_change_pin
  BY <1>4, Zenon DEF handle_change_pin, puat_reset, pin_mismatch_status, VerifyError, Fault
<1>5. ASSUME NEW ps, NEW r, handle_get_pin_token(ps, r) PROVE PinFlags'
  BY <1>5, Zenon DEF handle_get_pin_token, issue_token, puat_begin, puat_reset,
                     pin_mismatch_status, VerifyError, Fault
<1>6. CASE FactoryReset
  BY <1>6, Zenon DEF FactoryReset, puat_reset
<1>7. CASE PowerCycle
  BY <1>7, Zenon DEF PowerCycle, puat_reset
<1>8. CASE UNCHANGED pinVars
  BY <1>8, Zenon DEF pinVars
<1> QED
  BY <1>1, <1>2, <1>3, <1>4, <1>5, <1>6, <1>7, <1>8 DEF PinNext, PinRequest, GetToken

-----------------------------------------------------------------------------
(* The token and its grant. *)

LEMMA CheckStep ==
    ASSUME PinInv, NEW perm \in Legacy, NEW r \in RPs, NEW param \in Params, check_token(perm, r, param)
    PROVE  PinRecords' /\ Holds(tok, grant)'
<1> DEFINE t == puat_verify(param)
<1>1. Verifies(param) /\ perm \in t.perms /\ t.rp \in {None, r}
  BY DEF check_token, CheckPasses, puat_rp_matches
<1>2. /\ tok.inUse /\ t \in Token /\ t.inUse /\ t.perms = tok.perms /\ t.rp = tok.rp
  BY <1>1, VerifyPasses DEF PinInv, PinRecords
<1>3. tok' = [t EXCEPT !.rp = r]
  BY DEF check_token
<1> HIDE DEF t
<1>4. tok' \in Token /\ tok'.inUse /\ tok'.perms = t.perms /\ tok'.rp = r
  BY <1>2, <1>3 DEF Token
<1>5. /\ grant' \in Grant /\ grant'.rps = grant.rps \cup {r} /\ grant'.perms = grant.perms
      /\ grant'.rp = grant.rp /\ grant'.pin = grant.pin /\ grant'.touched = grant.touched
  BY DEF check_token, PinInv, PinRecords, Grant
<1>6. auth' = [perm |-> perm, rp |-> r, first |-> ~tok.used]
  BY DEF check_token
<1>7. auth' \in Auth
  BY <1>6 DEF Auth, Legacy, Perms
<1>8. Holds(tok, grant)'
  BY <1>1, <1>2, <1>4, <1>5, NoneAssumption DEF PinInv, Holds, check_token, chipVars
<1> QED
  BY <1>4, <1>5, <1>7, <1>8 DEF PinRecords

LEMMA CheckCmStep ==
    ASSUME PinInv, NEW r \in RPs \cup {None}, NEW param \in Params, check_cm_token(r, param)
    PROVE  PinRecords' /\ Holds(tok, grant)'
<1> DEFINE t == puat_verify(param)
<1>1. tok.inUse /\ t \in Token /\ t.inUse /\ t.perms = tok.perms /\ t.rp = tok.rp
  BY VerifyPasses DEF check_cm_token, PermPasses, PinInv, PinRecords
<1>2. tok' = t /\ UNCHANGED <<grant, pin>>
  BY DEF check_cm_token, chipVars
<1> HIDE DEF t
<1>3. [perm |-> "cm", rp |-> r, first |-> ~tok.used] \in Auth
  BY DEF Auth, Perms
<1>4. auth' \in Auth \cup {None}
  BY <1>3 DEF check_cm_token
<1>5. Holds(tok, grant)'
  BY <1>1, <1>2 DEF PinInv, Holds
<1> QED
  BY <1>1, <1>2, <1>4, <1>5 DEF PinInv, PinRecords

LEMMA CheckFailsStep ==
    ASSUME PinInv, NEW param \in Params, CheckFails(param)
    PROVE  PinRecords' /\ Holds(tok, grant)'
<1>1. CASE Expired(tok)
  BY <1>1, VerifyAny, NoTokenFacts DEF CheckFails, Lapse, PinInv, PinRecords, Holds
<1>2. CASE ~Expired(tok)
  BY <1>2, VerifyAny, Kept DEF CheckFails, Lapse, chipVars, PinInv, PinRecords
<1> QED
  BY <1>1, <1>2

LEMMA ContinueStep ==
    ASSUME PinInv, ContinueCm \/ StopCm
    PROVE  PinRecords' /\ Holds(tok, grant)'
<1>1. CASE ContinueCm
  <2>1. [perm |-> "cm", rp |-> tok.rp, first |-> FALSE] \in Auth
    BY DEF PinInv, PinRecords, Token, Auth, Perms
  <2> QED
    BY <1>1, <2>1, Kept DEF ContinueCm, chipVars, PinInv, PinRecords
<1>2. CASE StopCm /\ Expired(tok)
  BY <1>2, NoTokenFacts DEF StopCm, expire, Lapse, PinInv, PinRecords, Holds
<1>3. CASE StopCm /\ ~Expired(tok)
  BY <1>3, Kept DEF StopCm, expire, Lapse, chipVars, PinInv, PinRecords
<1> QED
  BY <1>1, <1>2, <1>3

LEMMA TouchedStep ==
    ASSUME PinInv, Touched
    PROVE  PinRecords' /\ Holds(tok, grant)'
<1>1. tok \in Token /\ grant \in Grant
  BY DEF PinInv, PinRecords
<1>2. /\ grant' \in Grant /\ grant'.touched = tok.inUse /\ grant'.rps = grant.rps
      /\ grant'.perms = grant.perms /\ grant'.rp = grant.rp /\ grant'.pin = grant.pin
  BY <1>1 DEF Touched, Grant, Token
<1>3. CASE tok.inUse
  <2>1. tok' = [tok EXCEPT !.uv = FALSE, !.perms = {}]
    BY <1>3 DEF Touched, puat_consume
  <2>2. tok' \in Token /\ tok'.perms = {} /\ tok'.rp = tok.rp
    BY <1>1, <2>1 DEF Token
  <2> QED
    BY <1>2, <1>3, <2>2 DEF Touched, chipVars, PinInv, PinRecords, Holds
<1>4. CASE ~tok.inUse
  BY <1>1, <1>2, <1>4 DEF Touched, puat_consume, PinRecords, Holds
<1> QED
  BY <1>3, <1>4

LEMMA ToggleStep ==
    ASSUME PinInv, ToggleAlwaysUv
    PROVE  PinRecords' /\ Holds(tok, grant)'
<1>1. CASE auth' = None /\ UNCHANGED tok
  BY <1>1, Kept DEF ToggleAlwaysUv, PinInv, PinRecords
<1>2. ASSUME NEW param \in Params, PermPasses("acfg", param), tok' = puat_verify(param),
             auth' = [perm |-> "acfg", rp |-> None, first |-> ~tok.used]
      PROVE  PinRecords' /\ Holds(tok, grant)'
  <2>1. /\ tok' \in Token /\ tok.inUse /\ tok'.inUse /\ tok'.perms = tok.perms /\ tok'.rp = tok.rp
    BY <1>2, VerifyPasses DEF PermPasses, PinInv, PinRecords
  <2>2. auth' \in Auth
    BY <1>2 DEF Auth, Perms
  <2>3. UNCHANGED <<grant, pin>>
    BY DEF ToggleAlwaysUv
  <2>4. Holds(tok, grant)'
    BY <2>1, <2>3 DEF PinInv, Holds
  <2> QED
    BY <2>1, <2>2, <2>3, <2>4 DEF PinInv, PinRecords
<1> QED
  BY <1>1, <1>2 DEF ToggleAlwaysUv

(* A token of the PIN that was just verified, with a grant of its own. *)
LEMMA BeginStep ==
    ASSUME PinInv, pin # None, UNCHANGED pin, NEW ps \in SUBSET Perms, NEW r \in RPs \cup {None},
           puat_begin(ps, r)
    PROVE  tok' \in Token /\ grant' \in Grant /\ Holds(tok, grant)'
<1>1. Tick32(now) \in 0 .. TickRange - 1
  BY TimeAssumption DEF Tick32, PinInv, PinNumbers
<1>2. tok' \in Token
  BY <1>1 DEF puat_begin, Token
<1>3. grant' \in Grant
  BY TimeAssumption DEF puat_begin, Grant, PinInv, PinNumbers
<1>4. Holds(tok, grant)'
  BY DEF puat_begin, Holds
<1> QED
  BY <1>2, <1>3, <1>4

LEMMA GetTokenStep ==
    ASSUME PinInv, NEW ps \in SUBSET Perms, NEW r \in RPs \cup {None}, handle_get_pin_token(ps, r)
    PROVE  PinRecords' /\ Holds(tok, grant)'
<1>1. pin # None /\ UNCHANGED pin /\ auth' = None
  BY Trying DEF handle_get_pin_token, pin_mismatch_status
<1>2. CASE puat_begin(ps, r)
  BY <1>1, <1>2, BeginStep DEF PinRecords
<1>3. CASE puat_reset
  BY <1>1, <1>3, NoTokenFacts DEF puat_reset, PinRecords, Holds
<1>4. CASE UNCHANGED <<tok, grant>>
  BY <1>1, <1>4, Kept DEF PinInv, PinRecords
<1> QED
  BY <1>2, <1>3, <1>4 DEF handle_get_pin_token, issue_token

LEMMA RecordsStep ==
    ASSUME PinInv, [PinNext]_pinVars
    PROVE  PinRecords' /\ Holds(tok, grant)'
<1>1. CASE TokenUse
  BY <1>1, CheckStep, CheckCmStep, CheckFailsStep, ContinueStep, TouchedStep DEF TokenUse
<1>2. CASE puat_reset /\ auth' = None
  BY <1>2, NoTokenFacts DEF puat_reset, PinRecords, Holds
<1>3. CASE handle_set_pin \/ handle_change_pin \/ FactoryReset \/ PowerCycle
  BY <1>2, <1>3 DEF handle_set_pin, handle_change_pin, FactoryReset, PowerCycle
<1>4. CASE GetToken
  <2>1. Legacy \in SUBSET Perms /\ PermSets \ {{}} \subseteq SUBSET Perms
    BY PermSetsAssumption DEF Legacy, Perms
  <2> QED
    BY <1>4, <2>1, GetTokenStep DEF GetToken
<1>5. CASE ReadError \/ Tick
  BY <1>5, Kept DEF ReadError, Tick, chipVars, PinInv, PinRecords
<1>6. CASE UNCHANGED pinVars
  BY <1>6, Kept DEF pinVars, PinInv, PinRecords
<1> QED
  BY <1>1, <1>3, <1>4, <1>5, <1>6, ToggleStep DEF PinNext, PinRequest

LEMMA PinInvInit == PinInit => PinInv /\ PinFlags
<1> SUFFICES ASSUME PinInit PROVE PinInv /\ PinFlags
  OBVIOUS
<1>1. PinNumbers /\ Locked
  BY PinBoundsAssumption, TimeAssumption DEF PinInit, PinNumbers, Locked
<1>2. PinRecords /\ Holds(tok, grant)
  BY NoTokenFacts DEF PinInit, PinRecords, Holds
<1>3. PinFlags
  BY DEF PinInit, PinFlags
<1> QED
  BY <1>1, <1>2, <1>3 DEF PinInv

LEMMA PinInvNext == PinInv /\ [PinNext]_pinVars => PinInv'
  BY NumbersStep, RecordsStep DEF PinInv

-----------------------------------------------------------------------------
(* Time.  Ages are 32-bit differences: they are true as long as the tick   *)
(* has not wrapped.                                                        *)

(* A token that is not expired is as young as its next use asks. *)
LEMMA Young ==
    ASSUME MaxUptime < TickRange, PinInv, Dated(tok, grant), tok.inUse, ~Expired(tok)
    PROVE  now - grant.at <= (IF ~tok.used THEN InitialUse ELSE MaxLife)
<1>1. now \in 0 .. MaxUptime /\ tok.issued = grant.at /\ tok.issued \in 0 .. now
  BY DEF PinInv, PinNumbers, Dated
<1>2. Age(tok.issued) = now - tok.issued
  BY <1>1, AgeNow
<1>3. now - grant.at <= MaxLife /\ (~tok.used => now - grant.at <= InitialUse)
  BY <1>1, <1>2, TimeAssumption DEF Expired
<1> QED
  BY <1>3

LEMMA DatedStep ==
    ASSUME MaxUptime < TickRange, PinInv, Dated(tok, grant), [PinNext]_pinVars
    PROVE  Dated(tok, grant)'
<1> USE DEF Dated
<1>1. tok \in Token /\ grant \in Grant /\ now \in 0 .. MaxUptime
  BY DEF PinInv, PinRecords, PinNumbers
<1>2. CASE tok' = NoToken
  BY <1>2, NoTokenFacts
<1>3. CASE tok'.inUse = tok.inUse /\ tok'.issued = tok.issued /\ grant'.at = grant.at /\ UNCHANGED now
  BY <1>3
<1>4. ASSUME NEW perm \in Legacy, NEW r \in RPs, NEW param \in Params, check_token(perm, r, param)
      PROVE  Dated(tok, grant)'
  <2> DEFINE t == puat_verify(param)
  <2>1. tok.inUse /\ t \in Token /\ t.inUse /\ t.issued = tok.issued
    BY <1>1, <1>4, VerifyPasses DEF check_token, CheckPasses
  <2>2. tok' = [t EXCEPT !.rp = r] /\ UNCHANGED now
    BY <1>4 DEF check_token
  <2> HIDE DEF t
  <2>3. tok'.inUse /\ tok'.issued = t.issued
    BY <2>1, <2>2 DEF Token
  <2>4. grant'.at = grant.at
    BY <1>1, <1>4 DEF check_token, Grant
  <2> QED
    BY <2>1, <2>2, <2>3, <2>4
<1>5. ASSUME NEW r \in RPs \cup {None}, NEW param \in Params, check_cm_token(r, param)
      PROVE  Dated(tok, grant)'
  BY <1>1, <1>5, VerifyPasses DEF check_cm_token, PermPasses
<1>6. ASSUME NEW param \in Params, CheckFails(param) PROVE Dated(tok, grant)'
  BY <1>1, <1>2, <1>6, VerifyAny DEF CheckFails, Lapse
<1>7. CASE ContinueCm \/ StopCm
  BY <1>2, <1>7 DEF ContinueCm, StopCm, expire, Lapse
<1>8. CASE Touched
  <2>1. grant'.at = grant.at /\ UNCHANGED now
    BY <1>1, <1>8 DEF Touched, Grant
  <2>2. tok'.inUse = tok.inUse /\ tok'.issued = tok.issued
    BY <1>1, <1>8 DEF Touched, puat_consume, Token
  <2> QED
    BY <2>1, <2>2
<1>9. CASE ToggleAlwaysUv
  BY <1>1, <1>3, <1>9, VerifyPasses DEF ToggleAlwaysUv, PermPasses
<1>10. CASE puat_reset
  BY <1>2, <1>10 DEF puat_reset
<1>11. ASSUME NEW ps, NEW r, puat_begin(ps, r), UNCHANGED now PROVE Dated(tok, grant)'
  <2>1. Tick32(now) = now
    BY <1>1, AgeNow
  <2> QED
    BY <1>1, <1>11, <2>1 DEF puat_begin
<1>12. CASE handle_set_pin \/ handle_change_pin \/ FactoryReset \/ PowerCycle
  BY <1>10, <1>12 DEF handle_set_pin, handle_change_pin, FactoryReset, PowerCycle
<1>13. ASSUME NEW ps, NEW r, handle_get_pin_token(ps, r) PROVE Dated(tok, grant)'
  BY <1>3, <1>10, <1>11, <1>13 DEF handle_get_pin_token, issue_token
<1>14. CASE ReadError \/ Tick
  BY <1>1, <1>14, TimeAssumption DEF ReadError, Tick
<1>15. CASE UNCHANGED pinVars
  BY <1>3, <1>15 DEF pinVars
<1> QED
  BY <1>4, <1>5, <1>6, <1>7, <1>8, <1>9, <1>12, <1>13, <1>14, <1>15
     DEF PinNext, TokenUse, PinRequest, GetToken

LEMMA GrantedStep ==
    ASSUME MaxUptime < TickRange, PinInv, Dated(tok, grant), GrantedUse, [PinNext]_pinVars
    PROVE  GrantedUse'
<1>1. tok \in Token /\ grant \in Grant /\ Holds(tok, grant)
  BY DEF PinInv, PinRecords
<1>2. CASE auth' = None
  BY <1>2 DEF GrantedUse
<1>3. ASSUME NEW perm \in Legacy, NEW r \in RPs, NEW param \in Params, check_token(perm, r, param)
      PROVE  GrantedUse'
  <2> DEFINE t == puat_verify(param)
  <2>1. /\ tok.inUse /\ ~Expired(tok) /\ t.perms = tok.perms /\ t.rp = tok.rp
        /\ perm \in t.perms /\ t.rp \in {None, r}
    BY <1>1, <1>3, VerifyPasses DEF check_token, CheckPasses, puat_rp_matches
  <2>2. /\ auth' = [perm |-> perm, rp |-> r, first |-> ~tok.used]
        /\ UNCHANGED <<now, pin>>
    BY <1>3 DEF check_token, chipVars
  <2> HIDE DEF t
  <2>3. /\ grant'.rps = grant.rps \cup {r} /\ grant'.perms = grant.perms /\ grant'.at = grant.at
        /\ grant'.rp = grant.rp /\ grant'.pin = grant.pin /\ grant'.touched = grant.touched
    BY <1>1, <1>3 DEF check_token, Grant
  <2>4. now - grant.at <= (IF ~tok.used THEN InitialUse ELSE MaxLife)
    BY <2>1, Young
  <2> QED
    BY <1>1, <2>1, <2>2, <2>3, <2>4 DEF Holds, GrantedUse
<1>4. ASSUME NEW r \in RPs \cup {None}, NEW param \in Params, check_cm_token(r, param)
      PROVE  GrantedUse'
  <2>1. tok.inUse /\ ~Expired(tok) /\ "cm" \in tok.perms
    BY <1>1, <1>4, VerifyPasses DEF check_cm_token, PermPasses
  <2>2. now - grant.at <= (IF ~tok.used THEN InitialUse ELSE MaxLife)
    BY <2>1, Young
  <2>3. UNCHANGED <<now, pin, grant>>
    BY <1>4 DEF check_cm_token, chipVars
  <2>4. CASE auth' = [perm |-> "cm", rp |-> r, first |-> ~tok.used] /\ tok.rp \in {None, r}
    BY <1>1, <2>1, <2>2, <2>3, <2>4 DEF Holds, GrantedUse
  <2> QED
    BY <1>2, <1>4, <2>4 DEF check_cm_token, puat_rp_matches
<1>5. CASE ContinueCm
  <2>1. tok.inUse /\ ~Expired(tok) /\ "cm" \in tok.perms
    BY <1>5 DEF ContinueCm, MayContinue
  <2>2. now - grant.at <= (IF ~tok.used THEN InitialUse ELSE MaxLife)
    BY <2>1, Young
  <2>3. now - grant.at <= MaxLife
    BY <2>2, <2>1, TimeAssumption DEF Dated, PinInv, PinNumbers
  <2> QED
    BY <1>1, <1>5, <2>1, <2>3 DEF ContinueCm, chipVars, Holds, GrantedUse
<1>6. CASE ToggleAlwaysUv
  <2>1. ASSUME NEW param \in Params, PermPasses("acfg", param),
               auth' = [perm |-> "acfg", rp |-> None, first |-> ~tok.used]
        PROVE  GrantedUse'
    <3>1. tok.inUse /\ ~Expired(tok) /\ "acfg" \in tok.perms
      BY <1>1, <2>1, VerifyPasses DEF PermPasses
    <3>2. now - grant.at <= (IF ~tok.used THEN InitialUse ELSE MaxLife)
      BY <3>1, Young
    <3>3. UNCHANGED <<now, pin, grant>>
      BY <1>6 DEF ToggleAlwaysUv
    <3> QED
      BY <1>1, <2>1, <3>1, <3>2, <3>3 DEF Holds, GrantedUse
  <2> QED
    BY <1>2, <1>6, <2>1 DEF ToggleAlwaysUv
<1>7. ASSUME NEW param \in Params, CheckFails(param) PROVE GrantedUse'
  BY <1>2, <1>7 DEF CheckFails
<1>8. CASE StopCm \/ Touched \/ PinRequest \/ ReadError \/ FactoryReset \/ PowerCycle \/ Tick
  BY <1>2, <1>8 DEF StopCm, Touched, PinRequest, handle_set_pin, handle_change_pin, GetToken,
     handle_get_pin_token, ReadError, FactoryReset, PowerCycle, Tick
<1>9. CASE UNCHANGED pinVars
  BY <1>9 DEF pinVars, GrantedUse
<1> QED
  BY <1>3, <1>4, <1>5, <1>6, <1>7, <1>8, <1>9 DEF PinNext, TokenUse

-----------------------------------------------------------------------------
(* The state of pin.c and pin_token.c keeps its types, s_consec_fails its  *)
(* limit, and no attempt is spent below zero.                              *)
THEOREM PinTypeCorrect == PinSpec => []PinTypeOK
<1>1. PinInv /\ PinFlags => PinTypeOK
  BY DEF PinInv, PinFlags, PinNumbers, PinRecords, PinTypeOK
<1> QED
  BY PinInvInit, PinInvNext, PinFlagsStep, <1>1, PTL DEF PinSpec

(* A token in use was issued for the PIN of today: handle_set_pin and      *)
(* handle_change_pin reset it before anything can fail.                    *)
THEOREM TokensFollowThePin == PinSpec => []TokenOfThisPin
<1>1. PinInv => TokenOfThisPin
  BY DEF PinInv, Holds, TokenOfThisPin
<1> QED
  BY PinInvInit, PinInvNext, <1>1, PTL DEF PinSpec

(* Every authorised request was granted, in time, for its RP, before the   *)
(* touch: as long as the 32-bit tick has not wrapped since power-up.       *)
THEOREM UseIsGranted == ASSUME MaxUptime < TickRange PROVE PinSpec => []GrantedUse
<1>1. PinInit => Timed
  BY NoTokenFacts DEF PinInit, Timed, Dated, GrantedUse
<1>2. PinInv /\ Timed /\ [PinNext]_pinVars => Timed'
  BY DatedStep, GrantedStep DEF Timed
<1>3. Timed => GrantedUse
  BY DEF Timed
<1> QED
  BY PinInvInit, PinInvNext, <1>1, <1>2, <1>3, PTL DEF PinSpec

(* The wrong PINs that a power-up allows block it, and only a power cycle  *)
(* or a reset lifts the block or spends an attempt then.                   *)
THEOREM LockoutIsFinal == PinSpec => LockoutHolds
<1>1. PinInv /\ [PinNext]_pinVars =>
        [/\ consec >= MaxConsec => blocked
         /\ blocked /\ ~PowerCycle /\ ~FactoryReset => blocked' /\ left' = left /\ pin' = pin]_pinVars
  BY LockoutStep DEF PinInv, Locked
<1> QED
  BY PinInvInit, PinInvNext, <1>1, PTL DEF PinSpec, LockoutHolds

-----------------------------------------------------------------------------
(* The commands: the inductive invariant. *)

(* The store, and what is kept between two commands. *)
Creds == cred \in [SlotIds -> Credential \cup {None}]

GaState == [active : BOOLEAN, list : SlotLists, pos : Nat, rp : RPs \cup {None},
            up : BOOLEAN, uv : BOOLEAN, last : 0 .. TickRange - 1, pin : Pins \cup {None}]
IterState == [kind : {"none", "rps", "creds"}, list : SlotLists, pos : Nat, rp : RPs \cup {None}]

KeptTypes ==
    /\ ga \in GaState /\ ga.pos <= Len(ga.list)
    /\ iter \in IterState /\ iter.pos <= Len(iter.list)

(* The request that waits. *)
McReq == [cmd : {"mc", "make"}, since : Nat, uv : BOOLEAN, repl : SUBSET SlotIds, new : Credential]
GaReq == [cmd : {"ga", "sign"}, since : Nat, rp : RPs, up : BOOLEAN, uv : BOOLEAN, list : SlotLists]
TouchReq == [cmd : {"ask", "reset"}, since : Nat]
EraseReq == [cmd : {"erase"}, slot : SlotIds]

ReqType == req = NoReq \/ req \in McReq \/ req \in GaReq \/ req \in TouchReq \/ req \in EraseReq

(* While one waits, nothing else is kept and nothing is answered, ... *)
Alone == ~Idle => ga = NoGa /\ iter = NoIter /\ ~ret.ok

(* ... and what it found is still so: a new credential is newer than all,  *)
(* and replaces all of its account; ...                                    *)
NewStands(q) ==
    /\ always => q.uv
    /\ \A k \in Used :
         /\ cred[k].seq < q.new.seq
         /\ q.new.rk /\ cred[k].rk /\ cred[k].rp = q.new.rp /\ cred[k].user = q.new.user =>
                k \in q.repl

(* ... and a list is one of credentials of its RP.                         *)
ListStands(q) ==
    /\ always /\ q.up => q.uv
    /\ \A i \in 1 .. Len(q.list) : cred[q.list[i]] # None /\ cred[q.list[i]].rp = q.rp

Stands ==
    /\ req.cmd \in {"mc", "make"} => NewStands(req)
    /\ req.cmd \in {"ga", "sign"} => ListStands(req)

(* The next assertions and the next entries stay within what was allowed.  *)
GaScope == ga.active /\ always /\ ga.up => ga.uv
IterScope == iter.kind # "none" /\ same /\ tok.inUse => puat_rp_matches(tok, iter.rp)

CmdInv ==
    /\ Creds /\ KeptTypes /\ ReqType /\ Alone /\ Stands /\ GaScope /\ IterScope
    /\ OneAccount /\ NoStaleLists /\ AlwaysUvHolds /\ EnumerationScope

-----------------------------------------------------------------------------
(* Slots, lists and sequence numbers. *)
LEMMA Slots == SlotIds \subseteq Nat /\ Used \subseteq SlotIds /\ FreeSlots \subseteq SlotIds
  BY NSlotsAssumption DEF SlotIds, Used, FreeSlots

LEMMA MinExists ==
    ASSUME NEW S \in SUBSET Nat, S # {}
    PROVE  \E x \in S : \A y \in S : x <= y
<1> DEFINE R == OpToRel(<, Nat)
<1>1. IsWellFoundedOn(R, Nat)
  BY NatLessThanWellFounded
<1>2. \A a, b \in Nat : a < b => <<a, b>> \in R
  BY Zenon DEF OpToRel
<1> HIDE DEF R
<1>3. PICK x \in S : \A y \in S : ~(<<y, x>> \in R)
  BY <1>1, WFMin
<1>4. ASSUME NEW y \in S PROVE x <= y
  <2>1. x \in Nat /\ y \in Nat /\ ~(<<y, x>> \in R)
    BY <1>3
  <2>2. ~(y < x)
    BY <1>2, <2>1
  <2> QED
    BY <2>1, <2>2
<1> QED
  BY <1>4

LEMMA LeastFree == ASSUME FreeSlots # {} PROVE Least(FreeSlots) \in FreeSlots
<1>1. \E x \in FreeSlots : \A y \in FreeSlots : x <= y
  BY Slots, MinExists
<1> QED
  BY <1>1 DEF Least

(* mc_scan yields a sequence number above every one in use. *)
LEMMA NextSeqFacts ==
    ASSUME Creds
    PROVE  NextSeq \in Nat \ {0} /\ \A k \in Used : cred[k].seq < NextSeq
<1>1. ASSUME NEW k \in Used PROVE cred[k] \in Credential /\ cred[k].seq \in 1 .. MaxSeq
  BY Slots DEF Creds, Used, Credential
<1>2. CASE Used = {}
  BY <1>2 DEF NextSeq
<1>3. CASE Used # {}
  <2> DEFINE T == {cred[k].seq : k \in Used}
             D == {MaxSeq - n : n \in T}
  <2>1. T \subseteq 1 .. MaxSeq /\ T # {}
    BY <1>1, <1>3
  <2>2. D \subseteq Nat /\ D # {}
    BY <2>1, MaxSeqAssumption
  <2>3. PICK d \in D : \A e \in D : d <= e
    BY <2>2, MinExists
  <2>4. PICK n \in T : d = MaxSeq - n
    BY <2>3
  <2>5. ASSUME NEW k \in Used PROVE cred[k].seq <= n
    <3>1. cred[k].seq \in T /\ MaxSeq - cred[k].seq \in D
      OBVIOUS
    <3>2. d <= MaxSeq - cred[k].seq
      BY <2>3, <3>1
    <3>3. n \in Nat /\ cred[k].seq \in Nat /\ MaxSeq \in Nat
      BY <1>1, <2>1, <2>4, MaxSeqAssumption
    <3> QED
      BY <2>4, <3>2, <3>3
  <2> DEFINE m == CHOOSE x \in T : \A k \in Used : cred[k].seq <= x
  <2>6. m \in T /\ \A k \in Used : cred[k].seq <= m
    BY <2>5
  <2>7. NextSeq = 1 + m
    BY <1>3 DEF NextSeq
  <2> HIDE DEF m, T
  <2> QED
    BY <1>1, <2>1, <2>6, <2>7, MaxSeqAssumption
<1> QED
  BY <1>2, <1>3

LEMMA ListFacts ==
    ASSUME NEW S \in SUBSET SlotIds, NEW l \in Lists(S)
    PROVE  /\ l \in SlotLists /\ Len(l) \in 0 .. NSlots
           /\ \A i \in 1 .. Len(l) : l[i] \in S
<1>1. PICK n \in 0 .. NSlots : l \in [1 .. n -> S]
  BY DEF Lists
<1>2. n \in Nat /\ l \in Seq(S)
  BY <1>1, NSlotsAssumption
<1>3. Len(l) = n
  BY <1>1, <1>2
<1>4. l \in [1 .. n -> SlotIds]
  BY <1>1
<1> QED
  BY <1>1, <1>3, <1>4 DEF SlotLists, Lists

LEMMA EmptyList == <<>> \in SlotLists /\ Len(<<>>) = 0
<1>1. <<>> \in [1 .. 0 -> SlotIds]
  OBVIOUS
<1>2. 0 \in 0 .. NSlots
  BY NSlotsAssumption
<1> QED
  BY <1>1, <1>2 DEF SlotLists, Lists

LEMMA OneList == ASSUME NEW k \in SlotIds PROVE <<k>> \in SlotLists
<1>1. <<k>> \in [1 .. 1 -> SlotIds]
  OBVIOUS
<1>2. 1 \in 0 .. NSlots
  BY NSlotsAssumption
<1> QED
  BY <1>1, <1>2 DEF SlotLists, Lists

LEMMA NothingKept ==
    /\ NoGa \in GaState /\ NoGa.list = <<>> /\ NoGa.pos = 0 /\ ~NoGa.active
    /\ NoIter \in IterState /\ NoIter.list = <<>> /\ NoIter.pos = 0 /\ NoIter.kind = "none"
    /\ NoReq.cmd = "none"
  BY EmptyList, TimeAssumption DEF NoGa, GaState, NoIter, IterState, NoReq

LEMMA TickType == ASSUME now \in Nat PROVE Tick32(now) \in 0 .. TickRange - 1
  BY TimeAssumption DEF Tick32

(* The command tells the kind of request. *)
LEMMA ReqKinds ==
    ASSUME ReqType
    PROVE  /\ req.cmd \in {"mc", "make"} => req \in McReq
           /\ req.cmd \in {"ga", "sign"} => req \in GaReq
           /\ req.cmd = "erase" => req \in EraseReq
           /\ req.cmd \in {"none", "ask", "mc", "make", "ga", "sign", "erase", "reset"}
           /\ req.cmd # "none" <=> ~Idle
  BY NothingKept DEF ReqType, McReq, GaReq, TouchReq, EraseReq, Idle

-----------------------------------------------------------------------------
(* How a request is answered. *)

(* The token goes on for the iterator only as it was. *)
TokenStays == same' /\ tok'.inUse => same /\ tok.inUse /\ tok'.rp = tok.rp

LEMMA SameStore ==
    ASSUME CmdInv, UNCHANGED cred
    PROVE  Creds' /\ OneAccount' /\ Used' = Used
<1>1. Used' = Used
  BY DEF Used
<1>2. Creds'
  BY DEF CmdInv, Creds
<1>3. OneAccount'
  BY <1>1 DEF CmdInv, OneAccount
<1> QED
  BY <1>1, <1>2, <1>3

(* What is kept between commands stays, or goes. *)
LEMMA KeptStep ==
    ASSUME CmdInv, UNCHANGED cred,
           ga' = NoGa \/ UNCHANGED <<ga, pin, always>>,
           iter' = NoIter \/ (UNCHANGED iter /\ TokenStays)
    PROVE  KeptTypes' /\ NoStaleLists' /\ GaScope' /\ IterScope'
<1>1. ga' \in GaState /\ ga'.pos <= Len(ga'.list) /\ iter' \in IterState /\ iter'.pos <= Len(iter'.list)
  BY NothingKept, EmptyList DEF CmdInv, KeptTypes
<1>2. \A i \in ga'.pos + 1 .. Len(ga'.list) :
        cred[ga'.list[i]] # None /\ cred[ga'.list[i]].rp = ga'.rp
  BY NothingKept, EmptyList DEF CmdInv, NoStaleLists
<1>3. \A i \in iter'.pos + 1 .. Len(iter'.list) :
        cred[iter'.list[i]] # None /\ iter'.rp \in {None, cred[iter'.list[i]].rp}
  BY NothingKept, EmptyList DEF CmdInv, NoStaleLists
<1>4. ga'.active => ga'.pin = pin'
  BY NothingKept DEF CmdInv, NoStaleLists
<1>5. GaScope'
  BY NothingKept DEF CmdInv, GaScope
<1>6. IterScope'
  BY NothingKept DEF CmdInv, IterScope, TokenStays, puat_rp_matches
<1> QED
  BY <1>1, <1>2, <1>3, <1>4, <1>5, <1>6 DEF KeptTypes, NoStaleLists

(* Refused: the request is over, and nothing was given out. *)
LEMMA RefusedStep ==
    ASSUME CmdInv, Refuse \/ RefuseCm, UNCHANGED cred,
           ga' = NoGa \/ UNCHANGED <<ga, pin, always>>,
           iter' = NoIter \/ (UNCHANGED iter /\ TokenStays)
    PROVE  CmdInv'
<1>1. req' = NoReq /\ ret'.ok = FALSE
  BY DEF Refuse, RefuseCm, Answer
<1>2. ReqType' /\ Alone' /\ Stands'
  BY <1>1, NothingKept DEF ReqType, Alone, Stands, Idle
<1>3. AlwaysUvHolds' /\ EnumerationScope'
  BY <1>1 DEF AlwaysUvHolds, EnumerationScope
<1> QED
  BY <1>2, <1>3, SameStore, KeptStep DEF CmdInv

(* Started: the request goes on, with what it found. *)
LEMMA StartStep ==
    ASSUME CmdInv, NEW q, Start(q), UNCHANGED cred, ga' = NoGa, iter' = NoIter,
           q \in McReq \/ q \in GaReq \/ q \in TouchReq \/ q \in EraseReq,
           q.cmd \in {"mc", "make"} => NewStands(q),
           q.cmd \in {"ga", "sign"} => ListStands(q),
           UNCHANGED always
    PROVE  CmdInv'
<1>1. req' = q /\ ret'.ok = FALSE
  BY DEF Start, Answer
<1>2. ReqType' /\ Alone'
  BY <1>1 DEF ReqType, Alone
<1>3. Stands'
  <2>1. Used' = Used
    BY DEF Used
  <2> QED
    BY <1>1, <2>1 DEF Stands, NewStands, ListStands
<1>4. AlwaysUvHolds' /\ EnumerationScope'
  BY <1>1 DEF AlwaysUvHolds, EnumerationScope
<1> QED
  BY <1>2, <1>3, <1>4, SameStore, KeptStep DEF CmdInv

(* What the token keeps through a check that fails or a request that uses  *)
(* another part of it.                                                     *)
LEMMA TokenFacts ==
    /\ UNCHANGED pinVars => TokenStays /\ UNCHANGED <<pin, always>>
    /\ ReadError => TokenStays /\ UNCHANGED <<pin, always>>
    /\ Tick => TokenStays /\ UNCHANGED <<pin, always>>
    /\ \A param : CheckFails(param) => UNCHANGED <<pin, always>>
    /\ StopCm => UNCHANGED <<pin, always>>
    /\ ContinueCm => UNCHANGED <<pin, always, tok, same>>
    /\ \A p, r, param : check_token(p, r, param) => UNCHANGED <<pin, always>>
    /\ \A r, param : check_cm_token(r, param) => UNCHANGED <<pin, always>>
  BY DEF pinVars, chipVars, TokenStays, ReadError, Tick, CheckFails, StopCm, ContinueCm,
         check_token, check_cm_token

LEMMA FailsKeepsToken ==
    ASSUME PinInv, NEW param \in Params, CheckFails(param)
    PROVE  TokenStays
<1>1. tok \in Token
  BY DEF PinInv, PinRecords
<1>2. CASE Expired(tok)
  BY <1>2 DEF CheckFails, Lapse, TokenStays
<1>3. CASE ~Expired(tok)
  <2>1. same' = same /\ tok' = puat_verify(param)
    BY <1>3 DEF CheckFails, Lapse
  <2>2. puat_verify(param).inUse = tok.inUse /\ puat_verify(param).rp = tok.rp
    BY <1>1, <1>3 DEF puat_verify, expire, Token
  <2> QED
    BY <2>1, <2>2 DEF TokenStays
<1> QED
  BY <1>2, <1>3

-----------------------------------------------------------------------------
(* The commands begin. *)

LEMMA NowNat == PinInv => now \in Nat
  BY TimeAssumption DEF PinInv, PinNumbers

LEMMA OtherStep ==
    ASSUME CmdInv, OtherCommand \/ ClientPinCommand \/ ctap2_config
    PROVE  CmdInv'
<1>1. CASE OtherCommand
  BY <1>1, RefusedStep, TokenFacts DEF OtherCommand, DispatchIter, DispatchGa
<1>2. CASE ClientPinCommand \/ ctap2_config
  BY <1>2, RefusedStep DEF ClientPinCommand, ctap2_config, DispatchIter, DispatchGa
<1> QED
  BY <1>1, <1>2

LEMMA AskStep ==
    ASSUME CmdInv, PinInv, Start(Ask), UNCHANGED <<cred, always>>, ga' = NoGa, iter' = NoIter
    PROVE  CmdInv'
<1>1. Ask \in TouchReq /\ Ask.cmd = "ask"
  BY NowNat DEF Ask, TouchReq
<1> QED
  BY <1>1, StartStep

LEMMA ProbeStep ==
    ASSUME CmdInv, PinInv, pin_probe
    PROVE  CmdInv'
  BY AskStep, TokenFacts DEF pin_probe, DispatchIter, DispatchGa

LEMMA McPrepareStep ==
    ASSUME CmdInv, PinInv, NEW r \in RPs, NEW u \in Users, NEW rk \in BOOLEAN, NEW uv \in BOOLEAN,
           mc_prepare(r, u, rk, uv), always => uv, UNCHANGED <<cred, pin, always>>,
           ga' = NoGa, iter' = NoIter
    PROVE  CmdInv'
<1>1. CASE Refuse
  BY <1>1, RefusedStep
<1>2. CASE Start(Ask)
  BY <1>2, AskStep
<1> DEFINE new == [rp |-> r, user |-> u, rk |-> rk, seq |-> NextSeq]
           q == [cmd |-> "mc", since |-> now, uv |-> uv, repl |-> Replaced(r, u, rk), new |-> new]
<1>3. CASE SeqLeft /\ Start(q)
  <2>1. NextSeq \in Nat \ {0} /\ \A k \in Used : cred[k].seq < NextSeq
    BY NextSeqFacts DEF CmdInv
  <2>2. NextSeq \in 1 .. MaxSeq
    BY <1>3, <2>1, MaxSeqAssumption DEF SeqLeft
  <2>3. new \in Credential /\ new.rp = r /\ new.user = u /\ new.rk = rk /\ new.seq = NextSeq
    BY <2>2 DEF Credential
  <2>4. Replaced(r, u, rk) \in SUBSET SlotIds
    BY Slots DEF Replaced
  <2> HIDE DEF new
  <2>5. q \in McReq /\ q.cmd = "mc" /\ q.uv = uv /\ q.new = new /\ q.repl = Replaced(r, u, rk)
    BY <2>3, <2>4, NowNat DEF McReq
  <2> HIDE DEF q
  <2>6. NewStands(q)
    BY <2>1, <2>3, <2>5 DEF NewStands, Replaced
  <2> QED
    BY <1>3, <2>5, <2>6, StartStep
<1> QED
  BY <1>1, <1>2, <1>3 DEF mc_prepare

LEMMA MakeCredentialStep ==
    ASSUME CmdInv, PinInv, ctap2_make_credential
    PROVE  CmdInv'
<1>1. ga' = NoGa /\ iter' = NoIter /\ UNCHANGED cred
  BY DEF ctap2_make_credential, DispatchIter, DispatchGa
<1>2. PICK r \in RPs, u \in Users, rk \in BOOLEAN, param \in Params, st \in PinReads :
        /\ mc_uv_policy(st, rk, param)
        /\ IF Checked(st, param)
             THEN \/ check_token("mc", r, param) /\ mc_prepare(r, u, rk, TRUE)
                  \/ ~CheckPasses("mc", r, param) /\ CheckFails(param) /\ Refuse
             ELSE UNCHANGED pinVars /\ mc_prepare(r, u, rk, FALSE)
  BY DEF ctap2_make_credential
<1>3. CASE check_token("mc", r, param) /\ mc_prepare(r, u, rk, TRUE)
  BY <1>1, <1>3, TokenFacts, McPrepareStep
<1>4. CASE Refuse
  BY <1>1, <1>4, RefusedStep
<1>5. CASE ~Checked(st, param) /\ UNCHANGED pinVars /\ mc_prepare(r, u, rk, FALSE)
  <2>1. ~always
    BY <1>2, <1>5 DEF mc_uv_policy, Checked
  <2> QED
    BY <1>1, <1>5, <2>1, TokenFacts, McPrepareStep
<1> QED
  BY <1>2, <1>3, <1>4, <1>5

(* The lists that GetAssertion and the enumerations build. *)
LEMMA BuiltLists ==
    ASSUME NEW r
    PROVE  /\ \A l \in ga_from_allow_list(r) \cup ga_discover(r) :
                l \in SlotLists /\ \A i \in 1 .. Len(l) : l[i] \in Used /\ cred[l[i]].rp = r
           /\ \A l \in build_rp_list : l \in SlotLists /\ \A i \in 1 .. Len(l) : l[i] \in Used
           /\ \A l \in build_cred_list_for_rp(r) :
                l \in SlotLists /\ \A i \in 1 .. Len(l) : l[i] \in Used /\ cred[l[i]].rp = r
<1>1. ASSUME NEW l \in ga_from_allow_list(r)
      PROVE  l \in SlotLists /\ \A i \in 1 .. Len(l) : l[i] \in Used /\ cred[l[i]].rp = r
  <2>1. PICK k \in Used : cred[k].rp = r /\ l = <<k>>
    BY DEF ga_from_allow_list
  <2>2. l \in SlotLists
    BY <2>1, Slots, OneList
  <2> QED
    BY <2>1, <2>2
<1>2. ASSUME NEW l \in ga_discover(r)
      PROVE  l \in SlotLists /\ \A i \in 1 .. Len(l) : l[i] \in Used /\ cred[l[i]].rp = r
  <2> DEFINE S == {k \in Used : cred[k].rk /\ cred[k].rp = r}
  <2>1. l \in Lists(S) /\ S \in SUBSET SlotIds
    BY Slots DEF ga_discover
  <2>2. l \in SlotLists /\ \A i \in 1 .. Len(l) : l[i] \in S
    <3> HIDE DEF S
    <3> QED
      BY <2>1, ListFacts
  <2> QED
    BY <2>2
<1>3. ASSUME NEW l \in build_rp_list
      PROVE  l \in SlotLists /\ \A i \in 1 .. Len(l) : l[i] \in Used
  BY Slots, ListFacts DEF build_rp_list
<1>4. ASSUME NEW l \in build_cred_list_for_rp(r)
      PROVE  l \in SlotLists /\ \A i \in 1 .. Len(l) : l[i] \in Used /\ cred[l[i]].rp = r
  <2> DEFINE S == {k \in Used : cred[k].rp = r}
  <2>1. l \in Lists(S) /\ S \in SUBSET SlotIds
    BY Slots DEF build_cred_list_for_rp
  <2>2. l \in SlotLists /\ \A i \in 1 .. Len(l) : l[i] \in S
    <3> HIDE DEF S
    <3> QED
      BY <2>1, ListFacts
  <2> QED
    BY <2>2
<1> QED
  BY <1>1, <1>2, <1>3, <1>4

LEMMA GaPrepareStep ==
    ASSUME CmdInv, PinInv, NEW r \in RPs, NEW up \in BOOLEAN, NEW uv \in BOOLEAN,
           ga_prepare(r, up, uv), always /\ up => uv, UNCHANGED <<cred, pin, always>>,
           ga' = NoGa, iter' = NoIter
    PROVE  CmdInv'
<1>1. CASE Refuse
  BY <1>1, RefusedStep
<1>2. ASSUME NEW l \in ga_from_allow_list(r) \cup ga_discover(r),
             Start([cmd |-> IF up THEN "ga" ELSE "sign", since |-> now, rp |-> r,
                    up |-> up, uv |-> uv, list |-> l])
      PROVE  CmdInv'
  <2>1. l \in SlotLists /\ \A i \in 1 .. Len(l) : l[i] \in Used /\ cred[l[i]].rp = r
    BY BuiltLists
  <2> DEFINE q == [cmd |-> IF up THEN "ga" ELSE "sign", since |-> now, rp |-> r,
                   up |-> up, uv |-> uv, list |-> l]
  <2>2. q \in GaReq /\ q.cmd \in {"ga", "sign"} /\ q.up = up /\ q.uv = uv /\ q.rp = r /\ q.list = l
    BY <2>1, NowNat DEF GaReq
  <2> HIDE DEF q
  <2>3. ListStands(q)
    BY <2>1, <2>2 DEF ListStands, Used
  <2> QED
    BY <1>2, <2>2, <2>3, StartStep DEF q
<1> QED
  BY <1>1, <1>2 DEF ga_prepare

LEMMA GetAssertionStep ==
    ASSUME CmdInv, PinInv, ctap2_get_assertion
    PROVE  CmdInv'
<1>1. ga' = NoGa /\ iter' = NoIter /\ UNCHANGED cred
  BY DEF ctap2_get_assertion, DispatchIter
<1>2. PICK r \in RPs, up \in BOOLEAN, param \in Params, st \in PinReads :
        /\ ga_uv_policy(st, up, param)
        /\ IF Checked(st, param)
             THEN \/ check_token("ga", r, param) /\ ga_prepare(r, up, TRUE)
                  \/ ~CheckPasses("ga", r, param) /\ CheckFails(param) /\ Refuse
             ELSE UNCHANGED pinVars /\ ga_prepare(r, up, FALSE)
  BY DEF ctap2_get_assertion
<1>3. CASE check_token("ga", r, param) /\ ga_prepare(r, up, TRUE)
  BY <1>1, <1>3, TokenFacts, GaPrepareStep
<1>4. CASE Refuse
  BY <1>1, <1>4, RefusedStep
<1>5. CASE ~Checked(st, param) /\ UNCHANGED pinVars /\ ga_prepare(r, up, FALSE)
  <2>1. ~(always /\ up)
    BY <1>2, <1>5 DEF ga_uv_policy, Checked
  <2> QED
    BY <1>1, <1>5, <2>1, TokenFacts, GaPrepareStep
<1> QED
  BY <1>2, <1>3, <1>4, <1>5

LEMMA NextAssertionStep ==
    ASSUME CmdInv, PinInv, ctap2_get_next_assertion
    PROVE  CmdInv'
<1>1. iter' = NoIter /\ UNCHANGED cred /\ Idle
  BY DEF ctap2_get_next_assertion, DispatchIter
<1>2. UNCHANGED pinVars /\ UNCHANGED <<pin, always>>
  BY TokenFacts DEF ctap2_get_next_assertion
<1>3. CASE ~ga.active \/ ga.pos >= Len(ga.list)
  <2>1. \/ Refuse /\ UNCHANGED ga
        \/ Refuse /\ ga' = NoGa
    BY <1>3, Zenon DEF ctap2_get_next_assertion
  <2> QED
    BY <1>1, <1>2, <2>1, RefusedStep
<1>4. CASE ga.active /\ ga.pos < Len(ga.list) /\ Age(ga.last) > NextTimeout
  <2>1. \/ Refuse /\ UNCHANGED ga
        \/ Refuse /\ ga' = NoGa
    BY <1>4, Zenon DEF ctap2_get_next_assertion
  <2> QED
    BY <1>1, <1>2, <2>1, RefusedStep
<1>5. CASE /\ ~(~ga.active \/ ga.pos >= Len(ga.list))
           /\ ~(ga.active /\ ga.pos < Len(ga.list) /\ Age(ga.last) > NextTimeout)
  <2>1. /\ ga' = [ga EXCEPT !.pos = @ + 1, !.last = Tick32(now)]
        /\ \/ Answer("gna", TRUE, ga.up, ga.uv, ga.rp) /\ req' = NoReq
           \/ Refuse
    BY <1>5, Zenon DEF ctap2_get_next_assertion
  <2>2. ga \in GaState /\ ga.pos \in Nat /\ Len(ga.list) \in Nat /\ ga.active /\ ga.pos < Len(ga.list)
    <3>1. ga \in GaState /\ ga.list \in SlotLists /\ ga.pos \in Nat
      BY DEF CmdInv, KeptTypes, GaState
    <3>2. Len(ga.list) \in Nat
      BY <3>1, ListFacts, NSlotsAssumption DEF SlotLists
    <3> QED
      BY <1>5, <3>1, <3>2
  <2> DEFINE n == ga.pos + 1
             t == Tick32(now)
  <2>a. n \in Nat /\ t \in 0 .. TickRange - 1 /\ ga' = [ga EXCEPT !.pos = n, !.last = t]
    BY <2>1, <2>2, NowNat, TickType
  <2> HIDE DEF n, t
  <2>b. /\ ga' \in GaState /\ ga'.pos = n
        /\ ga'.list = ga.list /\ ga'.rp = ga.rp /\ ga'.active = ga.active /\ ga'.up = ga.up
        /\ ga'.uv = ga.uv /\ ga'.pin = ga.pin
    BY <2>2, <2>a DEF GaState
  <2>3. /\ ga' \in GaState /\ ga'.pos = ga.pos + 1
        /\ ga'.list = ga.list /\ ga'.rp = ga.rp /\ ga'.active /\ ga'.up = ga.up /\ ga'.uv = ga.uv
        /\ ga'.pin = ga.pin
    BY <2>2, <2>b DEF n
  <2>4. KeptTypes'
    BY <1>1, <2>2, <2>3, NothingKept, EmptyList DEF KeptTypes
  <2>5. NoStaleLists'
    <3>1. \A i \in ga'.pos + 1 .. Len(ga'.list) :
            cred[ga'.list[i]] # None /\ cred[ga'.list[i]].rp = ga'.rp
      BY <2>2, <2>3 DEF CmdInv, NoStaleLists
    <3>2. ga'.pin = pin'
      BY <1>2, <2>2, <2>3 DEF CmdInv, NoStaleLists
    <3> QED
      BY <1>1, <3>1, <3>2, NothingKept, EmptyList DEF NoStaleLists
  <2>6. GaScope' /\ IterScope'
    BY <1>1, <1>2, <2>2, <2>3, NothingKept DEF CmdInv, GaScope, IterScope
  <2>7. req' = NoReq /\ EnumerationScope'
    BY <2>1 DEF Answer, Refuse, EnumerationScope
  <2>8. AlwaysUvHolds'
    BY <1>2, <2>1, <2>2 DEF Answer, Refuse, AlwaysUvHolds, CmdInv, GaScope
  <2>9. ReqType' /\ Alone' /\ Stands'
    BY <2>7, NothingKept DEF ReqType, Alone, Stands, Idle
  <2> QED
    BY <1>1, <2>4, <2>5, <2>6, <2>7, <2>8, <2>9, SameStore DEF CmdInv
<1> QED
  BY <1>3, <1>4, <1>5

-----------------------------------------------------------------------------
(* credMgmt. *)

(* A check for cm that passes: the token is in use and has the permission. *)
LEMMA CmPasses ==
    ASSUME PinInv, NEW r, NEW param, check_cm_token(r, param)
    PROVE  tok'.inUse /\ "cm" \in tok'.perms /\ tok'.rp = tok.rp /\ UNCHANGED <<pin, always>>
<1>1. tok \in Token /\ Verifies(param) /\ "cm" \in puat_verify(param).perms /\ tok' = puat_verify(param)
  BY DEF PinInv, PinRecords, check_cm_token, PermPasses
<1> QED
  BY <1>1, VerifyPasses, TokenFacts

(* An answer from the list: the RP that it names is in the token's scope.  *)
LEMMA EntryStep ==
    ASSUME CmdInv, NEW l, NEW i, Entry(l, i), UNCHANGED cred, ga' = NoGa, KeptTypes', NoStaleLists', IterScope',
           tok'.inUse /\ "cm" \in tok'.perms, puat_rp_matches(tok', cred[l[i]].rp)
    PROVE  CmdInv'
<1>1. CASE Answer("list", TRUE, FALSE, FALSE, cred[l[i]].rp) /\ req' = NoReq
  <2>1. ReqType' /\ Alone' /\ Stands'
    BY <1>1, NothingKept DEF ReqType, Alone, Stands, Idle
  <2>2. AlwaysUvHolds' /\ EnumerationScope'
    BY <1>1 DEF Answer, AlwaysUvHolds, EnumerationScope, puat_rp_matches
  <2>3. GaScope'
    BY NothingKept DEF GaScope
  <2> QED
    BY <2>1, <2>2, <2>3, SameStore DEF CmdInv
<1>2. CASE Refuse
  <2>1. req' = NoReq /\ ret'.ok = FALSE
    BY <1>2 DEF Refuse, Answer
  <2>2. ReqType' /\ Alone' /\ Stands'
    BY <2>1, NothingKept DEF ReqType, Alone, Stands, Idle
  <2>3. AlwaysUvHolds' /\ EnumerationScope'
    BY <2>1 DEF AlwaysUvHolds, EnumerationScope
  <2>4. GaScope'
    BY NothingKept DEF GaScope
  <2> QED
    BY <2>2, <2>3, <2>4, SameStore DEF CmdInv
<1> QED
  BY <1>1, <1>2 DEF Entry

(* A Begin: its list holds credentials of the RP that it is about. *)
LEMMA BeginListStep ==
    ASSUME CmdInv, PinInv, NEW kind \in {"rps", "creds"}, NEW r \in RPs \cup {None}, NEW lists,
           \A l \in lists : /\ l \in SlotLists
                            /\ \A i \in 1 .. Len(l) : l[i] \in Used /\ r \in {None, cred[l[i]].rp},
           Begin(kind, r, lists), ga' = NoGa
    PROVE  CmdInv'
<1>1. PICK param \in Params : check_cm_token(r, param)
  BY DEF Begin
<1>2. tok'.inUse /\ "cm" \in tok'.perms /\ tok'.rp = tok.rp /\ UNCHANGED <<pin, always>>
  BY <1>1, CmPasses
<1>3. UNCHANGED cred
  BY DEF Begin
<1>4. CASE iter' = NoIter /\ RefuseCm
  BY <1>3, <1>4, RefusedStep
<1>5. ASSUME puat_rp_matches(tok, r), NEW l \in lists, Enumerate(kind, r, l)
      PROVE  CmdInv'
  <2>1. l \in SlotLists /\ \A i \in 1 .. Len(l) : l[i] \in Used /\ r \in {None, cred[l[i]].rp}
    OBVIOUS
  <2>2. Len(l) \in Nat /\ (l = <<>> => Len(l) = 0) /\ (l # <<>> => Len(l) >= 1)
    <3>1. PICK m \in 0 .. NSlots : l \in [1 .. m -> SlotIds]
      BY <2>1 DEF SlotLists, Lists
    <3>2. m \in Nat /\ l \in Seq(SlotIds)
      BY <3>1, NSlotsAssumption
    <3> QED
      BY <3>2
  <2> DEFINE p == IF l = <<>> THEN 0 ELSE 1
  <2>3. p \in Nat /\ p <= Len(l)
    BY <2>2
  <2>4. iter' = [kind |-> kind, list |-> l, pos |-> p, rp |-> r]
    BY <1>5 DEF Enumerate
  <2> HIDE DEF p
  <2>5. /\ iter' \in IterState /\ iter'.list = l /\ iter'.pos = p /\ iter'.rp = r
    BY <2>1, <2>3, <2>4 DEF IterState
  <2>6. KeptTypes'
    BY <2>3, <2>5, NothingKept, EmptyList DEF KeptTypes
  <2>7. NoStaleLists'
    <3>1. \A i \in p + 1 .. Len(l) : i \in 1 .. Len(l)
      BY <2>2, <2>3
    <3> QED
      BY <1>3, <2>1, <2>5, <3>1, NothingKept, EmptyList DEF NoStaleLists, Used
  <2>8. IterScope'
    BY <1>2, <1>5, <2>5 DEF IterScope, puat_rp_matches
  <2>9. CASE l = <<>>
    <3>1. req' = NoReq /\ ret'.ok = FALSE
      BY <1>5, <2>9 DEF Enumerate, RefuseCm, Answer
    <3>2. ReqType' /\ Alone' /\ Stands' /\ GaScope'
      BY <3>1, NothingKept DEF ReqType, Alone, Stands, Idle, GaScope
    <3>3. AlwaysUvHolds' /\ EnumerationScope'
      BY <3>1 DEF AlwaysUvHolds, EnumerationScope
    <3> QED
      BY <1>3, <2>6, <2>7, <2>8, <3>2, <3>3, SameStore DEF CmdInv
  <2>10. CASE l # <<>>
    <3>1. Entry(l, 1)
      BY <1>5, <2>10 DEF Enumerate
    <3>2. puat_rp_matches(tok', cred[l[1]].rp)
      BY <1>2, <1>5, <2>1, <2>2, <2>10 DEF puat_rp_matches
    <3> QED
      BY <1>2, <1>3, <2>6, <2>7, <2>8, <3>1, <3>2, EntryStep
  <2> QED
    BY <2>9, <2>10
<1> QED
  BY <1>4, <1>5 DEF Begin

LEMMA DeleteStep ==
    ASSUME CmdInv, PinInv, do_delete_credential, ga' = NoGa
    PROVE  CmdInv'
<1>1. PICK k \in Used, param \in Params :
        /\ check_cm_token(cred[k].rp, param)
        /\ \/ Start([cmd |-> "erase", slot |-> k])
           \/ RefuseCm
  BY DEF do_delete_credential
<1>2. iter' = NoIter /\ UNCHANGED cred /\ UNCHANGED <<pin, always>>
  BY <1>1, TokenFacts DEF do_delete_credential
<1>3. CASE RefuseCm
  BY <1>2, <1>3, RefusedStep
<1> DEFINE q == [cmd |-> "erase", slot |-> k]
<1>4. CASE Start(q)
  <2>1. q \in EraseReq /\ q.cmd = "erase"
    BY Slots DEF EraseReq
  <2> HIDE DEF q
  <2> QED
    BY <1>2, <1>4, <2>1, StartStep
<1> QED
  BY <1>1, <1>3, <1>4

(* The next entry is in the scope of the token that goes on. *)
LEMMA GetNextStep ==
    ASSUME CmdInv, PinInv, NEW kind \in {"rps", "creds"}, GetNext(kind), ga' = NoGa
    PROVE  CmdInv'
<1>1. UNCHANGED cred
  BY DEF GetNext
<1>2. CASE StopCm /\ iter' = NoIter /\ Refuse
  BY <1>1, <1>2, RefusedStep
<1>3. ASSUME ContinueCm,
             CASE iter.kind # kind -> iter' = NoIter /\ Refuse
               [] iter.kind = kind /\ iter.pos >= Len(iter.list) -> UNCHANGED iter /\ Refuse
               [] OTHER -> /\ iter' = [iter EXCEPT !.pos = @ + 1]
                           /\ Entry(iter.list, iter.pos + 1)
      PROVE  CmdInv'
  <2>1. UNCHANGED <<pin, always, tok, same>> /\ MayContinue
    BY <1>3, TokenFacts DEF ContinueCm
  <2>2. TokenStays
    BY <2>1 DEF TokenStays
  <2>3. CASE iter.kind # kind \/ iter.pos >= Len(iter.list)
    <3>1. \/ iter' = NoIter /\ Refuse
          \/ UNCHANGED iter /\ Refuse
      BY <1>3, <2>3, Zenon
    <3> QED
      BY <1>1, <2>1, <2>2, <3>1, RefusedStep
  <2>4. CASE iter.kind = kind /\ ~(iter.pos >= Len(iter.list))
    <3>1. iter' = [iter EXCEPT !.pos = @ + 1] /\ Entry(iter.list, iter.pos + 1)
      BY <1>3, <2>4, Zenon
    <3>2. iter \in IterState /\ iter.pos \in Nat /\ Len(iter.list) \in Nat /\ iter.pos + 1 <= Len(iter.list)
      <4>1. iter \in IterState /\ iter.list \in SlotLists /\ iter.pos \in Nat
        BY DEF CmdInv, KeptTypes, IterState
      <4>2. Len(iter.list) \in Nat
        BY <4>1, ListFacts, NSlotsAssumption DEF SlotLists
      <4> QED
        BY <2>4, <4>1, <4>2
    <3>3. /\ iter' \in IterState /\ iter'.pos = iter.pos + 1 /\ iter'.list = iter.list
          /\ iter'.rp = iter.rp /\ iter'.kind = iter.kind
      BY <3>1, <3>2 DEF IterState
    <3>4. KeptTypes'
      BY <3>2, <3>3, NothingKept, EmptyList DEF KeptTypes
    <3>5. NoStaleLists'
      <4>1. \A i \in iter'.pos + 1 .. Len(iter'.list) : i \in iter.pos + 1 .. Len(iter.list)
        BY <3>2, <3>3
      <4> QED
        BY <1>1, <3>3, <4>1, NothingKept, EmptyList DEF CmdInv, NoStaleLists
    <3>6. iter.kind # "none" /\ same /\ tok.inUse /\ "cm" \in tok.perms
      BY <2>1, <2>4 DEF MayContinue
    <3>7. puat_rp_matches(tok, iter.rp)
      BY <3>6 DEF CmdInv, IterScope
    <3>8. IterScope'
      BY <2>1, <3>3, <3>7 DEF IterScope, puat_rp_matches
    <3>9. puat_rp_matches(tok', cred[iter.list[iter.pos + 1]].rp)
      <4>1. iter.rp \in {None, cred[iter.list[iter.pos + 1]].rp}
        BY <3>2 DEF CmdInv, NoStaleLists
      <4> QED
        BY <2>1, <3>7, <4>1 DEF puat_rp_matches
    <3>10. tok'.inUse /\ "cm" \in tok'.perms
      BY <2>1, <3>6
    <3> QED
      BY <1>1, <3>1, <3>4, <3>5, <3>8, <3>9, <3>10, EntryStep
  <2> QED
    BY <2>3, <2>4
<1> QED
  BY <1>2, <1>3, Zenon DEF GetNext

LEMMA CredMgmtStep ==
    ASSUME CmdInv, PinInv, credmgmt_handle_cbor
    PROVE  CmdInv'
<1>1. ga' = NoGa
  BY DEF credmgmt_handle_cbor, DispatchGa
<1>2. ASSUME NEW param \in Params, CheckFails(param), RefuseCm, UNCHANGED <<iter, cred>>
      PROVE  CmdInv'
  BY <1>1, <1>2, FailsKeepsToken, RefusedStep
<1>3. CASE do_get_creds_metadata
  BY <1>1, <1>3, RefusedStep DEF do_get_creds_metadata
<1>4. CASE Begin("rps", None, build_rp_list)
  BY <1>1, <1>4, BuiltLists, BeginListStep
<1>5. ASSUME NEW r \in RPs, Begin("creds", r, build_cred_list_for_rp(r))
      PROVE  CmdInv'
  BY <1>1, <1>5, BuiltLists, BeginListStep
<1>6. CASE do_delete_credential
  BY <1>1, <1>6, DeleteStep
<1>7. ASSUME NEW kind \in {"rps", "creds"}, GetNext(kind)
      PROVE  CmdInv'
  BY <1>1, <1>7, GetNextStep
<1> QED
  BY <1>2, <1>3, <1>4, <1>5, <1>6, <1>7 DEF credmgmt_handle_cbor

LEMMA ResetStep ==
    ASSUME CmdInv, PinInv, Reset
    PROVE  CmdInv'
<1>1. ga' = NoGa /\ iter' = NoIter /\ UNCHANGED cred /\ UNCHANGED <<pin, always>>
  BY TokenFacts DEF Reset, DispatchIter, DispatchGa
<1>2. CASE Refuse
  BY <1>1, <1>2, RefusedStep
<1> DEFINE q == [cmd |-> "reset", since |-> now]
<1>3. CASE Start(q)
  <2>1. q \in TouchReq /\ q.cmd = "reset"
    BY NowNat DEF TouchReq
  <2> HIDE DEF q
  <2> QED
    BY <1>1, <1>3, <2>1, StartStep
<1> QED
  BY <1>2, <1>3 DEF Reset

-----------------------------------------------------------------------------
(* The requests go on. *)

(* The store changes under no list: none is kept while a request goes on.  *)
LEMMA EndedStep ==
    ASSUME CmdInv, ~Idle, UNCHANGED <<ga, iter>>, req' = NoReq,
           Creds', OneAccount', AlwaysUvHolds', EnumerationScope'
    PROVE  CmdInv'
<1>1. ga' = NoGa /\ iter' = NoIter
  BY DEF CmdInv, Alone
<1>2. KeptTypes' /\ NoStaleLists' /\ GaScope' /\ IterScope'
  BY <1>1, NothingKept, EmptyList DEF KeptTypes, NoStaleLists, GaScope, IterScope
<1>3. ReqType' /\ Alone' /\ Stands'
  BY NothingKept DEF ReqType, Alone, Stands, Idle
<1> QED
  BY <1>2, <1>3 DEF CmdInv

LEMMA RefusedEndStep ==
    ASSUME CmdInv, ~Idle, UNCHANGED <<ga, iter>>, Refuse \/ RefuseCm, Creds', OneAccount'
    PROVE  CmdInv'
<1>1. req' = NoReq /\ ret'.ok = FALSE
  BY DEF Refuse, RefuseCm, Answer
<1>2. AlwaysUvHolds' /\ EnumerationScope'
  BY <1>1 DEF AlwaysUvHolds, EnumerationScope
<1> QED
  BY <1>1, <1>2, EndedStep

(* Credentials that go leave the others as they were. *)
LEMMA Removed ==
    ASSUME CmdInv, NEW S, cred' = [k \in SlotIds |-> IF k \in S THEN None ELSE cred[k]]
    PROVE  Creds' /\ OneAccount'
<1>1. Creds'
  BY DEF CmdInv, Creds
<1>2. \A k \in Used' : k \in Used /\ cred'[k] = cred[k]
  BY DEF Used
<1>3. OneAccount'
  BY <1>2 DEF CmdInv, OneAccount
<1> QED
  BY <1>1, <1>3

(* credstore_make publishes the new credential and takes its account's old *)
(* one out: no two of an account, no two of an age.                        *)
LEMMA PublishedFacts ==
    ASSUME CmdInv, req.cmd = "make", FreeSlots # {}, cred' = Published
    PROVE  Creds' /\ OneAccount'
<1> DEFINE f == Least(FreeSlots)
<1>1. f \in FreeSlots /\ f \in SlotIds
  BY LeastFree, Slots
<1>2. req \in McReq /\ req.new \in Credential /\ NewStands(req)
  BY ReqKinds DEF CmdInv, Stands, McReq
<1>3. cred' = [k \in SlotIds |-> IF k = f THEN req.new ELSE IF k \in req.repl THEN None ELSE cred[k]]
  BY DEF Published
<1> HIDE DEF f
<1>4. Creds'
  BY <1>1, <1>2, <1>3 DEF CmdInv, Creds
<1>5. cred'[f] = req.new
  BY <1>1, <1>3
<1>6. \A k \in Used' : k # f => k \in Used /\ k \notin req.repl /\ cred'[k] = cred[k]
  BY <1>3 DEF Used
<1>7. \A k \in Used' : k # f =>
        /\ cred'[k].seq < cred'[f].seq
        /\ cred'[k].rk /\ cred'[f].rk => cred'[k].rp # cred'[f].rp \/ cred'[k].user # cred'[f].user
  BY <1>2, <1>5, <1>6 DEF NewStands
<1>8. \A k \in Used' : cred'[k].seq \in Nat
  BY <1>4, MaxSeqAssumption DEF Creds, Used, Credential
<1>9. f \in Used' => cred'[f].seq \in Nat
  BY <1>8
<1>10. ASSUME NEW j \in Used', NEW k \in Used', j # k
       PROVE  /\ cred'[j].seq # cred'[k].seq
              /\ cred'[j].rk /\ cred'[k].rk =>
                   cred'[j].rp # cred'[k].rp \/ cred'[j].user # cred'[k].user
  <2>1. CASE j = f
    BY <1>7, <1>8, <1>10, <2>1
  <2>2. CASE k = f
    BY <1>7, <1>8, <1>10, <2>2
  <2>3. CASE j # f /\ k # f
    BY <1>6, <1>10, <2>3 DEF CmdInv, OneAccount
  <2> QED
    BY <2>1, <2>2, <2>3
<1>11. OneAccount'
  BY <1>10 DEF OneAccount
<1> QED
  BY <1>4, <1>11

LEMMA MakeStep ==
    ASSUME CmdInv, Make
    PROVE  CmdInv'
<1>1. ~Idle /\ req.cmd = "make" /\ UNCHANGED <<ga, iter>>
  BY NothingKept DEF Make, Idle
<1>2. CASE /\ FreeSlots # {} /\ cred' = Published /\ UNCHANGED pinVars /\ req' = NoReq
           /\ Answer("mc", TRUE, TRUE, req.uv, req.new.rp)
  <2>1. UNCHANGED always /\ (always => req.uv)
    BY <1>1, <1>2, TokenFacts DEF CmdInv, Stands, NewStands
  <2>2. AlwaysUvHolds' /\ EnumerationScope'
    BY <1>2, <2>1 DEF Answer, AlwaysUvHolds, EnumerationScope
  <2> QED
    BY <1>1, <1>2, <2>2, PublishedFacts, EndedStep
<1>3. CASE Refuse /\ UNCHANGED cred
  BY <1>1, <1>3, SameStore, RefusedEndStep
<1>4. CASE FreeSlots # {} /\ cred' = Published /\ Refuse
  BY <1>1, <1>4, PublishedFacts, RefusedEndStep
<1> QED
  BY <1>2, <1>3, <1>4 DEF Make

LEMMA EraseStep ==
    ASSUME CmdInv, Erase
    PROVE  CmdInv'
<1>1. ~Idle /\ req.cmd = "erase" /\ UNCHANGED <<ga, iter>> /\ RefuseCm
  BY NothingKept DEF Erase, Idle
<1>2. CASE UNCHANGED cred
  BY <1>1, <1>2, SameStore, RefusedEndStep
<1>3. CASE cred' = [cred EXCEPT ![req.slot] = None]
  <2>1. cred' = [k \in SlotIds |-> IF k \in {req.slot} THEN None ELSE cred[k]]
    BY <1>3 DEF CmdInv, Creds
  <2> QED
    BY <1>1, <2>1, Removed, RefusedEndStep
<1> QED
  BY <1>2, <1>3 DEF Erase

LEMMA WipeStep ==
    ASSUME CmdInv, Wipe
    PROVE  CmdInv'
<1>1. ~Idle /\ UNCHANGED <<ga, iter>> /\ Refuse
  BY NothingKept DEF Wipe, Idle
<1>2. PICK S \in SUBSET SlotIds : cred' = [k \in SlotIds |-> IF k \in S THEN None ELSE cred[k]]
  BY DEF Wipe
<1> QED
  BY <1>1, <1>2, Removed, RefusedEndStep

(* The first assertion: what GetNextAssertion goes on with was allowed.    *)
LEMMA SignStep ==
    ASSUME CmdInv, PinInv, ga_sign_respond
    PROVE  CmdInv'
<1>1. req.cmd = "sign" /\ UNCHANGED pinVars /\ UNCHANGED <<pin, always>> /\ UNCHANGED <<cred, iter>>
  BY TokenFacts DEF ga_sign_respond
<1>2. ~Idle /\ ga = NoGa /\ iter = NoIter
  BY <1>1, NothingKept DEF CmdInv, Alone, Idle
<1>3. req \in GaReq /\ ListStands(req)
  BY <1>1, ReqKinds DEF CmdInv, Stands
<1>4. CASE Refuse /\ UNCHANGED ga
  BY <1>1, <1>2, <1>4, SameStore, RefusedEndStep
<1> DEFINE g == [active |-> TRUE, list |-> req.list, pos |-> 1, rp |-> req.rp,
                 up |-> req.up, uv |-> req.uv, last |-> Tick32(now), pin |-> pin]
<1>5. ASSUME Answer("ga", TRUE, req.up, req.uv, req.rp), req' = NoReq,
             ga' = IF Len(req.list) > 1 THEN g ELSE ga
      PROVE  CmdInv'
  <2>1. AlwaysUvHolds' /\ EnumerationScope'
    BY <1>1, <1>3, <1>5 DEF Answer, AlwaysUvHolds, EnumerationScope, ListStands
  <2>2. CASE ga' = ga
    BY <1>1, <1>2, <1>5, <2>1, <2>2, SameStore, EndedStep
  <2>3. CASE Len(req.list) > 1 /\ ga' = g
    <3>1. req.list \in SlotLists /\ req.rp \in RPs /\ req.up \in BOOLEAN /\ req.uv \in BOOLEAN
      BY <1>3 DEF GaReq
    <3>2. Len(req.list) \in Nat
      BY <3>1, ListFacts, NSlotsAssumption DEF SlotLists
    <3>3. Tick32(now) \in 0 .. TickRange - 1 /\ pin \in Pins \cup {None}
      BY NowNat, TickType DEF PinInv, PinNumbers
    <3>4. /\ g \in GaState /\ g.list = req.list /\ g.pos = 1 /\ g.rp = req.rp /\ g.up = req.up
          /\ g.uv = req.uv /\ g.pin = pin
      BY <3>1, <3>3 DEF GaState
    <3> HIDE DEF g
    <3>5. KeptTypes'
      BY <1>1, <1>2, <2>3, <3>2, <3>4, NothingKept, EmptyList DEF KeptTypes
    <3>6. NoStaleLists'
      <4>1. \A i \in g.pos + 1 .. Len(g.list) : cred[g.list[i]] # None /\ cred[g.list[i]].rp = g.rp
        BY <1>3, <3>2, <3>4 DEF ListStands
      <4> QED
        BY <1>1, <1>2, <2>3, <3>4, <4>1, NothingKept, EmptyList DEF NoStaleLists
    <3>7. GaScope' /\ IterScope'
      BY <1>1, <1>2, <1>3, <2>3, <3>4, NothingKept DEF GaScope, IterScope, ListStands
    <3>8. ReqType' /\ Alone' /\ Stands'
      BY <1>5, NothingKept DEF ReqType, Alone, Stands, Idle
    <3> QED
      BY <1>1, <2>1, <3>5, <3>6, <3>7, <3>8, SameStore DEF CmdInv
  <2> QED
    BY <1>5, <2>2, <2>3
<1> QED
  BY <1>4, <1>5 DEF ga_sign_respond

LEMMA TouchStep ==
    ASSUME CmdInv, Touch
    PROVE  CmdInv'
<1>1. UNCHANGED <<cred, ga, iter, ret>> /\ UNCHANGED <<pin, always>> /\ req.cmd \in {"mc", "ga"}
  BY DEF Touch, Touched, chipVars
<1>2. ~Idle /\ ga = NoGa /\ iter = NoIter /\ ~ret.ok
  BY <1>1, NothingKept DEF CmdInv, Alone, Idle
<1>3. /\ req' \in McReq \/ req' \in GaReq
      /\ Stands'
  <2>1. Used' = Used
    BY <1>1 DEF Used
  <2>2. CASE req.cmd = "mc"
    <3>1. req \in McReq /\ NewStands(req) /\ req' = [req EXCEPT !.cmd = "make"]
      BY <2>2, ReqKinds DEF CmdInv, Stands, Touch
    <3>2. /\ req' \in McReq /\ req'.cmd = "make" /\ req'.uv = req.uv /\ req'.new = req.new
          /\ req'.repl = req.repl
      BY <3>1 DEF McReq
    <3> QED
      BY <1>1, <2>1, <3>1, <3>2 DEF Stands, NewStands
  <2>3. CASE req.cmd = "ga"
    <3>1. req \in GaReq /\ ListStands(req) /\ req' = [req EXCEPT !.cmd = "sign"]
      BY <2>3, ReqKinds DEF CmdInv, Stands, Touch
    <3>2. /\ req' \in GaReq /\ req'.cmd = "sign" /\ req'.up = req.up /\ req'.uv = req.uv
          /\ req'.rp = req.rp /\ req'.list = req.list
      BY <3>1 DEF GaReq
    <3> QED
      BY <1>1, <3>1, <3>2 DEF Stands, ListStands
  <2> QED
    BY <1>1, <2>2, <2>3
<1>4. ReqType' /\ Alone' /\ AlwaysUvHolds' /\ EnumerationScope'
  BY <1>1, <1>2, <1>3 DEF ReqType, Alone, AlwaysUvHolds, EnumerationScope
<1>5. KeptTypes' /\ NoStaleLists' /\ GaScope' /\ IterScope'
  BY <1>1, <1>2, KeptStep
<1> QED
  BY <1>1, <1>3, <1>4, <1>5, SameStore DEF CmdInv

(* Time and a lost PIN state leave all that the commands keep. *)
LEMMA OutsideStep ==
    ASSUME CmdInv, ReadError \/ Tick \/ UNCHANGED pinVars, UNCHANGED <<cred, ga, iter, req, ret>>
    PROVE  CmdInv'
<1>1. UNCHANGED <<pin, always, tok, same>> /\ TokenStays
  BY TokenFacts DEF ReadError, Tick, pinVars, chipVars
<1>2. Creds' /\ OneAccount' /\ Used' = Used
  BY SameStore
<1>3. KeptTypes' /\ NoStaleLists' /\ GaScope' /\ IterScope'
  BY <1>1, KeptStep
<1>4. ReqType' /\ Alone'
  BY DEF CmdInv, ReqType, Alone, Idle
<1>5. Stands'
  BY <1>1, <1>2 DEF CmdInv, Stands, NewStands, ListStands
<1>6. AlwaysUvHolds' /\ EnumerationScope'
  BY <1>1 DEF CmdInv, AlwaysUvHolds, EnumerationScope, puat_rp_matches
<1> QED
  BY <1>2, <1>3, <1>4, <1>5, <1>6 DEF CmdInv

-----------------------------------------------------------------------------
LEMMA CmdInit == Init => CmdInv
<1> SUFFICES ASSUME Init PROVE CmdInv
  OBVIOUS
<1>1. Creds /\ Used = {}
  BY DEF Init, Creds, Used
<1>2. KeptTypes /\ NoStaleLists /\ GaScope /\ IterScope
  BY NothingKept, EmptyList DEF Init, KeptTypes, NoStaleLists, GaScope, IterScope
<1>3. ReqType /\ Alone /\ Stands
  BY NothingKept DEF Init, ReqType, Alone, Stands, Idle
<1>4. OneAccount /\ AlwaysUvHolds /\ EnumerationScope
  BY <1>1 DEF Init, OneAccount, AlwaysUvHolds, EnumerationScope
<1> QED
  BY <1>1, <1>2, <1>3, <1>4 DEF CmdInv

LEMMA CmdNext == CmdInv /\ PinInv /\ [Next]_vars => CmdInv'
<1> SUFFICES ASSUME CmdInv, PinInv, [Next]_vars PROVE CmdInv'
  OBVIOUS
<1>1. CASE Command
  BY <1>1, OtherStep, ProbeStep, MakeCredentialStep, GetAssertionStep, NextAssertionStep, CredMgmtStep,
     ResetStep DEF Command
<1>2. CASE Make \/ ga_sign_respond \/ Erase \/ Wipe \/ Touch
  BY <1>2, MakeStep, SignStep, EraseStep, WipeStep, TouchStep
<1>3. CASE NoTouch
  BY <1>3, RefusedStep, TokenFacts DEF NoTouch
<1>4. CASE PinStateLost \/ TimePasses
  BY <1>4, OutsideStep DEF PinStateLost, TimePasses
<1>5. CASE PowerCut
  BY <1>5, RefusedStep DEF PowerCut
<1>6. CASE UNCHANGED vars
  BY <1>6, OutsideStep DEF vars
<1> QED
  BY <1>1, <1>2, <1>3, <1>4, <1>5, <1>6 DEF Next, Continue

-----------------------------------------------------------------------------
(* The commands use the token only through its interface. *)

LEMMA TokenUses ==
    /\ \A r \in RPs, param \in Params : check_token("mc", r, param) \/ check_token("ga", r, param) => PinNext
    /\ \A r \in RPs \cup {None}, param \in Params : check_cm_token(r, param) => PinNext
    /\ \A param \in Params : CheckFails(param) => PinNext
    /\ ContinueCm \/ StopCm \/ Touched => PinNext
<1>1. \A r \in RPs, param \in Params :
        check_token("mc", r, param) \/ check_token("ga", r, param) => TokenUse
  BY DEF TokenUse, Legacy
<1>2. \A r \in RPs \cup {None}, param \in Params : check_cm_token(r, param) => TokenUse
  BY DEF TokenUse
<1>3. \A param \in Params : CheckFails(param) => TokenUse
  BY DEF TokenUse
<1>4. ContinueCm \/ StopCm \/ Touched => TokenUse
  BY DEF TokenUse
<1> QED
  BY <1>1, <1>2, <1>3, <1>4 DEF PinNext

LEMMA CommandIsPinStep ==
    ASSUME CmdInv, Command
    PROVE  PinNext \/ UNCHANGED pinVars
<1>1. CASE OtherCommand \/ ClientPinCommand \/ pin_probe \/ ctap2_get_next_assertion \/ Reset
  BY <1>1 DEF OtherCommand, ClientPinCommand, pin_probe, ctap2_get_next_assertion, Reset, PinNext
<1>2. CASE ctap2_config
  <2>1. ToggleAlwaysUv \/ \E param \in Params : CheckFails(param)
    BY <1>2 DEF ctap2_config
  <2> QED
    BY <2>1, TokenUses DEF PinNext
<1>3. CASE ctap2_make_credential
  <2>1. \E r \in RPs, param \in Params :
          check_token("mc", r, param) \/ CheckFails(param) \/ UNCHANGED pinVars
    BY <1>3 DEF ctap2_make_credential
  <2> QED
    BY <2>1, TokenUses
<1>4. CASE ctap2_get_assertion
  <2>1. \E r \in RPs, param \in Params :
          check_token("ga", r, param) \/ CheckFails(param) \/ UNCHANGED pinVars
    BY <1>4 DEF ctap2_get_assertion
  <2> QED
    BY <2>1, TokenUses
<1>5. CASE credmgmt_handle_cbor
  <2>1. \A k \in Used : cred[k].rp \in RPs
    BY Slots DEF CmdInv, Creds, Credential, Used
  <2>2. CASE \E param \in Params : CheckFails(param)
    BY <2>2, TokenUses
  <2>3. CASE do_get_creds_metadata \/ Begin("rps", None, build_rp_list)
    BY <2>3, TokenUses DEF do_get_creds_metadata, Begin
  <2>4. CASE \E r \in RPs : Begin("creds", r, build_cred_list_for_rp(r))
    BY <2>4, TokenUses DEF Begin
  <2>5. CASE do_delete_credential
    BY <2>1, <2>5, TokenUses DEF do_delete_credential
  <2>6. CASE \E kind \in {"rps", "creds"} : GetNext(kind)
    <3>1. StopCm \/ ContinueCm
      BY <2>6 DEF GetNext
    <3> QED
      BY <3>1, TokenUses
  <2> QED
    BY <1>5, <2>2, <2>3, <2>4, <2>5, <2>6 DEF credmgmt_handle_cbor
<1> QED
  BY <1>1, <1>2, <1>3, <1>4, <1>5 DEF Command

LEMMA PinStep == CmdInv /\ [Next]_vars => [PinNext]_pinVars
<1> SUFFICES ASSUME CmdInv, [Next]_vars PROVE PinNext \/ UNCHANGED pinVars
  OBVIOUS
<1>1. CASE Command
  BY <1>1, CommandIsPinStep
<1>2. CASE Touch
  BY <1>2, TokenUses DEF Touch
<1>3. CASE NoTouch \/ PinStateLost \/ Make \/ ga_sign_respond \/ Erase \/ Wipe
  BY <1>3 DEF NoTouch, PinStateLost, Make, ga_sign_respond, Erase, Wipe, PinNext
<1>4. CASE TimePasses \/ PowerCut \/ UNCHANGED vars
  BY <1>4 DEF TimePasses, PowerCut, vars, PinNext
<1> QED
  BY <1>1, <1>2, <1>3, <1>4 DEF Next, Continue

(* The invariant of the commands and that of the token hold together. *)
CtapInv == CmdInv /\ PinInv /\ PinFlags

LEMMA CtapInvCorrect == Spec => []CtapInv
<1>1. Init => CtapInv
  BY CmdInit, PinInvInit DEF Init, CtapInv
<1>2. CtapInv /\ [Next]_vars => CtapInv'
  BY CmdNext, PinStep, PinInvNext, PinFlagsStep DEF CtapInv
<1> QED
  BY <1>1, <1>2, PTL DEF Spec

(* Every step of a command, of a touch or of the clock is one of ClientPin *)
(* or leaves its state alone: what is proved of PinSpec holds of the       *)
(* commands.                                                               *)
THEOREM Refinement == Spec => ImplementsClientPin
<1>1. Init => PinInit
  BY DEF Init
<1>2. CtapInv /\ [Next]_vars => [PinNext]_pinVars
  BY PinStep DEF CtapInv
<1> QED
  BY <1>1, <1>2, CtapInvCorrect, PTL DEF Spec, PinSpec, ImplementsClientPin

(* The store, what is kept between two commands and the request in         *)
(* progress keep their types; the positions of GetNextAssertion and of the *)
(* enumerations stay within their lists.                                   *)
THEOREM TypeCorrect == Spec => []TypeOK
<1>1. CtapInv => TypeOK
  <2> SUFFICES ASSUME CtapInv PROVE TypeOK
    OBVIOUS
  <2>1. PinTypeOK
    BY DEF CtapInv, PinInv, PinFlags, PinNumbers, PinRecords, PinTypeOK
  <2>2. cred \in [SlotIds -> Credential \cup {None}]
    BY DEF CtapInv, CmdInv, Creds
  <2>3. ga \in GaState /\ ga.pos <= Len(ga.list) /\ iter \in IterState /\ iter.pos <= Len(iter.list)
    BY DEF CtapInv, CmdInv, KeptTypes
  <2>4. /\ ga.list \in SlotLists /\ ga.pos \in Nat /\ ga.rp \in RPs \cup {None} /\ ga.last \in 0 .. TickRange - 1
        /\ iter.kind \in {"none", "rps", "creds"} /\ iter.list \in SlotLists /\ iter.pos \in Nat
    BY <2>3 DEF GaState, IterState
  <2>5. Len(ga.list) \in Nat /\ Len(iter.list) \in Nat
    BY <2>4, ListFacts, NSlotsAssumption DEF SlotLists
  <2>6. ga.pos \in 0 .. Len(ga.list) /\ iter.pos \in 0 .. Len(iter.list)
    BY <2>3, <2>4, <2>5
  <2>7. req.cmd \in {"none", "ask", "mc", "make", "ga", "sign", "erase", "reset"}
    BY ReqKinds DEF CtapInv, CmdInv
  <2> QED
    BY <2>1, <2>2, <2>4, <2>6, <2>7 DEF TypeOK
<1> QED
  BY <1>1, CtapInvCorrect, PTL

(* MakeCredential replaces the credential of the account, whatever comes   *)
(* between its scan and the store: never two of one account, never two of  *)
(* one age.                                                                *)
THEOREM AccountCorrect == Spec => []OneAccount
<1>1. CtapInv => OneAccount
  BY DEF CtapInv, CmdInv
<1> QED
  BY <1>1, CtapInvCorrect, PTL

(* GetNextAssertion and the enumerations go on with credentials that are   *)
(* still there, of the RP they were asked for, under the same PIN.         *)
THEOREM ListsCorrect == Spec => []NoStaleLists
<1>1. CtapInv => NoStaleLists
  BY DEF CtapInv, CmdInv
<1> QED
  BY <1>1, CtapInvCorrect, PTL

(* An enumeration answers only within its token, the GetNexts included,    *)
(* which carry no pinUvAuthParam.                                          *)
THEOREM ScopeCorrect == Spec => []EnumerationScope
<1>1. CtapInv => EnumerationScope
  BY DEF CtapInv, CmdInv
<1> QED
  BY <1>1, CtapInvCorrect, PTL

(* While alwaysUv is on, no answer with the UP bit lacks UV, whenever it   *)
(* was switched on: a request in progress or a list in RAM never outlives  *)
(* the policy under which it was allowed.                                  *)
THEOREM UvCorrect == Spec => []AlwaysUvHolds
<1>1. CtapInv => AlwaysUvHolds
  BY DEF CtapInv, CmdInv
<1> QED
  BY <1>1, CtapInvCorrect, PTL

(* So the token's promises hold of the commands too: no token outlives its *)
(* PIN, what a command authorises was granted, and the lockout holds.      *)
COROLLARY CommandsKeepThePin ==
    ASSUME MaxUptime < TickRange
    PROVE  Spec => [](TokenOfThisPin /\ GrantedUse) /\ LockoutHolds
<1>1. PinSpec => []TokenOfThisPin
  BY TokensFollowThePin
<1>2. PinSpec => []GrantedUse
  BY UseIsGranted
<1>3. PinSpec => LockoutHolds
  BY LockoutIsFinal
<1>4. Spec => PinSpec
  BY Refinement DEF ImplementsClientPin
<1> QED
  BY <1>1, <1>2, <1>3, <1>4, PTL
=============================================================================
