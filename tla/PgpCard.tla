------------------------------- MODULE PgpCard -------------------------------
(***************************************************************************)
(* The OpenPGP card (firmware/src/openpgp): the applet's access status,    *)
(* the lifecycle record O3, the bindings of PW1, PW3 and the Resetting     *)
(* Code, the keys on the chip and the DEC key wrapped in O3.  An APDU is a *)
(* sequence of chip and record calls; power may be cut in each, and its    *)
(* reply may be lost.                                                      *)
(*                                                                         *)
(* O3 is an atomic record (module RecPair): "ok", "absent", or "torn" by   *)
(* an interrupted init or clear, when no read is sure what it finds.  A    *)
(* PIN is what module PinKernel shows of it: its record, the secret s it   *)
(* protects, the attempts spent, and whether the M&D slots still back it.  *)
(* An ECC key is named by the secret of the PW3 it was generated under,    *)
(* the DEC key by the secret of the PW1 whose KEK seals it.                *)
(***************************************************************************)
EXTENDS Integers, FiniteSets

CONSTANTS
    Rounds,     \* OPENPGP_PIN_ROUNDS
    Secrets,    \* what the random source yields for a PIN binding
    Codes,      \* Resetting Codes an administrator sets
    None,       \* no secret, no code, no key
    C4s,        \* what PUT DATA writes to byte 0 of DO C4
    Uifs,       \* and to the UIFs
    BootTries,  \* PGP_BOOT_TRIES
    MaxFaults   \* bound: cut or lost calls

ASSUME RoundsAssumption == Rounds \in Nat \ {0}
ASSUME NoneAssumption == None \notin Secrets \cup Codes
ASSUME PutAssumption == C4s \subseteq 0 .. 1 /\ Uifs \subseteq 0 .. 2
ASSUME BootTriesAssumption == BootTries \in Nat \ {0}
ASSUME MaxFaultsAssumption == MaxFaults \in Nat

VARIABLES
    o3,         \* chip: O3, "ok", "absent" or "torn"
    o3rec,      \* chip: what O3 holds
    ecc,        \* chip: the OpenPGP ECC slots
    pin,        \* chip: the bindings of PW1, PW3 and RC
    loaded,     \* RAM: s_loaded
    ram,        \* RAM: s_cur
    unc3,       \* RAM: O3 is uncertain
    uncP,       \* RAM: the bindings whose record is uncertain
    tries,      \* RAM: s_boot_tries
    auth,       \* RAM: s_auth
    kek,        \* RAM: s_kek
    op,         \* the APDU being served, or "boot"
    pc,         \* its next call
    arg,        \* its argument, or the key or PIN a wipe works on
    touched,    \* the button was pressed for it
    ensured,    \* pgp_lifecycle_ensure has run for the next APDU
    ret,        \* the lifecycle operation that has just answered OK
    lead,       \* history: signatures counted and not made, at most one kept
    perm,       \* history: UIF 02 was written and O3 not cleared since
    asked,      \* history: the codes that may be the Resetting Code
    faults      \* calls cut or lost so far

chipVars == <<o3, o3rec, ecc, pin, lead, perm>>
stateVars == <<loaded, ram, unc3>>
ramVars == <<loaded, ram, unc3, uncP, tries>>
authVars == <<auth, kek>>
vars == <<o3, o3rec, ecc, pin, loaded, ram, unc3, uncP, tries, auth, kek, op, pc, arg,
          touched, ensured, ret, lead, perm, asked, faults>>

EccKeys == {"sig", "dec", "aut"}
PinIds == {"PW1", "PW3", "RC"}
PW1Flags == {81, 82}
AllFlags == {81, 82, 83}

Record == [lc : {"OPERATIONAL", "TERMINATED"}, rc : BOOLEAN, c4 : 0 .. 1, uif : 0 .. 2,
           dec : Secrets \cup {None}]

(* defaults(): PIN once per plug-in, touch for every key. *)
Defaults(lc) == [lc |-> lc, rc |-> FALSE, c4 |-> IF lc = "OPERATIONAL" THEN 1 ELSE 0,
                 uif |-> IF lc = "OPERATIONAL" THEN 1 ELSE 0, dec |-> None]
Blank == Defaults("TERMINATED")

Binding == [st : {"ok", "absent", "torn"}, s : Secrets \cup Codes \cup {None},
            next : 0 .. Rounds, keyed : BOOLEAN]
NoBinding == [st |-> "absent", s |-> None, next |-> 0, keyed |-> FALSE]
NewBinding(st, x) == [st |-> st, s |-> x, next |-> 0, keyed |-> TRUE]

usable == loaded /\ ~unc3
openpgp_state_lifecycle == IF usable THEN ram.lc ELSE "ERROR"
openpgp_state_uif == IF usable THEN ram.uif ELSE 1
rc_set == usable /\ ram.rc

pin_of(flag) == IF flag = 83 THEN "PW3" ELSE "PW1"
flags_of(p) == CASE p = "PW1" -> PW1Flags [] p = "PW3" -> {83} [] p = "RC" -> {}

(* The PIN that the step of pc works on. *)
Which ==
    CASE pc \in {"statRC", "tryRC"} \/ op = "setrc" -> "RC"
      [] op = "reset" /\ pc \notin {"statRC", "tryRC"} -> "PW1"
      [] op = "verify" -> pin_of(arg)
      [] op = "terminate" /\ pc = "stat" -> "PW3"
      [] OTHER -> arg

-----------------------------------------------------------------------------
(* Mutant: the KEK goes with the last flag only. *)
AuthDropKeepsKek(mask) ==
    /\ auth' = auth \ mask
    /\ kek' = IF auth \subseteq mask THEN None ELSE kek

(* Access status: the KEK lives exactly as long as 81 or 82. *)
auth_drop(mask) ==
    /\ auth' = auth \ mask
    /\ kek' = IF auth \cap PW1Flags \subseteq mask THEN None ELSE kek

auth_grant(flag) ==
    /\ auth' = auth \cup {flag}
    /\ kek' = IF flag = 83 THEN kek ELSE pin["PW1"].s

(* How an APDU ends or goes on. *)
Return(st) ==
    /\ op' = "none" /\ pc' = "idle" /\ arg' = None /\ touched' = FALSE
    /\ ensured' = (op = "boot")
    /\ ret' = IF st = "OK" /\ op \in {"boot", "terminate", "activate"} THEN op ELSE "none"
    /\ asked' = IF st = "OK" /\ op = "setrc" THEN {arg} \ {None}
                ELSE IF st = "OK" /\ pc = "init3" THEN {} ELSE asked

Goto(p, a) == pc' = p /\ arg' = a /\ UNCHANGED <<op, touched, ensured, ret, asked>>

(* Mutant: PW1 is reset though its DEC key could not be destroyed. *)
FailGoesOn ==
    IF pc = "destroy" THEN Goto("bind", arg) /\ UNCHANGED authVars
    ELSE Return("ERR") /\ IF pc = "decSet" THEN auth_drop(PW1Flags) ELSE UNCHANGED authVars

(* Mutant: a code that could not be cleared is answered OK. *)
FailSwallowed == Return(IF op = "setrc" THEN "OK" ELSE "ERR") /\ UNCHANGED authVars

(* A failed GENERATE of the DEC key ends the PW1 session. *)
Fail == Return("ERR") /\ IF pc = "decSet" THEN auth_drop(PW1Flags) ELSE UNCHANGED authVars

-----------------------------------------------------------------------------
(* O3 is written by these calls, with this value. *)
Stores == {"guard0", "guard1", "destroy", "decSet", "count", "put", "activate"}

StoreValue ==
    CASE pc = "guard0" -> [ram EXCEPT !.rc = FALSE]
      [] pc = "guard1" -> [ram EXCEPT !.rc = TRUE]
      [] pc = "destroy" -> [ram EXCEPT !.dec = None]
      [] pc = "decSet" -> [ram EXCEPT !.dec = kek]
      [] pc = "count" -> ram
      [] pc = "put" -> arg
      [] pc = "activate" -> Defaults("OPERATIONAL")

(* commit() and openpgp_state_activate() write over this lifecycle only. *)
StoreAllowed ==
    usable /\ ram.lc = (IF pc = "activate" THEN "TERMINATED" ELSE "OPERATIONAL")

(* A secret in use nowhere for this PIN: random values do not repeat. *)
Fresh(p) ==
    Secrets \ (IF p = "PW1" THEN {pin[p].s, o3rec.dec, ram.dec, kek}
               ELSE {pin[p].s} \cup {ecc[k] : k \in EccKeys})

BindSecrets(p) == IF p = "RC" THEN {arg} ELSE Fresh(p)

OnPin(b) == pin' = [pin EXCEPT ![Which] = b] /\ UNCHANGED <<o3, o3rec, ecc, lead, perm>>
OnKey(k, x) == ecc' = [ecc EXCEPT ![k] = x] /\ UNCHANGED <<o3, o3rec, pin, lead, perm>>
OnO3(st, r) ==
    /\ o3' = st /\ o3rec' = r
    /\ lead' = IF st = "absent" THEN 0 ELSE lead
    /\ perm' = (perm /\ st # "absent")
    /\ UNCHANGED <<ecc, pin>>

(* What the call of pc does to the chip when it runs to its end. *)
Effect ==
    \/ pc = "erase" /\ OnKey(arg, None)
    \/ pc = "gen" /\ OnKey(arg, pin["PW3"].s)
    \/ pc = "clear3" /\ OnO3("absent", Blank)
    \/ pc = "init3" /\ OnO3("ok", Defaults(IF op = "boot" THEN "OPERATIONAL" ELSE "TERMINATED"))
    \/ /\ pc \in Stores
       /\ o3' = "ok" /\ o3rec' = StoreValue
       /\ perm' = (perm \/ (pc = "put" /\ arg.uif = 2))
       /\ lead' = IF pc = "count" THEN 1 ELSE lead
       /\ UNCHANGED <<ecc, pin>>
    \/ pc = "retire" /\ OnPin([pin[Which] EXCEPT !.keyed = FALSE])
    \/ pc = "drop" /\ OnPin(NoBinding)
    \/ pc = "bind" /\ \E x \in BindSecrets(Which) : OnPin(NewBinding("ok", x))
    \/ /\ pc = "sign" /\ ecc["sig"] # None
       /\ lead' = lead - 1
       /\ UNCHANGED <<o3, o3rec, ecc, pin, perm>>

(* What one that is cut, or whose reply is lost, may leave.  A binding     *)
(* that is replaced stays whole until the new one is committed; a first    *)
(* one may be torn.  A PIN attempt is reserved before it is made.          *)
Torn ==
    \/ pc = "clear3" /\ o3 # "absent" /\ OnO3("torn", o3rec)
    \/ pc = "init3" /\ OnO3("torn", Defaults(IF op = "boot" THEN "OPERATIONAL" ELSE "TERMINATED"))
    \/ pc = "drop" /\ pin[Which].st # "absent" /\ OnPin([pin[Which] EXCEPT !.st = "torn"])
    \/ /\ pc = "bind" /\ pin[Which].st = "absent"
       /\ \E x \in BindSecrets(Which) : OnPin(NewBinding("torn", x))
    \/ /\ pc \in {"try", "tryRC"} /\ pin[Which].st = "ok" /\ pin[Which].next < Rounds
       /\ \/ OnPin([pin[Which] EXCEPT !.next = @ + 1])
          \/ pin[Which].keyed /\ OnPin([pin[Which] EXCEPT !.next = 0])

Interrupted == UNCHANGED chipVars \/ Effect \/ Torn

-----------------------------------------------------------------------------
(* The dispatcher.  pgp_lifecycle_ensure reads O3 once per power cycle, in *)
(* a bounded number of tries, before an APDU is served.                    *)
Ready == loaded \/ tries >= BootTries \/ ensured

(* Between two APDUs. *)
Waiting == pc = "idle" /\ ~ensured

pgp_lifecycle_ensure ==
    /\ pc = "idle" /\ ~Ready
    /\ tries' = tries + 1
    /\ op' = "boot" /\ pc' = "load" /\ ret' = "none"
    /\ UNCHANGED <<chipVars, stateVars, uncP, authVars, arg, touched, ensured, asked, faults>>

(* What a TERMINATED card, and one whose O3 cannot be read, still serve. *)
Gate(o, a) ==
    CASE openpgp_state_lifecycle = "OPERATIONAL" -> TRUE
      [] openpgp_state_lifecycle = "TERMINATED" -> o \in {"select", "activate"}
      [] OTHER -> o \in {"select", "terminate"} \/ (o = "verify" /\ a = 83)

Serve(o, a) == pc = "idle" /\ Ready /\ Gate(o, a)

Enter(o, p, a) ==
    /\ Serve(o, a)
    /\ op' = o /\ pc' = p /\ arg' = a
    /\ ensured' = FALSE /\ ret' = "none"
    /\ UNCHANGED <<chipVars, ramVars, touched, faults>>

(* Answered at once: only the access status may change. *)
Answer ==
    /\ ensured' = FALSE /\ ret' = "none"
    /\ UNCHANGED <<chipVars, ramVars, op, pc, arg, touched, asked, faults>>

(* Refused by the dispatcher, or by an early return of a handler. *)
Refuse == pc = "idle" /\ Ready /\ Answer /\ UNCHANGED authVars

(* SELECT of another application; of this one it changes nothing. *)
handle_select == Serve("select", None) /\ auth_drop(AllFlags) /\ Answer

(* VERIFY with P1 = FF. *)
VerifyReset == \E f \in AllFlags : Serve("verify", f) /\ auth_drop({f}) /\ Answer

Verify(f) == Enter("verify", "try", f) /\ UNCHANGED <<authVars, asked>>
handle_verify == \E f \in AllFlags : Verify(f)

(* A PIN of a bad length is no attempt, and drops the status all the same. *)
VerifyBadLength ==
    \E f \in AllFlags : Serve("verify", f) /\ auth_drop(flags_of(pin_of(f))) /\ Answer

(* GET DATA and the VERIFY status query read the PIN records. *)
handle_get_data ==
    /\ \E p \in PinIds : (p = "RC" => rc_set) /\ Enter("status", "stat", p)
    /\ UNCHANGED <<authVars, asked>>

handle_change_ref ==
    /\ \E p \in {"PW1", "PW3"} : Enter("change", "stat", p)
    /\ UNCHANGED <<authVars, asked>>

(* P1 = 00 with the code (arg TRUE), P1 = 02 with PW3 verified. *)
handle_reset_rc ==
    /\ \/ rc_set /\ Enter("reset", "statRC", TRUE)
       \/ 83 \in auth /\ Enter("reset", "stat", FALSE)
    /\ UNCHANGED <<authVars, asked>>

(* Mutant: UIF 02 is not permanent. *)
PutDataLowers ==
    /\ 83 \in auth
    /\ \/ \E v \in C4s : Enter("put", "put", [ram EXCEPT !.c4 = v])
       \/ \E v \in Uifs : Enter("put", "put", [ram EXCEPT !.uif = v])
    /\ UNCHANGED <<authVars, asked>>

(* PUT DATA: C4, the UIFs, the data objects, and D3, the code. *)
handle_put_data ==
    /\ 83 \in auth
    /\ \/ \E v \in C4s : Enter("put", "put", [ram EXCEPT !.c4 = v])
       \/ \E v \in Uifs :
            (ram.uif = 2 => v = 2) /\ Enter("put", "put", [ram EXCEPT !.uif = v])
    /\ UNCHANGED <<authVars, asked>>

pgp_pin_set_rc ==
    /\ 83 \in auth
    /\ \E c \in Codes \cup {None} :
         /\ Enter("setrc", "retire", c)
         /\ asked' = asked \cup ({c} \ {None})
    /\ UNCHANGED authVars

handle_generate ==
    /\ 83 \in auth
    /\ \/ \E k \in {"sig", "aut"} : Enter("generate", "erase", k)
       \/ auth \cap PW1Flags # {} /\ Enter("generate", "decSet", "dec")
    /\ UNCHANGED <<authVars, asked>>

(* require_touch_if_enabled stands before each use of a key. *)
KeyUse(flag, p) ==
    /\ flag \in auth
    /\ Enter("use", IF openpgp_state_uif = 0 THEN p ELSE "touch", p)
    /\ UNCHANGED asked

(* Mutant: signatures are not counted first. *)
SignUncounted ==
    /\ KeyUse(81, "sign")
    /\ IF ram.c4 = 0 THEN auth_drop({81}) ELSE UNCHANGED authVars

(* With C4 = 0 the flag is spent, also on an empty body. *)
handle_pso_cds ==
    \/ /\ KeyUse(81, "count")
       /\ IF ram.c4 = 0 THEN auth_drop({81}) ELSE UNCHANGED authVars
    \/ /\ Serve("use", None) /\ 81 \in auth /\ ram.c4 = 0
       /\ auth_drop({81})
       /\ Answer

handle_pso_dec == KeyUse(82, "decipher") /\ UNCHANGED authVars
handle_internal_auth == KeyUse(82, "authenticate") /\ UNCHANGED authVars

handle_terminate_df == Enter("terminate", "stat", None) /\ UNCHANGED <<authVars, asked>>

(* Mutant: the PIN bindings are not cleared again. *)
ActivateNoClear ==
    /\ openpgp_state_lifecycle = "TERMINATED"
    /\ Enter("activate", "bind", "PW1")
    /\ auth_drop(AllFlags)
    /\ UNCHANGED asked

(* A no-op on an operational card. *)
handle_activate_file ==
    /\ openpgp_state_lifecycle = "TERMINATED"
    /\ Enter("activate", "retire", "PW1")
    /\ auth_drop(AllFlags)
    /\ UNCHANGED asked

-----------------------------------------------------------------------------
(* user_presence_check: pressed, or refused.  The wait runs the USB stack. *)
Touch ==
    /\ pc = "touch"
    /\ \/ pc' = arg /\ touched' = TRUE /\ UNCHANGED <<op, arg, ensured, ret, asked>>
       \/ Return("ERR")
    /\ UNCHANGED <<chipVars, ramVars, authVars, faults>>

(* A bus reset or IccPowerOn/Off between two APDUs or in the touch wait. *)
openpgp_applet_card_reset ==
    /\ Waiting \/ pc = "touch"
    /\ auth # {}
    /\ auth_drop(AllFlags)
    /\ UNCHANGED <<chipVars, ramVars, op, pc, arg, touched, ensured, ret, asked, faults>>

(* What a read of the PIN record finds. *)
Reads(p) ==
    IF p \in uncP THEN {"err"}
    ELSE IF pin[p].st = "torn" THEN {"ok", "absent", "err"} ELSE {pin[p].st}

pgp_pin_status(p, r) ==
    IF r # "ok" THEN "ERROR" ELSE IF pin[p].next >= Rounds THEN "BLOCKED" ELSE "ACTIVE"

(* What the handler does with the status of the PIN.  A change refuses a   *)
(* body no longer than the old PIN, and a new PIN of a bad length.         *)
OnStatus(st) ==
    \/ op = "status" /\ Return(st) /\ UNCHANGED authVars
    \/ /\ op = "change" /\ st = "ACTIVE"
       /\ Goto("try", arg) \/ Return("ERR")
       /\ auth_drop(flags_of(arg))
    \/ op = "change" /\ Return("ERR") /\ UNCHANGED authVars
    \/ /\ op = "reset" /\ pc = "statRC"
       /\ IF st = "ACTIVE" THEN Goto("stat", arg) ELSE Return(st)
       /\ UNCHANGED authVars
    \/ /\ op = "reset" /\ pc = "stat"
       /\ CASE st = "ERROR" -> Return(st) /\ UNCHANGED authVars
            [] st # "ERROR" /\ arg -> Goto("tryRC", arg) /\ UNCHANGED authVars
            [] OTHER -> Goto("destroy", arg) /\ auth_drop(PW1Flags)
    \/ /\ op = "terminate"
       /\ IF 83 \in auth \/ st # "ACTIVE"
            THEN Goto("erase", "sig") /\ auth_drop(AllFlags)
            ELSE Return("ERR") /\ UNCHANGED authVars

Status ==
    /\ pc \in {"stat", "statRC"}
    /\ \E r \in Reads(Which) :
         /\ OnStatus(pgp_pin_status(Which, r))
         /\ pin' = IF r = "ok" THEN [pin EXCEPT ![Which].st = "ok"] ELSE pin
    /\ UNCHANGED <<o3, o3rec, ecc, lead, perm, ramVars, faults>>

(* What the handler does with the result of a PIN attempt. *)
OnAttempt(st) ==
    \/ /\ op = "verify" /\ Return(st)
       /\ IF st = "OK" THEN auth_grant(arg) ELSE auth_drop(flags_of(Which))
    \/ op = "change" /\ Return(st) /\ UNCHANGED authVars
    \/ /\ op = "reset"
       /\ IF st = "OK" THEN Goto("destroy", arg) /\ auth_drop(PW1Flags)
                       ELSE Return(st) /\ UNCHANGED authVars

(* pgp_pin_verify, pgp_pin_change: a change keeps the secret.  Only a PIN  *)
(* whose slots back it can be right.                                       *)
Attempt ==
    /\ pc \in {"try", "tryRC"}
    /\ \E r \in Reads(Which) :
         LET b == [pin[Which] EXCEPT !.st = "ok"] IN
         \/ r # "ok" /\ OnAttempt("ERR") /\ UNCHANGED pin
         \/ /\ r = "ok" /\ b.next >= Rounds
            /\ OnAttempt("BLOCKED")
            /\ pin' = [pin EXCEPT ![Which] = b]
         \/ /\ r = "ok" /\ b.next < Rounds
            /\ \/ /\ b.keyed /\ OnAttempt("OK")
                  /\ pin' = [pin EXCEPT ![Which] = [b EXCEPT !.next = 0]]
               \/ /\ OnAttempt("WRONG")
                  /\ pin' = [pin EXCEPT ![Which] = [b EXCEPT !.next = @ + 1]]
    /\ UNCHANGED <<o3, o3rec, ecc, lead, perm, ramVars, faults>>

-----------------------------------------------------------------------------
(* pgp_lifecycle_boot: an absent O3 is a wipe and a factory card. *)
Load ==
    /\ pc = "load"
    /\ \/ /\ o3 # "absent" /\ ~unc3
          /\ o3' = "ok" /\ loaded' = TRUE /\ ram' = o3rec
          /\ Return("OK")
       \/ /\ o3 # "ok" /\ ~unc3
          /\ loaded' = FALSE
          /\ Goto("erase", "sig")
          /\ UNCHANGED <<o3, ram>>
       \/ /\ o3 = "torn" \/ unc3
          /\ loaded' = FALSE
          /\ Return("ERR")
          /\ UNCHANGED <<o3, ram>>
    /\ UNCHANGED <<o3rec, ecc, pin, lead, perm, unc3, uncP, tries, authVars, faults>>

(* Mutant: the PINs go before O3. *)
EraseThenPins ==
    /\ pc = "erase"
    /\ Effect
    /\ CASE op = "generate" -> Goto("gen", arg)
         [] op # "generate" /\ arg = "sig" -> Goto("erase", "dec")
         [] op # "generate" /\ arg = "dec" -> Goto("erase", "aut")
         [] OTHER -> Goto("retire", "PW1")
    /\ UNCHANGED <<ramVars, authVars, faults>>

(* pgp_lifecycle_wipe: the keys, then O3 with the DEC key, then the PINs.  *)
(* GENERATE erases its slot first too.                                     *)
Erase ==
    /\ pc = "erase"
    /\ Effect
    /\ CASE op = "generate" -> Goto("gen", arg)
         [] op # "generate" /\ arg = "sig" -> Goto("erase", "dec")
         [] op # "generate" /\ arg = "dec" -> Goto("erase", "aut")
         [] OTHER -> Goto("clear3", None)
    /\ UNCHANGED <<ramVars, authVars, faults>>

openpgp_state_clear ==
    /\ pc = "clear3"
    /\ Effect
    /\ loaded' = FALSE /\ ram' = Blank /\ unc3' = FALSE
    /\ Goto("retire", "PW1")
    /\ UNCHANGED <<uncP, tries, authVars, faults>>

(* pin_md_kernel_clear retires the slots, then drops the record; its       *)
(* callers drop the uncertain flag first.                                  *)
Retire ==
    /\ pc = "retire"
    /\ Effect
    /\ uncP' = uncP \ {Which}
    /\ Goto("drop", arg)
    /\ UNCHANGED <<stateVars, tries, authVars, faults>>

(* Mutant: the binding of the Resetting Code is left. *)
DropLeavesCode ==
    /\ pc = "drop"
    /\ Effect
    /\ CASE op = "setrc" /\ ram.rc -> Goto("guard0", arg)
         [] op = "setrc" /\ ~ram.rc /\ arg # None -> Goto("bind", arg)
         [] op = "setrc" /\ ~ram.rc /\ arg = None -> Return("OK")
         [] op # "setrc" /\ arg = "PW1" -> Goto("retire", "PW3")
         [] op = "terminate" /\ arg = "PW3" -> Goto("init3", None)
         [] OTHER -> Goto("bind", "PW1")
    /\ UNCHANGED <<ramVars, authVars, faults>>

(* After the last PIN: TERMINATE writes its record, the others bind the    *)
(* factory PINs, and PUT DATA D3 clears its guard.                         *)
Drop ==
    /\ pc = "drop"
    /\ Effect
    /\ CASE op = "setrc" /\ ram.rc -> Goto("guard0", arg)
         [] op = "setrc" /\ ~ram.rc /\ arg # None -> Goto("bind", arg)
         [] op = "setrc" /\ ~ram.rc /\ arg = None -> Return("OK")
         [] op # "setrc" /\ arg = "PW1" -> Goto("retire", "PW3")
         [] op # "setrc" /\ arg = "PW3" -> Goto("retire", "RC")
         [] op = "terminate" /\ arg = "RC" -> Goto("init3", None)
         [] OTHER -> Goto("bind", "PW1")
    /\ UNCHANGED <<ramVars, authVars, faults>>

(* pin_md_kernel_setup refuses a record that is damaged or uncertain. *)
Bind ==
    /\ pc = "bind"
    /\ IF pin[Which].st = "torn" \/ Which \in uncP
         THEN Return("ERR") /\ UNCHANGED chipVars
         ELSE /\ Effect
              /\ CASE op = "setrc" -> Goto("guard1", arg)
                   [] op = "reset" -> Return("OK")
                   [] op \in {"boot", "activate"} /\ arg = "PW1" -> Goto("bind", "PW3")
                   [] op = "boot" /\ arg = "PW3" -> Goto("init3", None)
                   [] OTHER -> Goto("activate", None)
    /\ UNCHANGED <<ramVars, authVars, faults>>

openpgp_state_init ==
    /\ pc = "init3"
    /\ Effect
    /\ loaded' = TRUE /\ ram' = o3rec' /\ unc3' = FALSE
    /\ Return("OK")
    /\ UNCHANGED <<uncP, tries, authVars, faults>>

(* commit(): RAM follows the record. *)
Store ==
    /\ pc \in Stores
    /\ IF StoreAllowed
         THEN /\ Effect
              /\ ram' = StoreValue
              /\ CASE pc = "guard0" /\ arg # None -> Goto("bind", arg)
                   [] pc = "destroy" -> Goto("bind", arg)
                   [] pc = "count" -> Goto("sign", arg)
                   [] OTHER -> Return("OK")
              /\ UNCHANGED authVars
         ELSE Fail /\ UNCHANGED <<chipVars, ram>>
    /\ UNCHANGED <<loaded, unc3, uncP, tries, faults>>

(* openpgp_state_dec_destroy finds nothing to zero. *)
NothingToDestroy ==
    /\ pc = "destroy" /\ usable /\ ram.dec = None
    /\ Goto("bind", arg)
    /\ UNCHANGED <<chipVars, ramVars, authVars, faults>>

(* Keys at work. *)
Generate == pc = "gen" /\ Effect /\ Return("OK") /\ UNCHANGED <<ramVars, authVars, faults>>

Sign ==
    /\ pc = "sign"
    /\ \/ Effect /\ Return("OK")
       \/ ecc["sig"] = None /\ Return("ERR") /\ UNCHANGED chipVars
    /\ UNCHANGED <<ramVars, authVars, faults>>

Authenticate ==
    /\ pc = "authenticate"
    /\ Return(IF ecc["aut"] # None THEN "OK" ELSE "ERR")
    /\ UNCHANGED <<chipVars, ramVars, authVars, faults>>

(* pgp_dec_ecdh: a wrap opens under the KEK it was sealed with only; one   *)
(* that does not, or a failing cipher, ends the PW1 session.               *)
Decipher ==
    /\ pc = "decipher"
    /\ \/ usable /\ ram.dec # None /\ ram.dec = kek /\ Return("OK") /\ UNCHANGED authVars
       \/ usable /\ ram.dec # None /\ Return("ERR") /\ auth_drop(PW1Flags)
       \/ Return("ERR") /\ UNCHANGED authVars
    /\ UNCHANGED <<chipVars, ramVars, faults>>

-----------------------------------------------------------------------------
(* Faults. *)
Fault == faults < MaxFaults /\ faults' = faults + 1

(* rec_pair_write fails before it writes, or in it: then O3 is uncertain. *)
LostStore ==
    /\ Fault
    /\ pc \in Stores
    /\ \/ UNCHANGED <<chipVars, unc3>>
       \/ Interrupted /\ unc3' = TRUE
    /\ Fail
    /\ UNCHANGED <<loaded, ram, uncP, tries>>

(* openpgp_state_load, _clear and _init leave nothing loaded. *)
LostState ==
    /\ Fault
    /\ pc \in {"load", "clear3", "init3"}
    /\ Interrupted
    /\ loaded' = FALSE /\ ram' = Blank
    /\ unc3' \in (IF pc = "load" THEN {unc3, TRUE} ELSE {TRUE})
    /\ Return("ERR")
    /\ UNCHANGED <<uncP, tries, authVars>>

(* A PIN record that is read, cleared or bound; a status becomes ERROR. *)
LostPin ==
    /\ Fault
    /\ pc \in {"stat", "statRC", "try", "tryRC", "retire", "drop", "bind"}
    /\ Interrupted
    /\ uncP' \in (CASE pc = "retire" -> {uncP \ {Which}}
                    [] pc = "drop" -> {uncP \cup {Which}}
                    [] OTHER -> {uncP, uncP \cup {Which}})
    /\ pc = "bind" /\ pin'[Which].st # pin[Which].st => Which \in uncP'
    /\ CASE pc \in {"stat", "statRC"} -> OnStatus("ERROR")
         [] pc \in {"try", "tryRC"} -> OnAttempt("ERR")
         [] OTHER -> Fail
    /\ UNCHANGED <<stateVars, tries>>

LostKey ==
    /\ Fault
    /\ pc \in {"erase", "gen", "sign", "authenticate"}
    /\ Interrupted
    /\ Fail
    /\ UNCHANGED ramVars

PowerUp ==
    /\ loaded' = FALSE /\ ram' = Blank /\ unc3' = FALSE /\ uncP' = {} /\ tries' = 0
    /\ auth' = {} /\ kek' = None
    /\ op' = "none" /\ pc' = "idle" /\ arg' = None /\ touched' = FALSE
    /\ ensured' = FALSE /\ ret' = "none"
    /\ UNCHANGED asked

PowerCut == ~Waiting /\ Fault /\ Interrupted /\ PowerUp
Replug == Waiting /\ PowerUp /\ UNCHANGED <<chipVars, faults>>

-----------------------------------------------------------------------------
(* A chip as delivered. *)
Init ==
    /\ o3 = "absent" /\ o3rec = Blank /\ ecc = [k \in EccKeys |-> None]
    /\ pin = [p \in PinIds |-> NoBinding]
    /\ loaded = FALSE /\ ram = Blank /\ unc3 = FALSE /\ uncP = {} /\ tries = 0
    /\ auth = {} /\ kek = None
    /\ op = "none" /\ pc = "idle" /\ arg = None /\ touched = FALSE /\ ensured = FALSE
    /\ ret = "none"
    /\ lead = 0 /\ perm = FALSE /\ asked = {} /\ faults = 0

Apdu == \/ Refuse \/ handle_select \/ VerifyReset \/ VerifyBadLength \/ handle_verify
        \/ handle_get_data \/ handle_change_ref \/ handle_reset_rc \/ handle_put_data \/ pgp_pin_set_rc
        \/ handle_generate \/ handle_pso_cds \/ handle_pso_dec \/ handle_internal_auth
        \/ handle_terminate_df \/ handle_activate_file
Step == \/ Touch \/ Status \/ Attempt \/ Load \/ Erase \/ openpgp_state_clear \/ Retire
        \/ Drop \/ Bind \/ openpgp_state_init \/ Store \/ NothingToDestroy \/ Generate
        \/ Sign \/ Authenticate \/ Decipher
Environment == \/ openpgp_applet_card_reset \/ LostStore \/ LostState \/ LostPin \/ LostKey
               \/ PowerCut \/ Replug

Next == pgp_lifecycle_ensure \/ Apdu \/ Step \/ Environment

(* A step of the firmware is taken.  An owner who is locked out keeps      *)
(* trying the way out: VERIFY of PW3, TERMINATE (now and then right after  *)
(* a VERIFY that was granted) and ACTIVATE.                                *)
Fairness ==
    /\ WF_vars(Step) /\ WF_vars(pgp_lifecycle_ensure)
    /\ SF_vars(Verify(83)) /\ SF_vars(handle_activate_file)
    /\ SF_vars(handle_terminate_df) /\ SF_vars(handle_terminate_df /\ 83 \in auth)
    /\ SF_vars(pgp_lifecycle_ensure /\ 83 \in auth)

Spec == Init /\ [][Next]_vars
FairSpec == Spec /\ Fairness

-----------------------------------------------------------------------------
(* Types of the chip's objects and of the applet's RAM. *)
TypeOK ==
    /\ o3 \in {"ok", "absent", "torn"} /\ o3rec \in Record
    /\ ecc \in [EccKeys -> Secrets \cup {None}]
    /\ pin \in [PinIds -> Binding]
    /\ loaded \in BOOLEAN /\ ram \in Record /\ unc3 \in BOOLEAN
    /\ uncP \in SUBSET PinIds /\ tries \in 0 .. BootTries
    /\ auth \in SUBSET AllFlags /\ kek \in Secrets \cup {None}
    /\ touched \in BOOLEAN /\ ensured \in BOOLEAN
    /\ lead \in -1 .. 1 /\ perm \in BOOLEAN /\ asked \in SUBSET Codes
    /\ faults \in 0 .. MaxFaults

(* Keys never meet PINs they were not made under, wherever TERMINATE,      *)
(* ACTIVATE, the first boot or a PIN reset is cut or fails: a factory PW3  *)
(* is bound only over erased keys, a new PW1 secret only after the wrap of *)
(* the DEC key is destroyed (pgp_lifecycle_wipe, handle_reset_rc).         *)
KeysOfThisPin ==
    /\ pin["PW3"].st = "ok" => \A k \in EccKeys : ecc[k] \in {None, pin["PW3"].s}
    /\ pin["PW1"].st = "ok" => o3rec.dec \in {None, pin["PW1"].s}

(* What O3 says holds: an OPERATIONAL record that a boot may read has PW1  *)
(* and PW3 behind it, committed and backed by their slots, and under a     *)
(* TERMINATED one no key is left.                                          *)
RecordIsTrue ==
    o3 # "absent" =>
        IF o3rec.lc = "OPERATIONAL"
          THEN \A p \in {"PW1", "PW3"} : pin[p].st = "ok" /\ pin[p].keyed
          ELSE o3rec.dec = None /\ \A k \in EccKeys : ecc[k] = None

(* The only Resetting Code that opens is one the administrator asked for   *)
(* and no later PUT DATA D3 or TERMINATE that answered OK replaced or      *)
(* cleared; rc_set guards the binding through every cut (pgp_pin_set_rc).  *)
OnlyLatestCode ==
    o3 # "absent" /\ o3rec.rc /\ pin["RC"].st # "absent" /\ pin["RC"].keyed =>
        pin["RC"].s \in asked

(* The KEK is there exactly while 81 or 82 is, and is that of the PW1      *)
(* bound now: no change, reset, wipe or bus reset leaves it behind.        *)
KekIsLive ==
    /\ kek # None <=> auth \cap PW1Flags # {}
    /\ kek # None => kek = pin["PW1"].s

(* The counter of DO 93 never shows fewer signatures than the card made:   *)
(* each has an increment of its own, committed before it (handle_pso).     *)
SigsCounted == lead >= 0

(* UIF 02, once written, asks for a touch at every use of a key until *)
(* TERMINATE, over reboots and an O3 that cannot be read.                  *)
PermanentTouch == perm /\ pc \in {"count", "sign", "decipher", "authenticate"} => touched

(* TERMINATE answers OK over an empty card only, and a card is activated   *)
(* or bootstrapped with nothing of the old one: no key, and no code.       *)
WipeErasesAll ==
    /\ ret = "terminate" =>
          /\ \A k \in EccKeys : ecc[k] = None
          /\ \A p \in PinIds : pin[p] = NoBinding
          /\ o3 = "ok" /\ o3rec = Defaults("TERMINATED")
    /\ ret = "activate" =>
          /\ \A k \in EccKeys : ecc[k] = None
          /\ pin["RC"] = NoBinding
          /\ o3 = "ok" /\ o3rec = Defaults("OPERATIONAL")

(* There is always a way out: wherever TERMINATE, ACTIVATE, a boot or a    *)
(* PIN command was cut or failed, an owner who goes on gets an operational *)
(* card again, with PW3 or, once it is blocked or damaged, without.        *)
WayOut == []<>(openpgp_state_lifecycle = "OPERATIONAL")
=============================================================================
