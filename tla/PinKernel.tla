------------------------------ MODULE PinKernel ------------------------------
(***************************************************************************)
(* The MAC-and-Destroy PIN kernel (firmware/src/tropic/pin_md_kernel.c):   *)
(* one PIN is a binding record and one or two ranges of the chip's         *)
(* MAC-and-Destroy (M&D) slots.  Every M&D call and every record call is   *)
(* one step, and each may be cut or lose its reply.                        *)
(*                                                                         *)
(* The record is the atomic one that module RecPair is proved to           *)
(* implement: an interrupted store leaves the old binding or the new one,  *)
(* an interrupted init or clear may leave none.                            *)
(*                                                                         *)
(* An M&D call replaces a slot's key by a digest of its input and answers  *)
(* a digest of the old key, the new one and the slot.  All that the kernel *)
(* does with a slot is decided by whether its key was last made from       *)
(* u = HMAC(s, 1), so a slot is the secret s of that u, or None after any  *)
(* other input (the PIN's v, a random value).                              *)
(***************************************************************************)
EXTENDS Integers

CONSTANTS
    Ranges,     \* ranges of the layout: 2, or 1 for the Resetting Code
    Rounds,     \* slots per range = wrong attempts before BLOCKED
    Pins,       \* PIN materials
    Secrets,    \* the 32-byte secrets s that the chip's random source yields
    None        \* no secret, no PIN

ASSUME RangesAssumption == Ranges \in {1, 2}
ASSUME RoundsAssumption == Rounds \in Nat \ {0}
ASSUME NoneAssumption == None \notin Pins \cup Secrets

VARIABLES
    stored,     \* "ok", "absent", or "limbo": no read is certain to find a record
    rec,        \* the binding record on the chip
    uncertain,  \* RAM: the pair refuses everything until the next boot
    md,         \* the chip's M&D slots: md[range][i]
    op,         \* the kernel call in progress
    pc,         \* its next chip or record call
    stage,      \* "enter"; "again": a change has verified; "committed"
    i,          \* the loop's slot index
    part,       \* the M&D calls made on a slot that is being keyed
    b,          \* RAM: the binding the call works on
    s,          \* RAM: the secret
    pin,        \* the PIN given to verify, and the old one of change
    newPin,     \* the PIN given to setup, and the new one of change
    ret,        \* what the last call answered
    evals,      \* history: PINs evaluated on the chip since the last right one
    acked       \* history: the record was committed and nothing cleared it

chipVars == <<stored, rec, md, evals, acked>>
callVars == <<op, stage, pin, newPin>>
workVars == <<i, part, b, s>>
vars == <<stored, rec, uncertain, md, op, pc, stage, i, part, b, s, pin, newPin,
          ret, evals, acked>>

RangeIds == 0 .. Ranges - 1
SlotIds == 0 .. Rounds - 1

MdCalls == {"retire", "guess", "rekey", "key", "wipe0", "wipe1"}
Stores == {"reserve", "restore", "commit", "unpend"}

Binding == [range : RangeIds, pend : BOOLEAN, next : 0 .. Rounds,
            pin : Pins \cup {None}, s : Secrets \cup {None},
            ci : [SlotIds -> Secrets \cup {None}]]

(* memset(&nb, 0): the tag and ci of no secret. *)
Blank == [range |-> 0, pend |-> FALSE, next |-> 0, pin |-> None, s |-> None,
          ci |-> [k \in SlotIds |-> None]]

Result(o, st) == [op |-> o, st |-> st]

(* The call returns; its secrets are wiped from RAM. *)
Return(st) ==
    /\ pc' = "idle" /\ op' = "none" /\ stage' = "enter"
    /\ ret' = Result(op, st)
    /\ i' = 0 /\ part' = 0
    /\ b' = Blank /\ s' = None /\ pin' = None /\ newPin' = None

-----------------------------------------------------------------------------
(* The M&D call that pc stands for: its slot, and the secret behind its    *)
(* input.  Setting up keys a slot with u, v and u again; a guess sends v;  *)
(* a right guess re-keys with u; retiring and clearing send random data.   *)
MdRange == CASE pc = "retire" -> 1 - b.range
             [] pc = "wipe0" -> 0
             [] pc = "wipe1" -> 1
             [] OTHER -> b.range

MdSlot == IF pc = "guess" THEN b.next - 1 ELSE i

MdInput == IF pc = "rekey" \/ (pc = "key" /\ part # 1) THEN s ELSE None

MacAndDestroy == [md EXCEPT ![MdRange][MdSlot] = MdInput]

MdEffect ==
    /\ md' = MacAndDestroy
    /\ evals' = IF pc = "guess" THEN evals + 1 ELSE evals
    /\ UNCHANGED <<stored, rec, acked>>

(* store(): the record is now b.  A right PIN and a new binding end the    *)
(* count of evaluated PINs.                                                *)
StoreEffect ==
    /\ stored' = "ok"
    /\ rec' = b
    /\ evals' = IF pc \in {"restore", "commit"} THEN 0 ELSE evals
    /\ acked' = (acked \/ pc = "commit")
    /\ UNCHANGED md

-----------------------------------------------------------------------------
(* Mutant: a new binding is keyed into the live range. *)
StartKeyingLive(range, pend) ==
    /\ pc' = "key"
    /\ i' = 0
    /\ part' = 0
    /\ b' = [Blank EXCEPT !.range = rec.range, !.pend = pend, !.pin = newPin, !.s = s]
    /\ UNCHANGED <<s, callVars, ret>>

(* setup_s, once settled: key every slot of the range that the live        *)
(* binding does not use.                                                   *)
StartKeying(range, pend) ==
    /\ pc' = "key"
    /\ i' = 0
    /\ part' = 0
    /\ b' = [Blank EXCEPT !.range = range, !.pend = pend, !.pin = newPin, !.s = s]
    /\ UNCHANGED <<s, callVars, ret>>

(* What a call does with the settled binding c. *)
Settled(c) ==
    \/ /\ op = "status"
       /\ Return(IF c.next >= Rounds THEN "BLOCKED" ELSE "ACTIVE")
    \/ /\ op = "verify" \/ (op = "change" /\ stage = "enter")
       /\ c.next >= Rounds
       /\ Return("BLOCKED")
    \/ /\ op = "verify" \/ (op = "change" /\ stage = "enter")
       /\ c.next < Rounds
       /\ pc' = "reserve"
       /\ b' = [c EXCEPT !.next = @ + 1]
       /\ UNCHANGED <<i, part, s, callVars, ret>>
    \/ /\ op = "setup" \/ (op = "change" /\ stage = "again")
       /\ IF Ranges < 2 THEN Return("ERR") ELSE StartKeying(1 - c.range, TRUE)

(* The call ends as it does for an absent binding. *)
NoBinding ==
    \/ /\ op = "status"
       /\ Return("ABSENT")
    \/ /\ op = "verify" \/ (op = "change" /\ stage = "enter")
       /\ Return("ERR_ABSENT")
    \/ /\ op = "setup" \/ (op = "change" /\ stage = "again")
       /\ StartKeying(0, FALSE)

-----------------------------------------------------------------------------
(* Calls. *)
Enter(o, p, q, first) ==
    /\ op' = o /\ pc' = first /\ stage' = "enter"
    /\ pin' = p /\ newPin' = q
    /\ i' = 0
    /\ ret' = Result(o, "BUSY")
    /\ UNCHANGED <<part, b>>

Start(o, p, q) ==
    /\ pc = "idle"
    /\ Enter(o, p, q, "load")
    /\ UNCHANGED <<s, uncertain, chipVars>>

pin_md_kernel_status == Start("status", None, None)
pin_md_kernel_verify == \E p \in Pins : Start("verify", p, None)

(* A change needs two ranges. *)
pin_md_kernel_change == Ranges = 2 /\ \E p, q \in Pins : Start("change", p, q)

(* A secret in use nowhere: what tropic_random yields never repeats. *)
Fresh(x) ==
    /\ x # rec.s
    /\ \A r \in RangeIds, k \in SlotIds : md[r][k] # x

pin_md_kernel_setup ==
    /\ pc = "idle"
    /\ \E q \in Pins, x \in Secrets :
         /\ Fresh(x)
         /\ s' = x
         /\ Enter("setup", None, q, "load")
    /\ UNCHANGED <<uncertain, chipVars>>

(* Its callers (fido_pin_clear, pgp_pin_set_rc, pgp_pin_clear_all) drop    *)
(* the uncertain flag first: a clear needs no readable record.             *)
pin_md_kernel_clear ==
    /\ pc = "idle"
    /\ uncertain' = FALSE
    /\ acked' = FALSE
    /\ Enter("clear", None, None, "wipe0")
    /\ UNCHANGED <<s, stored, rec, md, evals>>

(* Bad arguments, a one-range change, or no random number for setup. *)
Refuse ==
    /\ pc = "idle"
    /\ \E o \in {"status", "setup", "verify", "change", "clear"} : ret' = Result(o, "ERR")
    /\ UNCHANGED <<uncertain, chipVars, callVars, workVars, pc>>

-----------------------------------------------------------------------------
(* load, then settle when a retirement is pending. *)
Found ==
    /\ stored' = "ok"
    /\ IF rec.pend
         THEN /\ pc' = "retire"
              /\ i' = 0
              /\ b' = rec
              /\ UNCHANGED <<part, s, callVars, ret>>
         ELSE Settled(rec)
    /\ UNCHANGED acked

(* A setup that finds nothing re-keys range A: an earlier binding that a   *)
(* torn clear or init left behind is no longer backed by its slots.        *)
NotFound ==
    /\ NoBinding
    /\ acked' = FALSE
    /\ UNCHANGED stored

LoadError == Return("ERR") /\ UNCHANGED <<stored, acked>>

Load ==
    /\ pc = "load"
    /\ \/ uncertain /\ LoadError
       \/ ~uncertain /\ stored # "absent" /\ Found
       \/ ~uncertain /\ stored # "ok" /\ NotFound
       \/ ~uncertain /\ stored = "limbo" /\ LoadError
    /\ UNCHANGED <<uncertain, rec, md, evals>>

(* The last slot of a range is done. *)
Last == i = Rounds - 1

(* retire(): random data into every slot of the replaced range. *)
Retire ==
    /\ pc = "retire"
    /\ MdEffect
    /\ IF Last
         THEN pc' = "unpend" /\ b' = [b EXCEPT !.pend = FALSE] /\ UNCHANGED i
         ELSE i' = i + 1 /\ UNCHANGED <<pc, b>>
    /\ UNCHANGED <<uncertain, callVars, part, s, ret>>

(* The retirement is recorded: settle() goes on, setup_s succeeds. *)
Unpend ==
    /\ pc = "unpend"
    /\ StoreEffect
    /\ IF stage = "committed" THEN Return("OK") ELSE Settled(b)
    /\ UNCHANGED uncertain

(* Mutant: the attempt is reserved in RAM only. *)
ReserveInRam ==
    /\ pc = "reserve"
    /\ pc' = "guess"
    /\ UNCHANGED <<chipVars, uncertain, callVars, workVars, ret>>

(* verify_s: reserve the attempt, then the M&D call. *)
Reserve ==
    /\ pc = "reserve"
    /\ StoreEffect
    /\ pc' = "guess"
    /\ UNCHANGED <<uncertain, callVars, workVars, ret>>

(* The tag matches when the slot still holds the key that ci was made      *)
(* with and the PIN is the one it was made with.                           *)
Correct(k) == b.ci[k] # None /\ md[b.range][k] = b.ci[k] /\ pin = b.pin

Guess ==
    /\ pc = "guess"
    /\ MdEffect
    /\ IF Correct(b.next - 1)
         THEN /\ pc' = "rekey"
              /\ i' = 0
              /\ s' = b.s
              /\ UNCHANGED <<callVars, part, b, ret>>
         ELSE Return("WRONG")
    /\ UNCHANGED uncertain

Rekey ==
    /\ pc = "rekey"
    /\ MdEffect
    /\ IF Last
         THEN pc' = "restore" /\ b' = [b EXCEPT !.next = 0] /\ UNCHANGED i
         ELSE i' = i + 1 /\ UNCHANGED <<pc, b>>
    /\ UNCHANGED <<uncertain, callVars, part, s, ret>>

(* Mutant: change draws a new secret. *)
RestoreNewSecret ==
    /\ pc = "restore"
    /\ StoreEffect
    /\ IF op = "change"
         THEN /\ pc' = "load"
              /\ stage' = "again"
              /\ s' \in Secrets
              /\ UNCHANGED <<op, pin, newPin, i, part, b, ret>>
         ELSE Return("OK")
    /\ UNCHANGED uncertain

Restore ==
    /\ pc = "restore"
    /\ StoreEffect
    /\ IF op = "change"
         THEN /\ pc' = "load"
              /\ stage' = "again"
              /\ UNCHANGED <<op, pin, newPin, workVars, ret>>
         ELSE Return("OK")
    /\ UNCHANGED uncertain

(* setup_s: M&D(u), w = M&D(v), M&D(u); ci from w, that is, from the key   *)
(* the slot had when v went in.                                            *)
Key ==
    /\ pc = "key"
    /\ MdEffect
    /\ b' = IF part = 1 THEN [b EXCEPT !.ci[i] = md[b.range][i]] ELSE b
    /\ IF part < 2
         THEN part' = part + 1 /\ UNCHANGED <<pc, i>>
         ELSE /\ part' = 0
              /\ IF Last THEN pc' = "commit" /\ UNCHANGED i
                         ELSE i' = i + 1 /\ UNCHANGED pc
    /\ UNCHANGED <<uncertain, callVars, s, ret>>

(* Mutant: success is answered before the old range is retired. *)
CommitAnswersEarly ==
    /\ pc = "commit"
    /\ StoreEffect
    /\ Return("OK")
    /\ UNCHANGED uncertain

Commit ==
    /\ pc = "commit"
    /\ StoreEffect
    /\ IF b.pend
         THEN /\ pc' = "retire"
              /\ i' = 0
              /\ stage' = "committed"
              /\ UNCHANGED <<op, pin, newPin, part, b, s, ret>>
         ELSE Return("OK")
    /\ UNCHANGED uncertain

(* pin_md_kernel_clear: every range, then the record. *)
Wipe ==
    /\ pc \in {"wipe0", "wipe1"}
    /\ MdEffect
    /\ IF Last
         THEN /\ pc' = IF pc = "wipe0" /\ Ranges = 2 THEN "wipe1" ELSE "drop"
              /\ i' = 0
         ELSE i' = i + 1 /\ UNCHANGED pc
    /\ UNCHANGED <<uncertain, callVars, part, b, s, ret>>

Drop ==
    /\ pc = "drop"
    /\ stored' = "absent"
    /\ Return("OK")
    /\ UNCHANGED <<uncertain, rec, md, evals, acked>>

-----------------------------------------------------------------------------
(* A call to the chip that is cut or whose reply is lost: it ran or not;   *)
(* a torn init or clear leaves a record that no read is sure to find.      *)
Interrupted ==
    \/ UNCHANGED chipVars
    \/ pc \in MdCalls /\ MdEffect
    \/ pc \in Stores /\ StoreEffect
    \/ /\ pc = "commit" /\ ~b.pend
       /\ stored' = "limbo"
       /\ \/ UNCHANGED <<rec, evals, acked>>
          \/ rec' = b /\ evals' = 0 /\ acked' = TRUE
       /\ UNCHANGED md
    \/ /\ pc = "drop"
       /\ stored' \in {"limbo", "absent"}
       /\ UNCHANGED <<rec, md, evals, acked>>

(* The kernel returns PMD_ERR and retries nothing.  The pair becomes       *)
(* uncertain unless the failed call only read.                             *)
LostReply ==
    /\ pc # "idle"
    /\ \/ UNCHANGED <<chipVars, uncertain>>
       \/ pc \in MdCalls /\ MdEffect /\ UNCHANGED uncertain
       \/ pc \notin MdCalls /\ Interrupted /\ uncertain' = TRUE
    /\ Return("ERR")

PowerCut ==
    /\ pc # "idle"
    /\ Interrupted
    /\ uncertain' = FALSE
    /\ Return("CUT")

Reboot ==
    /\ pc = "idle"
    /\ uncertain' = FALSE
    /\ ret' = Result("none", "CUT")
    /\ UNCHANGED <<chipVars, callVars, workVars, pc>>

-----------------------------------------------------------------------------
(* A chip as delivered: no record, M&D slots of unknown content. *)
Init ==
    /\ stored = "absent" /\ rec = Blank /\ uncertain = FALSE
    /\ md = [r \in RangeIds |-> [k \in SlotIds |-> None]]
    /\ op = "none" /\ pc = "idle" /\ stage = "enter"
    /\ i = 0 /\ part = 0
    /\ b = Blank /\ s = None /\ pin = None /\ newPin = None
    /\ ret = Result("none", "CUT")
    /\ evals = 0 /\ acked = FALSE

Call == \/ pin_md_kernel_status \/ pin_md_kernel_verify \/ pin_md_kernel_setup
        \/ pin_md_kernel_change \/ pin_md_kernel_clear \/ Refuse
Step == \/ Load \/ Retire \/ Unpend \/ Reserve \/ Guess \/ Rekey \/ Restore
        \/ Key \/ Commit \/ Wipe \/ Drop
Environment == LostReply \/ PowerCut \/ Reboot

Next == Call \/ Step \/ Environment

Spec == Init /\ [][Next]_vars

-----------------------------------------------------------------------------
(* Types of the kernel's RAM and of the chip state it uses. *)
TypeOK ==
    /\ stored \in {"ok", "absent", "limbo"}
    /\ rec \in Binding
    /\ uncertain \in BOOLEAN
    /\ md \in [RangeIds -> [SlotIds -> Secrets \cup {None}]]
    /\ op \in {"none", "status", "verify", "setup", "change", "clear"}
    /\ pc \in {"idle", "load", "drop"} \cup MdCalls \cup Stores
    /\ stage \in {"enter", "again", "committed"}
    /\ i \in SlotIds /\ part \in 0 .. 2
    /\ b \in Binding /\ s \in Secrets \cup {None}
    /\ pin \in Pins \cup {None} /\ newPin \in Pins \cup {None}
    /\ ret \in [op : {"none", "status", "verify", "setup", "change", "clear"},
                st : {"BUSY", "CUT", "OK", "WRONG", "ERR", "BLOCKED", "ABSENT",
                      "ERR_ABSENT", "ACTIVE"}]
    /\ evals \in Nat /\ acked \in BOOLEAN

(* No PIN is evaluated without an attempt that the record has already      *)
(* spent: whatever is cut, lost or repeated, the PINs evaluated since the  *)
(* last right one are at most rounds - attempts left (verify_s reserves in *)
(* both copies before its M&D call, and only a right PIN resets the count).*)
NoFreeGuess == stored = "ok" => evals <= rec.next

(* A binding that was committed always opens: each slot still to be used   *)
(* holds the key its ci was made with.  Wherever setup_s, verify_s or      *)
(* settle stops, the old PIN works before the commit and the new one after.*)
Usable ==
    stored = "ok" /\ acked =>
        \A k \in SlotIds :
            k >= rec.next => md[rec.range][k] = rec.ci[k] /\ rec.ci[k] = rec.s /\ rec.s # None

(* Success only once the replaced range is retired: when setup or change   *)
(* answers OK no slot of the other range is keyed with the secret, and no  *)
(* call but clear succeeds over a pending retirement.                      *)
OldRangeRetired ==
    /\ ret.op \in {"setup", "change"} /\ ret.st = "OK" =>
          \A r \in RangeIds \ {rec.range}, k \in SlotIds : md[r][k] # rec.s
    /\ ret.op # "clear" /\ ret.st \in {"OK", "WRONG", "ACTIVE"} => ~rec.pend

(* The secret that the PIN protects, and so the key k derived from it,     *)
(* changes only in setup: change binds the recovered s to the new PIN.     *)
SecretKept ==
    [][stored = "ok" /\ stored' = "ok" /\ rec'.s # rec.s => op = "setup"]_vars
=============================================================================
