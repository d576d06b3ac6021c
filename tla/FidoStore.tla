------------------------------ MODULE FidoStore ------------------------------
(***************************************************************************)
(* The persistent FIDO state and everything that changes it                *)
(* (firmware/src/fido_hid: slots.c, credstore.c, fido_state.c, pin_md.c):  *)
(* the global record O1, the PIN binding O2, one key and one metadata slot *)
(* per credential, and the chip's signature counter.  Every chip or record *)
(* call is one step; power may be cut before, in or after it, and its      *)
(* reply may be lost.                                                      *)
(*                                                                         *)
(* O1 is an atomic record (module RecPair).  O2 is what PinKernel shows of *)
(* it: "ok", "absent", or "torn" by an interrupted setup or clear, when no *)
(* read is sure what it finds.  A credential is named by the key that was  *)
(* made for it; its metadata carries the same name (the nonce of the       *)
(* credential ID).                                                         *)
(***************************************************************************)
EXTENDS Integers

CONSTANTS
    NSlots,     \* FIDO_SLOTS_MAX
    Keys,       \* names of keys
    None,       \* an empty slot
    Bad,        \* metadata that cannot be read
    MaxCount    \* FIDO_MCOUNTER_MAX

ASSUME NSlotsAssumption == NSlots \in Nat \ {0}
ASSUME KeysAssumption == None \notin Keys /\ Bad \notin Keys /\ None # Bad
ASSUME MaxCountAssumption == MaxCount \in Nat \ {0}

VARIABLES
    o1,         \* chip: "ok", "absent" or "torn"
    o1rec,      \* chip: the record {bitmap, force_uv, pin_bound}
    ecc,        \* chip: the key in each ECC slot
    meta,       \* chip: the metadata of each slot
    pin,        \* chip: the PIN binding, "ok", "absent" or "torn"
    mc,         \* chip: the counter, which counts down; -1 when invalid
    init,       \* RAM: O1 was read (slots.c s_initted)
    ram,        \* RAM: the copy of O1
    unc1,       \* RAM: O1 is uncertain
    unc2,       \* RAM: O2 is uncertain
    booted,     \* RAM: credstore.c s_initted
    op,         \* the operation in progress
    pc,         \* its next chip call
    idx,        \* the slot it works on
    key,        \* the key being made
    repl,       \* the slots that the new credential replaces
    ret,        \* what the last operation answered
    secured,    \* history: the slots whose key has lived under a PIN
    counts,     \* history: the last signCount that each slot's key signed
    live        \* history: credentials registered and not asked to go

chipVars == <<o1, o1rec, ecc, meta, pin, mc, secured, counts, live>>
ramVars == <<init, ram, unc1, unc2, booted>>
callVars == <<op, idx, key, repl>>
vars == <<o1, o1rec, ecc, meta, pin, mc, secured, counts, live, init, ram, unc1, unc2,
          booted, op, pc, idx, key, repl, ret>>

SlotIds == 0 .. NSlots - 1
Global == [bits : SUBSET SlotIds, uv : BOOLEAN, bound : BOOLEAN]
FreshGlobal == [bits |-> {}, uv |-> FALSE, bound |-> FALSE]

slots_usable == init /\ ~unc1
credstore_ready == booted /\ slots_usable /\ ~unc2

Least(S) == CHOOSE x \in S : \A y \in S : x <= y
FreeSlots == SlotIds \ ram.bits

-----------------------------------------------------------------------------
(* The calls that erase a key, erase metadata or write O1, and the value   *)
(* written.                                                                *)
KeyErases == {"wipeKey", "mkErase", "mkUndo", "rpKey", "dlKey"}
MetaErases == {"wipeMeta", "mkMeta", "rpMeta", "dlMeta"}
Stores == {"scrub", "bootGuard", "mkPublish", "dlBit", "spGuard", "uvWrite"}

(* orphan_scrub: a bit goes only when its metadata reads empty. *)
Scrubbed == {k \in ram.bits : meta[k] # None}

StoreValue ==
    CASE pc = "scrub" -> [ram EXCEPT !.bits = Scrubbed]
      [] pc \in {"bootGuard", "spGuard"} -> [ram EXCEPT !.bound = TRUE, !.uv = TRUE]
      [] pc = "mkPublish" -> [ram EXCEPT !.bits = (@ \cup {idx}) \ repl]
      [] pc = "dlBit" -> [ram EXCEPT !.bits = @ \ {idx}]
      [] OTHER -> [ram EXCEPT !.uv = ~@]

EraseKey(k) ==
    /\ ecc' = [ecc EXCEPT ![k] = None]
    /\ secured' = secured \ {k}
    /\ counts' = [counts EXCEPT ![k] = 0]
    /\ UNCHANGED <<o1, o1rec, meta, pin, mc, live>>

(* What the call of pc does to the chip when it runs. *)
Effect ==
    \/ pc \in KeyErases /\ EraseKey(idx)
    \/ /\ pc = "mkGen"
       /\ ecc' = [ecc EXCEPT ![idx] = key]
       /\ secured' = IF pin = "ok" THEN secured \cup {idx} ELSE secured
       /\ UNCHANGED <<o1, o1rec, meta, pin, mc, counts, live>>
    \/ /\ pc \in MetaErases
       /\ meta' = [meta EXCEPT ![idx] = None]
       /\ UNCHANGED <<o1, o1rec, ecc, pin, mc, secured, counts, live>>
    \/ /\ pc = "mkWrite"
       /\ meta' = [meta EXCEPT ![idx] = key]
       /\ UNCHANGED <<o1, o1rec, ecc, pin, mc, secured, counts, live>>
    \/ /\ pc \in Stores
       /\ o1rec' = StoreValue
       /\ live' = IF pc = "mkPublish"
                    THEN (live \ {meta[k] : k \in repl}) \cup {key} ELSE live
       /\ UNCHANGED <<o1, ecc, meta, pin, mc, secured, counts>>
    \/ /\ pc = "initO1"
       /\ o1' = "ok" /\ o1rec' = FreshGlobal
       /\ UNCHANGED <<ecc, meta, pin, mc, secured, counts, live>>
    \/ /\ pc = "wipePin"            \* every M&D slot is retired
       /\ pin' = IF pin = "ok" THEN "torn" ELSE pin
       /\ UNCHANGED <<o1, o1rec, ecc, meta, mc, secured, counts, live>>
    \/ /\ pc = "dropPin"
       /\ pin' = "absent"
       /\ UNCHANGED <<o1, o1rec, ecc, meta, mc, secured, counts, live>>
    \/ /\ pc = "spSetup"
       /\ pin' = "ok"
       /\ secured' = {k \in SlotIds : ecc[k] # None}
       /\ UNCHANGED <<o1, o1rec, ecc, meta, mc, counts, live>>
    \/ /\ pc = "initCtr"
       /\ mc' = MaxCount
       /\ UNCHANGED <<o1, o1rec, ecc, meta, pin, secured, counts, live>>
    \/ /\ pc = "count" /\ mc > 0
       /\ mc' = mc - 1
       /\ UNCHANGED <<o1, o1rec, ecc, meta, pin, secured, counts, live>>

-----------------------------------------------------------------------------
(* How an operation ends or goes on. *)
Return(st) ==
    /\ op' = "none" /\ pc' = "idle" /\ idx' = 0 /\ key' = None /\ repl' = {}
    /\ ret' = [op |-> op, st |-> st]

Goto(p) == pc' = p /\ UNCHANGED <<op, key, repl, ret>>

GotoSlot(p, k) == Goto(p) /\ idx' = k

(* ctap2_make_credential: the keys of the replaced credentials go. *)
NextReplaced ==
    IF repl = {}
      THEN Return("OK")
      ELSE /\ pc' = "rpKey"
           /\ idx' = Least(repl)
           /\ repl' = repl \ {Least(repl)}
           /\ UNCHANGED <<op, key, ret>>

Enter(o, p, k) ==
    /\ pc = "idle"
    /\ op' = o /\ pc' = p /\ idx' = k
    /\ ret' = [op |-> o, st |-> "BUSY"]
    /\ UNCHANGED <<chipVars, unc1>>

-----------------------------------------------------------------------------
(* Operations that ctap2.c dispatches: all but the reset need a validated  *)
(* state.                                                                  *)
credstore_make ==
    /\ credstore_ready /\ FreeSlots # {}
    /\ Enter("make", "mkErase", Least(FreeSlots))
    /\ \E k \in Keys :
         /\ \A i \in SlotIds : ecc[i] # k /\ meta[i] # k
         /\ key' = k
    /\ \A i \in ram.bits : meta[i] \in Keys     \* mc_scan reads them all
    /\ repl' \in SUBSET ram.bits
    /\ UNCHANGED <<init, ram, unc2, booted>>

credstore_erase_slot ==
    /\ credstore_ready
    /\ pc = "idle"
    /\ op' = "erase" /\ pc' = "dlKey"
    /\ \E k \in ram.bits :
         /\ meta[k] \in Keys
         /\ idx' = k
         /\ live' = live \ {meta[k]}
    /\ ret' = [op |-> "erase", st |-> "BUSY"]
    /\ UNCHANGED <<o1, o1rec, ecc, meta, pin, mc, secured, counts, ramVars, key, repl>>

(* fido_pin_set, when the state reads NOT_SET. *)
fido_pin_set ==
    /\ credstore_ready /\ ~ram.bound /\ pin # "ok"
    /\ Enter("setpin", "spSetup", 0)
    /\ UNCHANGED <<init, ram, unc2, booted, key, repl>>

slots_force_uv_set ==
    /\ credstore_ready
    /\ Enter("forceuv", "uvWrite", 0)
    /\ UNCHANGED <<init, ram, unc2, booted, key, repl>>

(* ga_sign_respond: reserve a signCount, then sign. *)
Assertion ==
    /\ credstore_ready
    /\ \E k \in ram.bits : meta[k] \in Keys /\ Enter("sign", "count", k)
    /\ UNCHANGED <<init, ram, unc2, booted, key, repl>>

credstore_factory_reset ==
    /\ pc = "idle"
    /\ booted' = FALSE
    /\ op' = "reset" /\ pc' = "wipeKey" /\ idx' = 0
    /\ live' = {}
    /\ ret' = [op |-> "reset", st |-> "BUSY"]
    /\ UNCHANGED <<o1, o1rec, ecc, meta, pin, mc, secured, counts, init, ram, unc1, unc2,
                   key, repl>>

(* verify and change work on O2 alone: a lost reply leaves it uncertain. *)
PinUse ==
    /\ pc = "idle" /\ credstore_ready /\ pin = "ok"
    /\ unc2' = TRUE
    /\ ret' = [op |-> "pin", st |-> "ERR"]
    /\ UNCHANGED <<chipVars, init, ram, unc1, booted, callVars, pc>>

(* Refused: the state was not validated, or every slot is taken. *)
Refuse ==
    /\ pc = "idle"
    /\ ~credstore_ready \/ FreeSlots = {}
    /\ ret' = [op |-> "make", st |-> "ERR"]
    /\ UNCHANGED <<chipVars, ramVars, callVars, pc>>

-----------------------------------------------------------------------------
(* fido_state_boot: slots_init, ... *)
LoadGlobal ==
    /\ o1' = "ok"
    /\ init' = TRUE
    /\ ram' = o1rec
    /\ GotoSlot(IF {k \in o1rec.bits : meta[k] # None} = o1rec.bits THEN "bootPin" ELSE "scrub", 0)
    /\ UNCHANGED <<o1rec, ecc, meta, pin, mc, secured, counts, live, unc1, unc2, booted>>

BootO1 ==
    /\ pc = "bootO1"
    /\ \/ o1 # "absent" /\ LoadGlobal
       \/ /\ o1 # "ok"                          \* SLOTS_INIT_ABSENT: wipe
          /\ GotoSlot("wipeKey", 0)
          /\ live' = {}
          /\ UNCHANGED <<o1, o1rec, ecc, meta, pin, mc, secured, counts, ramVars>>
       \/ o1 = "torn" /\ Return("ERR") /\ UNCHANGED <<chipVars, ramVars>>

(* ... fido_pin_boot: the guard decides what an absent binding means, ... *)
PinFound ==
    /\ pin' = "ok"
    /\ secured' = IF pin = "ok" THEN secured ELSE {k \in SlotIds : ecc[k] # None}
    /\ GotoSlot(IF ram.bound THEN "bootCtr" ELSE "bootGuard", 0)
    /\ UNCHANGED <<o1, o1rec, ecc, meta, mc, counts, live, ramVars>>

(* Mutant: an absent binding is believed without its guard. *)
BootPinNoGuard ==
    /\ pc = "bootPin"
    /\ \/ pin # "absent" /\ PinFound
       \/ /\ pin # "ok"
          /\ ram' = [ram EXCEPT !.bound = FALSE]
          /\ GotoSlot("bootCtr", 0)
          /\ UNCHANGED <<chipVars, init, unc1, unc2, booted>>
       \/ pin = "torn" /\ Return("ERR") /\ UNCHANGED <<chipVars, ramVars>>

BootPin ==
    /\ pc = "bootPin"
    /\ \/ pin # "absent" /\ PinFound
       \/ /\ pin # "ok"
          /\ IF ram.bound THEN Return("ERR") ELSE GotoSlot("bootCtr", 0)
          /\ UNCHANGED <<chipVars, ramVars>>
       \/ pin = "torn" /\ Return("ERR") /\ UNCHANGED <<chipVars, ramVars>>

(* ... and the counter, which is never initialised because a read failed.  *)
BootCtr ==
    /\ pc = "bootCtr"
    /\ IF mc >= 0
         THEN Return("OK") /\ booted' = TRUE
         ELSE Return("ERR") /\ UNCHANGED booted
    /\ UNCHANGED <<chipVars, init, ram, unc1, unc2>>

(* write_global: RAM follows the record. *)
Store ==
    /\ pc \in Stores
    /\ Effect
    /\ ram' = StoreValue
    /\ CASE pc = "scrub" -> GotoSlot("bootPin", 0)
         [] pc = "bootGuard" -> GotoSlot("bootCtr", 0)
         [] pc = "dlBit" -> GotoSlot("dlMeta", idx)
         [] pc = "mkPublish" -> NextReplaced
         [] OTHER -> Return("OK")
    /\ UNCHANGED <<init, unc1, unc2, booted>>

-----------------------------------------------------------------------------
(* fido_state_wipe: keys first, all of them, then metadata, the PIN, O1    *)
(* and the counter.                                                        *)
WipeSlot ==
    /\ pc \in {"wipeKey", "wipeMeta"}
    /\ Effect
    /\ IF idx < NSlots - 1 THEN GotoSlot(pc, idx + 1)
       ELSE GotoSlot(IF pc = "wipeKey" THEN "wipeMeta" ELSE "wipePin", 0)
    /\ UNCHANGED ramVars

(* fido_pin_clear drops the uncertain flag, slots_init_fresh too. *)
WipePin ==
    /\ pc = "wipePin"
    /\ Effect
    /\ unc2' = FALSE
    /\ GotoSlot("dropPin", 0)
    /\ UNCHANGED <<init, ram, unc1, booted>>

DropPin ==
    /\ pc = "dropPin"
    /\ Effect
    /\ GotoSlot("initO1", 0)
    /\ UNCHANGED ramVars

InitO1 ==
    /\ pc = "initO1"
    /\ Effect
    /\ init' = TRUE /\ ram' = FreshGlobal /\ unc1' = FALSE
    /\ GotoSlot("initCtr", 0)
    /\ UNCHANGED <<unc2, booted>>

InitCtr ==
    /\ pc = "initCtr"
    /\ Effect
    /\ booted' = TRUE
    /\ Return("OK")
    /\ UNCHANGED <<init, ram, unc1, unc2>>

-----------------------------------------------------------------------------
(* credstore_make up to the publishing write, credstore_erase_slot, and    *)
(* the assertion: a slot at a time, one call after the other.              *)
Successor ==
    CASE pc = "mkErase" -> "mkGen"   [] pc = "mkGen" -> "mkMeta"
      [] pc = "mkMeta" -> "mkWrite"  [] pc = "mkWrite" -> "mkPublish"
      [] pc = "rpKey" -> "rpMeta"    [] pc = "dlKey" -> "dlBit"
      [] pc = "spSetup" -> "spGuard" [] pc = "count" -> "sign"

ChipStep ==
    /\ pc \in {"mkErase", "mkGen", "mkMeta", "mkWrite", "rpKey", "dlKey", "spSetup", "count"}
    /\ Effect
    /\ GotoSlot(Successor, idx)
    /\ UNCHANGED ramVars

LastStep ==
    /\ pc \in {"mkUndo", "rpMeta", "dlMeta"}
    /\ Effect
    /\ CASE pc = "rpMeta" -> NextReplaced
         [] pc = "mkUndo" -> Return("ERR")
         [] pc = "dlMeta" -> Return("OK")
    /\ UNCHANGED ramVars

(* Mutant: an exhausted counter signs its last value again. *)
ExhaustedSigns ==
    /\ pc = "count" /\ mc = 0
    /\ GotoSlot("sign", idx)
    /\ UNCHANGED <<chipVars, ramVars>>

(* An exhausted counter refuses: no signature without a new signCount. *)
Exhausted ==
    /\ pc = "count" /\ mc = 0
    /\ Return("ERR")
    /\ UNCHANGED <<chipVars, ramVars>>

Sign ==
    /\ pc = "sign"
    /\ IF ecc[idx] # None
         THEN /\ counts' = [counts EXCEPT ![idx] = MaxCount - mc]
              /\ Return("OK")
         ELSE Return("ERR") /\ UNCHANGED counts
    /\ UNCHANGED <<o1, o1rec, ecc, meta, pin, mc, secured, live, ramVars>>

-----------------------------------------------------------------------------
(* Faults.  A call that is cut or loses its reply ran, or not, or tore.    *)
Torn ==
    \/ /\ pc = "initO1" /\ o1' = "torn"
       /\ (UNCHANGED o1rec \/ o1rec' = FreshGlobal)
       /\ UNCHANGED <<ecc, meta, pin, mc, secured, counts, live>>
    \/ /\ pc = "spSetup" \/ (pc = "dropPin" /\ pin # "absent")
       /\ pin' = "torn"
       /\ UNCHANGED <<o1, o1rec, ecc, meta, mc, secured, counts, live>>
    \/ /\ pc \in MetaErases \cup {"mkWrite"}
       /\ meta' = [meta EXCEPT ![idx] = Bad]
       /\ UNCHANGED <<o1, o1rec, ecc, pin, mc, secured, counts, live>>

Interrupted == UNCHANGED chipVars \/ Effect \/ Torn

(* Mutant: a registration whose publishing write failed erases its key. *)
AbortErasesKey ==
    CASE pc \in {"mkErase", "mkGen", "mkMeta", "mkWrite", "mkPublish"} -> GotoSlot("mkUndo", idx)
      [] pc \in {"rpKey", "rpMeta"} -> NextReplaced
      [] OTHER -> Return("ERR")

(* Mutant: the wipe goes on after a metadata slot that was not erased. *)
AbortSkipsSlot ==
    CASE pc \in {"mkErase", "mkGen", "mkMeta", "mkWrite"} -> GotoSlot("mkUndo", idx)
      [] pc \in {"rpKey", "rpMeta"} -> NextReplaced
      [] pc = "wipeMeta" -> GotoSlot("wipePin", 0)
      [] OTHER -> Return("ERR")

(* Where a failed call leaves the operation: a registration that is not    *)
(* published erases its key, a replaced credential's erase is not retried, *)
(* everything else stops.                                                  *)
Abort ==
    CASE pc \in {"mkErase", "mkGen", "mkMeta", "mkWrite"} -> GotoSlot("mkUndo", idx)
      [] pc \in {"rpKey", "rpMeta"} -> NextReplaced
      [] OTHER -> Return("ERR")

(* Mutant: a failed O1 write leaves the record trusted. *)
LostStoreTrusted ==
    /\ pc \in Stores
    /\ Interrupted
    /\ init' = IF pc = "scrub" THEN FALSE ELSE init
    /\ Abort
    /\ UNCHANGED <<ram, unc1, unc2, booted>>

(* rec_pair_write fails before it writes (its first read got no answer)    *)
(* or in it; only the second leaves the pair uncertain.                    *)
LostStore ==
    /\ pc \in Stores
    /\ \/ UNCHANGED <<chipVars, unc1>>
       \/ Interrupted /\ unc1' = TRUE
    /\ init' = IF pc = "scrub" THEN FALSE ELSE init
    /\ Abort
    /\ UNCHANGED <<ram, unc2, booted>>

LostInit ==
    /\ pc = "initO1"
    /\ Interrupted
    /\ init' = FALSE /\ unc1' = TRUE
    /\ Abort
    /\ UNCHANGED <<ram, unc2, booted>>

(* Reads that repair a pair, and calls of the PIN kernel. *)
LostReply ==
    /\ pc \notin Stores \cup {"idle", "initO1"}
    /\ Interrupted
    /\ unc1' \in (IF pc = "bootO1" THEN BOOLEAN ELSE {unc1})
    /\ unc2' \in (CASE pc \in {"bootPin", "spSetup"} -> BOOLEAN
                    [] pc = "dropPin" -> {TRUE}
                    [] pc = "wipePin" -> {FALSE}
                    [] OTHER -> {unc2})
    /\ pc = "spSetup" /\ pin' # pin => unc2'
    /\ Abort
    /\ UNCHANGED <<init, ram, booted>>

(* A power cycle, in an operation or between two; main.c then boots. *)
PowerCut ==
    /\ Interrupted
    /\ init' = FALSE /\ ram' = FreshGlobal /\ unc1' = FALSE /\ unc2' = FALSE
    /\ booted' = FALSE
    /\ op' = "boot" /\ pc' = "bootO1" /\ idx' = 0 /\ key' = None /\ repl' = {}
    /\ ret' = [op |-> "boot", st |-> "BUSY"]

(* A metadata slot goes bad or reads empty: its credential is lost. *)
Damage ==
    /\ \E k \in SlotIds :
         /\ meta[k] \in Keys
         /\ \E x \in {Bad, None} : meta' = [meta EXCEPT ![k] = x]
         /\ live' = live \ {meta[k]}
    /\ pc = "idle"
    /\ UNCHANGED <<o1, o1rec, ecc, pin, mc, secured, counts, ramVars, callVars, pc, ret>>

(* Both copies of the PIN binding read empty, though setPin has finished.  *)
LosePin ==
    /\ pc = "idle"
    /\ pin = "ok" /\ o1 = "ok" /\ o1rec.bound
    /\ pin' = "absent"
    /\ UNCHANGED <<o1, o1rec, ecc, meta, mc, secured, counts, live, ramVars, callVars, pc, ret>>

-----------------------------------------------------------------------------
Init ==
    /\ o1 = "absent" /\ o1rec = FreshGlobal
    /\ ecc = [k \in SlotIds |-> None] /\ meta = [k \in SlotIds |-> None]
    /\ pin = "absent" /\ mc = -1
    /\ init = FALSE /\ ram = FreshGlobal /\ unc1 = FALSE /\ unc2 = FALSE /\ booted = FALSE
    /\ op = "boot" /\ pc = "bootO1" /\ idx = 0 /\ key = None /\ repl = {}
    /\ ret = [op |-> "boot", st |-> "BUSY"]
    /\ secured = {} /\ counts = [k \in SlotIds |-> 0] /\ live = {}

Operation == \/ credstore_make \/ credstore_erase_slot \/ fido_pin_set \/ slots_force_uv_set
             \/ Assertion \/ credstore_factory_reset \/ PinUse \/ Refuse
Step == \/ BootO1 \/ BootPin \/ BootCtr \/ Store \/ WipeSlot \/ WipePin \/ DropPin
        \/ InitO1 \/ InitCtr \/ ChipStep \/ LastStep \/ Exhausted \/ Sign
Environment == LostStore \/ LostInit \/ LostReply \/ PowerCut \/ Damage \/ LosePin

Next == Operation \/ Step \/ Environment

Spec == Init /\ [][Next]_vars

-----------------------------------------------------------------------------
(* Types of the chip's objects and of the RAM of slots.c and credstore.c;  *)
(* every slot number stays below FIDO_SLOTS_MAX.                           *)
TypeOK ==
    /\ o1 \in {"ok", "absent", "torn"} /\ o1rec \in Global
    /\ ecc \in [SlotIds -> Keys \cup {None}]
    /\ meta \in [SlotIds -> Keys \cup {None, Bad}]
    /\ pin \in {"ok", "absent", "torn"} /\ mc \in -1 .. MaxCount
    /\ init \in BOOLEAN /\ ram \in Global
    /\ unc1 \in BOOLEAN /\ unc2 \in BOOLEAN /\ booted \in BOOLEAN
    /\ idx \in SlotIds /\ key \in Keys \cup {None} /\ repl \in SUBSET SlotIds
    /\ secured \in SUBSET SlotIds /\ live \in SUBSET Keys
    /\ counts \in [SlotIds -> 0 .. MaxCount]

(* A credential never signs with another one's key: in every published     *)
(* slot the key, if there is one, is the one its metadata was written for, *)
(* after any sequence of cut registrations, replacements and deletions.    *)
OwnKey ==
    o1 # "absent" =>
        \A k \in o1rec.bits : ecc[k] # None /\ meta[k] \in Keys => ecc[k] = meta[k]

(* A registered credential stays until it is deleted, replaced or reset:   *)
(* published, readable and with its key, whatever is cut or lost in other  *)
(* operations.  A replacement takes effect in one bitmap write.            *)
Survives ==
    \A c \in live : \E k \in SlotIds :
        /\ meta[k] = c /\ ecc[k] = c
        /\ o1 # "absent" /\ k \in o1rec.bits

(* Never credentials without the PIN: while fido_pin_state may answer      *)
(* NOT_SET, no key that has lived under a PIN is left on the chip.         *)
NeverUnprotected == credstore_ready /\ ~ram.bound /\ pin # "ok" => secured = {}

(* credstore_factory_reset answers OK only over a chip with nothing left   *)
(* of the old state, whatever earlier wipes were cut or failed.            *)
ResetErasesAll ==
    ret.op = "reset" /\ ret.st = "OK" =>
        /\ \A k \in SlotIds : ecc[k] = None /\ meta[k] = None
        /\ o1 = "ok" /\ o1rec = FreshGlobal
        /\ pin = "absent" /\ mc = MaxCount

(* The signCount of a key only grows, across cuts, lost replies and a      *)
(* re-initialised counter: a value is reserved before it is signed.        *)
SignCountGrows ==
    [][pc = "sign" /\ ret'.st = "OK" => counts'[idx] > counts[idx]]_vars
=============================================================================
