--------------------------- MODULE FidoStoreProofs ---------------------------
(***************************************************************************)
(* Proofs about the FIDO state of FidoStore, for any number of slots and   *)
(* keys, any counter, and any number of cuts and lost replies.             *)
(***************************************************************************)
EXTENDS FidoStore, TLAPS, WellFoundedInduction

-----------------------------------------------------------------------------
(* The inductive invariant. *)

MakePcs == {"mkErase", "mkGen", "mkMeta", "mkWrite", "mkPublish"}
ReplacePcs == {"rpKey", "rpMeta"}
DeletePcs == {"dlKey", "dlBit", "dlMeta"}
WipePcs == {"wipeKey", "wipeMeta", "wipePin", "dropPin", "initO1", "initCtr"}

(* TypeOK in three parts: the chip, the call, the flags. *)
Chip ==
    /\ o1 \in {"ok", "absent", "torn"} /\ o1rec \in Global
    /\ ecc \in [SlotIds -> Keys \cup {None}]
    /\ meta \in [SlotIds -> Keys \cup {None, Bad}]
    /\ pin \in {"ok", "absent", "torn"} /\ mc \in -1 .. MaxCount
    /\ secured \in SUBSET SlotIds /\ live \in SUBSET Keys
    /\ counts \in [SlotIds -> 0 .. MaxCount]

Call ==
    /\ ram \in Global
    /\ idx \in SlotIds /\ key \in Keys \cup {None} /\ repl \in SUBSET SlotIds

Flags == init \in BOOLEAN /\ unc1 \in BOOLEAN /\ unc2 \in BOOLEAN /\ booted \in BOOLEAN

(* What holds of the chip between any two of its calls.  A key is under a  *)
(* PIN only while it exists; a chip on which the PIN may read as not set,  *)
(* with no guard, has no such key; no signCount is ahead of the counter.   *)
Keyed == \A k \in secured : ecc[k] # None
Guarded == pin # "ok" /\ ~o1rec.bound => secured = {}
Counted == \A k \in SlotIds : counts[k] <= MaxCount - mc

Safe == Chip /\ OwnKey /\ Survives /\ Keyed /\ Guarded /\ Counted

(* The RAM copy of O1 is the record while it is trusted, and every call    *)
(* that depends on it is made while it is.                                 *)
RamIsChip == init /\ ~unc1 => o1 = "ok" /\ ram = o1rec

Trusted ==
    /\ pc \in Stores \cup MakePcs \cup ReplacePcs \cup DeletePcs \cup {"mkUndo", "bootPin", "spSetup"}
         => init /\ ~unc1
    /\ pc = "bootO1" => ~unc1

(* A registration works on a free slot, on its own key and metadata.  *)
Making ==
    /\ pc \in MakePcs =>
         key \in Keys /\ idx \notin ram.bits /\ repl \subseteq ram.bits
    /\ pc \in {"mkMeta", "mkWrite", "mkPublish"} => ecc[idx] = key
    /\ pc = "mkPublish" => meta[idx] = key
    /\ pc = "mkUndo" => idx \notin ram.bits

(* What is erased has been withdrawn before. *)
Replacing == pc \in ReplacePcs => idx \notin ram.bits /\ repl \cap ram.bits = {}
Deleting == pc \in DeletePcs => meta[idx] \notin live

(* How far a wipe has come. *)
Wiping ==
    /\ pc \in WipePcs => live = {}
    /\ pc = "wipeKey" => \A k \in SlotIds : k < idx => ecc[k] = None /\ counts[k] = 0
    /\ pc \in WipePcs \ {"wipeKey"} => \A k \in SlotIds : ecc[k] = None /\ counts[k] = 0
    /\ pc = "wipeMeta" => \A k \in SlotIds : k < idx => meta[k] = None
    /\ pc \in WipePcs \ {"wipeKey", "wipeMeta"} => \A k \in SlotIds : meta[k] = None
    /\ pc \in {"initO1", "initCtr"} => pin = "absent"
    /\ pc = "initCtr" => o1 = "ok" /\ o1rec = FreshGlobal

Setting == pc = "spSetup" => ~ram.bound /\ pin # "ok"
Signing == pc = "sign" => mc >= 0 /\ \A k \in SlotIds : counts[k] < MaxCount - mc

(* A reset is in its wipe; an answer is given when the call is over. *)
Phase ==
    /\ op = "reset" => pc \in WipePcs
    /\ ret.st = "OK" => pc = "idle"

Control ==
    /\ Call /\ RamIsChip /\ Trusted /\ Making /\ Replacing /\ Deleting /\ Wiping
    /\ Setting /\ Signing /\ Phase /\ ResetErasesAll

Inv == Safe /\ Control

-----------------------------------------------------------------------------
(* A set of slots has a least one. *)
LEMMA LeastIn == ASSUME NEW S \in SUBSET Nat, S # {} PROVE Least(S) \in S
<1> DEFINE R == OpToRel(<, Nat)
<1>1. IsWellFoundedOn(R, Nat)
  BY NatLessThanWellFounded
<1>2. \A a, b \in Nat : a < b => <<a, b>> \in R
  BY Zenon DEF OpToRel
<1> HIDE DEF R
<1>3. PICK x \in S : \A y \in S : ~(<<y, x>> \in R)
  BY <1>1, WFMin
<1>4. ASSUME NEW y \in S PROVE x <= y
  <2>1. x \in Nat /\ y \in Nat /\ ~(<<y, x>> \in R)
    BY <1>3
  <2>2. ~(y < x)
    BY <1>2, <2>1
  <2> QED
    BY <2>1, <2>2
<1> QED
  BY <1>4 DEF Least

LEMMA Slots == 0 \in SlotIds /\ SlotIds \subseteq Nat
  BY NSlotsAssumption DEF SlotIds

LEMMA FreshFacts == FreshGlobal \in Global /\ FreshGlobal.bits = {} /\ ~FreshGlobal.bound
  BY DEF FreshGlobal, Global

-----------------------------------------------------------------------------
(* The calls of the chip. *)

(* Erasing the key of a slot that is not published, or is being deleted or *)
(* wiped.                                                                  *)
LEMMA EraseKeyStep ==
    ASSUME Inv, pc \in KeyErases, EraseKey(idx)
    PROVE  Safe'
<1>1. idx \in SlotIds
  BY DEF Inv, Control, Call
<1>2. Chip'
  <2>1. ecc' \in [SlotIds -> Keys \cup {None}] /\ secured' \in SUBSET SlotIds
    BY DEF EraseKey, Inv, Safe, Chip
  <2>2. counts' \in [SlotIds -> 0 .. MaxCount]
    <3>1. 0 \in 0 .. MaxCount /\ counts \in [SlotIds -> 0 .. MaxCount]
      BY MaxCountAssumption DEF Inv, Safe, Chip
    <3>2. counts' = [counts EXCEPT ![idx] = 0]
      BY DEF EraseKey
    <3> QED
      BY <3>1, <3>2
  <2> QED
    BY <2>1, <2>2 DEF EraseKey, Inv, Safe, Chip
<1>3. /\ \A k \in SlotIds : k # idx => ecc'[k] = ecc[k]
      /\ ecc'[idx] = None
      /\ \A k \in SlotIds : counts'[k] = counts[k] \/ counts'[k] = 0
  BY <1>1 DEF EraseKey, Inv, Safe, Chip
<1>4. OwnKey'
  BY <1>1, <1>3 DEF EraseKey, Inv, Safe, OwnKey, Chip, Global
<1>5. \A c \in live, k \in SlotIds : k = idx => ~(meta[k] = c /\ ecc[k] = c /\ o1 # "absent" /\ k \in o1rec.bits)
  BY DEF KeyErases, Inv, Control, RamIsChip, Trusted, Making, Replacing, Deleting, Wiping,
         MakePcs, ReplacePcs, DeletePcs, WipePcs
<1>6. Survives'
  BY <1>3, <1>5 DEF EraseKey, Inv, Safe, Survives
<1>7. Keyed' /\ Guarded'
  BY <1>3 DEF EraseKey, Inv, Safe, Keyed, Guarded, Chip
<1>8. Counted'
  BY <1>3, MaxCountAssumption DEF EraseKey, Inv, Safe, Counted, Chip
<1> QED
  BY <1>2, <1>4, <1>6, <1>7, <1>8 DEF Safe

LEMMA GenStep ==
    ASSUME Inv, pc = "mkGen", Effect
    PROVE  Safe' /\ ecc'[idx] = key
<1>1. /\ idx \in SlotIds /\ key \in Keys /\ idx \notin o1rec.bits /\ o1 = "ok"
  BY DEF Inv, Control, Call, Making, Trusted, RamIsChip, MakePcs
<1>2. /\ ecc' = [ecc EXCEPT ![idx] = key]
      /\ secured' = IF pin = "ok" THEN secured \cup {idx} ELSE secured
      /\ UNCHANGED <<o1, o1rec, meta, pin, mc, counts, live>>
  BY DEF Effect, KeyErases, MetaErases, Stores
<1>3. Chip'
  BY <1>1, <1>2 DEF Inv, Safe, Chip
<1>4. (\A k \in SlotIds : k # idx => ecc'[k] = ecc[k]) /\ ecc'[idx] = key
  BY <1>1, <1>2 DEF Inv, Safe, Chip
<1>5. OwnKey' /\ Survives'
  BY <1>1, <1>2, <1>4 DEF Inv, Safe, OwnKey, Survives, Chip, Global
<1>6. Keyed' /\ Guarded' /\ Counted'
  BY <1>1, <1>2, <1>4, KeysAssumption DEF Inv, Safe, Keyed, Guarded, Counted, Chip
<1> QED
  BY <1>3, <1>4, <1>5, <1>6 DEF Safe

(* Metadata is erased, written or torn in a slot that carries no living    *)
(* credential.                                                             *)
LEMMA MetaStep ==
    ASSUME Inv, pc \in MetaErases \cup {"mkWrite"},
           NEW x \in Keys \cup {None, Bad}, x \in {None, Bad} \/ pc = "mkWrite",
           meta' = [meta EXCEPT ![idx] = x],
           UNCHANGED <<o1, o1rec, ecc, pin, mc, secured, counts, live>>
    PROVE  Safe' /\ meta'[idx] = x /\ \A k \in SlotIds : k # idx => meta'[k] = meta[k]
<1>1. idx \in SlotIds
  BY DEF Inv, Control, Call
<1>2. Chip'
  BY DEF Inv, Safe, Chip
<1>3. (\A k \in SlotIds : k # idx => meta'[k] = meta[k]) /\ meta'[idx] = x
  BY <1>1 DEF Inv, Safe, Chip
<1>4. pc = "mkWrite" => idx \notin o1rec.bits
  BY DEF Inv, Control, Making, Trusted, RamIsChip, MakePcs
<1>5. OwnKey'
  BY <1>3, <1>4, KeysAssumption DEF Inv, Safe, OwnKey, Chip, Global
<1>6. \A c \in live : ~(meta[idx] = c /\ o1 # "absent" /\ idx \in o1rec.bits)
  BY DEF MetaErases, Inv, Control, RamIsChip, Trusted, Making, Replacing, Deleting, Wiping,
         MakePcs, ReplacePcs, DeletePcs, WipePcs
<1>7. Survives'
  BY <1>3, <1>6 DEF Inv, Safe, Survives
<1>8. Keyed' /\ Guarded' /\ Counted'
  BY DEF Inv, Safe, Keyed, Guarded, Counted
<1> QED
  BY <1>2, <1>3, <1>5, <1>7, <1>8 DEF Safe

(* What a write of O1 puts there. *)
LEMMA StoreFacts ==
    ASSUME Inv, pc \in Stores
    PROVE  /\ o1 = "ok" /\ ram = o1rec /\ StoreValue \in Global
           /\ o1rec.bound => StoreValue.bound
           /\ pc = "scrub" => StoreValue.bits = {k \in o1rec.bits : meta[k] # None}
           /\ pc = "mkPublish" => StoreValue.bits = (o1rec.bits \cup {idx}) \ repl
           /\ pc = "dlBit" => StoreValue.bits = o1rec.bits \ {idx}
           /\ pc \notin {"scrub", "mkPublish", "dlBit"} => StoreValue.bits = o1rec.bits
<1>1. o1 = "ok" /\ ram = o1rec /\ ram \in Global /\ idx \in SlotIds
  BY DEF Inv, Control, Call, Trusted, RamIsChip
<1>2. CASE pc = "scrub"
  BY <1>1, <1>2 DEF StoreValue, Scrubbed, Global
<1>3. CASE pc \in {"bootGuard", "spGuard"}
  BY <1>1, <1>3 DEF StoreValue, Global
<1>4. CASE pc = "mkPublish"
  BY <1>1, <1>4 DEF StoreValue, Global
<1>5. CASE pc = "dlBit"
  BY <1>1, <1>5 DEF StoreValue, Global
<1>6. CASE pc = "uvWrite"
  BY <1>1, <1>6 DEF StoreValue, Global
<1> QED
  BY <1>2, <1>3, <1>4, <1>5, <1>6 DEF Stores

(* O1 is written: the publishing write brings in the new credential and    *)
(* takes out the replaced ones at once.                                    *)
LEMMA StoreStep ==
    ASSUME Inv, pc \in Stores, Effect
    PROVE  Safe' /\ o1rec' = StoreValue /\ UNCHANGED <<o1, ecc, meta, pin, mc, secured, counts>>
<1>1. /\ o1rec' = StoreValue
      /\ live' = IF pc = "mkPublish" THEN (live \ {meta[k] : k \in repl}) \cup {key} ELSE live
      /\ UNCHANGED <<o1, ecc, meta, pin, mc, secured, counts>>
  BY DEF Effect, KeyErases, MetaErases, Stores
<1>2. /\ pc = "mkPublish" => /\ key \in Keys /\ idx \notin ram.bits /\ repl \subseteq ram.bits
                             /\ ecc[idx] = key /\ meta[idx] = key
      /\ idx \in SlotIds
  BY DEF Inv, Control, Call, Making, MakePcs
<1>3. Chip'
  BY <1>1, <1>2, StoreFacts DEF Inv, Safe, Chip
<1>4. OwnKey'
  BY <1>1, <1>2, StoreFacts DEF Inv, Safe, OwnKey, Stores
<1>5. Survives'
  <2>1. CASE pc = "mkPublish"
    <3>1. ASSUME NEW c \in live', c # key PROVE \E k \in SlotIds :
            meta'[k] = c /\ ecc'[k] = c /\ o1' # "absent" /\ k \in o1rec'.bits
      <4>1. c \in live /\ \A k \in repl : meta[k] # c
        BY <1>1, <2>1, <3>1
      <4>2. PICK k \in SlotIds : meta[k] = c /\ ecc[k] = c /\ o1 # "absent" /\ k \in o1rec.bits
        BY <4>1 DEF Inv, Safe, Survives
      <4>3. k \in o1rec'.bits
        BY <1>1, <2>1, <4>1, <4>2, StoreFacts
      <4> QED
        BY <1>1, <4>2, <4>3
    <3>2. meta'[idx] = key /\ ecc'[idx] = key /\ o1' # "absent" /\ idx \in o1rec'.bits
      BY <1>1, <1>2, <2>1, StoreFacts
    <3> QED
      BY <1>2, <3>1, <3>2 DEF Survives
  <2>2. CASE pc = "scrub"
    BY <1>1, <2>2, StoreFacts, KeysAssumption DEF Inv, Safe, Survives, Chip
  <2>3. CASE pc = "dlBit"
    BY <1>1, <2>3, StoreFacts DEF Inv, Safe, Survives, Control, Deleting, DeletePcs
  <2>4. CASE pc \notin {"scrub", "mkPublish", "dlBit"}
    BY <1>1, <2>4, StoreFacts DEF Inv, Safe, Survives
  <2> QED
    BY <2>1, <2>2, <2>3, <2>4
<1>6. Keyed' /\ Guarded' /\ Counted'
  BY <1>1, StoreFacts DEF Inv, Safe, Keyed, Guarded, Counted
<1> QED
  BY <1>1, <1>3, <1>4, <1>5, <1>6 DEF Safe

(* O1 is created, or its creation tears: over a wiped chip. *)
LEMMA InitO1Step ==
    ASSUME Inv, pc = "initO1", o1' \in {"ok", "torn"}, o1rec' \in {o1rec, FreshGlobal},
           UNCHANGED <<ecc, meta, pin, mc, secured, counts, live>>
    PROVE  Safe'
<1>1. live = {} /\ \A k \in SlotIds : ecc[k] = None
  BY DEF Inv, Control, Wiping, WipePcs
<1>2. secured = {}
  BY <1>1 DEF Inv, Safe, Keyed, Chip
<1>3. Chip'
  BY FreshFacts DEF Inv, Safe, Chip
<1>4. OwnKey' /\ Survives'
  BY <1>1, <1>3 DEF OwnKey, Survives, Chip, Global
<1>5. Keyed' /\ Guarded' /\ Counted'
  BY <1>2 DEF Inv, Safe, Keyed, Guarded, Counted
<1> QED
  BY <1>3, <1>4, <1>5 DEF Safe

(* The PIN binding goes or tears: on a wiped chip, or before the first PIN *)
(* has been set.                                                           *)
LEMMA PinGoesStep ==
    ASSUME Inv, pc \in {"wipePin", "dropPin", "spSetup"}, pin' \in {"ok", "absent", "torn"},
           UNCHANGED <<o1, o1rec, ecc, meta, mc, secured, counts, live>>
    PROVE  Safe'
<1>1. secured = {}
  <2>1. CASE pc \in {"wipePin", "dropPin"}
    BY <2>1 DEF Inv, Control, Wiping, WipePcs, Safe, Keyed, Chip
  <2>2. CASE pc = "spSetup"
    BY <2>2 DEF Inv, Control, Setting, Trusted, RamIsChip, Safe, Guarded
  <2> QED
    BY <2>1, <2>2
<1>2. Chip'
  BY DEF Inv, Safe, Chip
<1>3. OwnKey' /\ Survives' /\ Keyed' /\ Guarded' /\ Counted'
  BY <1>1 DEF Inv, Safe, OwnKey, Survives, Keyed, Guarded, Counted
<1> QED
  BY <1>2, <1>3 DEF Safe

(* A PIN is set or found: every key on the chip lives under it now. *)
LEMMA PinComesStep ==
    ASSUME Inv, pin' = "ok", secured' \in {secured, {k \in SlotIds : ecc[k] # None}},
           o1' \in {"ok", "torn"}, o1 # "absent",
           UNCHANGED <<o1rec, ecc, meta, mc, counts, live>>
    PROVE  Safe'
<1>1. Chip'
  BY DEF Inv, Safe, Chip
<1>2. OwnKey' /\ Survives' /\ Keyed' /\ Guarded' /\ Counted'
  BY DEF Inv, Safe, OwnKey, Survives, Keyed, Guarded, Counted
<1> QED
  BY <1>1, <1>2 DEF Safe

(* The counter starts over a chip without keys, and counts down. *)
LEMMA CounterStep ==
    ASSUME Inv, \/ pc = "initCtr" /\ mc' = MaxCount
                \/ pc = "count" /\ mc > 0 /\ mc' = mc - 1,
           UNCHANGED <<o1, o1rec, ecc, meta, pin, secured, counts, live>>
    PROVE  Safe' /\ (pc = "count" => mc' >= 0 /\ \A k \in SlotIds : counts[k] < MaxCount - mc')
<1>1. mc' \in -1 .. MaxCount
  BY MaxCountAssumption DEF Inv, Safe, Chip
<1>2. Chip'
  BY <1>1 DEF Inv, Safe, Chip
<1>3. \A k \in SlotIds : counts[k] \in 0 .. MaxCount
  BY DEF Inv, Safe, Chip
<1>4. CASE pc = "initCtr" /\ mc' = MaxCount
  <2>1. Counted'
    BY <1>4, MaxCountAssumption DEF Inv, Control, Wiping, WipePcs, Counted
  <2> QED
    BY <1>2, <1>4, <2>1 DEF Inv, Safe, OwnKey, Survives, Keyed, Guarded
<1>5. CASE pc = "count" /\ mc > 0 /\ mc' = mc - 1
  <2>1. mc \in 1 .. MaxCount
    BY <1>5, MaxCountAssumption DEF Inv, Safe, Chip
  <2>2. \A k \in SlotIds : counts[k] < MaxCount - mc'
    BY <1>3, <1>5, <2>1, MaxCountAssumption DEF Inv, Safe, Counted
  <2>3. Counted'
    BY <1>3, <1>5, <2>1, <2>2, MaxCountAssumption DEF Counted
  <2> QED
    BY <1>2, <1>5, <2>1, <2>2, <2>3 DEF Inv, Safe, OwnKey, Survives, Keyed, Guarded
<1> QED
  BY <1>4, <1>5

LEMMA UntouchedStep ==
    ASSUME Inv, UNCHANGED <<o1rec, ecc, meta, pin, mc, secured, counts>>,
           live' \in {live, {}}, o1' = o1 \/ (o1 # "absent" /\ o1' = "ok")
    PROVE  Safe'
<1>1. Chip'
  BY DEF Inv, Safe, Chip
<1>2. OwnKey' /\ Survives' /\ Keyed' /\ Guarded' /\ Counted'
  BY DEF Inv, Safe, OwnKey, Survives, Keyed, Guarded, Counted
<1> QED
  BY <1>1, <1>2 DEF Safe

(* A call that runs, tears or does nothing leaves a safe chip: the state   *)
(* that a power cut at this point leaves to the next boot.                 *)
LEMMA EffectStep == ASSUME Inv, Effect PROVE Safe'
<1>1. CASE pc \in KeyErases
  BY <1>1, EraseKeyStep DEF Effect, KeyErases, MetaErases, Stores
<1>2. CASE pc = "mkGen"
  BY <1>2, GenStep
<1>3. CASE pc \in MetaErases
  BY <1>3, MetaStep DEF Effect, KeyErases, MetaErases, Stores
<1>4. CASE pc = "mkWrite"
  <2>1. key \in Keys
    BY <1>4 DEF Inv, Control, Making, MakePcs
  <2> QED
    BY <1>4, <2>1, MetaStep DEF Effect, KeyErases, MetaErases, Stores
<1>5. CASE pc \in Stores
  BY <1>5, StoreStep
<1>6. CASE pc = "initO1"
  BY <1>6, InitO1Step DEF Effect, KeyErases, MetaErases, Stores
<1>7. CASE pc \in {"wipePin", "dropPin"}
  <2>1. pin \in {"ok", "absent", "torn"}
    BY DEF Inv, Safe, Chip
  <2> QED
    BY <1>7, <2>1, PinGoesStep DEF Effect, KeyErases, MetaErases, Stores
<1>8. CASE pc = "spSetup"
  <2>1. o1 = "ok"
    BY <1>8 DEF Inv, Control, Trusted, RamIsChip
  <2> QED
    BY <1>8, <2>1, PinComesStep DEF Effect, KeyErases, MetaErases, Stores
<1>9. CASE pc \in {"initCtr", "count"}
  BY <1>9, CounterStep DEF Effect, KeyErases, MetaErases, Stores
<1> QED
  BY <1>1, <1>2, <1>3, <1>4, <1>5, <1>6, <1>7, <1>8, <1>9 DEF Effect

LEMMA InterruptedStep == ASSUME Inv, Interrupted PROVE Safe'
<1>1. CASE UNCHANGED chipVars
  BY <1>1, UntouchedStep DEF chipVars
<1>2. CASE Torn
  BY <1>2, InitO1Step, PinGoesStep, MetaStep DEF Torn
<1> QED
  BY <1>1, <1>2, EffectStep DEF Interrupted

(* Which calls reach O1, and which reach the keys, the metadata and the    *)
(* counters.                                                               *)
LEMMA Elsewhere ==
    ASSUME Interrupted, pc \notin Stores \cup {"initO1"}
    PROVE  UNCHANGED <<o1, o1rec>>
  BY DEF Interrupted, Effect, Torn, chipVars, EraseKey, Stores, MetaErases, KeyErases

-----------------------------------------------------------------------------
(* Where an operation goes on. *)

(* It ends. *)
LEMMA ReturnStep ==
    ASSUME Inv, NEW st, Return(st), ram' \in Global, RamIsChip',
           op = "reset" /\ st = "OK" => ResetErasesAll'
    PROVE  Control'
<1>1. Call'
  BY Slots DEF Return, Call
<1>2. Trusted' /\ Making' /\ Replacing' /\ Deleting' /\ Wiping' /\ Setting' /\ Signing' /\ Phase'
  BY DEF Return, Trusted, Making, Replacing, Deleting, Wiping, Setting, Signing, Phase,
         Stores, MakePcs, ReplacePcs, DeletePcs, WipePcs
<1>3. ResetErasesAll'
  BY DEF Return, ResetErasesAll
<1> QED
  BY <1>1, <1>2, <1>3 DEF Control

(* The next call of the same operation: the answer is still to come. *)
LEMMA BusyStep ==
    ASSUME Inv, pc # "idle", UNCHANGED <<op, ret>>, op = "reset" => pc' \in WipePcs
    PROVE  Phase' /\ ResetErasesAll'
  BY DEF Inv, Control, Phase, ResetErasesAll

(* The next credential that a registration replaces. *)
LEMMA NextReplacedStep ==
    ASSUME Inv, pc \in ReplacePcs \cup {"mkPublish"}, NextReplaced,
           ram' \in Global, RamIsChip', init' /\ ~unc1', repl \cap ram'.bits = {}
    PROVE  Control'
<1>1. op # "reset" /\ repl \in SUBSET SlotIds /\ key \in Keys \cup {None}
  BY DEF Inv, Control, Call, Phase, ReplacePcs, WipePcs
<1>2. CASE repl = {}
  BY <1>1, <1>2, ReturnStep DEF NextReplaced
<1>3. CASE repl # {}
  <2>1. /\ pc' = "rpKey" /\ idx' = Least(repl) /\ repl' = repl \ {Least(repl)}
        /\ UNCHANGED <<op, key, ret>>
    BY <1>3 DEF NextReplaced
  <2>2. Least(repl) \in repl
    BY <1>1, <1>3, LeastIn, Slots
  <2>3. Call' /\ Replacing'
    BY <1>1, <2>1, <2>2 DEF Call, Replacing
  <2>4. Trusted' /\ Making' /\ Deleting' /\ Wiping' /\ Setting' /\ Signing'
    BY <2>1 DEF Trusted, Making, Deleting, Wiping, Setting, Signing,
                Stores, MakePcs, ReplacePcs, DeletePcs, WipePcs
  <2>5. Phase' /\ ResetErasesAll'
    BY <1>1, <2>1, BusyStep DEF ReplacePcs
  <2> QED
    BY <2>3, <2>4, <2>5 DEF Control
<1> QED
  BY <1>2, <1>3

(* A call failed. *)
LEMMA AbortStep ==
    ASSUME Inv, Abort, pc # "idle", UNCHANGED ram, RamIsChip',
           pc \in MakePcs \cup ReplacePcs => pc = "mkPublish" \/ UNCHANGED <<init, unc1>>
    PROVE  Control'
<1>1. ram' \in Global /\ idx \in SlotIds
  BY DEF Inv, Control, Call
<1>2. CASE pc \in {"mkErase", "mkGen", "mkMeta", "mkWrite"}
  <2>1. /\ pc' = "mkUndo" /\ idx' = idx /\ UNCHANGED <<op, key, repl, ret>>
    BY <1>2 DEF Abort, GotoSlot, Goto
  <2>2. Call' /\ Making' /\ Trusted'
    BY <1>1, <1>2, <2>1 DEF Inv, Control, Call, Making, Trusted, MakePcs, Stores
  <2>3. Replacing' /\ Deleting' /\ Wiping' /\ Setting' /\ Signing'
    BY <2>1 DEF Replacing, Deleting, Wiping, Setting, Signing, ReplacePcs, DeletePcs, WipePcs
  <2>4. Phase' /\ ResetErasesAll'
    BY <1>2, <2>1, BusyStep DEF Inv, Control, Phase, WipePcs
  <2> QED
    BY <2>2, <2>3, <2>4 DEF Control
<1>3. CASE pc \in ReplacePcs
  <2>1. NextReplaced
    BY <1>3 DEF Abort, ReplacePcs
  <2>2. init' /\ ~unc1' /\ repl \cap ram'.bits = {}
    BY <1>3 DEF Inv, Control, Trusted, Replacing, ReplacePcs
  <2> QED
    BY <1>1, <1>3, <2>1, <2>2, NextReplacedStep
<1>4. CASE pc \notin {"mkErase", "mkGen", "mkMeta", "mkWrite"} \cup ReplacePcs
  <2>1. Return("ERR")
    BY <1>4 DEF Abort, ReplacePcs
  <2> QED
    BY <1>1, <2>1, ReturnStep
<1> QED
  BY <1>2, <1>3, <1>4

-----------------------------------------------------------------------------
(* The operations. *)

(* An operation that begins leaves no answer. *)
LEMMA EnterStep ==
    ASSUME Inv, pc = "idle", UNCHANGED <<ram, init, unc1, o1, o1rec>>, ret'.st # "OK",
           op' # "reset", pc' \notin WipePcs, pc' \notin {"bootO1", "sign"}
    PROVE  RamIsChip' /\ Wiping' /\ Signing' /\ Phase' /\ ResetErasesAll'
  BY DEF Inv, Control, RamIsChip, Wiping, Signing, Phase, ResetErasesAll, WipePcs

LEMMA MakeStep == ASSUME Inv, credstore_make PROVE Inv'
<1>1. /\ pc = "idle" /\ op' = "make" /\ pc' = "mkErase" /\ idx' = Least(FreeSlots)
      /\ ret' = [op |-> "make", st |-> "BUSY"]
      /\ key' \in Keys /\ repl' \in SUBSET ram.bits
      /\ init /\ ~unc1 /\ FreeSlots # {}
      /\ UNCHANGED <<chipVars, init, ram, unc1, unc2, booted>>
  BY DEF credstore_make, Enter, credstore_ready, slots_usable
<1>2. Safe'
  BY <1>1, UntouchedStep DEF chipVars
<1>3. Least(FreeSlots) \in SlotIds /\ Least(FreeSlots) \notin ram.bits /\ ram.bits \subseteq SlotIds
  <2>1. FreeSlots \in SUBSET Nat
    BY Slots DEF FreeSlots
  <2> QED
    BY <1>1, <2>1, LeastIn DEF FreeSlots, Inv, Control, Call, Global
<1>4. Call' /\ Making' /\ Trusted'
  BY <1>1, <1>3 DEF Inv, Control, Call, Making, Trusted
<1>5. Replacing' /\ Deleting' /\ Setting'
  BY <1>1 DEF Replacing, Deleting, Setting, ReplacePcs, DeletePcs
<1>6. RamIsChip' /\ Wiping' /\ Signing' /\ Phase' /\ ResetErasesAll'
  BY <1>1, EnterStep DEF chipVars, WipePcs
<1> QED
  BY <1>2, <1>4, <1>5, <1>6 DEF Inv, Control

LEMMA EraseSlotStep == ASSUME Inv, credstore_erase_slot PROVE Inv'
<1>1. PICK k \in ram.bits : meta[k] \in Keys /\ idx' = k /\ live' = live \ {meta[k]}
  BY DEF credstore_erase_slot
<1>2. /\ pc = "idle" /\ op' = "erase" /\ pc' = "dlKey" /\ ret' = [op |-> "erase", st |-> "BUSY"]
      /\ init /\ ~unc1
      /\ UNCHANGED <<o1, o1rec, ecc, meta, pin, mc, secured, counts, init, ram, unc1, unc2, booted,
                     key, repl>>
  BY DEF credstore_erase_slot, credstore_ready, slots_usable, ramVars
<1>3. Safe'
  <2>1. Chip'
    BY <1>1, <1>2 DEF Inv, Safe, Chip
  <2>2. OwnKey' /\ Survives' /\ Keyed' /\ Guarded' /\ Counted'
    BY <1>1, <1>2 DEF Inv, Safe, OwnKey, Survives, Keyed, Guarded, Counted
  <2> QED
    BY <2>1, <2>2 DEF Safe
<1>4. Call' /\ Trusted' /\ Deleting'
  BY <1>1, <1>2 DEF Inv, Control, Call, Global, Trusted, Deleting
<1>5. Making' /\ Replacing' /\ Setting'
  BY <1>2 DEF Making, Replacing, Setting, MakePcs, ReplacePcs
<1>6. RamIsChip' /\ Wiping' /\ Signing' /\ Phase' /\ ResetErasesAll'
  BY <1>2, EnterStep DEF WipePcs
<1> QED
  BY <1>3, <1>4, <1>5, <1>6 DEF Inv, Control

(* setPin and alwaysUv, and an assertion: nothing but the call changes. *)
LEMMA CallStep ==
    ASSUME Inv, fido_pin_set \/ slots_force_uv_set \/ Assertion
    PROVE  Inv'
<1>1. /\ pc = "idle" /\ init /\ ~unc1 /\ op' # "reset" /\ ret'.st # "OK"
      /\ \/ pc' = "spSetup" /\ idx' = 0 /\ ~ram.bound /\ pin # "ok"
         \/ pc' = "uvWrite" /\ idx' = 0
         \/ pc' = "count" /\ idx' \in ram.bits
      /\ UNCHANGED <<chipVars, init, ram, unc1, unc2, booted, key, repl>>
  BY DEF fido_pin_set, slots_force_uv_set, Assertion, Enter, credstore_ready, slots_usable
<1>2. Safe'
  BY <1>1, UntouchedStep DEF chipVars
<1>3. Call' /\ Trusted' /\ Setting'
  BY <1>1, Slots DEF Inv, Control, Call, Global, Trusted, Setting, chipVars
<1>4. Making' /\ Replacing' /\ Deleting'
  BY <1>1 DEF Making, Replacing, Deleting, MakePcs, ReplacePcs, DeletePcs
<1>5. RamIsChip' /\ Wiping' /\ Signing' /\ Phase' /\ ResetErasesAll'
  BY <1>1, EnterStep DEF chipVars, WipePcs
<1> QED
  BY <1>2, <1>3, <1>4, <1>5 DEF Inv, Control

LEMMA ResetStep == ASSUME Inv, credstore_factory_reset PROVE Inv'
<1>1. /\ pc = "idle" /\ op' = "reset" /\ pc' = "wipeKey" /\ idx' = 0 /\ live' = {}
      /\ ret' = [op |-> "reset", st |-> "BUSY"]
      /\ UNCHANGED <<o1, o1rec, ecc, meta, pin, mc, secured, counts, init, ram, unc1, unc2,
                     key, repl>>
  BY DEF credstore_factory_reset
<1>2. Safe'
  BY <1>1, UntouchedStep
<1>3. Call' /\ RamIsChip'
  BY <1>1, Slots DEF Inv, Control, Call, RamIsChip
<1>4. Wiping'
  BY <1>1, Slots DEF Wiping, WipePcs
<1>5. Trusted' /\ Making' /\ Replacing' /\ Deleting' /\ Setting' /\ Signing' /\ Phase' /\ ResetErasesAll'
  BY <1>1 DEF Trusted, Making, Replacing, Deleting, Setting, Signing, Phase, ResetErasesAll,
              Stores, MakePcs, ReplacePcs, DeletePcs, WipePcs
<1> QED
  BY <1>2, <1>3, <1>4, <1>5 DEF Inv, Control

(* Between two operations: a PIN use that loses its reply, a refusal, and  *)
(* the damage of a slot or of the binding.                                 *)
LEMMA IdleStep ==
    ASSUME Inv, PinUse \/ Refuse \/ Damage \/ LosePin
    PROVE  Inv'
<1>1. /\ pc = "idle" /\ pc' = "idle"
      /\ UNCHANGED <<o1, o1rec, ecc, mc, secured, counts, init, ram, unc1, op, idx, key, repl>>
  BY DEF PinUse, Refuse, Damage, LosePin, chipVars, ramVars, callVars
<1>2. Safe'
  <2>1. CASE PinUse \/ Refuse
    BY <2>1, UntouchedStep DEF PinUse, Refuse, chipVars
  <2>2. CASE Damage
    <3>1. PICK k \in SlotIds, x \in {Bad, None} :
            meta' = [meta EXCEPT ![k] = x] /\ live' = live \ {meta[k]} /\ meta[k] \in Keys
      BY <2>2 DEF Damage
    <3>2. UNCHANGED pin
      BY <2>2 DEF Damage
    <3>3. Chip'
      BY <1>1, <3>1, <3>2 DEF Inv, Safe, Chip
    <3>4. (\A j \in SlotIds : j # k => meta'[j] = meta[j]) /\ meta'[k] = x /\ x \notin Keys
      BY <3>1, KeysAssumption DEF Inv, Safe, Chip
    <3>5. OwnKey' /\ Survives'
      BY <1>1, <3>1, <3>4 DEF Inv, Safe, OwnKey, Survives, Chip, Global
    <3>6. Keyed' /\ Guarded' /\ Counted'
      BY <1>1, <3>2 DEF Inv, Safe, Keyed, Guarded, Counted
    <3> QED
      BY <3>3, <3>5, <3>6 DEF Safe
  <2>3. CASE LosePin
    <3>1. pin' = "absent" /\ o1rec.bound /\ UNCHANGED <<meta, live>>
      BY <2>3 DEF LosePin
    <3>2. Chip'
      BY <1>1, <3>1 DEF Inv, Safe, Chip
    <3> QED
      BY <1>1, <3>1, <3>2 DEF Inv, Safe, OwnKey, Survives, Keyed, Guarded, Counted
  <2> QED
    BY <2>1, <2>2, <2>3
<1>3. Call' /\ RamIsChip'
  BY <1>1 DEF Inv, Control, Call, RamIsChip
<1>4. Trusted' /\ Making' /\ Replacing' /\ Deleting' /\ Wiping' /\ Setting' /\ Signing' /\ Phase'
  BY <1>1 DEF Inv, Control, Trusted, Making, Replacing, Deleting, Wiping, Setting, Signing, Phase,
              Stores, MakePcs, ReplacePcs, DeletePcs, WipePcs
<1>5. ResetErasesAll'
  <2>1. CASE PinUse \/ Refuse
    BY <2>1 DEF PinUse, Refuse, ResetErasesAll
  <2>2. CASE Damage
    BY <2>2, KeysAssumption DEF Damage, Inv, Control, ResetErasesAll
  <2>3. CASE LosePin
    BY <2>3, FreshFacts DEF LosePin, Inv, Control, ResetErasesAll
  <2> QED
    BY <2>1, <2>2, <2>3
<1> QED
  BY <1>2, <1>3, <1>4, <1>5 DEF Inv, Control

-----------------------------------------------------------------------------
(* The boot and the writes of O1. *)

LEMMA BootO1Step == ASSUME Inv, BootO1 PROVE Inv'
<1>1. pc = "bootO1" /\ ~unc1 /\ op # "reset"
  BY DEF BootO1, Inv, Control, Trusted, Phase, WipePcs
<1>2. CASE o1 # "absent" /\ LoadGlobal
  <2>1. /\ o1' = "ok" /\ init' /\ ram' = o1rec /\ pc' \in {"bootPin", "scrub"} /\ idx' = 0
        /\ UNCHANGED <<o1rec, ecc, meta, pin, mc, secured, counts, live, unc1, op, key, repl, ret>>
    BY <1>2 DEF LoadGlobal, GotoSlot, Goto
  <2>2. Safe'
    BY <1>2, <2>1, UntouchedStep
  <2>3. Call' /\ RamIsChip' /\ Trusted'
    BY <1>1, <2>1, Slots DEF Inv, Safe, Chip, Control, Call, RamIsChip, Trusted
  <2>4. Making' /\ Replacing' /\ Deleting' /\ Wiping' /\ Setting' /\ Signing'
    BY <2>1 DEF Making, Replacing, Deleting, Wiping, Setting, Signing,
                MakePcs, ReplacePcs, DeletePcs, WipePcs
  <2>5. Phase' /\ ResetErasesAll'
    BY <1>1, <2>1, BusyStep
  <2> QED
    BY <2>2, <2>3, <2>4, <2>5 DEF Inv, Control
<1>3. CASE pc' = "wipeKey" /\ idx' = 0 /\ live' = {} /\ UNCHANGED <<op, key, repl, ret>>
           /\ UNCHANGED <<o1, o1rec, ecc, meta, pin, mc, secured, counts, ramVars>>
  <2>1. Safe'
    BY <1>3, UntouchedStep
  <2>2. Call' /\ RamIsChip' /\ Wiping'
    BY <1>3, Slots DEF Inv, Control, Call, RamIsChip, Wiping, WipePcs, ramVars
  <2>3. Trusted' /\ Making' /\ Replacing' /\ Deleting' /\ Setting' /\ Signing'
    BY <1>3 DEF Trusted, Making, Replacing, Deleting, Setting, Signing,
                Stores, MakePcs, ReplacePcs, DeletePcs
  <2>4. Phase' /\ ResetErasesAll'
    BY <1>1, <1>3, BusyStep
  <2> QED
    BY <2>1, <2>2, <2>3, <2>4 DEF Inv, Control
<1>4. CASE Return("ERR") /\ UNCHANGED <<chipVars, ramVars>>
  <2>1. Safe'
    BY <1>4, UntouchedStep DEF chipVars
  <2>2. ram' \in Global /\ RamIsChip'
    BY <1>4 DEF Inv, Control, Call, RamIsChip, ramVars, chipVars
  <2> QED
    BY <1>4, <2>1, <2>2, ReturnStep DEF Inv
<1> QED
  BY <1>2, <1>3, <1>4 DEF BootO1, GotoSlot, Goto

LEMMA BootPinStep == ASSUME Inv, BootPin PROVE Inv'
<1>1. pc = "bootPin" /\ init /\ ~unc1 /\ op # "reset" /\ o1 = "ok"
  BY DEF BootPin, Inv, Control, Trusted, Phase, WipePcs, RamIsChip
<1>2. Safe' /\ UNCHANGED <<o1, o1rec, ramVars>>
  <2>1. CASE PinFound
    BY <1>1, <2>1, PinComesStep DEF PinFound
  <2>2. CASE UNCHANGED <<chipVars, ramVars>>
    BY <2>2, UntouchedStep DEF chipVars
  <2> QED
    BY <2>1, <2>2 DEF BootPin
<1>3. ram' \in Global /\ RamIsChip'
  BY <1>2 DEF Inv, Control, Call, RamIsChip, ramVars
<1>4. CASE Return("ERR")
  BY <1>2, <1>3, <1>4, ReturnStep DEF Inv
<1>5. CASE GotoSlot("bootCtr", 0) \/ GotoSlot("bootGuard", 0)
  <2>1. pc' \in {"bootCtr", "bootGuard"} /\ idx' = 0 /\ UNCHANGED <<op, key, repl, ret>>
    BY <1>5 DEF GotoSlot, Goto
  <2>2. Call' /\ Trusted'
    BY <1>1, <1>2, <1>3, <2>1, Slots DEF Inv, Control, Call, Trusted, ramVars
  <2>3. Making' /\ Replacing' /\ Deleting' /\ Wiping' /\ Setting' /\ Signing'
    BY <2>1 DEF Making, Replacing, Deleting, Wiping, Setting, Signing,
                MakePcs, ReplacePcs, DeletePcs, WipePcs
  <2>4. Phase' /\ ResetErasesAll'
    BY <1>1, <2>1, BusyStep
  <2> QED
    BY <1>2, <1>3, <2>2, <2>3, <2>4 DEF Inv, Control
<1> QED
  BY <1>4, <1>5 DEF BootPin, PinFound

LEMMA BootCtrStep == ASSUME Inv, BootCtr PROVE Inv'
<1>1. pc = "bootCtr" /\ op # "reset" /\ UNCHANGED <<chipVars, init, ram, unc1, unc2>>
  BY DEF BootCtr, Inv, Control, Phase, WipePcs
<1>2. Safe'
  BY <1>1, UntouchedStep DEF chipVars
<1>3. ram' \in Global /\ RamIsChip'
  BY <1>1 DEF Inv, Control, Call, RamIsChip, chipVars
<1>4. Return("OK") \/ Return("ERR")
  BY DEF BootCtr
<1> QED
  BY <1>1, <1>2, <1>3, <1>4, ReturnStep DEF Inv

LEMMA StoreActionStep == ASSUME Inv, Store PROVE Inv'
<1>1. /\ pc \in Stores /\ Effect /\ ram' = StoreValue /\ UNCHANGED <<init, unc1, unc2, booted>>
  BY DEF Store
<1>2. Safe' /\ o1rec' = StoreValue /\ UNCHANGED <<o1, ecc, meta, pin, mc, secured, counts>>
  BY <1>1, StoreStep
<1>3. /\ init' /\ ~unc1' /\ op # "reset" /\ idx \in SlotIds
      /\ pc # "idle" /\ ram' \in Global /\ RamIsChip'
  BY <1>1, <1>2, StoreFacts DEF Inv, Control, Call, Trusted, Phase, RamIsChip, Stores, WipePcs
<1>4. CASE pc = "mkPublish"
  <2>1. NextReplaced
    BY <1>4, Zenon DEF Store
  <2>2. repl \cap ram'.bits = {}
    BY <1>1, <1>4, StoreFacts
  <2> QED
    BY <1>2, <1>3, <1>4, <2>1, <2>2, NextReplacedStep DEF Inv
<1>5. CASE pc \in {"scrub", "bootGuard", "dlBit"}
  <2>1. \/ pc = "scrub" /\ GotoSlot("bootPin", 0)
        \/ pc = "bootGuard" /\ GotoSlot("bootCtr", 0)
        \/ pc = "dlBit" /\ GotoSlot("dlMeta", idx)
    BY <1>5, Zenon DEF Store
  <2>2. /\ \/ pc' \in {"bootPin", "bootCtr"} /\ idx' = 0
           \/ pc = "dlBit" /\ pc' = "dlMeta" /\ idx' = idx
        /\ UNCHANGED <<op, key, repl, ret>>
    BY <2>1 DEF GotoSlot, Goto
  <2>3. live' = live
    BY <1>1, <1>5 DEF Effect, KeyErases, MetaErases, Stores
  <2>4. Call' /\ Trusted' /\ Deleting'
    BY <1>2, <1>3, <2>2, <2>3, Slots DEF Inv, Control, Call, Trusted, Deleting, DeletePcs
  <2>5. Making' /\ Replacing' /\ Wiping' /\ Setting' /\ Signing'
    BY <2>2 DEF Making, Replacing, Wiping, Setting, Signing, MakePcs, ReplacePcs, WipePcs
  <2>6. Phase' /\ ResetErasesAll'
    BY <1>3, <2>2, BusyStep
  <2> QED
    BY <1>2, <1>3, <2>4, <2>5, <2>6 DEF Inv, Control
<1>6. CASE pc \in {"spGuard", "uvWrite"}
  <2>1. Return("OK")
    BY <1>6, Zenon DEF Store
  <2> QED
    BY <1>2, <1>3, <2>1, ReturnStep DEF Inv
<1> QED
  BY <1>1, <1>4, <1>5, <1>6 DEF Stores

-----------------------------------------------------------------------------
(* The wipe. *)

(* What every step of the wipe but the last leaves alone. *)
LEMMA WipeGoesOn ==
    ASSUME Inv, pc \in WipePcs, pc' \in WipePcs, idx' \in SlotIds, ram' \in Global,
           UNCHANGED <<op, key, repl, ret>>, RamIsChip', Wiping'
    PROVE  Control'
<1>1. Call'
  BY DEF Inv, Control, Call
<1>2. Trusted' /\ Making' /\ Replacing' /\ Deleting' /\ Setting' /\ Signing'
  BY DEF Trusted, Making, Replacing, Deleting, Setting, Signing,
         Stores, MakePcs, ReplacePcs, DeletePcs, WipePcs
<1>3. Phase' /\ ResetErasesAll'
  BY BusyStep DEF WipePcs
<1> QED
  BY <1>1, <1>2, <1>3 DEF Control

LEMMA WipeSlotStep == ASSUME Inv, WipeSlot PROVE Inv'
<1>1. /\ pc \in {"wipeKey", "wipeMeta"} /\ Effect /\ UNCHANGED ramVars
      /\ idx \in SlotIds /\ live = {}
  BY DEF WipeSlot, Inv, Control, Call, Wiping, WipePcs
<1>2. Safe'
  BY <1>1, EffectStep
<1>3. ram' \in Global /\ RamIsChip'
  <2>1. UNCHANGED <<o1, o1rec>>
    BY <1>1, Elsewhere DEF Interrupted, Stores
  <2> QED
    BY <1>1, <2>1 DEF ramVars, Inv, Control, Call, RamIsChip
<1>4. /\ UNCHANGED <<op, key, repl, ret>>
      /\ \/ idx < NSlots - 1 /\ pc' = pc /\ idx' = idx + 1
         \/ ~(idx < NSlots - 1) /\ pc = "wipeKey" /\ pc' = "wipeMeta" /\ idx' = 0
         \/ ~(idx < NSlots - 1) /\ pc = "wipeMeta" /\ pc' = "wipePin" /\ idx' = 0
  BY DEF WipeSlot, GotoSlot, Goto
<1>5. idx' \in SlotIds
  BY <1>1, <1>4, Slots, NSlotsAssumption DEF SlotIds
<1>6. Wiping'
  <2>1. CASE pc = "wipeKey"
    <3>1. /\ ecc' = [ecc EXCEPT ![idx] = None] /\ counts' = [counts EXCEPT ![idx] = 0]
          /\ UNCHANGED live
      BY <1>1, <2>1 DEF Effect, EraseKey, KeyErases, MetaErases, Stores
    <3>2. \A k \in SlotIds : k <= idx => ecc'[k] = None /\ counts'[k] = 0
      <4>1. \A k \in SlotIds : k < idx => ecc[k] = None /\ counts[k] = 0
        BY <2>1 DEF Inv, Control, Wiping
      <4>2. ecc'[idx] = None /\ counts'[idx] = 0
            /\ \A k \in SlotIds : k # idx => ecc'[k] = ecc[k] /\ counts'[k] = counts[k]
        BY <1>1, <3>1 DEF Inv, Safe, Chip
      <4> QED
        BY <1>1, <4>1, <4>2 DEF SlotIds
    <3>3. CASE pc' = "wipeKey" /\ idx' = idx + 1
      BY <1>1, <3>1, <3>2, <3>3 DEF Wiping, WipePcs, SlotIds
    <3>4. CASE ~(idx < NSlots - 1) /\ pc' = "wipeMeta" /\ idx' = 0
      <4>1. \A k \in SlotIds : k <= idx /\ ~(k < 0)
        BY <1>1, <3>4, NSlotsAssumption DEF SlotIds
      <4> QED
        BY <1>1, <3>1, <3>2, <3>4, <4>1 DEF Wiping, WipePcs
    <3> QED
      BY <1>4, <2>1, <3>3, <3>4
  <2>2. CASE pc = "wipeMeta"
    <3>1. meta' = [meta EXCEPT ![idx] = None] /\ UNCHANGED <<ecc, counts, live>>
      BY <1>1, <2>2 DEF Effect, KeyErases, MetaErases, Stores
    <3>2. \A k \in SlotIds : ecc'[k] = None /\ counts'[k] = 0
      BY <2>2, <3>1 DEF Inv, Control, Wiping, WipePcs
    <3>3. \A k \in SlotIds : k <= idx => meta'[k] = None
      <4>1. \A k \in SlotIds : k < idx => meta[k] = None
        BY <2>2 DEF Inv, Control, Wiping
      <4>2. meta'[idx] = None /\ \A k \in SlotIds : k # idx => meta'[k] = meta[k]
        BY <1>1, <3>1 DEF Inv, Safe, Chip
      <4> QED
        BY <1>1, <4>1, <4>2 DEF SlotIds
    <3>4. CASE pc' = "wipeMeta" /\ idx' = idx + 1
      BY <1>1, <3>1, <3>2, <3>3, <3>4 DEF Wiping, WipePcs, SlotIds
    <3>5. CASE ~(idx < NSlots - 1) /\ pc' = "wipePin" /\ idx' = 0
      <4>1. \A k \in SlotIds : k <= idx
        BY <1>1, <3>5, NSlotsAssumption DEF SlotIds
      <4> QED
        BY <1>1, <3>1, <3>2, <3>3, <3>5, <4>1 DEF Wiping, WipePcs
    <3> QED
      BY <1>4, <2>2, <3>4, <3>5
  <2> QED
    BY <1>1, <2>1, <2>2
<1>7. Control'
  BY <1>1, <1>3, <1>4, <1>5, <1>6, WipeGoesOn DEF WipePcs
<1> QED
  BY <1>2, <1>7 DEF Inv

LEMMA WipeRecordsStep == ASSUME Inv, WipePin \/ DropPin \/ InitO1 PROVE Inv'
<1>1. /\ Effect /\ idx' = 0 /\ UNCHANGED <<op, key, repl, ret>>
      /\ \/ pc = "wipePin" /\ pc' = "dropPin" /\ UNCHANGED <<init, ram, unc1>>
         \/ pc = "dropPin" /\ pc' = "initO1" /\ UNCHANGED <<init, ram, unc1>>
         \/ pc = "initO1" /\ pc' = "initCtr" /\ init' /\ ram' = FreshGlobal
  BY DEF WipePin, DropPin, InitO1, GotoSlot, Goto, ramVars
<1>2. Safe'
  BY <1>1, EffectStep
<1>3. /\ UNCHANGED <<ecc, meta, mc, counts, live>>
      /\ pc = "initO1" => UNCHANGED pin /\ o1' = "ok" /\ o1rec' = FreshGlobal
      /\ pc = "dropPin" => pin' = "absent"
      /\ pc # "initO1" => UNCHANGED <<o1, o1rec>>
  BY <1>1 DEF Effect, KeyErases, MetaErases, Stores
<1>4. ram' \in Global /\ RamIsChip'
  BY <1>1, <1>3, FreshFacts DEF Inv, Control, Call, RamIsChip
<1>5. Wiping'
  BY <1>1, <1>3 DEF Inv, Control, Wiping, WipePcs
<1>6. Control'
  BY <1>1, <1>4, <1>5, Slots, WipeGoesOn DEF WipePcs
<1> QED
  BY <1>2, <1>6 DEF Inv

LEMMA InitCtrStep == ASSUME Inv, InitCtr PROVE Inv'
<1>1. pc = "initCtr" /\ Effect /\ Return("OK") /\ UNCHANGED <<init, ram, unc1, unc2>>
  BY DEF InitCtr
<1>2. Safe'
  BY <1>1, EffectStep
<1>3. mc' = MaxCount /\ UNCHANGED <<o1, o1rec, ecc, meta, pin>>
  BY <1>1 DEF Effect, KeyErases, MetaErases, Stores
<1>4. ram' \in Global /\ RamIsChip'
  BY <1>1, <1>3 DEF Inv, Control, Call, RamIsChip
<1>5. ResetErasesAll'
  BY <1>1, <1>3 DEF Inv, Control, Wiping, WipePcs, ResetErasesAll
<1> QED
  BY <1>1, <1>2, <1>4, <1>5, ReturnStep DEF Inv

-----------------------------------------------------------------------------
(* Registration, deletion and assertion. *)

LEMMA ChipStepStep == ASSUME Inv, ChipStep PROVE Inv'
<1>1. /\ pc \in {"mkErase", "mkGen", "mkMeta", "mkWrite", "rpKey", "dlKey", "spSetup", "count"}
      /\ Effect /\ pc' = Successor /\ idx' = idx
      /\ UNCHANGED <<op, key, repl, ret, init, ram, unc1>>
  BY DEF ChipStep, GotoSlot, Goto, ramVars
<1>2. Safe'
  BY <1>1, EffectStep
<1>3. UNCHANGED <<o1, o1rec>>
  BY <1>1, Elsewhere DEF Interrupted, Stores
<1>4. Call' /\ RamIsChip' /\ op # "reset"
  BY <1>1, <1>3 DEF Inv, Control, Call, RamIsChip, Phase, WipePcs
<1>5. \/ pc = "mkErase" /\ pc' = "mkGen"
      \/ pc = "mkGen" /\ pc' = "mkMeta"
      \/ pc = "mkMeta" /\ pc' = "mkWrite"
      \/ pc = "mkWrite" /\ pc' = "mkPublish"
      \/ pc = "rpKey" /\ pc' = "rpMeta"
      \/ pc = "dlKey" /\ pc' = "dlBit"
      \/ pc = "spSetup" /\ pc' = "spGuard"
      \/ pc = "count" /\ pc' = "sign"
  BY <1>1 DEF Successor
<1>6. Trusted' /\ Replacing' /\ Wiping' /\ Setting'
  BY <1>1, <1>5 DEF Inv, Control, Trusted, Replacing, Wiping, Setting,
                    Stores, MakePcs, ReplacePcs, DeletePcs, WipePcs
<1>7. Making'
  <2>1. pc = "mkGen" => ecc'[idx] = key
    BY <1>1, GenStep
  <2>2. pc \in {"mkMeta", "mkWrite"} => UNCHANGED ecc
    BY <1>1 DEF Effect, KeyErases, MetaErases, Stores
  <2>3. pc = "mkWrite" => meta'[idx] = key
    <3>1. pc = "mkWrite" => meta' = [meta EXCEPT ![idx] = key]
      BY <1>1 DEF Effect, KeyErases, MetaErases, Stores
    <3> QED
      BY <3>1 DEF Inv, Control, Call, Safe, Chip
  <2> QED
    BY <1>1, <1>5, <2>1, <2>2, <2>3 DEF Inv, Control, Making, MakePcs
<1>8. Deleting'
  <2>1. pc = "dlKey" => UNCHANGED <<meta, live>>
    BY <1>1 DEF Effect, EraseKey, KeyErases, MetaErases, Stores
  <2> QED
    BY <1>1, <1>5, <2>1 DEF Inv, Control, Deleting, DeletePcs
<1>9. Signing'
  <2>1. CASE pc = "count"
    <3>1. mc > 0 /\ mc' = mc - 1 /\ UNCHANGED <<o1, o1rec, ecc, meta, pin, secured, counts, live>>
      BY <1>1, <2>1 DEF Effect, KeyErases, MetaErases, Stores
    <3>2. mc' >= 0 /\ \A k \in SlotIds : counts[k] < MaxCount - mc'
      BY <2>1, <3>1, CounterStep
    <3> QED
      BY <3>1, <3>2 DEF Signing
  <2>2. CASE pc # "count"
    BY <1>5, <2>2 DEF Signing
  <2> QED
    BY <2>1, <2>2
<1>10. Phase' /\ ResetErasesAll'
  BY <1>1, <1>4, BusyStep
<1> QED
  BY <1>2, <1>4, <1>6, <1>7, <1>8, <1>9, <1>10 DEF Inv, Control

LEMMA LastStepStep == ASSUME Inv, LastStep PROVE Inv'
<1>1. pc \in {"mkUndo", "rpMeta", "dlMeta"} /\ Effect /\ UNCHANGED ramVars
  BY DEF LastStep
<1>2. Safe'
  BY <1>1, EffectStep
<1>3. UNCHANGED <<o1, o1rec>>
  BY <1>1, Elsewhere DEF Interrupted, Stores
<1>4. ram' \in Global /\ RamIsChip' /\ op # "reset"
  BY <1>1, <1>3 DEF Inv, Control, Call, RamIsChip, Phase, WipePcs, ramVars
<1>5. CASE pc = "rpMeta"
  <2>1. NextReplaced
    BY <1>5, Zenon DEF LastStep
  <2>2. init' /\ ~unc1' /\ repl \cap ram'.bits = {}
    BY <1>1, <1>5 DEF Inv, Control, Trusted, Replacing, ReplacePcs, ramVars
  <2> QED
    BY <1>2, <1>4, <1>5, <2>1, <2>2, NextReplacedStep DEF Inv, ReplacePcs
<1>6. CASE pc = "mkUndo"
  <2>1. Return("ERR")
    BY <1>6, Zenon DEF LastStep
  <2> QED
    BY <1>2, <1>4, <2>1, ReturnStep DEF Inv
<1>7. CASE pc = "dlMeta"
  <2>1. Return("OK")
    BY <1>7, Zenon DEF LastStep
  <2> QED
    BY <1>2, <1>4, <2>1, ReturnStep DEF Inv
<1> QED
  BY <1>1, <1>5, <1>6, <1>7

LEMMA SignStep == ASSUME Inv, Exhausted \/ Sign PROVE Inv'
<1>1. /\ pc \in {"count", "sign"} /\ op # "reset"
      /\ UNCHANGED <<o1, o1rec, ecc, meta, pin, mc, secured, live, init, ram, unc1>>
      /\ Return("OK") \/ Return("ERR")
  BY DEF Exhausted, Sign, Inv, Control, Phase, WipePcs, chipVars, ramVars
<1>2. ram' \in Global /\ RamIsChip'
  BY <1>1 DEF Inv, Control, Call, RamIsChip
<1>3. Safe'
  <2>1. CASE UNCHANGED counts
    BY <1>1, <2>1, UntouchedStep
  <2>2. CASE pc = "sign" /\ counts' = [counts EXCEPT ![idx] = MaxCount - mc]
    <3>1. mc \in 0 .. MaxCount /\ idx \in SlotIds
      BY <2>2 DEF Inv, Safe, Chip, Control, Call, Signing
    <3>2. MaxCount - mc \in 0 .. MaxCount
      BY <3>1, MaxCountAssumption
    <3>3. Chip'
      BY <1>1, <2>2, <3>2 DEF Inv, Safe, Chip
    <3>4. \A k \in SlotIds : counts'[k] = counts[k] \/ counts'[k] = MaxCount - mc
      BY <2>2 DEF Inv, Safe, Chip
    <3>5. Counted'
      BY <1>1, <3>1, <3>2, <3>4, MaxCountAssumption DEF Inv, Safe, Counted, Chip
    <3> QED
      BY <1>1, <3>3, <3>5 DEF Inv, Safe, OwnKey, Survives, Keyed, Guarded
  <2> QED
    BY <2>1, <2>2 DEF Exhausted, Sign, chipVars
<1> QED
  BY <1>1, <1>2, <1>3, ReturnStep DEF Inv

-----------------------------------------------------------------------------
(* Cuts and lost replies. *)

LEMMA LostStep == ASSUME Inv, LostStore \/ LostInit \/ LostReply PROVE Inv'
<1>1. /\ Interrupted /\ Abort /\ UNCHANGED ram /\ pc # "idle"
  BY DEF LostStore, LostInit, LostReply, Interrupted, Stores
<1>2. Safe'
  BY <1>1, InterruptedStep
<1>3. RamIsChip' /\ (pc \in MakePcs \cup ReplacePcs => pc = "mkPublish" \/ UNCHANGED <<init, unc1>>)
  <2>1. CASE LostStore
    <3>1. init' => init
      BY <2>1, Zenon DEF LostStore
    <3>2. UNCHANGED <<o1, o1rec, unc1>> \/ unc1'
      BY <2>1 DEF LostStore, chipVars
    <3>3. pc \in Stores /\ UNCHANGED ram
      BY <2>1 DEF LostStore
    <3>4. RamIsChip'
      BY <3>1, <3>2, <3>3 DEF Inv, Control, RamIsChip
    <3> QED
      BY <3>3, <3>4 DEF Stores, MakePcs, ReplacePcs
  <2>2. CASE LostInit
    BY <2>2 DEF LostInit, RamIsChip, MakePcs, ReplacePcs
  <2>3. CASE LostReply
    <3>1. UNCHANGED <<o1, o1rec, init, ram>> /\ (pc # "bootO1" => unc1' = unc1)
      BY <2>3, Elsewhere DEF LostReply
    <3>2. pc = "bootO1" => ~unc1
      BY DEF Inv, Control, Trusted
    <3> QED
      BY <3>1, <3>2 DEF Inv, Control, RamIsChip, MakePcs, ReplacePcs
  <2> QED
    BY <2>1, <2>2, <2>3
<1> QED
  BY <1>1, <1>2, <1>3, AbortStep DEF Inv

LEMMA PowerCutStep == ASSUME Inv, PowerCut PROVE Inv'
<1>1. /\ Interrupted /\ ~init' /\ ram' = FreshGlobal /\ ~unc1'
      /\ op' = "boot" /\ pc' = "bootO1" /\ idx' = 0 /\ key' = None /\ repl' = {}
      /\ ret' = [op |-> "boot", st |-> "BUSY"]
  BY DEF PowerCut
<1>2. Safe'
  BY <1>1, InterruptedStep
<1>3. Call' /\ RamIsChip' /\ Trusted'
  BY <1>1, Slots, FreshFacts DEF Call, RamIsChip, Trusted, Stores, MakePcs, ReplacePcs, DeletePcs
<1>4. Making' /\ Replacing' /\ Deleting' /\ Wiping' /\ Setting' /\ Signing' /\ Phase' /\ ResetErasesAll'
  BY <1>1 DEF Making, Replacing, Deleting, Wiping, Setting, Signing, Phase, ResetErasesAll,
              MakePcs, ReplacePcs, DeletePcs, WipePcs
<1> QED
  BY <1>2, <1>3, <1>4 DEF Inv, Control

-----------------------------------------------------------------------------
LEMMA InvInit == Init => Inv
<1> SUFFICES ASSUME Init PROVE Inv
  OBVIOUS
<1>1. Safe
  BY FreshFacts, MaxCountAssumption
    DEF Init, Safe, Chip, OwnKey, Survives, Keyed, Guarded, Counted
<1>2. Control
  BY Slots, FreshFacts
    DEF Init, Control, Call, RamIsChip, Trusted, Making, Replacing, Deleting, Wiping, Setting,
        Signing, Phase, ResetErasesAll, Stores, MakePcs, ReplacePcs, DeletePcs, WipePcs
<1> QED
  BY <1>1, <1>2 DEF Inv

LEMMA InvStep == Inv /\ [Next]_vars => Inv'
<1> SUFFICES ASSUME Inv, [Next]_vars PROVE Inv'
  OBVIOUS
<1>1. CASE Operation
  BY <1>1, MakeStep, EraseSlotStep, CallStep, ResetStep, IdleStep DEF Operation
<1>2. CASE Step
  BY <1>2, BootO1Step, BootPinStep, BootCtrStep, StoreActionStep, WipeSlotStep, WipeRecordsStep,
     InitCtrStep, ChipStepStep, LastStepStep, SignStep DEF Step
<1>3. CASE Environment
  BY <1>3, LostStep, PowerCutStep, IdleStep DEF Environment
<1>4. CASE UNCHANGED vars
  BY <1>4 DEF vars, Inv, Safe, Chip, OwnKey, Survives, Keyed, Guarded, Counted,
       Control, Call, RamIsChip, Trusted, Making, Replacing, Deleting, Wiping, Setting, Signing,
       Phase, ResetErasesAll, Scrubbed
<1> QED
  BY <1>1, <1>2, <1>3, <1>4 DEF Next

LEMMA Invariance == Spec => []Inv
  BY InvInit, InvStep, PTL DEF Spec

LEMMA FlagsStep == Flags /\ [Next]_vars => Flags'
<1> SUFFICES ASSUME Flags, [Next]_vars PROVE Flags'
  OBVIOUS
<1>1. CASE Operation
  BY <1>1, Zenon DEF Operation, Flags, credstore_make, credstore_erase_slot, fido_pin_set,
     slots_force_uv_set, Assertion, credstore_factory_reset, PinUse, Refuse, Enter, ramVars
<1>2. CASE Step
  <2>1. CASE BootO1 \/ BootPin \/ BootCtr
    BY <2>1, Zenon DEF Flags, BootO1, LoadGlobal, BootPin, PinFound, BootCtr, ramVars
  <2>2. CASE Store \/ WipeSlot \/ WipePin \/ DropPin \/ InitO1 \/ InitCtr
    BY <2>2, Zenon DEF Flags, Store, WipeSlot, WipePin, DropPin, InitO1, InitCtr, ramVars
  <2>3. CASE ChipStep \/ LastStep \/ Exhausted \/ Sign
    BY <2>3, Zenon DEF Flags, ChipStep, LastStep, Exhausted, Sign, ramVars
  <2> QED
    BY <1>2, <2>1, <2>2, <2>3 DEF Step
<1>3. CASE LostStore \/ LostInit
  BY <1>3, Zenon DEF Flags, LostStore, LostInit
<1>4. CASE LostReply
  <2>1. init' = init /\ booted' = booted
    BY <1>4 DEF LostReply
  <2>2. unc1' \in BOOLEAN
    BY <1>4, Zenon DEF Flags, LostReply
  <2>3. unc2' \in BOOLEAN
    BY <1>4, Zenon DEF Flags, LostReply
  <2> QED
    BY <2>1, <2>2, <2>3 DEF Flags
<1>5. CASE PowerCut
  BY <1>5, Zenon DEF Flags, PowerCut
<1>6. CASE Damage \/ LosePin
  BY <1>6, Zenon DEF Flags, Damage, LosePin, ramVars
<1>7. CASE UNCHANGED vars
  BY <1>7, Zenon DEF Flags, vars
<1> QED
  BY <1>1, <1>2, <1>3, <1>4, <1>5, <1>6, <1>7 DEF Next, Environment

-----------------------------------------------------------------------------
(* Every chip object, RAM copy and slot number keeps its type.  *)
THEOREM TypeCorrect == Spec => []TypeOK
<1>1. Init => Flags
  BY Zenon DEF Init, Flags
<1>2. Spec => []Flags
  BY <1>1, FlagsStep, PTL DEF Spec
<1>3. Inv /\ Flags => TypeOK
  BY DEF Inv, Safe, Chip, Control, Call, Flags, TypeOK
<1> QED
  BY <1>2, <1>3, Invariance, PTL

(* A published slot never holds the key of another credential than its     *)
(* metadata names: credstore_make writes key and metadata in a slot that   *)
(* is not published, and the bitmap names it last.                         *)
THEOREM KeysMatch == Spec => []OwnKey
<1>1. Inv => OwnKey
  BY DEF Inv, Safe
<1> QED
  BY <1>1, Invariance, PTL

(* A registered credential stays published, readable and with its key      *)
(* until it is deleted, replaced or reset, whatever call is cut.           *)
THEOREM CredentialsSurvive == Spec => []Survives
<1>1. Inv => Survives
  BY DEF Inv, Safe
<1> QED
  BY <1>1, Invariance, PTL

(* While fido_pin_state may answer NOT_SET, no key that has lived under a  *)
(* PIN is left: the guard in O1 outlives the binding, and the keys go      *)
(* before both.                                                            *)
THEOREM PinProtects == Spec => []NeverUnprotected
<1>1. Inv => NeverUnprotected
  BY DEF Inv, Safe, Control, RamIsChip, Guarded, NeverUnprotected, credstore_ready, slots_usable
<1> QED
  BY <1>1, Invariance, PTL

(* credstore_factory_reset answers OK only over an empty chip, and nothing *)
(* fills it again before the next operation answers.                       *)
THEOREM ResetIsComplete == Spec => []ResetErasesAll
<1>1. Inv => ResetErasesAll
  BY DEF Inv, Control
<1> QED
  BY <1>1, Invariance, PTL

(* Every signature of a key carries a signCount above all earlier ones of  *)
(* that key: fido_mcounter_bump reserves before ga_sign_respond signs, and *)
(* a counter starts again only on a chip without keys.                     *)
THEOREM CountsGrow == Spec => SignCountGrows
<1>1. ASSUME Inv, [Next]_vars
      PROVE  [pc = "sign" /\ ret'.st = "OK" => counts'[idx] > counts[idx]]_vars
  <2>1. SUFFICES ASSUME Next, pc = "sign", ret'.st = "OK" PROVE counts'[idx] > counts[idx]
    BY <1>1
  <2>2. Sign
    <3>1. ~Operation
      BY <2>1 DEF Operation, credstore_make, credstore_erase_slot, fido_pin_set, slots_force_uv_set,
         Assertion, credstore_factory_reset, PinUse, Refuse, Enter
    <3>2. ~Environment
      <4>1. ~(LostStore \/ LostInit \/ PowerCut \/ Damage \/ LosePin)
        BY <2>1 DEF LostStore, LostInit, PowerCut, Damage, LosePin, Stores
      <4>2. ASSUME LostReply PROVE FALSE
        <5>1. Abort
          BY <4>2 DEF LostReply
        <5>2. Return("ERR")
          BY <2>1, <5>1, Zenon DEF Abort
        <5> QED
          BY <2>1, <5>2 DEF Return
      <4> QED
        BY <4>1, <4>2 DEF Environment
    <3> QED
      BY <2>1, <3>1, <3>2 DEF Next, Step, BootO1, BootPin, BootCtr, Store, WipeSlot, WipePin,
         DropPin, InitO1, InitCtr, ChipStep, LastStep, Exhausted, Stores
  <2>3. counts' = [counts EXCEPT ![idx] = MaxCount - mc]
    BY <2>1, <2>2 DEF Sign, Return
  <2>4. idx \in SlotIds /\ counts[idx] < MaxCount - mc /\ counts[idx] \in 0 .. MaxCount
        /\ mc \in -1 .. MaxCount
    BY <1>1, <2>1 DEF Inv, Safe, Chip, Control, Call, Signing
  <2>5. counts'[idx] = MaxCount - mc
    BY <2>3, <2>4, <1>1 DEF Inv, Safe, Chip
  <2> QED
    BY <2>4, <2>5, MaxCountAssumption
<1> QED
  BY <1>1, Invariance, PTL DEF Spec, SignCountGrows
=============================================================================
