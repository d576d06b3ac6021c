---------------------------- MODULE PgpCardProofs ----------------------------
(***************************************************************************)
(* Proofs about the OpenPGP card of PgpCard, for any number of rounds,     *)
(* secrets, codes, boot tries and faults.                                  *)
(***************************************************************************)
EXTENDS PgpCard, TLAPS

-----------------------------------------------------------------------------
(* The inductive invariant. *)

(* What holds of the chip between any two of its calls: its types, and     *)
(* that a record that is absent or TERMINATED says nothing else, ...       *)
Chip ==
    /\ o3 \in {"ok", "absent", "torn"} /\ o3rec \in Record
    /\ ecc \in [EccKeys -> Secrets \cup {None}]
    /\ pin \in [PinIds -> Binding]
    /\ lead \in 0 .. 1
    /\ o3 = "absent" \/ o3rec.lc = "TERMINATED" => o3rec = Blank

(* ... a PIN protects a secret of its own kind or does not exist, ...      *)
Form(p, b) ==
    /\ b \in Binding
    /\ b.st = "absent" => b = NoBinding
    /\ b.st # "absent" => b.s \in (IF p = "RC" THEN Codes ELSE Secrets)
Forms == \A p \in PinIds : Form(p, pin[p])

(* ... keys belong to a PIN that is there or may be found again, ...       *)
Owned ==
    /\ pin["PW3"].st # "absent" => \A k \in EccKeys : ecc[k] \in {None, pin["PW3"].s}
    /\ pin["PW1"].st # "absent" => o3rec.dec \in {None, pin["PW1"].s}

(* ... and a permanent UIF is in the record.                               *)
Permanent == perm => o3 # "absent" /\ o3rec.uif = 2

Safe == Chip /\ Forms /\ Owned /\ RecordIsTrue /\ Permanent

(* The types of the RAM. *)
Cells ==
    /\ ram \in Record /\ uncP \in SUBSET PinIds /\ tries \in 0 .. BootTries
    /\ auth \in SUBSET AllFlags /\ kek \in Secrets \cup {None}
    /\ faults \in 0 .. MaxFaults
Asked == asked \in SUBSET Codes

Flags ==
    /\ loaded \in BOOLEAN /\ unc3 \in BOOLEAN /\ touched \in BOOLEAN /\ ensured \in BOOLEAN
    /\ perm \in BOOLEAN

(* The calls of each operation, and their argument. *)
Wipes == {"boot", "terminate", "activate"}
PinPcs == {"retire", "drop"}
UsePcs == {"count", "decipher", "authenticate"}

Shape ==
    \/ op = "none" /\ pc = "idle"
    \/ op = "boot" /\ pc = "load"
    \/ op = "terminate" /\ pc = "stat"
    \/ op \in {"boot", "terminate"} /\ pc = "erase" /\ arg \in EccKeys
    \/ op \in {"boot", "terminate"} /\ pc \in {"clear3", "init3"}
    \/ op \in Wipes /\ pc \in PinPcs /\ arg \in PinIds
    \/ op \in {"boot", "activate"} /\ pc = "bind" /\ arg \in {"PW1", "PW3"}
    \/ op = "activate" /\ pc = "activate"
    \/ op = "verify" /\ pc = "try" /\ arg \in AllFlags
    \/ op = "status" /\ pc = "stat" /\ arg \in PinIds
    \/ op = "change" /\ pc \in {"stat", "try"} /\ arg \in {"PW1", "PW3"}
    \/ op = "reset" /\ pc \in {"statRC", "stat", "tryRC", "destroy", "bind"} /\ arg \in BOOLEAN
    \/ op = "setrc" /\ pc \in {"retire", "drop", "guard0"} /\ arg \in Codes \cup {None}
    \/ op = "setrc" /\ pc \in {"bind", "guard1"} /\ arg \in Codes
    \/ op = "generate" /\ pc \in {"erase", "gen"} /\ arg \in EccKeys
    \/ op = "generate" /\ pc = "decSet"
    \/ op = "put" /\ pc = "put" /\ arg \in Record
    \/ op = "use" /\ pc = "touch" /\ arg \in UsePcs
    \/ op = "use" /\ pc \in UsePcs \cup {"sign"}

(* The RAM copy of O3 is the record while it is trusted, and every         *)
(* operation that writes it runs while it is, in its lifecycle.            *)
RamIsChip == usable => o3 = "ok" /\ ram = o3rec

Served == {"status", "change", "reset", "setrc", "generate", "put", "use"}
Trusted ==
    /\ op \in Served \/ (op = "verify" /\ arg # 83) => usable /\ ram.lc = "OPERATIONAL"
    /\ op = "activate" => usable /\ ram.lc = "TERMINATED"
    /\ op = "boot" => ~loaded

(* How far a wipe has come: keys, then O3, then the PINs in their order,   *)
(* then the factory PINs.                                                  *)
Erased(K) == \A k \in K : ecc[k] = None
Gone(P) == \A p \in P : pin[p] = NoBinding
Factory(p) == pin[p].st = "ok" /\ pin[p].keyed

Wiping ==
    /\ op \in {"boot", "terminate"} /\ pc = "erase" =>
          /\ arg = "dec" => Erased({"sig"})
          /\ arg = "aut" => Erased({"sig", "dec"})
    /\ op \in {"boot", "terminate"} /\ pc \in PinPcs \cup {"clear3", "bind", "init3"} => Erased(EccKeys)
    /\ op \in {"boot", "terminate"} /\ pc \in PinPcs \cup {"bind", "init3"} => o3 = "absent"
    /\ op \in Wipes /\ pc \in PinPcs =>
          /\ arg = "PW3" => Gone({"PW1"})
          /\ arg = "RC" => Gone({"PW1", "PW3"})
    /\ op \in Wipes /\ pc \in {"bind", "init3", "activate"} => Gone({"RC"})
    /\ op \in Wipes /\ pc = "bind" /\ arg = "PW3" => Factory("PW1")
    /\ op \in {"boot", "activate"} /\ pc \in {"init3", "activate"} => Factory("PW1") /\ Factory("PW3")
    /\ op = "terminate" /\ pc = "init3" => Gone(PinIds)

(* No access to PW1 while its binding or the DEC key is being replaced. *)
Dropped ==
    \/ ~loaded \/ op = "activate"
    \/ op = "terminate" /\ pc # "stat"
    \/ op = "reset" /\ pc \in {"destroy", "bind"}
Access == KekIsLive /\ (Dropped => kek = None)

(* A reset destroys the wrap first; PUT DATA keeps what it does not set,   *)
(* and a permanent UIF; a code that is being set has been asked for.       *)
Writing ==
    /\ op = "reset" /\ pc = "bind" => ram.dec = None
    /\ pc = "put" => /\ arg.lc = ram.lc /\ arg.rc = ram.rc /\ arg.dec = ram.dec
                     /\ ram.uif = 2 => arg.uif = 2
    /\ op = "setrc" => arg = None \/ arg \in asked
    /\ op = "setrc" /\ pc = "guard1" => pin["RC"].s = arg

(* A key at work: counted, and touched unless the UIF is off. *)
Working ==
    /\ pc = "sign" => lead = 1
    /\ op = "use" /\ pc # "touch" => touched \/ ram.uif = 0

(* An answer is given when the operation is over. *)
Answered == (pc # "idle" => ret = "none") /\ WipeErasesAll

Control ==
    /\ Cells /\ Asked /\ Shape /\ RamIsChip /\ Trusted /\ Wiping /\ Access /\ Writing /\ Working /\ Answered

Inv == Safe /\ OnlyLatestCode /\ Control

-----------------------------------------------------------------------------
LEMMA RecordFacts ==
    /\ Blank \in Record /\ Blank.lc = "TERMINATED" /\ Blank.dec = None /\ ~Blank.rc
    /\ Defaults("TERMINATED") = Blank
    /\ Defaults("OPERATIONAL") \in Record /\ Defaults("OPERATIONAL").lc = "OPERATIONAL"
    /\ Defaults("OPERATIONAL").dec = None /\ ~Defaults("OPERATIONAL").rc
  BY DEF Blank, Defaults, Record

LEMMA BindingFacts ==
    /\ NoBinding \in Binding /\ NoBinding.st = "absent" /\ NoBinding.s = None /\ ~NoBinding.keyed
    /\ \A p \in PinIds : Form(p, NoBinding)
  BY RoundsAssumption DEF NoBinding, Binding, Form

(* What a call on the chip leaves of the Resetting Code. *)
CodeKept ==
    o3' # "absent" /\ o3rec'.rc /\ pin'["RC"].st # "absent" /\ pin'["RC"].keyed =>
        pin'["RC"].s \in asked

LEMMA CodeStep ==
    ASSUME CodeKept, asked \subseteq asked'
    PROVE  OnlyLatestCode'
  BY DEF CodeKept, OnlyLatestCode

-----------------------------------------------------------------------------
(* The calls of the chip. *)

(* A PIN record changes. *)
LEMMA PinStep ==
    ASSUME Inv, NEW p \in PinIds, NEW b, Form(p, b), pin' = [pin EXCEPT ![p] = b],
           UNCHANGED <<o3, o3rec, ecc, lead, perm>>,
           p = "PW3" /\ b.st # "absent" => \A k \in EccKeys : ecc[k] \in {None, b.s},
           p = "PW1" /\ b.st # "absent" => o3rec.dec \in {None, b.s},
           p # "RC" /\ o3 # "absent" /\ o3rec.lc = "OPERATIONAL" => b.st = "ok" /\ b.keyed,
           p = "RC" /\ o3 # "absent" /\ o3rec.rc /\ b.st # "absent" /\ b.keyed => b.s \in asked
    PROVE  Safe' /\ CodeKept /\ pin'[p] = b /\ \A q \in PinIds : q # p => pin'[q] = pin[q]
<1>1. pin \in [PinIds -> Binding] /\ b \in Binding
  BY DEF Inv, Safe, Chip, Form
<1>2. pin' \in [PinIds -> Binding] /\ pin'[p] = b /\ \A q \in PinIds : q # p => pin'[q] = pin[q]
  BY <1>1
<1>3. Chip' /\ Permanent'
  BY <1>2 DEF Inv, Safe, Chip, Permanent
<1>4. Forms'
  <2>1. ASSUME NEW q \in PinIds PROVE Form(q, pin'[q])
    BY <1>2 DEF Inv, Safe, Forms
  <2> QED
    BY <2>1 DEF Forms, Form
<1>5. "PW1" \in PinIds /\ "PW3" \in PinIds /\ "RC" \in PinIds
  BY DEF PinIds
<1>6. Owned'
  BY <1>2, <1>5 DEF Inv, Safe, Owned
<1>7. RecordIsTrue'
  BY <1>2, <1>5 DEF Inv, Safe, RecordIsTrue
<1>8. CodeKept
  BY <1>2, <1>5 DEF Inv, OnlyLatestCode, CodeKept
<1> QED
  BY <1>2, <1>3, <1>4, <1>6, <1>7, <1>8 DEF Safe

(* A PIN that is there is read or tried: its secret and its slots stay.    *)
LEMMA TriedStep ==
    ASSUME Inv, NEW p \in PinIds, NEW b \in Binding, pin[p].st # "absent",
           b.st # "absent" /\ b.s = pin[p].s /\ b.keyed = pin[p].keyed,
           b.st = "ok" \/ b.st = pin[p].st,
           pin' = [pin EXCEPT ![p] = b], UNCHANGED <<o3, o3rec, ecc, lead, perm>>
    PROVE  Safe' /\ CodeKept /\ pin'["PW1"].s = pin["PW1"].s
           /\ \A q \in PinIds : q # p => pin'[q] = pin[q]
<1>1. Form(p, b)
  BY DEF Inv, Safe, Forms, Form
<1>2. "PW1" \in PinIds /\ "PW3" \in PinIds /\ "RC" \in PinIds
  BY DEF PinIds
<1>3. /\ p = "PW3" => \A k \in EccKeys : ecc[k] \in {None, b.s}
      /\ p = "PW1" => o3rec.dec \in {None, b.s}
  BY DEF Inv, Safe, Owned
<1>4. p # "RC" /\ o3 # "absent" /\ o3rec.lc = "OPERATIONAL" => b.st = "ok" /\ b.keyed
  BY DEF Inv, Safe, RecordIsTrue, PinIds
<1>5. p = "RC" /\ o3 # "absent" /\ o3rec.rc /\ b.keyed => b.s \in asked
  BY DEF Inv, OnlyLatestCode
<1>6. Safe' /\ CodeKept /\ pin'[p] = b /\ \A q \in PinIds : q # p => pin'[q] = pin[q]
  BY <1>1, <1>3, <1>4, <1>5, PinStep
<1> QED
  BY <1>2, <1>6

(* A key is erased or generated: under the PW3 of today, on an operational *)
(* card.                                                                   *)
LEMMA KeyStep ==
    ASSUME Inv, NEW k \in EccKeys, NEW x, OnKey(k, x),
           x = None \/ (x = pin["PW3"].s /\ o3rec.lc = "OPERATIONAL" /\ o3 # "absent")
    PROVE  /\ Safe' /\ CodeKept /\ UNCHANGED <<o3, o3rec, pin, lead, perm>>
           /\ ecc'[k] = x /\ \A j \in EccKeys : j # k => ecc'[j] = ecc[j]
<1>1. ecc' = [ecc EXCEPT ![k] = x] /\ UNCHANGED <<o3, o3rec, pin, lead, perm>>
  BY DEF OnKey
<1>2. x \in Secrets \cup {None}
  <2>1. CASE x # None
    <3>1. pin["PW3"].st = "ok"
      BY <2>1 DEF Inv, Safe, RecordIsTrue
    <3>2. Form("PW3", pin["PW3"])
      BY DEF Inv, Safe, Forms, PinIds
    <3> QED
      BY <2>1, <3>1, <3>2 DEF Form
  <2> QED
    BY <2>1
<1>3. ecc'[k] = x /\ (\A j \in EccKeys : j # k => ecc'[j] = ecc[j])
      /\ ecc' \in [EccKeys -> Secrets \cup {None}]
  BY <1>1, <1>2 DEF Inv, Safe, Chip
<1>4. Chip' /\ Permanent'
  BY <1>1, <1>3 DEF Inv, Safe, Chip, Permanent
<1>5. Forms'
  BY <1>1 DEF Inv, Safe, Forms, Form
<1>6. Owned' /\ RecordIsTrue'
  BY <1>1, <1>3 DEF Inv, Safe, Owned, RecordIsTrue
<1>7. CodeKept
  BY <1>1 DEF Inv, OnlyLatestCode, CodeKept
<1> QED
  BY <1>1, <1>3, <1>4, <1>5, <1>6, <1>7 DEF Safe

(* O3 goes, tears or comes: everything but O3 stays. *)
LEMMA O3Step ==
    ASSUME Inv, NEW st \in {"ok", "absent", "torn"}, NEW r \in Record, OnO3(st, r),
           \/ st = "absent" /\ r = Blank
           \/ st # "absent" /\ o3 # "absent" /\ r = o3rec
           \/ st # "absent" /\ o3 = "absent" /\ r = Blank /\ Erased(EccKeys)
           \/ /\ st # "absent" /\ o3 = "absent" /\ r = Defaults("OPERATIONAL")
              /\ Factory("PW1") /\ Factory("PW3")
    PROVE  Safe' /\ CodeKept /\ o3' = st /\ o3rec' = r /\ UNCHANGED <<ecc, pin>>
<1>1. /\ o3' = st /\ o3rec' = r /\ UNCHANGED <<ecc, pin>>
      /\ lead' = IF st = "absent" THEN 0 ELSE lead
  BY DEF OnO3
<1>2. Chip'
  <2>1. lead' \in 0 .. 1
    BY <1>1 DEF Inv, Safe, Chip
  <2>2. o3' = "absent" \/ o3rec'.lc = "TERMINATED" => o3rec' = Blank
    <3>1. o3 = "absent" \/ o3rec.lc = "TERMINATED" => o3rec = Blank
      BY DEF Inv, Safe, Chip
    <3>2. Defaults("OPERATIONAL").lc = "OPERATIONAL"
      BY RecordFacts
    <3> QED
      BY <1>1, <3>1, <3>2
  <2> QED
    BY <1>1, <2>1, <2>2 DEF Inv, Safe, Chip
<1>3. Forms'
  BY <1>1 DEF Inv, Safe, Forms, Form
<1>4. Owned'
  BY <1>1, RecordFacts DEF Inv, Safe, Owned
<1>5. RecordIsTrue'
  BY <1>1, RecordFacts DEF Inv, Safe, RecordIsTrue, Erased, Factory
<1>6. Permanent'
  <2>1. perm' => perm /\ st # "absent"
    BY Zenon DEF OnO3
  <2> QED
    BY <1>1, <2>1 DEF Inv, Safe, Permanent
<1>7. CodeKept
  BY <1>1, RecordFacts DEF Inv, OnlyLatestCode, CodeKept
<1> QED
  BY <1>1, <1>2, <1>3, <1>4, <1>5, <1>6, <1>7 DEF Safe

(* What commit() and openpgp_state_activate() write. *)
LEMMA StoreFacts ==
    ASSUME Inv, pc \in Stores
    PROVE  /\ usable /\ o3 = "ok" /\ ram = o3rec /\ StoreAllowed
           /\ StoreValue \in Record /\ StoreValue.lc = "OPERATIONAL"
           /\ StoreValue.dec \in {None, o3rec.dec, kek}
           /\ StoreValue.dec = kek => kek = None \/ pc = "decSet" \/ o3rec.dec = kek
           /\ StoreValue.rc => o3rec.rc \/ (op = "setrc" /\ pc = "guard1")
           /\ pc # "activate" /\ o3rec.uif = 2 => StoreValue.uif = 2
           /\ pc = "put" => StoreValue = arg
           /\ pc = "destroy" => StoreValue.dec = None
           /\ pc = "guard0" => ~StoreValue.rc
           /\ pc = "count" => StoreValue = ram
           /\ pc = "activate" => op = "activate" /\ o3rec = Blank /\ StoreValue = Defaults("OPERATIONAL")
<1>1. /\ pc = "activate" => op = "activate"
      /\ pc # "activate" => op \in Served
      /\ pc = "put" => arg \in Record
      /\ pc = "guard1" => op = "setrc"
  BY DEF Inv, Control, Shape, Stores, Served, PinPcs, UsePcs, Wipes
<1>2. /\ usable /\ o3 = "ok" /\ ram = o3rec /\ ram \in Record /\ kek \in Secrets \cup {None}
      /\ ram.lc = (IF pc = "activate" THEN "TERMINATED" ELSE "OPERATIONAL")
  BY <1>1 DEF Inv, Control, Trusted, RamIsChip, Cells
<1>3. StoreAllowed
  BY <1>2 DEF StoreAllowed
<1>4. CASE pc \in {"guard0", "guard1"}
  BY <1>1, <1>2, <1>3, <1>4 DEF StoreValue, Record
<1>5. CASE pc = "destroy"
  BY <1>1, <1>2, <1>3, <1>5 DEF StoreValue, Record
<1>6. CASE pc = "decSet"
  BY <1>1, <1>2, <1>3, <1>6 DEF StoreValue, Record
<1>7. CASE pc = "count"
  BY <1>1, <1>2, <1>3, <1>7 DEF StoreValue
<1>8. CASE pc = "put"
  <2>1. StoreValue = arg
    BY <1>8 DEF StoreValue
  <2>2. /\ arg.lc = ram.lc /\ arg.rc = ram.rc /\ arg.dec = ram.dec
        /\ ram.uif = 2 => arg.uif = 2
    BY <1>8 DEF Inv, Control, Writing
  <2> QED
    BY <1>1, <1>2, <1>3, <1>8, <2>1, <2>2
<1>9. CASE pc = "activate"
  <2>1. StoreValue = Defaults("OPERATIONAL")
    BY <1>9 DEF StoreValue
  <2>2. o3rec = Blank
    BY <1>2, <1>9 DEF Inv, Safe, Chip
  <2> QED
    BY <1>1, <1>2, <1>3, <1>9, <2>1, <2>2, RecordFacts
<1> QED
  BY <1>4, <1>5, <1>6, <1>7, <1>8, <1>9 DEF Stores

LEMMA StoreStep ==
    ASSUME Inv, pc \in Stores, Effect
    PROVE  Safe' /\ CodeKept /\ o3' = "ok" /\ o3rec' = StoreValue /\ UNCHANGED <<ecc, pin>>
           /\ lead' = IF pc = "count" THEN 1 ELSE lead
<1>1. /\ o3' = "ok" /\ o3rec' = StoreValue
      /\ perm' = (perm \/ (pc = "put" /\ arg.uif = 2))
      /\ lead' = IF pc = "count" THEN 1 ELSE lead
      /\ UNCHANGED <<ecc, pin>>
  BY Zenon DEF Effect, Stores
<1>2. Chip'
  BY <1>1, StoreFacts DEF Inv, Safe, Chip
<1>3. Forms'
  BY <1>1 DEF Inv, Safe, Forms, Form
<1>4. Owned'
  <2>1. pin'["PW3"].st # "absent" => \A k \in EccKeys : ecc'[k] \in {None, pin'["PW3"].s}
    BY <1>1 DEF Inv, Safe, Owned
  <2>2. kek # None => kek = pin["PW1"].s
    BY DEF Inv, Control, Access, KekIsLive
  <2>3. pin'["PW1"].st # "absent" => o3rec'.dec \in {None, pin'["PW1"].s}
    BY <1>1, <2>2, StoreFacts DEF Inv, Safe, Owned
  <2> QED
    BY <2>1, <2>3 DEF Owned
<1>5. RecordIsTrue'
  <2>1. CASE pc = "activate"
    BY <1>1, <2>1, StoreFacts DEF Inv, Control, Wiping, Factory, RecordIsTrue
  <2>2. CASE pc # "activate"
    BY <1>1, <2>2, StoreFacts DEF Inv, Safe, RecordIsTrue, StoreAllowed
  <2> QED
    BY <2>1, <2>2
<1>6. Permanent'
  <2>1. perm' => perm \/ (pc = "put" /\ arg.uif = 2)
    BY <1>1, Zenon
  <2>2. pc = "activate" => ~perm
    BY StoreFacts DEF Inv, Safe, Permanent, Blank, Defaults
  <2> QED
    BY <1>1, <2>1, <2>2, StoreFacts DEF Inv, Safe, Permanent
<1>7. CodeKept
  <2>1. op = "setrc" /\ pc = "guard1" => pin["RC"].s \in asked
    BY NoneAssumption DEF Inv, Control, Writing, Shape, PinPcs, UsePcs, Wipes
  <2> QED
    BY <1>1, <2>1, StoreFacts DEF Inv, OnlyLatestCode, CodeKept
<1> QED
  BY <1>1, <1>2, <1>3, <1>4, <1>5, <1>6, <1>7 DEF Safe

(* The PIN a step works on. *)
PinSteps == {"stat", "statRC", "try", "tryRC", "retire", "drop", "bind"}

LEMMA WhichFacts ==
    ASSUME Inv, pc \in PinSteps
    PROVE  /\ Which \in PinIds
           /\ pc \in {"retire", "drop", "bind"} => op \in Wipes \cup {"setrc", "reset"}
           /\ op = "setrc" => Which = "RC"
           /\ op \in Wipes /\ pc # "stat" => Which = arg
           /\ op = "reset" /\ pc = "bind" => Which = "PW1"
           /\ pc \in {"retire", "drop"} => op # "reset"
<1>1. pc \in {"statRC", "tryRC"} => op = "reset"
  BY DEF Inv, Control, Shape, PinPcs, UsePcs, Wipes
<1>2. CASE pc \in {"statRC", "tryRC"}
  <2>1. Which = "RC"
    BY <1>1, <1>2 DEF Which
  <2> QED
    BY <1>1, <1>2, <2>1 DEF PinIds, Wipes
<1>3. CASE pc \notin {"statRC", "tryRC"} /\ op = "setrc"
  <2>1. Which = "RC"
    BY <1>3 DEF Which
  <2> QED
    BY <1>3, <2>1 DEF PinIds, Wipes
<1>4. CASE pc \notin {"statRC", "tryRC"} /\ op = "reset"
  <2>1. Which = "PW1"
    BY <1>4 DEF Which
  <2>2. pc \notin {"retire", "drop"}
    BY <1>4 DEF Inv, Control, Shape, PinPcs, UsePcs, Wipes
  <2> QED
    BY <1>4, <2>1, <2>2 DEF PinIds, Wipes
<1>5. CASE pc \notin {"statRC", "tryRC"} /\ op = "verify"
  <2>1. Which = pin_of(arg) /\ pc = "try"
    BY <1>5 DEF Which, PinSteps, Inv, Control, Shape, PinPcs, UsePcs, Wipes
  <2> QED
    BY <1>5, <2>1 DEF PinIds, Wipes, pin_of
<1>6. CASE op = "terminate" /\ pc = "stat"
  BY <1>6 DEF Which, PinIds, Wipes
<1>7. CASE /\ pc \notin {"statRC", "tryRC"} /\ op \notin {"setrc", "reset", "verify"}
           /\ ~(op = "terminate" /\ pc = "stat")
  <2>1. Which = arg
    BY <1>7 DEF Which
  <2>2. arg \in PinIds /\ (pc \in {"retire", "drop", "bind"} => op \in Wipes)
    BY <1>7 DEF PinSteps, PinIds, Inv, Control, Shape, PinPcs, UsePcs, Wipes
  <2> QED
    BY <1>7, <2>1, <2>2
<1> QED
  BY <1>2, <1>3, <1>4, <1>5, <1>6, <1>7

(* A wipe, and nothing else, works on PW1 and PW3 without a record that    *)
(* speaks of them; the wrap and the keys are gone when they are bound.     *)
LEMMA ReplaceFacts ==
    ASSUME Inv, pc \in {"retire", "drop", "bind"}
    PROVE  /\ op \in Wipes => o3 = "absent" \/ o3rec.lc = "TERMINATED"
           /\ op \in Wipes \cup {"reset"} => kek = None
           /\ pc = "bind" /\ op \in Wipes => Erased(EccKeys)
           /\ pc = "bind" /\ op \in Wipes \cup {"reset"} => o3rec.dec = None
           /\ pc = "bind" /\ op = "setrc" => arg \in Codes /\ arg \in asked
           /\ op # "setrc" => Which # "RC" \/ pc # "bind"
<1>1. CASE op \in {"boot", "terminate"}
  <2>1. o3 = "absent" /\ Erased(EccKeys)
    BY <1>1 DEF Inv, Control, Wiping, PinPcs
  <2>2. o3rec.dec = None
    BY <2>1, RecordFacts DEF Inv, Safe, Chip
  <2>3. kek = None
    BY <1>1 DEF Inv, Control, Access, Dropped, Trusted
  <2>4. pc = "bind" => arg # "RC"
    BY <1>1 DEF Inv, Control, Shape, PinPcs, UsePcs, Wipes
  <2> QED
    BY <1>1, <2>1, <2>2, <2>3, <2>4, WhichFacts DEF PinSteps, Wipes
<1>2. CASE op = "activate"
  <2>1. o3rec.lc = "TERMINATED" /\ o3 = "ok"
    BY <1>2 DEF Inv, Control, Trusted, RamIsChip
  <2>2. o3rec.dec = None /\ Erased(EccKeys)
    BY <2>1 DEF Inv, Safe, RecordIsTrue, Erased
  <2>3. kek = None
    BY <1>2 DEF Inv, Control, Access, Dropped
  <2>4. pc = "bind" => arg # "RC"
    BY <1>2 DEF Inv, Control, Shape, PinPcs, UsePcs, Wipes
  <2> QED
    BY <1>2, <2>1, <2>2, <2>3, <2>4, WhichFacts DEF PinSteps, Wipes
<1>3. CASE op = "reset"
  <2>1. pc = "bind" /\ Which = "PW1"
    BY <1>3, WhichFacts DEF PinSteps
  <2>2. kek = None
    BY <1>3, <2>1 DEF Inv, Control, Access, Dropped
  <2>3. o3rec.dec = None
    BY <1>3, <2>1 DEF Inv, Control, Trusted, RamIsChip, Writing, Served
  <2> QED
    BY <1>3, <2>1, <2>2, <2>3 DEF Wipes
<1>4. CASE op = "setrc"
  <2>1. pc = "bind" => arg \in Codes
    BY <1>4 DEF Inv, Control, Shape, PinPcs, UsePcs, Wipes
  <2>2. pc = "bind" => arg \in asked
    BY <1>4, <2>1, NoneAssumption DEF Inv, Control, Writing
  <2> QED
    BY <1>4, <2>1, <2>2 DEF Wipes
<1> QED
  BY <1>1, <1>2, <1>3, <1>4, WhichFacts DEF PinSteps, Wipes

(* What every call, finished or not, leaves. *)
O3Steps == Stores \cup {"clear3", "init3"}

ChipStep ==
    /\ Safe' /\ CodeKept
    /\ kek = None \/ pin'["PW1"].s = pin["PW1"].s
    /\ pc \notin O3Steps => UNCHANGED <<o3, o3rec>>

(* A binding that is retired, dropped, torn or made. *)
LEMMA ReplaceStep ==
    ASSUME Inv, pc \in {"retire", "drop", "bind"}, NEW b, OnPin(b), Form(Which, b),
           \/ pc # "bind" /\ b.st = "absent"
           \/ /\ pc # "bind" /\ b.s = pin[Which].s /\ pin[Which].st # "absent"
              /\ b.st # "absent" /\ b.keyed => pin[Which].keyed
           \/ /\ pc = "bind" /\ b.s \in BindSecrets(Which)
              /\ (b.st = "ok" /\ b.keyed) \/ pin[Which].st = "absent"
    PROVE  ChipStep
<1>1. pin' = [pin EXCEPT ![Which] = b] /\ UNCHANGED <<o3, o3rec, ecc, lead, perm>>
  BY DEF OnPin
<1>2. Which \in PinIds /\ pc \in PinSteps
  BY WhichFacts DEF PinSteps
<1>3. Which = "PW3" /\ b.st # "absent" => \A k \in EccKeys : ecc[k] \in {None, b.s}
  <2>1. CASE b.s = pin[Which].s /\ pin[Which].st # "absent"
    BY <2>1 DEF Inv, Safe, Owned
  <2>2. CASE pc = "bind" /\ Which = "PW3"
    BY <2>2, <1>2, WhichFacts, ReplaceFacts DEF Erased
  <2> QED
    BY <2>1, <2>2
<1>4. Which = "PW1" /\ b.st # "absent" => o3rec.dec \in {None, b.s}
  <2>1. CASE b.s = pin[Which].s /\ pin[Which].st # "absent"
    BY <2>1 DEF Inv, Safe, Owned
  <2>2. CASE pc = "bind" /\ Which = "PW1"
    BY <2>2, <1>2, WhichFacts, ReplaceFacts
  <2> QED
    BY <2>1, <2>2
<1>5. Which # "RC" /\ o3 # "absent" /\ o3rec.lc = "OPERATIONAL" => b.st = "ok" /\ b.keyed
  <2>1. CASE op \in Wipes
    BY <2>1, ReplaceFacts
  <2>2. CASE op = "setrc"
    BY <1>2, <2>2, WhichFacts
  <2>3. CASE op = "reset" /\ o3 # "absent" /\ o3rec.lc = "OPERATIONAL"
    <3>1. pc = "bind" /\ Which = "PW1" /\ pin["PW1"].st = "ok" /\ pin["PW1"].keyed
      BY <1>2, <2>3, WhichFacts DEF Inv, Safe, RecordIsTrue
    <3> QED
      BY <3>1
  <2> QED
    BY <1>2, <2>1, <2>2, <2>3, WhichFacts
<1>6. Which = "RC" /\ o3 # "absent" /\ o3rec.rc /\ b.st # "absent" /\ b.keyed => b.s \in asked
  <2>1. CASE b.s = pin[Which].s /\ pin[Which].st # "absent" /\ (b.st # "absent" /\ b.keyed => pin[Which].keyed)
    BY <2>1 DEF Inv, OnlyLatestCode
  <2>2. CASE pc = "bind" /\ Which = "RC" /\ b.s \in BindSecrets(Which)
    <3>1. op = "setrc"
      BY <1>2, <2>2, WhichFacts, ReplaceFacts
    <3>2. b.s = arg
      BY <2>2 DEF BindSecrets
    <3> QED
      BY <2>2, <3>1, <3>2, ReplaceFacts
  <2> QED
    BY <2>1, <2>2
<1>7. Safe' /\ CodeKept /\ pin'[Which] = b /\ \A q \in PinIds : q # Which => pin'[q] = pin[q]
  BY <1>1, <1>2, <1>3, <1>4, <1>5, <1>6, PinStep
<1>8. kek = None \/ pin'["PW1"].s = pin["PW1"].s
  <2>1. op = "setrc" => Which = "RC"
    BY <1>2, WhichFacts
  <2> QED
    BY <1>2, <1>7, <2>1, WhichFacts, ReplaceFacts DEF PinIds
<1> QED
  BY <1>1, <1>7, <1>8 DEF ChipStep

LEMMA BindFacts ==
    ASSUME Inv, pc = "bind", NEW x \in BindSecrets(Which), NEW st \in {"ok", "torn"}
    PROVE  /\ Form(Which, NewBinding(st, x))
           /\ NewBinding(st, x).st = st /\ NewBinding(st, x).keyed /\ NewBinding(st, x).s = x
<1>1. Which = "RC" => x = arg /\ op = "setrc"
  BY WhichFacts, ReplaceFacts DEF BindSecrets, PinSteps
<1>2. Which = "RC" => x \in Codes
  BY <1>1, ReplaceFacts
<1>3. Which # "RC" => x \in Secrets
  BY DEF BindSecrets, Fresh
<1> QED
  BY <1>2, <1>3, RoundsAssumption DEF Form, NewBinding, Binding

(* A call that runs to its end keeps the chip safe. *)
LEMMA EffectStep ==
    ASSUME Inv, Effect
    PROVE  ChipStep
<1>1. CASE pc = "erase"
  <2>1. arg \in EccKeys
    BY <1>1 DEF Inv, Control, Shape, PinPcs, UsePcs, Wipes
  <2>2. OnKey(arg, None)
    BY <1>1 DEF Effect, Stores
  <2> QED
    BY <2>1, <2>2, KeyStep DEF ChipStep
<1>2. CASE pc = "gen"
  <2>1. arg \in EccKeys /\ op = "generate"
    BY <1>2 DEF Inv, Control, Shape, PinPcs, UsePcs, Wipes
  <2>2. OnKey(arg, pin["PW3"].s)
    BY <1>2 DEF Effect, Stores
  <2>3. o3rec.lc = "OPERATIONAL" /\ o3 # "absent"
    BY <2>1 DEF Inv, Control, Trusted, RamIsChip, Served
  <2> QED
    BY <2>1, <2>2, <2>3, KeyStep DEF ChipStep
<1>3. CASE pc = "clear3"
  <2>1. OnO3("absent", Blank)
    BY <1>3 DEF Effect, Stores
  <2> QED
    BY <1>3, <2>1, O3Step, RecordFacts DEF ChipStep, O3Steps
<1>4. CASE pc = "init3"
  <2>1. OnO3("ok", Defaults(IF op = "boot" THEN "OPERATIONAL" ELSE "TERMINATED"))
    BY <1>4 DEF Effect, Stores
  <2>2. o3 = "absent" /\ Erased(EccKeys) /\ (op = "boot" => Factory("PW1") /\ Factory("PW3"))
    BY <1>4 DEF Inv, Control, Wiping, Shape, PinPcs, UsePcs, Wipes
  <2>3. CASE op = "boot"
    BY <1>4, <2>1, <2>2, <2>3, O3Step, RecordFacts DEF ChipStep, O3Steps
  <2>4. CASE op # "boot"
    BY <1>4, <2>1, <2>2, <2>4, O3Step, RecordFacts DEF ChipStep, O3Steps
  <2> QED
    BY <2>3, <2>4
<1>5. CASE pc \in Stores
  BY <1>5, StoreStep DEF ChipStep, O3Steps
<1>6. CASE pc = "retire"
  <2>1. OnPin([pin[Which] EXCEPT !.keyed = FALSE])
    BY <1>6 DEF Effect, Stores
  <2>2. Which \in PinIds
    BY <1>6, WhichFacts DEF PinSteps
  <2>3. Form(Which, pin[Which])
    BY <2>2 DEF Inv, Safe, Forms
  <2> DEFINE b == [pin[Which] EXCEPT !.keyed = FALSE]
  <2>4. b \in Binding /\ b.st = pin[Which].st /\ b.s = pin[Which].s /\ ~b.keyed
    BY <2>3 DEF Form, Binding
  <2>5. Form(Which, b)
    BY <2>3, <2>4 DEF Form, Binding, NoBinding
  <2> HIDE DEF b
  <2> QED
    BY <1>6, <2>1, <2>4, <2>5, ReplaceStep DEF b
<1>7. CASE pc = "drop"
  <2>1. OnPin(NoBinding)
    BY <1>7 DEF Effect, Stores
  <2>2. Which \in PinIds
    BY <1>7, WhichFacts DEF PinSteps
  <2> QED
    BY <1>7, <2>1, <2>2, ReplaceStep, BindingFacts
<1>8. CASE pc = "bind"
  <2>1. PICK x \in BindSecrets(Which) : OnPin(NewBinding("ok", x))
    BY <1>8 DEF Effect, Stores
  <2> QED
    BY <1>8, <2>1, ReplaceStep, BindFacts
<1>9. CASE pc = "sign"
  <2>1. lead' = lead - 1 /\ UNCHANGED <<o3, o3rec, ecc, pin, perm>>
    BY <1>9 DEF Effect, Stores
  <2>2. lead = 1
    BY <1>9 DEF Inv, Control, Working
  <2>3. Chip' /\ Forms' /\ CodeKept
    BY <2>1, <2>2 DEF Inv, Safe, Chip, Forms, Form, CodeKept, OnlyLatestCode
  <2>4. Owned' /\ RecordIsTrue' /\ Permanent'
    BY <2>1, <2>2 DEF Inv, Safe, Owned, RecordIsTrue, Permanent
  <2> QED
    BY <2>1, <2>3, <2>4 DEF ChipStep, Safe
<1> QED
  BY <1>1, <1>2, <1>3, <1>4, <1>5, <1>6, <1>7, <1>8, <1>9, Zenon DEF Effect

(* So does what a call that is cut may leave. *)
LEMMA TornStep ==
    ASSUME Inv, Torn
    PROVE  ChipStep
<1>1. CASE pc = "clear3"
  <2>1. o3 # "absent" /\ OnO3("torn", o3rec)
    BY <1>1 DEF Torn
  <2>2. o3rec \in Record
    BY DEF Inv, Safe, Chip
  <2> QED
    BY <1>1, <2>1, <2>2, O3Step DEF ChipStep, O3Steps
<1>2. CASE pc = "init3"
  <2>1. OnO3("torn", Defaults(IF op = "boot" THEN "OPERATIONAL" ELSE "TERMINATED"))
    BY <1>2 DEF Torn
  <2>2. o3 = "absent" /\ Erased(EccKeys) /\ (op = "boot" => Factory("PW1") /\ Factory("PW3"))
    BY <1>2 DEF Inv, Control, Wiping, Shape, PinPcs, UsePcs, Wipes
  <2>3. CASE op = "boot"
    BY <1>2, <2>1, <2>2, <2>3, O3Step, RecordFacts DEF ChipStep, O3Steps
  <2>4. CASE op # "boot"
    BY <1>2, <2>1, <2>2, <2>4, O3Step, RecordFacts DEF ChipStep, O3Steps
  <2> QED
    BY <2>3, <2>4
<1>3. CASE pc = "drop"
  <2>1. pin[Which].st # "absent" /\ OnPin([pin[Which] EXCEPT !.st = "torn"])
    BY <1>3 DEF Torn
  <2>2. Which \in PinIds
    BY <1>3, WhichFacts DEF PinSteps
  <2>3. Form(Which, pin[Which])
    BY <2>2 DEF Inv, Safe, Forms
  <2> DEFINE b == [pin[Which] EXCEPT !.st = "torn"]
  <2>4. b \in Binding /\ b.st = "torn" /\ b.s = pin[Which].s /\ b.keyed = pin[Which].keyed
    BY <2>3 DEF Form, Binding
  <2>5. Form(Which, b)
    BY <2>1, <2>3, <2>4 DEF Form
  <2> HIDE DEF b
  <2> QED
    BY <1>3, <2>1, <2>4, <2>5, ReplaceStep DEF b
<1>4. CASE pc = "bind"
  <2>1. PICK x \in BindSecrets(Which) : OnPin(NewBinding("torn", x))
    BY <1>4 DEF Torn
  <2>2. pin[Which].st = "absent"
    BY <1>4 DEF Torn
  <2> QED
    BY <1>4, <2>1, <2>2, ReplaceStep, BindFacts
<1>5. CASE pc \in {"try", "tryRC"}
  <2>1. /\ pin[Which].st = "ok" /\ pin[Which].next < Rounds
        /\ \/ OnPin([pin[Which] EXCEPT !.next = @ + 1])
           \/ OnPin([pin[Which] EXCEPT !.next = 0])
    BY <1>5 DEF Torn
  <2>2. Which \in PinIds
    BY <1>5, WhichFacts DEF PinSteps
  <2>3. pin[Which] \in Binding
    BY <2>2 DEF Inv, Safe, Chip
  <2>4. PICK n \in 0 .. Rounds : OnPin([pin[Which] EXCEPT !.next = n])
    <3>1. pin[Which].next \in 0 .. Rounds /\ 0 \in 0 .. Rounds /\ pin[Which].next + 1 \in 0 .. Rounds
      BY <2>1, <2>3, RoundsAssumption DEF Binding
    <3>2. CASE OnPin([pin[Which] EXCEPT !.next = pin[Which].next + 1])
      BY <3>1, <3>2, Zenon
    <3>3. CASE OnPin([pin[Which] EXCEPT !.next = 0])
      BY <3>1, <3>3, Zenon
    <3> QED
      BY <2>1, <3>2, <3>3
  <2> DEFINE b == [pin[Which] EXCEPT !.next = n]
  <2>5. b \in Binding /\ b.st = pin[Which].st /\ b.s = pin[Which].s /\ b.keyed = pin[Which].keyed
    BY <2>3 DEF Binding
  <2>6. pin' = [pin EXCEPT ![Which] = b] /\ UNCHANGED <<o3, o3rec, ecc, lead, perm>>
    BY <2>4 DEF OnPin
  <2> HIDE DEF b
  <2> QED
    BY <2>1, <2>2, <2>5, <2>6, TriedStep DEF ChipStep
<1> QED
  BY <1>1, <1>2, <1>3, <1>4, <1>5, Zenon DEF Torn

LEMMA QuietStep ==
    ASSUME Inv, UNCHANGED chipVars
    PROVE  ChipStep
<1>1. UNCHANGED <<o3, o3rec, ecc, pin, lead, perm>>
  BY DEF chipVars
<1>2. Chip' /\ Forms'
  BY <1>1 DEF Inv, Safe, Chip, Forms, Form
<1>3. Owned' /\ RecordIsTrue' /\ Permanent' /\ CodeKept
  BY <1>1 DEF Inv, Safe, Owned, RecordIsTrue, Permanent, CodeKept, OnlyLatestCode
<1> QED
  BY <1>1, <1>2, <1>3 DEF ChipStep, Safe

LEMMA InterruptedStep ==
    ASSUME Inv, Interrupted
    PROVE  ChipStep
  BY EffectStep, TornStep, QuietStep DEF Interrupted

-----------------------------------------------------------------------------
(* The access status. *)

AccessTypes == auth' \in SUBSET AllFlags /\ kek' \in Secrets \cup {None}
AccessKept == KekIsLive' /\ AccessTypes /\ (kek = None => kek' = None)

LEMMA DropAccess ==
    ASSUME Inv, NEW mask, auth_drop(mask), kek = None \/ pin'["PW1"].s = pin["PW1"].s
    PROVE  AccessKept /\ (PW1Flags \subseteq mask => kek' = None)
<1>1. /\ auth' = auth \ mask
      /\ kek' = IF auth \cap PW1Flags \subseteq mask THEN None ELSE kek
  BY DEF auth_drop
<1>2. /\ kek # None <=> auth \cap PW1Flags # {}
      /\ kek # None => kek = pin["PW1"].s
  BY DEF Inv, Control, Access, KekIsLive
<1>3. auth \in SUBSET AllFlags /\ kek \in Secrets \cup {None}
  BY DEF Inv, Control, Cells
<1>4. kek' # None <=> auth' \cap PW1Flags # {}
  BY <1>1, <1>2
<1>5. kek' # None => kek' = pin'["PW1"].s
  BY <1>1, <1>2
<1> QED
  BY <1>1, <1>3, <1>4, <1>5 DEF AccessKept, AccessTypes, KekIsLive

LEMMA SameAccess ==
    ASSUME Inv, UNCHANGED authVars, kek = None \/ pin'["PW1"].s = pin["PW1"].s
    PROVE  AccessKept
  BY DEF Inv, Control, Access, Cells, KekIsLive, AccessKept, AccessTypes, authVars

-----------------------------------------------------------------------------
(* How an operation begins, goes on and ends. *)

LEMMA GoOn ==
    ASSUME Inv, ret' = "none", Safe', CodeKept, asked \subseteq asked', Asked', Cells', Shape',
           RamIsChip', Trusted', Wiping', Access', Writing', Working'
    PROVE  Inv'
<1>1. OnlyLatestCode'
  BY CodeStep
<1>2. Answered'
  BY DEF Answered, WipeErasesAll
<1> QED
  BY <1>1, <1>2 DEF Inv, Control

LEMMA EndStep ==
    ASSUME Inv, NEW st, Return(st), Safe', Cells', RamIsChip', KekIsLive', ~loaded' => kek' = None,
           st = "OK" /\ (op = "setrc" \/ pc = "init3") => OnlyLatestCode',
           CodeKept,
           st = "OK" /\ op \in {"terminate", "activate"} => WipeErasesAll'
    PROVE  Inv'
<1>1. /\ op' = "none" /\ pc' = "idle" /\ arg' = None /\ touched' = FALSE
      /\ ret' = IF st = "OK" /\ op \in {"boot", "terminate", "activate"} THEN op ELSE "none"
      /\ asked' = IF st = "OK" /\ op = "setrc" THEN {arg} \ {None}
                  ELSE IF st = "OK" /\ pc = "init3" THEN {} ELSE asked
  BY DEF Return
<1>2. OnlyLatestCode'
  <2>1. CASE st = "OK" /\ (op = "setrc" \/ pc = "init3")
    BY <2>1
  <2>2. CASE ~(st = "OK" /\ (op = "setrc" \/ pc = "init3"))
    BY <1>1, <2>2, CodeStep
  <2> QED
    BY <2>1, <2>2
<1>3. Asked'
  <2>1. op = "setrc" => arg \in Codes \cup {None}
    BY DEF Inv, Control, Shape, PinPcs, UsePcs, Wipes
  <2>2. asked \in SUBSET Codes
    BY DEF Inv, Control, Asked
  <2> QED
    BY <1>1, <2>1, <2>2 DEF Asked
<1>4. Shape' /\ Trusted'
  BY <1>1 DEF Shape, Trusted, Served
<1>5. Wiping' /\ Writing' /\ Working'
  BY <1>1 DEF Wiping, Writing, Working, Wipes, PinPcs
<1>6. Access'
  BY <1>1 DEF Access, Dropped
<1>7. Answered'
  <2>1. CASE st = "OK" /\ op \in {"terminate", "activate"}
    BY <1>1, <2>1 DEF Answered
  <2>2. CASE ~(st = "OK" /\ op \in {"terminate", "activate"})
    BY <1>1, <2>2 DEF Answered, WipeErasesAll
  <2> QED
    BY <2>1, <2>2
<1> QED
  BY <1>2, <1>3, <1>4, <1>5, <1>6, <1>7 DEF Inv, Control

(* An operation that fails, and whatever its last call left. *)
LEMMA ErrStep ==
    ASSUME Inv, NEW st, st # "OK" \/ (op \notin {"setrc", "terminate", "activate"} /\ pc # "init3"),
           Return(st), ChipStep, AccessKept,
           \/ UNCHANGED stateVars /\ (UNCHANGED <<o3, o3rec>> \/ ~usable)
           \/ loaded' = loaded /\ ram' = ram /\ unc3' = TRUE
           \/ loaded' = FALSE /\ ram' \in {ram, Blank} /\ kek = None,
           uncP' \in SUBSET PinIds, tries' = tries,
           UNCHANGED faults \/ Fault
    PROVE  Inv'
<1>1. ram' \in Record /\ (loaded' => loaded)
  BY RecordFacts DEF Inv, Control, Cells, stateVars
<1>2. faults' \in 0 .. MaxFaults
  BY MaxFaultsAssumption DEF Inv, Control, Cells, Fault
<1>3. Cells'
  BY <1>1, <1>2 DEF Inv, Control, Cells, AccessKept, AccessTypes
<1>4. RamIsChip'
  <2>1. usable' => UNCHANGED stateVars /\ (UNCHANGED <<o3, o3rec>> \/ ~usable)
    BY Zenon DEF usable
  <2>2. usable' /\ UNCHANGED stateVars => usable /\ ram' = ram
    BY DEF usable, stateVars
  <2> QED
    BY <2>1, <2>2 DEF Inv, Control, RamIsChip
<1>5. KekIsLive' /\ (~loaded' => kek' = None)
  BY DEF Inv, Control, Access, Dropped, AccessKept, stateVars
<1> QED
  BY <1>3, <1>4, <1>5, EndStep DEF ChipStep

LEMMA EnterStep ==
    ASSUME Inv, NEW o, NEW p, NEW a, Enter(o, p, a), AccessKept, asked \subseteq asked', Asked', Shape',
           o \notin {"none", "boot"},
           o = "activate" => /\ openpgp_state_lifecycle = "TERMINATED" /\ kek' = None
                             /\ p = "retire" /\ a = "PW1",
           o = "terminate" => p = "stat",
           o = "reset" => p \notin {"destroy", "bind"},
           o = "setrc" => p = "retire" /\ (a = None \/ a \in asked'),
           p = "put" => /\ a.lc = ram.lc /\ a.rc = ram.rc /\ a.dec = ram.dec
                        /\ ram.uif = 2 => a.uif = 2,
           o = "use" => p = "touch" \/ openpgp_state_uif = 0, p # "sign"
    PROVE  Inv'
<1>1. /\ pc = "idle" /\ Gate(o, a) /\ op' = o /\ pc' = p /\ arg' = a /\ ret' = "none"
      /\ UNCHANGED <<chipVars, ramVars, touched, faults>>
  BY DEF Enter, Serve
<1>2. UNCHANGED <<o3, o3rec, ecc, pin, lead, perm, loaded, ram, unc3, uncP, tries>>
  BY <1>1 DEF chipVars, ramVars
<1>3. Safe' /\ CodeKept
  BY <1>1, QuietStep DEF ChipStep
<1>4. Cells'
  BY <1>1, <1>2 DEF Inv, Control, Cells, AccessKept, AccessTypes
<1>5. RamIsChip'
  BY <1>2 DEF Inv, Control, RamIsChip, usable
<1>6. Trusted'
  <2>1. o \in Served \/ (o = "verify" /\ a # 83) => usable /\ ram.lc = "OPERATIONAL"
    BY <1>1 DEF Gate, openpgp_state_lifecycle, Served
  <2>2. o = "activate" => usable /\ ram.lc = "TERMINATED"
    BY DEF openpgp_state_lifecycle
  <2> QED
    BY <1>1, <1>2, <2>1, <2>2 DEF Trusted, usable
<1>7. Wiping'
  BY <1>1 DEF Wiping, Wipes, PinPcs
<1>8. Access'
  BY <1>1, <1>2 DEF Inv, Control, Access, Dropped, AccessKept
<1>9. Writing'
  BY <1>1, <1>2 DEF Writing
<1>10. Working'
  BY <1>1, <1>2 DEF Working, openpgp_state_uif
<1> QED
  BY <1>1, <1>3, <1>4, <1>5, <1>6, <1>7, <1>8, <1>9, <1>10, GoOn

LEMMA AnswerStep ==
    ASSUME Inv, pc = "idle", Answer, AccessKept
    PROVE  Inv'
<1>1. /\ ret' = "none" /\ UNCHANGED chipVars
      /\ UNCHANGED <<loaded, ram, unc3, uncP, tries, op, pc, arg, touched, asked, faults>>
  BY DEF Answer, ramVars
<1>2. op = "none"
  BY DEF Inv, Control, Shape, UsePcs, PinPcs
<1>3. Safe' /\ CodeKept /\ UNCHANGED <<o3, o3rec>>
  BY <1>1, QuietStep DEF ChipStep, chipVars
<1>4. Cells' /\ Asked'
  BY <1>1 DEF Inv, Control, Cells, Asked, AccessKept, AccessTypes
<1>5. RamIsChip'
  BY <1>1, <1>3 DEF Inv, Control, RamIsChip, usable
<1>6. Shape' /\ Trusted'
  BY <1>1, <1>2 DEF Shape, Trusted, Served
<1>7. Wiping' /\ Writing' /\ Working'
  BY <1>1, <1>2 DEF Wiping, Writing, Working, Wipes, PinPcs
<1>8. Access'
  BY <1>1, <1>2 DEF Inv, Control, Access, Dropped, AccessKept
<1> QED
  BY <1>1, <1>3, <1>4, <1>5, <1>6, <1>7, <1>8, GoOn

-----------------------------------------------------------------------------
(* APDUs begin. *)

LEMMA EnsureStep ==
    ASSUME Inv, pgp_lifecycle_ensure
    PROVE  Inv'
<1>1. /\ pc = "idle" /\ ~loaded /\ tries' = tries + 1 /\ op' = "boot" /\ pc' = "load" /\ ret' = "none"
      /\ UNCHANGED chipVars
      /\ UNCHANGED <<loaded, ram, unc3, uncP, auth, kek, arg, touched, asked, faults>>
  BY DEF pgp_lifecycle_ensure, Ready, stateVars, authVars
<1>2. tries' \in 0 .. BootTries
  BY <1>1, BootTriesAssumption DEF Inv, Control, Cells, pgp_lifecycle_ensure, Ready
<1>3. Safe' /\ CodeKept /\ UNCHANGED <<o3, o3rec, pin>>
  BY <1>1, QuietStep DEF ChipStep, chipVars
<1>4. Cells' /\ Asked'
  BY <1>1, <1>2 DEF Inv, Control, Cells, Asked
<1>5. RamIsChip'
  BY <1>1, <1>3 DEF Inv, Control, RamIsChip, usable
<1>6. Shape' /\ Trusted'
  BY <1>1 DEF Shape, Trusted, Served
<1>7. Wiping' /\ Writing' /\ Working'
  BY <1>1 DEF Wiping, Writing, Working, Wipes, PinPcs
<1>8. Access'
  BY <1>1, <1>3 DEF Inv, Control, Access, Dropped, KekIsLive
<1> QED
  BY <1>1, <1>3, <1>4, <1>5, <1>6, <1>7, <1>8, GoOn

(* Nothing of the chip moves while an APDU begins or is answered at once.  *)
LEMMA BeginAccess ==
    ASSUME Inv, UNCHANGED chipVars
    PROVE  /\ UNCHANGED authVars => AccessKept
           /\ \A mask : auth_drop(mask) => AccessKept /\ (PW1Flags \subseteq mask => kek' = None)
<1>1. pin' = pin
  BY DEF chipVars
<1> QED
  BY <1>1, DropAccess, SameAccess

LEMMA AtOnceStep ==
    ASSUME Inv, Refuse \/ handle_select \/ VerifyReset \/ VerifyBadLength
    PROVE  Inv'
<1>1. pc = "idle" /\ Answer
  BY DEF Refuse, handle_select, VerifyReset, VerifyBadLength, Serve
<1>2. UNCHANGED authVars \/ \E mask : auth_drop(mask)
  BY DEF Refuse, handle_select, VerifyReset, VerifyBadLength
<1>3. UNCHANGED chipVars
  BY <1>1 DEF Answer
<1> QED
  BY <1>1, <1>2, <1>3, BeginAccess, AnswerStep

LEMMA EnterFacts ==
    ASSUME Inv, NEW o, NEW p, NEW a, Enter(o, p, a)
    PROVE  /\ UNCHANGED chipVars /\ op' = o /\ pc' = p /\ arg' = a /\ ram \in Record
           /\ o \in Served => openpgp_state_lifecycle = "OPERATIONAL"
           /\ UNCHANGED asked => asked \subseteq asked' /\ Asked'
  BY DEF Enter, Serve, Gate, Served, openpgp_state_lifecycle, Inv, Control, Cells, Asked

LEMMA VerifyStep ==
    ASSUME Inv, handle_verify
    PROVE  Inv'
<1>1. PICK f \in AllFlags : Enter("verify", "try", f) /\ UNCHANGED <<authVars, asked>>
  BY DEF handle_verify, Verify
<1>2. Shape'
  BY <1>1, EnterFacts DEF Shape
<1> QED
  BY <1>1, <1>2, EnterFacts, BeginAccess, EnterStep

LEMMA GetDataStep ==
    ASSUME Inv, handle_get_data
    PROVE  Inv'
<1>1. PICK p \in PinIds : Enter("status", "stat", p)
  BY DEF handle_get_data
<1>2. UNCHANGED <<authVars, asked>>
  BY DEF handle_get_data
<1>3. Shape'
  BY <1>1, EnterFacts DEF Shape
<1> QED
  BY <1>1, <1>2, <1>3, EnterFacts, BeginAccess, EnterStep

LEMMA ChangeStep ==
    ASSUME Inv, handle_change_ref
    PROVE  Inv'
<1>1. PICK p \in {"PW1", "PW3"} : Enter("change", "stat", p)
  BY DEF handle_change_ref
<1>2. UNCHANGED <<authVars, asked>>
  BY DEF handle_change_ref
<1>3. Shape'
  BY <1>1, EnterFacts DEF Shape
<1> QED
  BY <1>1, <1>2, <1>3, EnterFacts, BeginAccess, EnterStep

LEMMA ResetStep ==
    ASSUME Inv, handle_reset_rc
    PROVE  Inv'
<1>1. PICK p \in {"statRC", "stat"}, a \in BOOLEAN : Enter("reset", p, a)
  BY Zenon DEF handle_reset_rc
<1>2. UNCHANGED <<authVars, asked>>
  BY DEF handle_reset_rc
<1>3. Shape'
  BY <1>1, EnterFacts DEF Shape
<1> QED
  BY <1>1, <1>2, <1>3, EnterFacts, BeginAccess, EnterStep

LEMMA PutStep ==
    ASSUME Inv, handle_put_data
    PROVE  Inv'
<1>1. ram \in Record
  BY DEF Inv, Control, Cells
<1>2. PICK a \in Record :
        /\ Enter("put", "put", a)
        /\ a.lc = ram.lc /\ a.rc = ram.rc /\ a.dec = ram.dec
        /\ ram.uif = 2 => a.uif = 2
  <2>1. CASE \E v \in C4s : Enter("put", "put", [ram EXCEPT !.c4 = v])
    <3>1. PICK v \in C4s : Enter("put", "put", [ram EXCEPT !.c4 = v])
      BY <2>1
    <3> DEFINE a == [ram EXCEPT !.c4 = v]
    <3>2. a \in Record /\ a.lc = ram.lc /\ a.rc = ram.rc /\ a.dec = ram.dec /\ a.uif = ram.uif
      BY <1>1, PutAssumption DEF Record
    <3> HIDE DEF a
    <3> QED
      BY <3>1, <3>2 DEF a
  <2>2. CASE \E v \in Uifs : (ram.uif = 2 => v = 2) /\ Enter("put", "put", [ram EXCEPT !.uif = v])
    <3>1. PICK v \in Uifs : (ram.uif = 2 => v = 2) /\ Enter("put", "put", [ram EXCEPT !.uif = v])
      BY <2>2
    <3> DEFINE a == [ram EXCEPT !.uif = v]
    <3>2. a \in Record /\ a.lc = ram.lc /\ a.rc = ram.rc /\ a.dec = ram.dec /\ a.uif = v
      BY <1>1, PutAssumption DEF Record
    <3> HIDE DEF a
    <3> QED
      BY <3>1, <3>2 DEF a
  <2> QED
    BY <2>1, <2>2 DEF handle_put_data
<1>3. UNCHANGED <<authVars, asked>>
  BY DEF handle_put_data
<1>4. Shape'
  BY <1>2, EnterFacts DEF Shape
<1> QED
  BY <1>2, <1>3, <1>4, EnterFacts, BeginAccess, EnterStep

LEMMA SetCodeStep ==
    ASSUME Inv, pgp_pin_set_rc
    PROVE  Inv'
<1>1. PICK c \in Codes \cup {None} : Enter("setrc", "retire", c) /\ asked' = asked \cup ({c} \ {None})
  BY DEF pgp_pin_set_rc
<1>2. UNCHANGED authVars
  BY DEF pgp_pin_set_rc
<1>3. Shape'
  BY <1>1, EnterFacts DEF Shape
<1>4. asked \subseteq asked' /\ Asked' /\ (c = None \/ c \in asked')
  BY <1>1 DEF Inv, Control, Asked
<1> QED
  BY <1>1, <1>2, <1>3, <1>4, EnterFacts, BeginAccess, EnterStep

LEMMA GenerateBegins ==
    ASSUME Inv, handle_generate
    PROVE  Inv'
<1>1. PICK p \in {"erase", "decSet"}, k \in EccKeys : Enter("generate", p, k)
  BY DEF handle_generate, EccKeys
<1>2. UNCHANGED <<authVars, asked>>
  BY DEF handle_generate
<1>3. Shape'
  BY <1>1, EnterFacts DEF Shape
<1> QED
  BY <1>1, <1>2, <1>3, EnterFacts, BeginAccess, EnterStep

LEMMA UseStep ==
    ASSUME Inv, NEW flag, NEW p \in UsePcs, KeyUse(flag, p), UNCHANGED authVars \/ auth_drop({81})
    PROVE  Inv'
<1>1. PICK q \in {p, "touch"} : Enter("use", q, p) /\ (q = "touch" \/ openpgp_state_uif = 0)
  BY DEF KeyUse
<1>2. UNCHANGED asked
  BY DEF KeyUse
<1>3. Shape' /\ q # "sign" /\ q # "put"
  BY <1>1, EnterFacts DEF Shape, UsePcs
<1> QED
  BY <1>1, <1>2, <1>3, EnterFacts, BeginAccess, EnterStep

LEMMA KeyStepBegins ==
    ASSUME Inv, handle_pso_cds \/ handle_pso_dec \/ handle_internal_auth
    PROVE  Inv'
<1>1. CASE KeyUse(81, "count") /\ (UNCHANGED authVars \/ auth_drop({81}))
  BY <1>1, UseStep DEF UsePcs
<1>2. CASE Serve("use", None) /\ auth_drop({81}) /\ Answer
  BY <1>2, BeginAccess, AnswerStep DEF Serve, Answer
<1>3. CASE handle_pso_dec \/ handle_internal_auth
  BY <1>3, UseStep DEF UsePcs, handle_pso_dec, handle_internal_auth
<1>4. handle_pso_cds =>
        \/ KeyUse(81, "count") /\ (UNCHANGED authVars \/ auth_drop({81}))
        \/ Serve("use", None) /\ auth_drop({81}) /\ Answer
  BY DEF handle_pso_cds
<1> QED
  BY <1>1, <1>2, <1>3, <1>4

LEMMA LifecycleBegins ==
    ASSUME Inv, handle_terminate_df \/ handle_activate_file
    PROVE  Inv'
<1>1. CASE handle_terminate_df
  <2>1. Enter("terminate", "stat", None) /\ UNCHANGED <<authVars, asked>>
    BY <1>1 DEF handle_terminate_df
  <2>2. Shape'
    BY <2>1, EnterFacts DEF Shape
  <2> QED
    BY <2>1, <2>2, EnterFacts, BeginAccess, EnterStep
<1>2. CASE handle_activate_file
  <2>1. /\ openpgp_state_lifecycle = "TERMINATED" /\ Enter("activate", "retire", "PW1")
        /\ auth_drop(AllFlags) /\ UNCHANGED asked
    BY <1>2 DEF handle_activate_file
  <2>2. Shape'
    BY <2>1, EnterFacts DEF Shape, Wipes, PinPcs, PinIds
  <2>3. AccessKept /\ kek' = None
    BY <2>1, EnterFacts, BeginAccess DEF AllFlags, PW1Flags
  <2> QED
    BY <2>1, <2>2, <2>3, EnterFacts, EnterStep
<1> QED
  BY <1>1, <1>2

-----------------------------------------------------------------------------
(* APDUs go on. *)

(* A step to the next call, over the same O3 and the same RAM copy of it.  *)
LEMMA GotoStep ==
    ASSUME Inv, NEW p, NEW a, Goto(p, a), pc # "idle", ChipStep, AccessKept,
           UNCHANGED <<o3, o3rec, ram>>, usable' <=> usable, loaded' <=> loaded,
           tries' = tries, uncP' \in SUBSET PinIds, UNCHANGED faults \/ Fault,
           op # "verify", op = "terminate" \/ (op = "reset" /\ p \in {"destroy", "bind"}) => kek' = None,
           Shape', Wiping', Writing', Working'
    PROVE  Inv'
<1>1. pc' = p /\ arg' = a /\ UNCHANGED <<op, touched, ret, asked>>
  BY DEF Goto
<1>2. ret' = "none"
  BY <1>1 DEF Inv, Control, Answered
<1>3. faults' \in 0 .. MaxFaults
  BY MaxFaultsAssumption DEF Inv, Control, Cells, Fault
<1>4. Cells' /\ Asked'
  BY <1>1, <1>3 DEF Inv, Control, Cells, Asked, AccessKept, AccessTypes
<1>5. RamIsChip'
  BY DEF Inv, Control, RamIsChip
<1>6. Trusted'
  BY <1>1 DEF Inv, Control, Trusted
<1>7. Access'
  BY <1>1 DEF Inv, Control, Access, Dropped, AccessKept
<1> QED
  BY <1>1, <1>2, <1>4, <1>5, <1>6, <1>7, GoOn DEF ChipStep

LEMMA SameState ==
    ASSUME UNCHANGED stateVars
    PROVE  (usable' <=> usable) /\ (loaded' <=> loaded) /\ ram' = ram
  BY DEF stateVars, usable

LEMMA TouchStep ==
    ASSUME Inv, Touch
    PROVE  Inv'
<1>1. pc = "touch" /\ UNCHANGED <<chipVars, ramVars, authVars, faults>>
  BY DEF Touch
<1>2. op = "use" /\ arg \in UsePcs
  BY <1>1 DEF Inv, Control, Shape, UsePcs, PinPcs
<1>3. /\ UNCHANGED <<o3, o3rec, ecc, pin, lead, perm, loaded, ram, unc3, uncP, tries, auth, kek>>
      /\ UNCHANGED stateVars
  BY <1>1 DEF chipVars, ramVars, authVars, stateVars
<1>4. ChipStep /\ AccessKept
  BY <1>1, QuietStep, BeginAccess
<1>5. CASE pc' = arg /\ touched' = TRUE /\ UNCHANGED <<op, arg, ensured, ret, asked>>
  <2>1. ret' = "none"
    BY <1>1, <1>5 DEF Inv, Control, Answered
  <2>2. Cells' /\ Asked'
    BY <1>1, <1>3, <1>5 DEF Inv, Control, Cells, Asked
  <2>3. RamIsChip' /\ Trusted'
    BY <1>3, <1>5 DEF Inv, Control, RamIsChip, Trusted, usable
  <2>4. Shape'
    BY <1>2, <1>5 DEF Shape
  <2>5. Wiping' /\ Writing' /\ Working'
    BY <1>2, <1>5 DEF Wiping, Writing, Working, Wipes, UsePcs
  <2>6. Access'
    BY <1>2, <1>3, <1>4, <1>5 DEF Inv, Control, Access, Dropped, AccessKept
  <2> QED
    BY <1>4, <1>5, <2>1, <2>2, <2>3, <2>4, <2>5, <2>6, GoOn DEF ChipStep
<1>6. CASE Return("ERR")
  <2>1. uncP' \in SUBSET PinIds
    BY <1>3 DEF Inv, Control, Cells
  <2> QED
    BY <1>1, <1>3, <1>4, <1>6, <2>1, ErrStep
<1> QED
  BY <1>5, <1>6 DEF Touch

LEMMA CardResetStep ==
    ASSUME Inv, openpgp_applet_card_reset
    PROVE  Inv'
<1>1. /\ auth_drop(AllFlags) /\ UNCHANGED <<chipVars, ramVars>>
      /\ UNCHANGED <<op, pc, arg, touched, ret, asked, faults>>
  BY DEF openpgp_applet_card_reset
<1>2. UNCHANGED <<o3, o3rec, ecc, pin, lead, perm, loaded, ram, unc3, uncP, tries>>
  BY <1>1 DEF chipVars, ramVars
<1>3. ChipStep /\ AccessKept
  BY <1>1, QuietStep, BeginAccess
<1>4. OnlyLatestCode'
  BY <1>1, <1>3, CodeStep DEF ChipStep
<1>5. Cells' /\ Asked'
  BY <1>1, <1>2, <1>3 DEF Inv, Control, Cells, Asked, AccessKept, AccessTypes
<1>6. RamIsChip' /\ Trusted'
  BY <1>1, <1>2 DEF Inv, Control, RamIsChip, Trusted, usable
<1>7. Shape'
  BY <1>1 DEF Inv, Control, Shape
<1>8. Wiping'
  BY <1>1, <1>2 DEF Inv, Control, Wiping, Erased, Gone, Factory
<1>9. Writing' /\ Working'
  BY <1>1, <1>2 DEF Inv, Control, Writing, Working
<1>10. Access'
  BY <1>1, <1>2, <1>3 DEF Inv, Control, Access, Dropped, AccessKept
<1>11. Answered'
  BY <1>1, <1>2 DEF Inv, Control, Answered, WipeErasesAll
<1> QED
  BY <1>3, <1>4, <1>5, <1>6, <1>7, <1>8, <1>9, <1>10, <1>11 DEF ChipStep, Inv, Control

(* A PIN record that is read is what it was, or found whole. *)
LEMMA ReadStep ==
    ASSUME Inv, pc \in PinSteps, NEW r \in Reads(Which), NEW b \in Binding,
           b.s = pin[Which].s /\ b.keyed = pin[Which].keyed /\ b.st = "ok",
           UNCHANGED pin \/ (r = "ok" /\ pin' = [pin EXCEPT ![Which] = b]),
           UNCHANGED <<o3, o3rec, ecc, lead, perm>>
    PROVE  ChipStep /\ pin'["PW1"].s = pin["PW1"].s
<1>1. CASE UNCHANGED pin
  BY <1>1, QuietStep DEF chipVars
<1>2. CASE r = "ok" /\ pin' = [pin EXCEPT ![Which] = b]
  <2>1. pin[Which].st # "absent"
    BY <1>2 DEF Reads
  <2> QED
    BY <1>2, <2>1, WhichFacts, TriedStep DEF ChipStep
<1> QED
  BY <1>1, <1>2

(* What follows the status of a PIN, read or not. *)
LEMMA StatusGoes ==
    ASSUME Inv, pc \in {"stat", "statRC"}, NEW st \in {"ERROR", "BLOCKED", "ACTIVE"}, OnStatus(st),
           ChipStep, UNCHANGED <<o3, o3rec>>, UNCHANGED stateVars,
           uncP' \in SUBSET PinIds, tries' = tries, UNCHANGED faults \/ Fault
    PROVE  Inv'
<1>1. kek = None \/ pin'["PW1"].s = pin["PW1"].s
  BY DEF ChipStep
<1>2. ASSUME NEW e \in {"ERROR", "BLOCKED", "ACTIVE", "ERR"}, Return(e), AccessKept
      PROVE  Inv'
  BY <1>2, ErrStep
<1>3. CASE UNCHANGED authVars /\ \E e \in {"ERROR", "BLOCKED", "ACTIVE", "ERR"} : Return(e)
  BY <1>1, <1>2, <1>3, SameAccess
<1>4. CASE /\ op = "change" /\ auth_drop(flags_of(arg))
           /\ Goto("try", arg) \/ Return("ERR")
  <2>1. AccessKept
    BY <1>1, <1>4, DropAccess
  <2>2. CASE Goto("try", arg)
    <3>1. op' = "change" /\ pc' = "try" /\ arg' = arg
      BY <1>4, <2>2 DEF Goto
    <3>2. Shape' /\ Wiping' /\ Writing' /\ Working'
      BY <1>4, <3>1 DEF Inv, Control, Shape, Wiping, Writing, Working, Wipes, PinPcs, UsePcs
    <3> QED
      BY <1>4, <2>1, <2>2, <3>2, SameState, GotoStep
  <2> QED
    BY <1>2, <1>4, <2>1, <2>2
<1>5. CASE op = "reset" /\ pc = "statRC" /\ Goto("stat", arg) /\ UNCHANGED authVars
  <2>1. op' = "reset" /\ pc' = "stat" /\ arg' = arg
    BY <1>5 DEF Goto
  <2>2. Shape' /\ Wiping' /\ Writing' /\ Working'
    BY <1>5, <2>1 DEF Inv, Control, Shape, Wiping, Writing, Working, Wipes, PinPcs, UsePcs
  <2> QED
    BY <1>1, <1>5, <2>2, SameAccess, SameState, GotoStep
<1>6. CASE op = "reset" /\ Goto("tryRC", arg) /\ UNCHANGED authVars
  <2>1. op' = "reset" /\ pc' = "tryRC" /\ arg' = arg
    BY <1>6 DEF Goto
  <2>2. Shape' /\ Wiping' /\ Writing' /\ Working'
    BY <1>6, <2>1 DEF Inv, Control, Shape, Wiping, Writing, Working, Wipes, PinPcs, UsePcs
  <2> QED
    BY <1>1, <1>6, <2>2, SameAccess, SameState, GotoStep
<1>7. CASE op = "reset" /\ Goto("destroy", arg) /\ auth_drop(PW1Flags)
  <2>1. op' = "reset" /\ pc' = "destroy" /\ arg' = arg
    BY <1>7 DEF Goto
  <2>2. Shape' /\ Wiping' /\ Writing' /\ Working'
    BY <1>7, <2>1 DEF Inv, Control, Shape, Wiping, Writing, Working, Wipes, PinPcs, UsePcs
  <2>3. AccessKept /\ kek' = None
    BY <1>1, <1>7, DropAccess
  <2> QED
    BY <1>7, <2>2, <2>3, SameState, GotoStep
<1>8. CASE op = "terminate" /\ Goto("erase", "sig") /\ auth_drop(AllFlags)
  <2>1. op' = "terminate" /\ pc' = "erase" /\ arg' = "sig"
    BY <1>8 DEF Goto
  <2>2. Shape' /\ Wiping' /\ Writing' /\ Working'
    BY <2>1 DEF Shape, Wiping, Writing, Working, Wipes, PinPcs, EccKeys
  <2>3. AccessKept /\ kek' = None
    BY <1>1, <1>8, DropAccess DEF AllFlags, PW1Flags
  <2> QED
    BY <1>8, <2>2, <2>3, SameState, GotoStep
<1>9. \/ UNCHANGED authVars /\ \E e \in {"ERROR", "BLOCKED", "ACTIVE", "ERR"} : Return(e)
      \/ /\ op = "change" /\ auth_drop(flags_of(arg))
         /\ Goto("try", arg) \/ Return("ERR")
      \/ op = "reset" /\ pc = "statRC" /\ Goto("stat", arg) /\ UNCHANGED authVars
      \/ op = "reset" /\ Goto("tryRC", arg) /\ UNCHANGED authVars
      \/ op = "reset" /\ Goto("destroy", arg) /\ auth_drop(PW1Flags)
      \/ op = "terminate" /\ Goto("erase", "sig") /\ auth_drop(AllFlags)
  BY Zenon DEF OnStatus
<1> QED
  BY <1>3, <1>4, <1>5, <1>6, <1>7, <1>8, <1>9

LEMMA StatusStep ==
    ASSUME Inv, Status
    PROVE  Inv'
<1>1. PICK r \in Reads(Which) :
        /\ OnStatus(pgp_pin_status(Which, r))
        /\ pin' = IF r = "ok" THEN [pin EXCEPT ![Which].st = "ok"] ELSE pin
  BY DEF Status
<1>2. pc \in {"stat", "statRC"} /\ UNCHANGED <<o3, o3rec, ecc, lead, perm, ramVars, faults>>
  BY DEF Status
<1>3. pgp_pin_status(Which, r) \in {"ERROR", "BLOCKED", "ACTIVE"}
  BY DEF pgp_pin_status
<1>4. Which \in PinIds /\ pin[Which] \in Binding
  BY <1>2, WhichFacts DEF PinSteps, Inv, Safe, Chip
<1> DEFINE b == [pin[Which] EXCEPT !.st = "ok"]
<1>5. b \in Binding /\ b.s = pin[Which].s /\ b.keyed = pin[Which].keyed /\ b.st = "ok"
  BY <1>4 DEF Binding
<1>6. UNCHANGED pin \/ (r = "ok" /\ pin' = [pin EXCEPT ![Which] = b])
  BY <1>1
<1>7. ChipStep
  <2> HIDE DEF b
  <2> QED
    BY <1>2, <1>5, <1>6, ReadStep DEF PinSteps
<1>8. UNCHANGED stateVars /\ uncP' \in SUBSET PinIds /\ tries' = tries
  BY <1>2 DEF ramVars, stateVars, Inv, Control, Cells
<1> QED
  BY <1>1, <1>2, <1>3, <1>7, <1>8, StatusGoes

(* What follows a PIN attempt, made or lost. *)
LEMMA AttemptGoes ==
    ASSUME Inv, pc \in {"try", "tryRC"}, NEW st \in {"ERR", "BLOCKED", "WRONG", "OK"}, OnAttempt(st),
           ChipStep, st = "OK" => pin[Which].st # "absent" /\ pin'["PW1"].s = pin["PW1"].s,
           UNCHANGED <<o3, o3rec>>, UNCHANGED stateVars,
           uncP' \in SUBSET PinIds, tries' = tries, UNCHANGED faults \/ Fault
    PROVE  Inv'
<1>1. CASE op = "verify" /\ Return(st) /\ st = "OK" /\ auth_grant(arg)
  <2>1. auth' = auth \cup {arg} /\ kek' = IF arg = 83 THEN kek ELSE pin["PW1"].s
    BY <1>1 DEF auth_grant
  <2>2. arg \in AllFlags /\ pc = "try"
    BY <1>1 DEF Inv, Control, Shape, Wipes, UsePcs, PinPcs
  <2>3. arg # 83 => pin["PW1"].s \in Secrets
    <3>1. arg # 83 => Which = "PW1"
      BY <1>1, <2>2 DEF Which, pin_of
    <3>2. Form("PW1", pin["PW1"])
      BY DEF Inv, Safe, Forms, PinIds
    <3> QED
      BY <1>1, <3>1, <3>2 DEF Form
  <2>4. /\ kek # None <=> auth \cap PW1Flags # {}
        /\ kek # None => kek = pin["PW1"].s
    BY DEF Inv, Control, Access, KekIsLive
  <2>5. KekIsLive'
    <3>1. CASE arg = 83
      <4>1. auth' \cap PW1Flags = auth \cap PW1Flags /\ kek' = kek
        BY <2>1, <3>1 DEF PW1Flags
      <4> QED
        BY <1>1, <2>4, <4>1 DEF KekIsLive
    <3>2. CASE arg # 83
      <4>1. auth' \cap PW1Flags # {} /\ kek' = pin["PW1"].s /\ kek' # None
        BY <2>1, <2>2, <2>3, <3>2, NoneAssumption DEF PW1Flags, AllFlags
      <4> QED
        BY <1>1, <4>1 DEF KekIsLive
    <3> QED
      BY <3>1, <3>2
  <2>6. auth' \in SUBSET AllFlags /\ kek' \in Secrets \cup {None}
    BY <2>1, <2>2, <2>3 DEF Inv, Control, Cells
  <2>7. ~loaded' => kek' = None
    <3>1. ~loaded => kek = None /\ arg = 83
      BY <1>1 DEF Inv, Control, Access, Dropped, Trusted, usable
    <3> QED
      BY <2>1, <3>1, SameState
  <2>8. faults' \in 0 .. MaxFaults
    BY MaxFaultsAssumption DEF Inv, Control, Cells, Fault
  <2>9. Cells' /\ RamIsChip'
    BY <2>6, <2>8, SameState DEF Inv, Control, Cells, RamIsChip
  <2> QED
    BY <1>1, <2>2, <2>5, <2>7, <2>9, EndStep DEF ChipStep
<1>2. CASE op \in {"verify", "change", "reset"} /\ Return(st) /\ AccessKept
  BY <1>2, ErrStep
<1>3. CASE op = "reset" /\ Goto("destroy", arg) /\ auth_drop(PW1Flags)
  <2>1. op' = "reset" /\ pc' = "destroy" /\ arg' = arg
    BY <1>3 DEF Goto
  <2>2. Shape' /\ Wiping' /\ Writing' /\ Working'
    BY <1>3, <2>1 DEF Inv, Control, Shape, Wiping, Writing, Working, Wipes, PinPcs, UsePcs
  <2>3. AccessKept /\ kek' = None
    BY <1>3, DropAccess DEF ChipStep
  <2> QED
    BY <1>3, <2>2, <2>3, SameState, GotoStep
<1>4. \/ op = "verify" /\ Return(st) /\ st = "OK" /\ auth_grant(arg)
      \/ op \in {"verify", "change", "reset"} /\ Return(st) /\ auth_drop(flags_of(Which))
      \/ op \in {"verify", "change", "reset"} /\ Return(st) /\ UNCHANGED authVars
      \/ op = "reset" /\ Goto("destroy", arg) /\ auth_drop(PW1Flags)
  BY DEF OnAttempt
<1>5. kek = None \/ pin'["PW1"].s = pin["PW1"].s
  BY DEF ChipStep
<1> QED
  BY <1>1, <1>2, <1>3, <1>4, <1>5, DropAccess, SameAccess

LEMMA AttemptStep ==
    ASSUME Inv, Attempt
    PROVE  Inv'
<1>1. pc \in {"try", "tryRC"} /\ UNCHANGED <<o3, o3rec, ecc, lead, perm, ramVars, faults>>
  BY DEF Attempt
<1>2. Which \in PinIds /\ pin[Which] \in Binding
  BY <1>1, WhichFacts DEF PinSteps, Inv, Safe, Chip
<1>3. PICK r \in Reads(Which), st \in {"ERR", "BLOCKED", "WRONG", "OK"}, c \in Binding :
        /\ OnAttempt(st)
        /\ st = "OK" => r = "ok"
        /\ c.s = pin[Which].s /\ c.keyed = pin[Which].keyed /\ c.st = "ok"
        /\ UNCHANGED pin \/ (r = "ok" /\ pin' = [pin EXCEPT ![Which] = c])
  <2> DEFINE b == [pin[Which] EXCEPT !.st = "ok"]
             b0 == [b EXCEPT !.next = 0]
             b1 == [b EXCEPT !.next = b.next + 1]
  <2>1. PICK r \in Reads(Which) :
          \/ r # "ok" /\ OnAttempt("ERR") /\ UNCHANGED pin
          \/ r = "ok" /\ OnAttempt("BLOCKED") /\ pin' = [pin EXCEPT ![Which] = b]
          \/ r = "ok" /\ OnAttempt("OK") /\ pin' = [pin EXCEPT ![Which] = b0]
          \/ r = "ok" /\ b.next < Rounds /\ OnAttempt("WRONG") /\ pin' = [pin EXCEPT ![Which] = b1]
    BY DEF Attempt
  <2>2. b \in Binding /\ b.s = pin[Which].s /\ b.keyed = pin[Which].keyed /\ b.st = "ok"
    BY <1>2 DEF Binding
  <2> HIDE DEF b
  <2>3. b0 \in Binding /\ b0.s = pin[Which].s /\ b0.keyed = pin[Which].keyed /\ b0.st = "ok"
    BY <2>2, RoundsAssumption DEF Binding
  <2>4. b.next < Rounds =>
          b1 \in Binding /\ b1.s = pin[Which].s /\ b1.keyed = pin[Which].keyed /\ b1.st = "ok"
    BY <2>2, RoundsAssumption DEF Binding
  <2> HIDE DEF b0, b1
  <2>5. CASE r # "ok" /\ OnAttempt("ERR") /\ UNCHANGED pin
    BY <2>2, <2>5
  <2>6. CASE r = "ok" /\ OnAttempt("BLOCKED") /\ pin' = [pin EXCEPT ![Which] = b]
    BY <2>2, <2>6
  <2>7. CASE r = "ok" /\ OnAttempt("OK") /\ pin' = [pin EXCEPT ![Which] = b0]
    BY <2>3, <2>7
  <2>8. CASE r = "ok" /\ b.next < Rounds /\ OnAttempt("WRONG") /\ pin' = [pin EXCEPT ![Which] = b1]
    BY <2>4, <2>8
  <2> QED
    BY <2>1, <2>5, <2>6, <2>7, <2>8
<1>4. ChipStep /\ pin'["PW1"].s = pin["PW1"].s
  BY <1>1, <1>3, ReadStep DEF PinSteps
<1>5. st = "OK" => pin[Which].st # "absent"
  BY <1>3 DEF Reads
<1>6. UNCHANGED stateVars /\ uncP' \in SUBSET PinIds /\ tries' = tries
  BY <1>1 DEF ramVars, stateVars, Inv, Control, Cells
<1> QED
  BY <1>1, <1>3, <1>4, <1>5, <1>6, AttemptGoes

LEMMA LoadStep ==
    ASSUME Inv, Load
    PROVE  Inv'
<1>1. /\ pc = "load" /\ UNCHANGED <<o3rec, ecc, pin, lead, perm, unc3, uncP, tries, authVars, faults>>
  BY DEF Load
<1>2. op = "boot"
  BY <1>1 DEF Inv, Control, Shape, Wipes, UsePcs, PinPcs
<1>3. ~loaded /\ kek = None
  BY <1>2 DEF Inv, Control, Trusted, Access, Dropped
<1>4. AccessKept
  BY <1>1, SameAccess
<1>5. uncP' \in SUBSET PinIds
  BY <1>1 DEF Inv, Control, Cells
<1>6. CASE o3 # "absent" /\ o3' = "ok" /\ loaded' = TRUE /\ ram' = o3rec /\ Return("OK")
  <2>1. Chip' /\ Forms' /\ CodeKept
    BY <1>1, <1>6 DEF Inv, Safe, Chip, Forms, Form, CodeKept, OnlyLatestCode
  <2>2. Owned' /\ RecordIsTrue' /\ Permanent'
    BY <1>1, <1>6 DEF Inv, Safe, Owned, RecordIsTrue, Permanent
  <2>3. Cells'
    BY <1>1, <1>4, <1>6 DEF Inv, Safe, Chip, Control, Cells, AccessKept, AccessTypes
  <2>4. RamIsChip'
    BY <1>1, <1>6 DEF RamIsChip
  <2>5. KekIsLive' /\ kek' = None
    BY <1>3, <1>4 DEF AccessKept
  <2> QED
    BY <1>1, <1>2, <1>6, <2>1, <2>2, <2>3, <2>4, <2>5, EndStep DEF Safe
<1>7. CASE loaded' = FALSE /\ Goto("erase", "sig") /\ UNCHANGED <<o3, ram>>
  <2>1. op' = "boot" /\ pc' = "erase" /\ arg' = "sig"
    BY <1>2, <1>7 DEF Goto
  <2>2. Shape' /\ Wiping' /\ Writing' /\ Working'
    BY <2>1 DEF Shape, Wiping, Writing, Working, Wipes, PinPcs, EccKeys
  <2>3. ChipStep
    BY <1>1, <1>7, QuietStep DEF chipVars
  <2>4. (usable' <=> usable) /\ (loaded' <=> loaded)
    BY <1>3, <1>7 DEF usable
  <2> QED
    BY <1>1, <1>2, <1>4, <1>5, <1>7, <2>2, <2>3, <2>4, GotoStep
<1>8. CASE loaded' = FALSE /\ Return("ERR") /\ UNCHANGED <<o3, ram>>
  <2>1. ChipStep
    BY <1>1, <1>8, QuietStep DEF chipVars
  <2> QED
    BY <1>1, <1>3, <1>4, <1>5, <1>8, <2>1, ErrStep
<1> QED
  BY <1>6, <1>7, <1>8 DEF Load

(* The RAM and the access status stay, and the chip but for a key or a PIN. *)
LEMMA StayFacts ==
    ASSUME Inv, UNCHANGED <<ramVars, authVars, faults>>
    PROVE  /\ UNCHANGED stateVars /\ uncP' \in SUBSET PinIds /\ tries' = tries
           /\ ChipStep => AccessKept
<1>1. ChipStep => AccessKept
  BY SameAccess DEF ChipStep
<1> QED
  BY <1>1 DEF ramVars, stateVars, Inv, Control, Cells

LEMMA EraseStep ==
    ASSUME Inv, Erase
    PROVE  Inv'
<1>1. pc = "erase" /\ Effect /\ UNCHANGED <<ramVars, authVars, faults>>
  BY DEF Erase
<1>2. arg \in EccKeys /\ op \in {"boot", "terminate", "generate"}
  BY <1>1 DEF Inv, Control, Shape, Wipes, UsePcs, PinPcs
<1>3. OnKey(arg, None)
  BY <1>1 DEF Effect, Stores
<1>4. /\ UNCHANGED <<o3, o3rec, pin, lead, perm>>
      /\ ecc'[arg] = None /\ \A j \in EccKeys : j # arg => ecc'[j] = ecc[j]
  BY <1>2, <1>3, KeyStep
<1>5. ChipStep /\ AccessKept
  BY <1>1, EffectStep, StayFacts
<1>6. op = "terminate" => kek' = None
  BY <1>1, <1>5 DEF Inv, Control, Access, Dropped, AccessKept
<1>7. ASSUME NEW p, NEW a, Goto(p, a), Shape', Wiping', Writing', Working'
      PROVE  Inv'
  <2>1. op # "reset" /\ op # "verify"
    BY <1>2
  <2> QED
    BY <1>1, <1>4, <1>5, <1>6, <1>7, <2>1, StayFacts, SameState, GotoStep
<1>8. CASE op = "generate" /\ Goto("gen", arg)
  <2>1. op' = "generate" /\ pc' = "gen" /\ arg' = arg
    BY <1>8 DEF Goto
  <2>2. Shape' /\ Wiping' /\ Writing' /\ Working'
    BY <1>2, <2>1 DEF Shape, Wiping, Writing, Working, Wipes, PinPcs
  <2> QED
    BY <1>7, <1>8, <2>2
<1>9. CASE op # "generate" /\ arg = "sig" /\ Goto("erase", "dec")
  <2>1. op' = op /\ pc' = "erase" /\ arg' = "dec"
    BY <1>9 DEF Goto
  <2>2. Shape' /\ Wiping' /\ Writing' /\ Working'
    BY <1>2, <1>4, <1>9, <2>1 DEF Shape, Wiping, Writing, Working, Wipes, PinPcs, EccKeys, Erased
  <2> QED
    BY <1>7, <1>9, <2>2
<1>10. CASE op # "generate" /\ arg = "dec" /\ Goto("erase", "aut")
  <2>1. op' = op /\ pc' = "erase" /\ arg' = "aut"
    BY <1>10 DEF Goto
  <2>2. ecc["sig"] = None
    BY <1>1, <1>2, <1>10 DEF Inv, Control, Wiping, Erased
  <2>3. Shape' /\ Wiping' /\ Writing' /\ Working'
    BY <1>2, <1>4, <1>10, <2>1, <2>2 DEF Shape, Wiping, Writing, Working, Wipes, PinPcs, EccKeys, Erased
  <2> QED
    BY <1>7, <1>10, <2>3
<1>11. CASE op # "generate" /\ arg = "aut" /\ Goto("clear3", None)
  <2>1. op' = op /\ pc' = "clear3" /\ arg' = None
    BY <1>11 DEF Goto
  <2>2. ecc["sig"] = None /\ ecc["dec"] = None
    BY <1>1, <1>2, <1>11 DEF Inv, Control, Wiping, Erased
  <2>3. Shape' /\ Wiping' /\ Writing' /\ Working'
    BY <1>2, <1>4, <1>11, <2>1, <2>2 DEF Shape, Wiping, Writing, Working, Wipes, PinPcs, EccKeys, Erased
  <2> QED
    BY <1>7, <1>11, <2>3
<1>12. \/ op = "generate" /\ Goto("gen", arg)
       \/ op # "generate" /\ arg = "sig" /\ Goto("erase", "dec")
       \/ op # "generate" /\ arg = "dec" /\ Goto("erase", "aut")
       \/ op # "generate" /\ arg \notin {"sig", "dec"} /\ Goto("clear3", None)
  BY Zenon DEF Erase
<1> QED
  BY <1>2, <1>8, <1>9, <1>10, <1>11, <1>12 DEF EccKeys

LEMMA ClearStep ==
    ASSUME Inv, openpgp_state_clear
    PROVE  Inv'
<1>1. /\ pc = "clear3" /\ Effect /\ loaded' = FALSE /\ ram' = Blank /\ unc3' = FALSE
      /\ Goto("retire", "PW1") /\ UNCHANGED <<uncP, tries, authVars, faults>>
  BY DEF openpgp_state_clear
<1>2. op \in {"boot", "terminate"}
  BY <1>1 DEF Inv, Control, Shape, Wipes, UsePcs, PinPcs
<1>3. OnO3("absent", Blank)
  BY <1>1 DEF Effect, Stores
<1>4. o3' = "absent" /\ o3rec' = Blank /\ UNCHANGED <<ecc, pin>>
  BY <1>3 DEF OnO3
<1>5. ChipStep /\ AccessKept
  BY <1>1, <1>4, EffectStep, SameAccess
<1>6. op' = op /\ pc' = "retire" /\ arg' = "PW1" /\ UNCHANGED <<touched, ret, asked>>
  BY <1>1 DEF Goto
<1>7. kek = None /\ ret = "none"
  BY <1>1, <1>2 DEF Inv, Control, Access, Dropped, Trusted, Answered
<1>8. Cells' /\ Asked'
  BY <1>1, <1>5, <1>6, RecordFacts DEF Inv, Control, Cells, Asked, AccessKept, AccessTypes
<1>9. RamIsChip' /\ Trusted'
  BY <1>1, <1>2, <1>6 DEF RamIsChip, Trusted, usable, Served
<1>10. Erased(EccKeys)
  BY <1>1, <1>2 DEF Inv, Control, Wiping
<1>11. Shape' /\ Wiping'
  BY <1>2, <1>4, <1>6, <1>10 DEF Shape, Wiping, Wipes, PinPcs, PinIds, Erased
<1>12. Writing' /\ Working'
  BY <1>2, <1>6 DEF Writing, Working
<1>13. Access'
  BY <1>5, <1>7 DEF Access, AccessKept
<1> QED
  BY <1>5, <1>6, <1>7, <1>8, <1>9, <1>11, <1>12, <1>13, GoOn DEF ChipStep

LEMMA RetireStep ==
    ASSUME Inv, Retire
    PROVE  Inv'
<1>1. /\ pc = "retire" /\ Effect /\ uncP' = uncP \ {Which} /\ Goto("drop", arg)
      /\ UNCHANGED <<stateVars, tries, authVars, faults>>
  BY DEF Retire
<1>2. OnPin([pin[Which] EXCEPT !.keyed = FALSE])
  BY <1>1 DEF Effect, Stores
<1>3. UNCHANGED <<o3, o3rec, ecc, lead>> /\ \A q \in PinIds : q # Which => pin'[q] = pin[q]
  BY <1>2 DEF OnPin, Inv, Safe, Chip
<1>4. ChipStep /\ AccessKept
  BY <1>1, EffectStep, SameAccess DEF ChipStep
<1>5. op' = op /\ pc' = "drop" /\ arg' = arg /\ UNCHANGED asked
  BY <1>1 DEF Goto
<1>6. op \in Wipes \cup {"setrc"} /\ (op \in Wipes => Which = arg /\ arg \in PinIds)
  BY <1>1, WhichFacts DEF PinSteps
<1>7. Shape'
  BY <1>1, <1>5, <1>6 DEF Inv, Control, Shape, Wipes, PinPcs, UsePcs
<1>8. Wiping'
  <2>1. op \in {"boot", "terminate"} => Erased(EccKeys) /\ o3 = "absent"
    BY <1>1 DEF Inv, Control, Wiping, PinPcs
  <2>2. op \in Wipes /\ arg = "PW3" => pin'["PW1"] = NoBinding
    BY <1>1, <1>3, <1>6 DEF Inv, Control, Wiping, PinPcs, Gone, PinIds
  <2>3. op \in Wipes /\ arg = "RC" => pin'["PW1"] = NoBinding /\ pin'["PW3"] = NoBinding
    BY <1>1, <1>3, <1>6 DEF Inv, Control, Wiping, PinPcs, Gone, PinIds
  <2> QED
    BY <1>3, <1>5, <2>1, <2>2, <2>3 DEF Wiping, Wipes, PinPcs, Erased, Gone
<1>9. Writing' /\ Working'
  BY <1>1, <1>5, <1>6 DEF Inv, Control, Writing, Working, Wipes
<1>10. uncP' \in SUBSET PinIds
  BY <1>1 DEF Inv, Control, Cells
<1>11. op = "terminate" => kek' = None
  BY <1>1, <1>4 DEF Inv, Control, Access, Dropped, AccessKept
<1> QED
  BY <1>1, <1>3, <1>4, <1>6, <1>7, <1>8, <1>9, <1>10, <1>11, SameState, GotoStep DEF Wipes

LEMMA DropStep ==
    ASSUME Inv, Drop
    PROVE  Inv'
<1>1. pc = "drop" /\ Effect /\ UNCHANGED <<ramVars, authVars, faults>>
  BY DEF Drop
<1>2. OnPin(NoBinding)
  BY <1>1 DEF Effect, Stores
<1>3. op \in Wipes \cup {"setrc"} /\ Which \in PinIds /\ (op \in Wipes => Which = arg)
  BY <1>1, WhichFacts DEF PinSteps
<1>4. /\ UNCHANGED <<o3, o3rec, ecc, lead>> /\ pin'[Which] = NoBinding
      /\ \A q \in PinIds : q # Which => pin'[q] = pin[q]
  BY <1>2, <1>3 DEF OnPin, Inv, Safe, Chip
<1>5. ChipStep /\ AccessKept
  BY <1>1, EffectStep, StayFacts
<1>6. op = "terminate" => kek' = None
  BY <1>1, <1>5 DEF Inv, Control, Access, Dropped, AccessKept
<1>7. ASSUME NEW p, NEW a, Goto(p, a), Shape', Wiping', Writing', Working'
      PROVE  Inv'
  <2>1. op # "reset" /\ op # "verify"
    BY <1>3 DEF Wipes
  <2> QED
    BY <1>1, <1>4, <1>5, <1>6, <1>7, <2>1, StayFacts, SameState, GotoStep
<1>8. CASE op = "setrc"
  <2>1. arg \in Codes \cup {None}
    BY <1>1, <1>8 DEF Inv, Control, Shape, Wipes, PinPcs, UsePcs
  <2>2. arg = None \/ arg \in asked
    BY <1>8 DEF Inv, Control, Writing
  <2>3. ASSUME NEW p \in {"guard0", "bind"}, Goto(p, arg), p = "bind" => arg # None
        PROVE  Inv'
    <3>1. op' = "setrc" /\ pc' = p /\ arg' = arg /\ UNCHANGED asked
      BY <1>8, <2>3 DEF Goto
    <3>2. Shape' /\ Wiping' /\ Writing' /\ Working'
      BY <2>1, <2>2, <2>3, <3>1 DEF Shape, Wiping, Writing, Working, Wipes, PinPcs
    <3> QED
      BY <1>7, <2>3, <3>2
  <2>4. CASE Return("OK")
    <3>1. pin'["RC"] = NoBinding
      BY <1>1, <1>4, <1>8, WhichFacts DEF PinSteps
    <3>2. OnlyLatestCode'
      BY <3>1, BindingFacts DEF OnlyLatestCode
    <3>3. Cells'
      BY <1>1, <1>5 DEF Inv, Control, Cells, AccessKept, AccessTypes, ramVars
    <3>4. RamIsChip' /\ KekIsLive' /\ (~loaded' => kek' = None)
      BY <1>1, <1>4, <1>5, StayFacts, SameState
         DEF Inv, Control, RamIsChip, Access, Dropped, AccessKept
    <3> QED
      BY <1>8, <2>4, <1>5, <3>2, <3>3, <3>4, EndStep DEF ChipStep
  <2>5. \/ Goto("guard0", arg)
        \/ arg # None /\ Goto("bind", arg)
        \/ Return("OK")
    BY <1>8, Zenon DEF Drop
  <2> QED
    BY <2>3, <2>4, <2>5
<1>9. CASE op \in Wipes
  <2>1. op # "setrc" /\ (op \in {"boot", "terminate"} => Erased(EccKeys) /\ o3 = "absent")
    BY <1>1, <1>9 DEF Inv, Control, Wiping, PinPcs, Wipes
  <2>2. CASE arg = "PW1" /\ Goto("retire", "PW3")
    <3>1. op' = op /\ pc' = "retire" /\ arg' = "PW3"
      BY <2>2 DEF Goto
    <3>2. pin'["PW1"] = NoBinding
      BY <1>3, <1>4, <1>9, <2>2
    <3>3. Shape' /\ Wiping'
      BY <1>4, <1>9, <2>1, <3>1, <3>2 DEF Shape, Wiping, Wipes, PinPcs, PinIds, Erased, Gone
    <3>4. Writing' /\ Working'
      BY <1>9, <3>1 DEF Writing, Working, Wipes
    <3> QED
      BY <1>7, <2>2, <3>3, <3>4
  <2>3. CASE arg = "PW3" /\ Goto("retire", "RC")
    <3>1. op' = op /\ pc' = "retire" /\ arg' = "RC"
      BY <2>3 DEF Goto
    <3>2. pin["PW1"] = NoBinding
      BY <1>1, <1>9, <2>3 DEF Inv, Control, Wiping, PinPcs, Gone
    <3>3. pin'["PW1"] = NoBinding /\ pin'["PW3"] = NoBinding
      BY <1>3, <1>4, <1>9, <2>3, <3>2 DEF PinIds
    <3>4. Shape' /\ Wiping'
      BY <1>4, <1>9, <2>1, <3>1, <3>3 DEF Shape, Wiping, Wipes, PinPcs, PinIds, Erased, Gone
    <3>5. Writing' /\ Working'
      BY <1>9, <3>1 DEF Writing, Working, Wipes
    <3> QED
      BY <1>7, <2>3, <3>4, <3>5
  <2>4. arg = "RC" => \A q \in PinIds : pin'[q] = NoBinding
    <3>1. arg = "RC" => pin["PW1"] = NoBinding /\ pin["PW3"] = NoBinding
      BY <1>1, <1>9 DEF Inv, Control, Wiping, PinPcs, Gone
    <3> QED
      BY <1>3, <1>4, <1>9, <3>1 DEF PinIds
  <2>5. CASE op = "terminate" /\ arg = "RC" /\ Goto("init3", None)
    <3>1. op' = "terminate" /\ pc' = "init3" /\ arg' = None
      BY <2>5 DEF Goto
    <3>2. Shape' /\ Wiping'
      BY <1>4, <2>1, <2>4, <2>5, <3>1 DEF Shape, Wiping, Wipes, PinPcs, PinIds, Erased, Gone
    <3>3. Writing' /\ Working'
      BY <3>1 DEF Writing, Working
    <3> QED
      BY <1>7, <2>5, <3>2, <3>3
  <2>6. CASE op # "terminate" /\ arg = "RC" /\ Goto("bind", "PW1")
    <3>1. op' = op /\ pc' = "bind" /\ arg' = "PW1"
      BY <2>6 DEF Goto
    <3>2. Shape' /\ Wiping'
      BY <1>4, <1>9, <2>1, <2>4, <2>6, <3>1 DEF Shape, Wiping, Wipes, PinPcs, PinIds, Erased, Gone
    <3>3. Writing' /\ Working'
      BY <1>9, <3>1 DEF Writing, Working, Wipes
    <3> QED
      BY <1>7, <2>6, <3>2, <3>3
  <2>7. \/ arg = "PW1" /\ Goto("retire", "PW3")
        \/ arg = "PW3" /\ Goto("retire", "RC")
        \/ op = "terminate" /\ arg = "RC" /\ Goto("init3", None)
        \/ arg \notin {"PW1", "PW3"} /\ ~(op = "terminate" /\ arg = "RC") /\ Goto("bind", "PW1")
    BY <2>1, Zenon DEF Drop
  <2> QED
    BY <1>3, <1>9, <2>2, <2>3, <2>5, <2>6, <2>7 DEF PinIds
<1> QED
  BY <1>3, <1>8, <1>9

LEMMA BindStep ==
    ASSUME Inv, Bind
    PROVE  Inv'
<1>1. pc = "bind" /\ UNCHANGED <<ramVars, authVars, faults>>
  BY DEF Bind
<1>2. /\ op \in {"boot", "activate", "reset", "setrc"} /\ Which \in PinIds
      /\ op = "setrc" => Which = "RC"
      /\ op = "reset" => Which = "PW1"
      /\ op \in {"boot", "activate"} => Which = arg /\ arg \in {"PW1", "PW3"}
  BY <1>1, WhichFacts DEF PinSteps, Inv, Control, Shape, Wipes, PinPcs, UsePcs
<1>3. CASE Return("ERR") /\ UNCHANGED chipVars
  <2>1. ChipStep
    BY <1>3, QuietStep
  <2> QED
    BY <1>1, <1>3, <2>1, StayFacts, ErrStep DEF chipVars
<1>4. CASE Effect
  <2>1. PICK x \in BindSecrets(Which) : OnPin(NewBinding("ok", x))
    BY <1>1, <1>4 DEF Effect, Stores
  <2> DEFINE b == NewBinding("ok", x)
  <2>2. b.st = "ok" /\ b.keyed /\ b.s = x
    BY <1>1, BindFacts
  <2> HIDE DEF b
  <2>3. /\ UNCHANGED <<o3, o3rec, ecc, lead>> /\ pin'[Which] = b
        /\ \A q \in PinIds : q # Which => pin'[q] = pin[q]
    BY <1>2, <2>1 DEF OnPin, Inv, Safe, Chip, b
  <2>4. ChipStep /\ AccessKept
    BY <1>1, <1>4, EffectStep, StayFacts
  <2>5. op \in {"boot", "activate", "reset"} => kek' = None
    BY <1>1, <2>4 DEF Inv, Control, Access, Dropped, AccessKept, Trusted
  <2>6. ASSUME NEW p, NEW a, Goto(p, a), op # "reset", Shape', Wiping', Writing', Working'
        PROVE  Inv'
    <3>1. op \notin {"terminate", "verify"}
      BY <1>2
    <3> QED
      BY <1>1, <2>3, <2>4, <2>6, <3>1, StayFacts, SameState, GotoStep
  <2>7. CASE op = "setrc" /\ Goto("guard1", arg)
    <3>1. op' = "setrc" /\ pc' = "guard1" /\ arg' = arg /\ UNCHANGED asked
      BY <2>7 DEF Goto
    <3>2. arg \in Codes /\ arg \in asked
      BY <1>1, <2>7, ReplaceFacts
    <3>3. pin'["RC"].s = arg
      BY <1>2, <2>2, <2>3, <2>7 DEF BindSecrets
    <3>4. Shape' /\ Wiping' /\ Writing' /\ Working'
      BY <3>1, <3>2, <3>3 DEF Shape, Wiping, Writing, Working, Wipes, PinPcs
    <3> QED
      BY <2>6, <2>7, <3>4
  <2>8. CASE op = "reset" /\ Return("OK")
    BY <1>1, <2>3, <2>4, <2>8, StayFacts, ErrStep
  <2>9. op \in {"boot", "activate"} => pin["RC"] = NoBinding /\ pin'["RC"] = NoBinding
    BY <1>1, <1>2, <2>3 DEF Inv, Control, Wiping, Wipes, Gone, PinIds
  <2>10. op = "boot" => Erased(EccKeys) /\ o3 = "absent"
    BY <1>1 DEF Inv, Control, Wiping
  <2>11. CASE op \in {"boot", "activate"} /\ arg = "PW1" /\ Goto("bind", "PW3")
    <3>1. op' = op /\ pc' = "bind" /\ arg' = "PW3"
      BY <2>11 DEF Goto
    <3>2. pin'["PW1"].st = "ok" /\ pin'["PW1"].keyed
      BY <1>2, <2>2, <2>3, <2>11
    <3>3. Shape' /\ Wiping'
      BY <2>3, <2>9, <2>10, <2>11, <3>1, <3>2 DEF Shape, Wiping, Wipes, PinPcs, Erased, Gone, Factory
    <3>4. Writing' /\ Working'
      BY <2>11, <3>1 DEF Writing, Working
    <3> QED
      BY <2>6, <2>11, <3>3, <3>4
  <2>12. arg = "PW3" /\ op \in {"boot", "activate"} =>
           /\ pin'["PW1"].st = "ok" /\ pin'["PW1"].keyed
           /\ pin'["PW3"].st = "ok" /\ pin'["PW3"].keyed
    <3>1. arg = "PW3" /\ op \in {"boot", "activate"} => pin["PW1"].st = "ok" /\ pin["PW1"].keyed
      BY <1>1 DEF Inv, Control, Wiping, Wipes, Factory
    <3> QED
      BY <1>2, <2>2, <2>3, <3>1 DEF PinIds
  <2>13. CASE op = "boot" /\ arg = "PW3" /\ Goto("init3", None)
    <3>1. op' = "boot" /\ pc' = "init3" /\ arg' = None
      BY <2>13 DEF Goto
    <3>2. Shape' /\ Wiping'
      BY <2>3, <2>9, <2>10, <2>12, <2>13, <3>1 DEF Shape, Wiping, Wipes, PinPcs, Erased, Gone, Factory
    <3>3. Writing' /\ Working'
      BY <3>1 DEF Writing, Working
    <3> QED
      BY <2>6, <2>13, <3>2, <3>3
  <2>14. CASE op = "activate" /\ arg = "PW3" /\ Goto("activate", None)
    <3>1. op' = "activate" /\ pc' = "activate" /\ arg' = None
      BY <2>14 DEF Goto
    <3>2. Shape' /\ Wiping'
      BY <2>3, <2>9, <2>12, <2>14, <3>1 DEF Shape, Wiping, Wipes, PinPcs, Erased, Gone, Factory
    <3>3. Writing' /\ Working'
      BY <3>1 DEF Writing, Working
    <3> QED
      BY <2>6, <2>14, <3>2, <3>3
  <2>15. CASE Return("ERR") /\ UNCHANGED chipVars
    BY <1>3, <2>15
  <2>16. \/ Return("ERR") /\ UNCHANGED chipVars
         \/ op = "setrc" /\ Goto("guard1", arg)
         \/ op = "reset" /\ Return("OK")
         \/ op \in {"boot", "activate"} /\ arg = "PW1" /\ Goto("bind", "PW3")
         \/ op = "boot" /\ arg = "PW3" /\ Goto("init3", None)
         \/ /\ op \notin {"setrc", "reset"} /\ ~(op \in {"boot", "activate"} /\ arg = "PW1")
            /\ ~(op = "boot" /\ arg = "PW3") /\ Goto("activate", None)
    BY Zenon DEF Bind
  <2> QED
    BY <1>2, <2>7, <2>8, <2>11, <2>13, <2>14, <2>15, <2>16
<1> QED
  BY <1>3, <1>4 DEF Bind

LEMMA InitStep ==
    ASSUME Inv, openpgp_state_init
    PROVE  Inv'
<1>1. /\ pc = "init3" /\ Effect /\ loaded' = TRUE /\ ram' = o3rec' /\ unc3' = FALSE
      /\ Return("OK") /\ UNCHANGED <<uncP, tries, authVars, faults>>
  BY DEF openpgp_state_init
<1>2. op \in {"boot", "terminate"}
  BY <1>1 DEF Inv, Control, Shape, Wipes, UsePcs, PinPcs
<1>3. OnO3("ok", Defaults(IF op = "boot" THEN "OPERATIONAL" ELSE "TERMINATED"))
  BY <1>1 DEF Effect, Stores
<1>4. /\ o3' = "ok" /\ o3rec' = Defaults(IF op = "boot" THEN "OPERATIONAL" ELSE "TERMINATED")
      /\ UNCHANGED <<ecc, pin>>
  BY <1>3 DEF OnO3
<1>5. ChipStep /\ AccessKept
  BY <1>1, <1>4, EffectStep, SameAccess
<1>6. Cells' /\ RamIsChip'
  BY <1>1, <1>4, <1>5 DEF Inv, Control, Cells, RamIsChip, AccessKept, AccessTypes, ChipStep, Safe, Chip
<1>7. OnlyLatestCode'
  BY <1>2, <1>4, RecordFacts DEF OnlyLatestCode
<1>8. op = "terminate" => WipeErasesAll'
  <2>1. op = "terminate" => Erased(EccKeys) /\ Gone(PinIds)
    BY <1>1 DEF Inv, Control, Wiping
  <2>2. op = "terminate" => ret' = "terminate"
    BY <1>1 DEF Return
  <2> QED
    BY <1>4, <2>1, <2>2 DEF WipeErasesAll, Erased, Gone
<1>9. op # "activate"
  BY <1>2
<1> QED
  BY <1>1, <1>5, <1>6, <1>7, <1>8, <1>9, EndStep DEF ChipStep, AccessKept

LEMMA StoreGoes ==
    ASSUME Inv, Store
    PROVE  Inv'
<1>1. pc \in Stores /\ UNCHANGED <<loaded, unc3, uncP, tries, faults>>
  BY DEF Store
<1>2. StoreAllowed
  BY <1>1, StoreFacts
<1>3. Effect /\ ram' = StoreValue /\ UNCHANGED authVars
  BY <1>2 DEF Store
<1>4. /\ Safe' /\ CodeKept /\ o3' = "ok" /\ o3rec' = StoreValue /\ UNCHANGED <<ecc, pin>>
      /\ lead' = IF pc = "count" THEN 1 ELSE lead
  BY <1>1, <1>3, StoreStep
<1>5. AccessKept
  BY <1>3, <1>4, SameAccess
<1>6. Cells' /\ RamIsChip'
  BY <1>1, <1>3, <1>4, <1>5, StoreFacts DEF Inv, Control, Cells, RamIsChip, AccessKept, AccessTypes
<1>7. loaded' /\ usable' /\ StoreValue.lc = "OPERATIONAL"
  BY <1>1, StoreFacts DEF usable
<1>8. ASSUME NEW p, NEW a, Goto(p, a), op \in Served,
             op = "reset" /\ p \in {"destroy", "bind"} => kek = None,
             Shape', Wiping', Writing', Working'
      PROVE  Inv'
  <2>1. pc # "idle" /\ pc' = p /\ arg' = a /\ UNCHANGED <<op, touched, ret, asked>>
    BY <1>1, <1>8 DEF Goto, Stores
  <2>2. ret' = "none" /\ Asked'
    BY <2>1 DEF Inv, Control, Answered, Asked
  <2>3. Trusted'
    BY <1>3, <1>7, <1>8, <2>1 DEF Trusted, Served
  <2>4. Access'
    BY <1>5, <1>7, <1>8, <2>1 DEF Access, Dropped, AccessKept, Served
  <2> QED
    BY <1>4, <1>6, <1>8, <2>1, <2>2, <2>3, <2>4, GoOn
<1>9. CASE pc = "guard0" /\ arg # None /\ Goto("bind", arg)
  <2>1. op = "setrc" /\ arg \in Codes
    BY <1>9 DEF Inv, Control, Shape, Wipes, PinPcs, UsePcs
  <2>2. op' = "setrc" /\ pc' = "bind" /\ arg' = arg /\ UNCHANGED asked
    BY <1>9, <2>1 DEF Goto
  <2>3. Shape' /\ Wiping' /\ Writing' /\ Working'
    BY <2>1, <2>2 DEF Inv, Control, Shape, Wiping, Writing, Working, Wipes, PinPcs
  <2> QED
    BY <1>8, <1>9, <2>1, <2>3 DEF Served
<1>10. CASE pc = "destroy" /\ Goto("bind", arg)
  <2>1. op = "reset" /\ arg \in BOOLEAN
    BY <1>10 DEF Inv, Control, Shape, Wipes, PinPcs, UsePcs
  <2>2. op' = "reset" /\ pc' = "bind" /\ arg' = arg
    BY <1>10, <2>1 DEF Goto
  <2>3. ram'.dec = None
    BY <1>1, <1>3, <1>10, StoreFacts
  <2>4. Shape' /\ Wiping' /\ Writing' /\ Working'
    BY <2>1, <2>2, <2>3 DEF Shape, Wiping, Writing, Working, Wipes, PinPcs
  <2>5. kek = None
    BY <1>10, <2>1 DEF Inv, Control, Access, Dropped
  <2> QED
    BY <1>8, <1>10, <2>1, <2>4, <2>5 DEF Served
<1>11. CASE pc = "count" /\ Goto("sign", arg)
  <2>1. op = "use" /\ (touched \/ ram.uif = 0)
    BY <1>11 DEF Inv, Control, Working, Shape, Wipes, PinPcs, UsePcs
  <2>2. op' = "use" /\ pc' = "sign" /\ UNCHANGED touched
    BY <1>11, <2>1 DEF Goto
  <2>3. ram' = ram /\ lead' = 1
    BY <1>1, <1>3, <1>4, <1>11, StoreFacts
  <2>4. Shape' /\ Wiping' /\ Writing' /\ Working'
    BY <2>1, <2>2, <2>3 DEF Shape, Wiping, Writing, Working, Wipes, PinPcs
  <2> QED
    BY <1>8, <1>11, <2>1, <2>4 DEF Served
<1>12. CASE Return("OK") /\ ~(pc = "guard0" /\ arg # None)
  <2>1. pc # "init3" /\ op # "terminate" /\ op' = "none"
    BY <1>1, <1>12 DEF Stores, Return, Inv, Control, Shape, Wipes, PinPcs, UsePcs
  <2>2. op = "setrc" => OnlyLatestCode'
    <3>1. op = "setrc" => pc \in {"guard0", "guard1"}
      BY <1>1 DEF Stores, Inv, Control, Shape, Wipes, PinPcs, UsePcs
    <3>2. CASE pc = "guard0"
      BY <1>1, <1>4, <3>2, StoreFacts DEF OnlyLatestCode
    <3>3. CASE op = "setrc" /\ pc = "guard1"
      <4>1. arg \in Codes /\ pin["RC"].s = arg
        BY <3>3 DEF Inv, Control, Writing, Shape, Wipes, PinPcs, UsePcs
      <4>2. asked' = {arg}
        BY <1>12, <3>3, <4>1, NoneAssumption DEF Return
      <4> QED
        BY <1>4, <4>1, <4>2 DEF OnlyLatestCode
    <3> QED
      BY <3>1, <3>2, <3>3
  <2>3. op = "activate" => WipeErasesAll'
    <3>1. op = "activate" => pc = "activate"
      BY <1>1 DEF Stores, Inv, Control, Shape, Wipes, PinPcs, UsePcs
    <3>2. op = "activate" => Gone({"RC"})
      BY <3>1 DEF Inv, Control, Wiping, Wipes
    <3>3. op = "activate" => Erased(EccKeys) /\ o3rec' = Defaults("OPERATIONAL")
      BY <1>1, <1>4, <3>1, StoreFacts, RecordFacts DEF Inv, Safe, RecordIsTrue, Erased
    <3>4. op = "activate" => ret' = "activate"
      BY <1>12 DEF Return
    <3> QED
      BY <1>4, <3>2, <3>3, <3>4 DEF WipeErasesAll, Erased, Gone
  <2> QED
    BY <1>4, <1>5, <1>6, <1>7, <1>12, <2>1, <2>2, <2>3, EndStep DEF AccessKept
<1>13. \/ pc = "guard0" /\ arg # None /\ Goto("bind", arg)
       \/ pc = "destroy" /\ Goto("bind", arg)
       \/ pc = "count" /\ Goto("sign", arg)
       \/ Return("OK") /\ ~(pc = "guard0" /\ arg # None)
  BY <1>2, Zenon DEF Store
<1> QED
  BY <1>9, <1>10, <1>11, <1>12, <1>13

LEMMA NothingStep ==
    ASSUME Inv, NothingToDestroy
    PROVE  Inv'
<1>1. /\ pc = "destroy" /\ ram.dec = None /\ Goto("bind", arg)
      /\ UNCHANGED chipVars /\ UNCHANGED <<ramVars, authVars, faults>>
  BY DEF NothingToDestroy
<1>2. op = "reset" /\ arg \in BOOLEAN
  BY <1>1 DEF Inv, Control, Shape, Wipes, UsePcs, PinPcs
<1>3. ChipStep /\ AccessKept
  BY <1>1, QuietStep, StayFacts
<1>4. kek' = None
  BY <1>1, <1>2, <1>3 DEF Inv, Control, Access, Dropped, AccessKept
<1>5. op' = "reset" /\ pc' = "bind" /\ arg' = arg
  BY <1>1, <1>2 DEF Goto
<1>6. ram' = ram
  BY <1>1, StayFacts, SameState
<1>7. Shape' /\ Wiping' /\ Writing' /\ Working'
  BY <1>1, <1>2, <1>5, <1>6 DEF Shape, Wiping, Writing, Working, Wipes, PinPcs
<1> QED
  BY <1>1, <1>2, <1>3, <1>4, <1>7, StayFacts, SameState, GotoStep DEF chipVars

(* A key is generated or used: the operation ends. *)
LEMMA KeyGoes ==
    ASSUME Inv, Generate \/ Sign \/ Authenticate \/ Decipher
    PROVE  Inv'
<1>1. PICK st \in {"OK", "ERR"} : Return(st)
  BY DEF Generate, Sign, Authenticate, Decipher
<1>2. pc \in {"gen", "sign", "authenticate", "decipher"} /\ UNCHANGED <<ramVars, faults>>
  BY DEF Generate, Sign, Authenticate, Decipher
<1>3. op \in {"generate", "use"}
  BY <1>2 DEF Inv, Control, Shape, Wipes, UsePcs, PinPcs
<1>4. Effect \/ UNCHANGED chipVars
  BY DEF Generate, Sign, Authenticate, Decipher
<1>5. ChipStep
  BY <1>4, EffectStep, QuietStep
<1>6. UNCHANGED <<o3, o3rec>>
  BY <1>2, <1>5 DEF ChipStep, O3Steps, Stores
<1>7. UNCHANGED authVars \/ auth_drop(PW1Flags)
  BY DEF Generate, Sign, Authenticate, Decipher
<1>8. AccessKept
  BY <1>5, <1>7, SameAccess, DropAccess DEF ChipStep
<1>9. UNCHANGED stateVars /\ uncP' \in SUBSET PinIds /\ tries' = tries
  BY <1>2 DEF ramVars, stateVars, Inv, Control, Cells
<1> QED
  BY <1>1, <1>2, <1>3, <1>5, <1>6, <1>8, <1>9, ErrStep

-----------------------------------------------------------------------------
(* Faults. *)

LEMMA FailFacts ==
    ASSUME Inv, Fail, ChipStep
    PROVE  Return("ERR") /\ AccessKept
<1>1. Return("ERR") /\ (UNCHANGED authVars \/ auth_drop(PW1Flags))
  BY DEF Fail
<1> QED
  BY <1>1, SameAccess, DropAccess DEF ChipStep

LEMMA LostStoreStep ==
    ASSUME Inv, LostStore
    PROVE  Inv'
<1>1. /\ Fault /\ Fail /\ UNCHANGED <<loaded, ram, uncP, tries>>
      /\ \/ UNCHANGED <<chipVars, unc3>>
         \/ Interrupted /\ unc3' = TRUE
  BY DEF LostStore
<1>2. ChipStep
  BY <1>1, InterruptedStep, QuietStep
<1>3. uncP' \in SUBSET PinIds
  BY <1>1 DEF Inv, Control, Cells
<1>4. \/ UNCHANGED stateVars /\ UNCHANGED <<o3, o3rec>>
      \/ loaded' = loaded /\ ram' = ram /\ unc3' = TRUE
  BY <1>1 DEF stateVars, chipVars
<1>5. Return("ERR") /\ AccessKept /\ tries' = tries
  BY <1>1, <1>2, FailFacts
<1> QED
  BY <1>1, <1>2, <1>3, <1>4, <1>5, ErrStep

LEMMA LostStateStep ==
    ASSUME Inv, LostState
    PROVE  Inv'
<1>1. /\ Fault /\ pc \in {"load", "clear3", "init3"} /\ Interrupted
      /\ loaded' = FALSE /\ ram' = Blank /\ Return("ERR") /\ UNCHANGED <<uncP, tries, authVars>>
  BY DEF LostState
<1>2. kek = None
  BY <1>1 DEF Inv, Control, Shape, Access, Dropped, Trusted, Wipes, UsePcs, PinPcs
<1>3. ChipStep /\ AccessKept
  BY <1>1, <1>2, InterruptedStep, SameAccess
<1>4. uncP' \in SUBSET PinIds /\ tries' = tries
  BY <1>1 DEF Inv, Control, Cells
<1>5. loaded' = FALSE /\ ram' \in {ram, Blank}
  BY <1>1
<1> QED
  BY <1>1, <1>2, <1>3, <1>4, <1>5, ErrStep

LEMMA LostPinStep ==
    ASSUME Inv, LostPin
    PROVE  Inv'
<1>1. Fault /\ pc \in PinSteps /\ Interrupted /\ UNCHANGED <<stateVars, tries>>
  BY DEF LostPin, PinSteps
<1>2. ChipStep
  BY <1>1, InterruptedStep
<1>3. UNCHANGED <<o3, o3rec>>
  BY <1>1, <1>2 DEF ChipStep, O3Steps, Stores, PinSteps
<1>4. uncP' \in SUBSET PinIds
  <2>1. Which \in PinIds /\ uncP \in SUBSET PinIds
    BY <1>1, WhichFacts DEF Inv, Control, Cells
  <2>2. uncP' \in {uncP, uncP \ {Which}, uncP \cup {Which}}
    BY DEF LostPin
  <2> QED
    BY <2>1, <2>2
<1>5. CASE pc \in {"stat", "statRC"} /\ OnStatus("ERROR")
  BY <1>1, <1>2, <1>3, <1>4, <1>5, StatusGoes
<1>6. CASE pc \in {"try", "tryRC"} /\ OnAttempt("ERR")
  BY <1>1, <1>2, <1>3, <1>4, <1>6, AttemptGoes
<1>7. CASE Fail
  <2>1. Return("ERR") /\ AccessKept /\ tries' = tries /\ UNCHANGED stateVars
    BY <1>1, <1>2, <1>7, FailFacts
  <2> QED
    BY <1>1, <1>2, <1>3, <1>4, <2>1, ErrStep
<1>8. \/ pc \in {"stat", "statRC"} /\ OnStatus("ERROR")
      \/ pc \in {"try", "tryRC"} /\ OnAttempt("ERR")
      \/ Fail
  BY Zenon DEF LostPin
<1> QED
  BY <1>5, <1>6, <1>7, <1>8

LEMMA LostKeyStep ==
    ASSUME Inv, LostKey
    PROVE  Inv'
<1>1. /\ Fault /\ pc \in {"erase", "gen", "sign", "authenticate"} /\ Interrupted /\ Fail
      /\ UNCHANGED ramVars
  BY DEF LostKey
<1>2. ChipStep
  BY <1>1, InterruptedStep
<1>3. UNCHANGED <<o3, o3rec>>
  BY <1>1, <1>2 DEF ChipStep, O3Steps, Stores
<1>4. UNCHANGED stateVars /\ uncP' \in SUBSET PinIds /\ tries' = tries
  BY <1>1 DEF ramVars, stateVars, Inv, Control, Cells
<1> QED
  BY <1>1, <1>2, <1>3, <1>4, FailFacts, ErrStep

(* Power comes back over whatever the last call left. *)
LEMMA PowerStep ==
    ASSUME Inv, PowerUp, ChipStep, UNCHANGED faults \/ Fault
    PROVE  Inv'
<1>1. /\ loaded' = FALSE /\ ram' = Blank /\ unc3' = FALSE /\ uncP' = {} /\ tries' = 0
      /\ auth' = {} /\ kek' = None
      /\ op' = "none" /\ pc' = "idle" /\ ret' = "none" /\ UNCHANGED asked
  BY DEF PowerUp
<1>2. faults' \in 0 .. MaxFaults
  BY MaxFaultsAssumption DEF Inv, Control, Cells, Fault
<1>3. Cells' /\ Asked'
  BY <1>1, <1>2, RecordFacts, BootTriesAssumption DEF Cells, Asked, Inv, Control
<1>4. Shape' /\ RamIsChip' /\ Trusted'
  BY <1>1 DEF Shape, RamIsChip, Trusted, usable, Served
<1>5. Wiping' /\ Writing' /\ Working'
  BY <1>1 DEF Wiping, Writing, Working, Wipes, PinPcs
<1>6. Access'
  BY <1>1 DEF Access, KekIsLive
<1> QED
  BY <1>1, <1>3, <1>4, <1>5, <1>6, GoOn DEF ChipStep

LEMMA PowerCutStep ==
    ASSUME Inv, PowerCut \/ Replug
    PROVE  Inv'
  BY InterruptedStep, QuietStep, PowerStep DEF PowerCut, Replug

-----------------------------------------------------------------------------
LEMMA InvInit == Init => Inv
<1> SUFFICES ASSUME Init PROVE Inv
  OBVIOUS
<1>1. Chip /\ Forms /\ Owned
  BY RecordFacts, BindingFacts, RoundsAssumption DEF Init, Chip, Forms, Owned, EccKeys, PinIds, Binding, NoBinding
<1>2. RecordIsTrue /\ Permanent /\ OnlyLatestCode
  BY DEF Init, RecordIsTrue, Permanent, OnlyLatestCode
<1>3. Cells /\ Asked
  BY RecordFacts, BootTriesAssumption, MaxFaultsAssumption DEF Init, Cells, Asked
<1>4. Shape /\ RamIsChip /\ Trusted
  BY DEF Init, Shape, RamIsChip, Trusted, usable, Served
<1>5. Wiping /\ Writing /\ Working
  BY DEF Init, Wiping, Writing, Working, Wipes, PinPcs
<1>6. Access /\ Answered
  BY DEF Init, Access, KekIsLive, Answered, WipeErasesAll
<1> QED
  BY <1>1, <1>2, <1>3, <1>4, <1>5, <1>6 DEF Inv, Safe, Control

LEMMA SameStep ==
    ASSUME Inv, UNCHANGED vars
    PROVE  Inv'
<1>1. /\ UNCHANGED <<o3, o3rec, ecc, pin, loaded, ram, unc3, uncP, tries, auth, kek>>
      /\ UNCHANGED <<op, pc, arg, touched, ret, lead, perm, asked, faults>>
  BY DEF vars
<1>2. ChipStep
  BY <1>1, QuietStep DEF chipVars
<1>3. OnlyLatestCode' /\ Cells' /\ Asked'
  BY <1>1, <1>2, CodeStep DEF Inv, Control, Cells, Asked, ChipStep
<1>4. RamIsChip' /\ Trusted'
  BY <1>1 DEF Inv, Control, RamIsChip, Trusted, usable
<1>5. Shape'
  BY <1>1 DEF Inv, Control, Shape
<1>6. Wiping'
  BY <1>1 DEF Inv, Control, Wiping, Erased, Gone, Factory
<1>7. Writing' /\ Working' /\ Access'
  BY <1>1 DEF Inv, Control, Writing, Working, Access, KekIsLive, Dropped
<1>8. Answered'
  BY <1>1 DEF Inv, Control, Answered, WipeErasesAll
<1> QED
  BY <1>2, <1>3, <1>4, <1>5, <1>6, <1>7, <1>8 DEF ChipStep, Inv, Control

LEMMA InvNext == Inv /\ [Next]_vars => Inv'
<1> SUFFICES ASSUME Inv, [Next]_vars PROVE Inv'
  OBVIOUS
<1>1. CASE pgp_lifecycle_ensure
  BY <1>1, EnsureStep
<1>2. CASE Apdu
  BY <1>2, AtOnceStep, VerifyStep, GetDataStep, ChangeStep, ResetStep, PutStep, SetCodeStep,
     GenerateBegins, KeyStepBegins, LifecycleBegins DEF Apdu
<1>3. CASE Step
  BY <1>3, TouchStep, StatusStep, AttemptStep, LoadStep, EraseStep, ClearStep, RetireStep,
     DropStep, BindStep, InitStep, StoreGoes, NothingStep, KeyGoes DEF Step
<1>4. CASE Environment
  BY <1>4, CardResetStep, LostStoreStep, LostStateStep, LostPinStep, LostKeyStep, PowerCutStep
     DEF Environment
<1>5. CASE UNCHANGED vars
  BY <1>5, SameStep
<1> QED
  BY <1>1, <1>2, <1>3, <1>4, <1>5 DEF Next

(* The Boolean variables. *)
LEMMA PermIsFlag ==
    ASSUME Flags, Interrupted
    PROVE  perm' \in BOOLEAN
<1>1. perm \in BOOLEAN
  BY DEF Flags
<1>2. \/ perm' = perm
      \/ \E x : perm' = (perm /\ x # "absent")
      \/ perm' = (perm \/ (pc = "put" /\ arg.uif = 2))
  BY Zenon DEF Interrupted, Effect, Torn, OnPin, OnKey, OnO3, chipVars
<1> QED
  BY <1>1, <1>2, Zenon

LEMMA ControlFlags ==
    ASSUME Flags, \/ \E st : Return(st)
                  \/ \E p, a : Goto(p, a)
                  \/ \E o, p, a : Enter(o, p, a)
                  \/ Answer
                  \/ PowerUp
    PROVE  touched' \in BOOLEAN /\ ensured' \in BOOLEAN
  BY Zenon DEF Flags, Return, Goto, Enter, Answer, PowerUp

LEMMA FlagsKept ==
    ASSUME Flags,
           \/ \E st : Return(st)
           \/ \E p, a : Goto(p, a)
           \/ \E o, p, a : Enter(o, p, a)
           \/ Answer
           \/ PowerUp,
           Interrupted \/ UNCHANGED perm,
           UNCHANGED loaded \/ loaded' = TRUE \/ loaded' = FALSE,
           UNCHANGED unc3 \/ unc3' = TRUE \/ unc3' = FALSE
    PROVE  Flags'
<1>1. perm' \in BOOLEAN
  BY PermIsFlag, Zenon DEF Flags
<1>2. touched' \in BOOLEAN /\ ensured' \in BOOLEAN
  BY ControlFlags, Zenon
<1>3. loaded' \in BOOLEAN /\ unc3' \in BOOLEAN
  BY Zenon DEF Flags
<1> QED
  BY <1>1, <1>2, <1>3, Zenon DEF Flags

LEMMA ApduFlags ==
    ASSUME Flags, Apdu
    PROVE  Flags'
<1>1. Answer \/ \E o, p, a : Enter(o, p, a)
  BY Zenon DEF Apdu, Refuse, handle_select, VerifyReset, VerifyBadLength, handle_verify, Verify,
     handle_get_data, handle_change_ref, handle_reset_rc, handle_put_data, pgp_pin_set_rc,
     handle_generate, handle_pso_cds, handle_pso_dec, handle_internal_auth, KeyUse,
     handle_terminate_df, handle_activate_file
<1>2. UNCHANGED perm /\ UNCHANGED loaded /\ UNCHANGED unc3
  BY <1>1 DEF Answer, Enter, chipVars, ramVars
<1> QED
  BY <1>1, <1>2, FlagsKept, Zenon

LEMMA StatusFlags ==
    ASSUME NEW st, OnStatus(st) \/ OnAttempt(st) \/ Fail
    PROVE  \/ \E e : Return(e)
           \/ \E p, a : Goto(p, a)
  BY Zenon DEF OnStatus, OnAttempt, Fail

LEMMA StepFlags ==
    ASSUME Flags, Step
    PROVE  Flags'
<1>1. CASE Touch
  <2>1. UNCHANGED perm /\ UNCHANGED loaded /\ UNCHANGED unc3
    BY <1>1 DEF Touch, chipVars, ramVars
  <2>2. CASE touched' = TRUE /\ UNCHANGED ensured
    BY <2>1, <2>2 DEF Flags
  <2>3. CASE Return("ERR")
    BY <2>1, <2>3, FlagsKept, Zenon
  <2> QED
    BY <1>1, <2>2, <2>3 DEF Touch
<1>2. CASE Status
  <2>1. (\E e : Return(e)) \/ (\E p, a : Goto(p, a))
    BY <1>2, StatusFlags, Zenon DEF Status
  <2>2. UNCHANGED perm /\ UNCHANGED loaded /\ UNCHANGED unc3
    BY <1>2 DEF Status, ramVars
  <2> QED
    BY <2>1, <2>2, FlagsKept, Zenon
<1>3. CASE Attempt
  <2>1. \E e : OnAttempt(e)
    BY <1>3, Zenon DEF Attempt
  <2>2. (\E e : Return(e)) \/ (\E p, a : Goto(p, a))
    BY <2>1, StatusFlags, Zenon
  <2>3. UNCHANGED perm /\ UNCHANGED loaded /\ UNCHANGED unc3
    BY <1>3 DEF Attempt, ramVars
  <2> QED
    BY <2>2, <2>3, FlagsKept, Zenon
<1>4. CASE Load
  <2>1. (\E e : Return(e)) \/ (\E p, a : Goto(p, a))
    BY <1>4, Zenon DEF Load
  <2>2. UNCHANGED perm /\ UNCHANGED unc3 /\ (loaded' = TRUE \/ loaded' = FALSE)
    BY <1>4 DEF Load
  <2> QED
    BY <2>1, <2>2, FlagsKept, Zenon
<1>5. CASE Erase \/ Retire \/ Drop \/ Bind \/ NothingToDestroy
  <2>1. (\E e : Return(e)) \/ (\E p, a : Goto(p, a))
    BY <1>5, Zenon DEF Erase, Retire, Drop, Bind, NothingToDestroy
  <2>2. Interrupted
    BY <1>5, Zenon DEF Erase, Retire, Drop, Bind, NothingToDestroy, Interrupted
  <2>3. UNCHANGED loaded /\ UNCHANGED unc3
    BY <1>5 DEF Erase, Retire, Drop, Bind, NothingToDestroy, ramVars, stateVars
  <2> QED
    BY <2>1, <2>2, <2>3, FlagsKept, Zenon
<1>6. CASE openpgp_state_clear \/ openpgp_state_init
  <2>1. (\E e : Return(e)) \/ (\E p, a : Goto(p, a))
    BY <1>6, Zenon DEF openpgp_state_clear, openpgp_state_init
  <2>2. Interrupted /\ unc3' = FALSE /\ (loaded' = TRUE \/ loaded' = FALSE)
    BY <1>6, Zenon DEF openpgp_state_clear, openpgp_state_init, Interrupted
  <2> QED
    BY <2>1, <2>2, FlagsKept, Zenon
<1>7. CASE Store
  <2>1. (\E e : Return(e)) \/ (\E p, a : Goto(p, a))
    BY <1>7, Zenon DEF Store, Fail
  <2>2. Interrupted
    BY <1>7, Zenon DEF Store, Interrupted
  <2>3. UNCHANGED loaded /\ UNCHANGED unc3
    BY <1>7 DEF Store
  <2> QED
    BY <2>1, <2>2, <2>3, FlagsKept, Zenon
<1>8. CASE Generate \/ Sign \/ Authenticate \/ Decipher
  <2>1. \E e : Return(e)
    BY <1>8, Zenon DEF Generate, Sign, Authenticate, Decipher
  <2>2. Interrupted
    BY <1>8, Zenon DEF Generate, Sign, Authenticate, Decipher, Interrupted
  <2>3. UNCHANGED loaded /\ UNCHANGED unc3
    BY <1>8 DEF Generate, Sign, Authenticate, Decipher, ramVars
  <2> QED
    BY <2>1, <2>2, <2>3, FlagsKept, Zenon
<1> QED
  BY <1>1, <1>2, <1>3, <1>4, <1>5, <1>6, <1>7, <1>8, Zenon DEF Step

LEMMA EnvironmentFlags ==
    ASSUME Flags, Environment
    PROVE  Flags'
<1>1. CASE openpgp_applet_card_reset
  BY <1>1 DEF openpgp_applet_card_reset, chipVars, ramVars, Flags
<1>2. CASE LostStore
  <2>1. \E e : Return(e)
    BY <1>2, Zenon DEF LostStore, Fail
  <2>2. UNCHANGED loaded /\ (UNCHANGED unc3 \/ unc3' = TRUE) /\ (Interrupted \/ UNCHANGED perm)
    BY <1>2 DEF LostStore, chipVars
  <2> QED
    BY <2>1, <2>2, FlagsKept, Zenon
<1>3. CASE LostState
  <2>1. Return("ERR") /\ Interrupted /\ loaded' = FALSE
    BY <1>3, Zenon DEF LostState
  <2>2. UNCHANGED unc3 \/ unc3' = TRUE
    BY <1>3 DEF LostState
  <2> QED
    BY <2>1, <2>2, FlagsKept, Zenon
<1>4. CASE LostPin
  <2>1. \E e : OnStatus(e) \/ OnAttempt(e) \/ Fail
    BY <1>4, Zenon DEF LostPin
  <2>2. (\E e : Return(e)) \/ (\E p, a : Goto(p, a))
    BY <2>1, StatusFlags, Zenon
  <2>3. Interrupted
    BY <1>4, Zenon DEF LostPin
  <2>4. UNCHANGED loaded /\ UNCHANGED unc3
    BY <1>4 DEF LostPin, stateVars
  <2> QED
    BY <2>2, <2>3, <2>4, FlagsKept, Zenon
<1>5. CASE LostKey
  <2>1. \E e : Return(e)
    BY <1>5, Zenon DEF LostKey, Fail
  <2>2. Interrupted
    BY <1>5, Zenon DEF LostKey
  <2>3. UNCHANGED loaded /\ UNCHANGED unc3
    BY <1>5 DEF LostKey, ramVars
  <2> QED
    BY <2>1, <2>2, <2>3, FlagsKept, Zenon
<1>6. CASE PowerCut \/ Replug
  <2>1. PowerUp /\ Interrupted
    BY <1>6, Zenon DEF PowerCut, Replug, Interrupted
  <2>2. loaded' = FALSE /\ unc3' = FALSE
    BY <2>1, Zenon DEF PowerUp
  <2> QED
    BY <2>1, <2>2, FlagsKept, Zenon
<1> QED
  BY <1>1, <1>2, <1>3, <1>4, <1>5, <1>6, Zenon DEF Environment

LEMMA FlagsNext == Flags /\ [Next]_vars => Flags'
<1> SUFFICES ASSUME Flags, [Next]_vars PROVE Flags'
  OBVIOUS
<1>1. CASE pgp_lifecycle_ensure
  BY <1>1 DEF pgp_lifecycle_ensure, chipVars, stateVars, Flags
<1>2. CASE UNCHANGED vars
  BY <1>2 DEF vars, Flags
<1> QED
  BY <1>1, <1>2, ApduFlags, StepFlags, EnvironmentFlags DEF Next

-----------------------------------------------------------------------------
(* The results. *)

LEMMA InvHolds == Spec => []Inv
  BY InvInit, InvNext, PTL DEF Spec

(* The card's objects and RAM keep their types through every APDU, fault and *)
(* power cut.                                                                *)
THEOREM TypeCorrect == Spec => []TypeOK
<1>1. Init => Flags
  BY DEF Init, Flags
<1>2. Spec => []Flags
  BY <1>1, FlagsNext, PTL DEF Spec
<1>3. Inv /\ Flags => TypeOK
  BY DEF Inv, Safe, Chip, Control, Cells, Asked, Flags, TypeOK
<1> QED
  BY <1>2, <1>3, InvHolds, PTL

(* A key is never found under PINs it was not made under: factory PINs are   *)
(* bound over erased keys only, a new PW1 after its wrap is destroyed        *)
(* (pgp_lifecycle_wipe, handle_reset_rc), wherever power is cut.             *)
THEOREM KeysCorrect == Spec => []KeysOfThisPin
<1>1. Inv => KeysOfThisPin
  BY DEF Inv, Safe, Owned, KeysOfThisPin
<1> QED
  BY <1>1, InvHolds, PTL

(* An OPERATIONAL record that a boot may read has both PINs behind it, and   *)
(* under a TERMINATED one no key is left (pgp_lifecycle_boot trusts both).   *)
THEOREM RecordCorrect == Spec => []RecordIsTrue
<1>1. Inv => RecordIsTrue
  BY DEF Inv, Safe
<1> QED
  BY <1>1, InvHolds, PTL

(* A Resetting Code that opens is one that was asked for and not replaced or *)
(* cleared by a later command that answered OK (pgp_pin_set_rc's guard).     *)
THEOREM CodeCorrect == Spec => []OnlyLatestCode
<1>1. Inv => OnlyLatestCode
  BY DEF Inv
<1> QED
  BY <1>1, InvHolds, PTL

(* The KEK is in RAM exactly while 81 or 82 is granted, and is that of the   *)
(* PW1 bound now (auth_drop, auth_grant and every caller).                   *)
THEOREM KekCorrect == Spec => []KekIsLive
<1>1. Inv => KekIsLive
  BY DEF Inv, Control, Access
<1> QED
  BY <1>1, InvHolds, PTL

(* Every signature was counted in O3 before it was made (handle_pso_cds).    *)
THEOREM CounterCorrect == Spec => []SigsCounted
<1>1. Inv => SigsCounted
  BY DEF Inv, Safe, Chip, SigsCounted
<1> QED
  BY <1>1, InvHolds, PTL

(* Under a permanent UIF no key is used without a touch                      *)
(* (require_touch_if_enabled).                                               *)
THEOREM TouchCorrect == Spec => []PermanentTouch
<1>1. Inv => PermanentTouch
  <2> SUFFICES ASSUME Inv, perm, pc \in {"count", "sign", "decipher", "authenticate"}
               PROVE  touched
    BY DEF PermanentTouch
  <2>1. op = "use" /\ pc # "touch"
    BY DEF Inv, Control, Shape, Wipes, PinPcs, UsePcs
  <2>2. touched \/ ram.uif = 0
    BY <2>1 DEF Inv, Control, Working
  <2>3. ram.uif = 2
    BY <2>1 DEF Inv, Safe, Permanent, Control, Trusted, Served, RamIsChip
  <2> QED
    BY <2>2, <2>3
<1> QED
  BY <1>1, InvHolds, PTL

(* TERMINATE answers OK over an empty card only, and ACTIVATE over one with  *)
(* no key and no code of the old one (pgp_lifecycle_terminate, _activate).   *)
THEOREM WipeCorrect == Spec => []WipeErasesAll
<1>1. Inv => WipeErasesAll
  BY DEF Inv, Control, Answered
<1> QED
  BY <1>1, InvHolds, PTL
=============================================================================
