--------------------------- MODULE PinKernelProofs ---------------------------
(***************************************************************************)
(* Proofs about PinKernel, for every number of rounds, both layouts and    *)
(* any number of cuts and lost replies.                                    *)
(***************************************************************************)
EXTENDS PinKernel, TLAPS

(* Every slot that the binding c has still to use opens it. *)
Opens(c, from) ==
    /\ c.s \in Secrets
    /\ \A k \in SlotIds : c.ci[k] = c.s
    /\ \A k \in SlotIds : k >= from => md[c.range][k] = c.s

(* The count of evaluated PINs, while an attempt is being reserved too. *)
Counted ==
    /\ evals <= rec.next
    /\ pc \in {"retire", "unpend"} => b.next = rec.next
    /\ pc = "reserve" => b.next = rec.next + 1
    /\ pc = "guess" => evals < rec.next

(* The binding that a phase works on, compared with the stored one. *)
SameBinding ==
    /\ pc \in {"retire", "unpend", "reserve", "guess", "rekey", "restore"} =>
          /\ stored = "ok"
          /\ b.range = rec.range /\ b.s = rec.s /\ b.ci = rec.ci /\ b.pin = rec.pin
    /\ pc \in {"reserve", "guess", "rekey", "restore"} => ~b.pend /\ ~rec.pend
    /\ pc \in {"guess", "rekey"} => b = rec /\ b.next > 0
    /\ pc \in {"unpend"} => ~b.pend
    /\ pc \in {"rekey", "restore"} => s = b.s /\ s \in Secrets
    /\ pc = "restore" => b.next = 0

(* How far keying a range has got. *)
Keying ==
    /\ pc \in {"key", "commit"} =>
          /\ s \in Secrets /\ b.s = s /\ b.next = 0
          /\ b.pend => Ranges = 2 /\ stored = "ok" /\ b.range = 1 - rec.range
          /\ ~b.pend => ~acked /\ op = "setup"
          /\ \A k \in SlotIds :
                k < i \/ pc = "commit" => b.ci[k] = s /\ md[b.range][k] = s
    /\ pc = "key" /\ part = 1 => md[b.range][i] = s
    /\ pc = "key" /\ part = 2 => b.ci[i] = s
    /\ pc = "rekey" => \A k \in SlotIds : k < i => md[b.range][k] = s
    /\ pc = "restore" => \A k \in SlotIds : md[b.range][k] = s

(* How far retiring a range has got. *)
Retiring ==
    /\ pc \in {"retire", "unpend"} => Ranges = 2
    /\ pc = "retire" => \A k \in SlotIds : k < i => md[1 - b.range][k] = None
    /\ pc = "unpend" => \A k \in SlotIds : md[1 - b.range][k] = None

(* What belongs to a call: the secret drawn by setup is in use in no slot  *)
(* that it has not keyed, and a change that has verified has its binding.  *)
CallState ==
    /\ op = "none" <=> pc = "idle"
    /\ pc \in {"wipe0", "wipe1", "drop"} <=> op = "clear"
    /\ pc = "wipe1" => Ranges = 2
    /\ op = "clear" => ~acked
    /\ op = "setup" => s \in Secrets
    /\ op = "setup" /\ stage = "enter" =>
          \A r \in RangeIds, k \in SlotIds :
              md[r][k] = s => pc \in {"key", "commit"} /\ r = b.range
    /\ stage = "committed" =>
          /\ pc \in {"retire", "unpend"}
          /\ op \in {"setup", "change"}
          /\ rec.s \in Secrets
    /\ stage = "again" =>
          /\ op = "change" /\ pc \in {"load", "key", "commit"}
          /\ stored = "ok" /\ ~rec.pend
          /\ s = rec.s /\ s \in Secrets
    /\ pc \in {"reserve", "guess", "rekey", "restore"} =>
          op \in {"verify", "change"} /\ stage = "enter"
    /\ pc \in {"key", "commit"} =>
          (op = "setup" /\ stage = "enter") \/ (op = "change" /\ stage = "again")
    /\ pc # "idle" => ret.st = "BUSY"

(* A stored record is one that commit wrote, or none: a retirement pends   *)
(* only in a layout of two ranges, and every ci belongs to its secret.     *)
StoredForm ==
    /\ rec.pend => Ranges = 2
    /\ \A k \in SlotIds : rec.ci[k] = rec.s

(* A committed record opens, at every step of every call. *)
Kept == acked => Opens(rec, rec.next)

(* The inductive invariant. *)
Ind ==
    /\ TypeOK
    /\ Counted
    /\ SameBinding
    /\ Keying
    /\ Retiring
    /\ CallState
    /\ StoredForm
    /\ Kept
    /\ OldRangeRetired

-----------------------------------------------------------------------------
(* Types. *)

(* An M&D call changes one slot, to the secret behind its input. *)
LEMMA MdValues ==
    ASSUME TypeOK, md' = MacAndDestroy
    PROVE  /\ md' \in [RangeIds -> [SlotIds -> Secrets \cup {None}]]
           /\ \A r \in RangeIds, k \in SlotIds :
                 md'[r][k] = IF r = MdRange /\ k = MdSlot THEN MdInput ELSE md[r][k]
<1>1. MdInput \in Secrets \cup {None}
  BY DEF TypeOK, MdInput
<1>2. md \in [RangeIds -> [SlotIds -> Secrets \cup {None}]]
  BY DEF TypeOK
<1>3. md' = [md EXCEPT ![MdRange][MdSlot] = MdInput]
  BY DEF MacAndDestroy
<1>4. md' = [r \in RangeIds |->
               IF r = MdRange THEN [md[r] EXCEPT ![MdSlot] = MdInput] ELSE md[r]]
  BY <1>2, <1>3
<1>5. ASSUME NEW r \in RangeIds
      PROVE  /\ md'[r] \in [SlotIds -> Secrets \cup {None}]
             /\ \A k \in SlotIds :
                   md'[r][k] = IF r = MdRange /\ k = MdSlot THEN MdInput ELSE md[r][k]
  <2>1. md[r] \in [SlotIds -> Secrets \cup {None}]
    BY <1>2
  <2> QED
    BY <1>1, <1>4, <2>1
<1> QED
  BY <1>4, <1>5

(* The record of no secret is a binding. *)
LEMMA BlankType == Blank \in Binding
  BY RangesAssumption, RoundsAssumption DEF Blank, Binding, RangeIds, SlotIds

(* A return leaves the call's variables well typed. *)
LEMMA ReturnType ==
    ASSUME NEW st \in {"BUSY", "CUT", "OK", "WRONG", "ERR", "BLOCKED", "ABSENT",
                       "ERR_ABSENT", "ACTIVE"},
           TypeOK, Return(st),
           stored' \in {"ok", "absent", "limbo"}, rec' \in Binding,
           uncertain' \in BOOLEAN,
           md' \in [RangeIds -> [SlotIds -> Secrets \cup {None}]],
           evals' \in Nat, acked' \in BOOLEAN
    PROVE  TypeOK'
  BY BlankType, RoundsAssumption DEF TypeOK, Return, Result, SlotIds

(* The types of what the chip holds. *)
ChipType ==
    /\ stored \in {"ok", "absent", "limbo"}
    /\ rec \in Binding
    /\ md \in [RangeIds -> [SlotIds -> Secrets \cup {None}]]
    /\ evals \in Nat
    /\ acked \in BOOLEAN

(* Every effect of a chip or record call keeps the chip well typed. *)
LEMMA EffectTypes ==
    ASSUME TypeOK, MdEffect \/ StoreEffect \/ Interrupted
    PROVE  ChipType'
<1>1. ASSUME MdEffect PROVE ChipType'
  BY <1>1, MdValues DEF MdEffect, TypeOK, ChipType
<1>2. ASSUME StoreEffect PROVE ChipType'
  BY <1>2 DEF StoreEffect, TypeOK, ChipType
<1>3. ASSUME Interrupted PROVE ChipType'
  <2>1. CASE UNCHANGED chipVars
    BY <2>1 DEF chipVars, TypeOK, ChipType
  <2>2. CASE MdEffect \/ StoreEffect
    BY <2>2, <1>1, <1>2
  <2>3. CASE stored' = "limbo" /\ rec' = b /\ evals' = 0 /\ acked' = TRUE /\ UNCHANGED md
    BY <2>3 DEF TypeOK, ChipType
  <2>4. CASE stored' \in {"limbo", "absent"} /\ UNCHANGED <<rec, md, evals, acked>>
    BY <2>4 DEF TypeOK, ChipType
  <2> QED
    BY <1>3, <2>1, <2>2, <2>3, <2>4 DEF Interrupted
<1> QED
  BY <1>1, <1>2, <1>3

(* The binding that setup_s starts to fill in is well typed. *)
LEMMA KeyedType ==
    ASSUME NEW r \in RangeIds, NEW pend \in BOOLEAN, TypeOK,
           b' = [Blank EXCEPT !.range = r, !.pend = pend, !.pin = newPin, !.s = s]
    PROVE  b' \in Binding
<1>1. b' = [range |-> r, pend |-> pend, next |-> 0, pin |-> newPin, s |-> s,
            ci |-> [k \in SlotIds |-> None]]
  BY DEF Blank
<1>2. [k \in SlotIds |-> None] \in [SlotIds -> Secrets \cup {None}]
  OBVIOUS
<1>3. newPin \in Pins \cup {None} /\ s \in Secrets \cup {None} /\ 0 \in 0 .. Rounds
  BY RoundsAssumption DEF TypeOK
<1> QED
  BY <1>1, <1>2, <1>3 DEF Binding

(* What a call does with a settled binding keeps its variables well typed. *)
LEMMA SettledTypes ==
    ASSUME NEW c \in Binding, TypeOK, ChipType', uncertain' \in BOOLEAN, Settled(c)
    PROVE  TypeOK'
<1>1. ASSUME NEW st \in {"BLOCKED", "ACTIVE", "ERR"}, Return(st) PROVE TypeOK'
  BY <1>1, ReturnType DEF ChipType
<1>2. CASE op = "status" /\ Return(IF c.next >= Rounds THEN "BLOCKED" ELSE "ACTIVE")
  <2>1. CASE c.next >= Rounds
    BY <1>1, <1>2, <2>1
  <2>2. CASE ~(c.next >= Rounds)
    BY <1>1, <1>2, <2>2
  <2> QED
    BY <2>1, <2>2
<1>3. CASE Return("BLOCKED") \/ Return("ERR")
  BY <1>1, <1>3
<1>4. CASE /\ c.next < Rounds /\ pc' = "reserve" /\ b' = [c EXCEPT !.next = @ + 1]
           /\ UNCHANGED <<i, part, s, callVars, ret>>
  <2>1. b' \in Binding
    BY <1>4, RoundsAssumption DEF Binding
  <2> QED
    BY <1>4, <2>1 DEF TypeOK, ChipType, callVars, Stores
<1>5. CASE ~(Ranges < 2) /\ StartKeying(1 - c.range, TRUE)
  <2>1. 1 - c.range \in RangeIds
    BY <1>5, RangesAssumption DEF Binding, RangeIds
  <2>2. b' \in Binding
    BY <1>5, <2>1, KeyedType DEF StartKeying
  <2> QED
    BY <1>5, <2>2, RoundsAssumption
    DEF StartKeying, TypeOK, ChipType, callVars, MdCalls, SlotIds
<1> QED
  BY <1>2, <1>3, <1>4, <1>5 DEF Settled

(* TypeOK is inductive. *)
LEMMA TypeStep == TypeOK /\ [Next]_vars => TypeOK'
<1> SUFFICES ASSUME TypeOK, [Next]_vars PROVE TypeOK'
  OBVIOUS
<1> USE RoundsAssumption
<1>1. CASE UNCHANGED vars
  BY <1>1 DEF vars, TypeOK
<1>2. CASE Call
  <2>1. CASE \/ pin_md_kernel_status \/ pin_md_kernel_verify \/ pin_md_kernel_change
    <3>1. PICK o \in {"status", "verify", "change"}, p \in Pins \cup {None},
               q \in Pins \cup {None} : Start(o, p, q)
      BY <2>1 DEF pin_md_kernel_status, pin_md_kernel_verify, pin_md_kernel_change
    <3> QED
      BY <3>1 DEF Start, Enter, Result, chipVars, TypeOK, SlotIds
  <2>2. CASE pin_md_kernel_setup
    BY <2>2 DEF pin_md_kernel_setup, Enter, Result, chipVars, TypeOK, SlotIds
  <2>3. CASE pin_md_kernel_clear
    <3>1. uncertain' \in BOOLEAN /\ acked' \in BOOLEAN
      BY <2>3, Zenon DEF pin_md_kernel_clear
    <3>2. Enter("clear", None, None, "wipe0") /\ UNCHANGED <<s, stored, rec, md, evals>>
      BY <2>3 DEF pin_md_kernel_clear
    <3> QED
      BY <3>1, <3>2 DEF Enter, Result, TypeOK, MdCalls, SlotIds
  <2>4. CASE Refuse
    BY <2>4 DEF Refuse, Result, chipVars, callVars, workVars, TypeOK
  <2> QED
    BY <1>2, <2>1, <2>2, <2>3, <2>4 DEF Call
<1>3. CASE Load
  <2>1. ChipType'
    BY <1>3 DEF Load, Found, NotFound, LoadError, TypeOK, ChipType
  <2>2. CASE LoadError
    BY <1>3, <2>1, <2>2, ReturnType DEF LoadError, Load, ChipType, TypeOK
  <2>3. CASE Found
    <3>1. CASE rec.pend
      BY <1>3, <2>1, <2>3, <3>1 DEF Found, Load, ChipType, TypeOK, callVars, MdCalls, SlotIds
    <3>2. CASE ~rec.pend
      BY <1>3, <2>1, <2>3, <3>2, SettledTypes DEF Found, Load, TypeOK
    <3> QED
      BY <3>1, <3>2
  <2>4. CASE NotFound
    <3>1. CASE \E st \in {"ABSENT", "ERR_ABSENT"} : Return(st)
      BY <1>3, <2>1, <3>1, ReturnType DEF Load, ChipType, TypeOK
    <3>2. CASE StartKeying(0, FALSE)
      <4>1. 0 \in RangeIds /\ FALSE \in BOOLEAN
        BY RangesAssumption DEF RangeIds
      <4>2. b' = [Blank EXCEPT !.range = 0, !.pend = FALSE, !.pin = newPin, !.s = s]
        BY <3>2 DEF StartKeying
      <4>3. b' \in Binding
        BY <4>1, <4>2, KeyedType
      <4> QED
        BY <1>3, <2>1, <3>2, <4>3
        DEF StartKeying, Load, TypeOK, ChipType, callVars, MdCalls, SlotIds
    <3> QED
      BY <2>4, <3>1, <3>2 DEF NotFound, NoBinding
  <2> QED
    BY <1>3, <2>2, <2>3, <2>4 DEF Load
<1>4. CASE Retire
  <2>1. b' \in Binding
    BY <1>4 DEF Retire, TypeOK, Binding
  <2> QED
    BY <1>4, <2>1, EffectTypes
    DEF Retire, Last, TypeOK, ChipType, callVars, SlotIds, Stores
<1>5. CASE Unpend
  <2>1. CASE stage = "committed"
    BY <1>5, <2>1, EffectTypes, ReturnType DEF Unpend, ChipType, TypeOK
  <2>2. CASE stage # "committed"
    BY <1>5, <2>2, EffectTypes, SettledTypes DEF Unpend, TypeOK
  <2> QED
    BY <2>1, <2>2
<1>6. CASE Reserve
  BY <1>6, EffectTypes DEF Reserve, TypeOK, ChipType, callVars, workVars, MdCalls
<1>7. CASE Guess
  <2>1. CASE Correct(b.next - 1)
    BY <1>7, <2>1, EffectTypes DEF Guess, TypeOK, ChipType, callVars, MdCalls, SlotIds, Binding
  <2>2. CASE ~Correct(b.next - 1)
    BY <1>7, <2>2, EffectTypes, ReturnType DEF Guess, TypeOK, ChipType
  <2> QED
    BY <2>1, <2>2
<1>8. CASE Rekey
  <2>1. b' \in Binding
    BY <1>8 DEF Rekey, TypeOK, Binding
  <2> QED
    BY <1>8, <2>1, EffectTypes
    DEF Rekey, Last, TypeOK, ChipType, callVars, SlotIds, Stores
<1>9. CASE Restore
  <2>1. CASE op = "change"
    BY <1>9, <2>1, EffectTypes DEF Restore, TypeOK, ChipType, workVars
  <2>2. CASE op # "change"
    BY <1>9, <2>2, EffectTypes, ReturnType DEF Restore, TypeOK, ChipType
  <2> QED
    BY <2>1, <2>2
<1>10. CASE Key
  <2>1. b' \in Binding
    <3>1. md[b.range][i] \in Secrets \cup {None}
      BY DEF TypeOK, Binding
    <3> QED
      BY <1>10, <3>1 DEF Key, TypeOK, Binding
  <2> QED
    BY <1>10, <2>1, EffectTypes
    DEF Key, Last, TypeOK, ChipType, callVars, SlotIds, Stores
<1>11. CASE Commit
  <2>1. CASE b.pend
    BY <1>11, <2>1, EffectTypes DEF Commit, TypeOK, ChipType, MdCalls, SlotIds
  <2>2. CASE ~b.pend
    BY <1>11, <2>2, EffectTypes, ReturnType DEF Commit, TypeOK, ChipType
  <2> QED
    BY <2>1, <2>2
<1>12. CASE Wipe
  BY <1>12, EffectTypes DEF Wipe, Last, TypeOK, ChipType, callVars, SlotIds, MdCalls
<1>13. CASE Drop
  BY <1>13, ReturnType DEF Drop, TypeOK
<1>14. CASE LostReply
  <2>1. ChipType' /\ uncertain' \in BOOLEAN
    BY <1>14, EffectTypes DEF LostReply, TypeOK, ChipType, chipVars
  <2> QED
    BY <1>14, <2>1, ReturnType DEF LostReply, ChipType
<1>15. CASE PowerCut
  BY <1>15, EffectTypes, ReturnType DEF PowerCut, ChipType
<1>16. CASE Reboot
  BY <1>16 DEF Reboot, Result, chipVars, callVars, workVars, TypeOK
<1> QED
  BY <1>1, <1>2, <1>3, <1>4, <1>5, <1>6, <1>7, <1>8, <1>9, <1>10, <1>11, <1>12, <1>13,
     <1>14, <1>15, <1>16 DEF Next, Step, Environment

(* The initial state is well typed. *)
LEMMA InitTypes == Init => TypeOK
<1> SUFFICES ASSUME Init PROVE TypeOK
  OBVIOUS
<1>1. md \in [RangeIds -> [SlotIds -> Secrets \cup {None}]]
  BY DEF Init
<1>2. i \in SlotIds
  BY RoundsAssumption DEF Init, SlotIds
<1>3. uncertain \in BOOLEAN /\ acked \in BOOLEAN
  BY Zenon DEF Init
<1>4. rec \in Binding /\ b \in Binding
  BY BlankType DEF Init
<1>5. /\ stored = "absent" /\ op = "none" /\ pc = "idle" /\ stage = "enter"
      /\ part = 0 /\ s = None /\ pin = None /\ newPin = None
      /\ ret = Result("none", "CUT") /\ evals = 0
  BY DEF Init
<1> QED
  BY <1>1, <1>2, <1>3, <1>4, <1>5 DEF TypeOK, Result

(* The kernel's RAM and the chip state it uses keep their types, for every *)
(* layout, set of PINs and set of secrets.                                 *)
THEOREM TypeCorrect == Spec => []TypeOK
<1>1. Init => TypeOK
  BY InitTypes
<1>2. TypeOK /\ [Next]_vars => TypeOK'
  BY TypeStep
<1> QED
  BY <1>1, <1>2, PTL DEF Spec

-----------------------------------------------------------------------------
(* What the chip keeps through every call, whether it ends or is cut. *)
Chip == evals <= rec.next /\ StoredForm /\ Kept

(* No M&D call spends an uncounted attempt or a slot still to be used. *)
LEMMA MdChip ==
    ASSUME Ind, pc \in MdCalls, MdEffect
    PROVE  Chip'
<1> USE RangesAssumption, RoundsAssumption, NoneAssumption
<1>1. TypeOK
  BY DEF Ind, TypeOK
<1>2. \A r \in RangeIds, k \in SlotIds :
         md'[r][k] = IF r = MdRange /\ k = MdSlot THEN MdInput ELSE md[r][k]
  BY <1>1, MdValues DEF MdEffect
<1>3. evals' <= rec'.next
  <2>1. evals \in Nat /\ rec.next \in Nat
    BY <1>1 DEF TypeOK, Binding
  <2> QED
    BY <2>1 DEF MdEffect, Ind, Counted
<1>4. StoredForm'
  BY DEF MdEffect, Ind, StoredForm
<1>5. ASSUME acked, NEW k \in SlotIds, k >= rec.next
      PROVE  md'[rec.range][k] = rec.s
  <2>1. rec.range \in RangeIds /\ rec.next \in 0 .. Rounds /\ b.range \in RangeIds
    BY <1>1 DEF TypeOK, Binding
  <2>2. md[rec.range][k] = rec.s
    BY <1>5 DEF Ind, Kept, Opens
  <2>3. CASE pc = "retire"
    BY <1>2, <2>1, <2>2, <2>3 DEF MdRange, Ind, SameBinding, Retiring, RangeIds
  <2>4. CASE pc = "guess"
    BY <1>2, <1>5, <2>1, <2>2, <2>4 DEF MdSlot, Ind, SameBinding, SlotIds
  <2>5. CASE pc = "rekey"
    BY <1>2, <2>1, <2>2, <2>5 DEF MdInput, Ind, SameBinding
  <2>6. CASE pc = "key"
    BY <1>2, <1>5, <2>1, <2>2, <2>6 DEF MdRange, Ind, Keying, RangeIds
  <2>7. CASE pc \in {"wipe0", "wipe1"}
    BY <1>5, <2>7 DEF Ind, CallState
  <2> QED
    BY <2>3, <2>4, <2>5, <2>6, <2>7 DEF MdCalls
<1>6. Kept'
  BY <1>5 DEF MdEffect, Ind, Kept, Opens
<1> QED
  BY <1>3, <1>4, <1>6 DEF Chip

(* A store writes a binding that opens and that counts every attempt. *)
LEMMA StoreChip ==
    ASSUME Ind, pc \in Stores, rec' = b, UNCHANGED md,
           evals' = (IF pc \in {"restore", "commit"} THEN 0 ELSE evals),
           acked' => acked \/ pc = "commit"
    PROVE  Chip'
<1> USE RangesAssumption, RoundsAssumption
<1>1. b \in Binding /\ rec \in Binding /\ evals \in Nat
  BY DEF Ind, TypeOK
<1>2. b.next \in Nat /\ rec.next \in Nat
  BY <1>1 DEF Binding
<1>3. CASE pc = "commit"
  <2>1. /\ s \in Secrets /\ b.s = s /\ b.next = 0
        /\ \A k \in SlotIds : b.ci[k] = s /\ md[b.range][k] = s
        /\ b.pend => Ranges = 2
    BY <1>3 DEF Ind, Keying
  <2> QED
    BY <1>3, <2>1 DEF Chip, StoredForm, Kept, Opens
<1>4. CASE pc # "commit"
  <2>1. /\ b.range = rec.range /\ b.s = rec.s /\ b.ci = rec.ci
        /\ b.pend => Ranges = 2
    BY <1>4 DEF Ind, SameBinding, Retiring, Stores
  <2>2. evals' <= b.next
    BY <1>2, <1>4 DEF Ind, Counted, SameBinding, Stores
  <2>3. \A k \in SlotIds : rec.ci[k] = rec.s
    BY DEF Ind, StoredForm
  <2>4. ASSUME acked, NEW k \in SlotIds, k >= b.next PROVE md[b.range][k] = b.s
    <3>1. CASE pc = "restore"
      BY <3>1 DEF Ind, Keying, SameBinding
    <3>2. CASE pc # "restore"
      <4>1. b.next >= rec.next
        BY <1>2, <1>4, <3>2 DEF Ind, Counted, Stores
      <4>2. k >= rec.next
        BY <1>2, <2>4, <4>1 DEF SlotIds
      <4> QED
        BY <2>1, <2>4, <4>2 DEF Ind, Kept, Opens
    <3> QED
      BY <3>1, <3>2
  <2>5. acked' => acked /\ b.s \in Secrets
    BY <1>4, <2>1 DEF Ind, Kept, Opens
  <2> QED
    BY <2>1, <2>2, <2>3, <2>4, <2>5 DEF Chip, StoredForm, Kept, Opens
<1> QED
  BY <1>3, <1>4

(* A call that is cut or loses its reply leaves the chip in order. *)
LEMMA InterruptedChip ==
    ASSUME Ind, Interrupted
    PROVE  Chip'
<1>1. CASE UNCHANGED chipVars
  BY <1>1 DEF chipVars, Ind, Chip, Counted, StoredForm, Kept, Opens
<1>2. CASE pc \in MdCalls /\ MdEffect
  BY <1>2, MdChip
<1>3. CASE pc \in Stores /\ StoreEffect
  BY <1>3, StoreChip DEF StoreEffect
<1>4. CASE UNCHANGED <<rec, evals, acked, md>>
  BY <1>4 DEF Ind, Chip, Counted, StoredForm, Kept, Opens
<1>5. CASE pc = "commit" /\ rec' = b /\ evals' = 0 /\ acked' = TRUE /\ UNCHANGED md
  BY <1>5, StoreChip DEF Stores
<1> QED
  BY <1>1, <1>2, <1>3, <1>4, <1>5 DEF Interrupted

(* Between two calls only the chip and the last answer matter. *)
LEMMA IdleInd ==
    ASSUME TypeOK', Chip', OldRangeRetired',
           pc' = "idle", op' = "none", stage' = "enter"
    PROVE  Ind'
  BY DEF Ind, Chip, Counted, SameBinding, Keying, Retiring, CallState

(* A call that fails or is cut restores the invariant. *)
LEMMA FailInd ==
    ASSUME Chip', TypeOK', NEW st \in {"ERR", "CUT", "BLOCKED", "ABSENT", "ERR_ABSENT"},
           Return(st)
    PROVE  Ind'
<1>1. OldRangeRetired'
  BY DEF Return, Result, OldRangeRetired
<1> QED
  BY <1>1, IdleInd DEF Return

(* While a call runs, its last answer is BUSY. *)
LEMMA BusyInd ==
    ASSUME TypeOK', Chip', ret'.st = "BUSY",
           Counted', SameBinding', Keying', Retiring', CallState'
    PROVE  Ind'
<1>1. OldRangeRetired'
  BY DEF OldRangeRetired
<1> QED
  BY <1>1 DEF Ind, Chip

(* A call goes on with a settled binding. *)
LEMMA SettledInd ==
    ASSUME Ind, TypeOK', Chip', NEW c \in Binding, Settled(c),
           rec' = c, ~c.pend, stored' = "ok", UNCHANGED md,
           \/ pc = "load" /\ rec' = rec
           \/ pc = "unpend" /\ stage # "committed"
    PROVE  Ind'
<1> USE RangesAssumption, RoundsAssumption, NoneAssumption
<1>0. TypeOK /\ c.range \in RangeIds /\ c.next \in Nat /\ ret.st = "BUSY"
  BY DEF Ind, Binding, CallState
<1>1. CASE op = "status" /\ Return(IF c.next >= Rounds THEN "BLOCKED" ELSE "ACTIVE")
  <2>1. OldRangeRetired'
    BY <1>1 DEF Return, Result, OldRangeRetired
  <2> QED
    BY <1>1, <2>1, IdleInd DEF Return
<1>2. CASE Return("BLOCKED") \/ Return("ERR")
  BY <1>2, FailInd
<1>3. CASE /\ op = "verify" \/ (op = "change" /\ stage = "enter")
           /\ pc' = "reserve" /\ b' = [c EXCEPT !.next = @ + 1]
           /\ UNCHANGED <<i, part, s, callVars, ret>>
  <2>1. /\ b'.range = c.range /\ b'.s = c.s /\ b'.ci = c.ci /\ b'.pin = c.pin
        /\ b'.pend = c.pend /\ b'.next = c.next + 1
    BY <1>3 DEF Binding
  <2>2. stage = "enter"
    BY <1>3 DEF Ind, CallState, TypeOK
  <2>3. Counted'
    BY <1>3, <2>1 DEF Counted, Chip
  <2>4. SameBinding'
    BY <1>3, <2>1 DEF SameBinding
  <2>5. Keying' /\ Retiring'
    BY <1>3 DEF Keying, Retiring
  <2>6. CallState'
    BY <1>0, <1>3, <2>2 DEF CallState, callVars
  <2> QED
    BY <1>0, <1>3, <2>3, <2>4, <2>5, <2>6, BusyInd
<1>4. CASE /\ op = "setup" \/ (op = "change" /\ stage = "again")
           /\ ~(Ranges < 2) /\ StartKeying(1 - c.range, TRUE)
  <2>1. /\ b'.range = 1 - c.range /\ b'.pend = TRUE /\ b'.s = s /\ b'.next = 0
    BY <1>4 DEF StartKeying, Blank
  <2>2. /\ pc' = "key" /\ i' = 0 /\ part' = 0
        /\ s' = s /\ op' = op /\ stage' = stage /\ ret' = ret
    BY <1>4 DEF StartKeying, callVars
  <2>3. s \in Secrets
    BY <1>4 DEF Ind, CallState
  <2>4. Counted' /\ SameBinding' /\ Retiring'
    BY <2>2 DEF Counted, SameBinding, Retiring, Chip
  <2>5. Keying'
    BY <1>4, <2>1, <2>2, <2>3 DEF Keying, SlotIds
  <2>6. CallState'
    <3>1. CASE op = "setup"
      <4>1. stage = "enter"
        BY <3>1 DEF Ind, CallState, TypeOK
      <4>2. \A r \in RangeIds, k \in SlotIds : md[r][k] # s
        BY <3>1, <4>1 DEF Ind, CallState
      <4> QED
        BY <1>0, <2>2, <2>3, <3>1, <4>1, <4>2 DEF CallState
    <3>2. CASE op = "change" /\ stage = "again"
      <4>1. rec' = rec /\ s = rec.s
        BY <3>2 DEF Ind, CallState
      <4> QED
        BY <1>0, <2>2, <2>3, <3>2, <4>1 DEF CallState
    <3> QED
      BY <1>4, <3>1, <3>2
  <2> QED
    BY <1>0, <2>2, <2>4, <2>5, <2>6, BusyInd
<1> QED
  BY <1>1, <1>2, <1>3, <1>4 DEF Settled

(* The step lemmas, one for each group of actions: calls first. *)
LEMMA CallInd == ASSUME Ind, TypeOK', Call PROVE Ind'
<1> USE NoneAssumption
<1>1. pc = "idle"
  BY DEF Call, pin_md_kernel_status, pin_md_kernel_verify, pin_md_kernel_setup,
         pin_md_kernel_change, pin_md_kernel_clear, Refuse, Start
<1>2. Chip'
  BY DEF Ind, Counted, Chip, StoredForm, Kept, Opens, Call, chipVars, Start, Refuse,
         pin_md_kernel_status, pin_md_kernel_verify, pin_md_kernel_setup,
         pin_md_kernel_change, pin_md_kernel_clear
<1>3. ASSUME NEW o \in {"status", "verify", "change"}, NEW p, NEW q, Start(o, p, q)
      PROVE  Ind'
  <2>1. /\ pc' = "load" /\ op' = o /\ stage' = "enter" /\ ret'.st = "BUSY"
    BY <1>3 DEF Start, Enter, Result
  <2> QED
    BY <1>2, <2>1, BusyInd DEF Counted, SameBinding, Keying, Retiring, CallState, Chip
<1>4. CASE pin_md_kernel_setup
  <2>1. /\ pc' = "load" /\ op' = "setup" /\ stage' = "enter" /\ ret'.st = "BUSY"
        /\ s' \in Secrets
        /\ \A r \in RangeIds, k \in SlotIds : md'[r][k] # s'
    BY <1>4 DEF pin_md_kernel_setup, Enter, Result, Fresh, chipVars
  <2> QED
    BY <1>2, <2>1, BusyInd DEF Counted, SameBinding, Keying, Retiring, CallState, Chip
<1>5. CASE pin_md_kernel_clear
  <2>1. /\ pc' = "wipe0" /\ op' = "clear" /\ stage' = "enter" /\ ret'.st = "BUSY"
        /\ ~acked'
    BY <1>5 DEF pin_md_kernel_clear, Enter, Result
  <2> QED
    BY <1>2, <2>1, BusyInd DEF Counted, SameBinding, Keying, Retiring, CallState, Chip
<1>6. CASE Refuse
  <2>1. /\ pc' = "idle" /\ op' = op /\ stage' = stage /\ ret'.st = "ERR"
    BY <1>1, <1>6 DEF Refuse, callVars, Result
  <2>2. op = "none" /\ stage = "enter"
    BY <1>1 DEF Ind, CallState, TypeOK
  <2>3. OldRangeRetired'
    BY <2>1 DEF OldRangeRetired
  <2> QED
    BY <1>2, <2>1, <2>2, <2>3, IdleInd
<1> QED
  BY <1>3, <1>4, <1>5, <1>6
  DEF Call, pin_md_kernel_status, pin_md_kernel_verify, pin_md_kernel_change

(* load and the start of settle. *)
LEMMA LoadInd == ASSUME Ind, TypeOK', Load PROVE Ind'
<1> USE RangesAssumption, RoundsAssumption, NoneAssumption
<1>0. pc = "load" /\ UNCHANGED <<rec, md, evals>> /\ (acked' => acked) /\ ret.st = "BUSY"
  BY DEF Load, Found, NotFound, LoadError, Ind, CallState
<1>1. Chip'
  BY <1>0 DEF Ind, Counted, Chip, StoredForm, Kept, Opens
<1>2. CASE LoadError
  BY <1>1, <1>2, FailInd DEF LoadError
<1>3. CASE Found /\ rec.pend
  <2>1. /\ pc' = "retire" /\ i' = 0 /\ b' = rec /\ s' = s /\ op' = op /\ stage' = stage
        /\ ret' = ret /\ stored' = "ok"
    BY <1>3 DEF Found, callVars
  <2>2. stage = "enter" /\ op \notin {"none", "clear"}
    BY <1>0, <1>3 DEF Ind, CallState, TypeOK
  <2>3. Ranges = 2
    BY <1>3 DEF Ind, StoredForm
  <2>4. Counted' /\ SameBinding' /\ Keying' /\ Retiring'
    BY <1>0, <1>1, <2>1, <2>3 DEF Counted, SameBinding, Keying, Retiring, Chip, SlotIds
  <2>5. CallState'
    BY <1>0, <2>1, <2>2 DEF Ind, CallState
  <2> QED
    BY <1>0, <1>1, <2>1, <2>4, <2>5, BusyInd
<1>4. CASE Found /\ ~rec.pend
  <2>1. rec \in Binding /\ Settled(rec) /\ stored' = "ok"
    BY <1>4 DEF Found, Ind, TypeOK
  <2> QED
    BY <1>0, <1>1, <1>4, <2>1, SettledInd
<1>5. CASE NotFound /\ stored # "ok"
  <2>1. CASE Return("ABSENT") \/ Return("ERR_ABSENT")
    BY <1>1, <2>1, FailInd
  <2>2. CASE op = "setup" \/ (op = "change" /\ stage = "again")
    <3>1. op = "setup" /\ stage = "enter" /\ s \in Secrets
      BY <1>0, <1>5, <2>2 DEF Ind, CallState, TypeOK
    <3>2. StartKeying(0, FALSE) /\ ~acked'
      BY <1>5, <3>1 DEF NotFound, NoBinding
    <3>3. b'.range = 0 /\ ~b'.pend /\ b'.s = s /\ b'.next = 0
      BY <3>2 DEF StartKeying, Blank
    <3>4. /\ pc' = "key" /\ i' = 0 /\ part' = 0
          /\ s' = s /\ op' = op /\ stage' = stage /\ ret' = ret
      BY <3>2 DEF StartKeying, callVars
    <3>5. Counted' /\ SameBinding' /\ Retiring'
      BY <1>1, <3>4 DEF Counted, SameBinding, Retiring, Chip
    <3>6. Keying'
      BY <3>1, <3>2, <3>3, <3>4 DEF Keying, SlotIds
    <3>7. \A r \in RangeIds, k \in SlotIds : md[r][k] # s
      BY <1>0, <3>1 DEF Ind, CallState
    <3>8. CallState'
      BY <1>0, <3>1, <3>4, <3>7 DEF CallState
    <3> QED
      BY <1>0, <1>1, <3>4, <3>5, <3>6, <3>8, BusyInd
  <2> QED
    BY <1>5, <2>1, <2>2 DEF NotFound, NoBinding
<1> QED
  BY <1>2, <1>3, <1>4, <1>5 DEF Load

(* Retiring the replaced range, and recording it. *)
LEMMA RetireInd == ASSUME Ind, TypeOK', Retire \/ Unpend PROVE Ind'
<1> USE RangesAssumption, RoundsAssumption, NoneAssumption
<1>0. TypeOK /\ b \in Binding /\ rec \in Binding /\ i \in SlotIds
  BY DEF Ind, TypeOK
<1>1. CASE Retire
  <2>0. /\ pc = "retire" /\ MdEffect /\ s' = s /\ op' = op /\ stage' = stage
        /\ ret' = ret /\ rec' = rec /\ stored' = stored /\ ret.st = "BUSY"
        /\ pc' \in {"retire", "unpend"} /\ evals' = evals
    BY <1>1 DEF Retire, callVars, MdEffect, Ind, CallState
  <2>1. Chip'
    BY <2>0, MdChip DEF MdCalls
  <2>2. \A r \in RangeIds, k \in SlotIds :
           md'[r][k] = IF r = 1 - b.range /\ k = i THEN None ELSE md[r][k]
    BY <1>0, <2>0, MdValues DEF MdEffect, MdRange, MdSlot, MdInput
  <2>3. /\ b'.range = b.range /\ b'.s = b.s /\ b'.ci = b.ci /\ b'.pin = b.pin
        /\ b'.next = b.next /\ (pc' = "unpend" => ~b'.pend)
    BY <1>0, <1>1 DEF Retire, Binding
  <2>4. Counted' /\ SameBinding' /\ Keying'
    BY <2>0, <2>1, <2>3 DEF Ind, Counted, SameBinding, Keying, Chip
  <2>5. Retiring'
    <3>1. Ranges = 2 /\ \A k \in SlotIds : k < i => md[1 - b.range][k] = None
      BY <2>0 DEF Ind, Retiring
    <3>2. 1 - b.range \in RangeIds
      BY <1>0, <3>1 DEF Binding, RangeIds
    <3>3. \A k \in SlotIds : k <= i => md'[1 - b.range][k] = None
      BY <1>0, <2>2, <3>1, <3>2 DEF SlotIds
    <3>4. CASE Last
      BY <1>0, <1>1, <2>3, <3>1, <3>3, <3>4 DEF Retire, Last, Retiring, SlotIds
    <3>5. CASE ~Last
      <4>1. i' = i + 1 /\ pc' = "retire"
        BY <1>1, <2>0, <3>5 DEF Retire
      <4> QED
        BY <1>0, <2>3, <3>1, <3>3, <4>1 DEF Retiring, SlotIds
    <3> QED
      BY <3>4, <3>5
  <2>6. CallState'
    BY <2>0, <2>2 DEF Ind, CallState
  <2> QED
    BY <2>0, <2>1, <2>4, <2>5, <2>6, BusyInd
<1>2. CASE Unpend
  <2>0. /\ pc = "unpend" /\ rec' = b /\ ~b.pend /\ stored' = "ok" /\ UNCHANGED md
        /\ StoreEffect
    BY <1>2 DEF Unpend, StoreEffect, Ind, SameBinding
  <2>1. Chip'
    BY <2>0, StoreChip DEF StoreEffect, Stores
  <2>2. CASE stage = "committed"
    <3>1. Return("OK")
      BY <1>2, <2>2 DEF Unpend
    <3>2. /\ b.s \in Secrets /\ b.range \in RangeIds
          /\ \A k \in SlotIds : md[1 - b.range][k] = None
      BY <1>0, <2>0, <2>2 DEF Ind, CallState, Retiring, SameBinding, Binding
    <3>3. \A r \in RangeIds \ {b.range}, k \in SlotIds : md[r][k] # b.s
      BY <3>2 DEF RangeIds
    <3>4. OldRangeRetired'
      BY <2>0, <3>3 DEF OldRangeRetired
    <3> QED
      BY <2>1, <3>1, <3>4, IdleInd DEF Return
  <2>3. CASE stage # "committed"
    BY <1>0, <1>2, <2>0, <2>1, <2>3, SettledInd DEF Unpend
  <2> QED
    BY <2>2, <2>3
<1> QED
  BY <1>1, <1>2

(* Spending an attempt: the reservation, then the evaluation. *)
LEMMA GuessInd == ASSUME Ind, TypeOK', Reserve \/ Guess PROVE Ind'
<1> USE RangesAssumption, RoundsAssumption, NoneAssumption
<1>0. TypeOK /\ b \in Binding /\ rec \in Binding
  BY DEF Ind, TypeOK
<1>1. CASE Reserve
  <2>0. /\ pc = "reserve" /\ pc' = "guess" /\ rec' = b /\ UNCHANGED md
        /\ UNCHANGED <<op, stage, b, s, i, part, ret>> /\ stored' = "ok" /\ evals' = evals
        /\ (acked' => acked) /\ ret.st = "BUSY"
    BY <1>1 DEF Reserve, StoreEffect, callVars, workVars, Ind, CallState
  <2>1. Chip'
    BY <1>1, <2>0, StoreChip DEF Stores
  <2>2. b.next = rec.next + 1 /\ evals <= rec.next /\ rec.next \in Nat /\ evals \in Nat
    BY <1>0, <2>0 DEF Ind, Counted, TypeOK, Binding
  <2>3. Counted'
    BY <2>0, <2>2 DEF Counted
  <2>4. SameBinding'
    BY <2>0, <2>2 DEF Ind, SameBinding
  <2>5. Keying' /\ Retiring'
    BY <2>0 DEF Keying, Retiring
  <2>6. CallState'
    BY <2>0 DEF Ind, CallState
  <2> QED
    BY <2>0, <2>1, <2>3, <2>4, <2>5, <2>6, BusyInd
<1>2. CASE Guess
  <2>0. /\ pc = "guess" /\ MdEffect /\ rec' = rec /\ stored' = stored /\ ret.st = "BUSY"
        /\ b = rec /\ ~rec.pend
    BY <1>2 DEF Guess, MdEffect, Ind, CallState, SameBinding
  <2>1. Chip'
    BY <2>0, MdChip DEF MdCalls
  <2>2. CASE Correct(b.next - 1)
    <3>1. /\ pc' = "rekey" /\ i' = 0 /\ s' = b.s /\ UNCHANGED <<op, stage, b, ret>>
      BY <1>2, <2>2 DEF Guess, callVars
    <3>2. b.next - 1 \in SlotIds
      BY <1>0, <2>0 DEF Ind, SameBinding, Binding, SlotIds
    <3>3. b.s \in Secrets
      BY <1>0, <2>0, <2>2, <3>2 DEF Correct, Ind, StoredForm, Binding
    <3>4. Counted' /\ Keying' /\ Retiring'
      BY <2>1, <3>1 DEF Counted, Keying, Retiring, Chip, SlotIds
    <3>5. SameBinding'
      BY <2>0, <3>1, <3>3 DEF Ind, SameBinding
    <3>6. CallState'
      BY <2>0, <3>1 DEF Ind, CallState
    <3> QED
      BY <2>0, <2>1, <3>1, <3>4, <3>5, <3>6, BusyInd
  <2>3. CASE ~Correct(b.next - 1)
    <3>1. Return("WRONG") /\ op \in {"verify", "change"}
      BY <1>2, <2>0, <2>3 DEF Guess, Ind, CallState
    <3>2. OldRangeRetired'
      BY <2>0, <3>1 DEF Return, Result, OldRangeRetired
    <3> QED
      BY <2>1, <3>1, <3>2, IdleInd DEF Return
  <2> QED
    BY <2>2, <2>3
<1> QED
  BY <1>1, <1>2

(* A right PIN: every slot is re-keyed, then the count starts again. *)
LEMMA RekeyInd == ASSUME Ind, TypeOK', Rekey \/ Restore PROVE Ind'
<1> USE RangesAssumption, RoundsAssumption, NoneAssumption
<1>0. TypeOK /\ b \in Binding /\ rec \in Binding /\ i \in SlotIds
  BY DEF Ind, TypeOK
<1>1. CASE Rekey
  <2>0. /\ pc = "rekey" /\ MdEffect /\ UNCHANGED <<op, stage, s, ret, rec, stored, evals>>
        /\ ret.st = "BUSY" /\ b = rec
    BY <1>1 DEF Rekey, callVars, MdEffect, Ind, CallState, SameBinding
  <2>1. Chip'
    BY <2>0, MdChip DEF MdCalls
  <2>2. \A r \in RangeIds, k \in SlotIds :
           md'[r][k] = IF r = b.range /\ k = i THEN s ELSE md[r][k]
    BY <1>0, <2>0, MdValues DEF MdEffect, MdRange, MdSlot, MdInput
  <2>3. /\ b'.range = b.range /\ b'.s = b.s /\ b'.ci = b.ci /\ b'.pin = b.pin
        /\ b'.pend = b.pend
    BY <1>0, <1>1 DEF Rekey, Binding
  <2>4. \A k \in SlotIds : k <= i => md'[b.range][k] = s
    <3>1. b.range \in RangeIds /\ \A k \in SlotIds : k < i => md[b.range][k] = s
      BY <1>0, <2>0 DEF Ind, Keying, Binding
    <3> QED
      BY <1>0, <2>2, <3>1 DEF SlotIds
  <2>5. CASE Last
    <3>1. pc' = "restore" /\ b'.next = 0
      BY <1>0, <1>1, <2>5 DEF Rekey, Binding
    <3>2. \A k \in SlotIds : md'[b'.range][k] = s
      BY <1>0, <2>3, <2>4, <2>5 DEF Last, SlotIds
    <3>3. Counted' /\ Retiring' /\ Keying'
      BY <2>0, <2>1, <3>1, <3>2 DEF Counted, Retiring, Keying, Chip
    <3>4. SameBinding'
      BY <2>0, <2>3, <3>1 DEF Ind, SameBinding
    <3>5. CallState'
      BY <2>0, <3>1 DEF Ind, CallState
    <3> QED
      BY <2>0, <2>1, <3>3, <3>4, <3>5, BusyInd
  <2>6. CASE ~Last
    <3>1. pc' = "rekey" /\ b' = b /\ i' = i + 1
      BY <1>1, <2>0, <2>6 DEF Rekey
    <3>2. \A k \in SlotIds : k < i' => md'[b'.range][k] = s
      BY <1>0, <2>4, <3>1 DEF SlotIds
    <3>3. Counted' /\ Retiring' /\ Keying'
      BY <2>0, <2>1, <3>1, <3>2 DEF Counted, Retiring, Keying, Chip
    <3>4. SameBinding'
      BY <2>0, <3>1 DEF Ind, SameBinding
    <3>5. CallState'
      BY <2>0, <3>1 DEF Ind, CallState
    <3> QED
      BY <2>0, <2>1, <3>3, <3>4, <3>5, BusyInd
  <2> QED
    BY <2>5, <2>6
<1>2. CASE Restore
  <2>0. /\ pc = "restore" /\ StoreEffect /\ rec' = b /\ stored' = "ok" /\ UNCHANGED md
        /\ ret.st = "BUSY" /\ ~b.pend /\ s = b.s /\ s \in Secrets
        /\ op \in {"verify", "change"} /\ stage = "enter"
    BY <1>2 DEF Restore, StoreEffect, Ind, CallState, SameBinding
  <2>1. Chip'
    BY <2>0, StoreChip DEF StoreEffect, Stores
  <2>2. CASE op = "change"
    <3>1. pc' = "load" /\ stage' = "again" /\ UNCHANGED <<op, s, ret>>
      BY <1>2, <2>2 DEF Restore, workVars
    <3>2. Counted' /\ Retiring' /\ Keying' /\ SameBinding'
      BY <2>1, <3>1 DEF Counted, Retiring, Keying, SameBinding, Chip
    <3>3. CallState'
      BY <2>0, <2>2, <3>1 DEF CallState
    <3> QED
      BY <2>0, <2>1, <3>1, <3>2, <3>3, BusyInd
  <2>3. CASE op # "change"
    <3>1. Return("OK") /\ op = "verify"
      BY <1>2, <2>0, <2>3 DEF Restore
    <3>2. OldRangeRetired'
      BY <2>0, <3>1 DEF Return, Result, OldRangeRetired
    <3> QED
      BY <2>1, <3>1, <3>2, IdleInd DEF Return
  <2> QED
    BY <2>2, <2>3
<1> QED
  BY <1>1, <1>2

(* Keying a range: u, v and u again into every slot. *)
LEMMA KeyInd == ASSUME Ind, TypeOK', Key PROVE Ind'
<1> USE RangesAssumption, RoundsAssumption, NoneAssumption
<1>0. /\ TypeOK /\ b \in Binding /\ i \in SlotIds /\ part \in 0 .. 2
      /\ b.range \in RangeIds
  BY DEF Ind, TypeOK, Binding
<1>1. /\ pc = "key" /\ MdEffect /\ UNCHANGED <<op, stage, s, ret, rec, stored, evals, acked>>
      /\ ret.st = "BUSY"
  BY DEF Key, callVars, MdEffect, Ind, CallState
<1>2. Chip'
  BY <1>1, MdChip DEF MdCalls
<1>3. \A r \in RangeIds, k \in SlotIds :
         md'[r][k] = IF r = b.range /\ k = i THEN (IF part = 1 THEN None ELSE s) ELSE md[r][k]
  BY <1>0, <1>1, MdValues DEF MdEffect, MdRange, MdSlot, MdInput
<1>4. /\ b'.range = b.range /\ b'.s = b.s /\ b'.pend = b.pend /\ b'.next = b.next
      /\ \A k \in SlotIds :
            b'.ci[k] = IF part = 1 /\ k = i THEN md[b.range][i] ELSE b.ci[k]
  <2>1. CASE part = 1
    <3>1. b' = [b EXCEPT !.ci[i] = md[b.range][i]]
      BY <2>1 DEF Key
    <3>2. b.ci \in [SlotIds -> Secrets \cup {None}]
      BY <1>0 DEF Binding
    <3>3. b'.ci = [b.ci EXCEPT ![i] = md[b.range][i]]
      BY <1>0, <3>1 DEF Binding
    <3>4. /\ b'.range = b.range /\ b'.s = b.s /\ b'.pend = b.pend /\ b'.next = b.next
      BY <1>0, <3>1 DEF Binding
    <3> QED
      BY <1>0, <2>1, <3>2, <3>3, <3>4
  <2>2. CASE part # 1
    BY <2>2 DEF Key
  <2> QED
    BY <2>1, <2>2
<1>5. /\ s \in Secrets /\ b.s = s /\ b.next = 0
      /\ b.pend => Ranges = 2 /\ stored = "ok" /\ b.range = 1 - rec.range
      /\ ~b.pend => ~acked /\ op = "setup"
      /\ \A k \in SlotIds : k < i => b.ci[k] = s /\ md[b.range][k] = s
      /\ part = 1 => md[b.range][i] = s
      /\ part = 2 => b.ci[i] = s
  BY <1>1 DEF Ind, Keying
<1>6. \A k \in SlotIds : k < i => b'.ci[k] = s /\ md'[b.range][k] = s
  BY <1>0, <1>3, <1>4, <1>5 DEF SlotIds
<1>7. /\ part = 0 => md'[b.range][i] = s
      /\ part = 1 => b'.ci[i] = s
      /\ part = 2 => b'.ci[i] = s /\ md'[b.range][i] = s
  BY <1>0, <1>3, <1>4, <1>5
<1>8. pc' \in {"key", "commit"}
  BY <1>1 DEF Key
<1>9. Counted' /\ Retiring' /\ SameBinding'
  BY <1>2, <1>8 DEF Counted, Retiring, SameBinding, Chip
<1>10. Keying'
  <2>1. CASE part < 2
    <3>1. pc' = "key" /\ i' = i /\ part' = part + 1
      BY <1>1, <2>1 DEF Key
    <3> QED
      BY <1>0, <1>1, <1>4, <1>5, <1>6, <1>7, <2>1, <3>1 DEF Keying
  <2>2. CASE part = 2 /\ Last
    <3>1. pc' = "commit"
      BY <2>2 DEF Key
    <3>2. \A k \in SlotIds : k < i \/ k = i
      BY <1>0, <2>2 DEF Last, SlotIds
    <3>3. \A k \in SlotIds : b'.ci[k] = s /\ md'[b.range][k] = s
      BY <1>6, <1>7, <2>2, <3>2
    <3> QED
      BY <1>1, <1>4, <1>5, <3>1, <3>3 DEF Keying
  <2>3. CASE part = 2 /\ ~Last
    <3>1. pc' = "key" /\ i' = i + 1 /\ part' = 0
      BY <1>1, <2>3 DEF Key
    <3>2. \A k \in SlotIds : k < i' => k < i \/ k = i
      BY <1>0, <3>1 DEF SlotIds
    <3>3. \A k \in SlotIds : k < i' => b'.ci[k] = s /\ md'[b.range][k] = s
      BY <1>6, <1>7, <2>3, <3>2
    <3> QED
      BY <1>1, <1>4, <1>5, <3>1, <3>3 DEF Keying
  <2> QED
    BY <1>0, <2>1, <2>2, <2>3
<1>11. CallState'
  BY <1>1, <1>3, <1>4, <1>8 DEF Ind, CallState
<1> QED
  BY <1>1, <1>2, <1>9, <1>10, <1>11, BusyInd

(* The new binding takes effect. *)
LEMMA CommitInd == ASSUME Ind, TypeOK', Commit PROVE Ind'
<1> USE RangesAssumption, RoundsAssumption, NoneAssumption
<1>0. /\ pc = "commit" /\ StoreEffect /\ rec' = b /\ stored' = "ok" /\ UNCHANGED md
      /\ evals' = 0 /\ ret.st = "BUSY"
  BY DEF Commit, StoreEffect, Ind, CallState
<1>1. Chip'
  BY <1>0, StoreChip DEF StoreEffect, Stores
<1>2. /\ s \in Secrets /\ b.s = s /\ b.next = 0 /\ b.range \in RangeIds
      /\ b.pend => Ranges = 2
      /\ ~b.pend => op = "setup"
      /\ op = "setup" \/ op = "change"
  BY <1>0 DEF Ind, Keying, CallState, TypeOK, Binding
<1>3. CASE b.pend
  <2>1. /\ pc' = "retire" /\ i' = 0 /\ stage' = "committed" /\ UNCHANGED <<op, b, s, ret>>
    BY <1>3 DEF Commit
  <2>2. Counted' /\ SameBinding' /\ Keying' /\ Retiring'
    BY <1>0, <1>1, <1>2, <1>3, <2>1
    DEF Counted, SameBinding, Keying, Retiring, Chip, SlotIds
  <2>3. CallState'
    BY <1>0, <1>2, <2>1 DEF CallState
  <2> QED
    BY <1>0, <1>1, <2>1, <2>2, <2>3, BusyInd
<1>4. CASE ~b.pend
  <2>1. Return("OK")
    BY <1>4 DEF Commit
  <2>2. \A r \in RangeIds \ {b.range}, k \in SlotIds : md[r][k] # b.s
    <3>1. op = "setup" /\ stage = "enter"
      BY <1>0, <1>2, <1>4 DEF Ind, CallState
    <3> QED
      BY <1>2, <3>1 DEF Ind, CallState
  <2>3. OldRangeRetired'
    BY <1>0, <1>4, <2>2 DEF OldRangeRetired
  <2> QED
    BY <1>1, <2>1, <2>3, IdleInd DEF Return
<1> QED
  BY <1>3, <1>4

(* Clearing: every slot, then the record. *)
LEMMA ClearInd == ASSUME Ind, TypeOK', Wipe \/ Drop PROVE Ind'
<1>1. CASE Wipe
  <2>0. /\ pc \in {"wipe0", "wipe1"} /\ MdEffect /\ UNCHANGED <<op, stage, ret, acked>>
        /\ pc' \in {"wipe0", "wipe1", "drop"} /\ (pc' = "wipe1" => Ranges = 2)
        /\ op = "clear" /\ ret.st = "BUSY" /\ ~acked /\ stage = "enter"
    BY <1>1 DEF Wipe, callVars, MdEffect, Ind, CallState, TypeOK
  <2>1. Chip'
    BY <2>0, MdChip DEF MdCalls
  <2>2. Counted' /\ SameBinding' /\ Keying' /\ Retiring' /\ CallState'
    BY <2>0, <2>1 DEF Counted, SameBinding, Keying, Retiring, CallState, Chip
  <2> QED
    BY <2>0, <2>1, <2>2, BusyInd
<1>2. CASE Drop
  <2>1. Chip'
    BY <1>2 DEF Drop, Ind, Counted, Chip, StoredForm, Kept, Opens
  <2>2. Return("OK") /\ op = "clear"
    BY <1>2 DEF Drop, Ind, CallState
  <2>3. OldRangeRetired'
    BY <2>2 DEF Return, Result, OldRangeRetired
  <2> QED
    BY <2>1, <2>2, <2>3, IdleInd DEF Return
<1> QED
  BY <1>1, <1>2

(* Lost replies, power cuts and power cycles. *)
LEMMA EnvironmentInd == ASSUME Ind, TypeOK', Environment PROVE Ind'
<1>1. CASE LostReply
  <2>1. Interrupted /\ Return("ERR")
    BY <1>1 DEF LostReply, Interrupted
  <2> QED
    BY <2>1, InterruptedChip, FailInd
<1>2. CASE PowerCut
  BY <1>2, InterruptedChip, FailInd DEF PowerCut
<1>3. CASE Reboot
  <2>1. Chip'
    BY <1>3 DEF Reboot, chipVars, Ind, Counted, Chip, StoredForm, Kept, Opens
  <2>2. pc' = "idle" /\ op' = "none" /\ stage' = "enter" /\ ret'.st = "CUT"
    BY <1>3 DEF Reboot, callVars, Result, Ind, CallState, TypeOK
  <2>3. OldRangeRetired'
    BY <2>2 DEF OldRangeRetired
  <2> QED
    BY <2>1, <2>2, <2>3, IdleInd
<1> QED
  BY <1>1, <1>2, <1>3 DEF Environment

(* Ind is inductive. *)
LEMMA IndStep == Ind /\ [Next]_vars => Ind'
<1> SUFFICES ASSUME Ind, [Next]_vars PROVE Ind'
  OBVIOUS
<1>1. TypeOK'
  BY TypeStep DEF Ind
<1>2. CASE UNCHANGED vars
  BY <1>2 DEF vars, Ind, TypeOK, Counted, SameBinding, Keying, Retiring, CallState,
              StoredForm, Kept, Opens, OldRangeRetired
<1>3. CASE Call
  BY <1>1, <1>3, CallInd
<1>4. CASE Step
  BY <1>1, <1>4, LoadInd, RetireInd, GuessInd, RekeyInd, KeyInd, CommitInd, ClearInd
  DEF Step
<1>5. CASE Environment
  BY <1>1, <1>5, EnvironmentInd
<1> QED
  BY <1>2, <1>3, <1>4, <1>5 DEF Next

(* Ind holds on a chip as delivered. *)
LEMMA IndInit == Init => Ind
<1> SUFFICES ASSUME Init PROVE Ind
  OBVIOUS
<1>1. TypeOK
  BY InitTypes
<1>2. pc = "idle" /\ op = "none" /\ stage = "enter" /\ ret = Result("none", "CUT")
  BY DEF Init
<1>3. rec = Blank /\ evals = 0 /\ ~acked
  BY DEF Init
<1>4. Counted /\ StoredForm /\ Kept
  BY <1>2, <1>3 DEF Blank, Counted, StoredForm, Kept
<1>5. SameBinding /\ Keying /\ Retiring /\ CallState
  BY <1>2 DEF SameBinding, Keying, Retiring, CallState
<1>6. OldRangeRetired
  BY <1>2 DEF OldRangeRetired, Result
<1> QED
  BY <1>1, <1>4, <1>5, <1>6 DEF Ind

(* The invariant holds in every state the kernel reaches. *)
LEMMA Invariant == Spec => []Ind
<1> QED
  BY IndInit, IndStep, PTL DEF Spec

(* For every number of rounds: whatever is cut, lost or repeated, no PIN   *)
(* is evaluated that the stored record has not already counted.            *)
THEOREM EveryGuessCounted == Spec => []NoFreeGuess
<1>1. Ind => NoFreeGuess
  BY DEF Ind, Counted, NoFreeGuess
<1> QED
  BY <1>1, Invariant, PTL

(* For every number of rounds: a committed binding opens with its PIN and  *)
(* all its remaining attempts, wherever setup_s, verify_s, settle or the   *)
(* power stopped.                                                          *)
THEOREM AlwaysUsable == Spec => []Usable
<1>1. Ind => Usable
  BY NoneAssumption DEF Ind, Kept, Opens, Usable
<1> QED
  BY <1>1, Invariant, PTL

(* For every layout: setup and change answer OK only over a retired range, *)
(* and nothing but clear succeeds while a retirement is pending.           *)
THEOREM RetiredBeforeSuccess == Spec => []OldRangeRetired
<1>1. Ind => OldRangeRetired
  BY DEF Ind
<1> QED
  BY <1>1, Invariant, PTL

(* For every layout: the secret in the record changes in setup only, so    *)
(* verify and change keep the key that the PIN protects.                   *)
THEOREM SecretOnlyFromSetup == Spec => SecretKept
<1>1. ASSUME Ind, [Next]_vars, stored = "ok", stored' = "ok", rec'.s # rec.s
      PROVE  op = "setup"
  <2>1. rec' = b /\ pc \in Stores
    <3>1. CASE UNCHANGED vars
      BY <1>1, <3>1 DEF vars
    <3>2. CASE Call
      BY <1>1, <3>2 DEF Call, pin_md_kernel_status, pin_md_kernel_verify,
         pin_md_kernel_setup, pin_md_kernel_change, pin_md_kernel_clear, Refuse, Start, chipVars
    <3>3. CASE Step
      BY <1>1, <3>3 DEF Step, Load, Retire, Unpend, Reserve, Guess, Rekey, Restore, Key,
         Commit, Wipe, Drop, MdEffect, StoreEffect, Stores
    <3>4. CASE Environment
      BY <1>1, <3>4 DEF Environment, LostReply, PowerCut, Reboot, Interrupted, MdEffect,
         StoreEffect, Stores, chipVars
    <3> QED
      BY <1>1, <3>1, <3>2, <3>3, <3>4 DEF Next
  <2>2. pc = "commit"
    BY <1>1, <2>1 DEF Ind, SameBinding, Stores
  <2>3. b.s = s /\ (stage = "again" => s = rec.s)
    BY <1>1, <2>2 DEF Ind, Keying, CallState
  <2> QED
    BY <1>1, <2>1, <2>2, <2>3 DEF Ind, CallState
<1>2. Ind /\ [Next]_vars =>
        [stored = "ok" /\ stored' = "ok" /\ rec'.s # rec.s => op = "setup"]_vars
  BY <1>1
<1> QED
  BY <1>2, Invariant, PTL DEF Spec, SecretKept
=============================================================================
