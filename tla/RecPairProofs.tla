--------------------------- MODULE RecPairProofs ---------------------------
(***************************************************************************)
(* Proofs about the mirrored records of RecPair, for every set of payloads *)
(* and every generation limit.                                             *)
(***************************************************************************)
EXTENDS RecPair, TLAPS

-----------------------------------------------------------------------------
(* The inductive invariant for any number of faults. *)

Other == IF Target = "A" THEN "B" ELSE "A"

(* x holds nothing but r; x holds nothing but a predecessor of r. *)
Matches(x, r) == Holds(x) => x.g = r.g /\ x.v = r.v
Precedes(x, r) == Holds(x) => r.g = x.g + 1

(* Two copies that may stand side by side. *)
Compatible(x, y) ==
    Holds(x) /\ Holds(y) =>
        \/ x.g = y.g /\ x.v = y.v
        \/ x.g = y.g + 1
        \/ y.g = x.g + 1

Progress ==
    /\ phase = "idle" <=> op = "none"
    /\ phase = "readB" =>
         /\ bufA.k # "masked"
         /\ bufA.k = "valid" =>
              /\ bufA.v \in may
              /\ Matches(slot["A"], bufA)
              /\ Compatible(bufA, slot["B"])
    /\ phase = "repair" => rec.v \in may /\ Matches(slot[Other], rec)
    /\ phase \in {"clearB", "clearA"} => Absent \in may /\ op \in {"clear", "init"}
    /\ phase = "clearA" => ~Holds(slot["B"])
    /\ phase \in {"commitA", "commitB"} => rec.v \in may /\ rec.v = arg
    /\ phase = "commitA" =>
         /\ Precedes(slot["B"], rec)
         /\ step = "erase" => Precedes(slot["A"], rec)
    /\ phase = "commitB" =>
         /\ Matches(slot["A"], rec)
         /\ step = "erase" => Precedes(slot["B"], rec)
    /\ Mutating /\ step = "write" => ~Holds(slot[Target])
    /\ Clearing /\ step = "check" => ~Holds(slot[Target])
    /\ Mutating /\ ~Clearing /\ step = "check" => Matches(slot[Target], rec)
    /\ Clearing => step # "write"

SafeInv == TypeOK /\ NeverStale /\ NoContradiction /\ Progress

-----------------------------------------------------------------------------
(* The strengthening for at most one fault between clean states. *)

SomeValid == \E s \in Copies : slot[s].k = "valid"

(* The copy being rewritten is as the chip calls so far have made it. *)
OnTrack ==
    \/ step = "erase"
    \/ step = "write" /\ slot[Target] = Empty
    \/ step = "check" /\ slot[Target] = rec

OneFault ==
    /\ phase \in {"idle", "readA", "readB"} /\ faults = 0 => Clean
    /\ phase = "readB" /\ faults = 0 => bufA = slot["A"]
    /\ phase \in {"idle", "readA"} /\ Absent \notin may => SomeValid
    /\ phase = "readB" /\ Absent \notin may =>
         /\ SomeValid
         /\ bufA.k = "valid" \/ slot["B"].k = "valid"
         /\ bufA.k = "valid" => slot["A"] = bufA \/ slot["B"] = bufA
    /\ phase = "repair" => faults = 1 /\ (Absent \notin may => slot[Other].k = "valid")
    /\ phase = "clearA" /\ faults = 0 => slot["B"] = Empty
    /\ Mutating /\ ~Clearing /\ faults = 0 => OnTrack
    /\ phase \in {"clearA", "clearB"} /\ faults = 0 /\ step = "check" => slot[Target] = Empty
    /\ phase = "commitB" /\ faults = 0 => slot["A"] = rec
    /\ phase = "commitA" /\ faults = 0 /\ Absent \notin may => slot["B"].k = "valid"
    /\ phase \in {"commitA", "commitB"} /\ Absent \notin may =>
         slot[Other].k = "valid" \/ OnTrack

OneFaultInv == SafeInv /\ (MaxFaults <= 1 => OneFault)

-----------------------------------------------------------------------------
(* What a slot's contents are after the chip or a fault has acted on it. *)
LEMMA SlotValues ==
    /\ Empty \in Slots /\ Bad \in Slots
    /\ \A x \in Slots : View(x) \in Slots
    /\ \A x \in Slots : x.k = "valid" => Mask(x) \in Slots
    /\ \A x \in Slots : x.k = "masked" => Unmask(x) \in Slots
    /\ \A x \in Slots : Damaged(x) \subseteq Slots
    /\ \A g \in 1..MaxGen, v \in Payloads : Record(g, v) \in Slots
<1> USE MaxGenAssumption DEF Slots, Empty, Bad
<1>1. \A x \in Slots : x.k = "valid" => Mask(x) \in Slots
  BY DEF Mask
<1>2. \A x \in Slots : x.k = "masked" => Unmask(x) \in Slots
  BY DEF Unmask
<1>3. \A x \in Slots : Damaged(x) \subseteq Slots
  BY <1>1 DEF Damaged
<1>4. \A x \in Slots : View(x) \in Slots
  BY DEF View
<1>5. \A g \in 1..MaxGen, v \in Payloads : Record(g, v) \in Slots
  BY DEF Record
<1> QED
  BY <1>1, <1>2, <1>3, <1>4, <1>5

(* The verdict on two copies is well-typed, and its winner is one of them. *)
LEMMA VerdictType ==
    ASSUME NEW a \in Slots, NEW b \in Slots
    PROVE  /\ Decide(a, b).st \in Statuses
           /\ Decide(a, b).win \in Slots
           /\ Decide(a, b).repair \in Copies \cup {"none"}
           /\ Decide(a, b).st = "OK" =>
                /\ Decide(a, b).win \in {a, b}
                /\ Decide(a, b).win.k = "valid"
BY SlotValues DEF Decide, Verdict, Statuses, Copies

(* Returning from a call keeps the types. *)
LEMMA ReturnTypes ==
    ASSUME TypeOK
    PROVE  /\ \A st \in Statuses : ReturnStatus(st) => TypeOK'
           /\ ReturnUncertain => TypeOK'
           /\ \A v \in Payloads \cup {None}, w \in Payloads \cup {Absent} :
                ReturnOk(v, w) => TypeOK'
<1> USE DEF TypeOK
<1>1. ASSUME NEW st \in Statuses, ReturnStatus(st) PROVE TypeOK'
  BY <1>1 DEF ReturnStatus, Return, Result, Phases
<1>2. ASSUME ReturnUncertain PROVE TypeOK'
  <2>1. uncertain' \in BOOLEAN
    BY <1>2 DEF ReturnUncertain
  <2> QED
    BY <1>2, <2>1 DEF ReturnUncertain, Return, Result, Phases, Statuses
<1>3. ASSUME NEW v \in Payloads \cup {None}, NEW w \in Payloads \cup {Absent}, ReturnOk(v, w)
      PROVE TypeOK'
  <2>1. faults' \in 0..MaxFaults
    BY <1>3, MaxFaultsAssumption DEF ReturnOk
  <2> QED
    BY <1>3, <2>1 DEF ReturnOk, Return, Result, Phases, Statuses
<1> QED
  BY <1>1, <1>2, <1>3

(* Moving to the next copy keeps the types. *)
LEMMA GotoTypes ==
    ASSUME TypeOK, NEW p \in {"repair", "clearA", "commitA", "commitB"}, NEW r \in Slots,
           p # "clearA" => r.k = "valid",
           p = "repair" => op \in {"read", "write"},
           p \in {"commitA", "commitB"} => op \in {"write", "init"},
           Goto(p, r), fix' \in Copies, may' \in SUBSET (Payloads \cup {Absent})
    PROVE  TypeOK'
BY DEF TypeOK, Goto, Phases

(* Delivering the winner of rec_pair_read keeps the types. *)
LEMMA DeliverTypes ==
    ASSUME TypeOK, NEW w \in Slots, w.k = "valid", op \in {"read", "write"}, Deliver(w)
    PROVE  TypeOK'
<1>0. w.v \in Payloads /\ w.g \in 1..MaxGen
  BY DEF Slots, Empty, Bad
<1>1. CASE op = "read"
  BY <1>0, <1>1, ReturnTypes DEF Deliver
<1>2. CASE op = "write" /\ w.g = MaxGen
  BY <1>2, ReturnTypes DEF Deliver, CommitAfter, Statuses
<1>3. CASE op = "write" /\ w.g # MaxGen
  <2>1. w.g + 1 \in 1..MaxGen /\ arg \in Payloads
    BY <1>0, <1>3, MaxGenAssumption DEF TypeOK
  <2>2. Record(w.g + 1, arg) \in Slots /\ Record(w.g + 1, arg).k = "valid"
    BY <2>1, SlotValues DEF Record
  <2>3. Goto("commitA", Record(w.g + 1, arg)) /\ may' = {w.v, arg} /\ UNCHANGED fix
    BY <1>3 DEF Deliver, CommitAfter
  <2>4. fix' \in Copies /\ may' \in SUBSET (Payloads \cup {Absent})
    BY <1>0, <2>1, <2>3 DEF TypeOK
  <2> QED
    BY <1>3, <2>2, <2>3, <2>4, GotoTypes
<1> QED
  BY <1>1, <1>2, <1>3

(* Type correctness of the pair's state (RecPair's TypeOK) is inductive. *)
LEMMA TypeStep == TypeOK /\ [Next]_vars => TypeOK'
<1> SUFFICES ASSUME TypeOK, [Next]_vars PROVE TypeOK'
  OBVIOUS
<1>1. Target \in Copies
  BY DEF TypeOK, Target, Copies
<1>2. CASE Call
  BY <1>2 DEF Call, rec_pair_read, rec_pair_write, rec_pair_init, rec_pair_clear, RefuseArgs,
              Begin, Result, pairVars, Ops, Phases, Statuses, TypeOK
<1>3. CASE ReadA
  BY <1>3, SlotValues DEF ReadA, Phases, Copies, TypeOK
<1>4. CASE ReadB
  <2> DEFINE d == Decide(bufA, View(slot["B"]))
  <2>1. bufA \in Slots /\ View(slot["B"]) \in Slots /\ op \in {"read", "write"}
    BY <1>4, SlotValues DEF ReadB, TypeOK, Copies
  <2>2. /\ d.st \in Statuses /\ d.win \in Slots /\ d.repair \in Copies \cup {"none"}
        /\ d.st = "OK" => d.win.k = "valid"
    BY <2>1, VerdictType
  <2> HIDE DEF d
  <2>3. CASE d.st # "OK" /\ ReturnStatus(d.st)
    BY <2>2, <2>3, ReturnTypes
  <2>4. CASE ReturnStatus("ERROR")
    BY <2>4, ReturnTypes DEF Statuses
  <2>5. CASE d.st = "OK" /\ Deliver(d.win)
    BY <2>1, <2>2, <2>5, DeliverTypes
  <2>6. CASE d.st = "OK" /\ d.repair # "none" /\ Goto("repair", d.win) /\ fix' = d.repair /\ UNCHANGED may
    <3>1. fix' \in Copies /\ may' \in SUBSET (Payloads \cup {Absent})
      BY <2>2, <2>6 DEF TypeOK
    <3> QED
      BY <2>1, <2>2, <2>6, <3>1, GotoTypes
  <2> QED
    BY <1>4, <2>3, <2>4, <2>5, <2>6 DEF ReadB, d
<1>5. CASE EraseCopy
  BY <1>1, <1>5, SlotValues DEF EraseCopy, TypeOK
<1>6. CASE WriteCopy
  <2>1. CASE ReturnUncertain
    BY <2>1, ReturnTypes
  <2>2. CASE ~ReturnUncertain
    BY <1>1, <1>6, <2>2 DEF WriteCopy, TypeOK
  <2> QED
    BY <2>1, <2>2
<1>7. CASE CheckCopy
  <2>1. CASE ReturnUncertain
    BY <2>1, ReturnTypes
  <2>2. CASE phase = "repair" /\ Deliver(rec)
    BY <2>2, DeliverTypes DEF TypeOK
  <2>3. CASE phase = "clearB" /\ Goto("clearA", rec) /\ UNCHANGED <<fix, may>>
    BY <2>3, GotoTypes DEF TypeOK
  <2>4. CASE ReturnOk(None, Absent)
    BY <2>4, ReturnTypes
  <2>5. CASE op = "init" /\ Goto("commitA", Record(1, arg)) /\ may' = {Absent, arg} /\ UNCHANGED fix
    <3>1. arg \in Payloads /\ 1 \in 1..MaxGen
      BY <2>5, MaxGenAssumption DEF TypeOK
    <3>2. Record(1, arg) \in Slots /\ Record(1, arg).k = "valid"
      BY <3>1, SlotValues DEF Record
    <3> QED
      BY <2>5, <3>1, <3>2, GotoTypes DEF TypeOK
  <2>6. CASE phase = "commitA" /\ Goto("commitB", rec) /\ UNCHANGED <<fix, may>>
    BY <2>6, GotoTypes DEF TypeOK
  <2>7. CASE phase = "commitB" /\ ReturnOk(None, arg)
    BY <2>7, ReturnTypes DEF TypeOK
  <2> QED
    BY <1>7, <2>1, <2>2, <2>3, <2>4, <2>5, <2>6, <2>7 DEF CheckCopy, Proceed
<1>8. CASE LostReply \/ PowerCut
  <2>1. slot' \in [Copies -> Slots]
    <3>1. CASE ~Mutating
      BY <1>8, <3>1 DEF LostReply, PowerCut, InterruptedCall, TypeOK
    <3>2. CASE Mutating
      <4>1. step = "write" => rec \in Slots
        BY DEF TypeOK
      <4>2. CopyOutcomes \subseteq Slots
        BY <1>1, <3>2, <4>1, SlotValues DEF CopyOutcomes, TypeOK
      <4> QED
        BY <1>1, <1>8, <3>2, <4>2 DEF LostReply, PowerCut, InterruptedCall, TypeOK
    <3> QED
      BY <3>1, <3>2
  <2>2. uncertain' \in BOOLEAN
    BY <1>8 DEF LostReply, PowerCut, TypeOK
  <2>3. faults' \in 0..MaxFaults
    BY <1>8, MaxFaultsAssumption DEF LostReply, PowerCut, Fault, TypeOK
  <2> QED
    BY <1>8, <2>1, <2>2, <2>3 DEF LostReply, PowerCut, Result, TypeOK, Phases, Statuses
<1>9. CASE Reboot
  <2>1. uncertain' \in BOOLEAN
    BY <1>9 DEF Reboot
  <2> QED
    BY <1>9, <2>1 DEF Reboot, Result, pairVars, TypeOK, Statuses
<1>10. ASSUME NEW s \in Copies, Damage(s) \/ Revive(s) PROVE TypeOK'
  <2>1. slot' \in [Copies -> Slots]
    BY <1>10, SlotValues DEF Damage, Revive, TypeOK
  <2>2. faults' \in 0..MaxFaults
    BY <1>10, MaxFaultsAssumption DEF Damage, Revive, Fault, TypeOK
  <2> QED
    BY <1>10, <2>1, <2>2 DEF Damage, Revive, TypeOK, pairVars
<1>11. CASE UNCHANGED vars
  BY <1>11 DEF vars, TypeOK
<1> QED
  BY <1>2, <1>3, <1>4, <1>5, <1>6, <1>7, <1>8, <1>9, <1>10, <1>11 DEF Next, ChipCall, Environment

(* A device as delivered is type-correct. *)
LEMMA InitTypes == Init => TypeOK
<1> SUFFICES ASSUME Init PROVE TypeOK
  OBVIOUS
<1>1. slot \in [Copies -> Slots] /\ bufA \in Slots /\ rec \in Slots
  BY SlotValues DEF Init
<1>2. uncertain \in BOOLEAN /\ phase \in Phases /\ fix \in Copies /\ op = "none"
  BY DEF Init, Phases, Copies
<1>3. faults \in 0..MaxFaults /\ ret \in [st : Statuses \cup {"BUSY", "CUT"}, v : Payloads \cup {None}]
  BY MaxFaultsAssumption DEF Init, Result
<1> QED
  BY <1>1, <1>2, <1>3 DEF Init, TypeOK

(* Every behaviour of the pair is type-correct, for every set of payloads, *)
(* generation limit and number of faults.                                  *)
THEOREM TypeCorrect == Spec => []TypeOK
<1>1. Init => TypeOK
  BY InitTypes
<1> QED
  BY <1>1, TypeStep, PTL DEF Spec

-----------------------------------------------------------------------------
(* Safety under any number of faults. *)

(* y holds nothing that x does not hold. *)
Within(y, x) == Holds(y) => Holds(x) /\ y.g = x.g /\ y.v = x.v

(* Damage, masking and a read add nothing to what a slot holds. *)
LEMMA SlotContents ==
    /\ ~Holds(Empty) /\ ~Holds(Bad)
    /\ \A x \in Slots : \A y \in Damaged(x) : Within(y, x)
    /\ \A x \in Slots : x.k = "masked" => Within(Unmask(x), x)
    /\ \A x \in Slots : View(x).k = "valid" => View(x) = x
    /\ \A x \in Slots : x.k = "empty" => x = Empty
    /\ \A x \in Slots : Holds(x) => x.g \in 1..MaxGen /\ x.v \in Payloads
<1> USE MaxGenAssumption DEF Slots, Empty, Bad, Holds
<1>1. \A x \in Slots : \A y \in Damaged(x) : Within(y, x)
  BY DEF Damaged, Mask, Within
<1>2. \A x \in Slots : x.k = "masked" => Within(Unmask(x), x)
  BY DEF Unmask, Within
<1>3. \A x \in Slots : View(x).k = "valid" => View(x) = x
  BY DEF View
<1> QED
  BY <1>1, <1>2, <1>3

(* A call that returns leaves nothing in progress. *)
LEMMA IdleProgress == ASSUME phase' = "idle", op' = "none" PROVE Progress'
BY DEF Progress, Mutating, Clearing

(* A slot that loses or regains the record it holds keeps the invariant. *)
LEMMA WithinStep ==
    ASSUME SafeInv, NEW s \in Copies, NEW x \in Slots, Within(x, slot[s]),
           slot' = [slot EXCEPT ![s] = x],
           UNCHANGED <<uncertain, pairVars, ret, may>>
    PROVE  NeverStale' /\ NoContradiction' /\ Progress'
<1> USE DEF SafeInv, TypeOK, Copies, Within, pairVars
<1>0. \A c \in Copies : Within(slot'[c], slot[c])
  OBVIOUS
<1>1. NeverStale'
  BY <1>0 DEF NeverStale
<1>2. NoContradiction'
  BY <1>0 DEF NoContradiction
<1>3. Progress'
  <2>1. Target' = Target /\ Mutating' = Mutating /\ Clearing' = Clearing /\ Other' = Other
    BY DEF Target, Mutating, Clearing, Other
  <2>2. Target \in Copies /\ Other \in Copies
    BY DEF Target, Other
  <2> QED
    BY <1>0, <2>1, <2>2 DEF Progress, Matches, Precedes, Compatible
<1> QED
  BY <1>1, <1>2, <1>3

(* rec_pair_read has found its winner w and no slot holds anything else:   *)
(* the value is returned, or the write that asked for it starts.           *)
LEMMA DeliverStep ==
    ASSUME SafeInv, NEW w \in Slots, w.k = "valid", op \in {"read", "write"},
           \A s \in Copies : Matches(slot[s], w), Deliver(w)
    PROVE  NeverStale' /\ NoContradiction' /\ Progress'
<1> USE DEF SafeInv, TypeOK, Copies, Matches
<1>0. w.v \in Payloads /\ w.g \in 1..MaxGen
  BY DEF Slots, Empty, Bad
<1>1. CASE op = "read"
  BY <1>1, IdleProgress DEF Deliver, ReturnOk, Return, NeverStale, NoContradiction
<1>2. CASE op = "write" /\ w.g = MaxGen
  BY <1>2, IdleProgress DEF Deliver, CommitAfter, ReturnStatus, Return, NeverStale, NoContradiction
<1>3. CASE op = "write" /\ w.g # MaxGen
  <2>1. /\ phase' = "commitA" /\ step' = "erase" /\ rec' = Record(w.g + 1, arg)
        /\ may' = {w.v, arg} /\ slot' = slot /\ op' = op /\ arg' = arg
    BY <1>3 DEF Deliver, CommitAfter, Goto
  <2>2. rec'.g = w.g + 1 /\ rec'.v = arg
    BY <2>1 DEF Record
  <2>3. Progress'
    BY <1>3, <2>1, <2>2, <1>0 DEF Progress, Precedes, Mutating, Clearing, Target
  <2> QED
    BY <2>1, <2>3 DEF NeverStale, NoContradiction
<1> QED
  BY <1>1, <1>2, <1>3

(* The winner of two readable copies is a record the object may have, and  *)
(* the copy that is not repaired holds nothing else.                       *)
LEMMA WinnerStep ==
    ASSUME SafeInv, phase = "readB", Decide(bufA, View(slot["B"])).st = "OK"
    PROVE  LET d == Decide(bufA, View(slot["B"])) IN
           /\ d.win \in Slots /\ d.win.k = "valid" /\ d.win.v \in may
           /\ d.repair = "none" => \A s \in Copies : Matches(slot[s], d.win)
           /\ d.repair = "A" => Matches(slot["B"], d.win)
           /\ d.repair = "B" => Matches(slot["A"], d.win)
<1> DEFINE b == View(slot["B"])
           d == Decide(bufA, b)
<1>1. bufA \in Slots /\ slot["B"] \in Slots /\ b \in Slots /\ slot["A"] \in Slots
  BY SlotValues DEF SafeInv, TypeOK, Copies
<1>2. b.k = "valid" => b = slot["B"] /\ b.v \in may
  BY <1>1, SlotContents DEF SafeInv, NeverStale, Copies, Holds
<1>3. bufA.k = "valid" => bufA.v \in may /\ Matches(slot["A"], bufA)
  BY DEF SafeInv, Progress
<1>4. d.win \in Slots /\ d.win.k = "valid" /\ d.win \in {bufA, b}
  BY <1>1, VerdictType
<1>5. d.win.v \in may
  BY <1>2, <1>3, <1>4
<1>6. \/ bufA.k = "valid" /\ b.k = "valid" /\ bufA = b /\ d = Verdict("OK", bufA, "none")
      \/ bufA.k = "valid" /\ d = Verdict("OK", bufA, "B")
      \/ b.k = "valid" /\ d = Verdict("OK", b, "A")
  BY DEF Decide, Verdict
<1> HIDE DEF d
<1>7. d.repair = "none" => bufA.k = "valid" /\ b = bufA /\ d.win = bufA
  BY <1>6 DEF Verdict
<1>8. d.repair = "A" => b.k = "valid" /\ d.win = b
  BY <1>6 DEF Verdict
<1>9. d.repair = "B" => bufA.k = "valid" /\ d.win = bufA
  BY <1>6 DEF Verdict
<1> QED
  BY <1>2, <1>3, <1>4, <1>5, <1>7, <1>8, <1>9 DEF d, Matches, Copies

(* The safety invariant is inductive: one case per chip call and fault of  *)
(* rec_pair.c, any number of faults.                                       *)
LEMMA SafeStep == SafeInv /\ [Next]_vars => SafeInv'
<1> SUFFICES ASSUME SafeInv, [Next]_vars PROVE NeverStale' /\ NoContradiction' /\ Progress'
  BY TypeStep DEF SafeInv
<1>0. Target \in Copies /\ Other \in Copies /\ Target # Other /\ Copies = {Target, Other}
  BY DEF SafeInv, TypeOK, Target, Other, Copies
<1>1. \A s \in Copies : slot[s] \in Slots
  BY DEF SafeInv, TypeOK
<1>2. CASE Call
  <2>1. slot' = slot /\ may \subseteq may'
    BY <1>2 DEF Call, rec_pair_read, rec_pair_write, rec_pair_init, rec_pair_clear, RefuseArgs, Begin
  <2>2. NeverStale' /\ NoContradiction'
    BY <2>1 DEF SafeInv, NeverStale, NoContradiction
  <2>3. Progress'
    <3>1. CASE phase' = "idle" /\ op' = "none"
      BY <3>1, IdleProgress
    <3>2. CASE ~(phase' = "idle" /\ op' = "none")
      <4>1. phase = "idle" /\ op = "none"
        BY <1>2 DEF Call, rec_pair_read, rec_pair_write, rec_pair_init, rec_pair_clear, RefuseArgs,
                    Begin, SafeInv, Progress
      <4>2. /\ step' = "erase" /\ op' \in Ops
            /\ \/ phase' = "readA"
               \/ phase' = "clearB" /\ Absent \in may' /\ op' \in {"clear", "init"}
        BY <1>2, <3>2, <4>1 DEF Call, rec_pair_read, rec_pair_write, rec_pair_init, rec_pair_clear,
                    RefuseArgs, Begin, Ops, pairVars
      <4> QED
        BY <4>2 DEF Progress, Mutating, Clearing, Ops
    <3> QED
      BY <3>1, <3>2
  <2> QED
    BY <2>2, <2>3
<1>3. CASE ReadA
  <2>1. slot' = slot /\ may' = may /\ phase' = "readB" /\ bufA' = View(slot["A"]) /\ op' = op
    BY <1>3 DEF ReadA
  <2>2. NeverStale' /\ NoContradiction'
    BY <2>1 DEF SafeInv, NeverStale, NoContradiction
  <2>3. View(slot["A"]).k # "masked" /\ (View(slot["A"]).k = "valid" => View(slot["A"]) = slot["A"])
    BY <1>1, SlotContents DEF View, Empty, Copies
  <2>4. op # "none"
    BY <1>3 DEF ReadA, SafeInv, Progress
  <2>5. Progress'
    BY <2>1, <2>3, <2>4 DEF SafeInv, NeverStale, NoContradiction, Progress, Mutating, Clearing,
       Matches, Compatible, Holds, Copies
  <2> QED
    BY <2>2, <2>5
<1>4. CASE ReadB
  <2> DEFINE d == Decide(bufA, View(slot["B"]))
  <2>0. phase = "readB" /\ op \in {"read", "write"}
    BY <1>4 DEF ReadB, SafeInv, TypeOK
  <2>1. CASE ReturnStatus(d.st) \/ ReturnStatus("ERROR")
    BY <2>1, IdleProgress DEF ReturnStatus, Return, SafeInv, NeverStale, NoContradiction
  <2>2. CASE d.st = "OK" /\ d.repair = "none" /\ Deliver(d.win)
    BY <2>0, <2>2, WinnerStep, DeliverStep
  <2>3. CASE d.st = "OK" /\ d.repair # "none" /\ Goto("repair", d.win) /\ fix' = d.repair /\ UNCHANGED may
    <3>1. d.repair \in Copies
      BY <2>3, <1>1, SlotValues, VerdictType DEF SafeInv, TypeOK, Copies
    <3>2. d.win.v \in may /\ (d.repair = "A" => Matches(slot["B"], d.win))
          /\ (d.repair = "B" => Matches(slot["A"], d.win))
      BY <2>0, <2>3, WinnerStep
    <3>3. /\ slot' = slot /\ may' = may /\ phase' = "repair" /\ step' = "erase" /\ rec' = d.win
          /\ fix' = d.repair /\ op' = op
      BY <2>3 DEF Goto
    <3> HIDE DEF d
    <3>4. Progress'
      BY <2>0, <3>1, <3>2, <3>3 DEF Progress, Mutating, Clearing, Target, Other, Matches, Copies
    <3> QED
      BY <3>3, <3>4 DEF SafeInv, NeverStale, NoContradiction
  <2> QED
    BY <1>4, <2>1, <2>2, <2>3 DEF ReadB
<1>5. CASE EraseCopy
  <2>1. /\ slot' = [slot EXCEPT ![Target] = Empty] /\ phase' = phase /\ op' = op /\ arg' = arg
        /\ may' = may /\ rec' = rec /\ fix' = fix /\ Mutating
        /\ step' = IF Clearing THEN "check" ELSE "write"
    BY <1>5 DEF EraseCopy
  <2>2. slot'[Target] = Empty /\ slot'[Other] = slot[Other]
    BY <1>0, <2>1 DEF SafeInv, TypeOK
  <2>3. ~Holds(slot'[Target])
    BY <2>2, SlotContents
  <2>4. NeverStale' /\ NoContradiction'
    BY <1>0, <2>1, <2>2, <2>3 DEF SafeInv, NeverStale, NoContradiction, Copies
  <2>5. Target' = Target /\ Other' = Other /\ Clearing' = Clearing /\ Mutating'
    BY <2>1 DEF Target, Other, Clearing, Mutating
  <2>6. Progress'
    BY <1>0, <2>1, <2>2, <2>3, <2>5
       DEF SafeInv, Progress, Mutating, Clearing, Target, Other, Matches, Precedes, Copies
  <2> QED
    BY <2>4, <2>6
<1>6. CASE WriteCopy
  <2>1. CASE ReturnUncertain
    BY <2>1, IdleProgress DEF ReturnUncertain, Return, SafeInv, NeverStale, NoContradiction
  <2>2. CASE ~ReturnUncertain
    <3>1. /\ slot' = [slot EXCEPT ![Target] = rec] /\ phase' = phase /\ op' = op /\ arg' = arg
          /\ may' = may /\ rec' = rec /\ fix' = fix /\ Mutating /\ step = "write" /\ step' = "check"
      BY <1>6, <2>2 DEF WriteCopy
    <3>2. slot'[Target] = rec /\ slot'[Other] = slot[Other]
      BY <1>0, <3>1 DEF SafeInv, TypeOK
    <3>3. Target' = Target /\ Other' = Other /\ Clearing' = Clearing /\ Mutating' /\ ~Clearing
      BY <3>1 DEF Target, Other, Clearing, Mutating, SafeInv, Progress
    <3>4. rec.v \in may /\ (Matches(slot[Other], rec) \/ Precedes(slot[Other], rec))
      BY <3>1, <3>3 DEF SafeInv, Progress, Mutating, Clearing, Target, Other
    <3>5. NeverStale' /\ NoContradiction'
      BY <1>0, <3>1, <3>2, <3>4 DEF SafeInv, NeverStale, NoContradiction, Matches, Precedes, Copies
    <3>6. Progress'
      BY <1>0, <3>1, <3>2, <3>3
         DEF SafeInv, Progress, Mutating, Clearing, Target, Other, Matches, Precedes, Copies
    <3> QED
      BY <3>5, <3>6
  <2> QED
    BY <2>1, <2>2
<1>7. CASE CheckCopy
  <2>0. Mutating /\ step = "check" /\ (ReturnUncertain \/ (ReadBack(slot[Target]) /\ Proceed))
    BY <1>7 DEF CheckCopy
  <2>1. CASE ReturnUncertain
    BY <2>1, IdleProgress DEF ReturnUncertain, Return, SafeInv, NeverStale, NoContradiction
  <2>2. CASE phase = "repair" /\ Deliver(rec)
    <3>1. \A s \in Copies : Matches(slot[s], rec)
      BY <1>0, <2>0, <2>2 DEF SafeInv, Progress, Clearing
    <3>2. rec \in Slots /\ rec.k = "valid" /\ op \in {"read", "write"}
      BY <2>2 DEF SafeInv, TypeOK
    <3> QED
      BY <2>2, <3>1, <3>2, DeliverStep
  <2>3. CASE phase = "clearB" /\ Goto("clearA", rec) /\ UNCHANGED <<fix, may>>
    <3>1. ~Holds(slot["B"])
      BY <2>0, <2>3 DEF SafeInv, Progress, Clearing, Target
    <3>2. slot' = slot /\ may' = may /\ phase' = "clearA" /\ step' = "erase" /\ op' = op
      BY <2>3 DEF Goto
    <3> QED
      BY <2>3, <3>1, <3>2 DEF SafeInv, NeverStale, NoContradiction, Progress, Mutating, Clearing
  <2>4. CASE phase = "clearA" /\ ReturnOk(None, Absent)
    <3>1. ~Holds(slot["A"]) /\ ~Holds(slot["B"])
      BY <2>0, <2>4 DEF SafeInv, Progress, Clearing, Target
    <3> QED
      BY <2>4, <3>1, IdleProgress DEF ReturnOk, Return, NeverStale, NoContradiction, Copies
  <2>5. CASE phase = "clearA" /\ op = "init" /\ Goto("commitA", Record(1, arg))
             /\ may' = {Absent, arg} /\ UNCHANGED fix
    <3>1. ~Holds(slot["A"]) /\ ~Holds(slot["B"])
      BY <2>0, <2>5 DEF SafeInv, Progress, Clearing, Target
    <3>2. /\ slot' = slot /\ phase' = "commitA" /\ step' = "erase" /\ op' = op /\ arg' = arg
          /\ rec'.v = arg
      BY <2>5 DEF Goto, Record
    <3> QED
      BY <2>5, <3>1, <3>2 DEF NeverStale, NoContradiction, Progress, Mutating, Clearing, Precedes, Copies
  <2>6. CASE phase = "commitA" /\ Goto("commitB", rec) /\ UNCHANGED <<fix, may>>
    <3>1. Matches(slot["A"], rec) /\ Precedes(slot["B"], rec)
      BY <2>0, <2>6 DEF SafeInv, Progress, Clearing, Target
    <3>2. /\ slot' = slot /\ phase' = "commitB" /\ step' = "erase" /\ op' = op /\ arg' = arg
          /\ rec' = rec /\ may' = may
      BY <2>6 DEF Goto
    <3> QED
      BY <2>6, <3>1, <3>2
         DEF SafeInv, NeverStale, NoContradiction, Progress, Mutating, Clearing, Matches, Precedes
  <2>7. CASE phase = "commitB" /\ ReturnOk(None, arg)
    <3>1. Matches(slot["A"], rec) /\ Matches(slot["B"], rec) /\ rec.v = arg
      BY <2>0, <2>7 DEF SafeInv, Progress, Clearing, Target
    <3> QED
      BY <2>7, <3>1, IdleProgress DEF ReturnOk, Return, NeverStale, NoContradiction, Matches, Copies
  <2> QED
    BY <2>0, <2>1, <2>2, <2>3, <2>4, <2>5, <2>6, <2>7 DEF Proceed
<1>8. CASE LostReply \/ PowerCut
  <2>1. phase' = "idle" /\ op' = "none" /\ may' = may /\ InterruptedCall
    BY <1>8 DEF LostReply, PowerCut
  <2>2. CASE ~Mutating
    BY <2>1, <2>2, IdleProgress DEF InterruptedCall, SafeInv, NeverStale, NoContradiction
  <2>3. CASE Mutating
    <3>1. PICK x \in CopyOutcomes : slot' = [slot EXCEPT ![Target] = x]
      BY <2>1, <2>3 DEF InterruptedCall
    <3>2. slot'[Target] = x /\ slot'[Other] = slot[Other]
      BY <1>0, <3>1 DEF SafeInv, TypeOK
    <3>3. \/ Within(x, slot[Target])
          \/ step = "write" /\ Within(x, rec)
      BY <1>0, <1>1, <3>1, SlotContents DEF CopyOutcomes, Within, SafeInv, TypeOK
    <3>4. CASE Within(x, slot[Target])
      BY <1>0, <2>1, <3>2, <3>4, IdleProgress DEF SafeInv, NeverStale, NoContradiction, Within, Copies
    <3>5. CASE step = "write" /\ Within(x, rec)
      <4>1. ~Clearing
        BY <3>5 DEF SafeInv, Progress
      <4>2. rec.v \in may /\ (Matches(slot[Other], rec) \/ Precedes(slot[Other], rec))
        BY <2>3, <4>1 DEF SafeInv, Progress, Mutating, Clearing, Target, Other
      <4> QED
        BY <1>0, <2>1, <3>2, <3>5, <4>2, IdleProgress
           DEF SafeInv, NeverStale, NoContradiction, Within, Matches, Precedes, Copies
    <3> QED
      BY <3>3, <3>4, <3>5
  <2> QED
    BY <2>2, <2>3
<1>9. CASE Reboot
  BY <1>9 DEF Reboot, pairVars, SafeInv, NeverStale, NoContradiction, Progress, Mutating, Clearing,
              Target, Other
<1>10. ASSUME NEW s \in Copies, Damage(s) \/ Revive(s)
       PROVE  NeverStale' /\ NoContradiction' /\ Progress'
  <2>1. PICK x : slot' = [slot EXCEPT ![s] = x] /\ (x \in Damaged(slot[s]) \/ (slot[s].k = "masked" /\ x = Unmask(slot[s])))
    BY <1>10 DEF Damage, Revive
  <2>2. x \in Slots /\ Within(x, slot[s])
    BY <1>1, <2>1, SlotValues, SlotContents
  <2>3. UNCHANGED <<uncertain, pairVars, ret, may>>
    BY <1>10 DEF Damage, Revive
  <2> QED
    BY <2>1, <2>2, <2>3, WithinStep
<1>11. CASE UNCHANGED vars
  BY <1>11 DEF vars, SafeInv, NeverStale, NoContradiction, Progress, Mutating, Clearing, Target, Other
<1> QED
  BY <1>2, <1>3, <1>4, <1>5, <1>6, <1>7, <1>8, <1>9, <1>10, <1>11 DEF Next, ChipCall, Environment

(* Two empty slots satisfy the safety invariant. *)
LEMMA SafeInit == Init => SafeInv
<1> SUFFICES ASSUME Init PROVE SafeInv
  OBVIOUS
<1>1. \A s \in Copies : ~Holds(slot[s])
  BY SlotContents DEF Init
<1>2. Progress
  BY DEF Init, Progress, Mutating, Clearing
<1> QED
  BY <1>1, <1>2, InitTypes DEF SafeInv, NeverStale, NoContradiction, Copies

(* No slot ever holds a superseded record and no two copies contradict     *)
(* each other, however many calls are cut, lost or damaged: the branches   *)
(* of rec_pair_read that call a contradiction a bug are never taken.       *)
THEOREM Safety == Spec => [](NeverStale /\ NoContradiction)
<1>1. SafeInv => NeverStale /\ NoContradiction
  BY DEF SafeInv
<1> QED
  BY <1>1, SafeInit, SafeStep, PTL DEF Spec

-----------------------------------------------------------------------------
(* Durability under one fault. *)

(* What damage and revival make of the kind of a slot. *)
LEMMA DamagedKinds ==
    ASSUME NEW x \in Slots
    PROVE  /\ \A y \in Damaged(x) : y.k \in {"bad", "masked"}
           /\ x.k = "masked" => Unmask(x).k = "valid"
           /\ x.k = "valid" => View(x) = x
           /\ View(Empty) = Empty
BY DEF Damaged, Mask, Unmask, View, Bad, Empty, Slots

(* A copy on track passes its read-back. *)
LEMMA TrackedCopy ==
    ASSUME TypeOK, Mutating, step = "check",
           IF Clearing THEN slot[Target] = Empty ELSE OnTrack
    PROVE  ReadBack(slot[Target])
<1>1. CASE Clearing
  BY <1>1, DamagedKinds, SlotValues DEF ReadBack
<1>2. CASE ~Clearing
  BY <1>2, DamagedKinds DEF ReadBack, OnTrack, TypeOK, Mutating, Clearing
<1> QED
  BY <1>1, <1>2

(* The one-fault invariant is inductive: while a call may still succeed,   *)
(* the copy that rec_pair.c is not rewriting is valid.                     *)
LEMMA OneFaultStep ==
    ASSUME MaxFaults <= 1, SafeInv, SafeInv', OneFault, [Next]_vars
    PROVE  OneFault'
<1>0. Target \in Copies /\ Other \in Copies /\ Target # Other /\ Copies = {Target, Other}
  BY DEF SafeInv, TypeOK, Target, Other, Copies
<1>1. \A s \in Copies : slot[s] \in Slots
  BY DEF SafeInv, TypeOK
<1>f. faults \in {0, 1}
  BY MaxFaultsAssumption DEF SafeInv, TypeOK
<1>2. CASE Call
  <2>1. slot' = slot /\ faults' = faults /\ phase = "idle"
    BY <1>2 DEF Call, rec_pair_read, rec_pair_write, rec_pair_init, rec_pair_clear, RefuseArgs, Begin
  <2>2. \/ phase' = "idle" /\ may' = may
        \/ phase' = "readA" /\ may' = may
        \/ phase' = "clearB" /\ step' = "erase" /\ Absent \in may'
    BY <1>2 DEF Call, rec_pair_read, rec_pair_write, rec_pair_init, rec_pair_clear, RefuseArgs, Begin,
                pairVars
  <2> QED
    BY <2>1, <2>2 DEF OneFault, Clean, SomeValid, Mutating, Clearing
<1>3. CASE ReadA
  <2>1. slot' = slot /\ faults' = faults /\ may' = may /\ phase = "readA" /\ phase' = "readB"
        /\ bufA' = View(slot["A"])
    BY <1>3 DEF ReadA
  <2>2. slot["A"].k = "valid" => View(slot["A"]) = slot["A"]
    BY <1>1, DamagedKinds DEF Copies
  <2>3. View(slot["A"]).k = "valid" => View(slot["A"]) = slot["A"]
    BY <1>1, SlotContents DEF Copies
  <2>4. slot["A"].k = "empty" => View(slot["A"]) = slot["A"]
    BY DEF View
  <2> QED
    BY <2>1, <2>2, <2>3, <2>4 DEF OneFault, Clean, SomeValid, Mutating, Clearing, Copies
<1>4. CASE ReadB
  <2> DEFINE b == View(slot["B"])
             d == Decide(bufA, b)
  <2>0. phase = "readB"
    BY <1>4 DEF ReadB
  <2>1. CASE ReturnStatus(d.st) \/ ReturnStatus("ERROR")
    BY <2>0, <2>1 DEF ReturnStatus, Return, OneFault, Clean, SomeValid, Mutating, Clearing
  <2>2. /\ bufA \in Slots /\ b \in Slots
        /\ b.k = "valid" => b = slot["B"]
        /\ slot["B"].k = "valid" => b = slot["B"]
    BY <1>1, SlotValues, SlotContents, DamagedKinds DEF SafeInv, TypeOK, Copies
  <2>3. CASE d.st = "OK" /\ d.repair = "none" /\ Deliver(d.win)
    <3>1. slot["B"].k = "valid" /\ b = bufA
      BY <2>2, <2>3 DEF Decide, Verdict
    <3>2. CASE op = "read"
      BY <1>f, <2>0, <2>3, <3>1, <3>2
         DEF Deliver, ReturnOk, Return, OneFault, Clean, SomeValid, Mutating, Clearing, Copies
    <3>3. CASE op # "read"
      BY <2>0, <2>3, <3>1, <3>3
         DEF Deliver, CommitAfter, ReturnStatus, Return, Goto, OneFault, Clean, SomeValid, OnTrack,
             Mutating, Clearing, Copies, Target, Other
    <3> QED
      BY <3>2, <3>3
  <2>4. CASE d.st = "OK" /\ d.repair # "none" /\ Goto("repair", d.win) /\ fix' = d.repair /\ UNCHANGED may
    <3>1. \/ d.repair = "A" /\ slot["B"].k = "valid"
          \/ d.repair = "B" /\ bufA.k = "valid" /\ b # bufA
      BY <2>2, <2>4 DEF Decide, Verdict
    <3>2. faults = 1
      <4>1. SUFFICES ASSUME faults = 0 PROVE FALSE
        BY <1>f
      <4>2. bufA = slot["A"] /\ slot["A"] = slot["B"] /\ slot["A"].k \in {"valid", "empty"}
        BY <2>0, <4>1 DEF OneFault, Clean
      <4>3. b = bufA
        BY <2>2, <4>2 DEF View
      <4>4. CASE bufA.k = "valid"
        <5>0. bufA.g \in 1..MaxGen
          BY <2>2, <4>4, SlotContents DEF Holds
        <5>1. Decide(bufA, bufA) = Verdict("OK", bufA, "none")
          BY <4>4, <5>0, MaxGenAssumption DEF Decide
        <5> QED
          BY <2>4, <4>3, <5>1 DEF Verdict
      <4>5. CASE bufA.k = "empty"
        <5>1. Decide(bufA, bufA) = Verdict("ABSENT", Empty, "none")
          BY <4>5 DEF Decide
        <5> QED
          BY <2>4, <4>3, <5>1 DEF Verdict
      <4> QED
        BY <4>2, <4>4, <4>5
    <3>3. Absent \notin may => IF d.repair = "A" THEN slot["B"].k = "valid" ELSE slot["A"].k = "valid"
      BY <2>0, <2>2, <3>1 DEF OneFault
    <3>4. slot' = slot /\ faults' = faults /\ phase' = "repair" /\ step' = "erase"
      BY <2>4 DEF Goto
    <3> HIDE DEF d
    <3> QED
      BY <2>4, <3>1, <3>2, <3>3, <3>4 DEF OneFault, OnTrack, Mutating, Clearing, Target, Other
  <2> QED
    BY <1>4, <2>1, <2>3, <2>4 DEF ReadB
<1>5. CASE EraseCopy
  <2>1. /\ slot' = [slot EXCEPT ![Target] = Empty] /\ phase' = phase /\ may' = may
        /\ rec' = rec /\ fix' = fix /\ Mutating /\ faults' = faults /\ step = "erase"
        /\ step' = IF Clearing THEN "check" ELSE "write"
    BY <1>5 DEF EraseCopy
  <2>2. slot'[Target] = Empty /\ slot'[Other] = slot[Other]
    BY <1>0, <2>1 DEF SafeInv, TypeOK
  <2>3. Target' = Target /\ Other' = Other /\ Clearing' = Clearing /\ Mutating'
    BY <2>1 DEF Target, Other, Clearing, Mutating
  <2>4. OnTrack' \/ Clearing
    BY <2>1, <2>2, <2>3 DEF OnTrack
  <2> QED
    BY <2>1, <2>2, <2>3, <2>4 DEF OneFault, Mutating, Clearing, Target, Other
<1>6. CASE WriteCopy
  <2>0. Mutating /\ step = "write" /\ ~Clearing
    BY <1>6 DEF WriteCopy, SafeInv, Progress
  <2>1. CASE slot[Target].k # "empty"
    <3>1. ReturnUncertain
      BY <1>6, <2>1 DEF WriteCopy
    <3>2. ~OnTrack
      BY <2>0, <2>1 DEF OnTrack, Empty
    <3>3. faults = 1 /\ (Absent \notin may => slot[Other].k = "valid")
      BY <1>f, <2>0, <3>2 DEF OneFault, Mutating, Clearing
    <3> QED
      BY <1>0, <3>1, <3>3
         DEF ReturnUncertain, Return, OneFault, Clean, SomeValid, Mutating, Clearing
  <2>2. CASE slot[Target].k = "empty"
    <3>1. /\ slot' = [slot EXCEPT ![Target] = rec] /\ phase' = phase /\ may' = may
          /\ rec' = rec /\ fix' = fix /\ faults' = faults /\ step' = "check"
      BY <1>6, <2>2 DEF WriteCopy
    <3>2. slot'[Target] = rec /\ slot'[Other] = slot[Other]
      BY <1>0, <3>1 DEF SafeInv, TypeOK
    <3>3. Target' = Target /\ Other' = Other /\ Clearing' = Clearing /\ Mutating'
      BY <2>0, <3>1 DEF Target, Other, Clearing, Mutating
    <3>4. OnTrack'
      BY <3>1, <3>2, <3>3 DEF OnTrack
    <3> QED
      BY <2>0, <3>1, <3>2, <3>3, <3>4 DEF OneFault, Mutating, Clearing, Target, Other
  <2> QED
    BY <2>1, <2>2
<1>7. CASE CheckCopy
  <2>0. Mutating /\ step = "check"
    BY <1>7 DEF CheckCopy
  <2>1. CASE ~ReadBack(slot[Target])
    <3>1. ReturnUncertain
      BY <1>7, <2>1 DEF CheckCopy
    <3>2. ~(IF Clearing THEN slot[Target] = Empty ELSE OnTrack)
      BY <2>0, <2>1, TrackedCopy DEF SafeInv
    <3>3. faults = 1 /\ (Absent \notin may => slot[Other].k = "valid")
      BY <1>f, <2>0, <3>2 DEF OneFault, Mutating, Clearing, SafeInv, Progress
    <3> QED
      BY <1>0, <3>1, <3>3
         DEF ReturnUncertain, Return, OneFault, Clean, SomeValid, Mutating, Clearing
  <2>2. CASE ReadBack(slot[Target])
    <3>0. Proceed
      BY <1>7, <2>2 DEF CheckCopy
    <3>1. ~Clearing => slot[Target] = rec
      BY <1>0, <1>1, <2>0, <2>2, SlotContents
         DEF ReadBack, SafeInv, TypeOK, Mutating, Clearing
    <3>2. CASE phase = "repair" /\ Deliver(rec)
      <4>1. slot[Target] = rec /\ rec.k = "valid" /\ faults = 1
        BY <3>1, <3>2 DEF Clearing, SafeInv, TypeOK, OneFault
      <4>2. CASE op = "read"
        BY <1>0, <3>2, <4>1, <4>2
           DEF Deliver, ReturnOk, Return, OneFault, Clean, SomeValid, Mutating, Clearing
      <4>3. CASE op # "read"
        BY <1>0, <3>2, <4>1, <4>3
           DEF Deliver, CommitAfter, ReturnStatus, Return, Goto, OneFault, Clean, SomeValid, OnTrack,
               Mutating, Clearing
      <4> QED
        BY <4>2, <4>3
    <3>3. CASE phase = "clearB" /\ Goto("clearA", rec) /\ UNCHANGED <<fix, may>>
      BY <2>0, <3>3 DEF Goto, OneFault, Mutating, Clearing, Target, SafeInv, Progress
    <3>4. CASE phase = "clearA" /\ ReturnOk(None, Absent)
      <4>1. faults = 0 => Clean
        BY <2>0, <3>4 DEF OneFault, Target, Clean, Empty
      <4> QED
        BY <3>4, <4>1 DEF ReturnOk, Return, OneFault, Clean, Mutating, Clearing
    <3>5. CASE phase = "clearA" /\ Goto("commitA", Record(1, arg)) /\ may' = {Absent, arg} /\ UNCHANGED fix
      BY <3>5 DEF Goto, OneFault, Mutating, Clearing, OnTrack
    <3>6. CASE phase = "commitA" /\ Goto("commitB", rec) /\ UNCHANGED <<fix, may>>
      <4>1. slot["A"] = rec /\ rec.k = "valid"
        BY <3>1, <3>6 DEF Clearing, Target, SafeInv, TypeOK
      <4> QED
        BY <3>6, <4>1 DEF Goto, OneFault, Mutating, Clearing, OnTrack, Target, Other
    <3>7. CASE phase = "commitB" /\ ReturnOk(None, arg)
      <4>1. slot["B"] = rec /\ rec.k = "valid" /\ (faults = 0 => slot["A"] = rec)
        BY <3>1, <3>7 DEF Clearing, Target, SafeInv, TypeOK, OneFault
      <4> QED
        BY <3>7, <4>1 DEF ReturnOk, Return, OneFault, Clean, SomeValid, Mutating, Clearing, Copies
    <3> QED
      BY <3>0, <3>2, <3>3, <3>4, <3>5, <3>6, <3>7 DEF Proceed
  <2> QED
    BY <2>1, <2>2
<1>8. CASE LostReply \/ PowerCut
  <2>1. phase' = "idle" /\ may' = may /\ InterruptedCall /\ faults' = 1 /\ faults = 0
    BY <1>8, <1>f, MaxFaultsAssumption DEF LostReply, PowerCut, Fault, SafeInv, TypeOK
  <2>2. Absent \notin may => SomeValid'
    <3>1. CASE ~Mutating
      BY <1>8, <2>1, <3>1 DEF InterruptedCall, OneFault, SomeValid, Mutating, LostReply, PowerCut,
                              SafeInv, TypeOK, Phases
    <3>2. CASE Mutating /\ Absent \notin may
      <4>0. phase \in {"commitA", "commitB"}
        BY <2>1, <3>2 DEF OneFault, Mutating, SafeInv, Progress
      <4>1. slot[Other].k = "valid"
        BY <2>1, <3>2, <4>0 DEF OneFault, SafeInv, TypeOK, Target, Other
      <4>2. slot'[Other] = slot[Other]
        BY <1>0, <2>1, <3>2 DEF InterruptedCall, SafeInv, TypeOK
      <4> QED
        BY <1>0, <4>1, <4>2 DEF SomeValid
    <3> QED
      BY <3>1, <3>2
  <2> QED
    BY <2>1, <2>2 DEF OneFault, Mutating, Clearing
<1>9. CASE Reboot
  BY <1>9 DEF Reboot, pairVars, OneFault, OnTrack, SomeValid, Clean, Mutating, Clearing, Target, Other
<1>10. ASSUME NEW s \in Copies, Damage(s) PROVE OneFault'
  <2>1. faults = 0 /\ faults' = 1 /\ UNCHANGED <<pairVars, may>>
    BY <1>10, <1>f, MaxFaultsAssumption DEF Damage, Fault
  <2>2. PICK x : slot' = [slot EXCEPT ![s] = x]
    BY <1>10 DEF Damage
  <2>3. \A c \in Copies : c # s => slot'[c] = slot[c]
    BY <2>2 DEF SafeInv, TypeOK
  <2>4. Target' = Target /\ Other' = Other /\ Clearing' = Clearing /\ Mutating' = Mutating
    BY <2>1 DEF Target, Other, Clearing, Mutating, pairVars
  <2>5. phase # "repair"
    BY <2>1 DEF OneFault
  <2>6. phase \in {"idle", "readA", "readB"} /\ Absent \notin may =>
           slot["A"] = slot["B"] /\ slot["A"].k = "valid"
    BY <2>1 DEF OneFault, Clean, SomeValid, Copies
  <2>7. phase \in {"idle", "readA", "readB"} /\ Absent \notin may => SomeValid'
    BY <2>3, <2>6 DEF SomeValid, Copies
  <2>8. phase = "readB" /\ Absent \notin may =>
           bufA.k = "valid" /\ (slot'["A"] = bufA \/ slot'["B"] = bufA)
    BY <2>1, <2>3, <2>6 DEF OneFault, Copies
  <2>9. phase \in {"commitA", "commitB"} /\ Absent \notin may => slot'[Other].k = "valid" \/ OnTrack'
    <3>1. CASE s = Target
      BY <1>0, <2>1, <2>3, <3>1 DEF OneFault, Target, Other, SafeInv, TypeOK
    <3>2. CASE s # Target
      BY <1>0, <2>1, <2>3, <2>4, <3>2 DEF OneFault, OnTrack, Mutating, Clearing, pairVars
    <3> QED
      BY <3>1, <3>2
  <2> QED
    BY <2>1, <2>4, <2>5, <2>7, <2>8, <2>9 DEF OneFault, pairVars
<1>11. ASSUME NEW s \in Copies, Revive(s) PROVE OneFault'
  <2>1. faults' = faults /\ UNCHANGED <<pairVars, may>> /\ slot[s].k = "masked"
    BY <1>11 DEF Revive
  <2>2. slot' = [slot EXCEPT ![s] = Unmask(slot[s])]
    BY <1>11 DEF Revive
  <2>3. (\A c \in Copies : c # s => slot'[c] = slot[c]) /\ slot'[s].k = "valid"
    BY <1>1, <2>1, <2>2, DamagedKinds DEF SafeInv, TypeOK
  <2>4. Target' = Target /\ Other' = Other /\ Clearing' = Clearing /\ Mutating' = Mutating
    BY <2>1 DEF Target, Other, Clearing, Mutating, pairVars
  <2>5. \A c \in Copies : slot[c].k # "masked" => slot'[c] = slot[c]
    BY <2>1, <2>3
  <2>6. SomeValid'
    BY <2>3 DEF SomeValid
  <2>7. Mutating /\ ~Clearing /\ OnTrack => OnTrack'
    BY <1>0, <2>1, <2>4, <2>5
       DEF OnTrack, Empty, SafeInv, TypeOK, pairVars, Mutating, Clearing
  <2>8. slot[Other].k = "valid" => slot'[Other].k = "valid"
    BY <1>0, <2>5
  <2>9. slot[Target] = Empty => slot'[Target] = Empty
    BY <1>0, <2>5 DEF Empty
  <2>10. phase \in {"idle", "readA", "readB"} => faults # 0
    BY <2>1 DEF OneFault, Clean, Copies
  <2>11. /\ phase = "clearA" /\ faults = 0 => slot'["B"] = Empty
         /\ phase = "commitB" /\ faults = 0 => slot'["A"] = rec
         /\ phase = "commitA" /\ faults = 0 /\ Absent \notin may => slot'["B"].k = "valid"
    BY <2>5 DEF OneFault, Empty, Copies, SafeInv, TypeOK
  <2>12. phase = "readB" /\ Absent \notin may =>
           /\ bufA.k = "valid" \/ slot'["B"].k = "valid"
           /\ bufA.k = "valid" => slot'["A"] = bufA \/ slot'["B"] = bufA
    BY <2>5 DEF OneFault, Copies
  <2> QED
    BY <2>1, <2>4, <2>6, <2>7, <2>8, <2>9, <2>10, <2>11, <2>12
       DEF OneFault, pairVars, Mutating, Clearing
<1>12. CASE UNCHANGED vars
  BY <1>12 DEF vars, OneFault, OnTrack, SomeValid, Clean, Mutating, Clearing, Target, Other
<1> QED
  BY <1>2, <1>3, <1>4, <1>5, <1>6, <1>7, <1>8, <1>9, <1>10, <1>11, <1>12
     DEF Next, ChipCall, Environment

(* Two empty slots are clean. *)
LEMMA OneFaultInit == Init => OneFault
BY DEF Init, OneFault, Clean, Empty, Copies, Mutating, Clearing

(* rec_pair_read accepts two copies of which one is valid, unless they     *)
(* contradict each other.                                                  *)
LEMMA SomeValidReadsOk ==
    ASSUME SafeInv, SomeValid
    PROVE  Decide(View(slot["A"]), View(slot["B"])).st = "OK"
<1> DEFINE a == View(slot["A"])
           b == View(slot["B"])
<1>1. slot["A"] \in Slots /\ slot["B"] \in Slots
  BY DEF SafeInv, TypeOK, Copies
<1>2. a.k = "valid" \/ b.k = "valid"
  BY <1>1, DamagedKinds DEF SomeValid, Copies
<1>3. a.k = "valid" /\ b.k = "valid" =>
        /\ a = slot["A"] /\ b = slot["B"]
        /\ a = b \/ a.g = b.g + 1 \/ b.g = a.g + 1
        /\ a.g \in 1..MaxGen /\ b.g \in 1..MaxGen
  <2> HAVE a.k = "valid" /\ b.k = "valid"
  <2>1. a = slot["A"] /\ b = slot["B"]
    BY <1>1, SlotContents
  <2>2. a.g \in 1..MaxGen /\ b.g \in 1..MaxGen
    BY <1>1, <2>1, SlotContents DEF Holds
  <2>3. a.g = b.g /\ a.v = b.v => a = b
    BY <1>1, <2>1 DEF Slots, Empty, Bad
  <2> QED
    BY <2>1, <2>2, <2>3 DEF SafeInv, NoContradiction, Holds, Copies
<1> HIDE DEF a, b
<1> QED
  BY <1>2, <1>3, MaxGenAssumption DEF Decide, Verdict, a, b

(* With at most one fault between two clean states, an object that exists  *)
(* and is not being cleared or re-initialised is read by the next boot:    *)
(* one damaged slot, cut or lost reply never makes rec_pair_read say       *)
(* ABSENT or CORRUPT of it.                                                *)
THEOREM DurableUnderOneFault == Spec => []Durable
<1>1. Init => OneFaultInv
  BY SafeInit, OneFaultInit DEF OneFaultInv
<1>2. OneFaultInv /\ [Next]_vars => OneFaultInv'
  BY SafeStep, OneFaultStep DEF OneFaultInv
<1>3. OneFaultInv => Durable
  BY SomeValidReadsOk DEF OneFaultInv, OneFault, Durable
<1> QED
  BY <1>1, <1>2, <1>3, PTL DEF Spec

-----------------------------------------------------------------------------
(* The pair implements the atomic record of rec_pair.h. *)

(* Delivering a winner w that the object may have is an acknowledged read, *)
(* a refused write, or the start of a write.                               *)
LEMMA DeliverRefines ==
    ASSUME TypeOK, NEW w \in Slots, w.k = "valid", w.v \in may, op \in {"read", "write"}, Deliver(w)
    PROVE  Register!Next
<1>0. w.v \in may \ {Absent} /\ op # "none"
  BY PayloadsAssumption, SlotContents DEF Holds
<1>1. CASE op = "read"
  <2>1. Register!ReadOk
    BY <1>0, <1>1 DEF Deliver, ReturnOk, Return, Result, Register!ReadOk, Register!Return, Register!Result
  <2> QED
    BY <2>1 DEF Register!Next
<1>2. CASE op = "write" /\ w.g = MaxGen
  <2>1. Register!Fail
    BY <1>0, <1>2 DEF Deliver, CommitAfter, ReturnStatus, Return, Result,
                      Register!Fail, Register!Return, Register!Result
  <2> QED
    BY <2>1 DEF Register!Next
<1>3. CASE op = "write" /\ w.g # MaxGen
  <2>1. Register!Submit
    BY <1>0, <1>3 DEF Deliver, CommitAfter, Goto, Register!Submit
  <2> QED
    BY <2>1 DEF Register!Next
<1> QED
  BY <1>1, <1>2, <1>3

(* Every step of rec_pair.c is a step of the atomic record or a stutter. *)
LEMMA RefinementStep ==
    ASSUME SafeInv, OneFault, [Next]_vars
    PROVE  [Register!Next]_Register!vars
<1> USE DEF Register!vars
<1>1. CASE Call
  <2>1. CASE uncertain \/ RefuseArgs
    <3>1. phase = "idle" /\ ret' = Result("ERROR", None) /\ UNCHANGED <<op, arg, may>>
      BY <1>1, <2>1 DEF Call, rec_pair_read, rec_pair_write, rec_pair_init, rec_pair_clear, RefuseArgs,
                        Begin, pairVars
    <3>2. op = "none"
      BY <3>1 DEF SafeInv, Progress
    <3>3. Register!Refuse
      BY <3>1, <3>2 DEF Register!Refuse, Result, Register!Result
    <3> QED
      BY <3>3 DEF Register!Next
  <2>2. CASE ~(uncertain \/ RefuseArgs)
    <3>1. phase = "idle" /\ op = "none"
      BY <1>1 DEF Call, rec_pair_read, rec_pair_write, rec_pair_init, rec_pair_clear, RefuseArgs, Begin,
                  SafeInv, Progress
    <3>2. PICK o \in Ops : /\ op' = o /\ arg' \in Payloads \cup {None} /\ ret' = Result("BUSY", None)
                           /\ may' = IF o \in {"read", "write"} THEN may ELSE may \cup {Absent}
      BY <1>1, <2>2 DEF Call, rec_pair_read, rec_pair_write, rec_pair_init, rec_pair_clear, Begin, Ops
    <3>3. Register!Start(o)
      BY <3>1, <3>2 DEF Register!Start, Result, Register!Result
    <3> QED
      BY <3>2, <3>3 DEF Register!Next, Ops, Register!Ops
  <2> QED
    BY <2>1, <2>2
<1>2. CASE ReadA
  BY <1>2 DEF ReadA
<1>3. CASE ReadB
  <2> DEFINE d == Decide(bufA, View(slot["B"]))
  <2>0. phase = "readB" /\ op \in {"read", "write"} /\ op # "none"
    BY <1>3 DEF ReadB, SafeInv, TypeOK
  <2>1. CASE ReturnStatus("ERROR")
    <3>1. Register!Fail
      BY <2>0, <2>1 DEF ReturnStatus, Return, Result, Register!Fail, Register!Return, Register!Result
    <3> QED
      BY <3>1 DEF Register!Next
  <2>2. CASE d.st # "OK" /\ d.st # "ERROR" /\ ReturnStatus(d.st)
    <3>1. bufA \in Slots /\ View(slot["B"]) \in Slots /\ slot["B"] \in Slots
      BY SlotValues DEF SafeInv, TypeOK, Copies
    <3>2. d.st \in {"ABSENT", "CORRUPT"}
      BY <2>2, <3>1, VerdictType DEF Statuses
    <3>3. bufA.k # "valid" /\ View(slot["B"]).k # "valid"
      BY <3>2 DEF Decide, Verdict
    <3>4. slot["B"].k # "valid"
      BY <3>1, <3>3, DamagedKinds
    <3>5. Absent \in may
      BY <2>0, <3>3, <3>4 DEF OneFault
    <3>6. Register!NotThere
      BY <2>0, <2>2, <3>2, <3>5
         DEF ReturnStatus, Return, Result, Register!NotThere, Register!Return, Register!Result
    <3> QED
      BY <3>6 DEF Register!Next
  <2>3. CASE d.st = "OK" /\ d.repair = "none" /\ Deliver(d.win)
    BY <2>0, <2>3, WinnerStep, DeliverRefines DEF SafeInv
  <2>4. CASE Goto("repair", d.win) /\ UNCHANGED may
    BY <2>4 DEF Goto
  <2> QED
    BY <1>3, <2>1, <2>2, <2>3, <2>4 DEF ReadB
<1>4. CASE ReturnUncertain
  <2>1. op # "none" => Register!Fail
    BY <1>4 DEF ReturnUncertain, Return, Result, Register!Fail, Register!Return, Register!Result
  <2>2. op = "none" => Register!Refuse
    BY <1>4 DEF ReturnUncertain, Return, Result, Register!Refuse, Register!Result
  <2> QED
    BY <2>1, <2>2 DEF Register!Next
<1>5. CASE EraseCopy
  BY <1>5 DEF EraseCopy
<1>6. CASE WriteCopy
  BY <1>4, <1>6 DEF WriteCopy
<1>7. CASE CheckCopy
  <2>0. Mutating /\ step = "check" /\ (ReturnUncertain \/ Proceed)
    BY <1>7 DEF CheckCopy
  <2>1. CASE phase = "repair" /\ Deliver(rec)
    <3>1. rec \in Slots /\ rec.k = "valid" /\ rec.v \in may /\ op \in {"read", "write"}
      BY <2>1 DEF SafeInv, TypeOK, Progress
    <3> QED
      BY <2>1, <3>1, DeliverRefines DEF SafeInv
  <2>2. CASE \E p \in Phases : Goto(p, rec) /\ UNCHANGED <<fix, may>>
    BY <2>2 DEF Goto
  <2>3. CASE op = "clear" /\ ReturnOk(None, Absent)
    <3>1. Register!ClearOk
      BY <2>3 DEF ReturnOk, Return, Result, Register!ClearOk, Register!Return, Register!Result
    <3> QED
      BY <3>1 DEF Register!Next
  <2>4. CASE op = "init" /\ Goto("commitA", Record(1, arg)) /\ may' = {Absent, arg}
    <3>1. Register!Submit
      BY <2>4 DEF Goto, Register!Submit
    <3> QED
      BY <3>1 DEF Register!Next
  <2>5. CASE phase = "commitB" /\ ReturnOk(None, arg)
    <3>1. op \in {"write", "init"} /\ arg \in may
      BY <2>5 DEF SafeInv, TypeOK, Progress
    <3>2. Register!WriteOk
      BY <2>5, <3>1 DEF ReturnOk, Return, Result, Register!WriteOk, Register!Return, Register!Result
    <3> QED
      BY <3>2 DEF Register!Next
  <2> QED
    BY <1>4, <2>0, <2>1, <2>2, <2>3, <2>4, <2>5 DEF Proceed, Phases
<1>8. CASE LostReply
  <2>1. op # "none"
    BY <1>8 DEF LostReply, SafeInv, Progress
  <2>2. Register!Fail
    BY <1>8, <2>1 DEF LostReply, Result, Register!Fail, Register!Return, Register!Result
  <2> QED
    BY <2>2 DEF Register!Next
<1>9. CASE PowerCut \/ Reboot
  <2>1. op' = "none"
    BY <1>9 DEF PowerCut, Reboot, pairVars, SafeInv, Progress
  <2>2. Register!Crash
    BY <1>9, <2>1 DEF PowerCut, Reboot, pairVars, Result, Register!Crash, Register!Result
  <2> QED
    BY <2>2 DEF Register!Next
<1>10. ASSUME NEW s \in Copies, Damage(s) \/ Revive(s) PROVE UNCHANGED Register!vars
  BY <1>10 DEF Damage, Revive, pairVars
<1>11. CASE UNCHANGED vars
  BY <1>11 DEF vars
<1> QED
  BY <1>1, <1>2, <1>3, <1>5, <1>6, <1>7, <1>8, <1>9, <1>10, <1>11 DEF Next, ChipCall, Environment

(* With at most one fault between two clean states, rec_pair.c implements  *)
(* the atomic record: every call it acknowledges, refuses or loses is one  *)
(* the abstract specification allows.                                      *)
THEOREM Refinement == ASSUME MaxFaults <= 1 PROVE Spec => ImplementsAtomicRecord
<1>1. Init => Register!Init
  BY DEF Init, Result, Register!Init, Register!Result
<1>2. Init => SafeInv /\ OneFault
  BY SafeInit, OneFaultInit
<1>3. SafeInv /\ OneFault /\ [Next]_vars => (SafeInv /\ OneFault)'
  BY SafeStep, OneFaultStep
<1>4. SafeInv /\ OneFault /\ [Next]_vars => [Register!Next]_Register!vars
  BY RefinementStep
<1> QED
  BY <1>1, <1>2, <1>3, <1>4, PTL DEF Spec, ImplementsAtomicRecord, Register!Spec
=============================================================================
