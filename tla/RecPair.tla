------------------------------- MODULE RecPair -------------------------------
(***************************************************************************)
(* Mirrored R-memory records (firmware/src/tropic/rec_pair.c): one object  *)
(* kept in two write-once-until-erased slots of the secure element.  Every *)
(* chip call is one step, so that power may be cut, a reply may be lost or *)
(* a slot may be damaged between any two of them.                          *)
(*                                                                         *)
(* A record is abstracted to its generation and its payload: the header,   *)
(* the object id and the checksum only decide whether a slot's content is  *)
(* a valid record, which is what the kind k of a slot says.                *)
(***************************************************************************)
EXTENDS Integers

CONSTANTS
    Payloads,   \* payloads a caller writes
    TooLong,    \* those longer than the buffer of a reading caller
    None,       \* no payload
    Absent,     \* the value of an object that does not exist
    MaxGen,     \* UINT32_MAX
    MaxFaults   \* faults that may hit between two clean states of the pair

ASSUME PayloadsAssumption == /\ None \notin Payloads
                             /\ Absent \notin Payloads \cup {None}
                             /\ TooLong \subseteq Payloads
ASSUME MaxGenAssumption == MaxGen \in Nat \ {0}
ASSUME MaxFaultsAssumption == MaxFaults \in Nat

VARIABLES
    slot,       \* the two R-memory slots of the pair
    uncertain,  \* RAM: a write, erase or repair could not be proved
    op,         \* the call in progress
    arg,        \* its payload
    phase,      \* which copy the call works on
    step,       \* the next chip call on that copy
    bufA,       \* RAM: what slot A read as
    fix,        \* the slot a repair rewrites
    rec,        \* the record being written: the winner or the new one
    ret,        \* what the last call returned
    may,        \* history: the values the object may have
    faults      \* history: faults since the pair was last clean

pairVars == <<op, arg, phase, step, bufA, fix, rec>>
vars == <<slot, uncertain, op, arg, phase, step, bufA, fix, rec, ret, may, faults>>

Copies == {"A", "B"}
Ops == {"read", "write", "init", "clear"}
Phases == {"idle", "readA", "readB", "repair", "clearB", "clearA", "commitA", "commitB"}
Statuses == {"OK", "ABSENT", "CORRUPT", "ERROR"}

(* Contents of a slot.  "masked" holds a record and reads empty: the chip  *)
(* reports a failed decryption as length 0.                                *)
Empty == [k |-> "empty", g |-> 0, v |-> None]
Bad == [k |-> "bad", g |-> 0, v |-> None]
Slots == {Empty, Bad} \cup [k : {"valid", "masked"}, g : 1..MaxGen, v : Payloads]
Record(g, v) == [k |-> "valid", g |-> g, v |-> v]
Mask(x) == [x EXCEPT !.k = "masked"]
Unmask(x) == [x EXCEPT !.k = "valid"]

(* read_copy: what a slot reads as. *)
View(x) == IF x.k = "masked" THEN Empty ELSE x

(***************************************************************************)
(* rec_pair_read's rules: the status, the winning copy and, when the other *)
(* copy must be rewritten from it, which one.                              *)
(***************************************************************************)
Verdict(st, win, repair) == [st |-> st, win |-> win, repair |-> repair]

Decide(a, b) ==
    CASE a.k = "valid" /\ b.k = "valid" /\ a.g = b.g ->
            IF a = b THEN Verdict("OK", a, "none") ELSE Verdict("ERROR", Empty, "none")
      [] a.k = "valid" /\ b.k = "valid" /\ a.g = b.g + 1 -> Verdict("OK", a, "B")
      [] a.k = "valid" /\ b.k = "valid" /\ b.g = a.g + 1 -> Verdict("OK", b, "A")
      [] a.k = "valid" /\ b.k # "valid" -> Verdict("OK", a, "B")
      [] a.k # "valid" /\ b.k = "valid" -> Verdict("OK", b, "A")
      [] a.k = "empty" /\ b.k = "empty" -> Verdict("ABSENT", Empty, "none")
      [] a.k # "valid" /\ b.k # "valid" /\ ~(a.k = "empty" /\ b.k = "empty") ->
            Verdict("CORRUPT", Empty, "none")
      [] OTHER -> Verdict("ERROR", Empty, "none")

-----------------------------------------------------------------------------
(* The slot the current phase works on. *)
Target == CASE phase \in {"commitA", "clearA"} -> "A"
            [] phase \in {"commitB", "clearB"} -> "B"
            [] OTHER -> fix

Clearing == phase \in {"clearA", "clearB"}
Mutating == phase \in {"repair", "clearA", "clearB", "commitA", "commitB"}

(* Both copies hold the same record, or neither holds anything. *)
Clean == slot["A"] = slot["B"] /\ slot["A"].k \in {"valid", "empty"}

Result(st, v) == [st |-> st, v |-> v]

(* The call returns. *)
Return(st, v) ==
    /\ op' = "none"
    /\ phase' = "idle"
    /\ ret' = Result(st, v)
    /\ UNCHANGED <<slot, arg, step, bufA, fix, rec>>

ReturnOk(v, value) ==
    /\ Return("OK", v)
    /\ may' = {value}
    /\ faults' = IF Clean THEN 0 ELSE faults
    /\ UNCHANGED uncertain

ReturnStatus(st) ==
    /\ Return(st, None)
    /\ UNCHANGED <<uncertain, may, faults>>

(* uncertain(): refuse everything until the next boot. *)
ReturnUncertain ==
    /\ Return("ERROR", None)
    /\ uncertain' = TRUE
    /\ UNCHANGED <<may, faults>>

Goto(p, r) ==
    /\ phase' = p
    /\ step' = "erase"
    /\ rec' = r
    /\ UNCHANGED <<slot, uncertain, op, arg, bufA, ret, faults>>

(* commit_both for rec_pair_write, once the pair has read OK with win. *)
CommitAfter(win) ==
    IF win.g = MaxGen
      THEN ReturnStatus("ERROR")
      ELSE /\ Goto("commitA", Record(win.g + 1, arg))
           /\ may' = {win.v, arg}
           /\ UNCHANGED fix

(* rec_pair_read has its answer: return it, or go on with the write. *)
Deliver(win) ==
    IF op = "read" THEN ReturnOk(win.v, win.v) ELSE CommitAfter(win)

-----------------------------------------------------------------------------
(* Calls.  rec_pair_read and rec_pair_write start by reading copy A;       *)
(* rec_pair_clear and rec_pair_init by erasing copy B.                     *)
Begin(o, v) ==
    /\ phase = "idle"
    /\ IF uncertain
         THEN /\ ret' = Result("ERROR", None)
              /\ UNCHANGED <<slot, uncertain, pairVars, may, faults>>
         ELSE /\ op' = o
              /\ arg' = v
              /\ phase' = IF o \in {"read", "write"} THEN "readA" ELSE "clearB"
              /\ step' = "erase"
              /\ ret' = Result("BUSY", None)
              /\ may' = IF o \in {"read", "write"} THEN may ELSE may \cup {Absent}
              /\ UNCHANGED <<slot, uncertain, bufA, fix, rec, faults>>

rec_pair_read == Begin("read", None)
rec_pair_write == \E v \in Payloads : Begin("write", v)
rec_pair_init == \E v \in Payloads : Begin("init", v)
rec_pair_clear == Begin("clear", None)

(* bad_args: refused before any chip call. *)
RefuseArgs ==
    /\ phase = "idle"
    /\ ret' = Result("ERROR", None)
    /\ UNCHANGED <<slot, uncertain, pairVars, may, faults>>

ReadA ==
    /\ phase = "readA"
    /\ bufA' = View(slot["A"])
    /\ phase' = "readB"
    /\ UNCHANGED <<slot, uncertain, op, arg, step, fix, rec, ret, may, faults>>

ReadB ==
    /\ phase = "readB"
    /\ LET d == Decide(bufA, View(slot["B"])) IN
         \/ /\ d.st # "OK"
            /\ ReturnStatus(d.st)
         \/ /\ d.st = "OK" /\ op = "read" /\ d.win.v \in TooLong
            /\ ReturnStatus("ERROR")
         \/ /\ d.st = "OK" /\ ~(op = "read" /\ d.win.v \in TooLong)
            /\ IF d.repair = "none"
                 THEN Deliver(d.win)
                 ELSE /\ Goto("repair", d.win)
                      /\ fix' = d.repair
                      /\ UNCHANGED may

(* Mutant: a commit erases both copies before it writes the first. *)
EraseBoth ==
    /\ Mutating /\ step = "erase"
    /\ slot' = IF phase = "commitA" THEN [s \in Copies |-> Empty]
                                    ELSE [slot EXCEPT ![Target] = Empty]
    /\ step' = IF Clearing THEN "check" ELSE "write"
    /\ UNCHANGED <<uncertain, op, arg, phase, bufA, fix, rec, ret, may, faults>>

(* The chip calls of commit_copy and erase_checked. *)
EraseCopy ==
    /\ Mutating /\ step = "erase"
    /\ slot' = [slot EXCEPT ![Target] = Empty]
    /\ step' = IF Clearing THEN "check" ELSE "write"
    /\ UNCHANGED <<uncertain, op, arg, phase, bufA, fix, rec, ret, may, faults>>

WriteCopy ==
    /\ Mutating /\ step = "write"
    /\ IF slot[Target].k = "empty"
         THEN /\ slot' = [slot EXCEPT ![Target] = rec]
              /\ step' = "check"
              /\ UNCHANGED <<uncertain, op, arg, phase, bufA, fix, rec, ret, may, faults>>
         ELSE ReturnUncertain       \* the chip refuses: the slot is not empty

(* Mutant: a write is acknowledged once copy A is committed. *)
ProceedWithoutB ==
    \/ /\ phase = "repair" /\ Deliver(rec)
    \/ /\ phase = "clearB" /\ Goto("clearA", rec) /\ UNCHANGED <<fix, may>>
    \/ /\ phase = "clearA" /\ op = "clear" /\ ReturnOk(None, Absent)
    \/ /\ phase = "clearA" /\ op = "init"
       /\ Goto("commitA", Record(1, arg))
       /\ may' = {Absent, arg}
       /\ UNCHANGED fix
    \/ /\ phase = "commitA" /\ ReturnOk(None, arg)

(* What follows a copy whose read-back proved the call. *)
Proceed ==
    \/ /\ phase = "repair" /\ Deliver(rec)
    \/ /\ phase = "clearB" /\ Goto("clearA", rec) /\ UNCHANGED <<fix, may>>
    \/ /\ phase = "clearA" /\ op = "clear" /\ ReturnOk(None, Absent)
    \/ /\ phase = "clearA" /\ op = "init"
       /\ Goto("commitA", Record(1, arg))
       /\ may' = {Absent, arg}
       /\ UNCHANGED fix
    \/ /\ phase = "commitA" /\ Goto("commitB", rec) /\ UNCHANGED <<fix, may>>
    \/ /\ phase = "commitB" /\ ReturnOk(None, arg)

ReadBack(x) == View(x) = (IF Clearing THEN Empty ELSE rec)

CheckCopy ==
    /\ Mutating /\ step = "check"
    /\ IF ReadBack(slot[Target]) THEN Proceed ELSE ReturnUncertain

-----------------------------------------------------------------------------
(* Faults.  A chip call that is cut or whose reply is lost has run, has    *)
(* not run, or has left the slot damaged.                                  *)
Damaged(x) == {Bad} \cup (IF x.k = "valid" THEN {Mask(x)} ELSE {})

CopyOutcomes ==
    LET now == slot[Target] IN
    CASE step = "erase" -> {now, Empty} \cup Damaged(now)
      [] step = "write" /\ now.k = "empty" -> {now, rec} \cup Damaged(rec)
      [] OTHER -> {now}

InterruptedCall ==
    IF Mutating THEN \E x \in CopyOutcomes : slot' = [slot EXCEPT ![Target] = x]
                ELSE UNCHANGED slot

Fault == faults < MaxFaults /\ faults' = faults + 1

(* The call returns an error code: nothing is retried. *)
LostReply ==
    /\ phase # "idle"
    /\ Fault
    /\ InterruptedCall
    /\ uncertain' = (uncertain \/ Mutating)
    /\ op' = "none" /\ phase' = "idle" /\ ret' = Result("ERROR", None)
    /\ UNCHANGED <<arg, step, bufA, fix, rec, may>>

PowerCut ==
    /\ phase # "idle"
    /\ Fault
    /\ InterruptedCall
    /\ uncertain' = FALSE
    /\ op' = "none" /\ phase' = "idle" /\ ret' = Result("CUT", None)
    /\ UNCHANGED <<arg, step, bufA, fix, rec, may>>

(* A power cycle between two calls only forgets the RAM flag. *)
Reboot ==
    /\ phase = "idle"
    /\ uncertain' = FALSE
    /\ ret' = Result("CUT", None)
    /\ UNCHANGED <<slot, pairVars, may, faults>>

Damage(s) ==
    /\ Fault
    /\ \E x \in Damaged(slot[s]) : slot' = [slot EXCEPT ![s] = x]
    /\ UNCHANGED <<uncertain, pairVars, ret, may>>

(* A slot that failed to decrypt reads again. *)
Revive(s) ==
    /\ slot[s].k = "masked"
    /\ slot' = [slot EXCEPT ![s] = Unmask(@)]
    /\ UNCHANGED <<uncertain, pairVars, ret, may, faults>>

-----------------------------------------------------------------------------
(* A device as delivered: both slots empty. *)
Init ==
    /\ slot = [s \in Copies |-> Empty]
    /\ uncertain = FALSE
    /\ op = "none"
    /\ arg = None
    /\ phase = "idle"
    /\ step = "erase"
    /\ bufA = Empty
    /\ fix = "B"
    /\ rec = Empty
    /\ ret = Result("CUT", None)
    /\ may = {Absent}
    /\ faults = 0

Call == rec_pair_read \/ rec_pair_write \/ rec_pair_init \/ rec_pair_clear \/ RefuseArgs
ChipCall == ReadA \/ ReadB \/ EraseCopy \/ WriteCopy \/ CheckCopy
Environment == LostReply \/ PowerCut \/ Reboot \/ \E s \in Copies : Damage(s) \/ Revive(s)

Next == Call \/ ChipCall \/ Environment

Spec == Init /\ [][Next]_vars

-----------------------------------------------------------------------------
(* Types of the pair's RAM and chip state, and which call, argument and    *)
(* record belong to a phase of rec_pair_read, _write, _init and _clear.    *)
TypeOK ==
    /\ slot \in [Copies -> Slots]
    /\ uncertain \in BOOLEAN
    /\ op \in Ops \cup {"none"}
    /\ arg \in Payloads \cup {None}
    /\ phase \in Phases
    /\ step \in {"erase", "write", "check"}
    /\ bufA \in Slots
    /\ fix \in Copies
    /\ rec \in Slots
    /\ ret \in [st : Statuses \cup {"BUSY", "CUT"}, v : Payloads \cup {None}]
    /\ may \in SUBSET (Payloads \cup {Absent})
    /\ faults \in 0..MaxFaults
    /\ op \in {"write", "init"} => arg \in Payloads
    /\ phase \in {"readA", "readB", "repair"} => op \in {"read", "write"}
    /\ phase \in {"repair", "commitA", "commitB"} => rec.k = "valid"
    /\ phase \in {"commitA", "commitB"} => op \in {"write", "init"}

Holds(x) == x.k \in {"valid", "masked"}

(* No slot of a pair ever holds a superseded record, not even one that     *)
(* reads empty and could read again later: its payload is the last one     *)
(* acknowledged or read, or one whose write has not been acknowledged.     *)
(* rec_pair_write and rec_pair_init erase both copies, whatever failed.    *)
NeverStale == \A s \in Copies : Holds(slot[s]) => slot[s].v \in may

(* The contradictions rec_pair_read calls a bug never arise: two copies of *)
(* one generation are identical, and generations differ by at most one.    *)
NoContradiction ==
    (\A s \in Copies : Holds(slot[s])) =>
        \/ slot["A"].g = slot["B"].g /\ slot["A"].v = slot["B"].v
        \/ slot["A"].g = slot["B"].g + 1
        \/ slot["B"].g = slot["A"].g + 1

(* Under one fault, an object that exists and is not being cleared or      *)
(* re-initialised reads OK at the next boot (rec_pair_read never says      *)
(* ABSENT or CORRUPT of it).                                               *)
Durable ==
    MaxFaults <= 1 /\ phase = "idle" /\ Absent \notin may
        => Decide(View(slot["A"]), View(slot["B"])).st = "OK"

Register == INSTANCE AtomicRecord

(* Under one fault the mirrored pair is an atomic record: every call of    *)
(* rec_pair.c, whatever is cut, lost or damaged, is one that rec_pair.h's  *)
(* promise allows.                                                         *)
ImplementsAtomicRecord == Register!Spec
=============================================================================
