---------------------------- MODULE AtomicRecord ----------------------------
(***************************************************************************)
(* What rec_pair.h promises its callers: one object whose value changes    *)
(* atomically although calls fail and power is lost.  The state is the set *)
(* may of values that the object may have.  A write adds its payload to    *)
(* that set, an acknowledgement or a successful read reduces it to one     *)
(* value, and nothing brings back a value that has left it.                *)
(***************************************************************************)
CONSTANTS
    Payloads,   \* payloads a caller writes
    None,       \* no payload
    Absent      \* the value of an object that does not exist

VARIABLES
    op,         \* the call in progress
    arg,        \* its payload
    ret,        \* what the last call returned
    may         \* the values the object may have

vars == <<op, arg, ret, may>>

Ops == {"read", "write", "init", "clear"}
Result(st, v) == [st |-> st, v |-> v]

Init ==
    /\ op = "none"
    /\ arg = None
    /\ ret = Result("CUT", None)
    /\ may = {Absent}

(* A call starts.  Clearing and initialising may leave no object at all. *)
Start(o) ==
    /\ op = "none"
    /\ op' = o
    /\ arg' \in Payloads \cup {None}
    /\ ret' = Result("BUSY", None)
    /\ may' = IF o \in {"read", "write"} THEN may ELSE may \cup {Absent}

(* A call is refused before it does anything. *)
Refuse ==
    /\ op = "none"
    /\ ret' = Result("ERROR", None)
    /\ UNCHANGED <<op, arg, may>>

(* A write is under way: the object has its old value or the new one. *)
Submit ==
    /\ \/ /\ op = "write"
          /\ \E v \in may \ {Absent} : may' = {v, arg}
       \/ /\ op = "init"
          /\ may' = {Absent, arg}
    /\ UNCHANGED <<op, arg, ret>>

Return(st, v) ==
    /\ op # "none"
    /\ op' = "none"
    /\ ret' = Result(st, v)
    /\ UNCHANGED arg

(* Acknowledgements: from here on the object has exactly this value. *)
ReadOk == op = "read" /\ \E v \in may \ {Absent} : Return("OK", v) /\ may' = {v}
WriteOk == op \in {"write", "init"} /\ arg \in may /\ Return("OK", None) /\ may' = {arg}
ClearOk == op = "clear" /\ Return("OK", None) /\ may' = {Absent}

(* Without an object there is nothing to read or to replace. *)
NotThere ==
    /\ op \in {"read", "write"}
    /\ Absent \in may
    /\ \E st \in {"ABSENT", "CORRUPT"} : Return(st, None)
    /\ UNCHANGED may

Fail == Return("ERROR", None) /\ UNCHANGED may

(* Power is lost, during a call or between two. *)
Crash ==
    /\ op' = "none"
    /\ ret' = Result("CUT", None)
    /\ UNCHANGED <<arg, may>>

Next ==
    \/ \E o \in Ops : Start(o)
    \/ Refuse \/ Submit \/ ReadOk \/ WriteOk \/ ClearOk \/ NotThere \/ Fail \/ Crash

Spec == Init /\ [][Next]_vars
=============================================================================
