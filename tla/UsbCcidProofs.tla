--------------------------- MODULE UsbCcidProofs ----------------------------
(***************************************************************************)
(* Proofs about the CCID transport of UsbCcid, for any number of requests  *)
(* and bus resets.                                                         *)
(***************************************************************************)
EXTENDS UsbCcid, TLAPS

-----------------------------------------------------------------------------
(* The inductive invariant. *)

(* TypeOK in two parts: the flags, and everything else. *)
Flags == itf \in BOOLEAN /\ pending \in BOOLEAN /\ processing \in BOOLEAN

Data ==
    /\ out \in {"closed", "idle", "armed"}
    /\ in \in Requests \cup {None} /\ rx \in Requests \cup {None}
    /\ tx \in Requests \cup {None} /\ cur \in Requests \cup {None}
    /\ epoch \in 0 .. MaxResets /\ snap \in 0 .. MaxResets
    /\ pc \in {"main", "run", "wait", "end"}
    /\ access \in (0 .. MaxResets) \cup {None}
    /\ sent \in 0 .. MaxSent

(* While an APDU runs it owns s_rx_buf, and OUT stays unarmed. *)
Owns ==
    /\ processing <=> pc # "main"
    /\ processing =>
         /\ rx # None /\ cur = rx /\ rx.sess = snap /\ snap <= epoch
         /\ ~pending /\ out # "armed" /\ in = None
    /\ processing /\ snap = epoch => itf
    /\ pc = "run" => snap = epoch
    /\ pending => rx # None /\ rx.sess = epoch /\ out = "idle" /\ itf

(* What s_tx_buf holds. *)
Holds ==
    /\ pc \in {"run", "wait"} => tx = None
    /\ pc = "end" => tx \in {None, rx}
    /\ pc = "main" => tx = in

(* The endpoints follow the configuration. *)
Configured ==
    /\ out = "armed" => itf
    /\ ~itf => out = "closed" /\ in = None

Inv == Data /\ Owns /\ Holds /\ Configured /\ NothingCrosses /\ Listens

LEMMA InvInit == Init => Inv
<1> SUFFICES ASSUME Init PROVE Inv
  OBVIOUS
<1>1. Data
  BY BoundsAssumption DEF Init, Data
<1>2. Owns /\ Holds /\ Configured /\ NothingCrosses /\ Listens
  BY DEF Init, Owns, Holds, Configured, NothingCrosses, Listens
<1> QED
  BY <1>1, <1>2 DEF Inv

LEMMA ResetStep == Inv /\ ccid_reset => Inv'
<1> SUFFICES ASSUME Inv, ccid_reset PROVE Inv'
  OBVIOUS
<1> USE BoundsAssumption DEF Inv, ccid_reset, taskVars, UsbRuns
<1>1. Data'
  BY DEF Data
<1>2. Owns'
  BY DEF Owns, Data
<1>3. (Holds /\ Configured /\ NothingCrosses /\ Listens)'
  BY DEF Holds, Configured, NothingCrosses, Listens, Owns, Data
<1> QED
  BY <1>1, <1>2, <1>3

LEMMA OpenStep == Inv /\ ccid_open => Inv'
<1> SUFFICES ASSUME Inv, ccid_open PROVE Inv'
  OBVIOUS
<1> USE DEF Inv, ccid_open, taskVars, UsbRuns
<1>1. Data'
  BY DEF Data
<1>2. (Owns /\ Holds /\ Configured /\ NothingCrosses /\ Listens)'
  BY DEF Owns, Holds, Configured, NothingCrosses, Listens, Data
<1> QED
  BY <1>1, <1>2

LEMMA ReceivedStep == Inv /\ Received => Inv'
<1> SUFFICES ASSUME Inv, Received PROVE Inv'
  OBVIOUS
<1>1. rx' \in Requests /\ rx'.sess = epoch
  BY BoundsAssumption DEF Inv, Received, Data, Requests
<1>2. Data'
  BY <1>1, BoundsAssumption DEF Inv, Received, taskVars, Data
<1>3. (Owns /\ Holds /\ Configured /\ NothingCrosses /\ Listens)'
  BY <1>1, NoneAssumption
     DEF Inv, Received, taskVars, UsbRuns, Owns, Holds, Configured, NothingCrosses, Listens
<1> QED
  BY <1>2, <1>3 DEF Inv

LEMMA DeliveredStep == Inv /\ Delivered => Inv'
<1> SUFFICES ASSUME Inv, Delivered PROVE Inv'
  OBVIOUS
<1> USE DEF Inv, Delivered, taskVars, UsbRuns
<1>1. Data'
  BY DEF Data
<1>2. (Owns /\ Holds /\ Configured /\ NothingCrosses /\ Listens)'
  BY DEF Owns, Holds, Configured, NothingCrosses, Listens, Data
<1> QED
  BY <1>1, <1>2

LEMMA TakeStep == Inv /\ Take => Inv'
<1> SUFFICES ASSUME Inv, Take PROVE Inv'
  OBVIOUS
<1> USE DEF Inv, Take, usbVars
<1>1. Data'
  BY DEF Data
<1>2. (Owns /\ Holds /\ Configured /\ NothingCrosses /\ Listens)'
  BY DEF Owns, Holds, Configured, NothingCrosses, Listens, Data
<1> QED
  BY <1>1, <1>2

LEMMA ProcessStep == Inv /\ (process_message \/ TouchEnds) => Inv'
<1> SUFFICES ASSUME Inv, process_message \/ TouchEnds PROVE Inv'
  OBVIOUS
<1> USE DEF Inv, process_message, TouchEnds, usbVars
<1>1. Data'
  BY DEF Data, Owns
<1>2. (Owns /\ Holds /\ Configured /\ NothingCrosses /\ Listens)'
  BY DEF Owns, Holds, Configured, NothingCrosses, Listens, Data
<1> QED
  BY <1>1, <1>2

LEMMA FinishStep == Inv /\ Finish => Inv'
<1> SUFFICES ASSUME Inv, Finish PROVE Inv'
  OBVIOUS
<1> USE DEF Inv, Finish
<1>1. Data'
  BY DEF Data
<1>2. Owns' /\ Holds'
  BY DEF Owns, Holds
<1>3. Configured' /\ Listens'
  BY DEF Owns, Configured, Listens
<1>4. NothingCrosses'
  BY DEF Owns, Holds, NothingCrosses
<1> QED
  BY <1>1, <1>2, <1>3, <1>4

LEMMA InvNext == Inv /\ [Next]_vars => Inv'
<1>1. ASSUME Inv, Next PROVE Inv'
  BY <1>1, ResetStep, OpenStep, ReceivedStep, DeliveredStep, TakeStep, ProcessStep, FinishStep
     DEF Next, Task, Bus
<1>2. ASSUME Inv, UNCHANGED vars PROVE Inv'
  BY <1>2 DEF vars, Inv, Data, Owns, Holds, Configured, NothingCrosses, Listens
<1> QED
  BY <1>1, <1>2

LEMMA FlagsNext == Flags /\ [Next]_vars => Flags'
<1> SUFFICES ASSUME Flags, [Next]_vars PROVE Flags'
  OBVIOUS
<1> USE DEF Flags
<1>1. CASE ccid_reset \/ ccid_open
  BY <1>1, Zenon DEF ccid_reset, ccid_open, taskVars
<1>2. CASE Received \/ Delivered
  BY <1>2, Zenon DEF Received, Delivered, taskVars
<1>3. CASE Take \/ process_message
  BY <1>3, Zenon DEF Take, process_message, usbVars
<1>4. CASE TouchEnds \/ Finish
  BY <1>4, Zenon DEF TouchEnds, Finish, usbVars
<1>5. CASE UNCHANGED vars
  BY <1>5, Zenon DEF vars
<1> QED
  BY <1>1, <1>2, <1>3, <1>4, <1>5 DEF Next, Task, Bus

-----------------------------------------------------------------------------
(* The state of usb_ccid.c keeps its types. *)
THEOREM TypeCorrect == Spec => []TypeOK
<1>1. Init => Flags
  BY DEF Init, Flags
<1>2. Inv /\ Flags => TypeOK
  BY DEF Inv, Flags, Data, TypeOK
<1> QED
  BY InvInit, InvNext, FlagsNext, <1>1, <1>2, PTL DEF Spec

(* An APDU reads the request it was given from s_rx_buf to its end,        *)
(* whatever arrives or is reset during its touch wait; s_tx_buf keeps the  *)
(* answer until the host has read it.                                      *)
THEOREM BuffersOwned == Spec => []BuffersStable
<1>1. Inv => BuffersStable
  BY DEF Inv, Owns, Holds, BuffersStable
<1> QED
  BY InvInit, InvNext, <1>1, PTL DEF Spec

(* No answer and no access status outlives the bus session it belongs to.  *)
THEOREM SessionsApart == Spec => []NothingCrosses
<1>1. Inv => NothingCrosses
  BY DEF Inv
<1> QED
  BY InvInit, InvNext, <1>1, PTL DEF Spec

(* Back in the main loop, a configured reader listens or has a request:    *)
(* reader and host never wait for each other.                              *)
THEOREM AlwaysListens == Spec => []Listens
<1>1. Inv => Listens
  BY DEF Inv
<1> QED
  BY InvInit, InvNext, <1>1, PTL DEF Spec

-----------------------------------------------------------------------------
(* Every step of the transport is a step of the abstract reader, or none.  *)
LEMMA RefinementStep ==
    Inv /\ [Next]_vars => [Session!Next]_Session!vars
<1> SUFFICES ASSUME Inv, [Next]_vars PROVE [Session!Next]_Session!vars
  OBVIOUS
<1> USE DEF Session!vars, Session!Next, Inv
<1>1. CASE ccid_reset
  BY <1>1 DEF ccid_reset, taskVars, Owns, Data, Session!Reset
<1>2. CASE ccid_open
  BY <1>2 DEF ccid_open, taskVars
<1>3. CASE Received
  <2>1. rx' \in Requests
    BY <1>3, BoundsAssumption DEF Received, Data, Requests
  <2> QED
    BY <1>3, <2>1, NoneAssumption DEF Received, taskVars, Owns, Session!Accept
<1>4. CASE Delivered
  BY <1>4 DEF Delivered, taskVars, Session!Read
<1>5. CASE Take
  BY <1>5 DEF Take, usbVars
<1>6. CASE process_message
  BY <1>6 DEF process_message, usbVars, Owns, Session!Work
<1>7. CASE TouchEnds
  BY <1>7 DEF TouchEnds, usbVars
<1>8. CASE Finish
  BY <1>8 DEF Finish, Owns, Holds, Session!Reply, Session!Ignore, Session!Reset
<1>9. CASE UNCHANGED vars
  BY <1>9 DEF vars
<1> QED
  BY <1>1, <1>2, <1>3, <1>4, <1>5, <1>6, <1>7, <1>8, <1>9 DEF Next, Task, Bus

(* usb_ccid.c implements the reader of CardSession: one request at a time, *)
(* each answer to the request before it, all of it ended by a bus reset.   *)
THEOREM Refinement == Spec => ImplementsCardSession
<1>1. Init => Session!Init
  BY DEF Init, Session!Init
<1> QED
  BY <1>1, InvInit, InvNext, RefinementStep, PTL DEF Spec, ImplementsCardSession, Session!Spec
=============================================================================
