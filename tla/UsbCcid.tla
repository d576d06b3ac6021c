------------------------------- MODULE UsbCcid -------------------------------
(***************************************************************************)
(* The CCID transport (firmware/src/usb/usb_ccid.c): one request at a time *)
(* over a bulk pair, served by the main loop.  An APDU that uses a key     *)
(* waits for a touch and runs the USB stack meanwhile, so the bus may be   *)
(* reset, and configured again, in the middle of it.                       *)
(*                                                                         *)
(* A request carries its number and the bus session it was sent in; an     *)
(* answer is the request it answers.  s_epoch counts the bus resets and is *)
(* the number of the session.  TinyUSB and the host are external.          *)
(***************************************************************************)
EXTENDS Integers

CONSTANTS
    None,       \* an empty buffer, no access
    MaxResets,  \* bound: bus resets
    MaxSent     \* bound: requests the host sends

ASSUME BoundsAssumption == MaxResets \in Nat /\ MaxSent \in Nat

(* Too short for a header; IccPowerOn and Off; XfrBlock with a VERIFY, or  *)
(* with an APDU that uses a key; every message that is answered at once.   *)
Kinds == {"short", "power", "verify", "use", "other"}

Requests == [id : 1 .. MaxSent, sess : 0 .. MaxResets, kind : Kinds]

ASSUME NoneAssumption == None \notin Requests /\ None \notin 0 .. MaxResets

VARIABLES
    itf,        \* the interface is configured (s_itf_num # FF)
    out,        \* OUT endpoint: "closed", "idle" or "armed"
    in,         \* the answer on the IN endpoint
    rx,         \* s_rx_buf
    pending,    \* s_rx_pending # 0
    tx,         \* s_tx_buf, None when s_tx_len = 0
    processing, \* s_processing
    epoch,      \* s_epoch
    snap,       \* the epoch the request was taken in
    pc,         \* main loop, or a point of usb_ccid_task
    access,     \* the session in which access was granted, or None
    cur,        \* history: the request being served
    sent        \* requests sent so far

usbVars == <<itf, out, in>>
taskVars == <<processing, snap, pc, cur>>
vars == <<itf, out, in, rx, pending, tx, processing, epoch, snap, pc, access, cur, sent>>

(* Where tud_task runs. *)
UsbRuns == pc \in {"main", "wait"}

-----------------------------------------------------------------------------
(* The bus. *)

(* Mutant: the buffers are wiped under a running APDU. *)
ResetWipes ==
    /\ UsbRuns /\ epoch < MaxResets
    /\ access' = None
    /\ epoch' = epoch + 1
    /\ rx' = None
    /\ tx' = None /\ pending' = FALSE
    /\ itf' = FALSE /\ out' = "closed" /\ in' = None
    /\ UNCHANGED <<taskVars, sent>>

(* A bus reset closes the endpoints and ends the card session. *)
ccid_reset ==
    /\ UsbRuns /\ epoch < MaxResets
    /\ access' = None
    /\ epoch' = epoch + 1
    /\ rx' = IF processing THEN rx ELSE None
    /\ tx' = None /\ pending' = FALSE
    /\ itf' = FALSE /\ out' = "closed" /\ in' = None
    /\ UNCHANGED <<taskVars, sent>>

(* OUT is not armed under a running APDU: usb_ccid_task arms it. *)
ccid_open ==
    /\ UsbRuns /\ ~itf
    /\ itf' = TRUE
    /\ out' = IF processing THEN "idle" ELSE "armed"
    /\ UNCHANGED <<in, rx, pending, tx, taskVars, epoch, access, sent>>

(* ccid_xfer_cb of OUT.  A failed transfer is armed again. *)
Received ==
    /\ UsbRuns /\ out = "armed" /\ sent < MaxSent
    /\ \E k \in Kinds : rx' = [id |-> sent + 1, sess |-> epoch, kind |-> k]
    /\ sent' = sent + 1
    /\ out' = "idle" /\ pending' = TRUE
    /\ UNCHANGED <<itf, in, tx, taskVars, epoch, access>>

(* ccid_xfer_cb of IN: the host has read the answer. *)
Delivered ==
    /\ UsbRuns /\ in # None
    /\ in' = None /\ tx' = None
    /\ UNCHANGED <<itf, out, rx, pending, taskVars, epoch, access, sent>>

-----------------------------------------------------------------------------
(* usb_ccid_task. *)

Take ==
    /\ pc = "main" /\ pending /\ in = None
    /\ pending' = FALSE /\ snap' = epoch /\ processing' = TRUE
    /\ cur' = rx /\ pc' = "run"
    /\ UNCHANGED <<usbVars, rx, tx, epoch, access, sent>>

(* process_message.  A VERIFY grants access or, when it fails, ends it; an *)
(* APDU that uses a key needs access and waits for a touch.                *)
process_message ==
    /\ pc = "run"
    /\ \/ rx.kind = "short" /\ tx' = None /\ pc' = "end" /\ UNCHANGED access
       \/ rx.kind = "power" /\ tx' = rx /\ pc' = "end" /\ access' = None
       \/ rx.kind = "verify" /\ tx' = rx /\ pc' = "end" /\ access' \in {None, rx.sess}
       \/ /\ rx.kind = "use" /\ access # None
          /\ pc' = "wait"
          /\ UNCHANGED <<tx, access>>
       \/ /\ rx.kind = "other" \/ (rx.kind = "use" /\ access = None)
          /\ tx' = rx /\ pc' = "end"
          /\ UNCHANGED access
    /\ UNCHANGED <<usbVars, rx, pending, processing, epoch, snap, cur, sent>>

(* user_presence_check ends: a press, or 15 seconds.  The APDU goes on     *)
(* with the body that is in s_rx_buf now.                                  *)
TouchEnds ==
    /\ pc = "wait"
    /\ tx' = rx /\ pc' = "end"
    /\ UNCHANGED <<usbVars, rx, pending, processing, epoch, snap, access, cur, sent>>

(* Mutant: an answer is sent whatever happened meanwhile. *)
FinishStale ==
    /\ pc = "end"
    /\ processing' = FALSE /\ rx' = None /\ pc' = "main" /\ cur' = None
    /\ in' = tx
    /\ out' = "armed"
    /\ UNCHANGED <<itf, pending, tx, epoch, snap, access, sent>>

(* Mutant: OUT is armed only when there is no answer to read. *)
FinishListensLate ==
    /\ pc = "end"
    /\ processing' = FALSE /\ rx' = None /\ pc' = "main" /\ cur' = None
    /\ IF snap # epoch
         THEN access' = None /\ tx' = None /\ UNCHANGED in
         ELSE in' = tx /\ UNCHANGED <<tx, access>>
    /\ out' = IF itf /\ in' = None THEN "armed" ELSE out
    /\ UNCHANGED <<itf, pending, epoch, snap, sent>>

(* The bus was reset during the APDU: its answer, and whatever access it   *)
(* granted, are dropped.  Otherwise the answer goes out, unless TinyUSB    *)
(* refuses it.  The reader listens again at once.                          *)
Finish ==
    /\ pc = "end"
    /\ processing' = FALSE /\ rx' = None /\ pc' = "main" /\ cur' = None
    /\ \/ snap # epoch /\ access' = None /\ tx' = None /\ UNCHANGED in
       \/ snap = epoch /\ in' = tx /\ UNCHANGED <<tx, access>>
       \/ snap = epoch /\ tx # None /\ tx' = None /\ UNCHANGED <<in, access>>
    /\ out' = IF itf THEN "armed" ELSE out
    /\ UNCHANGED <<itf, pending, epoch, snap, sent>>

-----------------------------------------------------------------------------
Init ==
    /\ itf = FALSE /\ out = "closed" /\ in = None
    /\ rx = None /\ pending = FALSE /\ tx = None
    /\ processing = FALSE /\ epoch = 0 /\ snap = 0 /\ pc = "main" /\ cur = None
    /\ access = None /\ sent = 0

Task == Take \/ process_message \/ TouchEnds \/ Finish
Bus == ccid_reset \/ ccid_open \/ Received \/ Delivered

Next == Task \/ Bus

Spec == Init /\ [][Next]_vars

-----------------------------------------------------------------------------
(* Types of the driver's state. *)
TypeOK ==
    /\ itf \in BOOLEAN /\ out \in {"closed", "idle", "armed"}
    /\ in \in Requests \cup {None} /\ rx \in Requests \cup {None}
    /\ pending \in BOOLEAN /\ tx \in Requests \cup {None}
    /\ processing \in BOOLEAN
    /\ epoch \in 0 .. MaxResets /\ snap \in 0 .. MaxResets
    /\ pc \in {"main", "run", "wait", "end"}
    /\ access \in (0 .. MaxResets) \cup {None}
    /\ cur \in Requests \cup {None} /\ sent \in 0 .. MaxSent

(* No buffer changes under its user: an APDU works on the request it was   *)
(* given to its end, whatever reset or message comes in the touch wait,    *)
(* and s_tx_buf keeps the answer while the host reads it.                  *)
BuffersStable ==
    /\ pc # "main" => rx = cur /\ rx # None
    /\ in # None => tx = in

(* Nothing crosses a bus reset: the answer on the IN endpoint and the      *)
(* access status are of the session that is on, whenever the reset came.   *)
NothingCrosses ==
    /\ in # None => in.sess = epoch
    /\ access # None => access = epoch

(* A configured reader listens or holds a request whenever the main loop   *)
(* is back, also when its last answer was never read.                      *)
Listens == pc = "main" /\ itf => out = "armed" \/ pending

(* The transport is a reader of sessions: a request that was overtaken by  *)
(* a reset is no longer one.                                               *)
Session == INSTANCE CardSession
    WITH Requests <- Requests,
         None <- None,
         req <- IF pending \/ (processing /\ snap = epoch) THEN rx ELSE None,
         ans <- in,
         access <- access # None

ImplementsCardSession == Session!Spec
=============================================================================
