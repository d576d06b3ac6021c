-------------------------- MODULE L3SessionProofs ---------------------------
(***************************************************************************)
(* Proofs about the session of L3Session, for any number of calls and      *)
(* faults.                                                                 *)
(***************************************************************************)
EXTENDS L3Session, TLAPS

-----------------------------------------------------------------------------
(* The inductive invariant. *)

(* TypeOK in two parts: the flags, and everything else. *)
Flags == ready \in BOOLEAN /\ on \in BOOLEAN /\ reads \in BOOLEAN /\ hit \in BOOLEAN

Data ==
    /\ host \in Ends /\ chip \in Ends
    /\ pc \in {"idle", "cert", "start", "send", "reply", "done"}
    /\ res \in Answers \cup Failures
    /\ ret \in {"none", "answer", "error", "unfit"}
    /\ keys \in Nat /\ runs \in 0 .. 1
    /\ calls \in 0 .. MaxCalls /\ faults \in 0 .. MaxFaults /\ failed \in Nat

(* Where a call is in its life. *)
Life ==
    /\ pc \in {"cert", "start", "send"} => runs = 0
    /\ pc = "reply" => runs = 1
    /\ pc # "idle" => ret = "none"
    /\ pc \in {"cert", "start"} => ~on
    /\ pc \in {"send", "reply"} => on
    /\ pc = "done" /\ res \in Answers => runs = 1

(* An open session: only the host's send nonce may run ahead, and only     *)
(* between calls; the answer that is out can be read.                      *)
Linked ==
    /\ on /\ pc \in {"idle", "send"} => host.key = chip.key /\ host.rx = chip.tx
    /\ pc = "reply" => host.key = chip.key /\ host.tx = chip.rx /\ chip.tx = host.rx + 1
    /\ on /\ pc = "done" /\ res \in Answers =>
         host.key = chip.key /\ host.tx = chip.rx /\ host.rx = chip.tx

(* A failure that has been caused and is not yet counted. *)
Owed ==
    \/ pc = "done" /\ res \notin Answers
    \/ on /\ pc \in {"idle", "send"} /\ host.tx # chip.rx

Charged == failed + (IF Owed THEN 1 ELSE 0) <= faults

Excused == pc = "done" /\ res \notin Answers /\ runs = 1 => hit

Inv == Data /\ Life /\ Linked /\ Charged /\ Excused /\ NoBlindRun

LEMMA WrapperStep ==
    ASSUME NEW checks \in BOOLEAN, NEW reading \in BOOLEAN
    PROVE  Inv /\ Wrapper(checks, reading) => Inv'
<1> SUFFICES ASSUME Inv, Wrapper(checks, reading) PROVE Inv'
  OBVIOUS
<1> USE BoundsAssumption DEF Inv, Wrapper, chipVars
<1>1. Data'
  BY DEF Data
<1>2. Life' /\ Linked'
  BY DEF Life, Linked, Data
<1>3. Charged'
  BY DEF Charged, Owed, Data
<1>4. Excused' /\ NoBlindRun'
  BY DEF Excused, NoBlindRun
<1> QED
  BY <1>1, <1>2, <1>3, <1>4

LEMMA CallStep ==
    Inv /\ (Wrappers \/ tropic_chip_id_read) => Inv'
<1>1. ASSUME Inv, Wrappers PROVE Inv'
  <2>1. PICK c \in BOOLEAN, r \in BOOLEAN : Wrapper(c, r)
    BY <1>1 DEF Wrappers, tropic_ecc_generate, tropic_ecc_pubkey_read, tropic_ecc_store,
        tropic_ecc_erase, tropic_ecc_eddsa_sign, tropic_ecc_ecdsa_sign, tropic_rmem_write,
        tropic_rmem_read, tropic_rmem_erase, tropic_random, tropic_mcounter_init,
        tropic_mcounter_update, tropic_mcounter_get, tropic_mac_and_destroy
  <2> QED
    BY <1>1, <2>1, WrapperStep
<1>2. ASSUME Inv, tropic_chip_id_read PROVE Inv'
  BY <1>2, BoundsAssumption
     DEF Inv, tropic_chip_id_read, chipVars, Data, Life, Linked, Charged, Owed, Excused, NoBlindRun
<1> QED
  BY <1>1, <1>2

LEMMA HandshakeStep ==
    Inv /\ (lt_get_info_cert_store \/ lt_session_start) => Inv'
<1> USE BoundsAssumption DEF Inv, Fault, NoFault, Lost, chipVars
<1>1. ASSUME Inv, lt_get_info_cert_store PROVE Inv'
  BY <1>1 DEF lt_get_info_cert_store, Data, Life, Linked, Charged, Owed, Excused, NoBlindRun
<1>2. ASSUME Inv, lt_session_start PROVE Inv'
  <2> USE <1>2 DEF lt_session_start, End
  <2>1. Data'
    BY DEF Data, Ends
  <2>2. Life' /\ Linked'
    BY DEF Life, Linked, Data
  <2>3. Charged'
    BY DEF Charged, Owed, Data, Life
  <2>4. Excused' /\ NoBlindRun'
    BY DEF Excused, NoBlindRun, Life
  <2> QED
    BY <2>1, <2>2, <2>3, <2>4
<1> QED
  BY <1>1, <1>2

LEMMA SendStep == Inv /\ Send => Inv'
<1> SUFFICES ASSUME Inv, Send PROVE Inv'
  OBVIOUS
<1> USE BoundsAssumption DEF Inv, Send, Got, Fault, NoFault, End
<1>1. Data'
  <2>1. host' \in Ends
    BY DEF Data, Ends
  <2>2. chip' \in Ends
    BY DEF Data, Ends
  <2>3. (res \in Answers \cup Failures)' /\ (runs \in 0 .. 1)'
    BY DEF Data, Failures, Life
  <2> QED
    BY <2>1, <2>2, <2>3 DEF Data
<1>2. Life'
  BY DEF Life, Data, Answers
<1>3. Linked'
  BY DEF Linked, Life, Data, Ends, Answers
<1>4. Charged'
  BY DEF Charged, Owed, Data, Ends, Life, Linked, Answers
<1>5. Excused' /\ NoBlindRun'
  BY DEF Excused, NoBlindRun, Life, Data
<1> QED
  BY <1>1, <1>2, <1>3, <1>4, <1>5

LEMMA ReceiveStep == Inv /\ Receive => Inv'
<1> SUFFICES ASSUME Inv, Receive PROVE Inv'
  OBVIOUS
<1> USE BoundsAssumption DEF Inv, Receive, Got, Fault, NoFault, chipVars
<1>1. Data'
  BY DEF Data, Ends, Failures, Life
<1>2. Life'
  BY DEF Life, Data, Answers
<1>3. Linked'
  BY DEF Linked, Life, Data, Ends, Answers
<1>4. Charged'
  BY DEF Charged, Owed, Data, Ends, Life, Linked, Answers
<1>5. Excused' /\ NoBlindRun'
  BY DEF Excused, NoBlindRun, Life, Linked, Data, Answers
<1> QED
  BY <1>1, <1>2, <1>3, <1>4, <1>5

LEMMA DoneStep == Inv /\ l3_done => Inv'
<1> SUFFICES ASSUME Inv, l3_done PROVE Inv'
  OBVIOUS
<1> USE DEF Inv, l3_done, l3_result_keeps_session, drop_session, End
<1>1. Data'
  BY DEF Data, Ends
<1>2. Life' /\ Linked'
  BY DEF Life, Linked, Data
<1>3. Charged'
  BY DEF Charged, Owed, Data, Linked
<1>4. Excused' /\ NoBlindRun'
  BY DEF Excused, NoBlindRun
<1> QED
  BY <1>1, <1>2, <1>3, <1>4

LEMMA EventStep ==
    Inv /\ (tropic_debug_desync_session \/ tropic_init) => Inv'
<1> USE BoundsAssumption DEF Inv, chipVars, End, Data, Ends, Life, Linked, Charged, Owed, Excused, NoBlindRun
<1>1. ASSUME Inv, tropic_debug_desync_session PROVE Inv'
  BY <1>1 DEF tropic_debug_desync_session
<1>2. ASSUME Inv, tropic_init PROVE Inv'
  BY <1>2 DEF tropic_init
<1> QED
  BY <1>1, <1>2

LEMMA InvInit == Init => Inv
<1> SUFFICES ASSUME Init PROVE Inv
  OBVIOUS
<1>1. Data
  BY BoundsAssumption DEF Init, End, Data, Ends, Answers
<1>2. Life /\ Linked /\ Excused /\ NoBlindRun
  BY DEF Init, Life, Linked, Excused, NoBlindRun
<1>3. Charged
  BY DEF Init, Charged, Owed
<1> QED
  BY <1>1, <1>2, <1>3 DEF Inv

LEMMA InvNext == Inv /\ [Next]_vars => Inv'
<1>1. ASSUME Inv, Next PROVE Inv'
  BY <1>1, CallStep, HandshakeStep, SendStep, ReceiveStep, DoneStep, EventStep DEF Next
<1>2. ASSUME Inv, UNCHANGED vars PROVE Inv'
  BY <1>2 DEF vars, Inv, Data, Life, Linked, Charged, Owed, Excused, NoBlindRun
<1> QED
  BY <1>1, <1>2

LEMMA FlagsNext == Flags /\ [Next]_vars => Flags'
<1> SUFFICES ASSUME Flags, [Next]_vars PROVE Flags'
  OBVIOUS
<1> USE DEF Flags
<1>1. ASSUME Wrappers PROVE Flags'
  <2>1. PICK c \in BOOLEAN, r \in BOOLEAN : Wrapper(c, r)
    BY <1>1 DEF Wrappers, tropic_ecc_generate, tropic_ecc_pubkey_read, tropic_ecc_store,
        tropic_ecc_erase, tropic_ecc_eddsa_sign, tropic_ecc_ecdsa_sign, tropic_rmem_write,
        tropic_rmem_read, tropic_rmem_erase, tropic_random, tropic_mcounter_init,
        tropic_mcounter_update, tropic_mcounter_get, tropic_mac_and_destroy
  <2> QED
    BY <2>1, Zenon DEF Wrapper
<1>2. CASE lt_get_info_cert_store
  BY <1>2, Zenon DEF lt_get_info_cert_store, Lost, Fault, NoFault
<1>3. CASE lt_session_start
  BY <1>3, Zenon DEF lt_session_start, Lost, Fault, NoFault
<1>4. CASE Send
  BY <1>4, Zenon DEF Send, Fault, NoFault
<1>5. CASE Receive
  BY <1>5, Zenon DEF Receive, Fault, NoFault
<1>6. CASE l3_done
  BY <1>6, Zenon DEF l3_done, drop_session
<1>7. CASE tropic_chip_id_read \/ tropic_debug_desync_session \/ tropic_init
  BY <1>7, Zenon DEF tropic_chip_id_read, tropic_debug_desync_session, tropic_init
<1>8. CASE UNCHANGED vars
  BY <1>8, Zenon DEF vars
<1> QED
  BY <1>1, <1>2, <1>3, <1>4, <1>5, <1>6, <1>7, <1>8 DEF Next

-----------------------------------------------------------------------------
(* The state of tropic.c's session keeps its types. *)
THEOREM TypeCorrect == Spec => []TypeOK
<1>1. Init => Flags
  BY DEF Init, Flags
<1>2. Inv /\ Flags => TypeOK
  BY DEF Inv, Flags, Data, TypeOK
<1> QED
  BY InvInit, InvNext, FlagsNext, <1>1, <1>2, PTL DEF Spec

(* However often the wire, the chip or the power fails, no fault costs     *)
(* more than one call, because l3_done drops a session that may be out of  *)
(* step.                                                                   *)
THEOREM FaultsCostOnce == Spec => []OneFailurePerFault
<1>1. Inv => OneFailurePerFault
  BY DEF Inv, Charged, OneFailurePerFault, Data
<1> QED
  BY InvInit, InvNext, <1>1, PTL DEF Spec

(* No command takes effect and fails because of an earlier call's failure. *)
THEOREM NeverBlind == Spec => []NoBlindRun
<1>1. Inv => NoBlindRun
  BY DEF Inv
<1> QED
  BY InvInit, InvNext, <1>1, PTL DEF Spec

-----------------------------------------------------------------------------
(* Every step of the session is a step of the atomic call, or none. *)
LEMMA RefinementStep ==
    Inv /\ [Next]_vars => [Call!Next]_Call!vars
<1> SUFFICES ASSUME Inv, [Next]_vars PROVE [Call!Next]_Call!vars
  OBVIOUS
<1> USE DEF Call!vars, Call!Next
<1>1. ASSUME Wrappers PROVE [Call!Next]_Call!vars
  <2>1. PICK c \in BOOLEAN, r \in BOOLEAN : Wrapper(c, r)
    BY <1>1 DEF Wrappers, tropic_ecc_generate, tropic_ecc_pubkey_read, tropic_ecc_store,
        tropic_ecc_erase, tropic_ecc_eddsa_sign, tropic_ecc_ecdsa_sign, tropic_rmem_write,
        tropic_rmem_read, tropic_rmem_erase, tropic_random, tropic_mcounter_init,
        tropic_mcounter_update, tropic_mcounter_get, tropic_mac_and_destroy
  <2> QED
    BY <2>1 DEF Wrapper, Call!Begin, Call!Refuse
<1>2. ASSUME lt_get_info_cert_store \/ lt_session_start PROVE [Call!Next]_Call!vars
  BY <1>2 DEF lt_get_info_cert_store, lt_session_start, Lost, Call!Fail
<1>3. ASSUME Send PROVE [Call!Next]_Call!vars
  BY <1>3 DEF Send, Got, Inv, Life, Call!Run
<1>4. ASSUME Receive PROVE [Call!Next]_Call!vars
  BY <1>4 DEF Receive, Got
<1>5. ASSUME l3_done PROVE [Call!Next]_Call!vars
  BY <1>5 DEF l3_done, Inv, Life, Call!Answer, Call!Fail
<1>6. ASSUME tropic_chip_id_read \/ tropic_debug_desync_session PROVE [Call!Next]_Call!vars
  BY <1>6 DEF tropic_chip_id_read, tropic_debug_desync_session
<1>7. ASSUME tropic_init PROVE [Call!Next]_Call!vars
  BY <1>7 DEF tropic_init, Call!Cut
<1>8. ASSUME UNCHANGED vars PROVE [Call!Next]_Call!vars
  BY <1>8 DEF vars
<1> QED
  BY <1>1, <1>2, <1>3, <1>4, <1>5, <1>6, <1>7, <1>8 DEF Next

(* A call through the session is the atomic call that the models of the    *)
(* records, PINs and stores assume: run at most once, answered only if     *)
(* run.                                                                    *)
THEOREM Refinement == Spec => ImplementsChipCall
<1>1. Init => Call!Init
  BY DEF Init, Call!Init
<1> QED
  BY <1>1, InvInit, InvNext, RefinementStep, PTL DEF Spec, ImplementsChipCall, Call!Spec
=============================================================================
