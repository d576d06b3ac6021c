------------------------------ MODULE L3Session ------------------------------
(***************************************************************************)
(* The encrypted session with the TROPIC01 (firmware/src/tropic/tropic.c,  *)
(* l3_result.h).  Both ends count messages; a request or an answer lost on *)
(* the wire leaves them out of step while libtropic's flag still says ON.  *)
(*                                                                         *)
(* libtropic and the chip are external: a call encrypts with the host's    *)
(* send nonce, the chip checks it against its own and closes its session   *)
(* on a mismatch, and the answer travels back under the other pair.        *)
(***************************************************************************)
EXTENDS Integers

CONSTANTS
    MaxCalls,   \* bound: calls of the wrappers
    MaxFaults   \* bound: faults of the wire and the chip

ASSUME BoundsAssumption == MaxCalls \in Nat /\ MaxFaults \in Nat

(* Results that the chip returns inside the session. *)
Answers == {"LT_OK", "LT_L3_SLOT_NOT_EMPTY", "LT_L3_SLOT_EXPIRED", "LT_L3_INVALID_KEY",
            "LT_L3_UPDATE_ERR", "LT_L3_COUNTER_INVALID", "LT_L3_SLOT_EMPTY",
            "LT_L3_SLOT_INVALID", "LT_L3_FAIL", "LT_L3_UNAUTHORIZED", "LT_L3_INVALID_CMD",
            "LT_L3_HARDWARE_FAIL", "LT_L3_R_MEM_DATA_READ_SLOT_EMPTY"}

(* Wire or L2 status; the answer does not decrypt or parse; a result byte  *)
(* that libtropic does not know.                                           *)
Failures == {"wire", "l2_status", "host_error", "unknown_result"}

(* One end of a session; key 0 is no session. *)
End(k) == [key |-> k, tx |-> 0, rx |-> 0]

VARIABLES
    ready,      \* s_lt_ready
    on,         \* s_handle.l3.session_status
    host,       \* key and nonces of s_handle
    chip,       \* key and nonces of the chip
    pc,         \* "idle", or the step of the call
    reads,      \* the call is tropic_ecc_pubkey_read
    res,        \* the lt_ret_t of the call
    ret,        \* what the last session call returned
    keys,       \* handshakes that reached the chip
    runs,       \* history: how often the chip ran this call
    hit,        \* history: a fault struck during this call
    calls,      \* history: calls made
    faults,     \* history: faults so far
    failed      \* history: calls that failed without an answer

chipVars == <<chip, keys>>
history == <<calls, faults, failed>>
vars == <<ready, on, host, chip, pc, reads, res, ret, keys, runs, hit, calls, faults, failed>>

-----------------------------------------------------------------------------
(* Mutant: a range check that lets a transport error keep the session. *)
KeepsTransport(r) == r \in Answers \cup {"wire"}

l3_result_keeps_session(r) == r \in Answers

Fault == faults < MaxFaults /\ faults' = faults + 1 /\ hit' = TRUE
NoFault == UNCHANGED <<faults, hit>>

(* A wrapper returns without an answer. *)
Lost ==
    /\ pc' = "idle" /\ ret' = "error"
    /\ failed' = failed + 1
    /\ UNCHANGED <<ready, reads, res, runs, calls>>

-----------------------------------------------------------------------------
(* A wrapper up to the end of tropic_l3_session_ensure's early returns:    *)
(* the argument check, the handle, an open session.                        *)
Wrapper(checks, reading) ==
    /\ pc = "idle" /\ calls < MaxCalls
    /\ calls' = calls + 1 /\ runs' = 0 /\ hit' = FALSE /\ reads' = reading
    /\ \/ checks /\ pc' = "idle" /\ ret' = "error"
       \/ ~ready /\ pc' = "idle" /\ ret' = "error"
       \/ ready /\ on /\ pc' = "send" /\ ret' = "none"
       \/ ready /\ ~on /\ pc' = "cert" /\ ret' = "none"
    /\ UNCHANGED <<ready, on, host, chipVars, res, faults, failed>>

tropic_ecc_generate == Wrapper(FALSE, FALSE)
tropic_ecc_pubkey_read == Wrapper(TRUE, TRUE)
tropic_ecc_store == Wrapper(TRUE, FALSE)
tropic_ecc_erase == Wrapper(FALSE, FALSE)
tropic_ecc_eddsa_sign == Wrapper(TRUE, FALSE)
tropic_ecc_ecdsa_sign == Wrapper(TRUE, FALSE)
tropic_rmem_write == Wrapper(TRUE, FALSE)
tropic_rmem_read == Wrapper(TRUE, FALSE)
tropic_rmem_erase == Wrapper(FALSE, FALSE)
tropic_random == Wrapper(TRUE, FALSE)
tropic_mcounter_init == Wrapper(TRUE, FALSE)
tropic_mcounter_update == Wrapper(TRUE, FALSE)
tropic_mcounter_get == Wrapper(TRUE, FALSE)
tropic_mac_and_destroy == Wrapper(TRUE, FALSE)

(* The certificate store is read over L2, and the chip's key is in it.     *)
lt_get_info_cert_store ==
    /\ pc = "cert"
    /\ \/ /\ pc' = "start" /\ NoFault
          /\ UNCHANGED <<ready, reads, res, ret, runs, calls, failed>>
       \/ Fault /\ Lost
    /\ UNCHANGED <<on, host, chipVars>>

(* A handshake replaces the chip's old session, also when its reply is     *)
(* lost; the flag is set last.                                             *)
lt_session_start ==
    /\ pc = "start"
    /\ \/ /\ keys' = keys + 1
          /\ host' = End(keys') /\ chip' = End(keys') /\ on' = TRUE
          /\ pc' = "send" /\ NoFault
          /\ UNCHANGED <<ready, reads, res, ret, runs, calls, failed>>
       \/ keys' = keys + 1 /\ chip' = End(keys') /\ Fault /\ Lost /\ UNCHANGED <<on, host>>
       \/ Fault /\ Lost /\ UNCHANGED <<on, host, chipVars>>

-----------------------------------------------------------------------------
(* The one libtropic call of a wrapper. *)

Got(r) == res' = r /\ pc' = "done"

(* The request is encrypted, then sent. *)
Send ==
    /\ pc = "send"
    /\ host' = [host EXCEPT !.tx = @ + 1]
    /\ \/ \E r \in {"wire", "l2_status"} : Got(r) /\ Fault /\ UNCHANGED <<chip, runs>>
       \/ /\ host.key = chip.key /\ host.tx = chip.rx
          /\ chip' = [key |-> chip.key, tx |-> chip.tx + 1, rx |-> chip.rx + 1]
          /\ runs' = runs + 1
          /\ pc' = "reply" /\ NoFault /\ UNCHANGED res
       \/ /\ ~(host.key = chip.key /\ host.tx = chip.rx)
          /\ chip' = End(0)
          /\ Got("l2_status") /\ NoFault /\ UNCHANGED runs
    /\ UNCHANGED <<ready, on, reads, ret, keys, calls, failed>>

(* The answer is received, decrypted and parsed. *)
Receive ==
    /\ pc = "reply"
    /\ \/ Got("wire") /\ Fault /\ UNCHANGED host
       \/ /\ host.key = chip.key /\ chip.tx = host.rx + 1
          /\ host' = [host EXCEPT !.rx = @ + 1]
          /\ \/ \E r \in Answers : Got(r) /\ NoFault
             \/ \E r \in {"host_error", "unknown_result"} : Got(r) /\ Fault
       \/ /\ ~(host.key = chip.key /\ chip.tx = host.rx + 1)
          /\ Got("host_error") /\ NoFault /\ UNCHANGED host
    /\ UNCHANGED <<ready, on, chipVars, reads, ret, runs, calls, failed>>

(* lt_session_abort: the host's side is off first, the wire abort may fail.*)
drop_session ==
    /\ on' = FALSE /\ host' = End(0)
    /\ chip' \in {chip, End(0)}

(* Mutant: a call that failed is made again. *)
DoneRetries ==
    /\ pc = "done"
    /\ IF l3_result_keeps_session(res)
         THEN ret' = "answer" /\ pc' = "idle" /\ UNCHANGED <<on, host, chip>>
         ELSE drop_session /\ pc' = "cert" /\ UNCHANGED ret
    /\ UNCHANGED <<ready, keys, reads, res, runs, hit, history>>

(* The caller gets the chip's answer or the error, and nothing is retried; *)
(* only an answer keeps the session.  A key that does not fit is an error. *)
l3_done ==
    /\ pc = "done" /\ pc' = "idle"
    /\ \/ res \in Answers /\ ret' = "answer" /\ UNCHANGED failed
       \/ res = "LT_OK" /\ reads /\ ret' = "unfit" /\ UNCHANGED failed
       \/ res \notin Answers /\ ret' = "error" /\ failed' = failed + 1
    /\ \/ l3_result_keeps_session(res) /\ UNCHANGED <<on, host, chip>>
       \/ ~l3_result_keeps_session(res) /\ drop_session
    /\ UNCHANGED <<ready, keys, reads, res, runs, hit, calls, faults>>

-----------------------------------------------------------------------------
(* An L2 request outside the session: its failure leaves the session.      *)
tropic_chip_id_read ==
    /\ pc = "idle" /\ calls < MaxCalls
    /\ calls' = calls + 1
    /\ \/ UNCHANGED <<faults, failed>>
       \/ ready /\ faults < MaxFaults /\ faults' = faults + 1 /\ failed' = failed + 1
    /\ UNCHANGED <<ready, on, host, chipVars, pc, reads, res, ret, runs, hit>>

(* Debug build: the send nonce moves without a message. *)
tropic_debug_desync_session ==
    /\ pc = "idle" /\ faults < MaxFaults
    /\ host' = [host EXCEPT !.tx = @ + 1]
    /\ faults' = faults + 1
    /\ UNCHANGED <<ready, on, chipVars, pc, reads, res, ret, runs, hit, calls, failed>>

(* Power: the chip is switched off and on, then lt_init runs. *)
tropic_init ==
    /\ faults < MaxFaults /\ faults' = faults + 1
    /\ ready' \in BOOLEAN /\ on' = FALSE /\ host' = End(0) /\ chip' = End(0)
    /\ pc' = "idle" /\ ret' = "none" /\ runs' = 0 /\ hit' = FALSE /\ reads' = FALSE
    /\ UNCHANGED <<res, keys, calls, failed>>

-----------------------------------------------------------------------------
Init ==
    /\ ready \in BOOLEAN /\ on = FALSE /\ host = End(0) /\ chip = End(0)
    /\ pc = "idle" /\ reads = FALSE /\ res = "LT_OK" /\ ret = "none" /\ keys = 0
    /\ runs = 0 /\ hit = FALSE /\ calls = 0 /\ faults = 0 /\ failed = 0

Wrappers ==
    \/ tropic_ecc_generate \/ tropic_ecc_pubkey_read \/ tropic_ecc_store
    \/ tropic_ecc_erase \/ tropic_ecc_eddsa_sign \/ tropic_ecc_ecdsa_sign
    \/ tropic_rmem_write \/ tropic_rmem_read \/ tropic_rmem_erase \/ tropic_random
    \/ tropic_mcounter_init \/ tropic_mcounter_update \/ tropic_mcounter_get
    \/ tropic_mac_and_destroy

Next ==
    \/ Wrappers
    \/ lt_get_info_cert_store \/ lt_session_start \/ Send \/ Receive \/ l3_done
    \/ tropic_chip_id_read \/ tropic_debug_desync_session \/ tropic_init

Spec == Init /\ [][Next]_vars

-----------------------------------------------------------------------------
Ends == [key : Nat, tx : Nat, rx : Nat]

(* Types of the session's state. *)
TypeOK ==
    /\ ready \in BOOLEAN /\ on \in BOOLEAN /\ reads \in BOOLEAN /\ hit \in BOOLEAN
    /\ host \in Ends /\ chip \in Ends
    /\ pc \in {"idle", "cert", "start", "send", "reply", "done"}
    /\ res \in Answers \cup Failures
    /\ ret \in {"none", "answer", "error", "unfit"}
    /\ keys \in Nat /\ runs \in 0 .. 1
    /\ calls \in 0 .. MaxCalls /\ faults \in 0 .. MaxFaults /\ failed \in Nat

(* A fault costs at most one call: a session that went out of step is      *)
(* dropped by the call that finds out, and the next one starts afresh.     *)
OneFailurePerFault == failed <= faults

(* A command that the chip ran is answered, unless a fault struck this     *)
(* very call: no earlier failure makes a command take effect and fail.     *)
NoBlindRun == ret = "error" /\ runs = 1 => hit

(* The session is the atomic call that the other modules assume.           *)
Call == INSTANCE ChipCall
    WITH busy <- pc # "idle",
         runs <- runs,
         ret <- IF ret = "unfit" THEN "error" ELSE ret

ImplementsChipCall == Call!Spec
=============================================================================
