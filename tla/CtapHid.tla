------------------------------- MODULE CtapHid -------------------------------
(***************************************************************************)
(* The CTAPHID transport (firmware/src/fido_hid/ctaphid.c) and the touch   *)
(* wait it shares with the OpenPGP side (user_presence.c).                 *)
(*                                                                         *)
(* A request is assembled from packets by USB callbacks and run by the     *)
(* main loop.  While it runs, its progress points and its touch wait pump  *)
(* USB, so the callbacks re-enter: here a packet may arrive in every       *)
(* state.  The IN endpoint takes one packet and is busy until the host     *)
(* polls it, so a handler gets at most one packet out.                     *)
(*                                                                         *)
(* Requests and answers are abstracted to their channel and their number   *)
(* of packets.  The history field old marks what belongs to a channel that *)
(* has sent INIT since: its host has left that transaction.                *)
(***************************************************************************)
EXTENDS Integers

CONSTANTS
    Channels,   \* CIDs in use
    Broadcast,  \* the broadcast CID, standing for the reserved CID 0 too
    None,       \* no channel
    MaxConts,   \* continuation packets of a request
    MaxAnswer,  \* packets of an answer
    MaxPackets  \* bound: packets that the host sends

ASSUME ChannelsAssumption == Broadcast \notin Channels /\ None \notin Channels \cup {Broadcast}
ASSUME LengthAssumption == MaxConts \in Nat /\ MaxAnswer \in Nat \ {0} /\ MaxPackets \in Nat

VARIABLES
    asm,        \* the request being assembled: s_state, s_cur_cid, packets to come
    job,        \* the complete request: s_busy_cid
    abandoned,  \* s_abandoned
    loop,       \* "main", "fido" (s_running), "touch" (and waiting), "pgp" (OpenPGP waits)
    cancel,     \* s_cancel
    pressed,    \* s_pressed
    touch,      \* what the last user_presence_check answered
    out,        \* answers: s_resp, the short slot, the resync slot, the IN endpoint
    packets,    \* bound: packets the host may still send
    canceller,  \* history: the channel that set s_cancel
    fresh       \* history: the button went down in this wait

vars == <<asm, job, abandoned, loop, cancel, pressed, touch, out, packets, canceller, fresh>>
touchVars == <<pressed, touch, fresh>>

Running == loop \in {"fido", "touch"}
Awaiting == loop \in {"touch", "pgp"}

Packet(c, kind) == [cid |-> c, kind |-> kind, old |-> FALSE]
NoPacket == Packet(None, "none")
NoAsm == [cid |-> None, left |-> 0]
NoJob == [cid |-> None, old |-> FALSE]
NoResp == [cid |-> None, kind |-> "none", old |-> FALSE, left |-> 0]

(* The fields sent (the last packet that USB took) and acked (the channels *)
(* whose latest INIT is answered) are history.                             *)
Idle == [resp |-> NoResp, short |-> NoPacket, resync |-> NoPacket, ready |-> TRUE,
         sent |-> NoPacket, acked |-> {}]

-----------------------------------------------------------------------------
(* The output functions, as functions of the output state o. *)
push_packet(o, p) ==
    [o EXCEPT !.ready = FALSE, !.sent = p,
              !.acked = IF p.kind = "init" /\ ~p.old THEN @ \cup {p.cid} ELSE @]

(* The short slot, then a resync answer once its request is over. *)
flush_pending(o, ab) ==
    CASE o.ready /\ o.short # NoPacket -> push_packet([o EXCEPT !.short = NoPacket], o.short)
      [] o.ready /\ o.short = NoPacket /\ o.resync # NoPacket /\ ~ab ->
            push_packet([o EXCEPT !.resync = NoPacket], o.resync)
      [] OTHER -> o

(* A second packet while the short slot is full is dropped. *)
send_now(o, p, ab) ==
    LET f == flush_pending(o, ab) IN
    CASE f.short = NoPacket /\ f.ready -> push_packet(f, p)
      [] f.short = NoPacket /\ ~f.ready -> [f EXCEPT !.short = p]
      [] OTHER -> f

queue_response(o, p, n) ==
    [o EXCEPT !.resp = [cid |-> p.cid, kind |-> p.kind, old |-> p.old, left |-> n]]

(* Mutant: one-packet answers always go through the response buffer. *)
ReplyThroughBuffer(o, p) ==
    IF abandoned /\ p.cid = job.cid THEN o ELSE queue_response(o, p, 1)

(* Straight out while a request or a response owns the buffers. *)
reply_short(o, p) ==
    CASE abandoned /\ p.cid = job.cid -> o
      [] ~(abandoned /\ p.cid = job.cid) /\ (job.cid # None \/ o.resp # NoResp) ->
            send_now(o, p, abandoned)
      [] OTHER -> queue_response(o, p, 1)

queue_error(o, c) == reply_short(o, Packet(c, "error"))

emit_response_packet(o) ==
    LET r == o.resp
        rest == IF r.left = 1 THEN NoResp ELSE [r EXCEPT !.left = r.left - 1]
    IN  IF r = NoResp \/ ~o.ready
          THEN o
          ELSE push_packet([o EXCEPT !.resp = rest], [cid |-> r.cid, kind |-> r.kind, old |-> r.old])

(* Mutant: a response is not emitted while a request is queued. *)
DrainUnlessBusy(o, ab) ==
    LET f == flush_pending(o, ab) IN
    IF f.short = NoPacket /\ f.resync = NoPacket /\ job.cid = None
      THEN emit_response_packet(f) ELSE f

(* The end of fido_hid_task: nothing overtakes a held one-packet answer. *)
Drain(o, ab) ==
    LET f == flush_pending(o, ab) IN
    IF f.short = NoPacket /\ f.resync = NoPacket THEN emit_response_packet(f) ELSE f

-----------------------------------------------------------------------------
(* Packets from the host. *)
Receive == packets > 0 /\ packets' = packets - 1

reset_assembly(c) == IF asm.cid = c THEN NoAsm ELSE asm

Age(x, c) == IF x.cid = c THEN [x EXCEPT !.old = TRUE] ELSE x

(* An INIT supersedes the unsent answer to an older one. *)
Superseded(c) ==
    [out EXCEPT !.resync = IF @.cid = c THEN NoPacket ELSE @,
                !.short = IF @ = Packet(c, "init") THEN NoPacket ELSE Age(@, c),
                !.resp = Age(@, c),
                !.acked = @ \ {c}]

(* Mutant: an INIT on the channel of a queued request does not abandon it. *)
AbandonRunningOnly(c) ==
    /\ job.cid = c
    /\ abandoned' = Running
    /\ cancel' = (cancel \/ Running)
    /\ canceller' = IF Running THEN c ELSE canceller
    /\ job' = Age(job, c)
    /\ out' = [Superseded(c) EXCEPT !.resync = Packet(c, "init")]

(* INIT on the channel of the queued or running request. *)
Abandon(c) ==
    /\ job.cid = c
    /\ abandoned' = TRUE
    /\ cancel' = (cancel \/ Running)
    /\ canceller' = IF Running THEN c ELSE canceller
    /\ job' = Age(job, c)
    /\ out' = [Superseded(c) EXCEPT !.resync = Packet(c, "init")]

(* INIT on another channel: the rest of an answer to it is dropped. *)
Resync(c) ==
    /\ job.cid # c
    /\ LET o == Superseded(c) IN
       out' = reply_short([o EXCEPT !.resp = IF @.cid = c THEN NoResp ELSE @], Packet(c, "init"))
    /\ UNCHANGED <<job, abandoned, cancel, canceller>>

handle_init(c) ==
    /\ Receive
    /\ Abandon(c) \/ Resync(c)
    /\ asm' = reset_assembly(c)
    /\ UNCHANGED <<loop, touchVars>>

(* INIT without an 8-byte nonce; a BCNT that fits the packet resets first. *)
InitBadLength(c) ==
    /\ Receive
    /\ asm' \in {asm, reset_assembly(c)}
    /\ out' = queue_error(out, c)
    /\ UNCHANGED <<job, abandoned, loop, cancel, canceller, touchVars>>

(* INIT on the broadcast channel is answered with a new CID; anything else *)
(* on it, or on CID 0, is an error.                                        *)
OnBroadcast ==
    /\ Receive
    /\ \E kind \in {"init", "error"} : out' = reply_short(out, Packet(Broadcast, kind))
    /\ UNCHANGED <<asm, job, abandoned, loop, cancel, canceller, touchVars>>

(* Mutant: CANCEL acts on a queued request too. *)
CancelQueued(c) ==
    /\ Receive
    /\ cancel' = (cancel \/ job.cid = c)
    /\ canceller' = IF job.cid = c THEN c ELSE canceller
    /\ asm' = reset_assembly(c)
    /\ UNCHANGED <<job, abandoned, loop, out, touchVars>>

Cancel(c) ==
    /\ Receive
    /\ cancel' = (cancel \/ (job.cid = c /\ Running))
    /\ canceller' = IF job.cid = c /\ Running THEN c ELSE canceller
    /\ asm' = reset_assembly(c)
    /\ UNCHANGED <<job, abandoned, loop, out, touchVars>>

(* The request is complete: refused in a touch wait, else queued. *)
complete_request(c) ==
    /\ asm' = NoAsm
    /\ IF job.cid # None \/ Awaiting
         THEN out' = queue_error(out, c) /\ UNCHANGED job
         ELSE job' = [cid |-> c, old |-> FALSE] /\ UNCHANGED out

(* The first packet of a request of n continuation packets: accepted, ...  *)
Accept(c, n) ==
    /\ ~Awaiting /\ job.cid = None /\ asm.cid \in {None, c}
    /\ IF n = 0 THEN complete_request(c)
                ELSE asm' = [cid |-> c, left |-> n] /\ UNCHANGED <<job, out>>

(* ... refused because the device is busy, or too long. *)
RefuseBusy(c) ==
    /\ Awaiting \/ job.cid # None \/ asm.cid \notin {None, c}
    /\ out' = queue_error(out, c)
    /\ UNCHANGED <<asm, job>>

RefuseLong(c) ==
    /\ ~Awaiting /\ job.cid = None /\ asm.cid \in {None, c}
    /\ asm' = NoAsm
    /\ out' = queue_error(out, c)
    /\ UNCHANGED job

handle_init_packet(c) ==
    /\ Receive
    /\ (\E n \in 0 .. MaxConts : Accept(c, n)) \/ RefuseBusy(c) \/ RefuseLong(c)
    /\ UNCHANGED <<abandoned, loop, cancel, canceller, touchVars>>

(* A continuation packet; one of no assembly is dropped. *)
NextFragment(c) ==
    IF asm.left = 1
      THEN complete_request(c)
      ELSE asm' = [asm EXCEPT !.left = @ - 1] /\ UNCHANGED <<job, out>>

WrongSequence(c) ==
    /\ asm' = NoAsm
    /\ out' = queue_error(out, c)
    /\ UNCHANGED job

handle_cont_packet(c) ==
    /\ Receive
    /\ asm.cid = c
    /\ NextFragment(c) \/ WrongSequence(c)
    /\ UNCHANGED <<abandoned, loop, cancel, canceller, touchVars>>

-----------------------------------------------------------------------------
(* fido_hid_task.  The response buffer is free before a request starts. *)
Ready == loop = "main" /\ job.cid # None /\ out.resp = NoResp

StartRequest ==
    /\ Ready /\ ~abandoned
    /\ cancel' = FALSE
    /\ loop' = "fido"
    /\ touch' = "none"
    /\ UNCHANGED <<asm, job, abandoned, pressed, out, packets, canceller, fresh>>

(* The request is over: its latches go, what is held goes out. *)
RequestOver(o) ==
    /\ loop' = "main"
    /\ cancel' = FALSE
    /\ asm' = NoAsm /\ job' = NoJob /\ abandoned' = FALSE
    /\ out' = Drain(IF abandoned THEN [o EXCEPT !.resp = NoResp] ELSE o, FALSE)
    /\ UNCHANGED <<touchVars, packets, canceller>>

SkipAbandoned == Ready /\ abandoned /\ RequestOver(out)

(* The handler returns a response, or an error (an unknown command). *)
Finish ==
    /\ loop = "fido"
    /\ \/ \E n \in 1 .. MaxAnswer :
            RequestOver(queue_response(out, [cid |-> job.cid, kind |-> "answer", old |-> job.old], n))
       \/ RequestOver(reply_short(out, [cid |-> job.cid, kind |-> "error", old |-> job.old]))

TaskOutput ==
    /\ loop = "main" /\ ~Ready
    /\ out' = Drain(out, abandoned)
    /\ UNCHANGED <<asm, job, abandoned, loop, cancel, touchVars, packets, canceller>>

(* After the pump: held packets, then a KEEPALIVE when one is due. *)
fido_hid_progress ==
    /\ Running
    /\ LET f == flush_pending(out, abandoned) IN
       \/ out' = f
       \/ /\ f.short = NoPacket /\ f.ready /\ ~abandoned
          /\ out' = push_packet(f, [cid |-> job.cid, kind |-> "keepalive", old |-> job.old])
    /\ UNCHANGED <<asm, job, abandoned, loop, cancel, touchVars, packets, canceller>>

-----------------------------------------------------------------------------
(* Mutant: a button that is already down is taken for consent. *)
CheckHeldButton(wait) ==
    /\ fresh' = FALSE
    /\ IF cancel THEN touch' = "cancel" /\ UNCHANGED loop
                 ELSE touch' = "none" /\ loop' = wait
    /\ UNCHANGED <<asm, job, abandoned, cancel, pressed, out, packets, canceller>>

(* user_presence_check, up to its wait: a button that is down is no        *)
(* consent.                                                                *)
user_presence_check(wait) ==
    /\ fresh' = FALSE
    /\ CASE cancel -> touch' = "cancel" /\ UNCHANGED loop
         [] ~cancel /\ pressed -> touch' = "fail" /\ UNCHANGED loop
         [] ~cancel /\ ~pressed -> touch' = "none" /\ loop' = wait
    /\ UNCHANGED <<asm, job, abandoned, cancel, pressed, out, packets, canceller>>

(* A request asks for a touch at most once; an OpenPGP one runs from the   *)
(* main loop too.                                                          *)
RequestTouch == loop = "fido" /\ touch = "none" /\ user_presence_check("touch")
OpenPgpTouch == loop = "main" /\ user_presence_check("pgp")

(* The wait ends: CANCEL first, then the button, then the timeout. *)
WaitOver ==
    /\ Awaiting
    /\ touch' \in (CASE cancel -> {"cancel"}
                     [] ~cancel /\ pressed -> {"ok", "fail"}
                     [] OTHER -> {"fail"})
    /\ loop' = IF loop = "touch" THEN "fido" ELSE "main"
    /\ UNCHANGED <<asm, job, abandoned, cancel, pressed, out, packets, canceller, fresh>>

(* The debouncer in the SysTick interrupt. *)
Button ==
    /\ pressed' = ~pressed
    /\ fresh' = (fresh \/ (Awaiting /\ ~pressed))
    /\ UNCHANGED <<asm, job, abandoned, loop, cancel, touch, out, packets, canceller>>

(* The host has read the packet. *)
HostPoll ==
    /\ ~out.ready
    /\ out' = [out EXCEPT !.ready = TRUE]
    /\ UNCHANGED <<asm, job, abandoned, loop, cancel, touchVars, packets, canceller>>

-----------------------------------------------------------------------------
Init ==
    /\ asm = NoAsm /\ job = NoJob /\ abandoned = FALSE
    /\ loop = "main" /\ cancel = FALSE /\ pressed = FALSE /\ touch = "none"
    /\ out = Idle /\ packets = MaxPackets
    /\ canceller = None /\ fresh = FALSE

HostPacket ==
    \/ \E c \in Channels : \/ handle_init(c) \/ InitBadLength(c) \/ Cancel(c)
                           \/ handle_init_packet(c) \/ handle_cont_packet(c)
    \/ OnBroadcast

fido_hid_task == StartRequest \/ SkipAbandoned \/ TaskOutput
user_presence == RequestTouch \/ OpenPgpTouch \/ WaitOver \/ Button

Next == HostPacket \/ fido_hid_task \/ Finish \/ fido_hid_progress \/ user_presence \/ HostPoll

(* The main loop calls fido_hid_task in every round, also when an OpenPGP  *)
(* request has waited in the same round; handlers and waits end; the host  *)
(* polls the interrupt endpoint.                                           *)
Fairness ==
    /\ SF_vars(fido_hid_task)
    /\ WF_vars(Finish) /\ WF_vars(WaitOver)
    /\ WF_vars(HostPoll)

Spec == Init /\ [][Next]_vars /\ Fairness

-----------------------------------------------------------------------------
Held == [cid : Channels \cup {Broadcast, None}, old : BOOLEAN,
         kind : {"none", "init", "error", "keepalive", "answer"}]

(* Types of the transport's state; packets of an assembly are outstanding  *)
(* exactly while there is one.                                             *)
TypeOK ==
    /\ asm \in [cid : Channels \cup {None}, left : 0 .. MaxConts]
    /\ asm.cid = None <=> asm.left = 0
    /\ job \in [cid : Channels \cup {None}, old : BOOLEAN]
    /\ abandoned \in BOOLEAN /\ cancel \in BOOLEAN /\ pressed \in BOOLEAN /\ fresh \in BOOLEAN
    /\ loop \in {"main", "fido", "touch", "pgp"}
    /\ touch \in {"none", "ok", "cancel", "fail"}
    /\ out.resp \in [cid : Channels \cup {Broadcast, None}, old : BOOLEAN,
                     kind : {"none", "init", "error", "answer"}, left : 0 .. MaxAnswer]
    /\ out.resp.cid = None <=> out.resp.left = 0
    /\ out.short \in Held /\ out.resync \in Held /\ out.sent \in Held
    /\ out.ready \in BOOLEAN /\ out.acked \in SUBSET (Channels \cup {Broadcast})
    /\ packets \in 0 .. MaxPackets
    /\ canceller \in Channels \cup {None}

(* INIT ends what its channel did before (handle_init, fido_hid_task): no  *)
(* KEEPALIVE, response packet or older INIT answer goes out for it once    *)
(* INIT has arrived, and nothing at all once INIT is answered, wherever it *)
(* was held.                                                               *)
NothingStale == out.sent.old => out.sent.kind = "error" /\ out.sent.cid \notin out.acked

(* A complete request owns the request buffer until it is over, and a      *)
(* running one the response buffer, which its handler fills: no packet     *)
(* that arrives meanwhile starts an assembly or queues a response.         *)
OwnsBuffers ==
    /\ job.cid # None => asm.cid = None
    /\ Running => job.cid # None /\ out.resp = NoResp

(* The cancel latch belongs to the running request: it was set by that     *)
(* request's own channel, and no OpenPGP wait or later request finds it.   *)
CancelOwned == cancel => Running /\ canceller = job.cid

(* Consent is a press made in the wait it ends, never one that an earlier  *)
(* wait or nobody asked for.                                               *)
FreshConsent == touch = "ok" => fresh

(* Every accepted request is run to its end, unless its host leaves it,    *)
(* and what is held goes out: a response, unless a host leaves a request   *)
(* that is queued behind it, and a resync answer whose request is over.    *)
Served ==
    /\ job.cid # None /\ ~abandoned ~> job.cid = None \/ abandoned
    /\ out.resp # NoResp ~> out.resp = NoResp \/ abandoned
    /\ out.resync # NoPacket /\ ~abandoned ~> out.resync = NoPacket
    /\ out.short # NoPacket ~> out.short = NoPacket

(* docs/changelog.md of a resync: the abandoned request's answer is        *)
(* dropped and the INIT is answered.                                       *)
ResyncAnswered == out.resync # NoPacket ~> out.resync = NoPacket
=============================================================================
