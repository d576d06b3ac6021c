---------------------------- MODULE CtapHidProofs ----------------------------
(***************************************************************************)
(* Proofs about the transport of CtapHid, for any number of channels, any  *)
(* lengths of requests and answers and any number of packets.              *)
(***************************************************************************)
EXTENDS CtapHid, TLAPS

-----------------------------------------------------------------------------
Ids == Channels \cup {Broadcast, None}

Resps == [cid : Ids, old : BOOLEAN, kind : {"none", "init", "error", "answer"},
          left : 0 .. MaxAnswer]

Outs == [resp : Resps, short : Held, resync : Held, ready : BOOLEAN, sent : Held,
         acked : SUBSET (Channels \cup {Broadcast})]

(* What may be sent: nothing of a transaction its host has left but an     *)
(* error, and that only while the INIT that ended it has no answer.        *)
Sendable(p, acked) == p.old => p.kind = "error" /\ p.cid \notin acked

(* The output state. *)
OutOK(o) ==
    /\ o \in Outs
    /\ o.resp.cid = None => o.resp = NoResp
    /\ o.resp.left = 0 => o.resp = NoResp
    /\ o.short = NoPacket \/ (o.short.kind \in {"init", "error"} /\ o.short.cid # None)
    /\ o.resync.cid = None => o.resync = NoPacket
    /\ Sendable(o.short, o.acked)
    /\ ~o.resync.old
    /\ Sendable(o.sent, o.acked)

LEMMA Pushed ==
    ASSUME NEW o \in Outs, NEW p \in Held, p.cid # None
    PROVE  LET q == push_packet(o, p)
           IN  /\ q \in Outs
               /\ q.resp = o.resp /\ q.short = o.short /\ q.resync = o.resync
               /\ q.sent = p
               /\ q.acked = IF p.kind = "init" /\ ~p.old THEN o.acked \cup {p.cid} ELSE o.acked
  BY DEF push_packet, Outs, Held

LEMMA PushOK ==
    ASSUME NEW o, OutOK(o), NEW p \in Held, p.cid # None, o.short = NoPacket,
           Sendable(p, o.acked)
    PROVE  /\ OutOK(push_packet(o, p))
           /\ push_packet(o, p).resp = o.resp
           /\ push_packet(o, p).short = NoPacket
           /\ push_packet(o, p).resync = o.resync
<1> DEFINE q == push_packet(o, p)
<1>1. /\ q \in Outs
      /\ q.resp = o.resp /\ q.short = o.short /\ q.resync = o.resync
      /\ q.sent = p
      /\ q.acked = IF p.kind = "init" /\ ~p.old THEN o.acked \cup {p.cid} ELSE o.acked
  BY Pushed DEF OutOK
<1> HIDE DEF q
<1>2. Sendable(q.sent, q.acked) /\ Sendable(q.short, q.acked)
  BY <1>1 DEF Sendable, NoPacket, Packet
<1>3. OutOK(q)
  BY <1>1, <1>2 DEF OutOK
<1> QED
  BY <1>1, <1>3 DEF q

(* flush_pending keeps the output state, and never touches the response. *)
LEMMA FlushOK ==
    ASSUME NEW o, OutOK(o), NEW ab \in BOOLEAN
    PROVE  LET q == flush_pending(o, ab)
           IN  /\ OutOK(q) /\ q.resp = o.resp
               /\ ab => q.resync = o.resync
<1>1. CASE o.ready /\ o.short # NoPacket
  <2> DEFINE e == [o EXCEPT !.short = NoPacket]
  <2>1. /\ e.resp = o.resp /\ e.short = NoPacket /\ e.resync = o.resync
        /\ e.sent = o.sent /\ e.acked = o.acked /\ e \in Outs
    BY DEF OutOK, Outs, Held, NoPacket, Packet
  <2>2. OutOK(e)
    BY <2>1 DEF OutOK, Sendable, NoPacket, Packet
  <2>3. o.short \in Held /\ o.short.cid # None /\ Sendable(o.short, e.acked)
    BY <1>1, <2>1 DEF OutOK, Outs
  <2>4. flush_pending(o, ab) = push_packet(e, o.short)
    BY <1>1 DEF flush_pending
  <2> HIDE DEF e
  <2> QED
    BY <2>1, <2>2, <2>3, <2>4, PushOK
<1>2. CASE o.ready /\ o.short = NoPacket /\ o.resync # NoPacket /\ ~ab
  <2> DEFINE e == [o EXCEPT !.resync = NoPacket]
  <2>1. /\ e.resp = o.resp /\ e.short = o.short /\ e.resync = NoPacket
        /\ e.sent = o.sent /\ e.acked = o.acked /\ e \in Outs
    BY DEF OutOK, Outs, Held, NoPacket, Packet
  <2>2. OutOK(e)
    BY <2>1 DEF OutOK, Sendable, NoPacket, Packet
  <2>3. o.resync \in Held /\ o.resync.cid # None /\ Sendable(o.resync, e.acked)
    BY <1>2, <2>1 DEF OutOK, Outs, Sendable
  <2>4. flush_pending(o, ab) = push_packet(e, o.resync)
    BY <1>2 DEF flush_pending
  <2> HIDE DEF e
  <2> QED
    BY <1>2, <2>1, <2>2, <2>3, <2>4, PushOK
<1>3. CASE flush_pending(o, ab) = o
  BY <1>3
<1> QED
  BY <1>1, <1>2, <1>3 DEF flush_pending

(* A packet that is not old may be sent at any time. *)
LEMMA SendOK ==
    ASSUME NEW o, OutOK(o), NEW p \in Held, p.cid # None, ~p.old,
           p.kind \in {"init", "error"}, NEW ab \in BOOLEAN
    PROVE  LET q == send_now(o, p, ab)
           IN  /\ OutOK(q) /\ q.resp = o.resp
               /\ ab => q.resync = o.resync
<1> DEFINE f == flush_pending(o, ab)
<1>1. OutOK(f) /\ f.resp = o.resp /\ (ab => f.resync = o.resync)
  BY FlushOK
<1>2. send_now(o, p, ab) = CASE f.short = NoPacket /\ f.ready -> push_packet(f, p)
                             [] f.short = NoPacket /\ ~f.ready -> [f EXCEPT !.short = p]
                             [] OTHER -> f
  BY DEF send_now
<1> HIDE DEF f
<1>3. Sendable(p, f.acked)
  BY DEF Sendable
<1>4. CASE f.short = NoPacket /\ f.ready
  BY <1>1, <1>2, <1>3, <1>4, PushOK
<1>5. CASE f.short = NoPacket /\ ~f.ready
  <2> DEFINE e == [f EXCEPT !.short = p]
  <2>1. /\ e.resp = f.resp /\ e.short = p /\ e.resync = f.resync
        /\ e.sent = f.sent /\ e.acked = f.acked /\ e \in Outs
    BY <1>1 DEF OutOK, Outs
  <2>2. OutOK(e)
    BY <1>1, <1>3, <2>1 DEF OutOK
  <2> QED
    BY <1>1, <1>2, <1>5, <2>1, <2>2
<1>6. CASE send_now(o, p, ab) = f
  BY <1>1, <1>6
<1> QED
  BY <1>2, <1>4, <1>5, <1>6

(* Queueing a response replaces the response only. *)
LEMMA QueueAnyOK ==
    ASSUME NEW o, OutOK(o), NEW p \in Held, p.cid # None,
           p.kind \in {"init", "error", "answer"}, NEW n \in 1 .. MaxAnswer
    PROVE  LET q == queue_response(o, p, n)
           IN  OutOK(q) /\ q.resp.old = p.old /\ q.resync = o.resync
<1> DEFINE r == [cid |-> p.cid, kind |-> p.kind, old |-> p.old, left |-> n]
           q == [o EXCEPT !.resp = r]
<1>1. r \in Resps /\ r.cid # None /\ r.left # 0 /\ r.old = p.old
  BY LengthAssumption DEF Resps, Held, Ids
<1>2. queue_response(o, p, n) = q
  BY DEF queue_response
<1> HIDE DEF r
<1>3. /\ q.resp = r /\ q.short = o.short /\ q.resync = o.resync
      /\ q.sent = o.sent /\ q.acked = o.acked /\ q \in Outs
  BY <1>1 DEF OutOK, Outs
<1> HIDE DEF q
<1>4. OutOK(q)
  BY <1>1, <1>3 DEF OutOK
<1> QED
  BY <1>1, <1>2, <1>3, <1>4

LEMMA QueueOK ==
    ASSUME NEW o, OutOK(o), NEW p \in Held, p.cid # None, ~p.old,
           p.kind \in {"init", "error", "answer"}, NEW n \in 1 .. MaxAnswer
    PROVE  LET q == queue_response(o, p, n)
           IN  OutOK(q) /\ ~q.resp.old /\ q.resync = o.resync
  BY QueueAnyOK

(* A one-packet answer leaves the response of a request alone, and the     *)
(* resync answer of an abandoned one.                                      *)
LEMMA ReplyOK ==
    ASSUME NEW o, OutOK(o), NEW p \in Held, p.cid # None, ~p.old,
           p.kind \in {"init", "error"}, abandoned \in BOOLEAN
    PROVE  LET q == reply_short(o, p)
           IN  /\ OutOK(q)
               /\ q.resp = o.resp \/ (job.cid = None /\ ~q.resp.old)
               /\ abandoned => q.resync = o.resync
<1>1. CASE reply_short(o, p) = o
  BY <1>1
<1>2. CASE /\ reply_short(o, p) = send_now(o, p, abandoned)
  BY <1>2, SendOK
<1>3. CASE reply_short(o, p) = queue_response(o, p, 1) /\ job.cid = None
  <2>1. 1 \in 1 .. MaxAnswer
    BY LengthAssumption
  <2> QED
    BY <1>3, <2>1, QueueOK
<1>4. CASE abandoned /\ p.cid = job.cid
  BY <1>1, <1>4 DEF reply_short
<1>5. CASE ~(abandoned /\ p.cid = job.cid) /\ (job.cid # None \/ o.resp # NoResp)
  BY <1>2, <1>5 DEF reply_short
<1>6. CASE ~(abandoned /\ p.cid = job.cid) /\ ~(job.cid # None \/ o.resp # NoResp)
  BY <1>3, <1>6 DEF reply_short
<1> QED
  BY <1>4, <1>5, <1>6

LEMMA EmitOK ==
    ASSUME NEW o, OutOK(o), o.short = NoPacket, ~o.resp.old
    PROVE  LET q == emit_response_packet(o)
           IN  /\ OutOK(q) /\ ~q.resp.old /\ q.resync = o.resync
               /\ o.resp = NoResp => q.resp = NoResp
<1>1. CASE o.resp = NoResp \/ ~o.ready
  BY <1>1 DEF emit_response_packet
<1>2. CASE ~(o.resp = NoResp \/ ~o.ready)
  <2> DEFINE r == IF o.resp.left = 1 THEN NoResp ELSE [o.resp EXCEPT !.left = o.resp.left - 1]
             e == [o EXCEPT !.resp = r]
             p == [cid |-> o.resp.cid, kind |-> o.resp.kind, old |-> o.resp.old]
  <2>1. emit_response_packet(o) = push_packet(e, p)
    BY <1>2 DEF emit_response_packet
  <2>2. o.resp \in Resps /\ o.resp.left # 0 /\ o.resp.cid # None
    BY <1>2 DEF OutOK, Outs
  <2>3. r \in Resps /\ ~r.old /\ (r.cid = None => r = NoResp) /\ (r.left = 0 => r = NoResp)
    BY <2>2, LengthAssumption DEF Resps, NoResp, Ids
  <2>4. p \in Held /\ p.cid # None /\ ~p.old
    BY <2>2 DEF Resps, Held, Ids
  <2>5. e = [o EXCEPT !.resp = r]
    OBVIOUS
  <2> HIDE DEF r, p, e
  <2>6. /\ e.resp = r /\ e.short = o.short /\ e.resync = o.resync
        /\ e.sent = o.sent /\ e.acked = o.acked /\ e \in Outs
    BY <2>3, <2>5 DEF OutOK, Outs
  <2>7. OutOK(e) /\ Sendable(p, e.acked)
    BY <2>3, <2>4, <2>6 DEF OutOK, Sendable
  <2> QED
    BY <1>2, <2>1, <2>3, <2>4, <2>6, <2>7, PushOK
<1> QED
  BY <1>1, <1>2

(* A response of a transaction that was left stays behind the resync       *)
(* answer that is held until its request is over.                          *)
LEMMA DrainOK ==
    ASSUME NEW o, OutOK(o), NEW ab \in BOOLEAN, o.resp.old => ab /\ o.resync # NoPacket
    PROVE  LET q == Drain(o, ab)
           IN  /\ OutOK(q)
               /\ q.resp.old => o.resp.old
               /\ ab => q.resync = o.resync
               /\ o.resp = NoResp => q.resp = NoResp
<1> DEFINE f == flush_pending(o, ab)
<1>1. OutOK(f) /\ f.resp = o.resp /\ (ab => f.resync = o.resync)
  BY FlushOK
<1>2. Drain(o, ab) = IF f.short = NoPacket /\ f.resync = NoPacket THEN emit_response_packet(f) ELSE f
  BY DEF Drain
<1> HIDE DEF f
<1>3. CASE f.short = NoPacket /\ f.resync = NoPacket
  <2>1. ~f.resp.old
    BY <1>1, <1>3
  <2> QED
    BY <1>1, <1>2, <1>3, <2>1, EmitOK
<1>4. CASE ~(f.short = NoPacket /\ f.resync = NoPacket)
  BY <1>1, <1>2, <1>4
<1> QED
  BY <1>3, <1>4

(* An INIT on channel c: what is held for c and is not dropped is old now. *)
LEMMA SupersededOK ==
    ASSUME OutOK(out), NEW c \in Channels
    PROVE  LET q == Superseded(c)
           IN  /\ OutOK(q)
               /\ q.resp = Age(out.resp, c)
               /\ q.resync = IF out.resync.cid = c THEN NoPacket ELSE out.resync
<1> DEFINE q == Superseded(c)
           s == IF out.short = Packet(c, "init") THEN NoPacket ELSE Age(out.short, c)
<1>1. c # None /\ c \in Ids
  BY ChannelsAssumption DEF Ids
<1>2. Age(out.resp, c) \in Resps /\ (Age(out.resp, c).cid = None => Age(out.resp, c) = NoResp)
      /\ (Age(out.resp, c).left = 0 => Age(out.resp, c) = NoResp)
  <2>1. CASE out.resp.cid = c
    <3> DEFINE x == [out.resp EXCEPT !.old = TRUE]
    <3>1. out.resp \in Resps /\ out.resp.left # 0
      BY <1>1, <2>1 DEF OutOK, Outs, NoResp
    <3>2. x \in Resps /\ x.cid = out.resp.cid /\ x.left = out.resp.left
      BY <3>1 DEF Resps
    <3>3. Age(out.resp, c) = x
      BY <2>1 DEF Age
    <3> QED
      BY <1>1, <2>1, <3>1, <3>2, <3>3
  <2>2. CASE out.resp.cid # c
    BY <2>2 DEF Age, OutOK, Outs
  <2> QED
    BY <2>1, <2>2
<1>3. s \in Held /\ (s = NoPacket \/ (s.kind \in {"init", "error"} /\ s.cid # None))
  <2>1. NoPacket \in Held
    BY DEF NoPacket, Packet, Held
  <2>2. CASE s = NoPacket
    BY <2>1, <2>2
  <2>3. CASE s = out.short
    BY <2>3 DEF OutOK, Outs
  <2>4. CASE s = [out.short EXCEPT !.old = TRUE] /\ out.short.cid = c
    <3> DEFINE x == [out.short EXCEPT !.old = TRUE]
    <3>1. out.short \in Held /\ out.short # NoPacket
      BY <1>1, <2>4 DEF OutOK, Outs, NoPacket, Packet
    <3>2. x \in Held /\ x.cid = out.short.cid /\ x.kind = out.short.kind
      BY <3>1 DEF Held
    <3> QED
      BY <2>4, <3>1, <3>2 DEF OutOK
  <2> QED
    BY <2>2, <2>3, <2>4 DEF Age
<1>4. s.old => s.kind = "error" /\ s.cid \notin out.acked \ {c}
  <2>1. CASE out.short.cid = c
    <3>1. CASE out.short.old
      BY <2>1, <3>1 DEF Age, OutOK, Outs, Held, NoPacket, Packet, Sendable
    <3>2. CASE ~out.short.old /\ out.short.kind = "init"
      <4>1. out.short = Packet(c, "init")
        BY <2>1, <3>2 DEF OutOK, Outs, Held, Packet
      <4> QED
        BY <4>1 DEF NoPacket, Packet
    <3>3. CASE ~out.short.old /\ out.short.kind = "error"
      BY <2>1, <3>3 DEF Age, OutOK, Outs, Held, NoPacket, Packet
    <3> QED
      BY <1>1, <2>1, <3>1, <3>2, <3>3 DEF OutOK, NoPacket, Packet
  <2>2. CASE out.short.cid # c
    BY <2>2 DEF Age, OutOK, Sendable, NoPacket, Packet
  <2> QED
    BY <2>1, <2>2
<1>5. NoPacket \in Held /\ NoPacket.cid = None /\ ~NoPacket.old
  BY DEF NoPacket, Packet, Held
<1> HIDE DEF s
<1>6. /\ q \in Outs /\ q.resp = Age(out.resp, c) /\ q.short = s
      /\ q.resync = (IF out.resync.cid = c THEN NoPacket ELSE out.resync)
      /\ q.sent = out.sent /\ q.acked = out.acked \ {c}
  BY <1>2, <1>3, <1>5 DEF Superseded, OutOK, Outs, s
<1> HIDE DEF q
<1>7. OutOK(q)
  BY <1>2, <1>3, <1>4, <1>5, <1>6 DEF OutOK, Sendable
<1> QED
  BY <1>6, <1>7 DEF q

-----------------------------------------------------------------------------
(* The inductive invariant. *)

(* TypeOK without out, in two parts: the flags, and everything else. *)
Flags == abandoned \in BOOLEAN /\ cancel \in BOOLEAN /\ pressed \in BOOLEAN /\ fresh \in BOOLEAN

Data ==
    /\ asm \in [cid : Channels \cup {None}, left : 0 .. MaxConts]
    /\ asm.cid = None <=> asm.left = 0
    /\ job \in [cid : Channels \cup {None}, old : BOOLEAN]
    /\ loop \in {"main", "fido", "touch", "pgp"}
    /\ touch \in {"none", "ok", "cancel", "fail"}
    /\ packets \in 0 .. MaxPackets
    /\ canceller \in Channels \cup {None}

(* The answer to the INIT that abandoned a request is held until that      *)
(* request is over; what is marked old is held behind it.                  *)
Latched ==
    /\ abandoned => job.cid # None /\ out.resync.cid = job.cid
    /\ job.old => abandoned
    /\ out.resp.old => abandoned

(* A button that is down in a wait went down in it. *)
Pressing == Awaiting /\ pressed => fresh

Rest == Data /\ Latched /\ OwnsBuffers /\ CancelOwned
Inv == Flags /\ OutOK(out) /\ Rest /\ FreshConsent /\ Pressing

LEMMA ShortReply ==
    ASSUME Flags, OutOK(out), NEW c \in Channels \cup {Broadcast}, NEW kind \in {"init", "error"},
           out' = reply_short(out, Packet(c, kind))
    PROVE  /\ OutOK(out')
           /\ out'.resp = out.resp \/ (job.cid = None /\ ~out'.resp.old)
           /\ abandoned => out'.resync = out.resync
<1> DEFINE p == Packet(c, kind)
<1>1. p \in Held /\ p.cid # None /\ ~p.old /\ p.kind \in {"init", "error"}
  BY ChannelsAssumption DEF Packet, Held
<1> HIDE DEF p
<1>2. out' = reply_short(out, p)
  BY DEF p
<1> QED
  BY <1>1, <1>2, ReplyOK DEF Flags

(* An error, and the state that an accepted or refused packet leaves. *)
LEMMA ErrorReply ==
    ASSUME Flags, OutOK(out), NEW c \in Channels, out' = queue_error(out, c)
    PROVE  /\ OutOK(out')
           /\ out'.resp = out.resp \/ (job.cid = None /\ ~out'.resp.old)
           /\ abandoned => out'.resync = out.resync
  BY ShortReply DEF queue_error

LEMMA Assembly ==
    ASSUME Data, NEW c
    PROVE  LET a == reset_assembly(c)
           IN  /\ a \in [cid : Channels \cup {None}, left : 0 .. MaxConts]
               /\ a.cid = None <=> a.left = 0
               /\ NoAsm \in [cid : Channels \cup {None}, left : 0 .. MaxConts]
               /\ NoAsm.cid = None /\ NoAsm.left = 0
  BY LengthAssumption DEF Data, reset_assembly, NoAsm

LEMMA AbandonStep ==
    ASSUME Flags, OutOK(out), Rest, NEW c \in Channels, handle_init(c), Abandon(c)
    PROVE  OutOK(out') /\ Rest'
<1> DEFINE s == Superseded(c)
           p == Packet(c, "init")
<1>1. OutOK(s) /\ s.resp = Age(out.resp, c)
  BY SupersededOK
<1>2. out' = [s EXCEPT !.resync = p]
  BY DEF Abandon
<1> HIDE DEF s
<1>3. p \in Held /\ p.cid = c /\ ~p.old /\ c # None
  BY ChannelsAssumption DEF Packet, Held
<1> HIDE DEF p
<1>4. /\ out'.resp = s.resp /\ out'.short = s.short /\ out'.resync = p
      /\ out'.sent = s.sent /\ out'.acked = s.acked /\ out' \in Outs
  BY <1>1, <1>2, <1>3 DEF OutOK, Outs
<1>5. OutOK(out')
  BY <1>1, <1>3, <1>4 DEF OutOK
<1>6. job' \in [cid : Channels \cup {None}, old : BOOLEAN] /\ job'.cid = c
  BY DEF Abandon, Age, Rest, Data
<1>7. out.resp = NoResp => out'.resp = NoResp
  BY <1>1, <1>3, <1>4 DEF Age, NoResp
<1>8. Data'
  BY <1>6, Assembly, LengthAssumption DEF handle_init, Receive, Abandon, Rest, Data, touchVars
<1>9. Latched'
  BY <1>3, <1>4, <1>6 DEF Abandon, Latched
<1>10. OwnsBuffers'
  BY <1>3, <1>6, <1>7 DEF Abandon, handle_init, reset_assembly, NoAsm, Rest, OwnsBuffers, Running
<1>11. CancelOwned'
  BY <1>6 DEF Abandon, handle_init, Rest, CancelOwned, Running
<1> QED
  BY <1>5, <1>8, <1>9, <1>10, <1>11 DEF Rest

LEMMA ResyncStep ==
    ASSUME Flags, OutOK(out), Rest, NEW c \in Channels, handle_init(c), Resync(c)
    PROVE  OutOK(out') /\ Rest'
<1> DEFINE s == Superseded(c)
           e == [s EXCEPT !.resp = IF s.resp.cid = c THEN NoResp ELSE s.resp]
           p == Packet(c, "init")
<1>1. /\ OutOK(s) /\ s.resp = Age(out.resp, c)
      /\ s.resync = IF out.resync.cid = c THEN NoPacket ELSE out.resync
  BY SupersededOK
<1>2. out' = reply_short(e, p)
  BY DEF Resync
<1> HIDE DEF s
<1>3. p \in Held /\ p.cid = c /\ ~p.old /\ c # None /\ p.kind = "init"
  BY ChannelsAssumption DEF Packet, Held
<1> HIDE DEF p
<1>4. NoResp \in Resps
  BY LengthAssumption DEF NoResp, Resps, Ids
<1>5. /\ e.resp = (IF s.resp.cid = c THEN NoResp ELSE s.resp) /\ e.short = s.short
      /\ e.resync = s.resync
      /\ e.sent = s.sent /\ e.acked = s.acked /\ e \in Outs
  BY <1>1, <1>4 DEF OutOK, Outs
<1> HIDE DEF e
<1>6. OutOK(e)
  BY <1>1, <1>5 DEF OutOK
<1>7. /\ OutOK(out')
      /\ out'.resp = e.resp \/ (job.cid = None /\ ~out'.resp.old)
      /\ abandoned => out'.resync = e.resync
  BY <1>2, <1>3, <1>6, ReplyOK DEF Flags
<1>8. e.resp = out.resp \/ e.resp = NoResp
  <2>1. CASE out.resp.cid = c
    <3>1. Age(out.resp, c).cid = c
      BY <2>1 DEF Age, OutOK, Outs, Resps
    <3> QED
      BY <1>1, <1>5, <3>1
  <2>2. CASE out.resp.cid # c
    BY <1>1, <1>5, <2>2 DEF Age
  <2> QED
    BY <2>1, <2>2
<1>9. abandoned => out'.resync = out.resync
  BY <1>1, <1>5, <1>7 DEF Resync, Rest, Latched
<1>10. Data'
  BY Assembly, LengthAssumption DEF handle_init, Receive, Resync, Rest, Data, touchVars
<1>11. Latched'
  BY <1>7, <1>8, <1>9 DEF Resync, Rest, Latched, NoResp
<1>12. OwnsBuffers' /\ CancelOwned'
  BY <1>7, <1>8 DEF Resync, handle_init, reset_assembly, NoAsm, Rest, OwnsBuffers, CancelOwned, Running
<1> QED
  BY <1>7, <1>10, <1>11, <1>12 DEF Rest

(* A packet that is only answered: the request and its latches stay. *)
LEMMA Answered ==
    ASSUME Rest, UNCHANGED <<job, abandoned, loop>>,
           out'.resp = out.resp \/ (job.cid = None /\ ~out'.resp.old),
           abandoned => out'.resync = out.resync
    PROVE  /\ Latched'
           /\ Running' => job'.cid # None /\ out'.resp = NoResp
  BY DEF Rest, Latched, OwnsBuffers, Running

LEMMA BadLengthStep ==
    ASSUME Flags, OutOK(out), Rest, NEW c \in Channels, InitBadLength(c)
    PROVE  OutOK(out') /\ Rest'
<1>1. Latched' /\ OutOK(out') /\ (Running' => job'.cid # None /\ out'.resp = NoResp)
  BY ErrorReply, Answered DEF InitBadLength
<1>2. Data'
  BY Assembly, LengthAssumption DEF InitBadLength, Receive, Rest, Data, touchVars
<1>3. OwnsBuffers' /\ CancelOwned'
  BY <1>1, Assembly DEF InitBadLength, reset_assembly, NoAsm, Rest, OwnsBuffers, CancelOwned, Running
<1> QED
  BY <1>1, <1>2, <1>3 DEF Rest

LEMMA BroadcastStep ==
    ASSUME Flags, OutOK(out), Rest, OnBroadcast
    PROVE  OutOK(out') /\ Rest'
<1>1. Latched' /\ OutOK(out') /\ (Running' => job'.cid # None /\ out'.resp = NoResp)
  BY ShortReply, Answered DEF OnBroadcast
<1>2. Data'
  BY LengthAssumption DEF OnBroadcast, Receive, Rest, Data, touchVars
<1>3. OwnsBuffers' /\ CancelOwned'
  BY <1>1 DEF OnBroadcast, Rest, OwnsBuffers, CancelOwned, Running
<1> QED
  BY <1>1, <1>2, <1>3 DEF Rest

LEMMA CancelStep ==
    ASSUME Flags, OutOK(out), Rest, NEW c \in Channels, Cancel(c)
    PROVE  OutOK(out') /\ Rest'
<1>1. Data'
  BY Assembly, LengthAssumption DEF Cancel, Receive, Rest, Data, touchVars
<1>2. Latched' /\ OutOK(out')
  BY DEF Cancel, Rest, Latched
<1>3. OwnsBuffers' /\ CancelOwned'
  BY DEF Cancel, reset_assembly, NoAsm, Rest, OwnsBuffers, CancelOwned, Running
<1> QED
  BY <1>1, <1>2, <1>3 DEF Rest

(* A request is complete.  No request runs when one is queued: a running   *)
(* one has a job.                                                          *)
LEMMA CompleteStep ==
    ASSUME Flags, OutOK(out), Rest, NEW c \in Channels, complete_request(c),
           UNCHANGED <<abandoned, loop, cancel, canceller, touch>>,
           packets' \in 0 .. MaxPackets
    PROVE  OutOK(out') /\ Rest'
<1>1. asm' = NoAsm /\ NoAsm.cid = None
  BY DEF complete_request, NoAsm
<1>2. CASE out' = queue_error(out, c) /\ UNCHANGED job
  <2>1. Latched' /\ OutOK(out') /\ (Running' => job'.cid # None /\ out'.resp = NoResp)
    BY <1>2, ErrorReply, Answered
  <2>2. Data'
    BY <1>1, <1>2, Assembly DEF Rest, Data
  <2>3. OwnsBuffers' /\ CancelOwned'
    BY <1>1, <1>2, <2>1 DEF Rest, OwnsBuffers, CancelOwned, Running
  <2> QED
    BY <2>1, <2>2, <2>3 DEF Rest
<1>3. CASE job.cid = None /\ job' = [cid |-> c, old |-> FALSE] /\ UNCHANGED out
  <2>1. ~Running /\ ~abandoned /\ ~cancel
    BY <1>3 DEF Rest, OwnsBuffers, Latched, CancelOwned
  <2>2. Data'
    BY <1>1, <1>3, Assembly DEF Rest, Data
  <2>3. Latched' /\ OutOK(out')
    BY <1>3, <2>1 DEF Rest, Latched
  <2>4. OwnsBuffers' /\ CancelOwned'
    BY <1>1, <1>3, <2>1 DEF OwnsBuffers, CancelOwned, Running
  <2> QED
    BY <2>2, <2>3, <2>4 DEF Rest
<1> QED
  BY <1>2, <1>3 DEF complete_request

LEMMA InitPacketStep ==
    ASSUME Flags, OutOK(out), Rest, NEW c \in Channels, handle_init_packet(c)
    PROVE  OutOK(out') /\ Rest'
<1>1. /\ UNCHANGED <<abandoned, loop, cancel, canceller, touch>>
      /\ packets' \in 0 .. MaxPackets
  BY LengthAssumption DEF handle_init_packet, Receive, Rest, Data, touchVars
<1>2. ASSUME NEW n \in 0 .. MaxConts, Accept(c, n) PROVE OutOK(out') /\ Rest'
  <2>1. CASE n = 0
    BY <1>1, <1>2, <2>1, CompleteStep DEF Accept
  <2>2. CASE n # 0
    <3>1. asm' = [cid |-> c, left |-> n] /\ UNCHANGED <<job, out>> /\ job.cid = None
      BY <1>2, <2>2 DEF Accept
    <3>2. Data'
      BY <1>1, <2>2, <3>1, ChannelsAssumption, LengthAssumption DEF Rest, Data
    <3>3. Latched' /\ OwnsBuffers' /\ CancelOwned' /\ OutOK(out')
      BY <1>1, <3>1 DEF Rest, Latched, OwnsBuffers, CancelOwned, Running
    <3> QED
      BY <3>2, <3>3 DEF Rest
  <2> QED
    BY <2>1, <2>2
<1>3. CASE RefuseBusy(c) \/ RefuseLong(c)
  <2>1. Latched' /\ OutOK(out') /\ (Running' => job'.cid # None /\ out'.resp = NoResp)
    BY <1>1, <1>3, ErrorReply, Answered DEF RefuseBusy, RefuseLong
  <2>2. Data'
    BY <1>1, <1>3, Assembly DEF RefuseBusy, RefuseLong, Rest, Data
  <2>3. OwnsBuffers' /\ CancelOwned'
    BY <1>1, <1>3, <2>1, Assembly
       DEF RefuseBusy, RefuseLong, NoAsm, Rest, OwnsBuffers, CancelOwned, Running
  <2> QED
    BY <2>1, <2>2, <2>3 DEF Rest
<1> QED
  BY <1>2, <1>3 DEF handle_init_packet

LEMMA ContPacketStep ==
    ASSUME Flags, OutOK(out), Rest, NEW c \in Channels, handle_cont_packet(c)
    PROVE  OutOK(out') /\ Rest'
<1>1. /\ UNCHANGED <<abandoned, loop, cancel, canceller, touch>>
      /\ packets' \in 0 .. MaxPackets /\ asm.cid = c
  BY LengthAssumption DEF handle_cont_packet, Receive, Rest, Data, touchVars
<1>2. CASE NextFragment(c) /\ asm.left = 1
  BY <1>1, <1>2, CompleteStep DEF NextFragment
<1>3. CASE NextFragment(c) /\ asm.left # 1
  <2>1. asm' = [asm EXCEPT !.left = asm.left - 1] /\ UNCHANGED <<job, out>>
    BY <1>3 DEF NextFragment
  <2>2. asm.left \in 2 .. MaxConts /\ asm.cid # None
    BY <1>1, <1>3, ChannelsAssumption, LengthAssumption DEF Rest, Data
  <2>3. Data'
    BY <1>1, <2>1, <2>2, LengthAssumption DEF Rest, Data
  <2>4. job.cid = None
    BY <2>2 DEF Rest, OwnsBuffers
  <2>5. Latched' /\ OwnsBuffers' /\ CancelOwned' /\ OutOK(out')
    BY <1>1, <2>1, <2>4 DEF Rest, Latched, OwnsBuffers, CancelOwned, Running
  <2> QED
    BY <2>3, <2>5 DEF Rest
<1>4. CASE WrongSequence(c)
  <2>1. Latched' /\ OutOK(out') /\ (Running' => job'.cid # None /\ out'.resp = NoResp)
    BY <1>1, <1>4, ErrorReply, Answered DEF WrongSequence
  <2>2. Data'
    BY <1>1, <1>4, Assembly DEF WrongSequence, Rest, Data
  <2>3. OwnsBuffers' /\ CancelOwned'
    BY <1>1, <1>4, <2>1, Assembly
       DEF WrongSequence, NoAsm, Rest, OwnsBuffers, CancelOwned, Running
  <2> QED
    BY <2>1, <2>2, <2>3 DEF Rest
<1> QED
  BY <1>2, <1>3, <1>4 DEF handle_cont_packet

-----------------------------------------------------------------------------
(* The main loop and the handlers. *)

LEMMA StartStep ==
    ASSUME Flags, OutOK(out), Rest, StartRequest
    PROVE  OutOK(out') /\ Rest'
<1>1. Data'
  BY DEF StartRequest, Rest, Data
<1>2. Latched' /\ OutOK(out')
  BY DEF StartRequest, Rest, Latched
<1>3. OwnsBuffers' /\ CancelOwned'
  BY DEF StartRequest, Ready, Rest, OwnsBuffers, CancelOwned, Running
<1> QED
  BY <1>1, <1>2, <1>3 DEF Rest

LEMMA OverStep ==
    ASSUME Flags, Rest, NEW o, OutOK(o), RequestOver(o), abandoned \/ ~o.resp.old
    PROVE  OutOK(out') /\ Rest'
<1> DEFINE e == IF abandoned THEN [o EXCEPT !.resp = NoResp] ELSE o
<1>1. out' = Drain(e, FALSE)
  BY DEF RequestOver
<1>2. OutOK(e) /\ ~e.resp.old
  <2>1. CASE abandoned
    <3>1. NoResp \in Resps /\ ~NoResp.old
      BY LengthAssumption DEF NoResp, Resps, Ids
    <3>2. /\ e.resp = NoResp /\ e.short = o.short /\ e.resync = o.resync
          /\ e.sent = o.sent /\ e.acked = o.acked /\ e \in Outs
      BY <2>1, <3>1 DEF OutOK, Outs
    <3> QED
      BY <3>1, <3>2 DEF OutOK
  <2>2. CASE ~abandoned
    BY <2>2
  <2> QED
    BY <2>1, <2>2
<1> HIDE DEF e
<1>3. OutOK(out') /\ ~out'.resp.old
  BY <1>1, <1>2, DrainOK
<1>4. NoJob \in [cid : Channels \cup {None}, old : BOOLEAN] /\ NoJob.cid = None /\ ~NoJob.old
  BY DEF NoJob
<1>5. Data'
  BY <1>4, Assembly DEF RequestOver, Rest, Data, touchVars
<1>6. Latched'
  BY <1>3, <1>4 DEF RequestOver, Latched
<1>7. OwnsBuffers' /\ CancelOwned'
  BY <1>4 DEF RequestOver, OwnsBuffers, CancelOwned, Running
<1> QED
  BY <1>3, <1>5, <1>6, <1>7 DEF Rest

LEMMA SkipStep ==
    ASSUME Flags, OutOK(out), Rest, SkipAbandoned
    PROVE  OutOK(out') /\ Rest'
  BY OverStep DEF SkipAbandoned

(* The request that ends without having been abandoned is not old. *)
LEMMA FinishStep ==
    ASSUME Flags, OutOK(out), Rest, Finish
    PROVE  OutOK(out') /\ Rest'
<1>1. Running /\ job.cid \in Channels /\ out.resp = NoResp
  BY DEF Finish, Running, Rest, OwnsBuffers, Data
<1>2. ASSUME NEW n \in 1 .. MaxAnswer,
             RequestOver(queue_response(out, [cid |-> job.cid, kind |-> "answer", old |-> job.old], n))
      PROVE  OutOK(out') /\ Rest'
  <2> DEFINE p == [cid |-> job.cid, kind |-> "answer", old |-> job.old]
             o == queue_response(out, p, n)
  <2>1. p \in Held /\ p.cid # None /\ p.old = job.old /\ p.kind = "answer"
    BY <1>1, ChannelsAssumption DEF Held, Rest, Data
  <2> HIDE DEF p
  <2>2. CASE abandoned
    <3>1. OutOK(o)
      BY <2>1, QueueAnyOK
    <3> QED
      BY <1>2, <2>2, <3>1, OverStep DEF p
  <2>3. CASE ~abandoned
    <3>1. ~p.old
      BY <2>1, <2>3 DEF Rest, Latched
    <3>2. OutOK(o) /\ ~o.resp.old
      BY <2>1, <3>1, QueueOK
    <3> QED
      BY <1>2, <3>2, OverStep DEF p
  <2> QED
    BY <2>2, <2>3
<1>3. ASSUME RequestOver(reply_short(out, [cid |-> job.cid, kind |-> "error", old |-> job.old]))
      PROVE  OutOK(out') /\ Rest'
  <2> DEFINE p == [cid |-> job.cid, kind |-> "error", old |-> job.old]
  <2>1. p \in Held /\ p.cid = job.cid /\ p.cid # None /\ p.old = job.old /\ p.kind = "error"
    BY <1>1, ChannelsAssumption DEF Held, Rest, Data
  <2> HIDE DEF p
  <2>2. CASE abandoned
    <3>1. reply_short(out, p) = out
      BY <2>1, <2>2 DEF reply_short
    <3> QED
      BY <1>3, <2>2, <3>1, OverStep DEF p
  <2>3. CASE ~abandoned
    <3>1. ~p.old
      BY <2>1, <2>3 DEF Rest, Latched
    <3>2. OutOK(reply_short(out, p)) /\ ~reply_short(out, p).resp.old
      BY <1>1, <2>1, <3>1, ReplyOK DEF Flags, NoResp
    <3> QED
      BY <1>3, <3>2, OverStep DEF p
  <2> QED
    BY <2>2, <2>3
<1> QED
  BY <1>2, <1>3 DEF Finish

LEMMA OutputStep ==
    ASSUME Flags, OutOK(out), Rest, TaskOutput
    PROVE  OutOK(out') /\ Rest'
<1>1. out.resp.old => abandoned /\ out.resync # NoPacket
  BY DEF Rest, Latched, NoPacket, Packet
<1>2. /\ OutOK(out') /\ (out'.resp.old => out.resp.old)
      /\ abandoned => out'.resync = out.resync
  BY <1>1, DrainOK DEF TaskOutput, Flags
<1>3. Data'
  BY DEF TaskOutput, Rest, Data, touchVars
<1>4. Latched'
  BY <1>2 DEF TaskOutput, Rest, Latched
<1>5. OwnsBuffers' /\ CancelOwned'
  BY DEF TaskOutput, Rest, OwnsBuffers, CancelOwned, Running
<1> QED
  BY <1>2, <1>3, <1>4, <1>5 DEF Rest

LEMMA ProgressStep ==
    ASSUME Flags, OutOK(out), Rest, fido_hid_progress
    PROVE  OutOK(out') /\ Rest'
<1> DEFINE f == flush_pending(out, abandoned)
           p == [cid |-> job.cid, kind |-> "keepalive", old |-> job.old]
<1>1. OutOK(f) /\ f.resp = out.resp /\ (abandoned => f.resync = out.resync)
  BY FlushOK DEF Flags
<1>2. \/ out' = f
      \/ f.short = NoPacket /\ ~abandoned /\ out' = push_packet(f, p)
  BY DEF fido_hid_progress
<1> HIDE DEF f
<1>3. /\ OutOK(out') /\ out'.resp = out.resp
      /\ abandoned => out'.resync = out.resync
  <2>1. CASE out' = f
    BY <1>1, <2>1
  <2>2. CASE f.short = NoPacket /\ ~abandoned /\ out' = push_packet(f, p)
    <3>1. p \in Held /\ p.cid # None /\ p.old = job.old
      BY ChannelsAssumption DEF fido_hid_progress, Held, Rest, Data, OwnsBuffers
    <3> HIDE DEF p
    <3>2. Sendable(p, f.acked)
      BY <2>2, <3>1 DEF Rest, Latched, Sendable
    <3> QED
      BY <1>1, <2>2, <3>1, <3>2, PushOK
  <2> QED
    BY <1>2, <2>1, <2>2
<1>4. Data'
  BY DEF fido_hid_progress, Rest, Data, touchVars
<1>5. Latched'
  BY <1>3 DEF fido_hid_progress, Rest, Latched
<1>6. OwnsBuffers' /\ CancelOwned'
  BY <1>3 DEF fido_hid_progress, Rest, OwnsBuffers, CancelOwned, Running
<1> QED
  BY <1>3, <1>4, <1>5, <1>6 DEF Rest

LEMMA PollStep ==
    ASSUME Flags, OutOK(out), Rest, HostPoll
    PROVE  OutOK(out') /\ Rest'
<1>1. /\ out'.resp = out.resp /\ out'.short = out.short /\ out'.resync = out.resync
      /\ out'.sent = out.sent /\ out'.acked = out.acked /\ out' \in Outs
  BY DEF HostPoll, OutOK, Outs
<1>2. OutOK(out')
  BY <1>1 DEF OutOK
<1>3. Data'
  BY DEF HostPoll, Rest, Data, touchVars
<1>4. Latched' /\ OwnsBuffers' /\ CancelOwned'
  BY <1>1 DEF HostPoll, Rest, Latched, OwnsBuffers, CancelOwned, Running
<1> QED
  BY <1>2, <1>3, <1>4 DEF Rest

-----------------------------------------------------------------------------
(* The touch wait. *)

LEMMA PresenceStep ==
    ASSUME Flags, OutOK(out), Rest, user_presence
    PROVE  OutOK(out') /\ Rest'
<1>1. UNCHANGED <<asm, job, abandoned, cancel, out, packets, canceller>>
  BY DEF user_presence, RequestTouch, OpenPgpTouch, user_presence_check, WaitOver, Button
<1>2. touch' \in {"none", "ok", "cancel", "fail"} /\ loop' \in {"main", "fido", "touch", "pgp"}
  BY DEF user_presence, RequestTouch, OpenPgpTouch, user_presence_check, WaitOver, Button, Rest, Data
<1>3. Running' <=> Running
  BY DEF user_presence, RequestTouch, OpenPgpTouch, user_presence_check, WaitOver, Button,
         Running, Awaiting
<1>4. Data'
  BY <1>1, <1>2 DEF Rest, Data
<1>5. Latched' /\ OwnsBuffers' /\ CancelOwned' /\ OutOK(out')
  BY <1>1, <1>3 DEF Rest, Latched, OwnsBuffers, CancelOwned
<1> QED
  BY <1>4, <1>5 DEF Rest

(* A step outside the wait leaves the button and the answer alone. *)
LEMMA ConsentStep ==
    ASSUME Flags, FreshConsent, Pressing, [Next]_vars
    PROVE  FreshConsent' /\ Pressing'
<1> USE DEF FreshConsent, Pressing, Awaiting
<1>1. CASE HostPacket
  <2>1. UNCHANGED <<loop, touchVars>>
    BY <1>1 DEF HostPacket, handle_init, InitBadLength, Cancel, handle_init_packet,
                handle_cont_packet, OnBroadcast
  <2> QED
    BY <2>1 DEF touchVars
<1>2. CASE StartRequest
  BY <1>2 DEF StartRequest
<1>3. CASE SkipAbandoned \/ Finish
  BY <1>3 DEF SkipAbandoned, Finish, RequestOver, touchVars
<1>4. CASE TaskOutput \/ fido_hid_progress \/ HostPoll
  BY <1>4 DEF TaskOutput, fido_hid_progress, HostPoll, touchVars
<1>5. CASE RequestTouch \/ OpenPgpTouch
  <2>1. touch' # "ok" /\ pressed' = pressed /\ (pressed => loop' = loop)
    BY <1>5 DEF RequestTouch, OpenPgpTouch, user_presence_check
  <2>2. loop \notin {"touch", "pgp"}
    BY <1>5 DEF RequestTouch, OpenPgpTouch
  <2> QED
    BY <2>1, <2>2
<1>6. CASE WaitOver
  BY <1>6 DEF WaitOver
<1>7. CASE Button
  BY <1>7 DEF Button, Flags
<1>8. CASE UNCHANGED vars
  BY <1>8 DEF vars
<1> QED
  BY <1>1, <1>2, <1>3, <1>4, <1>5, <1>6, <1>7, <1>8
     DEF Next, fido_hid_task, user_presence

LEMMA FlagsStep == Flags /\ [Next]_vars => Flags'
<1> SUFFICES ASSUME Flags, [Next]_vars PROVE Flags'
  OBVIOUS
<1> USE DEF Flags
<1>1. ASSUME NEW c \in Channels, handle_init(c) PROVE Flags'
  BY <1>1, Zenon DEF handle_init, Abandon, Resync, touchVars, Running
<1>2. ASSUME NEW c \in Channels, InitBadLength(c) \/ Cancel(c) PROVE Flags'
  BY <1>2, Zenon DEF InitBadLength, Cancel, touchVars, Running
<1>3. ASSUME NEW c \in Channels, handle_init_packet(c) \/ handle_cont_packet(c) PROVE Flags'
  BY <1>3, Zenon DEF handle_init_packet, handle_cont_packet, touchVars
<1>4. CASE OnBroadcast
  BY <1>4, Zenon DEF OnBroadcast, touchVars
<1>5. CASE StartRequest \/ TaskOutput
  BY <1>5, Zenon DEF StartRequest, TaskOutput, touchVars
<1>6. CASE SkipAbandoned
  BY <1>6, Zenon DEF SkipAbandoned, RequestOver, touchVars
<1>7. CASE Finish
  BY <1>7, Zenon DEF Finish, RequestOver, touchVars
<1>8. CASE fido_hid_progress \/ HostPoll
  BY <1>8, Zenon DEF fido_hid_progress, HostPoll, touchVars
<1>9. CASE RequestTouch \/ OpenPgpTouch
  BY <1>9, Zenon DEF RequestTouch, OpenPgpTouch, user_presence_check
<1>10. CASE WaitOver \/ Button
  BY <1>10, Zenon DEF WaitOver, Button
<1>11. CASE UNCHANGED vars
  BY <1>11, Zenon DEF vars
<1> QED
  BY <1>1, <1>2, <1>3, <1>4, <1>5, <1>6, <1>7, <1>8, <1>9, <1>10, <1>11
     DEF Next, HostPacket, fido_hid_task, user_presence

-----------------------------------------------------------------------------
LEMMA InvInit == Init => Inv
<1> SUFFICES ASSUME Init PROVE Inv
  OBVIOUS
<1> USE DEF Init
<1>1. NoPacket \in Held /\ ~NoPacket.old /\ NoResp \in Resps /\ ~NoResp.old
  BY LengthAssumption DEF NoPacket, Packet, Held, NoResp, Resps, Ids
<1>2. /\ out.resp = NoResp /\ out.short = NoPacket /\ out.resync = NoPacket
      /\ out.sent = NoPacket /\ out.acked = {} /\ out \in Outs
  BY <1>1 DEF Idle, Outs
<1>3. OutOK(out)
  BY <1>1, <1>2 DEF OutOK, Sendable
<1>4. Data
  BY LengthAssumption DEF Data, NoAsm, NoJob
<1>5. Latched /\ OwnsBuffers /\ CancelOwned
  BY <1>1, <1>2 DEF Latched, OwnsBuffers, CancelOwned, NoJob, NoAsm, Running
<1>6. FreshConsent /\ Pressing
  BY DEF FreshConsent, Pressing
<1>7. Flags
  BY DEF Flags
<1> QED
  BY <1>3, <1>4, <1>5, <1>6, <1>7 DEF Inv, Rest

LEMMA InvNext == Inv /\ [Next]_vars => Inv'
<1> SUFFICES ASSUME Inv, [Next]_vars PROVE Inv'
  OBVIOUS
<1>1. Flags /\ OutOK(out) /\ Rest /\ FreshConsent /\ Pressing
  BY DEF Inv
<1>2. Flags'
  BY <1>1, FlagsStep
<1>3. FreshConsent' /\ Pressing'
  BY <1>1, ConsentStep
<1>4. OutOK(out') /\ Rest'
  <2>1. CASE HostPacket
    BY <1>1, <2>1, AbandonStep, ResyncStep, BadLengthStep, CancelStep, InitPacketStep,
       ContPacketStep, BroadcastStep
       DEF HostPacket, handle_init
  <2>2. CASE fido_hid_task \/ Finish
    BY <1>1, <2>2, StartStep, SkipStep, OutputStep, FinishStep DEF fido_hid_task
  <2>3. CASE fido_hid_progress \/ user_presence \/ HostPoll
    BY <1>1, <2>3, ProgressStep, PresenceStep, PollStep
  <2>4. CASE UNCHANGED vars
    BY <1>1, <2>4 DEF vars, Rest, Data, Latched, OwnsBuffers, CancelOwned, Running
  <2> QED
    BY <2>1, <2>2, <2>3, <2>4 DEF Next
<1> QED
  BY <1>2, <1>3, <1>4 DEF Inv

(* The state of ctaphid.c and of the touch wait keeps its types; packets   *)
(* are outstanding exactly while there is an assembly.                     *)
THEOREM TypeCorrect == Spec => []TypeOK
<1>1. Inv => TypeOK
  <2> SUFFICES ASSUME Inv PROVE TypeOK
    OBVIOUS
  <2>1. /\ out.resp \in Resps /\ out.short \in Held /\ out.resync \in Held /\ out.sent \in Held
        /\ out.ready \in BOOLEAN /\ out.acked \in SUBSET (Channels \cup {Broadcast})
    BY DEF Inv, OutOK, Outs
  <2>2. out.resp.cid = None <=> out.resp.left = 0
    BY DEF Inv, OutOK, NoResp
  <2>3. Flags /\ Data
    BY DEF Inv, Rest
  <2> QED
    BY <2>1, <2>2, <2>3 DEF TypeOK, Resps, Ids, Flags, Data
<1> QED
  BY InvInit, InvNext, <1>1, PTL DEF Spec

(* Once INIT has arrived on a channel, nothing of what the channel did     *)
(* before goes out but a refusal, and not even that once INIT is answered: *)
(* handle_init, flush_pending and fido_hid_task together see to it,        *)
(* wherever the stale packet was held.                                     *)
THEOREM InitEndsTheOld == Spec => []NothingStale
<1>1. Inv => NothingStale
  BY DEF Inv, OutOK, Sendable, NothingStale
<1> QED
  BY InvInit, InvNext, <1>1, PTL DEF Spec

(* No packet that arrives while a request is queued or runs touches the    *)
(* buffers that it uses.                                                   *)
THEOREM BuffersOwned == Spec => []OwnsBuffers
<1>1. Inv => OwnsBuffers
  BY DEF Inv, Rest
<1> QED
  BY InvInit, InvNext, <1>1, PTL DEF Spec

(* s_cancel is only ever set for the running request, by its own channel.  *)
THEOREM CancelIsOwned == Spec => []CancelOwned
<1>1. Inv => CancelOwned
  BY DEF Inv, Rest
<1> QED
  BY InvInit, InvNext, <1>1, PTL DEF Spec

(* user_presence_check answers OK only for a press made during its wait.   *)
THEOREM ConsentIsFresh == Spec => []FreshConsent
<1>1. Inv => FreshConsent
  BY DEF Inv
<1> QED
  BY InvInit, InvNext, <1>1, PTL DEF Spec

-----------------------------------------------------------------------------
(* What the main loop passes over. *)

(* A request was left by its host while it was queued behind an answer     *)
(* that is not out: the answer waits for the answer to the INIT, which     *)
(* waits for the request, which waits for the answer.                      *)
Knot == abandoned /\ ~Running /\ out.resp # NoResp

Work == job.cid # None \/ out.resp # NoResp \/ out.short # NoPacket \/ out.resync # NoPacket

(* A round starts a request, ends one or sends. *)
Moves == loop' = "fido" \/ (job.cid # None /\ job'.cid = None) \/ ~out'.ready

(* Every round of fido_hid_task that finds work and a free endpoint moves  *)
(* something, except in the knot.                                          *)
OnlyTheKnotWaits == [][fido_hid_task /\ Work /\ out.ready /\ ~Knot => Moves]_vars

(* Nothing ends the knot but an INIT of the answer's host, and that only   *)
(* if the request is another channel's.                                    *)
KnotIsTight ==
    [][Knot => \/ Knot'
               \/ out.resp.cid # job.cid /\ \E c \in Channels : c = out.resp.cid /\ handle_init(c)]_vars

LEMMA PushSends == ASSUME NEW o \in Outs, NEW p PROVE push_packet(o, p).ready = FALSE
  BY DEF push_packet, Outs

LEMMA FlushSends ==
    ASSUME NEW o, OutOK(o), NEW ab \in BOOLEAN, o.ready
    PROVE  LET f == flush_pending(o, ab)
           IN  /\ o.short # NoPacket \/ (o.resync # NoPacket /\ ~ab) => ~f.ready
               /\ o.short = NoPacket /\ (o.resync = NoPacket \/ ab) => f = o
<1>1. o \in Outs /\ NoPacket \in Held
  BY DEF OutOK, NoPacket, Packet, Held
<1>2. CASE o.short # NoPacket
  <2> DEFINE e == [o EXCEPT !.short = NoPacket]
  <2>1. e \in Outs /\ flush_pending(o, ab) = push_packet(e, o.short)
    BY <1>1, <1>2 DEF flush_pending, Outs
  <2> HIDE DEF e
  <2> QED
    BY <1>2, <2>1, PushSends
<1>3. CASE o.short = NoPacket /\ o.resync # NoPacket /\ ~ab
  <2> DEFINE e == [o EXCEPT !.resync = NoPacket]
  <2>1. e \in Outs /\ flush_pending(o, ab) = push_packet(e, o.resync)
    BY <1>1, <1>3 DEF flush_pending, Outs
  <2> HIDE DEF e
  <2> QED
    BY <1>3, <2>1, PushSends
<1>4. CASE o.short = NoPacket /\ (o.resync = NoPacket \/ ab)
  BY <1>4 DEF flush_pending
<1> QED
  BY <1>2, <1>3, <1>4

(* What Drain finds to send it sends, unless the answer to an INIT is held *)
(* back, which holds the response back too.                                *)
LEMMA DrainSends ==
    ASSUME NEW o, OutOK(o), NEW ab \in BOOLEAN, o.ready,
           \/ o.short # NoPacket
           \/ o.resync # NoPacket /\ ~ab
           \/ o.resync = NoPacket /\ o.resp # NoResp
    PROVE  ~Drain(o, ab).ready
<1> DEFINE f == flush_pending(o, ab)
<1>1. /\ o.short # NoPacket \/ (o.resync # NoPacket /\ ~ab) => ~f.ready
      /\ o.short = NoPacket /\ (o.resync = NoPacket \/ ab) => f = o
  BY FlushSends
<1>2. Drain(o, ab) = IF f.short = NoPacket /\ f.resync = NoPacket THEN emit_response_packet(f) ELSE f
  BY DEF Drain
<1> HIDE DEF f
<1>3. CASE ~f.ready
  BY <1>2, <1>3 DEF emit_response_packet
<1>4. CASE f = o /\ o.short = NoPacket /\ o.resync = NoPacket /\ o.resp # NoResp
  <2> DEFINE r == IF o.resp.left = 1 THEN NoResp ELSE [o.resp EXCEPT !.left = o.resp.left - 1]
             e == [o EXCEPT !.resp = r]
             p == [cid |-> o.resp.cid, kind |-> o.resp.kind, old |-> o.resp.old]
  <2>1. emit_response_packet(o) = push_packet(e, p)
    BY <1>4 DEF emit_response_packet
  <2>2. o \in Outs /\ o.resp \in Resps /\ o.resp.left # 0
    BY <1>4 DEF OutOK, Outs
  <2>3. r \in Resps
    BY <2>2, LengthAssumption DEF Resps, NoResp, Ids
  <2> HIDE DEF r, p
  <2>4. e \in Outs
    BY <2>2, <2>3 DEF Outs
  <2> HIDE DEF e
  <2> QED
    BY <1>2, <1>4, <2>1, <2>4, PushSends
<1> QED
  BY <1>1, <1>3, <1>4

LEMMA RoundMoves ==
    ASSUME Inv, fido_hid_task, Work, out.ready, ~Knot
    PROVE  Moves
<1>1. Flags /\ OutOK(out) /\ Latched
  BY DEF Inv, Rest
<1>2. CASE StartRequest
  BY <1>2 DEF StartRequest, Moves
<1>3. CASE SkipAbandoned
  BY <1>3 DEF SkipAbandoned, Ready, RequestOver, NoJob, Moves
<1>4. CASE TaskOutput
  <2>1. loop = "main" /\ ~Ready /\ out' = Drain(out, abandoned)
    BY <1>4 DEF TaskOutput
  <2>2. job.cid # None => out.resp # NoResp
    BY <2>1 DEF Ready
  <2>3. ~abandoned
    BY <1>1, <2>1, <2>2 DEF Latched, Knot, Running
  <2>4. ~Drain(out, abandoned).ready
    BY <1>1, <2>2, <2>3, DrainSends DEF Work, Flags
  <2> QED
    BY <2>1, <2>4 DEF Moves
<1> QED
  BY <1>2, <1>3, <1>4 DEF fido_hid_task

(* An INIT on a channel that the answer is not for leaves the answer. *)
LEMMA ResyncKeeps ==
    ASSUME Flags, OutOK(out), NEW c \in Channels, Resync(c), job.cid # None, out.resp.cid # c
    PROVE  out'.resp = out.resp
<1> DEFINE s == Superseded(c)
           e == [s EXCEPT !.resp = IF s.resp.cid = c THEN NoResp ELSE s.resp]
           p == Packet(c, "init")
<1>1. OutOK(s) /\ s.resp = out.resp
  BY SupersededOK DEF Age
<1>2. out' = reply_short(e, p)
  BY DEF Resync
<1> HIDE DEF s
<1>3. p \in Held /\ ~p.old /\ p.cid # None /\ p.kind = "init"
  BY ChannelsAssumption DEF Packet, Held
<1> HIDE DEF p
<1>4. /\ e.resp = s.resp /\ e.short = s.short /\ e.resync = s.resync
      /\ e.sent = s.sent /\ e.acked = s.acked /\ e \in Outs
  BY <1>1 DEF OutOK, Outs
<1> HIDE DEF e
<1>5. OutOK(e)
  BY <1>1, <1>4 DEF OutOK
<1> QED
  BY <1>1, <1>2, <1>3, <1>4, <1>5, ReplyOK DEF Flags

LEMMA AbandonKeeps ==
    ASSUME OutOK(out), NEW c \in Channels, Abandon(c), out.resp # NoResp
    PROVE  out'.resp # NoResp
<1> DEFINE s == Superseded(c)
<1>1. OutOK(s) /\ s.resp = Age(out.resp, c)
  BY SupersededOK
<1>2. out' = [s EXCEPT !.resync = Packet(c, "init")]
  BY DEF Abandon
<1> HIDE DEF s
<1>3. out'.resp = Age(out.resp, c)
  BY <1>1, <1>2 DEF OutOK, Outs
<1>4. out.resp \in Resps
  BY DEF OutOK, Outs
<1> QED
  BY <1>3, <1>4 DEF Age, Resps, NoResp

LEMMA KnotStep ==
    ASSUME Inv, [Next]_vars, Knot
    PROVE  \/ Knot'
           \/ out.resp.cid # job.cid /\ \E c \in Channels : c = out.resp.cid /\ handle_init(c)
<1>1. Flags /\ OutOK(out) /\ Latched /\ OwnsBuffers
  BY DEF Inv, Rest
<1>2. abandoned /\ ~Running /\ out.resp # NoResp /\ job.cid # None /\ asm.cid = None
      /\ out.resync # NoPacket
  BY <1>1 DEF Knot, Latched, OwnsBuffers, NoPacket, Packet
<1>3. ASSUME NEW c \in Channels, handle_init(c), Abandon(c) PROVE Knot'
  BY <1>1, <1>2, <1>3, AbandonKeeps DEF handle_init, Abandon, Knot, Running
<1>4. ASSUME NEW c \in Channels, handle_init(c), Resync(c), out.resp.cid # c PROVE Knot'
  BY <1>1, <1>2, <1>4, ResyncKeeps DEF handle_init, Resync, Knot, Running
<1>5. ASSUME UNCHANGED <<abandoned, loop>>, out'.resp = out.resp PROVE Knot'
  BY <1>2, <1>5 DEF Knot, Running
<1>6. ASSUME NEW c \in Channels, InitBadLength(c) \/ Cancel(c) PROVE Knot'
  <2>1. out'.resp = out.resp
    BY <1>1, <1>2, <1>6, ErrorReply DEF InitBadLength, Cancel
  <2> QED
    BY <1>5, <1>6, <2>1 DEF InitBadLength, Cancel
<1>7. ASSUME NEW c \in Channels, handle_init_packet(c) PROVE Knot'
  <2>1. RefuseBusy(c)
    BY <1>2, <1>7 DEF handle_init_packet, Accept, RefuseLong
  <2>2. out'.resp = out.resp
    BY <1>1, <1>2, <2>1, ErrorReply DEF RefuseBusy
  <2> QED
    BY <1>5, <1>7, <2>2 DEF handle_init_packet
<1>8. ASSUME NEW c \in Channels PROVE ~handle_cont_packet(c)
  BY <1>2, ChannelsAssumption DEF handle_cont_packet
<1>9. CASE OnBroadcast
  <2>1. out'.resp = out.resp
    BY <1>1, <1>2, <1>9, ShortReply DEF OnBroadcast
  <2> QED
    BY <1>5, <1>9, <2>1 DEF OnBroadcast
<1>10. ~StartRequest /\ ~SkipAbandoned /\ ~Finish /\ ~fido_hid_progress
  BY <1>2 DEF StartRequest, SkipAbandoned, Ready, Finish, fido_hid_progress, Running
<1>11. CASE TaskOutput
  <2> DEFINE f == flush_pending(out, abandoned)
  <2>1. f.resp = out.resp /\ f.resync = out.resync
    BY <1>1, <1>2, FlushOK DEF Flags
  <2>2. out' = f
    BY <1>2, <1>11, <2>1 DEF TaskOutput, Drain
  <2> QED
    BY <1>5, <1>11, <2>1, <2>2 DEF TaskOutput
<1>12. CASE user_presence
  <2>1. UNCHANGED <<abandoned, out>>
    BY <1>12 DEF user_presence, RequestTouch, OpenPgpTouch, user_presence_check, WaitOver, Button
  <2>2. ~Running'
    BY <1>2, <1>12 DEF user_presence, RequestTouch, OpenPgpTouch, user_presence_check, WaitOver, Button,
                       Running, Awaiting
  <2> QED
    BY <1>2, <2>1, <2>2 DEF Knot
<1>13. CASE HostPoll
  <2>1. out'.resp = out.resp
    BY <1>1, <1>13 DEF HostPoll, OutOK, Outs
  <2> QED
    BY <1>5, <1>13, <2>1 DEF HostPoll
<1>14. CASE UNCHANGED vars
  BY <1>5, <1>14 DEF vars
<1>15. ASSUME NEW c \in Channels, handle_init(c)
       PROVE  Knot' \/ (out.resp.cid = c /\ out.resp.cid # job.cid)
  BY <1>3, <1>4, <1>15 DEF handle_init, Resync
<1> QED
  BY <1>6, <1>7, <1>8, <1>9, <1>10, <1>11, <1>12, <1>13, <1>14, <1>15
     DEF Next, HostPacket, fido_hid_task

(* A round of the main loop that finds work and a free endpoint starts a   *)
(* request, ends one or sends a packet, unless a request was abandoned in  *)
(* the queue behind an unsent answer: that wait is the only one that       *)
(* fido_hid_task has, beside the one for the host's poll.                  *)
THEOREM LoopProgress == Spec => OnlyTheKnotWaits
<1>1. Inv /\ [Next]_vars => [fido_hid_task /\ Work /\ out.ready /\ ~Knot => Moves]_vars
  BY RoundMoves
<1> QED
  BY InvInit, InvNext, <1>1, PTL DEF Spec, OnlyTheKnotWaits

(* Once three wait for one another, no round of the loop, no poll, no      *)
(* touch, no timeout and no packet frees them but an INIT on the channel   *)
(* of the answer, and if the request is of that channel, not even that.    *)
THEOREM KnotHolds == Spec => KnotIsTight
<1>1. Inv /\ [Next]_vars =>
        [Knot => \/ Knot'
                 \/ out.resp.cid # job.cid /\ \E c \in Channels : c = out.resp.cid /\ handle_init(c)]_vars
  BY KnotStep
<1> QED
  BY InvInit, InvNext, <1>1, PTL DEF Spec, KnotIsTight
=============================================================================
