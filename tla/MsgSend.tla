------------------------------ MODULE MsgSend ------------------------------
(***************************************************************************)
(* The send engine of dyn_message.c on one connection: msg_send and       *)
(* msg_send_chain.                                                         *)
(*                                                                         *)
(* The upper layer (req_forward, rsp_forward) queues the messages of Out  *)
(* on the connection's outbound queue `q' and arms the write event;       *)
(* send_next walks q from its head, and send_done takes a message off q.  *)
(* A message is its chain of mbufs, each an mbuf's bytes [start, last)    *)
(* with the send cursor pos: bytes before pos were already written.       *)
(* The kernel socket buffer holds at most SNDBUF bytes; the peer drains   *)
(* it (Drain), and each drain is an edge of the edge-triggered write      *)
(* event.  DN_IOV_MAX is scaled down to a small bound.                     *)
(***************************************************************************)
EXTENDS Naturals, Sequences, SequencesExt

CONSTANTS
  Out,         \* Seq of messages to queue, each a Seq of mbuf contents
  DN_IOV_MAX,  \* iovec entries per writev
  SNDBUF       \* bytes the kernel socket buffer holds

\* A message of Out may hold no bytes (mlen 0): spec section 4.H step 4.
ASSUME DN_IOV_MAX \in Nat \ {0} /\ SNDBUF \in Nat \ {0}

VARIABLES
  pc,          \* "idle", "send" (msg_send's loop) or "closed"
  event,       \* a write-readiness edge not yet handled
  send_ready,  \* conn->send_ready
  q,           \* outbound queue: records [id, mhdr, mlen]
  queued,      \* how many of Out were queued
  sockbuf,     \* bytes in the kernel socket buffer
  wire,        \* bytes writev has accepted, in order
  done         \* ids of the messages send_done was called for, in order

vars == <<pc, event, send_ready, q, queued, sockbuf, wire, done>>

MbufLen(b) == Len(b.data) - b.pos           \* mbuf_length: last - pos
Unsent(b) == SubSeq(b.data, b.pos + 1, Len(b.data))

\* The queued form of Out[i]: every mbuf unsent, mlen its byte count.
OutMsg(i) ==
  [id |-> i,
   mhdr |-> [j \in 1..Len(Out[i]) |-> [data |-> Out[i][j], pos |-> 0]],
   mlen |-> Len(FlattenSeq(Out[i]))]

MsgBytes(m) == FlattenSeq([j \in 1..Len(m.mhdr) |-> Unsent(m.mhdr[j])])

SumLens(s) == FoldLeft(LAMBDA a, x : a + x, 0, s)

(***************************************************************************)
(* The batch msg_send_chain builds: messages from the head of q; each    *)
(* non-empty mbuf is one iovec entry, until DN_IOV_MAX entries are taken  *)
(* or send_next has no next message.  (nsend never nears SSIZE_MAX, so   *)
(* the limit check never caps an entry.)                                   *)
(***************************************************************************)
Entries(m) == SelectSeq([j \in 1..Len(m.mhdr) |-> Unsent(m.mhdr[j])],
                        LAMBDA d : d # <<>>)

Lens(s) == [k \in 1..Len(s) |-> Len(s[k])]

\* Iovec entries taken from the first i messages of q.
Taken(i) == SumLens([k \in 1..i |-> Len(Entries(q[k]))])

\* Number of messages in send_msgq: the loop stops after the message that
\* fills the iovec array.
BatchLen ==
  LET full == {i \in 1..Len(q) : Taken(i) >= DN_IOV_MAX}
  IN  IF full = {} THEN Len(q) ELSE Min(full)

\* The sendv array: the first DN_IOV_MAX entries of the batch.
SendV ==
  LET e == FlattenSeq([k \in 1..BatchLen |-> Entries(q[k])])
  IN  SubSeq(e, 1, IF Len(e) < DN_IOV_MAX THEN Len(e) ELSE DN_IOV_MAX)

(***************************************************************************)
(* Post-processing of nsent bytes: in queue order each message's          *)
(* non-empty mbufs advance pos, the one the count runs out in partially.  *)
(* A message reached with nsent > 0 whose mbufs were all consumed is      *)
(* done; one reached with nsent = 0 is done only when its mlen is 0.      *)
(***************************************************************************)
Before(i) == SumLens([k \in 1..(i - 1) |-> SumLens(Lens(Entries(q[k])))])

Left(i, n) == IF n > Before(i) THEN n - Before(i) ELSE 0

\* Post-processing that treats an mbuf the count reaches as fully sent.
AdvanceWholeMbuf(m, a) ==
  LET lens == [j \in 1..Len(m.mhdr) |-> MbufLen(m.mhdr[j])]
      pre(j) == SumLens(SubSeq(lens, 1, j - 1))
      take(j) == IF a <= pre(j) THEN 0 ELSE lens[j]
  IN  [m EXCEPT !.mhdr = [j \in 1..Len(m.mhdr) |->
                            [m.mhdr[j] EXCEPT !.pos = @ + take(j)]]]

Advance(m, a) ==
  LET lens == [j \in 1..Len(m.mhdr) |-> MbufLen(m.mhdr[j])]
      pre(j) == SumLens(SubSeq(lens, 1, j - 1))
      take(j) == IF a <= pre(j) THEN 0
                 ELSE IF a - pre(j) < lens[j] THEN a - pre(j) ELSE lens[j]
  IN  [m EXCEPT !.mhdr = [j \in 1..Len(m.mhdr) |->
                            [m.mhdr[j] EXCEPT !.pos = @ + take(j)]]]

\* A partial-mbuf test of nsent <= mlen instead of nsent < mlen: an mbuf
\* the count ends exactly at is taken as partly sent.
IsSentStrict(i, n) ==
  IF Left(i, n) > 0 THEN Left(i, n) > SumLens(Lens(Entries(q[i])))
  ELSE q[i].mlen = 0

IsSent(i, n) ==
  IF Left(i, n) > 0 THEN Left(i, n) >= SumLens(Lens(Entries(q[i])))
  ELSE q[i].mlen = 0

(***************************************************************************)
(* The upper layer queues a message and arms the write event; it runs on  *)
(* the same event-loop thread, so never inside msg_send.                   *)
(***************************************************************************)
Enqueue ==
  /\ pc = "idle"
  /\ queued < Len(Out)
  /\ q' = Append(q, OutMsg(queued + 1))
  /\ queued' = queued + 1
  /\ event' = TRUE
  /\ UNCHANGED <<pc, send_ready, sockbuf, wire, done>>

\* The peer reads bytes from the socket buffer: space opens, an edge fires.
Drain ==
  /\ sockbuf > 0
  /\ \E k \in 1..sockbuf : sockbuf' = sockbuf - k
  /\ event' = TRUE
  /\ UNCHANGED <<pc, send_ready, q, queued, wire, done>>

\* msg_send is called for the write event; it sets conn->send_ready.
MsgSendStart ==
  /\ pc = "idle" /\ event
  /\ event' = FALSE
  /\ send_ready' = TRUE
  /\ pc' = "send"
  /\ UNCHANGED <<q, queued, sockbuf, wire, done>>

\* send_next finds nothing to send: msg_send returns.
MsgSendNothing ==
  /\ pc = "send"
  /\ q = <<>>
  /\ pc' = "idle"
  /\ UNCHANGED <<event, send_ready, q, queued, sockbuf, wire, done>>

\* conn_sendv: writev takes what fits in the socket buffer.
Written(room, nsend) == IF room < nsend THEN room ELSE nsend

DN_EAGAIN == -2

\* conn_sendv's return (spec section 6): a writev of nothing returns 0, a
\* full socket buffer gives EAGAIN, otherwise the bytes written.
ConnSendv(room, nsend) ==
  IF nsend = 0 THEN 0 ELSE IF room = 0 THEN DN_EAGAIN ELSE Written(room, nsend)

\* msg_send_chain's return: DN_OK after a write or on EAGAIN, else DN_ERROR.
ChainStatus(n) == IF n > 0 \/ n = DN_EAGAIN THEN "DN_OK" ELSE "DN_ERROR"

\* msg_send: a status other than DN_OK goes back to the event loop, which
\* closes the connection; otherwise do { } while (conn->send_ready).
SendLoop(status, ready) ==
  pc' = IF status # "DN_OK" THEN "closed" ELSE IF ready THEN "send" ELSE "idle"

(***************************************************************************)
(* msg_send_chain: build the batch, one writev (conn_sendv), post-process *)
(* with nsent = max(n, 0), send_done on each finished message, and back   *)
(* in msg_send loop while send_ready.  conn_sendv clears send_ready on   *)
(* EAGAIN, on a return of 0 and on a short write.  A batch of mlen-0      *)
(* messages alone has nsend 0: a build with assertions stops at           *)
(* ASSERT(nsend != 0); without them writev of nothing returns 0.           *)
(***************************************************************************)
MsgSendChain ==
  /\ pc = "send"
  /\ q # <<>>
  /\ LET nsend == SumLens(Lens(SendV))
         room  == SNDBUF - sockbuf
         n     == ConnSendv(room, nsend)
         nsent == IF n > 0 THEN n ELSE 0
         adv   == [i \in 1..Len(q) |->
                     IF i <= BatchLen THEN Advance(q[i], Left(i, nsent))
                     ELSE q[i]]
         fin   == SelectSeq([i \in 1..BatchLen |-> i],
                            LAMBDA i : IsSent(i, nsent))
         ids   == [k \in 1..Len(fin) |-> q[fin[k]].id]
         ready == n > 0 /\ n = nsend
     IN  /\ wire' = wire \o SubSeq(FlattenSeq(SendV), 1, nsent)
         /\ sockbuf' = sockbuf + nsent
         /\ q' = SelectSeq(adv, LAMBDA m : m.id \notin ToSet(ids))
         /\ done' = done \o ids
         /\ send_ready' = ready
         /\ SendLoop(ChainStatus(n), ready)
  /\ UNCHANGED <<event, queued>>

Init ==
  /\ pc = "idle"
  /\ event = FALSE
  /\ send_ready = FALSE
  /\ q = <<>>
  /\ queued = 0
  /\ sockbuf = 0
  /\ wire = <<>>
  /\ done = <<>>

Next ==
  \/ Enqueue
  \/ Drain
  \/ MsgSendStart
  \/ MsgSendNothing
  \/ MsgSendChain

\* The peer keeps reading, and the event loop keeps serving a ready
\* connection.  The upper layer queues at its own pace (no fairness).
Fairness ==
  /\ WF_vars(Drain)
  /\ WF_vars(MsgSendStart)
  /\ WF_vars(MsgSendNothing)
  /\ WF_vars(MsgSendChain)

Spec == Init /\ [][Next]_vars /\ Fairness

(***************************************************************************)
(* Properties.                                                             *)
(***************************************************************************)

\* After any sequence of partial, short and refused writes, the bytes on
\* the wire followed by the unsent bytes of the queue, read from each mbuf's
\* pos, are exactly the queued messages' bytes; the completed messages are
\* the first ones queued, in order, and the queue holds the rest, in order
\* (spec section 5: the next send_chain resumes exactly where the last
\* stopped; section 8 property 5).
StreamResumes ==
  /\ wire \o FlattenSeq([i \in 1..Len(q) |-> MsgBytes(q[i])])
       = FlattenSeq([i \in 1..queued |-> FlattenSeq(Out[i])])
  /\ done = [i \in 1..Len(done) |-> i]
  /\ [i \in 1..Len(q) |-> q[i].id] = [i \in 1..Len(q) |-> Len(done) + i]

\* The spec completes a message with mlen 0 by send_done (section 4.H step
\* 4) and counts a sendv that writes nothing as the EAGAIN sentinel, on
\* which send_chain returns OK (sections 4.H step 5 and 6): with a socket
\* that has no fatal error, msg_send never hands the event loop an error
\* that closes the connection.
SendNeverFails == pc # "closed"

\* The engine implements ByteStream: the wire is a prefix of the queued
\* bytes, send_done comes only after a message's last byte was written,
\* and every queued message is eventually completed.
Stream == INSTANCE ByteStream
            WITH Out <- [i \in 1..Len(Out) |-> FlattenSeq(Out[i])],
                 ndone <- Len(done)

StreamRefined == Stream!SSpec
=============================================================================
