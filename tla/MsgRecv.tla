------------------------------ MODULE MsgRecv ------------------------------
(***************************************************************************)
(* The receive engine of dyn_message.c on one client connection:          *)
(* msg_recv, msg_recv_chain, msg_parse and its sub-handlers msg_parsed,    *)
(* msg_fragment and msg_repair.                                            *)
(*                                                                         *)
(* The connection's byte stream is Input (module WireFormat).  The client *)
(* has written it; the kernel makes it readable one byte at a time        *)
(* (Arrive), and each arrival is an edge of the edge-triggered readiness  *)
(* event that makes the event loop call msg_recv.                         *)
(*                                                                         *)
(* A message is a record: its buffer chain mhdr (a sequence of mbufs,     *)
(* each the sequence of its bytes [start, last)), the parse cursor pos as *)
(* an offset into the message's bytes, the counter mlen, and the fragment *)
(* fields.  conn->rmsg is `rmsg'; recv_done hands a message downstream by *)
(* appending it to `delivered' and storing the next message in rmsg, as   *)
(* req_recv_done does.  The parser is the abstract grammar of WireFormat: *)
(* it scans the tail mbuf from pos and stops at the end of a key.         *)
(***************************************************************************)
EXTENDS WireFormat, Integers

CONSTANTS
  MBUF_CAP,           \* bytes an mbuf holds between start and end
  NULL,
  HandlerAllocFails,  \* mbuf_get, mbuf_split, post_splitcopy or msg_get may
                      \* fail inside msg_recv_chain and the parse handlers
  NextGetFails        \* recv_next may find no message to get (msg_get NULL)

\* A key, and the header the fragment split writes, fit in one mbuf.
ASSUME /\ MBUF_CAP \in Nat /\ KeyLen < MBUF_CAP /\ HdrLen < MBUF_CAP
       /\ HandlerAllocFails \in BOOLEAN /\ NextGetFails \in BOOLEAN

VARIABLES
  pc,          \* "idle", "recv" (top of msg_recv's loop), "parse", or
               \* "closed" once msg_recv returned an error
  event,       \* a readiness edge not yet handled by the event loop
  avail,       \* bytes of Input the kernel has made readable
  consumed,    \* bytes of Input read by conn_recv
  recv_ready,  \* conn->recv_ready
  rmsg,        \* conn->rmsg: the message being received, or NULL
  delivered,   \* messages handed downstream by recv_done, in order
  nmsgs,       \* messages obtained from msg_get so far (their ids)
  frag_id      \* the fragment id counter

vars == <<pc, event, avail, consumed, recv_ready, rmsg, delivered, nmsgs,
          frag_id>>

Content(m) == FlattenSeq(m.mhdr)

TailStart(m) == Len(Content(m)) - Len(Last(m.mhdr))

\* msg_get: a fresh message with an empty chain and no fragment group.
NewMsg(i) ==
  [id |-> i, mhdr |-> <<>>, pos |-> 0, mlen |-> 0, frag_id |-> 0,
   first_fragment |-> FALSE, last_fragment |-> FALSE, nfrag |-> 0,
   frag_owner |-> 0]

(***************************************************************************)
(* The parser (msg->parser): from pos it scans the tail mbuf.  The end of *)
(* a key that is the request's last gives MSG_PARSE_OK, the end of any    *)
(* other key MSG_PARSE_FRAGMENT, both with pos just after the key.  When  *)
(* the scan reaches the end of a full mbuf inside a token the result is   *)
(* MSG_PARSE_REPAIR with pos at the token's start, otherwise              *)
(* MSG_PARSE_AGAIN with pos at the end.                                   *)
(***************************************************************************)
Parse(m) ==
  LET C    == Content(m)
      ends == {i \in (m.pos + 1)..Len(C) : IsKeyEnd(C[i])}
      e    == Min(ends)
  IN  IF ends # {}
        THEN [result |-> IF IsLastKey(C[e]) THEN "OK" ELSE "FRAGMENT",
              pos |-> e]
      ELSE IF Len(Last(m.mhdr)) = MBUF_CAP /\ ~IsTokenEnd(C[Len(C)])
        THEN [result |-> "REPAIR", pos |-> Len(C) - C[Len(C)][3]]
      ELSE [result |-> "AGAIN", pos |-> Len(C)]

(***************************************************************************)
(* mbuf_split(&msg->mhdr, pos, pre_splitcopy): the tail mbuf keeps the    *)
(* bytes before pos; the bytes from pos on move to a fresh mbuf, behind   *)
(* the bytes the pre-copy callback writes first.                          *)
(***************************************************************************)
SplitHead(m, p) ==
  Front(m.mhdr) \o <<SubSeq(Last(m.mhdr), 1, p - TailStart(m))>>

SplitTail(m, p, precopy) ==
  precopy \o SubSeq(Last(m.mhdr), p - TailStart(m) + 1, Len(Last(m.mhdr)))

\* Leave msg_recv_chain's parse loop and go back to msg_recv's
\* do { } while (conn->recv_ready).
BreakParseLoop == pc' = IF recv_ready THEN "recv" ELSE "idle"

\* A handler's error that msg_recv swallows: the loop goes on as if the
\* handler had returned DN_OK.
RecvErrorIgnored == BreakParseLoop

\* The handler's error travels up through msg_parse, msg_recv_chain and
\* msg_recv; the event loop closes the connection on it (outside this
\* file), and the engine never runs on the connection again.
RecvError == pc' = "closed"

(***************************************************************************)
(* The network and the event loop.                                        *)
(***************************************************************************)
Arrive ==
  /\ avail < Len(Input)
  /\ avail' = avail + 1
  /\ event' = TRUE
  /\ UNCHANGED <<pc, consumed, recv_ready, rmsg, delivered, nmsgs, frag_id>>

\* msg_recv is called for the read event; it sets conn->recv_ready.
MsgRecvStart ==
  /\ pc = "idle" /\ event
  /\ event' = FALSE
  /\ recv_ready' = TRUE
  /\ pc' = "recv"
  /\ UNCHANGED <<avail, consumed, rmsg, delivered, nmsgs, frag_id>>

(***************************************************************************)
(* One pass of msg_recv's loop up to the read: recv_next(conn, true)      *)
(* returns rmsg or a fresh message; msg_recv_chain attaches a new mbuf    *)
(* when there is none or the tail is full (and moves msg->pos to it), and *)
(* conn_recv reads at most the tail's free space.  A short read or        *)
(* EAGAIN clears recv_ready.                                               *)
(***************************************************************************)
Current == IF rmsg = NULL THEN NewMsg(nmsgs + 1) ELSE rmsg

\* No mbuf yet, or the tail is full (mbuf_full).
NeedsMbuf(m) == IF m.mhdr = <<>> THEN TRUE ELSE Len(Last(m.mhdr)) = MBUF_CAP

Target ==
  IF NeedsMbuf(Current)
    THEN [Current EXCEPT !.mhdr = Append(@, <<>>), !.pos = Len(Content(Current))]
    ELSE Current

Room == MBUF_CAP - Len(Last(Target.mhdr))

\* A read that sizes the buffer by what the socket holds, not by the space
\* left in the tail mbuf.
ReadSizeUnbounded == avail - consumed

\* conn_recv(conn, mbuf->last, msize): at most the tail's free space.
ReadSize == IF Room < avail - consumed THEN Room ELSE avail - consumed

\* conn_recv returns DN_EAGAIN: msg_recv_chain returns DN_OK.
RecvAgain ==
  /\ pc = "recv"
  /\ avail = consumed
  /\ rmsg' = Target
  /\ nmsgs' = IF rmsg = NULL THEN nmsgs + 1 ELSE nmsgs
  /\ recv_ready' = FALSE
  /\ pc' = "idle"
  /\ UNCHANGED <<event, avail, consumed, delivered, frag_id>>

\* recv_next(conn, true) gets no message: msg_recv returns DN_OK with
\* recv_ready still set, and waits for the next readiness edge.
RecvNoMsg ==
  /\ NextGetFails
  /\ pc = "recv"
  /\ rmsg = NULL
  /\ pc' = "idle"
  /\ UNCHANGED <<event, avail, consumed, recv_ready, rmsg, delivered, nmsgs,
                 frag_id>>

\* mbuf_get returns NULL: DN_ENOMEM, with the message recv_next got
\* already stored in conn->rmsg.
RecvNoMbuf ==
  /\ HandlerAllocFails
  /\ pc = "recv"
  /\ NeedsMbuf(Current)
  /\ rmsg' = IF rmsg = NULL THEN NewMsg(nmsgs + 1) ELSE rmsg
  /\ nmsgs' = IF rmsg = NULL THEN nmsgs + 1 ELSE nmsgs
  /\ RecvError
  /\ UNCHANGED <<event, avail, consumed, recv_ready, delivered, frag_id>>

\* conn_recv returns n > 0: mbuf->last and msg->mlen advance by n.
RecvData ==
  /\ pc = "recv"
  /\ avail > consumed
  /\ LET n == ReadSize
         t == Target
     IN  /\ rmsg' = [t EXCEPT
                       !.mhdr[Len(t.mhdr)] =
                          @ \o SubSeq(Input, consumed + 1, consumed + n),
                       !.mlen = @ + n]
         /\ consumed' = consumed + n
         /\ recv_ready' = (n = Room)
  /\ nmsgs' = IF rmsg = NULL THEN nmsgs + 1 ELSE nmsgs
  /\ pc' = "parse"
  /\ UNCHANGED <<event, avail, delivered, frag_id>>

(***************************************************************************)
(* One iteration of msg_recv_chain's parse loop: msg_parse on the current *)
(* message, its sub-handler, the recv_done it calls, and                   *)
(* recv_next(conn, false): the loop goes on only when recv_done stored a  *)
(* new message in rmsg.                                                    *)
(***************************************************************************)

\* MSG_PARSE_OK with no bytes after pos: recv_done(msg, NULL).
MsgParsedDone ==
  /\ pc = "parse"
  /\ LET p == Parse(rmsg)
     IN  /\ p.result = "OK"
         /\ p.pos = Len(Content(rmsg))
         /\ delivered' = Append(delivered, [rmsg EXCEPT !.pos = p.pos])
  /\ rmsg' = NULL
  /\ BreakParseLoop
  /\ UNCHANGED <<event, avail, consumed, recv_ready, nmsgs, frag_id>>

\* A split that leaves msg->mlen as it was.
ParsedMlenUnchanged(m, nbuf) == m.mlen

\* msg->mlen -= nmsg->mlen: the split-off bytes leave the message.
ParsedMlen(m, nbuf) == m.mlen - Len(nbuf)

\* MSG_PARSE_OK with unparsed bytes: msg_parsed splits them into a new
\* message and calls recv_done(msg, nmsg).
MsgParsedSplit ==
  /\ pc = "parse"
  /\ LET p    == Parse(rmsg)
         nbuf == SplitTail(rmsg, p.pos, <<>>)
         nmsg == [NewMsg(nmsgs + 1) EXCEPT !.mhdr = <<nbuf>>,
                                           !.mlen = Len(nbuf)]
     IN  /\ p.result = "OK"
         /\ p.pos # Len(Content(rmsg))
         /\ delivered' = Append(delivered,
                          [rmsg EXCEPT !.pos = p.pos,
                                       !.mhdr = SplitHead(rmsg, p.pos),
                                       !.mlen = ParsedMlen(rmsg, nbuf)])
         /\ rmsg' = nmsg
  /\ nmsgs' = nmsgs + 1
  /\ UNCHANGED <<pc, event, avail, consumed, recv_ready, frag_id>>

\* msg_parsed fails: mbuf_split returns NULL and leaves the chain whole, or
\* msg_get returns NULL after the split and the split-off mbuf is put.
MsgParsedFail ==
  /\ HandlerAllocFails
  /\ pc = "parse"
  /\ LET p == Parse(rmsg)
     IN  /\ p.result = "OK"
         /\ p.pos # Len(Content(rmsg))
         /\ \/ rmsg' = [rmsg EXCEPT !.pos = p.pos]
            \/ rmsg' = [rmsg EXCEPT !.pos = p.pos, !.mhdr = SplitHead(rmsg, p.pos)]
  /\ RecvError
  /\ UNCHANGED <<event, avail, consumed, recv_ready, delivered, nmsgs, frag_id>>

(***************************************************************************)
(* MSG_PARSE_FRAGMENT: msg_fragment.  The tail after pos moves to a new   *)
(* message behind a synthesized header (pre_splitcopy); the first split   *)
(* of a message makes it the owner of a new fragment group; the new       *)
(* message becomes the group's last fragment and the owner's nfrag grows, *)
(* on the owner wherever it is (it may have been handed downstream).      *)
(***************************************************************************)
\* mbuf_split(&msg->mhdr, msg->pos, msg->pre_splitcopy, msg): the tail mbuf
\* behind the synthesized header of the key's request.
FragmentSplit(m, p) == SplitTail(m, p, Header(Content(m)[p][1]))

\* A fragment step that leaves the owner's count alone.
BumpOwnerNoop(ds, o) == ds

\* msg->frag_owner->nfrag++ on an owner already handed downstream.
BumpOwner(ds, o) ==
  [i \in 1..Len(ds) |-> IF ds[i].id = o THEN [ds[i] EXCEPT !.nfrag = @ + 1]
                                        ELSE ds[i]]

MsgFragment ==
  /\ pc = "parse"
  /\ LET p     == Parse(rmsg)
         nbuf  == FragmentSplit(rmsg, p.pos)
         first == rmsg.frag_id = 0
         m1    == IF first
                    THEN [rmsg EXCEPT !.frag_id = frag_id + 1,
                                      !.first_fragment = TRUE,
                                      !.nfrag = 1,
                                      !.frag_owner = rmsg.id]
                    ELSE rmsg
         m2    == [m1 EXCEPT !.pos = p.pos,
                             !.mhdr = SplitHead(rmsg, p.pos),
                             !.mlen = @ - Len(nbuf),
                             !.last_fragment = FALSE,
                             !.nfrag = IF first THEN @ + 1 ELSE @]
         nmsg  == [NewMsg(nmsgs + 1) EXCEPT !.mhdr = <<nbuf>>,
                                            !.mlen = Len(nbuf),
                                            !.frag_id = m1.frag_id,
                                            !.last_fragment = TRUE,
                                            !.frag_owner = m1.frag_owner]
     IN  /\ p.result = "FRAGMENT"
         /\ delivered' = Append(BumpOwner(delivered, m1.frag_owner), m2)
         /\ rmsg' = nmsg
         /\ frag_id' = IF first THEN frag_id + 1 ELSE frag_id
  /\ nmsgs' = nmsgs + 1
  /\ UNCHANGED <<pc, event, avail, consumed, recv_ready>>

\* msg_fragment fails: mbuf_split (or its pre_splitcopy) returns NULL and
\* leaves the chain whole, or post_splitcopy or msg_get fails after the
\* split and the split-off mbuf is put; either way before any fragment
\* field is set.
MsgFragmentFail ==
  /\ HandlerAllocFails
  /\ pc = "parse"
  /\ LET p == Parse(rmsg)
     IN  /\ p.result = "FRAGMENT"
         /\ \/ rmsg' = [rmsg EXCEPT !.pos = p.pos]
            \/ rmsg' = [rmsg EXCEPT !.pos = p.pos, !.mhdr = SplitHead(rmsg, p.pos)]
  /\ RecvError
  /\ UNCHANGED <<event, avail, consumed, recv_ready, delivered, nmsgs, frag_id>>

\* MSG_PARSE_REPAIR: msg_repair splits at pos and re-inserts the tail as a
\* fresh mbuf of the same message; recv_next returns the same message, so
\* the parse loop ends.
MsgRepair ==
  /\ pc = "parse"
  /\ LET p == Parse(rmsg)
     IN  /\ p.result = "REPAIR"
         /\ rmsg' = [rmsg EXCEPT !.pos = p.pos,
                       !.mhdr = Append(SplitHead(rmsg, p.pos),
                                       SplitTail(rmsg, p.pos, <<>>))]
  /\ BreakParseLoop
  /\ UNCHANGED <<event, avail, consumed, recv_ready, delivered, nmsgs, frag_id>>

\* msg_repair's mbuf_split returns NULL: the chain is left whole.
MsgRepairFail ==
  /\ HandlerAllocFails
  /\ pc = "parse"
  /\ LET p == Parse(rmsg)
     IN  /\ p.result = "REPAIR"
         /\ rmsg' = [rmsg EXCEPT !.pos = p.pos]
  /\ RecvError
  /\ UNCHANGED <<event, avail, consumed, recv_ready, delivered, nmsgs, frag_id>>

\* MSG_PARSE_AGAIN: more bytes are needed; the parse loop ends.
MsgParseAgain ==
  /\ pc = "parse"
  /\ LET p == Parse(rmsg)
     IN  /\ p.result = "AGAIN"
         /\ rmsg' = [rmsg EXCEPT !.pos = p.pos]
  /\ BreakParseLoop
  /\ UNCHANGED <<event, avail, consumed, recv_ready, delivered, nmsgs, frag_id>>

Init ==
  /\ pc = "idle"
  /\ event = FALSE
  /\ avail = 0
  /\ consumed = 0
  /\ recv_ready = FALSE
  /\ rmsg = NULL
  /\ delivered = <<>>
  /\ nmsgs = 0
  /\ frag_id = 0

Next ==
  \/ Arrive
  \/ MsgRecvStart
  \/ RecvNoMsg
  \/ RecvNoMbuf
  \/ RecvAgain
  \/ RecvData
  \/ MsgParsedDone
  \/ MsgParsedSplit
  \/ MsgParsedFail
  \/ MsgFragment
  \/ MsgFragmentFail
  \/ MsgRepair
  \/ MsgRepairFail
  \/ MsgParseAgain

\* The client's bytes keep arriving, and the single-threaded event loop
\* keeps running the handler of a connection that has work.
Fairness ==
  /\ WF_vars(Arrive)
  /\ WF_vars(MsgRecvStart)
  /\ WF_vars(RecvAgain \/ RecvData)
  /\ WF_vars(MsgParsedDone \/ MsgParsedSplit \/ MsgFragment \/ MsgRepair
             \/ MsgParseAgain)

Spec == Init /\ [][Next]_vars /\ Fairness

(***************************************************************************)
(* Properties.                                                             *)
(***************************************************************************)

\* An mbuf holds at most MBUF_CAP bytes between start and end.
Mbuf == {b \in Seq(Bytes) : Len(b) <= MBUF_CAP}

Msg == [id : Nat, mhdr : Seq(Mbuf), pos : Nat, mlen : Int,
        frag_id : Nat, first_fragment : BOOLEAN, last_fragment : BOOLEAN,
        nfrag : Nat, frag_owner : Nat]

TypeOK ==
  /\ pc \in {"idle", "recv", "parse", "closed"}
  /\ event \in BOOLEAN /\ recv_ready \in BOOLEAN
  /\ avail \in 0..Len(Input) /\ consumed \in 0..avail
  /\ rmsg \in Msg \cup {NULL}
  /\ delivered \in Seq(Msg)
  /\ nmsgs \in Nat /\ frag_id \in Nat

\* The messages the engine holds or has handed downstream.
Msgs == Range(delivered) \cup (IF rmsg = NULL THEN {} ELSE {rmsg})

\* Every message's mlen equals the bytes of its buffer chain, through
\* reads, splits of pipelined requests, repairs and fragmentation (spec
\* section 3 invariant 1, section 8 property 1).
MlenMatchesChain == \A m \in Msgs : m.mlen = Len(Content(m))

\* The fragments of a multi-key request, in the order they were handed
\* downstream followed by the one still being received, form one group:
\* they share a frag_id and point at the first of them as frag_owner, only
\* the first has first_fragment, only the last has last_fragment, and the
\* owner's nfrag is the size of the group (spec section 3 invariant 4).
\* Messages outside a group carry no fragment state.
InFlight == IF rmsg = NULL THEN delivered ELSE Append(delivered, rmsg)

FragmentGroups ==
  LET S == InFlight
      G(g) == {i \in 1..Len(S) : S[i].frag_id = g}
  IN  /\ \A i \in 1..Len(S) : S[i].frag_id = 0 =>
           /\ ~S[i].first_fragment /\ ~S[i].last_fragment
           /\ S[i].nfrag = 0 /\ S[i].frag_owner = 0
      /\ \A g \in {S[i].frag_id : i \in 1..Len(S)} \ {0} :
           LET f == Min(G(g))  l == Max(G(g))
           IN  /\ \A i \in G(g) :
                    /\ S[i].frag_owner = S[f].id
                    /\ S[i].first_fragment <=> i = f
                    /\ S[i].last_fragment <=> i = l
                    /\ Content(S[i])[1] = Content(S[f])[1]
               /\ S[f].nfrag = Cardinality(G(g))
               /\ G(g) = f..l

\* The engine implements RequestFraming: the bytes it reads are the
\* stream's, and every request or key it hands downstream is exactly the
\* next unit of the stream, handed over only once its bytes were read;
\* with fairness, every unit is eventually handed over unless an error
\* closed the connection.  Under allocation failures this holds only
\* because every error that follows a cut of the chain (msg_parsed,
\* msg_fragment) closes the connection before the cut chain is parsed
\* again, and because no failure leaves the connection open with bytes
\* nobody will read.
Framing == INSTANCE RequestFraming
             WITH nread <- consumed,
                  out <- [i \in 1..Len(delivered) |-> Content(delivered[i])],
                  closed <- pc = "closed"

FramingRefined == Framing!ASpec
=============================================================================
