---------------------------- MODULE MsgRecvCrypt ----------------------------
(***************************************************************************)
(* The encrypted branch of msg_recv_chain: the payload of an internal-    *)
(* protocol frame whose dmsg has bit_field 1 is read as ciphertext into   *)
(* mbufs that may be filled past end up to end_extra, and decrypted into  *)
(* a fresh read_flip mbuf once dmsg->plen bytes are in or the buffer is   *)
(* full to end_extra.                                                      *)
(*                                                                         *)
(* One frame of at most PLEN ciphertext bytes is received, starting in a  *)
(* fresh mbuf (the parser has just set dmsg->plen).  Ciphertext byte i is *)
(* <<"c", i>>.  dyn_aes_decrypt is taken byte by byte: a ciphertext byte  *)
(* decrypts to the plaintext byte <<"p", i>>, and decrypting a byte that  *)
(* is already plaintext yields garbage <<"g", i>>.  The parse that        *)
(* follows each read sees the same bytes and is left out.  conn_recv may  *)
(* return fewer bytes than asked unless FullReads.  The bytes behind the  *)
(* payload on the connection are the next frame's, <<"n", i>>.  With       *)
(* MbufFails, mbuf_get may fail for the chain or for the plaintext; the   *)
(* DN_ENOMEM goes up through msg_recv and the connection is closed.       *)
(***************************************************************************)
EXTENDS Naturals, Sequences, SequencesExt

CONSTANTS
  PLEN,       \* bound on dmsg->plen when the payload starts
  MBUF_CAP,   \* end - start of an mbuf
  EXTRA,      \* end_extra - end: the ciphertext staging padding
  FullReads,  \* whether every conn_recv returns all it was asked for
  MbufFails   \* whether mbuf_get may return NULL

ASSUME /\ PLEN \in Nat \ {0} /\ MBUF_CAP \in Nat \ {0} /\ EXTRA \in Nat
       /\ FullReads \in BOOLEAN /\ MbufFails \in BOOLEAN

VARIABLES
  mhdr,      \* the message's chain: Seq of [data, read_flip]
  mlen,      \* msg->mlen
  plen,      \* msg->dmsg->plen
  consumed,  \* ciphertext bytes read by conn_recv
  flen,      \* the frame's payload length (history)
  closed     \* msg_recv returned an error and the connection was closed

vars == <<mhdr, mlen, plen, consumed, flen, closed>>

\* The connection's bytes from the payload on: the frame's ciphertext, then
\* the next frame.
Wire == [i \in 1..(PLEN + MBUF_CAP + EXTRA) |->
           IF i <= flen THEN <<"c", i>> ELSE <<"n", i>>]

Plain == [i \in 1..flen |-> <<"p", i>>]

\* An error that msg_recv does not pass up: the connection stays open.
CryptRecvErrorIgnored == closed' = closed

\* DN_ENOMEM from msg_recv_chain travels up through msg_recv; the event
\* loop closes the connection.
CryptRecvError == closed' = TRUE

Decrypt(s) == [i \in 1..Len(s) |-> <<IF s[i][1] = "c" THEN "p" ELSE "g", s[i][2]>>]

Content == FlattenSeq([j \in 1..Len(mhdr) |-> mhdr[j].data])

ExtraEnd == MBUF_CAP + EXTRA

\* A fresh mbuf is taken when there is none, the tail is full (last == end),
\* or the tail is written up to end_extra.
NeedsMbuf ==
  IF mhdr = <<>> THEN TRUE
  ELSE Len(Last(mhdr).data) \in {MBUF_CAP, ExtraEnd}

\* msize = min(dmsg->plen, end_extra - last).
ReadSize(t) ==
  IF plen < ExtraEnd - Len(t.data) THEN plen ELSE ExtraEnd - Len(t.data)

\* n >= dmsg->plen || mbuf->end_extra == mbuf->last (plen not yet reduced).
MustDecrypt(n, d) == n >= plen \/ Len(d) = ExtraEnd

\* The new read_flip mbuf: the whole buffer decrypted when it is full to
\* end_extra, else dyn_aes_decrypt(start, plen) and the bytes after
\* start + plen copied behind it.
Decrypted(d) ==
  IF Len(d) = ExtraEnd THEN Decrypt(d)
  ELSE Decrypt(SubSeq(d, 1, plen)) \o SubSeq(d, plen + 1, Len(d))

\* An mlen update that adds the plaintext without taking off the ciphertext.
CryptMlenNoSub(d, nb) == mlen + Len(nb)

\* msg->mlen -= last - start of the ciphertext mbuf; += that of the new one.
CryptMlen(d, nb) == mlen - Len(d) + Len(nb)

(***************************************************************************)
(* msg_recv_chain with expected_fill = dmsg->plen: the tail or a fresh    *)
(* mbuf, conn_recv of n bytes, mbuf->last and msg->mlen advanced, the      *)
(* decrypt swap when due, and dmsg->plen -= n.  When the mbuf_get for the *)
(* plaintext fails, msg_recv_chain returns DN_ENOMEM with the ciphertext  *)
(* in the chain and counted in mlen, before plen -= n.                     *)
(***************************************************************************)
RecvCipher ==
  /\ ~closed
  /\ plen > 0
  /\ LET c0 == IF NeedsMbuf THEN Append(mhdr, [data |-> <<>>, read_flip |-> FALSE])
               ELSE mhdr
         t  == Last(c0)
         k  == Len(c0)
     IN  \E n \in IF FullReads THEN {ReadSize(t)} ELSE 1..ReadSize(t) :
           LET d  == t.data \o SubSeq(Wire, consumed + 1, consumed + n)
               nb == Decrypted(d)
           IN  /\ \/ /\ MustDecrypt(n, d)
                     /\ mhdr' = [c0 EXCEPT ![k] = [data |-> nb, read_flip |-> TRUE]]
                     /\ mlen' = CryptMlen(d, nb) + n
                     /\ plen' = plen - n
                     /\ UNCHANGED closed
                  \/ /\ ~MustDecrypt(n, d)
                     /\ mhdr' = [c0 EXCEPT ![k].data = d]
                     /\ mlen' = mlen + n
                     /\ plen' = plen - n
                     /\ UNCHANGED closed
                  \/ /\ MbufFails /\ MustDecrypt(n, d)
                     /\ mhdr' = [c0 EXCEPT ![k].data = d]
                     /\ mlen' = mlen + n
                     /\ plen' = plen
                     /\ CryptRecvError
               /\ consumed' = consumed + n
  /\ UNCHANGED flen

\* mbuf_get fails for the chain's next mbuf, before anything is read.
RecvCipherNoMbuf ==
  /\ MbufFails /\ ~closed /\ plen > 0 /\ NeedsMbuf
  /\ CryptRecvError
  /\ UNCHANGED <<mhdr, mlen, plen, consumed, flen>>

Init ==
  /\ mhdr = <<>>
  /\ mlen = 0
  /\ flen \in 1..PLEN
  /\ plen = flen
  /\ consumed = 0
  /\ closed = FALSE

Next == RecvCipher \/ RecvCipherNoMbuf

Spec == Init /\ [][Next]_vars

(***************************************************************************)
(* Properties.                                                             *)
(***************************************************************************)

\* Once all plen ciphertext bytes of the frame have been read, the
\* message's chain holds exactly the frame's plaintext: every ciphertext
\* byte was decrypted once and nothing else was (spec section 4.G step 4,
\* scenario 6, and the property that a partly filled ciphertext buffer is
\* decrypted when the expected bytes arrive or end_extra is reached).
FrameDecrypted == plen = 0 => Content = Plain

\* msg->mlen equals the bytes of the chain through reads and decrypt swaps
\* (spec section 3 invariant 1).
CryptMlenMatchesChain == mlen = Len(Content)

\* The message never holds a byte of the next frame: every read is bounded
\* by dmsg->plen, so it stops at the end of this frame's ciphertext.  The
\* failed mbuf_get for the plaintext returns before plen -= n; had the
\* connection stayed open, the next read would size itself by that stale
\* plen and take the next frame's bytes as ciphertext.
FrameNotOverread == \A i \in DOMAIN Content : Content[i][1] # "n"
=============================================================================
