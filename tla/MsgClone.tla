------------------------------ MODULE MsgClone ------------------------------
(***************************************************************************)
(* msg_clone (dyn_message.c): copy a message's fields into a fresh        *)
(* message and, walking src->mhdr, give the target a fresh mbuf for every *)
(* mbuf from mbuf_start to the tail holding that mbuf's unread bytes      *)
(* [pos, last).  mbuf_get may fail; msg_clone then returns ENOMEM at once.*)
(*                                                                         *)
(* A byte is the pair <<k, j>>: the j-th byte written into the k-th mbuf  *)
(* of src, so a copy can be traced back to where it came from.  An mbuf  *)
(* of src is [data, pos]: the bytes between start and last, and how many *)
(* of them lie before mbuf->pos.  mbuf_start is an index into src->mhdr, *)
(* or 0 for a pointer to an mbuf that is not in the chain.               *)
(***************************************************************************)
EXTENDS Integers, Sequences, SequencesExt

CONSTANTS
    MBUF_CAP,      \* bytes an mbuf holds
    MaxBufs,       \* longest src chain enumerated
    MbufCanFail    \* whether mbuf_get may return NULL

ASSUME MBUF_CAP \in Nat \ {0} /\ MaxBufs \in Nat \ {0} /\ MbufCanFail \in BOOLEAN

VARIABLES
    src,         \* [mhdr, mlen, pos]: the message being cloned
    mbuf_start,  \* the mbuf the copy starts from
    target,      \* [mhdr, mlen, pos]: the clone
    status       \* "none" before the call, then its return value

vars == <<src, mbuf_start, target, status>>

\* An mbuf of src->mhdr: the k-th buffer holds bytes <<k, 1>> .. <<k, n>>,
\* and mbuf->pos lies between start and last.
SrcMbufs(k) == UNION {{[data |-> [j \in 1..n |-> <<k, j>>], pos |-> p] :
                            p \in 0..n} : n \in 1..MBUF_CAP}

mbuf_length(b) == Len(b.data) - b.pos

\* The bytes mbuf_copy(nbuf, mbuf->pos, len) puts in a fresh mbuf.
Unread(b) == SubSeq(b.data, b.pos + 1, b.pos + mbuf_length(b))

\* Chains of one to MaxBufs mbufs; mlen counts every byte between start
\* and last (spec section 3 invariant 1, msg_length), read or not, and the
\* cursor pos sits at the last byte of the tail.
Chains(n) == {c \in [1..n -> UNION {SrcMbufs(k) : k \in 1..n}] :
                 \A k \in 1..n : c[k] \in SrcMbufs(k)}

SrcMsgs == {[mhdr |-> c,
             mlen |-> FoldSeq(LAMBDA b, acc : acc + Len(b.data), 0, c),
             pos  |-> [buf |-> Len(c), off |-> Len(c[Len(c)].data)]] :
                c \in UNION {Chains(n) : n \in 1..MaxBufs}}

\* msg_get: a fresh message has an empty chain, mlen 0 and no cursor.
EmptyMsg == [mhdr |-> <<>>, mlen |-> 0, pos |-> [buf |-> 0, off |-> 0]]

\* Outcome of the mbuf_get calls: the number that succeed before one fails,
\* or NoFail when all of them succeed.
NoFail == -1
GetOutcomes == IF MbufCanFail THEN {NoFail} \cup (0..MaxBufs) ELSE {NoFail}

\* The loop with a skip test that forgets `started' and so copies only
\* mbuf_start itself.
RECURSIVE CloneLoopNoStarted(_, _, _, _, _)
CloneLoopNoStarted(c, start, i, started, gets) ==
    IF i > Len(c) THEN [copied |-> <<>>, ret |-> "DN_OK"]
    ELSE IF i # start THEN CloneLoopNoStarted(c, start, i + 1, FALSE, gets)
    ELSE IF gets = 0 THEN [copied |-> <<>>, ret |-> "ENOMEM"]
    ELSE LET rest == CloneLoopNoStarted(c, start, i + 1, TRUE, gets - 1)
         IN  [rest EXCEPT !.copied = <<[data |-> Unread(c[i]), pos |-> 0]>> \o @]

\* The STAILQ_FOREACH of msg_clone from the i-th mbuf of chain c, with its
\* `started' flag and gets the number of mbuf_get calls still to succeed:
\* the copied mbufs and the status returned.
RECURSIVE CloneLoop(_, _, _, _, _)
CloneLoop(c, start, i, started, gets) ==
    IF i > Len(c) THEN [copied |-> <<>>, ret |-> "DN_OK"]
    ELSE IF ~started /\ i # start THEN CloneLoop(c, start, i + 1, FALSE, gets)
    ELSE IF gets = 0 THEN [copied |-> <<>>, ret |-> "ENOMEM"]
    ELSE LET rest == CloneLoop(c, start, i + 1, TRUE, gets - 1)
         IN  [rest EXCEPT !.copied = <<[data |-> Unread(c[i]), pos |-> 0]>> \o @]

TypeOK ==
    /\ status \in {"none", "DN_OK", "ENOMEM"}
    /\ mbuf_start \in 0..MaxBufs
    /\ \A b \in Range(target.mhdr) : Len(b.data) <= MBUF_CAP /\ b.pos = 0

Init ==
    /\ src \in SrcMsgs
    /\ mbuf_start \in 0..Len(src.mhdr)
    /\ target = EmptyMsg
    /\ status = "none"

\* msg_clone(src, mbuf_start, target): the scalar fields, mlen and the pos
\* cursor are copied as they are; the loop then appends to target->mhdr.
Clone ==
    /\ status = "none"
    /\ \E gets \in GetOutcomes :
         LET r == CloneLoop(src.mhdr, mbuf_start, 1, FALSE,
                            IF gets = NoFail THEN MaxBufs + 1 ELSE gets)
         IN  /\ target' = [mhdr |-> target.mhdr \o r.copied,
                           mlen |-> src.mlen, pos |-> src.pos]
             /\ status' = r.ret
    /\ UNCHANGED <<src, mbuf_start>>

Next == Clone

Spec == Init /\ [][Next]_vars

-----------------------------------------------------------------------------
\* The bytes a clone is meant to hold: the unread bytes of every mbuf from
\* mbuf_start to the tail of src, one fresh mbuf for each, in chain order.
ExpectedCopy(c, start) ==
    IF start = 0 THEN <<>>
    ELSE [k \in 1..(Len(c) - start + 1) |-> Unread(c[start + k - 1])]

\* What msg_clone's loop gives the target: a successful clone holds exactly
\* the unread bytes of src from mbuf_start on, mbuf for mbuf and in order; a
\* clone that mbuf_get cut short holds a prefix of that copy, never a gap,
\* a byte already consumed, or an mbuf out of place.
CloneCopiesUnread ==
    LET got == [k \in DOMAIN target.mhdr |-> target.mhdr[k].data]
        want == ExpectedCopy(src.mhdr, mbuf_start)
    IN  /\ status = "DN_OK"  => got = want
        /\ status = "ENOMEM" => IsStrictPrefix(got, want)
=============================================================================
