----------------------------- MODULE ByteStream -----------------------------
(***************************************************************************)
(* What the send engine promises for one connection: the bytes on the     *)
(* wire are always a prefix of the queued messages' bytes in queue order, *)
(* a message is completed (send_done) only after all of its bytes are on  *)
(* the wire, messages complete in queue order, and with fairness every    *)
(* queued message is eventually completed.                                 *)
(***************************************************************************)
EXTENDS Naturals, Sequences, SequencesExt

CONSTANTS
  Out  \* Seq of the messages the upper layer queues, each a Seq of bytes

VARIABLES
  queued,  \* how many of Out have been queued
  wire,    \* bytes written to the socket
  ndone    \* how many messages have been completed

svars == <<queued, wire, ndone>>

QueuedBytes == FlattenSeq(SubSeq(Out, 1, queued))

SInit ==
  /\ queued = 0
  /\ wire = <<>>
  /\ ndone = 0

SQueue ==
  /\ queued < Len(Out)
  /\ queued' = queued + 1
  /\ UNCHANGED <<wire, ndone>>

\* One gather-write and its post-processing: more of the queued bytes reach
\* the wire, and messages whose bytes all are on it may complete.
SSend ==
  \E n \in Len(wire)..Len(QueuedBytes), d \in ndone..queued :
    /\ <<n, d>> # <<Len(wire), ndone>>
    /\ Len(FlattenSeq(SubSeq(Out, 1, d))) <= n
    /\ wire' = SubSeq(QueuedBytes, 1, n)
    /\ ndone' = d
    /\ UNCHANGED queued

SNext == SQueue \/ SSend

SSpec == SInit /\ [][SNext]_svars /\ WF_svars(SSend)
=============================================================================
