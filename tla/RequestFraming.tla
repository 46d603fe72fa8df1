--------------------------- MODULE RequestFraming ---------------------------
(***************************************************************************)
(* What the receive engine promises a client connection: bytes are read in *)
(* arrival order, and every request (every key of a multi-key request)     *)
(* whose bytes have been read is eventually handed downstream, in stream   *)
(* order, as exactly its own bytes, unless the connection is closed on an *)
(* error first; after that nothing more is read or handed downstream.     *)
(***************************************************************************)
EXTENDS WireFormat

VARIABLES
  nread,  \* bytes of Input read off the connection
  out,    \* units handed downstream (recv_done), each as its bytes
  closed  \* the connection was closed on an error

avars == <<nread, out, closed>>

AInit ==
  /\ nread = 0
  /\ out = <<>>
  /\ closed = FALSE

ARead ==
  /\ ~closed
  /\ \E n \in (nread + 1)..Len(Input) : nread' = n
  /\ UNCHANGED <<out, closed>>

ADeliver ==
  /\ ~closed
  /\ Len(out) < Len(Units)
  /\ UnitEnds[Len(out) + 1] <= nread
  /\ out' = Append(out, Units[Len(out) + 1])
  /\ UNCHANGED <<nread, closed>>

AClose ==
  /\ ~closed
  /\ closed' = TRUE
  /\ UNCHANGED <<nread, out>>

ANext == ARead \/ ADeliver \/ AClose

ASpec == AInit /\ [][ANext]_avars /\ WF_avars(ARead) /\ WF_avars(ADeliver)
=============================================================================
