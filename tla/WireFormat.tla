----------------------------- MODULE WireFormat -----------------------------
(***************************************************************************)
(* The abstract wire format shared by the receive-side modules.            *)
(*                                                                         *)
(* A request is a header token followed by key tokens: the Redis           *)
(* '*N\r\n$4\r\nmget\r\n' or Memcached 'get ' part, then one token per     *)
(* key.  Reqs[r] is the number of keys of the r-th request on the          *)
(* connection; a request with more than one key is a multi-key request the *)
(* parser fragments.  A byte is the triple <<r, k, j>>: byte j of key k of *)
(* request r, with k = 0 for the header.  Headers are HdrLen bytes and     *)
(* keys KeyLen bytes, so a request can be longer than an mbuf and a token  *)
(* can straddle two mbufs.                                                 *)
(***************************************************************************)
EXTENDS Naturals, Sequences, SequencesExt

CONSTANTS
  Reqs,    \* Seq of key counts: the requests a client sends, in order
  HdrLen,  \* bytes per header token
  KeyLen   \* bytes per key token

ASSUME /\ Reqs \in Seq(Nat \ {0}) /\ Reqs # <<>>
       /\ HdrLen \in Nat \ {0} /\ KeyLen \in Nat \ {0}

Header(r) == [j \in 1..HdrLen |-> <<r, 0, j>>]

KeyBytes(r, k) == [j \in 1..KeyLen |-> <<r, k, j>>]

\* The bytes of request r as the client writes them.
ReqBytes(r) ==
  Header(r) \o FlattenSeq([k \in 1..Reqs[r] |-> KeyBytes(r, k)])

\* The whole inbound byte stream of the connection.
Input == FlattenSeq([r \in 1..Len(Reqs) |-> ReqBytes(r)])

\* What the engine must hand downstream, in order: a single-key request as
\* it is, a multi-key request as one fragment per key, each fragment a
\* header (the synthesized one for all but the first) and one key.
Unit(r, k) == Header(r) \o KeyBytes(r, k)

Units ==
  FlattenSeq([r \in 1..Len(Reqs) |->
                [k \in 1..Reqs[r] |-> Unit(r, k)]])

\* Offset in Input of the last byte of request r's key k: the unit can be
\* handed downstream once that many bytes were read.
UnitEnd(r, k) ==
  LET before == FoldLeft(LAMBDA acc, x : acc + x, 0,
                         [i \in 1..(r - 1) |-> HdrLen + Reqs[i] * KeyLen])
  IN  before + HdrLen + k * KeyLen

UnitEnds ==
  FlattenSeq([r \in 1..Len(Reqs) |-> [k \in 1..Reqs[r] |-> UnitEnd(r, k)]])

Bytes == {<<r, k, j>> : r \in 1..Len(Reqs), k \in 0..Max(Range(Reqs)),
                        j \in 1..Max({HdrLen, KeyLen})}

IsKeyEnd(b) == b[2] > 0 /\ b[3] = KeyLen

\* Byte b is the last of its token.
IsTokenEnd(b) == IsKeyEnd(b) \/ (b[2] = 0 /\ b[3] = HdrLen)

\* The key that ends at byte b is the last key of its request.
IsLastKey(b) == b[2] = Reqs[b[1]]
=============================================================================
