----------------------------- MODULE MCMsgRecv -----------------------------
(* Model-checking instances of MsgRecv.                                     *)
EXTENDS MsgRecv

\* Three pipelined single-key requests (Memcached 'get k\r\n' or a Redis
\* 'GET k'): several requests per read, and keys straddling mbufs.
PipelineReqs == <<1, 1, 1>>

\* A three-key MGET followed by a single-key request: spec scenario 1.
MultiKeyReqs == <<3, 1>>
\* A two-key request whose synthesized header (the Redis '*2\r\n$4\r\nmget\r\n'
\* or the Memcached 'get ') is longer than a key token.
LongHeaderReqs == <<2>>
=============================================================================
