----------------------------- MODULE MCMsgPool -----------------------------
(* Model-checking instance of MsgPool: one client (external) connection and *)
(* one peer (dyn_mode) connection sharing a worker's message pool.          *)
EXTENDS MsgPool

CONSTANTS c_ext, c_peer

MCDynMode == [c \in {c_ext, c_peer} |-> c = c_peer]
=============================================================================
