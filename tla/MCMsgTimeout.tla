---------------------------- MODULE MCMsgTimeout ----------------------------
(* Model-checking instance of MsgTimeout: an external-mode client          *)
(* connection and an internal-mode peer connection.                        *)
EXTENDS MsgTimeout

CONSTANTS c_ext, c_peer

MCDynMode == [c \in {c_ext, c_peer} |-> c = c_peer]
\* server_timeout: -1 when the server pool sets no timeout, else 1 or 3 ms,
\* so a request forwarded later can expire before one forwarded earlier.
MCTimeouts == {-1, 1, 3}
=============================================================================
