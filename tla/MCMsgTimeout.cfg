\* The pool and the timeout index together, with callers that withdraw a
\* request before putting it and an mbuf_get that can fail in msg_get_error.
CONSTANTS
  Msgs = {m1, m2, m3}
  Conns = {c_ext, c_peer}
  c_ext = c_ext
  c_peer = c_peer
  DynMode <- MCDynMode
  MAX_ALLOC_MSGS = 2
  ALLOWED_ALLOC_MSGS = 1
  AllocCanFail = FALSE
  MbufCanFail = TRUE
  NULL = NULL
  Timeouts <- MCTimeouts
  MAX_TIME = 4
SPECIFICATION Spec
INVARIANT TypeOK
INVARIANT IndexSound
INVARIANT PoolConservation
INVARIANT CapRefusalJustified
PROPERTY ExternalWithinSoftCap
PROPERTY ExpiredWithdrawn
