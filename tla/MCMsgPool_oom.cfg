\* An allocator that can fail: a failed dn_alloc against the ceilings.
CONSTANTS
  Msgs = {m1, m2, m3, m4}
  Conns = {c_ext, c_peer}
  c_ext = c_ext
  c_peer = c_peer
  DynMode <- MCDynMode
  MAX_ALLOC_MSGS = 3
  ALLOWED_ALLOC_MSGS = 2
  AllocCanFail = TRUE
  MbufCanFail = TRUE
  NULL = NULL
SPECIFICATION Spec
INVARIANT CapRefusalJustified
