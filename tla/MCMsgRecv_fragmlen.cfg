\* msg_fragment's mlen arithmetic against spec section 3 invariant 1.
CONSTANTS
  Reqs <- MultiKeyReqs
  HdrLen = 2
  KeyLen = 2
  MBUF_CAP = 3
  NULL = NULL
  HandlerAllocFails = FALSE
  NextGetFails = FALSE
SPECIFICATION Spec
CHECK_DEADLOCK FALSE
INVARIANT MlenMatchesChain
