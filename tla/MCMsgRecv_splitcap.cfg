\* A header longer than a key: the fragment split after a repair overfills an mbuf.
CONSTANTS
  Reqs <- LongHeaderReqs
  HdrLen = 3
  KeyLen = 2
  MBUF_CAP = 4
  NULL = NULL
  HandlerAllocFails = FALSE
  NextGetFails = FALSE
SPECIFICATION Spec
CHECK_DEADLOCK FALSE
INVARIANT TypeOK
