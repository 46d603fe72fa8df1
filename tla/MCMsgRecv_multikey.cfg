\* A three-key request then a single-key one, with every allocation of
\* msg_recv_chain and the parse handlers able to fail: fragment groups, and
\* the framing promise up to the close an error causes.
CONSTANTS
  Reqs <- MultiKeyReqs
  HdrLen = 2
  KeyLen = 2
  MBUF_CAP = 3
  NULL = NULL
  HandlerAllocFails = TRUE
  NextGetFails = FALSE
SPECIFICATION Spec
CHECK_DEADLOCK FALSE
INVARIANT FragmentGroups
PROPERTY FramingRefined
