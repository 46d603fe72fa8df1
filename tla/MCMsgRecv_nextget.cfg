\* recv_next may fail to get a message for the next request: the framing
\* promise against a connection that is neither read nor closed.
CONSTANTS
  Reqs <- PipelineReqs
  HdrLen = 2
  KeyLen = 2
  MBUF_CAP = 3
  NULL = NULL
  HandlerAllocFails = FALSE
  NextGetFails = TRUE
SPECIFICATION Spec
CHECK_DEADLOCK FALSE
PROPERTY FramingRefined
