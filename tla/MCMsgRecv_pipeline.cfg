\* Pipelined single-key requests, with recv_next able to fail: mlen
\* accounting through reads, splits and repairs.
CONSTANTS
  Reqs <- PipelineReqs
  HdrLen = 2
  KeyLen = 2
  MBUF_CAP = 3
  NULL = NULL
  HandlerAllocFails = FALSE
  NextGetFails = TRUE
SPECIFICATION Spec
CHECK_DEADLOCK FALSE
INVARIANT TypeOK
INVARIANT MlenMatchesChain
