\* Short reads of frames of up to 10 bytes through 2-byte mbufs with 1 byte of staging padding, with mbuf_get able to fail: mlen accounting and plen.
CONSTANTS
  PLEN = 10
  MBUF_CAP = 2
  EXTRA = 1
  FullReads = FALSE
  MbufFails = TRUE
SPECIFICATION Spec
CHECK_DEADLOCK FALSE
INVARIANT CryptMlenMatchesChain
INVARIANT FrameNotOverread
