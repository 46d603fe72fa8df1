\* Short reads of a frame: the decrypted chain against the frame's plaintext.
CONSTANTS
  PLEN = 3
  MBUF_CAP = 2
  EXTRA = 1
  FullReads = FALSE
  MbufFails = FALSE
SPECIFICATION Spec
CHECK_DEADLOCK FALSE
INVARIANT FrameDecrypted
