\* Partial writes, short socket buffer and iovec limit: resumption and the
\* ByteStream refinement.
CONSTANTS
  Out <- SendOut
  DN_IOV_MAX = 2
  SNDBUF = 2
SPECIFICATION Spec
CHECK_DEADLOCK FALSE
INVARIANT StreamResumes
PROPERTY StreamRefined
