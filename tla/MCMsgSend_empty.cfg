\* A message with mlen 0 queued when nothing else is: its batch has nsend 0.
CONSTANTS
  Out <- SendOutEmpty
  DN_IOV_MAX = 2
  SNDBUF = 2
SPECIFICATION Spec
CHECK_DEADLOCK FALSE
INVARIANT SendNeverFails
