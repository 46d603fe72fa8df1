\* msg_clone over every src chain of up to three mbufs of two bytes, every
\* mbuf_start in or out of the chain, and every point where mbuf_get fails.
CONSTANTS
    MBUF_CAP = 2
    MaxBufs = 3
    MbufCanFail = TRUE
SPECIFICATION Spec
INVARIANT CloneCopiesUnread
\* msg_clone is a single call: once it has returned there is nothing left.
CHECK_DEADLOCK FALSE
