------------------------------ MODULE MsgPool ------------------------------
(***************************************************************************)
(* The message pool of dyn_message.c: the LIFO free list free_msgq, its    *)
(* length nfree_msgq, the allocation counter alloc_msg_count with its soft *)
(* ceiling ALLOWED_ALLOC_MSGS (refused to external-mode connections) and   *)
(* hard ceiling MAX_ALLOC_MSGS.  msg->id only feeds logging and is left   *)
(* out.                                                                    *)
(*                                                                         *)
(* Message objects are model values.  An object enters the model when      *)
(* dn_alloc returns it and is never freed while the worker runs (msg_put   *)
(* only links it on the free list), so `created' is the set of objects     *)
(* dn_alloc has returned.  Connections are model values; DynMode[c] is     *)
(* conn->dyn_mode, the force_alloc flag msg_get passes to _msg_get.        *)
(***************************************************************************)
EXTENDS Naturals, Sequences, FiniteSets, SequencesExt

CONSTANTS
  Msgs,               \* message objects dn_alloc can return
  Conns,              \* connections that allocate messages
  DynMode,            \* [Conns -> BOOLEAN]: conn->dyn_mode
  MAX_ALLOC_MSGS,     \* hard ceiling on alloc_msg_count
  ALLOWED_ALLOC_MSGS, \* soft ceiling, ignored when force_alloc
  AllocCanFail,       \* whether dn_alloc may return NULL
  MbufCanFail,        \* whether mbuf_get may return NULL
  NULL

ASSUME /\ DynMode \in [Conns -> BOOLEAN]
       /\ ALLOWED_ALLOC_MSGS \in Nat /\ MAX_ALLOC_MSGS \in Nat
       /\ ALLOWED_ALLOC_MSGS <= MAX_ALLOC_MSGS
       /\ AllocCanFail \in BOOLEAN /\ MbufCanFail \in BOOLEAN
       /\ NULL \notin Msgs \cup Conns

VARIABLES
  free_msgq,        \* Seq(Msgs), head first: TAILQ free_msgq
  nfree_msgq,       \* # free msg q
  alloc_msg_count,  \* counter bumped before every dn_alloc
  created,          \* objects dn_alloc has returned (history)
  owner,            \* [Msgs -> Conns \cup {NULL}]: msg->owner of live msgs
  live,             \* messages handed out and not yet put
  result            \* outcome of the last step and the message _msg_get
                    \* initialised, if any

vars == <<free_msgq, nfree_msgq, alloc_msg_count, created, owner, live,
          result>>

\* Outcomes of _msg_get: a recycled or fresh message, or NULL for one of the
\* three reasons the code returns NULL; msg_get_error's failed mbuf_get.
Outcomes == {"recycled", "fresh", "soft_cap", "hard_cap", "oom", "no_mbuf",
             "none"}

Init ==
  /\ free_msgq = <<>>
  /\ nfree_msgq = 0
  /\ alloc_msg_count = 0
  /\ created = {}
  /\ owner = [m \in Msgs |-> NULL]
  /\ live = {}
  /\ result = [by |-> NULL, force |-> FALSE, out |-> "none", msg |-> NULL]

(***************************************************************************)
(* _msg_get(force_alloc) followed by the caller's setting of msg->owner.   *)
(* The free list is tried first; only when it is empty do the soft and     *)
(* hard ceilings apply.  alloc_msg_count is incremented before dn_alloc,   *)
(* and dn_alloc may still fail.  `who' is the owner the caller stores      *)
(* (NULL for msg_get_error, which never sets msg->owner).                  *)
(***************************************************************************)
Done(m, who, force, out) ==
  /\ owner' = [owner EXCEPT ![m] = who]
  /\ live' = live \cup {m}
  /\ result' = [by |-> who, force |-> force, out |-> out, msg |-> m]

Refuse(who, force, out) ==
  /\ result' = [by |-> who, force |-> force, out |-> out, msg |-> NULL]
  /\ UNCHANGED <<free_msgq, nfree_msgq, created, owner, live>>

\* A reuse that also bumps alloc_msg_count, as if it were an allocation.
RecycleCounting(who, force_alloc) ==
  /\ free_msgq # <<>>
  /\ free_msgq' = Tail(free_msgq)
  /\ nfree_msgq' = nfree_msgq - 1
  /\ Done(Head(free_msgq), who, force_alloc, "recycled")
  /\ alloc_msg_count' = alloc_msg_count + 1
  /\ UNCHANGED created

\* The free list is not empty: its head is reused, the counter untouched.
Recycle(who, force_alloc) ==
  /\ free_msgq # <<>>
  /\ free_msgq' = Tail(free_msgq)
  /\ nfree_msgq' = nfree_msgq - 1
  /\ Done(Head(free_msgq), who, force_alloc, "recycled")
  /\ UNCHANGED <<alloc_msg_count, created>>

\* The two ceilings of _msg_get.
SoftCapHitOffByOne(force_alloc) ==
  alloc_msg_count > ALLOWED_ALLOC_MSGS /\ ~force_alloc

SoftCapHit(force_alloc) ==
  alloc_msg_count >= ALLOWED_ALLOC_MSGS /\ ~force_alloc

HardCapHitOffByOne == alloc_msg_count > MAX_ALLOC_MSGS

HardCapHit == alloc_msg_count >= MAX_ALLOC_MSGS

_msg_get(who, force_alloc) ==
  \/ Recycle(who, force_alloc)
  \/ /\ free_msgq = <<>>
     /\ SoftCapHit(force_alloc)
     /\ Refuse(who, force_alloc, "soft_cap")
     /\ UNCHANGED alloc_msg_count
  \/ /\ free_msgq = <<>>
     /\ ~SoftCapHit(force_alloc)
     /\ HardCapHit
     /\ Refuse(who, force_alloc, "hard_cap")
     /\ UNCHANGED alloc_msg_count
  \/ /\ free_msgq = <<>>
     /\ ~SoftCapHit(force_alloc)
     /\ ~HardCapHit
     /\ alloc_msg_count' = alloc_msg_count + 1
     /\ \/ \E m \in Msgs \ created :
             /\ created' = created \cup {m}
             /\ Done(m, who, force_alloc, "fresh")
        \/ /\ AllocCanFail
           /\ Refuse(who, force_alloc, "oom")
     /\ UNCHANGED <<free_msgq, nfree_msgq>>

\* msg_get(conn, request, redis): force_alloc is conn->dyn_mode.
MsgGet(c) == _msg_get(c, DynMode[c])

\* msg_get_error: _msg_get(1), so the soft ceiling never applies, then one
\* mbuf for the error text.  When mbuf_get fails the message is put straight
\* back: the msg_put of the error path, taken in the same step.
MsgGetError ==
  \/ _msg_get(NULL, TRUE)
  \/ /\ MbufCanFail
     /\ free_msgq # <<>>
     /\ owner' = [owner EXCEPT ![Head(free_msgq)] = NULL]
     /\ result' = [by |-> NULL, force |-> TRUE, out |-> "no_mbuf",
                   msg |-> Head(free_msgq)]
     /\ UNCHANGED <<free_msgq, nfree_msgq, alloc_msg_count, created, live>>
  \/ /\ MbufCanFail
     /\ free_msgq = <<>>
     /\ ~HardCapHit
     /\ \E m \in Msgs \ created :
          /\ alloc_msg_count' = alloc_msg_count + 1
          /\ created' = created \cup {m}
          /\ free_msgq' = <<m>>
          /\ nfree_msgq' = nfree_msgq + 1
          /\ result' = [by |-> NULL, force |-> TRUE, out |-> "no_mbuf", msg |-> m]
          /\ UNCHANGED <<owner, live>>

\* msg_put: the message's buffers go back to the mbuf pool and the message
\* is linked at the head of the free list.
MsgPut(m) ==
  /\ m \in live
  /\ free_msgq' = <<m>> \o free_msgq
  /\ nfree_msgq' = nfree_msgq + 1
  /\ live' = live \ {m}
  /\ result' = [by |-> NULL, force |-> FALSE, out |-> "none", msg |-> NULL]
  /\ UNCHANGED <<alloc_msg_count, created, owner>>

Next ==
  \/ \E c \in Conns : MsgGet(c)
  \/ MsgGetError
  \/ \E m \in Msgs : MsgPut(m)

Spec == Init /\ [][Next]_vars

(***************************************************************************)
(* Properties.                                                             *)
(***************************************************************************)

TypeOK ==
  /\ free_msgq \in Seq(Msgs)
  /\ nfree_msgq \in Nat
  /\ alloc_msg_count \in 0..MAX_ALLOC_MSGS
  /\ created \subseteq Msgs /\ live \subseteq Msgs
  /\ owner \in [Msgs -> Conns \cup {NULL}]
  /\ result \in [by : Conns \cup {NULL}, force : BOOLEAN, out : Outcomes,
                 msg : Msgs \cup {NULL}]

\* Every message object dn_alloc returned is, through any sequence of gets,
\* puts and error allocations, in exactly one place: handed out, or once on
\* the free list; nfree_msgq counts the list and alloc_msg_count the objects
\* (spec section 3, invariants 3 and 6).
PoolConservation ==
  /\ created = live \cup ToSet(free_msgq)
  /\ live \cap ToSet(free_msgq) = {}
  /\ Len(free_msgq) = Cardinality(ToSet(free_msgq))
  /\ nfree_msgq = Len(free_msgq)
  /\ Cardinality(created) <= MAX_ALLOC_MSGS

\* _msg_get returns NULL for a ceiling only when the free list is empty and
\* as many message objects exist as that ceiling allows: internal (peer)
\* traffic is refused only at MAX_ALLOC_MSGS, external traffic at
\* ALLOWED_ALLOC_MSGS (spec section 4.D and scenario 5).
CapRefusalJustified ==
  /\ result.out = "soft_cap" =>
        free_msgq = <<>> /\ Cardinality(created) >= ALLOWED_ALLOC_MSGS
  /\ result.out = "hard_cap" =>
        free_msgq = <<>> /\ Cardinality(created) >= MAX_ALLOC_MSGS

\* A get on an external-mode connection never creates a message object that
\* takes the number of objects past the soft ceiling ALLOWED_ALLOC_MSGS.
ExternalWithinSoftCap ==
  [][(result'.out = "fresh" /\ ~result'.force)
       => Cardinality(created') <= ALLOWED_ALLOC_MSGS]_vars

=============================================================================
