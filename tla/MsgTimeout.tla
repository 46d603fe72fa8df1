----------------------------- MODULE MsgTimeout -----------------------------
(***************************************************************************)
(* The timeout index of dyn_message.c (msg_tmo_insert, msg_tmo_delete,    *)
(* msg_tmo_min) composed with the message pool of module MsgPool.          *)
(*                                                                         *)
(* Each message embeds its tree node tmo_rbe: a deadline key and the back- *)
(* reference data, the server connection the request was forwarded on.    *)
(* The tree tmo_rbt is the set of messages whose node is linked.  The     *)
(* pool and the index meet in _msg_get, which re-initialises the node of  *)
(* every message it returns (rbtree_node_init), and in msg_put, which does *)
(* not touch the index.  The upper layer (req_forward, rsp_forward,       *)
(* req_put, core_timeout) lives outside this file and is modelled from    *)
(* the spec: it inserts a request when it forwards it, withdraws it when  *)
(* the response arrives or the deadline passes, and withdraws it before   *)
(* putting it.                                                             *)
(***************************************************************************)
EXTENDS Integers, FiniteSets

CONSTANTS
  Msgs, Conns, DynMode, MAX_ALLOC_MSGS, ALLOWED_ALLOC_MSGS, AllocCanFail,
  MbufCanFail, NULL,
  Timeouts,        \* values server_timeout(conn) can return
  MAX_TIME         \* bound on the millisecond clock dn_msec_now()

ASSUME Timeouts \subseteq Int /\ MAX_TIME \in Nat

VARIABLES
  free_msgq, nfree_msgq, alloc_msg_count, created, owner, live, result,
  tmo_rbe,  \* [Msgs -> [key, data]]: each message's embedded tree node
  tmo_rbt,  \* the messages whose node is linked in the tree
  now       \* dn_msec_now()

Pool == INSTANCE MsgPool

pvars == <<free_msgq, nfree_msgq, alloc_msg_count, created, owner, live,
           result>>
vars == <<pvars, tmo_rbe, tmo_rbt, now>>

\* rbtree_node_init: key 0, no back-reference (the links are not modelled).
NodeInit == [key |-> 0, data |-> NULL]

\* _msg_get's rbtree_node_init(&msg->tmo_rbe) on the message it returns,
\* linked or not.
NodeReset ==
  tmo_rbe' = IF result'.msg = NULL THEN tmo_rbe
             ELSE [tmo_rbe EXCEPT ![result'.msg] = NodeInit]

\* rbtree_delete, as the spec gives it: the node is unlinked and its
\* back-reference cleared.
RbtreeDelete(m) ==
  /\ tmo_rbt' = tmo_rbt \ {m}
  /\ tmo_rbe' = [tmo_rbe EXCEPT ![m] = NodeInit]

(***************************************************************************)
(* msg_tmo_insert(msg, conn): nothing when server_timeout(conn) <= 0,     *)
(* else the node gets key now + timeout and data conn and is linked.      *)
(***************************************************************************)
\* An insert that links the node without setting node->data.
MsgTmoInsertNoData(m, c, timeout) ==
  \/ /\ timeout <= 0
     /\ UNCHANGED <<tmo_rbe, tmo_rbt>>
  \/ /\ timeout > 0
     /\ tmo_rbe' = [tmo_rbe EXCEPT ![m].key = now + timeout]
     /\ tmo_rbt' = tmo_rbt \cup {m}

\* An insert without the early return for timeout <= 0.
MsgTmoInsertNoSkip(m, c, timeout) ==
  /\ tmo_rbe' = [tmo_rbe EXCEPT ![m] = [key |-> now + timeout, data |-> c]]
  /\ tmo_rbt' = tmo_rbt \cup {m}

MsgTmoInsert(m, c, timeout) ==
  \/ /\ timeout <= 0
     /\ UNCHANGED <<tmo_rbe, tmo_rbt>>
  \/ /\ timeout > 0
     /\ tmo_rbe' = [tmo_rbe EXCEPT ![m] = [key |-> now + timeout, data |-> c]]
     /\ tmo_rbt' = tmo_rbt \cup {m}

\* msg_tmo_delete(msg): a no-op when the back-reference is NULL.
MsgTmoDelete(m) ==
  \/ /\ tmo_rbe[m].data = NULL
     /\ UNCHANGED <<tmo_rbe, tmo_rbt>>
  \/ /\ tmo_rbe[m].data # NULL
     /\ RbtreeDelete(m)

\* A minimum walk that follows the wrong child and returns the latest node.
MsgTmoMinLatest(m) ==
  /\ m \in tmo_rbt
  /\ \A o \in tmo_rbt : tmo_rbe[m].key >= tmo_rbe[o].key

\* msg_tmo_min: a linked node with the smallest key.
MsgTmoMin(m) ==
  /\ m \in tmo_rbt
  /\ \A o \in tmo_rbt : tmo_rbe[m].key <= tmo_rbe[o].key

(***************************************************************************)
(* The pool's operations, with _msg_get's node initialisation.            *)
(***************************************************************************)
Get(c) ==
  /\ Pool!MsgGet(c)
  /\ NodeReset
  /\ UNCHANGED <<tmo_rbt, now>>

GetError ==
  /\ Pool!MsgGetError
  /\ NodeReset
  /\ UNCHANGED <<tmo_rbt, now>>

(***************************************************************************)
(* The upper layer.                                                        *)
(***************************************************************************)

\* req_forward: a request not yet indexed is sent on server connection c.
Forward(m) ==
  /\ m \in live
  /\ tmo_rbe[m].data = NULL
  /\ \E c \in Conns, t \in Timeouts : MsgTmoInsert(m, c, t)
  /\ UNCHANGED <<pvars, now>>

\* rsp_forward: the response arrived, the request leaves the index.
Respond(m) ==
  /\ m \in live
  /\ MsgTmoDelete(m)
  /\ UNCHANGED <<pvars, now>>

\* req_put: msg_tmo_delete, then msg_put.
ReqPut(m) ==
  /\ MsgTmoDelete(m)
  /\ Pool!MsgPut(m)
  /\ UNCHANGED now

\* core_timeout: msg_tmo_min; if its deadline passed, msg_tmo_delete (the
\* connection named by the back-reference is then closed, outside the core).
Expire ==
  /\ \E m \in Msgs :
       /\ MsgTmoMin(m)
       /\ tmo_rbe[m].key <= now
       /\ MsgTmoDelete(m)
  /\ UNCHANGED <<pvars, now>>

Tick ==
  /\ now < MAX_TIME
  /\ now' = now + 1
  /\ UNCHANGED <<pvars, tmo_rbe, tmo_rbt>>

Init ==
  /\ Pool!Init
  /\ tmo_rbe = [m \in Msgs |-> NodeInit]
  /\ tmo_rbt = {}
  /\ now = 0

Next ==
  \/ \E c \in Conns : Get(c)
  \/ GetError
  \/ \E m \in Msgs : Forward(m) \/ Respond(m) \/ ReqPut(m)
  \/ Expire
  \/ Tick

\* The event loop calls core_timeout on every iteration, so an expiry that
\* stays possible is eventually taken; gets, forwards, responses, puts and
\* the clock are driven by traffic and carry no fairness.
Fairness == WF_vars(Expire)

Spec == Init /\ [][Next]_vars /\ Fairness

(***************************************************************************)
(* Properties.                                                             *)
(***************************************************************************)

TypeOK ==
  /\ Pool!TypeOK
  /\ tmo_rbe \in [Msgs -> [key : Nat, data : Conns \cup {NULL}]]
  /\ tmo_rbt \subseteq Msgs
  /\ now \in 0..MAX_TIME

\* A message is linked in the timeout tree exactly when its node's back-
\* reference is set: msg_tmo_delete skips a node whose back-reference is
\* NULL, and core_timeout closes the connection it names (spec section 4.E:
\* delete clears the back-reference and is a no-op when it is null).  A
\* message put while still linked and then reused by _msg_get, whose
\* rbtree_node_init clears the back-reference of the linked node, would
\* break it: req_put's delete before msg_put is what keeps it.
BackRefMatchesLink ==
  \A m \in Msgs : m \in tmo_rbt <=> tmo_rbe[m].data # NULL

\* Through any interleaving of gets, forwards, responses, expiries and puts,
\* the back-reference matches the link, and only a message handed out (an
\* outstanding request, not one on the free list) is in the index (spec
\* section 3 invariant 5).
IndexSound ==
  /\ BackRefMatchesLink
  /\ \A m \in tmo_rbt : m \in live

\* The pool's properties over the composition: gets with node
\* re-initialisation, forwards, responses, expiries and puts, with an
\* mbuf_get that can fail in msg_get_error, keep every message object in
\* exactly one place, refuse a get only at a ceiling that is really
\* reached, and never let external traffic create objects past the soft
\* ceiling (module MsgPool).
PoolConservation == Pool!PoolConservation

CapRefusalJustified == Pool!CapRefusalJustified

ExternalWithinSoftCap == Pool!ExternalWithinSoftCap

\* A request whose deadline has passed is eventually withdrawn from the
\* index: msg_tmo_min must return the earliest deadline, so that the
\* event loop's core_timeout, which only looks at that node, reaches every
\* expired one, whatever later forwards with later deadlines do (spec
\* section 4.E and the Cancellation paragraph of section 5).
ExpiredWithdrawn ==
  \A m \in Msgs : (m \in tmo_rbt /\ tmo_rbe[m].key <= now) ~> m \notin tmo_rbt
=============================================================================
