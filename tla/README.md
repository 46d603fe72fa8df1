# TLA+ models of dynomite's message layer

These modules model `src/src/dyn_message.c`, the message layer of dynomite's
proxy. They cover the message pool, the receive engine (read, parse, split,
fragment, repair, dispatch) and the send engine (iovec batching, partial
writes). Each engine is checked against an abstract specification of what it
promises its connection. `PROJECT.json` maps every definition to the source
lines it translates, and lists the runs, the mutants, the findings and the
hazards.

## The system

`dyn_message.c` has four parts that keep state, and `msg_clone`, which copies one message into another:

| Part | Code | State | Interacts with |
|------|------|-------|----------------|
| Message pool | `_msg_get`, `msg_get`, `msg_get_error`, `msg_put`, `msg_init`, `msg_deinit` | `free_msgq`, `nfree_msgq`, `alloc_msg_count`, `msg_id` | every other part gets and puts messages |
| Timeout index | `msg_tmo_min/insert/delete`, `msg_from_rbe` | red-black tree `tmo_rbt`, each message's `tmo_rbe` | the pool: `_msg_get` re-initialises `tmo_rbe` |
| Receive engine | `msg_recv`, `msg_recv_chain`, `msg_parse`, `msg_parsed`, `msg_fragment`, `msg_repair` | `conn->rmsg`, `recv_ready`, each message's mbuf chain, `pos`, `mlen`, fragment fields, global `frag_id` | the pool; the parser, `mbuf_split`, `recv_next/recv_done`, `conn_recv` (outside `src/`) |
| Send engine | `msg_send`, `msg_send_chain` | `send_ready`, the outbound queue, each mbuf's `pos` | `send_next/send_done`, `conn_sendv` (outside `src/`) |
| Clone | `msg_clone` | the target's fields and mbuf chain | the mbuf pool (`mbuf_get`) |

The two engines also change state outside this file: the mbuf pool, and the
connection queues through `recv_done` and `send_done`. Everything runs on one
event-loop thread. The concurrency that matters comes from the network
(bytes arriving, the peer draining the socket buffer) and from
edge-triggered readiness: `msg_recv` and `msg_send` run once per event and must
loop while `recv_ready`/`send_ready`, because no new edge comes for data
already waiting.

## Modules

* **MsgPool** — the pool. Variables:
  * `free_msgq` is a sequence, head first; `msg_put` uses `TAILQ_INSERT_HEAD` and `_msg_get` uses `TAILQ_FIRST`, so the free list is LIFO.
  * `nfree_msgq` and `alloc_msg_count` are the code's counters.
  * `created` is the set of objects `dn_alloc` has returned. It is a history variable: messages are never freed while the worker runs.
  * `owner` holds each message's `msg->owner`.
  * `live` is the set of messages handed out.
  * `result` records the outcome of the last get.

  Actions:
  * `MsgGet(c)` is `msg_get` on connection `c`, which is `_msg_get(conn->dyn_mode)`. `_msg_get` is one disjunct per path: a recycled message, the soft-ceiling refusal, the hard-ceiling refusal, and a fresh allocation that may fail after the counter was bumped.
  * `MsgGetError` is `msg_get_error`: `_msg_get(1)`, then `mbuf_get`, which may fail and put the message straight back.
  * `MsgPut(m)` is `msg_put`.

  The helpers `Recycle`, `SoftCapHit` and `HardCapHit` are the code's branch conditions.
* **WireFormat** — the abstract byte stream of a client connection:
  * Requests are a header token followed by key tokens.
  * Bytes are triples `<<request, key, index>>`.
  * `Units` is what the engine must hand downstream: one message per single-key request, and one header-plus-key fragment per key of a multi-key request.
* **RequestFraming** — the abstract receive promise. Variables: `nread` (bytes read), `out` (units handed downstream) and `closed` (the connection was closed on an error). Actions: `ARead`; `ADeliver`, where a unit is delivered in order and only once its bytes were read; and `AClose`, after which nothing more is read or delivered. Weak fairness makes delivery eventual unless the connection closed.
* **MsgRecv** — the receive engine on one client connection. Variables:
  * `pc` is the place in the engine: idle, at the top of `msg_recv`'s loop, or in the parse loop of `msg_recv_chain`.
  * `event` is a readiness edge not yet handled.
  * `avail` is the bytes the kernel holds.
  * `consumed` is the bytes `conn_recv` has read.
  * `recv_ready`.
  * `rmsg` is `conn->rmsg`: a record with the mbuf chain, `pos`, `mlen` and the fragment fields.
  * `delivered` is what `recv_done` has handed downstream.
  * `frag_id` is the global fragment counter.

  Actions:
  * `Arrive` is the network, and `MsgRecvStart` is the event loop calling `msg_recv`.
  * `RecvAgain` and `RecvData` are one pass of `msg_recv_chain` up to the read: `recv_next(conn, true)`, attaching an mbuf, and `conn_recv` into the tail's free space.
  * `MsgParsedDone`, `MsgParsedSplit`, `MsgFragment`, `MsgRepair` and `MsgParseAgain` are one iteration of the parse loop. Each is `msg_parse` with one sub-handler, its `recv_done`, and `recv_next(conn, false)`.

  The parser, `mbuf_split` and the callbacks are outside `src/` and modelled from the spec (`Parse`, `SplitHead`, `SplitTail`):
  * The parser scans the tail mbuf from `pos`. The end of a key gives OK, or FRAGMENT if it is not the request's last key.
  * A full tail ending inside a token gives REPAIR, with `pos` at the token start.
  * Anything else gives AGAIN.

  Allocation failures are switched on by two constants:
  * `NextGetFails` lets `recv_next` fail to get a message (`RecvNoMsg`). `msg_recv` then returns DN_OK and waits for the next edge.
  * `HandlerAllocFails` lets the other allocations fail:
    * `mbuf_get` in `msg_recv_chain` (`RecvNoMbuf`);
    * `mbuf_split`, `post_splitcopy` or `msg_get` in the handlers (`MsgParsedFail`, `MsgFragmentFail`, `MsgRepairFail`).

    A failed split leaves the chain whole. A failure after the split puts the split-off mbuf, so the chain is cut. Every one of these returns an error, and `RecvError` models the caller closing the connection: `pc` becomes `"closed"`.

  A handler failure after `mbuf_split` leaves `conn->rmsg` with a cut chain whose `mlen` still counts the dropped bytes (`dyn_message.c:584`, `:615`, `:621`). The spec's policy is never to mutate partially on failure (section 7). The connection is closed at once, so the cut chain is only seen by the close path; `FramingRefined` checks that it is never parsed or delivered.

  `FramingRefined` checks the engine against `RequestFraming` under the mapping `nread <- consumed`, `out <- the bytes of each delivered message` and `closed <- pc = "closed"`.
* **ByteStream** — the abstract send promise:
  * The wire is always a prefix of the queued bytes.
  * A message completes only after all its bytes are on the wire, and messages complete in queue order.
  * Weak fairness makes every queued message complete.
* **MsgSend** — the send engine on one connection. Variables:
  * `q` is the outbound queue: messages with their mbufs (data and `pos`) and `mlen`.
  * `sockbuf` is the kernel socket buffer, which holds at most `SNDBUF` bytes.
  * `wire` is the bytes writev accepted.
  * `done` is the `send_done` calls in order.

  Actions:
  * `Enqueue` is the upper layer queueing a message and arming the write event.
  * `Drain` is the peer reading from the socket buffer, which is a writability edge.
  * `MsgSendStart` and `MsgSendNothing` come from `msg_send`.
  * `MsgSendChain` is all of `msg_send_chain` plus `msg_send`'s loop test:
    * the batch built from `q` with at most `DN_IOV_MAX` iovec entries (`BatchLen`, `SendV`);
    * one writev bounded by the socket buffer (`Written`). `ConnSendv` gives `conn_sendv`'s return, modelled from spec §6: 0 for a batch with no bytes, EAGAIN for a full socket buffer, otherwise the bytes written;
    * the post-processing of `nsent` over the batch (`Left`, `Advance`, `IsSent`);
    * `send_done` for the finished messages;
    * the return status (`ChainStatus`): DN_OK after a write or on EAGAIN, DN_ERROR otherwise. On DN_ERROR `msg_send` returns the error to the event loop, and the connection is `closed`.

  A message of `Out` may hold no bytes (`mlen` 0), as spec §4.H step 4 allows.

  `StreamRefined` checks it against `ByteStream`.
* **MsgTimeout** — the timeout index composed with the pool. It instantiates `MsgPool` as `Pool` with the same variables and adds:
  * `tmo_rbe`, each message's embedded node (`key`, `data`);
  * `tmo_rbt`, the set of linked nodes;
  * `now`, the millisecond clock.

  `MsgTmoInsert`, `MsgTmoDelete` and `MsgTmoMin` translate the three functions. `Get` and `GetError` are the pool's gets plus `_msg_get`'s `rbtree_node_init` of the message returned (`NodeReset`). The callers are outside `src/` and modelled from the spec: `Forward` (`req_forward`), `Respond` (`rsp_forward`), `ReqPut` (`req_put`: delete, then `msg_put`) and `Expire` (`core_timeout`: `msg_tmo_min`, then delete if the deadline passed).
* **MsgRecvCrypt** — the encrypted branch of `msg_recv_chain` (`expected_fill` set from `dmsg->plen`) for the payload of one frame, starting in a fresh mbuf. Variables:
  * `mhdr` is the chain: each mbuf's bytes and its `read_flip` flag.
  * `mlen` is `msg->mlen`, and `plen` is `dmsg->plen`.
  * `consumed` is the ciphertext read so far.
  * `flen` is the frame's length, a history variable.

  `RecvCipher` is one call, read by read, in the code's order:
  * choose the mbuf (`NeedsMbuf`: none, full to `end`, or full to `end_extra`);
  * read `n` of `msize = min(plen, end_extra - last)` bytes (`ReadSize`), and fewer when the read is short;
  * advance `last` and `mlen`;
  * when `n >= plen` or `last == end_extra` (`MustDecrypt`), decrypt into a new `read_flip` mbuf (`Decrypted`), then swap it into the chain and fix `mlen` (`CryptMlen`);
  * `plen -= n`.

  `dyn_aes_decrypt` is modelled byte by byte: ciphertext byte i becomes plaintext byte i, and decrypting plaintext gives garbage. `Wire` is the connection's bytes: the frame's ciphertext, then the next frame's bytes.

  With `MbufFails`, `mbuf_get` can fail in two places, and each failure closes the connection (`CryptRecvError`):
  * for the chain, before anything is read (`RecvCipherNoMbuf`);
  * for the plaintext, after the read was counted in `last` and `mlen` but before `plen -= n` (a disjunct of `RecvCipher`).
* **MsgClone** — `msg_clone` as one action `Clone`. Variables:
  * `src`, the message cloned: its chain, `mlen` (every byte between `start` and `last`, read or not, as §3 invariant 1 and `msg_length` have it) and `pos` cursor. A byte is the pair `<<k, j>>` (byte j of mbuf k), so a copy can be traced to where it came from. Each mbuf has its bytes and how many lie before `mbuf->pos`.
  * `mbuf_start`, an index into `src`'s chain, or 0 for an mbuf that is not in it.
  * `target`, a fresh message (`EmptyMsg`), and `status`, the return value.

  `Clone` copies `mlen` and the `pos` cursor as they are. Its `STAILQ_FOREACH` with the `started` flag is the recursive operator `CloneLoop`. `CloneLoop` stops with ENOMEM at the `mbuf_get` that fails and leaves the earlier copies in the target. `Init` enumerates every src chain and every `mbuf_start`. `Clone` chooses the number of `mbuf_get` calls that succeed.
* **MCMsgPool, MCMsgRecv, MCMsgSend, MCMsgTimeout** — the model values and sequences the configurations use.

## Runs

| Run | Config | Expect | What it shows |
|-----|--------|--------|---------------|
| pool_oom | `MCMsgPool_oom.cfg` | violation | `dn_alloc` may fail. A failure leaves `alloc_msg_count` incremented, so a later get is refused at a ceiling while fewer objects exist (finding 1). |
| recv_pipeline | `MCMsgRecv_pipeline.cfg` | pass | Three pipelined single-key requests of 4 bytes through 3-byte mbufs, byte by byte, with `recv_next` able to find no message. They exercise read splits, `msg_parsed` splits, repairs of straddling tokens and edge-triggered re-reads. `mlen` equals each chain's bytes, and no mbuf is overfilled. |
| recv_multikey | `MCMsgRecv_multikey.cfg` | pass | A three-key request and a one-key request, with every allocation of `msg_recv_chain` and the handlers able to fail. The fragments form one group (`FragmentGroups`): shared `frag_id`, owner the first fragment, first/last flags on the ends, owner's `nfrag` the size. The engine refines `RequestFraming` with `closed` mapped to the closed connection: every unit delivered is the next unit of the stream, and all are eventually delivered unless an error closed the connection. |
| recv_nextget | `MCMsgRecv_nextget.cfg` | violation | One refused `msg_get` in `recv_next`, after the client's last bytes arrived, leaves those bytes unread forever on an open connection, so `FramingRefined`'s liveness fails (finding 6). |
| recv_fragmlen | `MCMsgRecv_fragmlen.cfg` | violation | After the first `msg_fragment` the owner's `mlen` is less than its chain's bytes (finding 2). |
| recv_splitcap | `MCMsgRecv_splitcap.cfg` | violation | With a 3-byte header and 2-byte keys in 4-byte mbufs, the fragment split after a repair builds a 5-byte mbuf (finding 3). |
| timeout | `MCMsgTimeout.cfg` | pass | The pool and the timeout index together: 3 messages, `ALLOWED=1`, `MAX=2`, an external and a peer connection, `mbuf_get` able to fail in `msg_get_error`, server timeouts -1 (none), 1 and 3 ms, clock up to 4 ms. Gets, forwards, responses, expiries and puts keep every linked node's back-reference set and every unlinked one's cleared, and only messages handed out are indexed (`IndexSound`). Every object is live or once on the free list, and `nfree_msgq` counts it (`PoolConservation`). A get is refused only at a ceiling really reached (`CapRefusalJustified`). An external get never takes the object count past the soft ceiling (`ExternalWithinSoftCap`). A request whose deadline has passed always leaves the index in the end, however later forwards interleave (`ExpiredWithdrawn`, under weak fairness on `Expire`). |
| recv_crypt | `MCMsgRecvCrypt.cfg` | pass | Frames of 1–10 bytes, read in pieces of every size through 2-byte mbufs with 1 byte of `end_extra` padding. `mbuf_get` can fail for the chain or for the plaintext. `mlen` equals the chain's bytes across every read and decrypt swap (`CryptMlenMatchesChain`). The message never holds a byte of the next frame (`FrameNotOverread`): every read is bounded by `plen`, and the failed plaintext allocation, which returns before `plen -= n` and so leaves it stale, closes the connection. |
| recv_crypt_short | `MCMsgRecvCrypt_short.cfg` | violation | A 2-byte frame read as 1 byte, then 1, into the same mbuf. The second read decrypts `[start, start + plen)` with `plen` 1, which is the first read's byte, and copies its own byte raw behind it. The frame's last byte stays ciphertext (finding 5). |
| clone | `MCMsgClone.cfg` | pass | Every src chain of 1–3 mbufs of 1–2 bytes with every `pos`, every `mbuf_start` (in the chain or not), and every point where `mbuf_get` fails. A DN_OK target holds exactly the unread bytes from `mbuf_start` on, mbuf for mbuf. An ENOMEM target holds a strict prefix of them (`CloneCopiesUnread`). The checked reference is `ExpectedCopy`. |
| send | `MCMsgSend.cfg` | pass | Three messages of 1–2 mbufs through a 2-entry iovec and a 2-byte socket buffer: short writes, EAGAIN, the iovec limit inside a message, and `nsent` ending on mbuf boundaries. The wire plus the unsent bytes is always the queued stream, and completions are in order (`StreamResumes`). The engine refines `ByteStream`, liveness included. |
| send_empty | `MCMsgSend_empty.cfg` | violation | A one-byte message, then a message with `mlen` 0 queued once the first is sent. The empty message's batch has `nsend` 0: it gets `send_done`, and then the connection is closed (finding 4). |

Every property of a passing run has a mutant in `PROJECT.json`: a plausible bug in a mapped definition that TLC shows breaks it.
* Pool (checked in the timeout run): a hard ceiling off by one, a reuse counted as an allocation, and a soft ceiling off by one.
* Receive: a read sized by the socket rather than the mbuf, `msg_parsed` not moving `mlen`, and `nfrag` not bumped on a delivered owner.
* Receive failures: a handler error that `msg_recv` swallows, so the engine goes on parsing a cut chain and delivers a mangled unit.
* Timeout: an insert without the `timeout <= 0` early return (a negative key), an insert that forgets `node->data`, and a `msg_tmo_min` that returns the latest deadline instead of the earliest (an expired request then waits behind one that never expires).
* Clone: a skip test that forgets `started`, so only `mbuf_start` itself is copied.
* Encrypted receive: an `mlen` update that adds the plaintext without taking off the ciphertext, and a DN_ENOMEM that does not close the connection. With that second bug, the stale `plen` makes the next read take the next frame's bytes.
* Send: a partly sent mbuf treated as sent, and `nsent < mlen` written as `<=`. With that last bug, a message whose last mbuf was sent exactly is never completed.

A msg_send that ignores `send_ready` breaks nothing: every write leaves bytes in the socket buffer, and draining them gives a fresh edge.

## Findings

1. **`alloc_msg_count` leaks on allocation failure** (`dyn_message.c:220`). The counter is bumped before `dn_alloc` and not restored when it returns NULL.
2. **Fragment `mlen` accounting** (`dyn_message.c:629`). `nmsg->mlen = mbuf_length(nbuf)` includes the header `pre_splitcopy` wrote. `msg->mlen -= nmsg->mlen` therefore takes those header bytes off a message that never held them, which breaks spec §3 invariant 1.
3. **Pre-copied header overflowing an mbuf** (`dyn_message.c:608`). After REPAIR the tail mbuf starts at a key and is read full. The fragment split then needs the header plus the rest of the tail in one mbuf, which is more than its capacity when the header is longer than a key token.

4. **An empty message alone closes the connection** (`dyn_message.c:946`, `:1002`). A message with `mlen` 0 that is alone in its batch gives `nsend` 0:
   * a build with assertions stops at `ASSERT(nsend != 0)`;
   * without assertions, `writev` of nothing returns 0, and the message gets `send_done`. `msg_send_chain` then returns DN_ERROR, because 0 is neither positive nor DN_EAGAIN, and the connection is closed.

   The spec completes `mlen`-0 messages (§4.H step 4). It also counts a 0 from `sendv` as the EAGAIN sentinel, on which send_chain returns OK (§4.H step 5, §6). A related ordering case: after a short or refused write, an `mlen`-0 message behind an unfinished one still gets `send_done` (`:960`), so completions leave queue order.

5. **Encrypted payload decrypted only in part** (`dyn_message.c:806`, `:818`). The decrypt runs when `n >= dmsg->plen` or `last == end_extra`, and it decrypts `[start, start + plen)`. Here `plen` is what was still expected before this read, not what the mbuf holds. So in two cases part of the frame stays ciphertext in the message:
   * when the frame came in several reads into the same mbuf, the `plen` bytes from `start` that get decrypted are the earlier reads' bytes, and this read's bytes are copied raw behind them (the trace TLC reports: a 2-byte frame read 1 + 1 ends as plaintext byte 1, ciphertext byte 2);
   * an mbuf that filled to `end` (not `end_extra`) before `plen` bytes arrived is never decrypted.

   The spec (section 4.G step 4, section 8) says the payload is decrypted once the expected bytes arrive.

6. **A refused `recv_next` stalls the connection** (`dyn_message.c:866`). When `recv_next` cannot get a message, `msg_recv` returns DN_OK. For an external connection this happens whenever the pool is at its soft ceiling. The bytes already in the kernel get no further readiness edge until the client sends more. The connection is then neither read nor closed, whereas the spec (section 7) says a connection that cannot make progress is closed.

## Bounds and why they suffice

* **Pool** (in the timeout run). 3 objects against `MAX=2` and `ALLOWED=1` leave one more object than the hard ceiling allows, so an off-by-one at either ceiling is visible. Two connections, one per mode, cover both values of `force_alloc`. (`pool_oom` keeps 4 objects against `MAX=3`.)
* **Receive.** `HdrLen=KeyLen=2` against `MBUF_CAP=3` makes every request longer than an mbuf and every key able to straddle one. Bytes arrive one at a time, and TLC interleaves arrivals with reads in every way, so every read size from 1 byte up to a full mbuf occurs. Three requests put several requests in one read. A three-key request gives a group with a middle fragment, and with an owner already delivered when `nfrag` is bumped.
* **Timeout.** The two ceilings below three objects make reuse happen early. Timeout -1 exercises the skip in `msg_tmo_insert`. With 1 and 3 ms and a 4 ms clock, deadlines both pass and do not pass before a response, and a request forwarded later can have the earlier deadline, so `msg_tmo_min`'s choice differs from insertion order.
* **Send.** A 2-entry iovec and a 2-byte socket buffer against messages of 1–3 bytes in 1–2 mbufs make every write partial or limited somewhere: in the middle of an mbuf, at an mbuf boundary, at the iovec limit inside a message, and at a message boundary.

* **Clone.** Three mbufs give a start before, at and after the middle of a chain. Two bytes per mbuf give an mbuf partly read, fully read and unread. A failure at each of the 0–3 `mbuf_get` calls is enumerated.
* **Encrypted receive.** Frames up to 10 bytes through 2-byte mbufs with 1 byte of padding span up to four mbufs. Every read size from 1 to `msize` is taken, so reads end at `end`, at `end_extra`, and short of both.

The timeout run checks deadlock: a get or a put is always possible. The clone run does not, because `msg_clone` is one call and nothing follows its return. The engine runs turn deadlock checking off (`CHECK_DEADLOCK FALSE`) because the modelled connection's input or output is finite. Once it is all read or written the system really stops, and the refinement's liveness says this happens only after everything was delivered.

## Fairness

* Weak fairness on `Arrive` and `Drain` means the client keeps sending and the peer keeps reading. Without it nothing could be promised.
* Weak fairness on `MsgRecvStart`/`MsgSendStart` and on the engine's steps is the single-threaded event loop running the handler of a ready connection, and a handler, once running, finishing its loop.
* `Enqueue` has no fairness: the upper layer queues at its own pace.
* In `MsgTimeout` only `Expire` is weakly fair. The event loop calls `core_timeout` on every iteration, so an expiry that stays possible is taken. Gets, forwards, responses, puts and the clock follow traffic and carry no fairness. The clock stops at `MAX_TIME`, so `ExpiredWithdrawn` speaks only of deadlines that have passed.
* The abstract specifications put weak fairness on delivery and completion, so `FramingRefined` and `StreamRefined` check liveness as well as safety.

## Not modelled (yet)

* **Callers that put a request still in the timeout tree.** `msg_put` (`:451`) leaves the tree alone. `_msg_get` (`:235`) clears the node of a message it reuses even when the node is still linked. A message put while indexed would therefore stay in the tree for good: `msg_tmo_delete` skips it, and `msg_tmo_min` hands `core_timeout` an entry whose connection is NULL. The modelled `req_put` deletes before it puts, as the spec's callers do, and `IndexSound` shows that this is enough. The contract is not stated in the spec or enforced in this file.
* **Red-black tree internals** (`rbtree_*`, outside `src/`). The tree is the set of linked nodes, so inserting a node that is already linked (`msg_tmo_insert` does not check) cannot be shown. The model's callers insert only unindexed requests.
* **Parts of the encrypted receive path.** Not modelled:
  * AES padding: plaintext shorter than its ciphertext would leave a plaintext tail that later reads append ciphertext to;
  * the parse between reads;
  * frames that start in an mbuf that already holds bytes.
* **Parse errors** (`:745-756`). On an external connection a parse error closes it. On a `dyn_mode` connection `msg_parse` returns DN_OK with `pos` where it was, so the same bytes are parsed again after every read. Modelling this needs two things outside `src/`: malformed bytes in the abstract grammar, and the parser's state after an error. The spec leaves the `dyn_mode` case as an open question (§9).
* **`msg_deinit` and `msg_free`** (`:441-447`, `:535-555`). These run once, at worker shutdown, and a terminal shutdown step would end the timeout run's deadlock check. Their assertions (`nfree_msgq` counts the free list down to 0, a freed message has no mbufs) are what `PoolConservation` checks in every state.
* **What a clone's fields mean.** `Clone` copies `mlen` and `pos` (and, in the code, `key_start`/`key_end`) as they are. This creates two problems, and no property claims the spec's §3 invariants for a clone, because each check would fail on the first clone and repeat what one line of the code says:
  * `pos` points into `src`'s mbufs, not the clone's, and it dangles once `src` is put (`:374`);
  * `mlen` is `src`'s total, while the clone's chain holds only the unread bytes from `mbuf_start` on. The two differ when `mbuf_start` is not the first mbuf or is not in the chain, or when a `pos` has moved (`:373`).

  Both are listed as hazards. Which `src` and `mbuf_start` the callers pass is decided outside `src/`. Also, on ENOMEM `msg_clone` keeps the copies it already inserted in the target, whereas spec §7 says it releases what it acquired. `CloneCopiesUnread` checks what is left there: a prefix the caller must put.
* **`conn_recv`/`conn_sendv` errors** other than EAGAIN and the 0 that `conn_sendv` returns for a batch with no bytes, and the `SSIZE_MAX` limit, which is never reached.
* **Logging and formatting**: `msg_dump`, `msg_mbuf_size`, the error text of `msg_get_error` (including its uninitialised `source`), `msg->id`, and the parser/callback binding in `msg_get`. These are left out because no property is about them. (`msg_length` is `Content` in the receive modules, where `MlenMatchesChain` and `CryptMlenMatchesChain` compare it with `mlen`.)

The next step is the `dyn_mode` parse-error branch, once the parser's behaviour after an error is pinned down.
