# TLA+ models of bee-p (peer protocol, node workers, storage and conversions)

This directory holds TLA+ models of the parts of the bee-p node that make up the peer protocol's receive path, two background workers, the RocksDB write batch and the pure conversions. It also holds the TLC configurations that check them.

## The system and its parts

| Part | Source | What it does |
|---|---|---|
| Connection Receiver | `src/bee-protocol/src/worker/receiver.rs` | One async worker per peer. It consumes the network's events (Connected, Message(bytes), Disconnected, Removed) in order. It moves through AwaitingConnection, AwaitingHandshake and AwaitingMessage. It reassembles arbitrarily chunked TCP reads into frames: a 3-byte header (a type byte, then a big-endian u16 length) followed by the payload. |
| Dispatch Router | `process_message`, receiver.rs | Decodes a complete frame by kind. Requests go to the bounded responder channel and broadcasts to the bounded transaction-worker channel, each with `send().await`. A send on a closed channel is logged as FailedSend and the loop goes on. |
| Message codec | `message/*.rs` | The ids; `size_range` (a half-open Range), which gates every `from_full_bytes`; and each kind's payload layout: big-endian integers, fixed arrays and the handshake's variable version tail. |
| Ternary conversion | `bee-ternary-ext/src/bigint/t243/mod.rs` | `T243::from_u384`: the 384-bit integer, as 12 big-endian u32 limbs, turned into 243 base-3 digits by repeated long division by 3, cutting the leading zero limbs off before each division. |
| TPS worker | `worker/tps.rs` | Once a second logs how much the three transaction metrics grew since its last reading. Its loop races a one-second delay against the shutdown receiver. |
| Version negotiator | `protocol/version.rs` | `common_supported_version`, a bitmask scan in u8 arithmetic. |
| Transaction requester | `worker/requester/transaction.rs` | Loops on a `select!` between popping a priority queue of (hash, milestone index) entries, ordered by index, and its fused shutdown receiver. A popped entry is requested unless the tangle knows the hash. |
| Ledger confirmation worker | `bee-ledger/src/whiteflag/confirmation.rs` | Loops on a `select!` between its fused shutdown receiver and the fused milestone channel; confirms each milestone received and breaks on any shutdown outcome. |
| RocksDB storage batch | `bee-storage-rocksdb/src/access/batch.rs` | Builds a `WriteBatch` with `try_insert`/`try_delete` on two column families and applies it with `sync = false` and the WAL disabled unless `durability` is set. |
| Snapshot packing | `bee-snapshot/src/milestone_diff.rs`, `spent.rs` | `pack`, `unpack` and `packed_len` of a milestone diff. |
| Autopeering salt | `bee-autopeering/src/salt/mod.rs` | `Salt::new(lifetime)` fills 20 random bytes (which may fail) and stamps the salt with `Instant::now() + lifetime`; `expired()` is `now > stamp`. |
| Network, downstream workers | not in this source | Modelled from the spec as the environment. |

The receiver is the main concurrent component. The TPS worker, the confirmation worker and the transaction requester run beside the workers that feed them; they share no state, and one model (`MCNodeWorkers`) checks each of them. Storage batches are applied by concurrent tasks against RocksDB, whose crash behaviour is the environment. The receiver's hard behaviours are:
- reads of any size;
- reconnects that must drop stale bytes;
- backpressure, where a worker suspended in `send().await` cannot see Removed;
- several peers' workers sharing one bounded channel;
- consumers that stop and close their channel.

The other sources are listed in `PROJECT.json` as not modelled, each with its reason:
- snapshot metadata (getters only);
- the T243 conversions other than `from_u384`, which call code outside this source;
- the trait and example files.

## Modules

- **`MessageCodec`**
  - The header codec (`DecodeHeader`/`EncodeHeader`; `Header` is not in this source, so these are spec-modelled).
  - The message ids.
  - `SizeRangeContains`, which is `size_range().contains`.
  - `FromFullBytes`, which is the length check every decoder begins with. The field decoding after it cannot fail on a length-valid slice.
  - Payloads are opaque byte sequences. Frame sizes are scaled down by the constants `MinSize`/`MaxSize`.
- **`ReceiverWorker`** (extends MessageCodec)
  - The receiver and router for a set of `Peers`, with the network and the two consumers as its environment.
  - Worker state per peer: `rstate` (the `ReceiverWorkerState`), `mstate` (the `ReceiverWorkerMessageState`), `buffer` and `offset` (the reassembly buffer), `events` (the peer's event channel), and `pc`, which is "idle", or "loop" while `message_handler`'s `while` loop is suspended between iterations.
  - Each `await` in the loop is a point where other workers and consumers run. So one iteration of the loop is one action:
    - `LoopHeader`: read a header;
    - `LoopPayload`: decode a frame and send it, which blocks while the channel is full;
    - `ExitLoop`: truncate the buffer and return.
  - Every other handler is one action: `ConnectionHandler`, `HandshakeHandler`, `MessageHandler`'s append, and `RunRemoved`.
  - Channels: `txChan`/`respChan` are sequences of bounded length `TxCap`/`RespCap`, with `txOpen`/`respOpen`.
  - History variables record:
    - what each peer sent on its current connection (`rscript`, `rpos`);
    - where the handshake ended (`hsEnd`);
    - every frame dispatched (`dispatched`, `hsBase`);
    - what the consumers took (`txDone`, `respDone`).
- **`ReceiverSession`**: the abstract specification of one peer session.
  - A session is opened when the handshake is accepted.
  - Its byte `stream` only grows (`Receive`).
  - `Deliver` hands over the next complete frame of `ParseFrames(stream)`, one at a time and in order. It is weakly fair.
  - `Close` forgets the stream.
  - `ReceiverWorker` defines the refinement mapping (`SessionLive`, `SessionStream`, `SessionDelivered`):
    - a session is live in AwaitingMessage;
    - its stream is the bytes the worker took since the handshake;
    - its deliveries are the frames given to `process_message` since then.
  - `Session == INSTANCE ReceiverSession WITH ...`, and the property `SessionSpec` is its specification.
  - The weak fairness of `Deliver` is checked in the form `DeliverFair`, with `ENABLED Deliver(p)` written out as `Pending(p)`. This is equivalent, and TLC does not have to evaluate ENABLED through the mapping.
- **`PayloadCodec`** (extends MessageCodec): `from_bytes` and `into_bytes`/`to_bytes` of Handshake, MilestoneRequest, TransactionRequest and TransactionBroadcast.
  - The v2 requests' `to_bytes` writes into a caller's buffer of `size()` bytes with `copy_from_slice`, which panics on any other length; `IntoBytesOf` allocates the buffer as the `Message` trait's `into_full_bytes` (not in this source) does.
  - Slicing past the end and `copy_from_slice` on unequal lengths give the result `Panic`.
  - `FromFullBytesOf` is the spec's `from_full_bytes`: the size-range check, then the kind's `from_bytes`.
  - `DecodeTotal` also checks that the receiver's size table (`MinSize`/`MaxSize`) is the kinds' `size_range()`.
- **`T243Conversion`**: `from_u384` as the recursive operators `FirstDigit`, `SkipZeros`, `DivideBy3` and `Trits`, over `NumLimbs` limbs of `LimbBits` bits and `NumTrits` trits; `into_t242` as `IntoT242`, which drops the last trit.
- **`SnapshotPacking`**: `pack`, `unpack` and `packed_len` of `MilestoneDiff` and `Spent`.
  - A Write/Read stream is a byte sequence, and a short `read_exact` is an error.
  - `unpack` leaves the bytes after the record.
  - `Output` and `TransactionId` (not in this source) pack to raw bytes of fixed size.
- **`TpsWorker`**: `TpsWorker::run` and `tps()`.
  - State: the shared `metrics`, the worker's fields `last`, the oneshot `shutdown` (open, sent, taken, dropped) and `running`.
  - `Tick`: the delay wins the race and `tps()` runs. `ShutdownOk`: a sent value is an `Ok(())` too, so `tps()` runs and the receiver is left completed. `Stop`: polling the completed or abandoned receiver yields `Err(Canceled)` and the loop breaks.
  - The metric increments, the send and the drop of the shutdown sender are not in this source; they are the environment.
- **`VersionNegotiation`**
  - `Scan` is the recursive operator for `common_supported_version`'s loop, in u8 arithmetic for a debug build (panic) and a release build (wrap).
  - The inputs are chosen in `Init`.
  - The reference definitions `Versions`, `Common` and `MaxOf` say what the result should be.
- **`ConfirmationWorker`**: `LedgerConfirmationWorker::run`.
  - State: the unbounded milestone channel `chan`, whether a sender is alive, the fused receiver's `rxDone`, the oneshot `shutdown` (open, sent, dropped, taken), `running` and the milestones `confirmed`.
  - `ShutdownBranch`: the shutdown branch wins; `_ = shutdown_fused => break` matches both `Ok(())` and `Err(Canceled)`. `Confirm`: `Some(milestone)` is confirmed. `EventNone`: every sender is gone and the channel is drained; the stream is left terminated.
  - Sending milestones, dropping the senders and sending or dropping the shutdown are other workers: the environment.
- **`TransactionRequester`**: `TransactionRequesterWorker::run`.
  - State: the priority `queue` and the entries `pushed`, the tangle's solid entry points `seps` and stored transactions `txs`, the oneshot `shutdown`, `running`, and the histories `popped` and `requested`.
  - `Pop`: the pop branch wins with an entry greatest by `EntryLess` (the `Ord`, by milestone index only; ties in any order) and calls `ProcessRequest` unless the hash is a solid entry point or stored. `ShutdownBranch`: as in the confirmation worker.
  - The queue's pushers, the tangle and the shutdown sender are the environment; each entry is pushed at most once.
- **`StorageBatch`**: `Batch::create_batch`, the two `BatchBuilder` impls (`try_insert`, `try_delete`) and `apply`.
  - State: each client's `batch` (a sequence of column-family ops, or `None`), the `log` of applied batches with their WAL flag and durability, and RocksDB's persistence: `flushed` (in table files) and `synced` (WAL on disk).
  - `Apply` appends the whole batch atomically with `wal = durability` (`disable_wal(!durability)`); `ApplyErr` is `write_opt` failing.
  - RocksDB is the environment (spec-modelled from its documented behaviour): `Flush` persists the memtable, `Writeback` is the OS writing WAL pages, and `Crash(kind)` restarts with the flushed batches plus the WAL records a process crash ("process") or a power loss ("power") leaves.
- **`Salt`**: `Salt::new` and `expired()`.
  - State: the clock `now`, the current `salt` (its expiration stamp; the random bytes are left out), the last `outcome` and `panicked`. No property is checked of it: `expired()` is the single comparison `now > stamp`, and what the caller does with an error or a panic is not in this source.
  - `New(l)`: the CSPRNG fill fails (`FillingWithRandomBytesFailure`, the old salt is kept), or the stamp `now + l` overflows the last Instant (`InstantMax`) and panics, or a new salt replaces the old one. `Tick` is time passing.
- **`MCReceiverWorker`, `MCVersionNegotiation`, `MCStorageBatch`**
  - Model values for peers, the scaled size table and the scripts for the receiver.
  - Enumerated masks for the negotiator's violation runs (the passing check of the negotiator is in `MCConversions`).
  - Model values for the clients, keys and values of the batch, with symmetry over the clients.
- **`MCConversions`**: one run for the four pure algorithms. Each initial state is one input of one of them (`which`); `PayloadCodec`, `T243Conversion`, `SnapshotPacking` and `VersionNegotiation` are instances with scaled widths, every input length, distinct field values and every mask built from the chosen bytes.
- **`MCNodeWorkers`**: `TpsWorker`, `ConfirmationWorker`, `TransactionRequester` and `Salt`, each an `INSTANCE` with its own shutdown and running variables. The three share no state, so each property is about one worker and holds of it interleaved with the others exactly when it holds alone. Each behaviour therefore runs one worker, chosen by `which` in `Init`, with its environment and its own fairness; this keeps the state space the sum of the four rather than their product.

### Environment (spec-modelled)

Each peer has a script: a sequence of frames that begins with its handshake.
- `NetConnect` starts a connection and emits Connected.
- `NetReceive` emits the next 1..`MaxChunk` bytes of the encoded script. Reads of every size are explored.
- `NetDisconnect` emits Disconnected, and a later connection replays the script from the start.
- `NetRemove` emits Removed.

The network emits Connected only while the peer is disconnected. With this order, the code's catch-all arms (a Connected event in a connected state) are unreachable, so they are not modelled.

The consumers take items in FIFO order (`TxWorkerStep`, `ResponderStep`). They can stop at any time (`TxWorkerStop`, `ResponderStop`), which closes their channel.

## Runs

| Run (cfg) | Expect | Checks | What it shows |
|---|---|---|---|
| `receiver_one_peer` (ReceiverWorker.cfg) | pass | TypeOK, ReassemblyCorrect, LoopDrains, RouteFaithful, RemovedStops | Reassembly is exact for reads of 1..4 bytes over two connections. No complete frame is left in the buffer when the worker goes idle. Every accepted request and broadcast reaches its consumer, in order, while the consumer is alive, and later ones may be dropped only after it closed. Removal ends the worker even from a blocked send. |
| `removal_blocked_send` (RemovalBlocked.cfg) | violation | RemovedStops | With consumers that neither take items nor stop (`SpecStalledConsumers`), a worker blocked in `send().await` on a full channel never sees Removed (finding 6). |
| `receiver_two_peers` (TwoPeerRouting.cfg) | pass | RouteFaithful | Both peers' workers forward two milestone requests for different indexes into the one capacity-1 responder channel; whatever the interleaving of the workers blocked on `send`, each peer's requests reach the responder complete and in order. A `try_send` in place of `send().await` would lose them. |
| `handshake_coalesce` (HandshakeCoalesce.cfg) | violation | PostHandshakeOrder | A read that holds only part of the handshake, or the handshake plus the start of the next frame, makes the worker misframe the rest of the stream (finding 1). |
| `session_refinement` (SessionRefinement.cfg) | pass | SessionSpec | Over two connections with reads of 1..4 bytes, the worker implements `ReceiverSession`, its fairness included. Every process_message call gets exactly the next complete frame, and every complete frame is eventually handed over while the session lasts, even past blocked sends. |
| `conversions` (MCConversions, Conversions.cfg) | pass | DecodeTotal, RoundTrip, FromU384Exact, PackUnpackRoundTrip, OkIsHighestCommon | For every payload length from 0 to two past each kind's range, `from_full_bytes` never panics and succeeds exactly on in-range lengths, and every encoding is written without a panic and decodes back. For all 512 values of 3 limbs of 3 bits, `from_u384` gives the base-3 digits. Every diff with up to two outputs and two spents unpacks from its packing followed by another record, and no strict prefix unpacks. Over every 1–2-byte local mask and 1–3-byte remote mask built from 7 bit patterns, `common_supported_version` returns the highest common version. |
| `snapshot_packed_len` (MCConversions, PackedLen.cfg) | violation | PackedLenMatches | `MilestoneDiff::packed_len` counts only the index and the two counts (finding 4). |
| `node_workers` (MCNodeWorkers, NodeWorkers.cfg) | pass | TpsShutdownStops, ConfirmationShutdownStops, RequesterShutdownStops | Each worker's loop ends once its shutdown is sent or its sender dropped, the confirmation worker's even while milestones keep arriving and the requester's while entries wait. The salt's steps run in the same model and fire all its actions. |
| `batch_power_loss` (MCStorageBatch, PowerLoss.cfg) | violation | DurableSurvivesPowerLoss | A power loss loses a durable batch whose WAL record was still in the page cache (finding 5). |
| `version_overflow` (VersionOverflow.cfg) | violation | OkIsHighestCommon | 32-byte masks sharing version 256: a debug build panics and a release build wraps to 0 (finding 2). |
| `version_err_payload` (VersionErrPayload.cfg) | violation | ErrReportsRemoteHighest | Zero-padded masks make the failure payload 248 rather than the remote's highest version (finding 3). |

### Properties

- **`ReassemblyCorrect`.** In AwaitingMessage, these three pieces together are exactly the bytes the peer has sent since its handshake, byte for byte:
  - the frames dispatched since the handshake, re-encoded;
  - the pending header;
  - the unconsumed buffer.

  It catches a wrong truncation offset, stale bytes kept over a reconnect, and a header decoded from the wrong position.
- **`LoopDrains`.** When the worker is idle, no complete header (in Header state) or complete payload (in Payload state) is left in the buffer. This catches an off-by-one in the availability tests.
- **`RouteFaithful`.** For each peer and channel, what the consumer took and what is queued form a prefix of the accepted frames of that kind, in dispatch order. The prefix is the whole of them while the channel is open.
- **`RemovedStops`** (liveness). A Removed event eventually stops the worker. It holds under the consumers' fairness (`Spec`) and fails without it (`SpecStalledConsumers`, finding 6).
- **`PostHandshakeOrder`.** The frames dispatched on a connection are a prefix of the frames the peer sent after its handshake.
- **`SessionSpec`** (refinement, with liveness). It contains the ordering of `PostHandshakeOrder`, but stated over the bytes the worker actually took. It adds that a frame is handed over only when complete, and eventually.
- **`DecodeTotal`.** `from_full_bytes` never panics and succeeds exactly when the length is in range. This is what makes `MessageCodec`'s length-only `FromFullBytes` a sound abstraction for the receiver. It also checks that the size constants agree with the field layout; `TransactionRequest::from_bytes` has no length check of its own.
- **`RoundTrip`.** Encoding never panics (so each v2 request's `size()` is the length its `to_bytes` writes) and decoding the encoding gives the message back, which checks the field order, the offsets and the byte order.
- **`FromU384Exact`.** `from_u384` yields `NumTrits` digits in 0..2 whose value is the input's, the all-zero value included. `into_t242` of the result keeps the value exactly when it is below 3^(NumTrits-1), so the integers from 3^242 up to 2^384 lose their top trit.
- **`PackUnpackRoundTrip`.** Unpacking a packed diff gives it back and leaves the following bytes untouched; a truncated record is an error.
- **`PackedLenMatches`.** `packed_len` is the number of bytes `pack` writes.
- **`TpsShutdownStops`** (liveness). Once the TPS worker's shutdown is sent or its sender dropped, its loop ends. It holds only because polling a completed oneshot receiver again yields `Err`; a fused receiver would stay pending.
- **`ConfirmationShutdownStops`** (liveness). The same for the confirmation worker, whose receiver is fused: it holds because the branch's pattern `_` matches the `Err(Canceled)` of a dropped sender; `Ok(())` alone would leave the loop running.
- **`RequesterShutdownStops`** (liveness). The same for the transaction requester, whose pop branch is ready whenever entries wait.
- **`DurableSurvivesPowerLoss`** (action property). The same for a power loss; it fails (finding 5).
- **`OkIsHighestCommon`.** The result is Ok with the highest shared version when there is one, and never Ok when there is none.
- **`ErrReportsRemoteHighest`.** When the masks share no version, the error carries the remote's highest version.

Each property of a passing run has a mutant in `PROJECT.json`: a plausible bug in the mapped code that TLC must catch.

## Bounds

- **Payload sizes** are scaled down while keeping their order relative to the header size: Handshake 3..4, MilestoneRequest 1, TransactionBroadcast 1..2, TransactionRequest 2, Heartbeat 2, LegacyGossip 0..4.
  - The handshake is never shorter than a header, so a read can end inside a header, on a frame boundary, or inside a payload.
  - A frame sits next to its neighbours in every way these can occur.
- **One-peer script:** a handshake, then a MilestoneRequest, a TransactionRequest and a broadcast.
  - It covers both channels and all three positions a read can end in.
  - `MaxChunk` 4 is larger than a header and smaller than a frame.
  - `MaxConnects` 2 exercises the reconnect path.
  - Channel capacities of 1 make backpressure happen after a single item.
- **Two-peer scripts**: each peer sends a handshake and two milestone requests with different payloads, in reads of 1..3 bytes over one connection, so four requests from two workers contend for the responder channel's single slot. `MaxChunk` 3 (rather than 4) keeps the run within 5 minutes. They use symmetry over the peers, which is sound because the safety properties quantify over peers uniformly (no liveness property is checked in that run).
- **Session refinement** uses a three-frame script: a handshake, a request and a 2-byte broadcast. It has two connections and an event channel of capacity 1. The refinement check with liveness costs far more per state than the invariants, and these bounds still let reads end inside a header, on a boundary and inside a payload, before and after a reconnect.
- **Payload codec widths** are scaled because TLC integers are 32-bit: a 3-byte timestamp (u64), a 3-byte milestone index (u32), a 2-byte coordinator and hash (49), a 1..3-byte version tail (1..32) and a 1..3-byte transaction. The layout logic (running offsets, the tail copy, the range checks) does not depend on the widths. Field values have distinct bytes, so a swapped byte order or offset shows.
- **T243** uses 3 limbs of 3 bits and 6 trits. This keeps the code's relation 3^242 < 2^384 <= 3^243 as 3^5 < 2^9 <= 3^6, so the last trit is needed exactly as in the code. It has several limbs, so the leading-zero skipping and the carry of remainders across limbs both occur.
- **Snapshot diffs** have 0..2 outputs and 0..2 spents, each drawn from two distinct values, so the two lists can have different lengths. The counts are 2 bytes (u64) so that TLC can hold them; the index is u32-wide.
- **TPS worker:** three metrics, each bounded by 3, so each can grow between two reports, more than once, and again after the last one. `CHECK_DEADLOCK FALSE`: the worker's loop really ends, and the bounded increments stop.
- **Confirmation worker:** four milestones, so milestones can be queued, confirmed, and still arriving when shutdown comes. `CHECK_DEADLOCK FALSE` in the composition: both loops really end.
- **Transaction requester:** four entries, two hashes each at milestone indexes 1 and 2, so the queue's order and its ties both matter and a hash can be requested twice; either hash may become known to the tangle before or after its entry is popped.
- **Salt:** lifetimes 0, 1 and 3 on a clock of 4 ticks, the last Instant being 4: a salt expires within the run, is replaced before and after expiring, and one made late with lifetime 3 overflows the Instant.
- **Removal while blocked:** a script of a handshake and two milestone requests, with a response channel of capacity 1, so the second request blocks the worker on the full channel before Removed arrives.
- **Storage batch:** two clients (symmetric), one key, one value, one op per batch, three batches since the last recovery and two crashes of either kind. Both kinds of crash meet flushed, written-back and page-cache-only batches of both durabilities, and a second crash meets a log rebuilt by recovery. One op per batch suffices because a batch is written atomically: its contents do not change what survives.
- **Version masks** cover the bytes 0, 1, 2, 3, 6, 128 and 130. These include zero bytes, single bits, overlaps in one bit or several, and the top bit.

## Fairness

- **Worker actions: weak fairness.** Tokio polls a ready task eventually.
- **`LoopPayload`: strong fairness.** A worker blocked on a full channel is enabled only intermittently, because another peer can refill the slot. The futures bounded mpsc queues parked senders and wakes them in order, so a parked sender is eventually served.
- **TPS worker: weak fairness** on its loop: the executor polls the task and the timer fires. The increments and the shutdown are not fair.
- **Confirmation worker: weak fairness** on each branch. `select!` polls the ready branches in a random order, so a branch that stays ready is not passed over for ever, and a ready shutdown receiver stays ready. The milestone senders are not fair.
- **Transaction requester: weak fairness** on the pop and shutdown branches, for the same reason as the confirmation worker.
- **Storage batch: none.** Only safety is checked; a crash may come at any time.
- **Consumer steps: weak fairness** (`ConsumerFairness`, apart from the workers' `WorkerFairness`). The consumers are workers that loop on their receiver. `SpecStalledConsumers` drops it, for consumers stuck in work of their own.
- **Salt: none.** The clock may stop and `new` is called when its holder chooses.
- **Network and consumer stops: no fairness.** A peer may never send more, and a worker need not stop.

`RemovedStops` depends on the consumer steps. If neither the consumer makes progress nor the channel closes, a blocked worker could never observe Removed.

## Findings

See `findings` in `PROJECT.json`:
1. **The handshake handler does not reassemble** (receiver.rs:195–211). It discards reads shorter than a header and hands everything after the header to the handshake decoder.
2. **The u8 overflow** at version.rs:25 for version 256, which the unit test skips.
3. **The failure payload** at version.rs:39 is computed from the remote's last, zero-padded byte.
4. **`MilestoneDiff::packed_len`** (milestone_diff.rs:25, marked TODO) ignores the created and consumed lists.
5. **`apply(durability = true)` does not survive a power loss** (batch.rs:33). The WAL is enabled but `sync` is false, so the record may sit in the page cache when the power goes.
6. **A removal cannot preempt a blocked send** (receiver.rs:246). `process_message` awaits `send()`, and Removed is read only from the event channel at the next iteration, whereas the spec (section 5) races the shutdown against the wait for capacity so that it always wins promptly.

## Not modelled and planned

- `Vec::with_capacity(count)` in `MilestoneDiff::unpack` (milestone_diff.rs:48): with a count read from the file, a corrupt count aborts on allocation before any element is read. Whether that happens depends on the allocator's limits, which a model could only invent.
- The `I384`/little-endian conversions: they call `shift_into_u384`, `into_shifted` and endianness conversions whose code is not in this source.
- A network that reports a new connection without first reporting the old one's Disconnected: bee-network is not in this source, and the model assumes it never does this.
- What the transaction requester does with a request: `process_request` is an empty stub.
- A property for process crashes in the storage batch: a durable batch survives one only because `disable_wal(!durability)` keeps its WAL record, which restates that line; the model's process crashes still run in `batch_power_loss`.
- Starvation in the requester's priority queue (transaction.rs:30): the model's pushers push each entry once; nothing in the spec or the comments says in what order, or whether eventually, entries must be served.
- The order of two concurrently applied batches (batch.rs:34): RocksDB serializes them in some order, and nothing in this source relies on which; the model allows both.
- Milestones still queued when the confirmation worker shuts down (confirmation.rs:47) are dropped unconfirmed. Nothing in this source says they should not be, so no property states it.
- `From<ProtoSalt> for Salt` is `todo!()`, and the salt's `proto` module is not in this source. The salt's caller is not in this source either, so the Instant overflow in `Salt::new` (salt/mod.rs:30) is modelled as a panic but no property says what the caller should do.
- The unit tests in the message and conversion files (most of their lines) are not modelled; the properties above check what they assert over every bounded input.
- `metadata.rs` (snapshot metadata) has getters only: no state changes.
- `TransactionRequest::new`, `MilestoneRequest::new` and `TransactionBroadcast::new` only copy their argument; the messages are enumerated directly.
