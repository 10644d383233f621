# NetBricks in TLA+

NetBricks is a framework for network functions. A program composes operators over
batches of packets into pipelines, installs the pipelines on scheduler threads, one per
core, and the threads poll ports and queues. This directory holds TLA+ models of the
state machines of the framework, the TLC configurations that check them on small
instances, and TLAPS proofs of what must hold for every size. `PROJECT.json` maps every
definition to the lines it models and lists components, hazards, runs and theorems.

Contents: [inventory](#inventory), [modules](#modules-and-their-correspondence-to-the-code),
[runs](#runs), [bounds](#bounds), [fairness](#fairness), [proofs](#proofs),
[disagreements](#where-the-code-and-its-words-disagree), [what is left
out](#what-is-not-modelled), [plan](#plan).

## Inventory

| Part | Source (under `framework/src` unless said) | State | Operations | Talks to |
|---|---|---|---|---|
| MPSC queue | `queues/mpsc_mbuf_queue.rs` | four counters, slots, number of producers | enqueue (two paths), dequeue, clone | operators `group_by`, generators |
| Schedulers and context | `scheduler/standalone_scheduler.rs`, `context.rs` | command channels, run queues, park tokens | start, add pipeline, execute, barrier, release, stop, wait; the thread's loop | tasks |
| Batch operators | `operators/` | batches, `applied` flags, turn of the merge | act, done, iterate, filter, group, merge, send | ports, queues, packets |
| Packet and mbuf | `interface/packet.rs`, `native/zcsi/mbuf.rs` | data area, header pointer, offset, metadata slots | allocate, push, parse, deparse, reset, save, restore, grow, trim, copy | operators |
| Ports | `interface/port/` , `native/pmd.c` | devices, queues, counters | create, drop, receive, send | DPDK |
| Configuration and start-up | `config/`, `scheduler/context.rs`, `interface/dpdk.rs` | the configuration, ports and queues by core | read, initialize, fail half-way | ports, schedulers |
| Control server | `control/` | connections, epoll registrations, waiting events | accept, dispatch, re-arm | agents, epoll |
| Ring buffer | `state/ring_buffer.rs` | wrapping head and tail, cells | read, write, write ahead, seek | reordered buffer |
| Reordered buffer | `state/reordered_buffer/` | ring, list of segments, sequence numbers | seq, add_data, read_data, reset | TCP reconstruction |
| Mergeable stores | `state/*mergeable.rs` | caches, maps behind locks, a channel | update, merge, sync, recv, remove | data paths, control plane |
| Embedded scheduler | `scheduler/embedded_scheduler.rs` | task list | add, execute with dependencies | an embedding switch |
| Shared directory, shared vector | `shared_state/` | two versions, entries | register, snapshot | another process |
| Headers and flows | `headers/`, `utils/flow.rs` | the bytes of a packet | getters and setters of packed fields, extract, reverse and stamp a flow | packets |
| Aligned boxes, errors | `allocators/`, `common/` | a byte-wise copy of the content | clone, drop | queues of ports |
| Native library | `native/*.c` | mempools, rings | wrappers of DPDK | ports |
| Example functions | `test/` | NAT and flow tables | pipelines | everything above |

What makes these parts hard:

- *Interleavings without locks.* Producers race for slots and commit out of order; a
  packet is in a batch and in a queue at once while another core may free it; the
  control plane copies maps that data paths change.
- *Rendezvous and parking.* Every call of the context blocks on schedulers that may be in
  the middle of a round of tasks, nested in an `execute_loop`, or parked.
- *Raw pointers with two descriptions.* `header` and `offset`, `events` and
  `ready_tokens`, `head_seq` and the head of the ring are kept apart and must agree.
- *Wrapping numbers.* The counters of both rings, 32-bit sequence numbers with 16-bit
  lengths.
- *Partial success.* A port takes part of a batch, a ring part of a write, a queue part of
  a slice; a start-up fails after some devices were started.
- *Something must happen.* Spinning producers, round-robin tasks, groups of a merge, a
  listener that has to be watched again after each event.

## Modules and their correspondence to the code

A definition has the name of the function it models where there is one. Definitions
whose comment begins with "Faulty variant" are wrong on purpose: they change one detail
of the definition after them, and show that a property notices. No run uses them as they
stand.

`MpscQueue` models the ring of mbufs. Each load, store and compare-exchange of a shared
word in `enqueue_sp`, `enqueue_mp`, `dequeue` and `clone` is an action, one slot is
written or read at a time, and the locals of each call are variables (`head`, `insert`,
`written`, `dequeue`, `got`). The steps are sequentially consistent. The code orders every
access with `Acquire` and `Release`, which is weaker; executions that only the weaker
order permits are not modelled. A handle is cloned while no producer is active, the
precondition in the comment on `reference_producers`. `MbufFifo` is what the ring
promises: a bounded FIFO to which an enqueue appends a prefix of its slice, which has no
mbuf twice, in one step. `MpscQueue!ImplementsFifo` is the refinement, with the committed
and unread slots as the FIFO.

`Scheduler` has the thread that owns the context and one thread per core. A
`sync_channel(0)` is an `offer` that the receiver takes; `thread::park` and `unpark` share
a token per thread. `execute_loop` nests when `Execute` is handled inside
`execute_internal`, so a thread has a `depth`. Tasks are only counted.

`Pipeline` is receive, transform, filter, group_by, merge of transformed groups, and send,
the shape that the grouping functions under `test/` build. It is two tasks; the queues
between them are `MbufFifo`s. `act` and `done` of nested operators are one action where
nothing in between can be seen by the other task. `port` chooses a physical port (any
part of a batch) or a virtual one (all or nothing, freed when sent). `PacketBatch` has
the indexes a filter collects (`Rejected`), the in-place compaction of
`drop_packets_stable` and `consume_batch_partial`. Its loops are recursive functions, and
`Only(s, S)`, the elements of `s` that are in `S`, is written as one too instead of with
`SelectSeq`, whose definition the prover cannot unfold.

`OperatorChain` has chains of any operators instead of one pipeline: parse, deparse, reset,
map, transform, filter, metadata, composition, group_by, merge, restore_header and send.
A program is a function from tasks to chains; `stack` holds the activations of
`EmbeddedScheduler::exec_task`, which runs the dependencies of a task before it, and
`stage` is the operator whose `act` or `done` is next. A batch keeps mbufs, so every
operator finds its packet by walking the iterators below it (`next_payload`), from the
start of the data, over headers whose length a transform may have changed meanwhile. The
model records which closures were called on a packet and with which header. All tasks of
a program run on one core; the interleaving of cores is that of `Pipeline`.

`Packet` over `MBuf` is one mbuf from allocation or reception until it is freed. The
model keeps, besides what the code has (cells, `data_off`, `data_len`, `header`,
`offset`, metadata slots), what the packet should hold: `bytes`. A header is two cells,
the first of which is the length that `offset()` returns; options follow. Nothing is
asked of the client that the code does not check: packets arrive with length fields
longer than the data or shorter than the header, and sizes are any up to a bound. What
`payload_size` subtracts wraps. Two phases say how far a packet is followed:

- *stray*: the header pointer is not at a header any more (a parse past a wrong length
  field, a deparse by another length than that of the header before,
  `remove_from_payload_head`, a restore of what was saved before the data moved or by an
  earlier packet); the packet can be reset or freed;
- *spoiled*: a call moved or wrote more than its copy is good for (`push_header` and
  `add_to_payload_head` copy between ranges that overlap or fewer bytes than there are,
  `write_header` checks where it begins but not where it ends, and so on). `bytes` is then
  what is known to be right, the part before the damage, and the packet can only be
  freed. A write behind the buffer is not followed beyond it.

A packet can also be parsed onto the stack of offsets and deparsed from it. The stack has
`STACK_SIZE = 0` slots: the first fails its `unwrap`, the second loses the packet.

`HeaderFields` has the bits of one header. A number is the set of its one bits and a header
the set of its one bits in wire order, so the masks and shifts of the accessors on
little-endian words become positions: a field has its first bit, its width, and how many
bits of its argument the setter lets through: for `set_fragment_offset` all 16, of which
the upper three fall on the flags. `fields` records what was asked for. Flows
are read and stamped through `ihl`, which may be any number; the claims about ports are for
headers of at least five words. The IP checksum is computed by DPDK and is any value.
`Performance` is the feature of that name, which the programs under `test/` turn on: with
it `IpHeader::offset` is always 20 (`ip.rs:45-46`), so that `flow` misses the ports of a
packet with options. `MacHeader::offset`, constant too with the feature (`mac.rs:97`), is
one of the lengths of a header to `Packet`.

`Startup` reads the command line and a configuration down to the types of its values,
merges the two, initializes DPDK, creates ports and queues, activates cores and installs
pipelines; each step may fail, and then the context, with the ports it has, is dropped.
References to a port are counted. A queue is in a `CacheAligned` box, whose drop frees
memory and no content and whose clone copies bytes, so ports that have queues are never
closed: `DevicesClosed` is about the others. A port name is abstracted to the backend it
selects.

`ControlServer` is the TCP server over epoll; the SCTP server has the same steps. Peers
connect, give up, send and close at any time. An agent may schedule a read or a write at
every call and may ask to be removed; it reads all there is.

`RingBuffer` has the operations of the ring as operators on a record, used by
`RingStream`, which makes them actions, and by `ReorderedBuffer`. `ByteWindow` is what a
ring promises: a window over a byte stream. `SegmentList` is the linked list of segments
with its storage and free indices, `ReorderedBuffer` the state machine of the buffer with
a client that inserts segments of one stream. A byte is its sequence number, so the ring
shows where each came from. `usize`, `u32` and `u16` are scaled down and wrap. A call
that would not return, or that fails an assertion, sets `fault`. What the calls answer
(`InsertionResult`) is left out: out of order a short write is answered with `Inserted`
(lines 461 to 495), and so is a retransmission of which nothing is written, against the
comment at line 9, so no claim could be made of it.

`CpMergeable`, `DpMergeable` and `MergeableStore` are the three stores. In the last one
a cache moves into its map entry by entry under the lock, and `sync` visits the maps one
by one, skipping those that are locked. A data path of `CpMergeable` can be cloned at any
time, and the derived `Clone` copies its cache, whose updates are then counted twice;
`cp_copied` keeps the number of those. The clones of a `MergeableStoreDP` exist from the
start here, with empty caches. In `DpMergeable` and `MergeableStore` a merge replaces the
value of a flow, as `extend` does; the run `merging` shows what that means.

## Runs

| Run | What it asks |
|---|---|
| `queue` | Two producers and a consumer on four slots with counters that wrap at 8: reserved slots are exclusive, an mbuf has one owner, the ring implements `MbufFifo`. |
| `queue_progress` | Slices of two mbufs, producers waiting for each other: the inductive invariant of the proofs holds and, with fairness, every reservation is committed and everything committed is dequeued. |
| `queue_lost` | Shows that `enqueue` without room loses mbufs (below). |
| `scheduler` | Three cores, two tasks each, nested loops, barriers one after another: a held barrier pauses everybody, no park token is left over, calls panic only after stop. |
| `scheduler_progress` | With fairness, and with spurious returns of `park`: every call returns and every task gets its turn; the inductive invariant holds. |
| `pipeline` | One owner per mbuf, order within a group, each transform applied once and headers restored from the right packet, loss only at a full queue, every queued packet leaves. And five programs (group_by after group_by, merge of two groups, tasks that share a dependency, a composition, a deparse), run by a host in any order on packets that may be too short for a header: every closure sees the header its operator was built for, each packet goes through the closures of its path once and in order, a finished task leaves no mark and no packet behind, and `exec_task` returns. The initial state chooses `Pipeline` or `OperatorChain`. |
| `packet` | The data is what the calls made it, and where a call goes too far what lies before its place; pointer, offset and size agree; a header field holds what was last written to it, whatever was written to its neighbours, but for the flags that a fragment offset of more than 13 bits turns on; stamping the reverse of a flow twice restores the packet. The initial state chooses a packet or a header. |
| `process` | Each listed queue is polled by exactly its core, and started devices are closed however the start fails; no event reaches a connection twice or after its removal, and no ready connection or pending peer waits forever. The initial state chooses start-up or control server. |
| `state` | The ring buffer implements its window; no store loses a flow or counts an update twice other than where it says so; a sync shows every flow of a map that stayed unlocked, and nothing that was not there. For a reordered buffer with data in order over a wrap of sequence numbers and buffer, with overlapping retransmissions, or with three packets out of order without repeats: what can be read is the stream, the counters agree, nothing hangs or panics. The five structures do not interact; the initial state chooses one. |
| `reorder_gap_read` | Shows that with four packets in any order bytes become readable that were never received (below). |
| `reorder_fault` | Shows that with the same packets a read can panic (below). |
| `merging` | Shows that the updates of a flow are not added up (below). |

## Bounds

- *Queue*: `Slots = 4`, `Word = 8`. The slot index and the counters both wrap within a few
  calls and both producers can have reservations at once, one waiting for the other to
  commit. In `queue` four mbufs, one to a call, overrun a ring that holds three; in
  `queue_progress` slices are of two mbufs, of which there are two. A slice that is cut
  short is reached in `queue_lost`, and by the proofs for every size.
  `Slots + MaxBatch < Word` is what 2^64 gives with room to spare.
- *Scheduler*: `MaxTasks = 2` distinguishes the last task of a round, after which commands
  are polled, from the others; `MaxDepth = 2`, in both runs, nests an execute in an
  execute. Three cores (two under fairness) let a barrier have one thread waiting, one
  parking, one parked.
- *Pipeline*: three mbufs fill a batch, from which any part is filtered; a queue holds
  two, so the third packet of a group finds it full.
- *Packet*: eight cells hold two headers with options or a body, and every growth runs out
  of room; the tail grows and shrinks by at most `MaxChange = 2`, the length of a header,
  the head by any number up to the whole buffer. There are at most `MaxChanges = 4` calls
  that change bytes in a behaviour; the others are not bounded. `USize = 64` is the range
  of `usize`, large enough that a wrapped size is not taken for a real one.
- *Operators*: two mbufs, a batch of two, queues of one, so that a group finds its queue
  full; the first header has length 1 or 2, which is enough for a walk to go wrong by one.
  `Depths` has packets that are too short for the second header of the first program.
- *Headers*: frames of no, all and every second bit, three calls with zero, all ones and 6
  (the protocol of TCP; an `ihl` with one option word): two writes around a third one.
  `Performance` is off; the proofs are for both builds.
- *Startup*: command lines with and without a file, two ports, cores and queue lists of up
  to three entries, devices with one to three queues, so that a device may have fewer, as
  many or more than asked for.
- *Control*: three connections over the server's life, all of which can have events
  waiting with that of the listener. `MaxEvents` exceeds what can be ready at once, like
  the 32 of the code (`epoll.rs:72`) for up to 31 connections; with more, which descriptor
  is reported first is up to the kernel.
- *Reordered buffer*: `BufferSize = 8`, sequence numbers modulo 32, lengths modulo 16;
  segments of up to 4 bytes of a stream longer than the buffer. A length never reaches 16,
  as a segment of 2^16 bytes would in a larger buffer: that edge is not checked.
- *Stores*: two handles with own or shared maps; caches of 1 that grow to 2; a channel of 2.

Symmetry is used for mbufs and for producers other than the first, and for cores, in runs
without liveness. Deadlock is checked except where the system may stop: a context after
`stop`, a process that ended, a packet on which an assertion failed, and a reordered
buffer after a fault (`reorder_gap_read`, `reorder_fault`).

## Fairness

- `MpscQueue`: producers inside a call and the consumer keep running, as threads that poll
  on their own cores do. Nothing makes a producer start a call.
- `Scheduler`: threads and the call of the owner make progress and tasks return. Which
  calls are made is free; a barrier is released.
- `Pipeline`: weak fairness of the sending task, which is `RoundRobin` of `Scheduler`, and
  of the port's transmission. The receiving task is not assumed to run.
- `OperatorChain`: weak fairness of the steps of a running `exec_task`, which is one call on
  one thread; the host need not start another one, and closures return.
- `ControlServer`: weak fairness of the server's steps, again from `RoundRobin`. Peers are
  not assumed to do anything.

## Proofs

TLAPS proves the following for every value of the constants that satisfies the `ASSUME`s:
any number of producers, slots, mbufs, cores, tasks, handles, maps, groups, connections
and ports, any batch, queue, cache, channel and buffer size, any content of a header, any
word size that is a multiple of the slots and larger than slots plus the longest batch (for
the ring buffer: a multiple of the size and more than twice of it).

*Queue* (`MpscQueueSteps`, `MpscQueueProofs`).
`CountersOrdered` and `SlotsExclusive` are not inductive: whether a reservation fits
depends on a tail that was loaded earlier, and whether a commit keeps the order depends on
who waits for whom. `IInv` adds

- `OneHandleOnSpPath`: `enqueue_sp` runs only while there is one handle (no handle is
  cloned while a producer is active);
- `CallLocals` and `DequeueLocals`: how far a call got is what its locals say;
- `ReservationFits`: slots counted free from an old `consumer.tail` are still free if the
  exchange on `producer.head` succeeds, because the tail only moves forward;
- `ReservationsApart` and `ReservationsChain`: the reserved ranges tile the space from
  `producer.tail` to `producer.head`, so the producer whose turn it is exists and is
  unique;
- `SlotsHold`: committed positions hold mbufs, written ones those of the slice.

All positions are measured from `consumer.tail` (`Offset`), which turns statements about
wrapping counters into inequalities of small numbers; `MpscQueueSteps` has the arithmetic
of `WAdd`, `WSub` and `% Slots` that the steps cite, and the steps of a producer.
`MpscQueueProofs` has the consumer and the theorems `InductiveInvariant`, `TypeCorrect`,
`RingNeverOverfull` and `SlotsStayExclusive`.

The rest of `MpscQueueProofs` goes on from `IInv`. It expresses `Contents`, the sequence
of committed and unread mbufs, as a run of slots (`ContentsFacts`), and shows for every
action what it does to that run: a commit appends the whole slice that was written, one
read drops the first mbuf, every other step leaves it alone. That is the step of
`MbufFifo` or a stutter, so `QueueImplementsFifo` follows. Ownership is then argued on the
FIFO only: `OwnersApart` says in addition to `OneOwner` that no slice has an mbuf twice,
and is kept by every step of `MbufFifo`, hence by every step of the ring
(`OwnersStayApart`, `EveryMbufHasOneOwner`).

*Pipeline* (`PacketBatchProofs`, `PipelineProofs`). `PacketBatchProofs` proves laws of
`Only` (concatenation, composition, what it keeps) and follows the loop of
`drop_packets_stable` with the invariant `Compact`: after i packets the front of the
array is `Only` of the first i, the scratch has the others, and what follows the front is
unchanged. `DropIsStable` is the result: with the
indexes a filter collects, the function returns `Some`, the batch is exactly the packets
that pass, in their order, and exactly the others are freed.

`PipelineInv` is the inductive invariant of the two tasks. Its parts are

- `Control`: the batch of the producer is empty before it receives, that of a group
  outside its turn, so that the freeing at the start of `act` frees nothing;
- `Apart` and `Once`: mempool, port, what is still pending of the producer's batch,
  queues and groups' batches share no mbuf, and no sequence has one twice. What counts is
  `Pending`, not the batch, because `enqueue_one` hands a packet over while the batch
  still lists it;
- `Stages`: which transforms, filter and saves the packet of an mbuf has passed, by the
  place of the mbuf;
- `InOrder`: batch, queue and the kept part of `Pending` in a row are the packets of the
  group in the order of arrival.

Each action is first reduced to its effect on these sequences (a suffix splits off, an
element moves from the front of one to the end of the next, packets leave from the
front) and then cited with the laws of `Only`. Theorems: `PipelineInvariant`,
`TypeCorrect` (which includes that no filter panics), `EveryMbufHasOneHolder`,
`PacketsStayInOrder`, `PacketsAreSentAsSpecified`, `MbufsAreLostOnlyWhenFull`.

*Stores* (`StoreProofs`). For `MergeableStore`, `StoreInv` says who holds which lock
(`WritersLock`), that the flows which must show up are in maps that nobody writes
(`SteadyUnlocked`), that a value which sync has copied was in a map during the sync
(`ValuesHeld`), and that what it has passed is in a copy (`SteadyCopied`). `FlowsKept` is
made inductive by `KeptInv`: the flows of a cache, too, were updated by its handle and not
removed since, so that a merge puts nothing else into the map. Theorems:
`StoreInvariant`, `TypeCorrect`, `SyncIsFaithful`, `FlowsAreKept`.

For `CpMergeable` the invariant is `CpTypeOK`: a cache holds what was counted since the
last send and is shorter than the delay, and the channel has no more messages than it
holds. A clone has a copy of a cache, whose updates `cp_copied` counts. The updates of a
flow that are on their way (`Known`) are counted as places in caches and messages. The
proof shows that these sets are finite and how an append, a drained cache, a sent and a
received message split them, and then says for every action by how much `Known` changes.
Theorems: `CpTypeCorrect`, `UpdatesCountOnce`, `UpdatesAreLostOnlyWhenFull`.

For `DpMergeable` the flows that were updated are those of the map and of the cache
together. A merge keeps them because the last entry of a flow in the cache, which exists
because a set of indexes that is not empty has a greatest element, ends up in the map; a
removal merges first, so that nothing of the flow is left. Theorem: `UpdatedAreStored`.

*Bytes* (`ByteProofs`): headers and the ring buffer.

`HeaderFields` has sets of bits. What a setter writes is stated bit by bit, once for all
fields (the bits of the field come from the argument, all others stay); then it is enough
that the fields do not overlap, which is a comparison of positions. The invariant is that
`fields`, which records what was asked for and which flags a fragment offset turned on, is
what the getters return; the ports lie behind the options, so they are among the fields at
the place that the `ihl` gives. `FlowsRoundTrip` is a statement about all bits of the
frame: an address or port is read and stored twice. Theorems: `FieldsInvariant`,
`FieldsAlwaysKept`, `FlowsAlwaysRoundTrip`.

`RingInv` says that one cell of the ring stays empty. A position of the stream is a
counter modulo `Word` and a cell modulo `Size`; because `Size` divides `Word`, offsets
below `Size` are in different cells, so each write changes exactly the bytes of the window
it should. `RingImplementsWindow` maps every operation to the step of `ByteWindow`,
`ReadsInOrder` is what a client sees. Theorems: `RingInvariant`, `ReadsInOrder`,
`RingImplementsWindow`.

*Process* (`ProcessProofs`). For `Startup` the inductive invariant counts references: a
port of a context has one reference for the context and one more if it has a queue, and a
name without a port is untouched. A step that fails drops the context, which takes one
reference from each port; `DevicesClosed` then says which counts reach zero. Theorems:
`StartupInvariant`, `DevicesAreClosed`.

For `ControlServer` the invariant says that the events in `ready_tokens` and the one in
hand are for different descriptors, none of which epoll watches (they are registered for
one event at a time), and that tokens are given out in order, so that a token is never used
for two connections. Theorems: `ServerInvariant`, `EventsAlwaysMatch`.

*Scheduler* (`SchedulerProofs`). `IInv` has `LoopInv` (a thread inside a loop has tasks and
its index is in range), `SendInv` (the blocked send belongs to the current call),
`PhaseInv` (all threads run until stop, all have exited after the handles were joined) and
`HandshakeInv` (where each thread is in a barrier, from both sides). The last needs a
`park` that returns only after `unpark`; everything else holds with spurious returns too.
Theorems: `InductiveInvariant`, `TypeCorrect`, `TasksInRange`, `NoPanicBeforeStop`,
`BarrierHolds`, `TokensAreUsed`.

The library's induction theorems take an operator as a parameter, which no backend can
instantiate. Induction is done with sets instead: `NatSet` (a set with 0 that is closed
under + 1 contains all numbers), from the well-foundedness of <, and `SeqSet` for
sequences; a step uses them with the set of the numbers or sequences that have the
property. The same gives the recursion equations of `OnlyWalk` and `CompactWalk`.

Only model-checked:

- all liveness, for which the prover has neither fairness nor `ENABLED`;
- `ReorderedBuffer` and `SegmentList`, which have `RECURSIVE` operators;
- `OperatorChain`: what a closure sees depends on a walk over the chains of a program,
  which is a tree of any depth, and there is no induction over such data;
- `Packet` and `MBuf`: `LayoutKept` and `PointersAgree`, the second of which needs the sum
  of the length fields of all headers before a place, which every change of the data
  moves;
- `QueuesServed` of `Startup`, which compares what is polled in the end with the lists of
  the command line and the file, through every step in between.

## Where the code and its words disagree

Four disagreements have a run:

- `queue_lost`: `enqueue` drops mbufs for which the ring has no room, although
  `interface/packet.rs:513-514` makes the caller of `get_mbuf` responsible for freeing.
- `reorder_gap_read`: a segment that starts before a new one is taken for an overlap, and
  the gap between them becomes readable; `reordered_buffer.rs:297-298` promises ordered
  reads for data inserted in any order.
- `reorder_fault`: a retransmission that ends exactly at the tail switches the buffer to
  its out-of-order state without need; once all is read the list of segments is empty, and
  the next read indexes it with -1 (`reordered_buffer.rs:255`), against the same promise.
- `merging`: `extend` (`mergeable.rs:116`) replaces the value of a flow where the comment at
  `mergeable.rs:10-13` speaks of merging with `AddAssign`. `DpMergeableStore` does the same
  (`dp_mergeable.rs:42`) under the same comment.

Others were met while modelling; the models follow the code:

- `thread::park` is not in a loop, so a spurious return lets a scheduler run during a
  barrier that `context.rs:163` describes as pausing all of them.
- `MergeableStoreDP::is_empty` is inverted (`mergeable.rs:155`); with `max` in
  `merge_cache` the constant `MAX_CACHE_SIZE` is a lower bound. A cloned data path of the
  control-plane store sends the cached updates of the original again.
- A hole before the first segment, or repeats among packets out of order, can make
  `merge_at_idx` loop or the assertion in `out_of_order_insert` fail.
- `parse_header` asserts that the payload is longer than the header, so a packet that
  ends with it is refused; `STACK_SIZE` is 0, so `parse_header_and_record` always panics,
  and so does the operator `deparse`, documented in `operators/mod.rs:140` as "Deparse,
  i.e., remove the last parsed header."
- `IpHeader::fragment_offset` reads the identification instead, `csum` does not undo the
  byte order of `set_csum`, and `set_fragment_offset` does not cut its argument to 13 bits.
  `IpHeader::flow` names the first port the destination, `ipv4_extract_flow` the source.
  `MacHeader::offset` compares the type of a VLAN frame in network order with a constant
  in host order.
- The queues of a port are never dropped (`cache_aligned.rs:17`), and so neither is the
  port.
- `add_to_payload_head` and `remove_from_payload_head` move only as many bytes as are
  added or removed; the second one leaves the header pointer where it was. `push_header`
  uses `copy_nonoverlapping` where the ranges overlap.
- `new_queue_pair` accepts a queue whose index is the number of queues; `strict` compares
  only the cores of receive queues, `config/mod.rs:19-20` speaks of both directions.
- A port whose initialization fails stays attached or configured; rings of BESS and OVS
  are never closed.

## What is not modelled

- *Native library and bindings* (`native/*.c`, `libnuma.rs`, `zcsi.rs`): calls into DPDK,
  whose results are choices (`Received`, `init_pmd_port`, `Transmitted`). Bulk allocation
  and release in `mempool.c` store and compare whole vectors at the address of a field of
  DPDK's mbuf; what they change depends on the layout of that struct, for which
  `mempool.c:239` names another version of DPDK than `build.sh` fetches. Mbufs are
  therefore allocated and freed one by one in the models.
- *Shared directory and vector* (`shared_state/`): a writer that bumps two version numbers
  around its change. The reader is another process outside the repository, and nothing in
  the repository says what it does with the versions.
- *Reference counts of mbufs*: no operator shares an mbuf.
- *Hashes, prefixes, statistics, display, errors, the `packet_offset` build*: no state that
  outlives a call, or not compiled.
- *Example functions* (`test/`): each is a pipeline of the modelled operators; NAT's table
  and the TCP reconstruction's map of buffers are used by one pipeline on one core.
- *Weak memory*: `MpscQueue` is sequentially consistent, see above.

## Plan

Done: all parts that change state, other than those above, with the proofs above.

Next: an invariant for `QueuesServed`, relating `rx_queues` of a core to the positions of
the core in the list of its port; a form of `OperatorChain` in which the headers below an
operator are a sequence, to which the induction over sequences applies.
