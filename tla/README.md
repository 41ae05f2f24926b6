# TLA+ models of newsched

newsched is the experimental runtime for GNU Radio 4: a flowgraph of signal
processing blocks whose work functions are called by a scheduler's threads. This
directory holds models of the runtime and of the blocks that meet it in
interesting ways, the TLC runs that check them on small instances, and TLAPS
proofs of their main invariants. `PROJECT.json` lists the runs, the mutants that
show each property is sensitive to the code, the source lines of every
definition, the hazards and the theorems.

1. [The system](#1-the-system)
2. [Modules](#2-modules)
3. [Runs, bounds and fairness](#3-runs-bounds-and-fairness)
4. [What the code does not promise](#4-what-the-code-does-not-promise)
5. [Proofs](#5-proofs)
6. [Not modelled](#6-not-modelled)

## 1. The system

| component | source | state | operations | interacts by | module |
|---|---|---|---|---|---|
| stream buffers | `gr/lib/buffer*.cc` | ring of bytes, write index, one read index per reader, totals | `write_info`, `post_write`, `read_info`, `post_read` | shared memory between the writer's and the readers' threads | CircBuffer |
| tags | `gr/lib/buffer.cc` | vector beside the ring | add, propagate, window, prune | mutex of the buffer | Tags |
| singly mapped buffers | `gr/lib/buffer_sm.cc` | linear memory, indices, totals | the same, and two realignment callbacks | both sides move both indices | SmBuffer |
| network buffer | `gr/lib/buffer_net_zmq.cc` | socket, ring, receiver's thread | blocking send; receive and copy | TCP between processes | ZmqLink |
| graph_executor | `schedulers/nbt/lib/graph_executor.cc` | none between iterations | `run_one_iteration` over a block group | reads and moves buffers, notifies connected ports | NbtRuntime, StreamOps |
| thread_wrapper | `schedulers/nbt/lib/thread_wrapper.cc` | message queue, `d_thread_stopped`, `d_flushing`, `d_flush_cnt` | `thread_body`, `handle_work_notification`, `start`, `stop`, `wait`, `kill` | messages; DONE and FLUSHED to the monitor | NbtRuntime, MessagePorts, ParamRequests |
| scheduler_nbt | `schedulers/nbt/lib/scheduler_nbt.cc` | threads, map from blocks to threads | `initialize`, `start`, `stop`, `wait`, `push_message` | calls its threads | NbtRuntime, GraphSetup |
| runtime_monitor | `gr/lib/runtime_monitor.cc` | queue, phase, `sched_done` | a thread with two loops: run, then flush | messages to schedulers and proxies | NbtRuntime, DistributedRuntime |
| runtime | `gr/lib/runtime.cc` | schedulers, proxies, monitor | `initialize`, `start`, `stop`, `wait`, `kill` | called by the application | NbtRuntime, DistributedRuntime, GraphSetup |
| runtime_proxy | `gr/lib/runtime_proxy.cc` | two sockets, id, thread | forward the monitor's messages | TCP between monitors | DistributedRuntime |
| block, sync_block | `gr/lib/block.cc`, `sync_block.h` | parameters, `d_finished`, `d_running` | `work`, parameter requests, system messages, `come_back_later` | condition variable with the scheduler's thread | ParamRequests, MessagePorts, ZmqLink |
| ports | `gr/lib/port.cc` | connected ports, owner | `connect`, `disconnect`, `notify_connected_ports`, `push_message`, `post` | pushes to the owner's queue | MessagePorts, GraphSetup |
| graphs, buffer_manager | `gr/lib/*graph*.cc`, `buffer_management.cc` | nodes, edges, sizes | check, size, partition, flatten, make buffers and readers | before the start only | GraphSetup, StreamOps |
| blocks of blocklib | `blocklib/` | their own counters | `work`, setters | called by the executor and by any thread | StreamOps, ZmqLink, MessagePorts, Tags |

The threads are: the application's, the monitor's, one per block group (by
default one per block), and helpers of some blocks and sockets. What makes the
behaviour hard:

* **No lock between writer and readers.** Each side locks its own mutex and
  loads the other's index without it. An index is advanced in two stores.
* **Sleeping.** A thread that finds nothing to do blocks on its queue. It goes
  on only if whoever changes one of its buffers pushes a message *after* the
  change. Blocks that wait for a socket or a clock need a helper to wake them.
* **Ending.** A block answers `WORK_DONE`; the monitor hears it, tells every
  thread to flush, counts FLUSHED per scheduler, and tells every thread to exit.
  Flushing is a heuristic: eight rounds in which the group was blocked.
* **Stopping.** `stop()` may come at any time, also before the monitor has
  handled START.
* **Other threads' calls.** Parameters are set and got, messages posted, files
  opened and delays changed from any thread while work goes on.
* **Several hosts.** The monitors of a distributed flowgraph are joined by
  sockets; a DONE and a FLUSHED of another host cross two queues and a thread.
* **Set-up.** Sizes, sub-graphs, flattened hierarchies, buffers and readers are
  made in passes that rely on each other's order.

What makes the components correct: a reader reads exactly the stream that was
written, with its tags; the space given to a work call stays free; the two sides
are not blocked on each other; no wakeup is lost; a flowgraph that should end
does end and `wait()` returns; nothing is left behind in a buffer; no message of
the shutdown protocol is dropped; a parameter is a register whose requests are
confirmed once; a message is handled once, in order, by its owner; a block's
output does not depend on how the scheduler cuts the stream; a graph that can
run is set up, and no other.

The hazards behind these properties, each at its line and with the properties
that cover it or the reason none does, are in `PROJECT.json`.

## 2. Modules

```
StreamChannel          what an edge promises: a bounded FIFO stream per reader
   ^ implements (proved)             ^ implements (proved)
CircBuffer, CircBufferProofs       SmBuffer, SmBufferProofs    the two kinds of buffer
   | a buffer is its fill, or its items                |
   +--> NbtRuntime, NbtRuntimeProofs   threads of one process, to their end
   |       | a scheduler as its monitor sees it
   |       +--> DistributedRuntime, DistributedRuntimeProofs   several hosts
   +--> Tags, TagsProofs   metadata beside the indices
   +--> StreamOps       work functions under the executor
   +--> ZmqLink, ZmqLinkProofs   flowgraphs joined by sockets, network buffer, throttle
ParamRegister          what a parameter promises
   ^ implements (proved)
ParamRequests, ParamRequestsProofs     parameters of a running block
MessagePorts, MessagePortsProofs       messages between blocks, in the same threads
GraphSetup             from connect() to the first iteration
```

Each `MC` module instantiates the module behind its name for TLC.

### CircBuffer

One writer and the readers of one edge. A step is a load or store that another
thread can see:

| code | actions |
|---|---|
| `write_info` -> `space_available` | `BeginWriteInfo`, `ScanReader(r)` for each reader in any order, `EndWriteInfo` |
| work stores into `write_ptr()` | `WriteByte`, `FinishWork(n)` |
| `post_write` | `CopyHalves` (simple only), `AdvanceWriteIndex`, `WrapWriteIndex` |
| `read_info` -> `items_available` | `ReadInfo(r)` |
| work loads from `read_ptr()` | `ReadByte(r)`, `FinishRead(r, n)` |
| `post_read` | `AdvanceReadIndex(r)`, `WrapReadIndex(r)` |

The code visits the readers in the order they were added; any order is allowed
here. `DoubleMapped` chooses between `buffer_cpu_vmcirc` (one memory mapped
twice) and `buffer_cpu_simple` (two halves kept equal by copying). Bytes are
their positions in the stream, so that `StreamIntegrity` can say that a reader's
work call loads the next byte of the stream at every address.

`post_read` and `post_write` do `index += n; if (index >= size) index -= size;`.
The loads on the other side take no common lock, so the value between the two
stores is visible, for as long as the thread is not scheduled. Compilers keep
both stores of the reader's index (the callee's `buf_size()` is between them);
for the writer's index `SplitWrite` says whether the build does. Both sides may
be between their stores at once, and nothing in the model keeps them apart. The
distance of the indices survives all of this but one: the other side wraps its
index in the meantime (`Overtaken`). A thread that looks then goes on from a
wrong count. The history variable `misled` remembers that it has happened, for
the properties to read; no step depends on it.

### NbtRuntime

The whole process of one machine. A buffer is its fill in items: `CircBuffer`
shows that this is what either side counts, except in the window of `Overtaken`,
which is left out here. Messages of one kind in one queue are merged where the
receiver cannot tell them apart: all NOTIFYs waiting in a queue are popped in
the same polling loop and only set `do_some_work`; to the monitor a second DONE,
or a second FLUSHED of a scheduler, is like the first. DONE and EXIT of the
monitor stay in order. Producers are not ordered with each other.

| code | definitions |
|---|---|
| `thread_body`: pop loop and its ends | `PopNotify`, `PopDone`, `PopExit`, `BeginIteration`, `PollEmpty`, `ExitThread` |
| `run_one_iteration`: ports, work | `BlockedOnInput`, `BlockedOnOutput`, `DoWork` |
| its posts and notifications, one at a time | `Posting` -> `PostRead`, `PostWrite`, `NotifyPort` |
| `handle_work_notification` | `HandleStatuses` with `SomeDone`, `NotifySelf`, `AllBlocked`, `IsFlushed`, `AsksForRound` |
| monitor, first loop | `MonStart`, `MonStartThread`, `MonDone`, `MonPush` |
| monitor, second loop | `MonFlushed`, `MonIgnoreDone`, `MonKill`, `MonPush` |
| `runtime::start`, `wait`, `stop`, `kill` | `AppStart`, `AppMark`, `AppExit`, `AppJoin`, `AppKillMonitor`, `AppInterrupt` |

Work is that of a sync block: as many items as its ports allow (or fewer, with
`Partial`). `Limit` gives the blocks that end the flowgraph: a head answers
`WORK_DONE` with its last item, a `vector_source` when it is called after it.
`topped` is a history variable: which side of an edge was the last to move.

### DistributedRuntime

The hosts of a flowgraph as the distributed runtime sets them up: the first has
a proxy with upstream to every other host, each of those one without, back to
the first. A scheduler is what its monitor sees of it: `BlockDone`,
`TakeCommand`, `Flushed`, as NbtRuntime justifies.

| code | definitions |
|---|---|
| monitor's loops | `MonKill`, `MonStart`, `MonDone`, `MonFlushed`, `MonIgnoreDone`, then their pushes one at a time: `StartScheduler`, `PushScheduler`, `PushProxy`, `KillProxy` |
| end of the second loop | `AllDone`, `Finale` |
| `runtime_proxy` and its thread | `PushProxy` (drops when not connected), `Receive`, `Received` (the id it puts in) |
| `runtime::start`, `stop` at the first host | `AppStart`, `AppStop`, `AppKillMonitor` |

### ParamRegister, ParamRequests

`ParamRegister` is the promise: every set or get takes effect at one moment
between invocation and return, a post at one moment after it or never.
`ParamRequests` is the code: a caller looks at `d_running` (`Ask`) and then
either acts itself (`Direct`) or pushes a request (`Push`) and waits (`Woken`);
the block's thread runs `HandleRequest`, `Callback`, `NotifyWaiter`, turns
messages on `param_update` into requests that nobody waits for (`HandleUpdate`),
starts (`StartBlock`, `Release`) and ends (`HandleExit`, `MarkStopped`,
`ExitThread`, `StopBlock`). The callback refers to the stack of the caller;
`frame` numbers these stack frames and `orphan` records a callback whose frame
was gone.

### MessagePorts

`msg_forward` blocks. `post` makes one object for all connected ports, and each
of them stores its own callback in it (`Bind`) before pushing it to its owner's
queue (`Deliver`); the owner calls whatever callback it finds (`Dispatch`). The
handler loads and stores the count (`LoadCount`, `StoreCount`), posts "done" to
its own system port at the maximum, and forwards (`Post`). `HandleSystem`
answers "done" with `d_finished` and a notification; `Iterate` is the iteration
in which the monitor is told.

### Tags

A source, a one-to-one block and sinks with items of their own sizes. Adding,
windowing and pruning (`Selected`) lock the buffer's vector and are one step
each; `propagate_tags` walks the input's vector by the reference `tags()`
returns, a place at a time (`PropagateOne`). Every actor has a thread of its
own, so the source may add to that vector, or prune it, in the midst of a walk
(`Walking`). What the walk finds then is undefined; the history variable
`disturbed` remembers that it has happened.

### SmBuffer

`buffer_sm` and `buffer_sm_reader`, whose memory is used to the last item, so
that equal indices mean empty or full by the totals. `OutputBlocked` and
`InputBlocked` are the two realignments with all they move. A reader's look at
the writer takes two steps (`LoadWriteIndex`, `ReadInfo`), as do the stores of
the writer (`PostWrite`, `CountWritten`), and the two may fall between each
other in any way. The history variable `astray` remembers that a reader has
compared totals of a later moment than the index it has loaded (`Outdated`), or
that a callback has moved data.

### ZmqLink

Two flowgraphs joined by push/pull or publish/subscribe (`PUSH`), by
request/reply (`REQ`), or by an edge with a network buffer (`NET`), with a
throttle behind the source.

| code | definitions |
|---|---|
| `gen_tag_header`, `send_message`, `push_sink`, `rep_sink` | `Message`, `PushWork`, `RepBegin`, `RepServe`, `RepEnd` |
| `load_message`, `flush_pending`, `pull_source`, `req_source` | `SourceBegin`, `FlushPending`, `SendRequest`, `LoadMessage`, `LoadFails` |
| `come_back_later` | `ComeBackLater`, `TimerFires` |
| `throttle` and its sleeper | `ThrottleBlocked`, `ThrottleSleeps`, `ThrottleEarly`, `ThrottleCopies`, `SleeperPushes`, `SleeperClears` |
| `buffer_net_zmq`, its reader's thread | `NetPostWrite`, `NetReceive`, `NetCopy` |

The throttle may look between its sleeper's push and the clearing of
`d_sleeping`; the history variable `overslept` remembers that this was its last
look. The sockets are external: a queue of at most `hwm` messages, a connection
that comes about at any time, no message before it.

### StreamOps

One of twelve blocks (delay, keep_m_in_n, interleave, deinterleave,
stream_to_streams, head, vector_source once or repeating, file_source,
fir_filter, moving_average, file_sink: `kind`) under `graph_executor`, between
buffers of the sizes `get_buffer_num_items` gives them (`InCap`, `OutCap`). The
neighbours write and read in any pieces (`Feed`, `Drain`); `BlockedIn`,
`BlockedOut`, `Insufficient` and `Post` are the executor's outcomes, and each
block's work function is one action. interleave and deinterleave are made with
an item size or without (`Itemsizes`), and find it in their first work call then
(`InterleaveStart`, `DeinterleaveStart`), which is too late for the buffers
behind them (`FirstMultiple`). The inputs of the filters have the default
`min_buffer_read`, which is none, or the one they need (`MinReads`). `SetDly`,
`OpenFile` and `CloseFile` are the setters other threads call. An item is its
port and position, an output of a filter the set of inputs it sums, so the
arithmetic of samples is left out while the choice of samples is kept. Two
history variables: `silent`, the last work call returned `WORK_OK` and produced
nothing; `astray`, a work call has used or produced more than it was given
(`Beyond`).

### GraphSetup

From `graph::connect` to the threads. `Connect`; `Initialize` with the checks of
`check_connections`; `SizeNode`, its loop that gives sizes, a node at a time in
the order of the nodes' addresses (chosen at `Initialize`); `MakeDomains`
(`partition`, `connect_crossings`); `FlattenEdge` (`make_flat`, an edge at a
time, with what `disconnect` leaves in the vectors of ports); `InitScheduler`
(`initialize_buffers` and `scheduler_nbt::initialize`). Two simplifications: the
lists of the schedulers are chosen when they are first looked at rather than
before `initialize`, and "failed" stands for an exception and for the use of a
null pointer alike.

## 3. Runs, bounds and fairness

All runs take less than five minutes on two workers.

| run | instance | shows |
|---|---|---|
| `buffer_readers` | 2 readers of items of 3 bytes and 1 byte, 4 items of 2 bytes in copied halves, split stores, 16 bytes | types; counts are exact but in the window of `Overtaken`; until a thread counts in it: the writer's window stays free, the stream is intact, the sides are not blocked on each other, `StreamChannel` is implemented |
| `runtime_groups` | vector_source of five items, two blocks, sink; two schedulers, the first with a thread for each of two blocks, the second with a group of two; `min_buffer_read` 2 in the middle | no lost wakeup, but for a reader that starves; no FLUSHED is dropped; no exit before both schedulers are flushed; nothing else hangs before the end |
| `runtime_group` | source, head, copy, sink in one group, run from the sink up, partial work, `min_buffer_read` 2 at the sink, `stop()` and interrupts at any time | types; nothing left in a buffer; `wait()` or `stop()` returns |
| `runtime_loss` | source, copy, sink, a thread each, the code's eight rounds | **violation** of `AllDelivered` |
| `messages_fanin` | two forwarding blocks post to a third that stops after two messages | handled once, in order, by the owner; all are counted; the end is reported |
| `params` | two clients, one of which sets and gets twice, an update by message, start and exit or stop of the thread | types; confirmations are one's own; `ParamRegister` is implemented; requests return |
| `tags_threads` | source, block and two sinks, one with items of twice the size, a thread each | until a walk is disturbed: every tag comes once, with its item, and is there in time |
| `distributed` | two hosts, connected | types; exits follow flushes; no FLUSHED is dropped; a DONE anywhere ends all; `stop()` ends the first |
| `sm_threads` | 2 readers, 4 items, minimums of 2 on both sides, a thread each | types; the sides are not blocked on each other; no reader's callback moves data; `StreamChannel` is implemented until a reader goes astray |
| `zmq` | `PUSH`, `REQ` and `NET`, 4 items, queues of 1 and of 4 messages | items in order, tags with their items, what was sent arrives unless the throttle has overslept |
| `stream_blocks` | each of the twelve blocks, item sizes given or not, the filters with no minimum and with the one needed | which blocks go beyond what they are given; until then the output is a function of the input; delays add up; all input is used, unless a silent call was the last |
| `graphs` | every graph of up to 3 edges over 5 blocks and a hierarchical one, none to 2 schedulers of any lists | set-up works for exactly the supported graphs; ports notify their neighbours |

Deadlock checking is off wherever the system ends, or sleeps when nothing can be
done, which is all of them but the circular buffer and its readers.
`NoLostWakeup`, `NotBothBlocked`, `AllIsUsed` and the liveness properties say
what deadlock freedom would mean for them.

**Bounds.** Each is a constant whose comment names it a bound, or the size of
the instance.

* The ring of `buffer_readers` has 8 positions and the stream 16 bytes, so that
  both indices pass the end, the writer laps a reader, and either side overtakes
  the other; the items of 3 bytes leave remainders, and writes straddle the end.
  `Word` stands for 2^64. The doubly mapped memory differs in `CopyHalves` only;
  the proofs cover both.
* A buffer of `NbtRuntime` has 2 or 4 items, so that it is full, empty and half
  full within a few steps, and `num_items / 2` bites. The five items of
  `runtime_groups` fill every buffer: the source and the middle block come to
  wait for space, the middle one's minimum of two leaves it short, and two
  schedulers flush with items on their way. `FlushCount` is 8 in the code; in
  `runtime_groups` it is 2, because there the number of rounds plays no part,
  and where data is at stake (`runtime_group`, `runtime_loss`) it is 8.
* In `params` two requests of one client follow each other, which is what a flag
  or an answer left over from the first would take; the two clients, the update
  and both ways of ending meet in every order.
* Two hosts have every message of the protocol on the wire in both directions;
  the proofs cover any number.
* In `zmq` four items suffice for messages cut in two at each side, queues that
  fill and that do not, and tags before, in and behind a message; `Word` is more
  than twice the offsets, so that wrapped offsets show.
* In `stream_blocks` `MaxFeed` is twice what the largest buffer holds, so each
  block is blocked on either side, goes on, and wraps its counters.
* Three edges let a chain cross a hierarchical block and two schedulers, and a
  source have two readers on either side of one.

**History variables and constraints.** Where the code goes wrong in a way it
does not promise to avoid (section 4), the model takes that step like any other,
a history variable remembers it, and the properties say what holds until then,
and that this step is the only one that ends it. Each such step is named by an
operator (`Overtaken`, `Walking`, `Outdated`, `Beyond`, `ReaderStarves`), and no
step of these modules is left out or forbidden for the sake of a property. The
constraints `UntilMisled`, `UntilDisturbed` and `UntilAstray` of three runs keep
TLC from exploring what follows, of which the properties say nothing. That also
holds of `AllIsUsed`, the one liveness property under a constraint: `astray` is
never reset, so a behaviour that leaves the constraint satisfies it.

Liveness in `runtime_groups` would need the graph of all its behaviours, which
is too large. `HangsOnlyByStarving` is the part of it that a state shows: when
nothing can move any more, it is over, or a reader starves. `ShutsDown` itself
is checked in `runtime_group`.

**Fairness**, in each `Spec`:

* `NbtRuntime`: the application, the monitor and each thread are scheduled (WF
  of their next-state relations); the sleeps of the code end. A queue does not
  hold back one message for ever while others pass (WF of `PopDone`, `PopExit`,
  `MonKill`, `MonFlushed`): moodycamel's consumer rotates over its producers. A
  thread pops messages faster than its neighbours push them, so that again and
  again it finds its queue empty and runs an iteration (SF of `BeginIteration`):
  a pop takes less than the work call between two pushes. Without the last one
  TLC finds a thread that pops NOTIFYs for ever; the code has no bound on its
  polling loop. An interrupt need never come.
* `DistributedRuntime`, `MessagePorts`, `ParamRequests`: WF of each thread, for
  the monitors per producer, and SF of taking a client's request while the
  thread handles others, again for the rotating queue. A block need never be
  done, no client need make a call, nobody need stop anything.
* `ZmqLink`: WF of the source's and the throttle's threads, of timers and of the
  sleeper. SF of `RepEnd`, because rep_sink polls with no timeout and so now and
  then misses a request that is about to come, and of `ThrottleCopies`, because
  the time that the throttle waits for comes. The connection and the items need
  not come.
* `StreamOps`: WF of the executor and of the neighbours; none of the setters.
* `CircBuffer`, `SmBuffer`, `Tags`, `GraphSetup`: none; only safety is checked.

## 4. What the code does not promise

`runtime_loss` is a disagreement between the code and its comment ("need to push
the rest of the samples through the pipeline"): a source ends and every thread
flushes. A sink whose upstream thread is slow is blocked for eight rounds, 80
ms; it pushes FLUSHED with the scheduler's id, which the monitor takes for all
its threads, and tells them to exit with items still in the buffers.

The passing runs hold with what follows inside them, as an exception stated by
the property, or under the constants they fix; then the constants to change in
the `.cfg` are named. To see one that is inside a run, drop the exception from
the property. Several of these outcomes are against a comment or a test of the
repository, whose small flowgraphs do not meet them; those lines are named.

**Buffers.** `AvailableIsExact` says just when a count is wrong: one side is
between its two stores and the other wraps its index. A reader that looks then
counts a buffer too much or too little; the writer finds more space than there
is, and overwrites what is still to be read (drop `misled` from
`StreamIntegrity`, with `UntilMisled` removed; it happens with `SplitWrite =
FALSE` and `MaxBytes = 20` too). It takes a thread suspended between two
adjacent stores for as long as the other takes to go on to the end of the ring.
A common lock, or one store of the wrapped value, closes it. The runs and proofs
show that nothing else does harm, also not both sides between their stores at
once.

**Singly mapped buffers.** With `min_buffer_fill` set (`MinFill`, 2 in
`sm_threads`) `output_blocked_callback` moves the data and the write index and
leaves the readers' indices, against its own comment ("Adjust write index and
each reader index", `buffer_sm.cc`). A reader that has loaded an index equal to
its own and compares the totals after the next `post_write` takes an empty
buffer for a full one (`Outdated`). A reader whose items are two of the writer's
(`UnitSizes` changed to 2 for `r1`) violates `ImplementsChannel` and
`StreamIntegrity`, as totals in items of different sizes are compared, and with
`NumItems = 5` also `NeverAdjusts` and `TypeOK`: `adjust_buffer_data` counts
bytes as items and moves readers that are not concerned. `graph::connect` takes
no two ports that declare different sizes.

**The runtime.** With a `min_buffer_read` all threads can sleep although a block
has space (`ReaderStarves`, in `runtime_groups`): after READY a thread polls
once without blocking and then blocks, without another iteration, and only a
reader's `post_read` would wake it, which does not come while the reader has
less than its minimum. A group that holds a finished source never counts as
blocked (`AllBlocked` exempts a DONE block only if it has inputs):
`runtime_group` with a limit at the source instead of the head, a vector_source
in one group with everything else, violates `ShutsDown`. The executor keeps no
status and calls a block again after it was DONE. With `FlushCount = 1`
`runtime_group` loses data: a round moves an item by one block when a group runs
against the stream, so eight rounds are enough for groups about that long only.

**Tags.** With a thread per block, which is the default, `propagate_tags` goes
through the vector of the input while the source's thread appends to it and
erases from it: a tag can be lost or come twice (drop `disturbed` from
`TagsReachTheirItems`). The tests `OneToOne`, `t1` and `t2` of
`src/test/qa_tags.cc` run in this threading and expect exact numbers of tags
(lines 58 to 60, 104 to 106, 155 to 161). Between the walks, and with the source
in the block's group, as in test `t3`, they are exact.

**Messages.** With `Connected <- FanOut`, `Owner <- ThreadEach`, `MaxMessages <-
NoneStops` and `Posts <- OnePost` `messages_fanin` violates
`HandledByOwnerInOrder`: the connected ports share one object, and the second
stores its callback in it before the first thread has called the first's.

**Parameters.** `CallbacksAreAlive` is violated in `params` by every update by
message: the callback of a request that does not wait runs when its frame is
gone. The same holds for a client that posts (`"post"` in `Kinds`). Requests
wait for ever once the thread has been told to exit, which is why
`RequestsReturn` excepts it. (`OneClient` and `Once` suffice.)

**Sockets.** `NothingLost` is violated in `zmq` by push_sink and rep_sink: a
push_sink that could not send, or a rep_sink that sent a part, consumes all it
was given, because `sync_block` overwrites the `n_consumed` of a block without
outputs. `qa_zeromq_pushpull.py:42`, `qa_zeromq_pubsub.py:61` and
`qa_zeromq_reqrep.py:46` compare the whole of what was sent with what was
received; they send few messages, to a receiver that was started before. The
throttle's sleeper notifies before it clears `d_sleeping`: if the throttle looks
in between and nobody else notifies it, it sleeps for ever (`overslept`,
excepted in `MessagesArrive`). With a proxy that is not in `Connected`,
`distributed` (or three hosts, `Proxies <- TwoRemotes`) loses START, DONE and
FLUSHED, and with it `DoneEndsAll`.

**Blocks.** "The work call can only produce the minimum available across the
buffers" (`graph_executor.cc`, lines 86 to 88), but the minimum is set anew for
each output: stream_to_streams, which looks at its first output only, overruns
the others when their readers are slower. The unsigned counts of fir_filter and
moving_average wrap below zero when a work call has fewer items than the
history, and items that are not there are used; only a `min_buffer_read` that
the application sets would prevent it. `TypeOK` of `StreamOps` says that these
blocks, without that minimum, are the only ones to go astray, and
`OutputIsFunction` that the output is right until they do. moving_average's
first call can sum inputs without consuming them, and sums them again.

A work call that returns `WORK_OK` and produces nothing spends a notification,
and before full buffers no other comes (`SleepsOnWork` in `AllIsUsed`): an
interleave or a deinterleave that has to find its item size, as
`qa_interleave.py` makes them (lines 29, 59, 76 and 103; there the end of the
sources makes all threads look again), a delay that was made shorter, a
moving_average that has just its history. A deinterleave that does not know its
item size sets its `output_multiple` after the buffers are made, which can hold
fewer items than it waits for. `open` and `close` of file_sink take effect at
the next work call only, so a file opened and closed between two calls stays
empty. Not modelled: file_source's `seek` leaves `d_items_remaining` as it was,
so that a file read once runs into a read error after a seek forward.

**Set-up.** `Supported` states rules the code enforces by failing, or not at
all: the lists of several schedulers are a partition of the nodes; no edge of a
hierarchical block crosses; a crossing goes to a scheduler added later; every
node keeps an edge in its own domain; no hierarchical block feeds another. The
sizes of crossing edges are not compared with each other. A port without a size
takes that of its first peer only, so of two blocks of unknown size in a row the
second may keep the default, and whether a mixed graph is accepted depends on
the order of the blocks in memory (`updated_sizes` is overwritten by each port).
Blocks of unknown size inside a hierarchical block are never sized, and
initializing a flowgraph with one twice fails.

## 5. Proofs

All theorems hold for every value of the constants that meets the `ASSUME`s of
the modules; the runs check them on the instances above.

**CircBufferProofs**, for every set of readers, every number and size of items
on either side, both memories, both ways of storing the write index and every
interleaving, without an assumption beyond those of `CircBuffer` on its
constants: `TypeCorrect`, `AvailableExact`, `WriteWindowFree`, `Integrity`,
`Refinement` (`Spec => ImplementsChannel`) and `NeverBothBlocked`. The
invariant, proved in `InductiveInvariant`, is `Types /\ (misled \/ IInv)`;
`IInv` joins the bounds of the variables (`Tight`) with

* `IndexInv`: the distance of the indices, each taken as it will be once
  wrapped, is the number of unread bytes, at most the size less one item. It
  holds wherever the two sides are between their stores; that the distance of
  the indices as they are is the same, but for `Overtaken`, follows from it.
  Without the bound, equal indices could mean empty or full;
* `WriteWindowInv` and `ReadWindowInv`: what a side was granted is still there,
  because the other side only adds to it. The grant is older than its use, so
  the exactness of the count at the time is not enough;
* `MemoryInv` and `SeenInv`: what the memory holds at every address a reader may
  look at, in both halves, and what it has seen. While the halves are being
  copied only the writer's own window differs.

`NeverBothBlocked` follows from the exact counts: if no reader finds an item,
every backlog is less than its item, and the largest backlog leaves the writer
one.

**SmBufferProofs**, for every number of readers, all minimums and every
interleaving: `TypeCorrect`, `NothingAdjusted` (`NeverAdjusts`), `LooksAreSafe`,
`Integrity`, `NeverBothBlocked` and `Refinement` (`Spec => ImplementsChannel`),
from `Uniform`: readers take items of the writer's size, as `graph::connect`
demands of declared sizes. Without it the stream and the types fail (section 4).
The invariant (`InductiveInvariant`) is `Placed /\ (astray \/ IInv)`. `Placed`
always holds: the indices are at items, and no window goes past the end of the
memory, also for a reader that has gone astray. `IInv` has the parts of
CircBuffer's. The indices do not tell empty from full here, so `IndexInv` ties
them to the totals: each index is its total, wrapped. `LooksAreSafe` is about a
reader between its two looks: whatever is published meanwhile, only `Outdated`
misleads it. By `NothingAdjusted` the realignment for readers is never needed;
the one for the writer moves data only under a `min_buffer_fill`, and section 4
says that it is wrong. `NeverBothBlocked` excepts the end of the memory, which
can cut off what a side waits for (`CutOffAtTheEnd`), and holds while the writer
is between work calls and waits for at most half of the buffer.

**NbtRuntimeProofs**, for every flowgraph, grouping, number of schedulers,
buffer size and `FlushCount`, from `GraphAssumption`, `GroupAssumption` and
`ControlAssumption`: `TypeCorrect`, `FlushedReachesSecondLoop` and
`ExitWaitsForFlush`. That no buffer overflows or underflows (`TypeCorrect`) is
an agreement of threads that hold no common lock: what a thread has read of its
ports is a lower bound when it posts, because the other side only adds to the
one and takes from the other. `FlowInv` says so of every post still in a
thread's script (`ScriptInv`), each edge being written and read by one thread.
The invariant of the shutdown (`ShutdownInvariant`) follows a cause through the
places it passes:

* `RunInv`: in the monitor's first loop no thread flushes, no DONE is in a
  thread's queue or about to be pushed, and so no FLUSHED in the monitor's;
* `ExitInv`: until every scheduler is in `sched_done`, no EXIT is about to be
  pushed, in a queue, or popped, unless the application stops the threads;
* `StoppedInv`: a thread leaves its loop only when it is stopped.

These two say what the protocol does guarantee: *some* thread of every scheduler
was flushed before any thread exits. `runtime_loss` shows that this is not
enough for the data.

The second part of **NbtRuntimeProofs** is about wakeups. For every flowgraph
without a loop and without a `min_buffer_read` above 1 (`Feedforward`), every
grouping, number of items and buffer size: before the first DONE reaches the
monitor the threads are never all asleep (`NeverAllAsleep`), so no wakeup is
lost (`NoWakeupLost`). No block has a wakeup of its own to account for; the
invariant is about neighbours:

* `Settled`: a block is about to be called (`Covered`), or was found blocked and
  still is (`Stuck`), or has moved items on each of its ports since, and each of
  its neighbours is about to be called or stuck (`Resting`). The second look
  without blocking that a thread takes after READY is what makes this hold;
* `PostInv`: behind every post in a script is the notification of the other
  side, and the post moves items;
* `Conserved`: an edge's fill is what its writer has processed less what its
  reader has. So of two blocks that wait for each other one has processed less,
  or as much and stands before the other, and a circle of them cannot close;
* `DoneInv`, `StartInv`: a block is done only in the iteration under way until
  the monitor is told, and threads are started once.

Both conditions are needed. With a `MinRead` of 2 all sleep in a state that
`runtime_groups` reaches, and there `NoLostWakeup` holds by its exception
`ReaderStarves` only, which these flowgraphs do not need; in a loop every block
waits from the start.

**ZmqLinkProofs**, for all three patterns, every length of the stream and of the
queues, every size of the buffers and every set of tagged items: `StreamInOrder`
and `TagsStay`. `LinkInv` reads the link as a chain from the source's output
back to the socket: what has come through, the rest of the message at hand, and
the messages on the wire.

* `OrderInv`: the chain ascends, and all of it was sent (`Sent`). Sending adds a
  message that begins where the last one ended; copying moves the front of the
  message at hand to what has come through; receiving replaces an empty rest;
* `GapInv`: what is on the link has no gap for push_sink whose queue is as long
  as the stream, because each message on the wire has an item, so that the queue
  can be full only after the last one; and none at all for a network buffer;
* `TagInv`: below a message's length the offsets it carries are those of its
  tagged items. The tags rep_sink sends for items outside the message are beyond
  it, above or, wrapped modulo `Word`, far above;
* `SpaceInv`: the source's work stays within the space it was granted, however
  often it copies.

**DistributedRuntimeProofs**, for any number of hosts and any set of connected
proxies: `TypeCorrect`, `FlushedNotDropped`, `ExitsFollowFlush`. Here the cause
crosses hosts, and the invariant follows it through monitor, proxy, wire and
queue:

* `RunInv`: while a monitor is in its first loop its own scheduler was not told
  to flush;
* `WhoInv`: a FLUSHED is in the queue of the host whose scheduler sent it or on
  its way from another host to the first, and says from whom it is;
* `FlagInv`, `SentInv`: who counts as flushed was told to flush, and wherever
  the first host's view of another is under way, the other is flushed;
* `ExitInv`: an EXIT is under way, or was obeyed, only when all is done;
* `OrderInv`: on the way to the first host a DONE precedes every FLUSHED, as
  long as its monitor has seen none. This is the part that needs the order of
  the sockets: per producer and per wire, not between them.

**ParamRequestsProofs**, for any clients, values and numbers of calls:
`TypeCorrect`, `Confirmed` (`ReadyMeansServed`) and `Refinement` (`Spec =>
Register!Spec`). `QueueInv` says that at most one request of a client that waits
is in its queue and that it is its call, `ConfirmInv` the same of the request
being served, with the value its confirmation will carry, and `WaitInv` ties
both to the flag. The refinement maps a request that has taken effect but is not
yet confirmed to an answer the client does not know yet.

**MessagePortsProofs**, for every number of blocks, threads and posts, every
assignment of blocks to threads and every interleaving: `InOrder`, from
`Forwarding` (no port feeds two others, no message runs in a circle) and
`Numbered` (the application posts the messages of one source to one block, with
ascending numbers). With fan-out the shared object breaks the property (section
4); in a circle a block handles a message again. `MessageInv` is about
everything that is on its way to a handler (`OnTheWay`): with the thread that
posts it, in the queue of the owner, in the owner's hands.

* `Routed`: a message is on the route from where it was posted and comes from
  the one block before. So two messages of a source reach a block through the
  same thread, and the queues need be FIFO only per producer;
* `Ordered`: of two messages of one source the one ahead, at a later block or a
  later stage, was posted first; `QueueOK` says it of the entries of a queue,
  `HandledOK` of what is handled against what is to come;
* `AllFresh`: an object whose callback is still to be stored is in no queue and
  with no other thread. Without fan-out this is what makes the unlocked
  `set_callback` harmless: a callback never changes behind a message in a queue.

**TagsProofs**, for any number of sinks, sizes of their items, capacities and
numbers of items and tags, a thread for each block and every interleaving:
`TagsReach` and `TagsPrecede`. The invariant (`TagsInvariant`) is `disturbed \/
IInv`: the source may add and prune at any moment but in the midst of a walk,
and what it changes while the block is at another place is what `IInv` must
bear. It says of every vector which tags it lists, each once and at the offset
of its item (`Lists`):

* `InputListed`: the input's lists the source's tags that the block has not
  read, and nothing but tags of the source; while `propagate_tags` goes through
  it, it is as long as it was at the start;
* `OutputListed`: the output's lists only tags that have been moved to it or
  added by the block (`Moved`), and all of these that some sink has not read. In
  the midst of a propagation `Moved` is what the walk has passed, and below it
  everything before the items of the last work call;
* `GivenListed`: a sink has been given the tags of the items it was given, and
  no other, whose offsets are divided by the size of its items. This needs that
  a tag is in the vector before its item (`OutputListed`) and that none is added
  to an item that was already given (`AddedInOrder`);
* `IndicesAgree`: the block's reads and writes, posted one after the other, are
  the same items, and no sink is ahead of what was posted.

Pruning and windowing go by `Selected`, which is recursive over the vector. What
it picks, in which order and how often (`SelectedIs`) is proved by induction: of
the places at which the claim might fail the naturals have a least
(`LeastExists`, `UpTo`), and it does not fail there.

**Only model-checked.** All liveness (`ShutsDown`, `AllCounted`,
`FinishIsReported`, `RequestsReturn`, `DoneEndsAll`, `StopEndsPrimary`,
`MessagesArrive`, `AllIsUsed`): the prover has no rule for strong fairness or
ENABLED. `HangsOnlyByStarving`, and `NoLostWakeup` in the flush phase, where
whether a block is called depends on eight rounds of `FlushCount`, and in
flowgraphs outside `Feedforward`, where it needs its exception. `AllDelivered`,
which is false in general: a block may be finished while its neighbour still has
items for it. `HandledByOwnerInOrder` outside `Forwarding`. `StreamOps`, whose
`DelayAddsUp` and `OutputIsFunction` compare what a work function returns with a
reference function of the whole stream, by folds and selections over the items;
and `GraphSetup`, whose set-up is a sequence of folds over the nodes, edges and
schedulers: both rest on operators of the community modules about which there
are no facts to cite, and each would need an induction of its own.

## 6. Not modelled

Of the modelled components:

* buffers: the allocation of shared memory and the rounding to pages, weak
  memory order (memory is sequentially consistent), `add_tags` (nothing calls
  it) and propagation policies other than one to one; the CUDA buffers, which
  repeat `buffer_sm` and the circular buffer on device memory;
* the runtime: blocks without ports, several output ports of a block in
  `NbtRuntime` (they are in `StreamOps`), the construction of schedulers from
  YAML, several schedulers together with proxies (no constructor sets them up),
  a START or a connection that comes after the first messages;
* `message_port_proxy`, which forwards one message over a socket; sockets that
  fail;
* graphs: edges of message ports, endpoints that are null (the two sides of a
  distributed flowgraph), optional stream ports (no block has any), and the
  topological order and partition of `flat_graph.cc`, which nothing calls;
* file_source's `seek` and `open`, which no public interface reaches.

Not modelled at all, and why:

* the blocks that compute a value for each item (math, analog, digital), draw
  (qtgui) or drive hardware (soapy, uhd, iio, audio), and the kernel library:
  one work call is a function on samples with floating-point numbers, and
  between work calls they have no state the scheduler meets;
* `concurrentqueue.h`, the lock-free queue: a third-party library, of which the
  models use FIFO order per producer;
* rpc and REST, which forward calls one at a time; what the REST-driven runtime
  sets up is the `Init` of `DistributedRuntime`;
* Python blocks and bindings, GRC, code generators, logging, preferences, paths,
  thread names and priorities: wrappers without a protocol;
* `nodeid_generator`, which draws names until one is free.

The map covers about 7 % of the lines of the repository. Nearly all of the rest
is in the list above: the numeric blocks and kernels, the graphical sinks, the
hardware drivers and the vendored queue alone are most of it.
