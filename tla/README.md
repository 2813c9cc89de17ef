# messagebus in TLA+

TLA+ specifications of the message bus in this repository, model-checked with
TLC and proved about with TLAPS. The bus delivers typed messages to receivers;
every receiver has its own poller task and its own event loop, callers run on
any thread, and the parts share a few atomics, channels and `Notify`s. Nothing
guards them as a whole, so the properties here are about interleavings.

## 1. The system

| Part | Source | State | Operations | Correct when |
|---|---|---|---|---|
| Bus calls | `src/lib.rs` | `closed`, `maintain`, `ID_COUNTER` | `send`, `send_one`, `try_send`, `force_send`, `request`, `flush*`, `sync*`, `idle*`, `ready`, `close` | every call returns; a request gets its own answer; flush and sync cover what was sent before; close drains |
| ReceiverWrapper, event loop | `src/receiver.rs` | `processing`, `need_flush`, `ready_flag`, six `Notify`s, slab of response waiters | `try_reserve`, `reserve`, `send`, one arm per event | the counter is exact; the limit holds; no wake-up is lost |
| BufferUnordered | `src/receivers/buffer_unordered` | queue, event channel, semaphore | poller loop, one task per message | at most `max_parallel` tasks; Flush and Sync are barriers; sync runs alone |
| Synchronized | `src/receivers/synchronized` | queue, the mutex of the object, shared by all its receivers | poller loop that awaits each task | one handler at a time, in order |
| Batched receivers | `src/receivers/*_batched`, `synchronize_batched` | also the batch buffers | as above, one task per batch | every message of a batch is answered once; Flush covers partial batches |
| RelayWrapper | `src/relay.rs` | slot counters per type, made on first use; waiters, flags, `Notify`s | `try_reserve` per type, one arm per event | as ReceiverWrapper, per type |
| Remote relays | `crates/remote/src/relays` | item queue, the item to retry, connections, event stream | connect, write an item, read a packet, reply, reconnect | nothing is lost without a cause, reordered or handled twice |
| Protocol encoding | `crates/remote/src/proto.rs` | none | `serialize`, `deserialize` | decode undoes encode |
| Lookup, selection | `src/lib.rs`, `MessageTable` | the table built by `BusInner::new` | `select_receivers` | a message finds exactly the receivers that accept it |
| Builder | `src/builder.rs` | receiver ids, receivers and pollers of each module | `register`, `subscribe`, `done`, `add_module`, `build` | no receiver is dropped, each is polled and initialised once |
| Handlers, type erasure, errors, stats, derive | rest of `src/`, `crates/derive` | none | | |
| Producer, Redis relay | | | | not compiled: commented out in their parents |

How they interact: a call takes a slot of each receiver (`processing`), puts the
message into the receiver's queue and sets `need_flush`. The poller takes it
from the queue, spawns a task, and the task puts a `Response` into the event
channel. The event loop takes it, gives the slot back, notifies, and hands the
response to the waiter of a request. Controls (`Flush`, `Sync`, `Close`, `Init`)
travel along the same queue and come back as events that wake the callers
through a `Notify`.

The three other kinds of receiver differ in their pollers only. A relay takes the
place of a receiver for many types at once; a remote relay writes what it is
given to a connection, and the event stream of the other bus reads it, makes the
call there and sends the answer back.

What is hard: two or more callers at the same receiver, each between a check
and the wait it decides; notifications that are stored, merged or lost; handlers
that call the bus themselves; a panic of a handler or of the event loop; a
dropped request future; close racing everything; batches that are not full when
something waits for them; a connection that breaks with items on either side of
it; a stream or handler that waits for what only it can do. Section 7 lists where.

## 2. Modules

| Module | Models | Composes |
|---|---|---|
| `Notify` | `tokio::sync::Notify` as used with `notify_one` (external) | |
| `Mailbox` | the two channels of a receiver, and where each message is (`at`) | |
| `Receiver` | ReceiverWrapper, ReceiverContext, event loop | `Mailbox`, `Notify` |
| `BufferUnordered` | poller, semaphore, tasks | `Mailbox` |
| `Bus` | the API, each call a process | `Receiver` |
| `UnorderedBus` | a bus of BufferUnordered receivers; the specification and its properties | `Bus`, `BufferUnordered` |
| `ReceiverContract` | abstract: what any receiver implementation promises | `Mailbox` |
| `Pollers` | what the other three pollers share: buffer, tasks, mutex | `Mailbox` |
| `Synchronized`, `BufferUnorderedBatched`, `SynchronizedBatched` | the pollers | `Pollers` |
| `MixedBus` | a bus of receivers of these three kinds, several per object | `Bus`, the three |
| `Relay` | RelayWrapper and its event loop, around any relay | `Notify` |
| `Wire` | `serialize` and `deserialize` of the remote protocol, as operators | |
| `Link` | the tasks at the two ends of a TCP or QUIC relay, and their connections | `Wire` |
| `RemoteBus` | two buses joined by a remote relay | `Link` |
| `Dispatch` | message tables, the lookup table, `select_receivers`, as operators | |
| `Builder` | modules, builder and `build`, with threads that fill modules | `Dispatch` |
| `MCUnorderedBus`, `MCMixedBus`, `MCRelay`, `MCRemoteBus`, `MCBuilder` | the instances TLC checks | |
| `BusProofs` | lemmas: what the steps of a call and of an event loop do to the invariants of any bus | `Bus` |
| `UnorderedBusProofs`, `UnorderedBusRefinement` | proofs | `UnorderedBus`, `BusProofs` |
| `MixedBusProofs`, `MixedBusRefinement` | proofs | `MixedBus`, `BusProofs` |
| `RelayProofs` | proofs | `Relay` |
| `RemoteBusProofs` | proofs | `RemoteBus` |
| `BuilderProofs` | proofs | `Builder` |

### How state and actions correspond to the code

* A *message* is the call that sent it. `at[r][c]` says how far the copy of call
  `c` for receiver `r` has come: `permit` is a live `Permit`, `queued` and
  `answered` are in a channel, `held` is in the poller that awaits
  `acquire_owned`, `running` and `handled` are in its task before and after
  `drop(task_permit)`, `answering` is in the event loop after the `fetch_sub`.
* `processing`, `needFlush`, `readyFlag`, `closed`, `idCounter` are the atomics.
  Each of their loads and stores is in a step of its own wherever another
  thread can act before the next access. The loop around `compare_exchange` is
  one step: a lost race only repeats it.
* `notify` holds the two `Notify`s used with `notify_one` (`response`,
  `flushed`): one stored permit and a FIFO of parked futures. For those used
  with `notify_waiters`, tokio wakes a `Notified` from its *creation* on, so
  `listening` is the set of calls that have created one; for `notify_one` it
  counts only from its *first poll* on. This difference decides several of the
  properties.
* `waiters`, `mid`, `slab` are the slab. A message id is a number from
  `ID_COUNTER` or a slab key; bit 63, set on requests, is not part of the key
  the slab looks at. The first keys are 0, 1, 2, ...; a key with shard or
  generation bits set differs from all of those and is written as the call.
* `poller`, `sem` are the poller loop and its semaphore. The poller is the only
  one that acquires, so `acquire_many` waits for all permits at once.
* `pc`, `pos`, `round`, `again` are the local state of a call. `Route` is the
  list of receivers a call visits, `After` the calls its client awaited before,
  `Inside` the handler it is made from. A handler returns once its calls have.
* `before[f]` is a history variable: the sends that had returned when `f` was
  called. `timedOut` records which receivers a close gave up.

The closed check of a send and the `fetch_add` of its id are one step: nothing
another thread does in between can be told apart by the properties. A `close`
that begins after the check, and before the send, is modelled.

`MixedBus` shares `Bus`, `Receiver` and `Mailbox` with `UnorderedBus`, and adds:

* `kind` says which subscribe function made a receiver; the initial states try
  every assignment of kinds, with all receivers of one object behind its mutex
  or none, as `register_unsync` and `register` give them.
* `buffer` is `buffer`/`buffer_mid` of a batched poller, `batches` the list of
  batches handed to tasks; a task is named by its batch, and `at` says how far
  it is. The mutex is free when no handler and no sync handler of a receiver of
  the same `Owner` runs. Synchronized's poller waits in `await` for its task, and
  `unwrap()` of the JoinHandle makes its panic the poller's.
* `accepted` is a history variable: what a queue took, in order.

`Relay`:

* `contexts[t]` are the `RelayReceiverContext`s made for a type, the last one
  being in the map: the loser of the race in `try_reserve` leaves the winner's
  behind, and `held[c]` says which of them counts the slot of call `c`.
  `processing` is a number modulo `Wrap`, for the 2^64 of the AtomicU64.
* `loop` splits the event loop where it touches shared state: after `need_flush`
  and before `notify_one`, after `notify_waiters` and before the store of
  `ready_flag`, between `fetch_sub` and `notify_one`.
* `inner`, `accepting`, `lost`, `init` are the relay behind the wrapper. It is any
  implementation of the trait: it answers in any order, with a response or an
  error, and may lose a message, end its stream or fail to connect.

`Link` and `RemoteBus`:

* `items` and `item` are the channel of items and the local `item` of the task;
  `task` is `next` at `incoming.next()`, `serve` in the inner loop, `finish` in
  QUIC's `finish()`. `wire[s][n]` are the packets side `s` wrote to connection
  `n`; `intake` are the read halves handed to the event stream, which reads one
  connection to its end before the next. `notices` is the channel of Ready, Pause
  and Exited.
* `Break` takes any suffix of what is on a connection. A write to a connection
  that is gone may fail or succeed into a buffer, as sockets do (external).
* `reading` is what the event stream awaits in place: `flush_all` or `sync_all` of
  its own bus. `working` are the tasks it spawned; what the receivers of the bus
  do with a message is `MixedBus`'s matter, here a task just ends.
* `slots` is the counter of the type of the plain sends, here an integer: below
  zero it stands for a wrapped one.

`Builder`: a thread owns a module (`stage`), so that only `sequence` is shared;
`entry` is the `RegisterEntry` a module is inside of. `spawned` and `inits` record
what `build` did. An Option is a set with at most one element.

### Not modelled

* Payloads and types in the bus modules: a call knows its receivers, and
  `Dispatch` says how the lookup finds them. `SendOptions` reach
  `select_receivers` only; `send_ext`, `try_send_ext` and `force_send_ext` ignore
  them in the code, and `Random` and `Balanced` select like `Broadcast`.
* The `_boxed`, `_we` and `deserialize` variants of the sends and of `request`:
  the same steps, but `request_boxed` and `request_deserialize` also look at
  `closed` first, and the latter can fail to decode its message.
* Dropping a request future while it is parked in `reserve`; it can be dropped
  while it awaits the response (`Abandon`).
* Panics of sync handlers, and of the task that runs one.
* Responses with an error (`Respond` always answers Ok): they take the same steps, but
  at a relay, where `Relay` has both.
* In the TCP relay: the answer to a plain send that the other side echoes as a response,
  and the panic on a response that is not shared.
* Several flushes, or several syncs, of one receiver at a time. Their `Notify`
  merges what it stores, and a second flush may then wait for ever.
* The `Event::Error` of a failed batch, which the wrapper only logs, and the stats
  counters, which are only reported, and in part never written.
* In the remote crate: the framing of a packet (magic, PING, a header or a body
  cut short), TLS and the QUIC handshake, an `Action::Close` from the other side
  (neither relay sends one), the bytes of the codecs.
* Handler adapters, type tags and type erasure, the error types, the derive
  macros: they compute, and keep no state. The producer receiver and the Redis
  relay are not compiled.

## 3. Properties

Each property is stated at its definition with the code it is about.

`UnorderedBus`:

* `Accounting`: `processing` is exactly the number of messages that hold a slot.
  A message lost in a panic, or refused by a closed queue, keeps its slot: the
  code never gives it back, and the property says so (`Slotted`).
* `Backpressure`: what entered by `reserve` or `try_reserve` stays within the
  limit; only `force_send` exceeds it.
* `FlushCovers`, `SyncCovers`: what was sent before is handled on return.
* `SyncExclusive`, `ParallelBound`: sync runs alone, tasks are bounded.
* `AnswerMatches`: the response a request gets is that of its own message.
* `CloseDrains`: when close returns, a receiver that no call gave up after its 20 s,
  and whose poller did not panic, has ended: it has nothing queued, held, running
  or unanswered, and never gets anything again.
* `CallsReturn` (liveness): every call that was made returns. It does not hold of
  `idle` and `ready`, section 6.
* `CallsSettle` (liveness): every call returns, but for a `ready` or an `idle` whose own
  registration comes at the one moment at which it misses the notification. One that
  was registered earlier must be woken, and a later one must see the flag or the
  counter.
* `NoStrandedSender`: no call is parked in `reserve` at a receiver without a message
  in flight, unless its event loop is about to notify or another call is about to
  reserve; except where a failed `try_send` gave the slot back: `permit_drop`
  notifies nobody (`receiver.rs:722`).
* `KeepsContract` (refinement): BufferUnordered with its wrapper implements
  `ReceiverContract`. The mapping puts what the poller has received but not
  acted on (`held`, a pending Flush or Sync) back at the head of the queue, and
  forgets the semaphore.
* `FlushEquilibrium`: what `flush_all` loops for. It does not hold, section 6.

`MixedBus`:

* `BatchOrder`: batches, buffer and queue together are what the receiver took, in
  that order. A poller that ends drops less than one batch: Close does not send
  a partial batch off.
* `FlushCovers`, `SyncCovers`, `CloseDrains`, by kind: Flush of
  SynchronizedBatched hands over and does not wait; Sync leaves a partial batch.
* `SyncExclusive`, `OneHandlerPerObject`: across all receivers of one object.
* `OneByOne`: a Synchronized receiver begins nothing before the last is answered.
* `KeepsContract`: Synchronized with its wrapper implements `ReceiverContract` too.
  A message whose task waits for the mutex counts as still queued. The batched
  kinds do not implement it, as the properties above show.
* `Accounting`, and `CallsSettle` (liveness): every call returns, but for one from
  inside a handler that waits for that handler: for a slot of its receiver that it and
  the messages behind it hold, or for its turn at a receiver of the same object behind
  the mutex. The excuse is about the call alone: nobody else is kept waiting, and the
  same request to an object without a mutex returns, its batch filled.

`Relay`: `Accounting` and `Backpressure` per type, for types whose counter is made
once and only freed by BatchComplete (`Plain`); `CallsSettle` for all. A `ready` is
excused only if it registers after the last notification and looks at the flag before
it is stored, or when the relay has failed for good; one registered earlier must be
woken. `close` must always return. What else has to be excused is worth a look: a response frees a slot of *its own* type, not of the type
of the request (`relay.rs:299`), an error frees none (`relay.rs:289`), so that
requests use up the slots of their type and make another counter wrap; and a
context made twice strands who is parked at the first (`relay.rs:197`).

`RemoteBus`:

* `RoundTrip`: decoding undoes encoding for items of every kind, but InitFailed
  arrives as Ready, the id of Init as 0, an error without its type, and an
  unknown type as no message at all.
* `InOrder`: what is read is in the order of the relay, and each item once, except
  that QUIC may write an item twice when `finish` fails (`quic/mod.rs:241`).
* `Conserved`: an item the relay took is under way, was read, or went down with a
  connection or a task. A failed write loses none.
* `FlushArrives`: after a flush what was sent before has been read by the other
  bus. It need not have been handled: its task may not have begun.
* `ReadyIsConnected`: the ready flag follows the connection.
* `CallsSettle`: a call returns, or its item, its answer or a side is gone, or the
  event stream of a side awaits `flush_all` or `sync_all` of its own bus and this
  needs an answer that only the stream could read (`tcp/mod.rs:355`), or a task
  waits for an item at a connection that is gone (`tcp/mod.rs:178`).

`Builder`: `NoReceiverLost`, `PolledOnce`, and `SelectsAccepting`, `SendsReach`:
`select_receivers` finds exactly the receivers that accept; a plain send also
reaches relays that take the type as a request only, since its entry is filed for
every type (`lib.rs:387`).

## 4. Runs

Each run is a small script of calls, or a set of scripts from which the initial
state picks one. `batches` and `objects` use `MCMixedBus`, `relay`, `remote` and
`build` modules of their own, the others `MCUnorderedBus`.

| Run | Calls | Checks | Distinct states |
|---|---|---|---|
| `flow` | a send to r1, a send to r2 and r1, a try_send to r1 and r2, limit 1 | `Accounting`, `Backpressure`, `NoStrandedSender` | 2,161,544 |
| `quiesce` | a send, flush, then sync by one client; a send and a force_send by another; limit and parallelism 2 | `TypeOK`, `FlushCovers`, `SyncCovers`, `SyncExclusive`, `ParallelBound`, `KeepsContract` | 208,600 |
| `close` | a droppable request, a request whose handler may panic, a send_one, close; limit 1 | `CloseDrains`, `IInv`, `KeepsContract` | 232,957 |
| `serve` | ready, a request with one from inside its handler, then idle; the request of another client for the same slot; limit 1 | `AnswerMatches`, `CallsSettle` | 39,454 |
| `batches` | two sends, then sync, flush, close by one client; a request whose handler may panic; every kind, batches of 2 | `TypeOK`, `BatchOrder`, `FlushCovers`, `SyncCovers`, `SyncExclusive`, `OneByOne`, `CloseDrains`, `KeepsContract` | 204,158 |
| `objects` | two receivers of one object: a send to r1 whose handler sends to r1, a send to both whose handler at r1 requests r2; limit 2, batches of 1 and 2 | `Accounting`, `OneHandlerPerObject`, `CallsSettle` | 521,692 |
| `relay` | seven scripts of one to three calls, of two types; limit 1, one loss | `TypeOK`, `Accounting`, `Backpressure`, `CallsSettle` | 525,571 |
| `remote` | TCP: a send, then a request or a send back, flush, close, or sync; QUIC: a send with a request, flush or close; two connections, one break | `TypeOK`, `RoundTrip`, `InOrder`, `Conserved`, `FlushArrives`, `ReadyIsConnected`, `CallsSettle` | 572,164 |
| `build` | three modules, up to three receivers and relays in any way | `NoReceiverLost`, `PolledOnce`, `SelectsAccepting`, `SendsReach` | 257,154 |
| `chain` | sends to r1 and r2, a handler of r1 sends to r2, flush of both | `FlushEquilibrium` is violated | |
| `mix` | a send and two requests | `AnswerMatches` is violated | |
| `idle` | a send and idle | `CallsReturn` is violated | |

Why the bounds are enough. Limit 1 with two senders is the least that makes
`reserve` park, a stored permit go stale and a try_send fail half way; a second
receiver is needed for partial reservation and for handlers that call on. Two
tasks side by side (`quiesce`) are the least that let a flush find some of the
permits. `Fuse` is 3 for the 32 of the code: no run without the fault of `chain`
needs more than three rounds for the messages it has, and the outcome `fuse` is
excluded from the flush properties. Call counters are bounded by the set of
calls. `serve` keeps plain sends out, whose ids collide with the keys of requests: that is
the subject of `mix`. Its `ready` may start at any moment, also between the
notification and the flag, and its `idle` while the other request is in flight: both
wait in some behaviours and are woken, and in others miss the notification.

Two messages fill a batch of two and a third leaves one partial (`batches`). In
`objects` the limit of 2 is the least at which a handler that sends to its own receiver
waits for ever in one order, when another message has the second slot, and returns in
the other. A relay limit of 1 stands for
the 16 of the code and is used up by one request; `Wrap` is 8, more than any
counter reaches upwards, so that only a counter below zero is that high. One break
and two connections are the least that reconnect, retry and read again. Three
modules are the least in which a module is added to one that is added itself.

CHECK_DEADLOCK FALSE is set where the system may stop: in `flow`, when a call stays
parked for the slot that a failed try_send gave back; in `close`, when an event loop or a
handler has panicked and calls wait for it; in `serve` and
`idle`, when a call has missed its notification; in `objects`, `relay` and `remote`,
when a call waits for ever for one of the reasons that `CallsSettle` lists; in `batches`,
after a panic; and in `build`, when the bus is built and the other modules have moved
into it. In the other runs a state without a successor would be an error, and `Finished`
is the only way to stutter.

Fairness. `Fairness == WF_vars(Runtime)`: the tokio runtime does not stop while
some task can go on. That is the least one can ask of it, and weaker than
fairness for each task. `Runtime` contains no client's first step of a call, no
dropped future, no panic and no timeout: nothing obliges those. It contains
`HandlerReturns`: a handler that never returns makes any call wait, and the bus
cannot help it. `MixedBus` and `RemoteBus` assume the same of their `Runtime`;
in `RemoteBus` no connection has to break or to end, and no client has to make its
calls. `Relay` needs fairness for each call, for each answer of the relay, for its
connecting and for the event loop: the relay behind it is not further known, and
one of its answers must not be put off for ever by others. Losing something is
never obliged.

Each property of a passing run is broken by a mutant of the code: an operator
marked `MUTANT` beside the definition it stands in for (a permit that is not
moved into the task, a slot that is not given back, a waiter key used twice, a
notification left out ...).

## 5. Proofs

For all receivers of every kind, objects behind them, messages, routes, limits, batch
sizes and degrees of parallelism; all types
of a relay, their responses and any calls of them; all items, connections and
breaks of a remote relay; all modules, subscriptions and tables of relays:

| Theorem | Statement |
|---|---|
| `UnorderedBusProofs`: `Invariance` | `Spec => []IInv` |
| `TypeCorrectness` | `Spec => []TypeOK` |
| `SlotAccounting` | `Spec => []Accounting` |
| `BackpressureHolds` | `Spec => []Backpressure` |
| `HandlersBounded` | `Spec => []ParallelBound` |
| `SyncAlone` | `Spec => []SyncExclusive` |
| `CloseLeavesNothing` | `Spec => []CloseDrains` |
| `AnswersMatch` | `Spec => []AnswerMatches`, if no receiver is sent both requests and plain messages (`SeparateRequests`) |
| `FlushesCover`, `SyncsCover` | `Spec => []FlushCovers`, `[]SyncCovers`, if flushes and syncs keep apart (`BarriersApart`) |
| `NobodyStranded` | `Spec => []NoStrandedSender`, if every `Limit` is positive |
| `UnorderedBusRefinement`: `Refinement` | `Spec => KeepsContract` |
| `MixedBusProofs`: `MixedInvariance` | `Spec => []IInv` |
| `MixedTypes`, `MixedAccounting` | `Spec => []TypeOK`, `[]Accounting` |
| `MixedSyncAlone`, `ObjectsGuarded` | `Spec => []SyncExclusive`, `[]OneHandlerPerObject` |
| `MessagesInTurn` | `Spec => []OneByOne` |
| `MixedClose` | `Spec => []CloseDrains` |
| `MixedFlushes`, `MixedSyncs` | `Spec => []FlushCovers`, `[]SyncCovers`, if `BarriersApart` |
| `MixedBusRefinement`: `SynchronizedKeepsContract` | `Spec => KeepsContract` |
| `RelayProofs`: `RelayInvariance` | `Spec => []RelayInv` |
| `RelayTypes`, `RelayAccounting`, `RelayBackpressure` | `Spec => []TypeOK`, `[]Accounting`, `[]Backpressure` |
| `RemoteBusProofs`: `RemoteTypes`, `ProtocolRoundTrip` | `Spec => []TypeOK`, `[]RoundTrip` |
| `ReadyTellsTheTruth` | `Spec => []ReadyIsConnected` |
| `NothingIsJustGone` | `Spec => []Conserved` |
| `FlushGetsThere` | `Spec => []FlushArrives` |
| `MessagesInOrder` | `Spec => []InOrder` |
| `BuilderProofs`: `ReceiversKept`, `PollersRunOnce` | `Spec => []NoReceiverLost`, `[]PolledOnce` |
| `LookupFinds`, `PlainSendsReach` | `Spec => []SelectsAccepting`, `[]SendsReach` |

Assumptions, which TLC evaluates on every run: `MailboxAssumption` (finitely many
messages, distinct from the names of actions and signals), `ReceiverAssumption` (a
message is not a number, so that the keys of a slab can be told from it),
`BusAssumption` (a message visits a receiver at most once, which the lookup's
`HashSet` ensures), `BufferUnorderedAssumption` (`max_parallel` is positive),
`RelayAssumption` (there is a type, and fewer messages than `Wrap`, that is 2^64),
the assumptions of `RemoteBus` and `Wire`, and `BuilderAssumption` (what a receiver
subscribes to is a type with a response and an error). `NobodyStranded` has a
hypothesis of its own: at a receiver with a limit of 0, `reserve` of a first send
waits for ever, as `try_reserve` can never succeed. The code accepts such a limit.
So has `AnswersMatch`: without `SeparateRequests` the statement is false, which run
`mix` shows. The four about flushes and syncs have `BarriersApart`: a receiver that a
flush visits is visited by no other flush and no `idle`, its syncs are awaited one
before the other, and it is closed only when they are. The answer to an earlier flush
clears `need_flush` for a later one, which is what run `chain` shows, and two syncs
at a time share one notification. Runs `quiesce` and `batches` satisfy it: senders are free,
and so is the order of a flush and a sync.

### BufferUnordered

`Accounting` alone is not inductive: when the event loop takes a response it
decrements, and one must know that the message was counted. Hence the parts of
`IInv`:

* `ChannelInv`: a message in a channel is there once, and `at` says so; taking
  it then moves exactly one counted copy.
* `RouteInv`: a call's copies at the receivers behind and ahead of `pos` are
  where its progress says; sending moves a `permit`, reserving moves a `none`,
  and a dropped Permit is one that was counted.
* `SemaphoreInv`: free permits plus running tasks are `max_parallel`, and during
  a sync both are zero; this gives `ParallelBound` and `SyncExclusive`.
* `Backpressure` needs `Accounting` to turn `processing < limit` into a statement
  about messages.

All but `SemaphoreInv` speaks of calls, channels and counters, which every bus has.
These parts are in `Bus`, and `BusProofs` proves what both buses need of them: every
step of a call and of an event loop keeps the types and `Visiting`; the counting
lemmas (one copy moves: the cardinality changes by at most one), the channel and the
route lemmas. `UnorderedBusProofs` has one lemma per action of the poller and its
tasks, and the theorems. TLC checks `IInv` itself in run `close`.

`UnorderedBusRefinement` shows that each action is, through the mapping `stage`,
`inbox` and `inSync`, an action of `ReceiverContract` or a stutter. `RInv` adds to
`IInv` that the poller holds exactly one message while it waits for a permit and
none otherwise (`HeldInv`): without it, what the mapping puts back at the head of
the queue is not what was taken from it. `LoopInv` says that the receiving end of
the events is open until the event loop ends, so that an answer that cannot be
queued is one the contract may drop.

`MixedBusRefinement` does it for the Synchronized receivers of `MixedBus`; the others
are kept in the contract's initial state (`Serial`), and `Alone` says that a step of
one receiver shows the contract nothing of another, be it behind the same mutex. It
needs `PollerInv`: the poller awaits the task of the only message that is held, running
or handled, so a message whose task waits for the mutex is the first of the contract's
inbox, and Flushed, which is sent at once, still finds nothing running. A panic of the
handler, or an answer without an event loop, is the contract's `Break`: the receiver is
`Fragile`. BufferUnordered survives both and is not.

`NobodyStranded`. `WInv` says of each receiver that if a call waits for a slot,
or has found none and is about to wait, and nothing is in flight, then there is a
reason not to despair (`Hope`): the event loop is about to notify, a permit is
stored, a call is about to reserve, or `permit_drop` was silent. That is inductive
only with `WaitingInv`: a stored permit and a waiting call exclude each other, and
a call is parked at the receiver it is at, once. The hard steps are those that use
a permit up: the call that takes it has then reserved or is about to.

Two more arguments are about calls, and both buses use them (`BusProofs`):

* `AnswersMatch`. A response is delivered to the waiter whose key it carries. The
  keys given to the requests of one receiver are distinct (`DistinctInv`), each is
  below the next key of its slab (`KeyedInv`), a waiter is one of a request that was
  made to that receiver (`WaitersInv`), and a copy is only where its call was sent
  (`SentInv`). A plain send has its id from a counter instead: that no receiver which
  answers requests has such copies is all that `SeparateRequests` is needed for.
* `CloseLeavesNothing`, `MixedClose`. `close` goes from one receiver to the next
  under the `maintain` lock, and misses the notification of a receiver that ended
  before it listens. So `CloseInv` says that a receiver which was told to close, or
  takes nothing any more, is settled unless a call is registered with it, and that
  a call has passed settled receivers only. `Settled` means panicked, given up, or
  with no message under way. That the end of the event loop settles its receiver
  needs `FullInv` (what counts as queued or answered really is in the queue or
  among the events, so that an empty queue means nothing is left) and `EndInv`.
  That nothing comes after it is `GoneInv`: a queue whose receiver is gone is empty.

A third argument, also in `BusProofs`, is that of `FlushesCover`, `SyncsCover`,
`MixedFlushes` and `MixedSyncs`. A
control is *clear* of a receiver once what it is to cover there is handled, and it
stays so. `CoverInv` says of each flush and sync, and of each receiver on its route:

* `BarrierAt`: nothing that is to be covered gets behind its Flush or Sync in the
  queue; it goes past the receiver only when it is clear of it; and the receiver is
  not closed before it returns.
* `FlushAt`: from the first step of a flush on, and until it is clear, `need_flush`
  stays set and no answer to a Flush is to be had, be it among the events, in the
  event loop's hands or as a stored permit. So a flush that sees `need_flush` unset, or
  is woken, is clear. Before that step nothing flushes the receiver, and what is
  unhandled there has set `need_flush` or is about to.
* `SyncAt`, `SyncTokens`: a sync is registered before it sends Sync, and there is one
  Sync or answer to it on its way at most, which a sync awaits. So the answer that
  wakes it is to its own Sync.
* `InitFirst`: Init is the first that a poller takes, so that when it cannot be
  answered and the poller panics, no handler runs.

`TakenInv` adds what the poller does in between: a BufferUnordered poller that has
taken Flush or Sync has nothing left in the queue that its control is to cover, and
holds no message. It answers once no handler runs, and then the control is clear. An
event loop that fails, or a poller that panics, leaves nothing to cover either.
`CoverInv` has the pollers' part as parameters, so that it says nothing of what kind
of receiver the bus has. As `IInv` of `MixedBus`, it is no property of a run; TLC
finds that it holds of runs `quiesce` and `batches`, and of flushes and syncs that
overlap, with handlers that may panic and requests that may be dropped.

With batches a control covers a receiver in another sense, `Covered`: the buffer is
part of it, the tasks of SynchronizedBatched are not, and a sync leaves less than a
batch. Two facts about the pollers carry that:

* `RestInv`: what is held is in the buffer or in a task; the buffer of a poller that
  awaits its tasks for a Flush is empty; that of one that receives or synchronizes
  is less than a batch, so a Sync that is answered leaves no more than that.
* `Strides`: what any step of a poller or its tasks may do to its receiver. A message
  it takes comes from the queue; Flushed is sent with an empty buffer, and both
  answers are sent without a task under way that the receiver awaits. Synchronized
  has none then because it awaits each (`PollerInv`), BufferUnorderedBatched because
  it has all permits (`SemaphoreInv`).

### Synchronized and batched receivers

The counter is exact only if a batch, which answers, dies or is dropped as a whole,
moves each of its messages once. So `IInv` of `MixedBus` says, besides `ChannelInv`,
`RouteInv` and the rest of what every bus keeps, in whose hands a copy is:

* `PollerInv`: what the poller buffers is `held`. A Synchronized poller keeps
  nothing back, and while it is in `await` the last batch is the message it waits
  for, and no other message of the receiver is in a task; this gives `OneByOne`
  together with `OrderInv`: the queue has what is queued, in the order accepted.
* `BatchInv`, `TaskInv`: no message is in two batches or in one and the buffer, what
  runs is in a batch, and a batch is held or running as a whole.
* `SemaphoreInv`: free permits plus `Live` tasks are `max_parallel`, or none of
  either while the sync handler runs. `Live` counts tasks, not messages, and a task
  is live until its handler returns, though its answers are still to come. That
  `drop(task_permit)` never lifts `sem` above `max_parallel` (`TypeOK`) follows.
* `MutexInv`: of all sync handlers and running batches of the receivers of one
  object, there is one. It needs `KindInv` (one object is behind its mutex for all its
  receivers or for none), since a task looks at the kind of its own receiver only.

A panic of a Synchronized task is its poller's: the messages of the queue and of the
task are lost in one step, and `Accounting` holds as lost messages keep their slots.
The steps that move a whole batch have lemmas of their own in `MixedBusProofs`, one
per part of the invariant. `IInv` is no property of a run; added to the INVARIANTS of
`MCBatches.cfg` or `MCObjects.cfg`, TLC finds it holds.

### Relay

`RelayInv` says for every call how far it is (`CallOk`): which context counts it,
that the relay has it, has lost it or has answered it, one of these, and only once
it was sent. With `AnsweredOnce` a message is answered once, so that `fetch_sub`
meets a message that was counted, and `LoopOk` says that the type the event loop is
about to free has a context. `SlotsOk` is `Accounting`, and `Backpressure` in the
form that is inductive: not over the messages in the relay but over the slots kept
for them, permits included.

### RemoteBus

`Shape` says what each channel may contain: items that the side's own calls and
answers make, and on a connection what they serialize to; `RemoteTypes` and
`ProtocolRoundTrip` follow. The proof of the latter found that the operator
`Survives` did not say what becomes of a failed Init that carries an error: two of
its cases overlapped. The cases are now apart.

`NoticeInv`: the last notice the wrapper has not seen, or the flag if it has seen
all, says whether there is a connection. `ReadyIsConnected` is the case of no notice.

`ConservedInv` adds to `Conserved` that in QUIC's `finish` the item held is also on
the connection or went down with it (`Finishing`): the retry after a failed
`finish` then duplicates but does not lose.

`FlushGetsThere` and `MessagesInOrder` are about all that a side has on its way: what
the other side has read, the connections one after the other, the item in the task,
the queue. `ConnInv` says how connections are used: a side has written nothing to
later ones than its `link`, the connections to be read are in the order in which they
were opened, one that is read no more was read to its end, and nothing is written to
it again. On top of it:

* `Lined(s, F)`: nowhere on that way is a label ahead of another that `F` forbids to be
  behind it. No step that only moves things can undo it (`LinedMoves`), a step that
  queues `x` only if `F` forbids something to be ahead of `x` (`LinedPuts`). A message may
  be ahead of itself in one case, QUIC's item that is on a connection and still held.
* `OrderInv`: no message is ahead of one taken before it, and unless QUIC has opened a
  second connection (`Doubles`) none is ahead of itself. The first half of `InOrder`
  follows.
* `SlotsInv`: unless `Doubles`, the slots of a side are at least the plain sends not
  yet read, the tasks of the other side for those read, and the `BatchComplete`s on
  their way back, counted as places in queues. Each step moves one from one count to
  the next. `OrderInv` is needed again: a message that is read was not read before. So
  the counter is never negative.
* `FlushInv`: until the flush of a side is made, no Flush of it, nor an answer, is on any
  way, as long as its event stream still polls; after it, no message that its client
  awaited is behind the Flush, so that when the other side reads it, they were
  read or lost; and the answer comes after that. That there is one flush per side is
  part of `RemoteBusAssumption`: two would merge, and the first answer return both.

### Builder

A receiver is lost when `HashSet::insert` or the union of two sets meets an id
twice, so `IdInv` says that ids come from one `sequence`: the *n*-th receiver made
has id *n*, what the modules and entries hold are receivers made, each in one place,
and an entry holds some only while its module is inside of it. `NewReceiver` and
`MovedReceivers` are the two ways a step can change that. `PollInv` adds that the
list of pollers of a module or of an entry is, without repetition, that of the
receivers it holds; for the module that was built, together with what it has
spawned. It needs `IdInv`: lists are concatenated, and no poller occurs twice only
because no receiver is in two places.

`TableInv` says that the lookup is that of the receivers of the bus from `build` on;
the rest is about the operators: `LookupEntry` and `RequestFound` (an entry holds
whom it should for every combination of response and error asked for),
`SelectAccepting` and `ReachedAccepting`.

### Only model-checked

* `BatchOrder` of `MixedBus`: it is about the concatenation of all batches, and a
  proof about that is an induction over the data. Its `AnswerMatches` is no property of a run.
* Liveness under fairness (`CallsSettle`) is out of the prover's reach.

## 6. What the code does otherwise

* `mix`: `send` ids and slab keys collide (`receiver.rs:297`). A plain send with
  id *n* and a request with slab key *n* at one receiver: the response of the
  send is delivered to the request. `tests/test_relay.rs` mixes both and expects
  each request to get its own answer.
* `chain`: a `Flushed` event clears `need_flush` although a message arrived after
  the Flush action (`receiver.rs:244`). The next round of `flush_all` then skips
  the receiver. `tests/test_concurrency.rs` relies on the equilibrium.
* `idle`: `is_idling()` is read before `notified()` is called
  (`receiver.rs:1043`); `notify_waiters` in between wakes nobody.
  `tests/test_sync.rs` expects `flush_and_sync_all(false)` to return.

Two more lost wake-ups are in passing runs. `CallsSettle` excuses a call at the moment
of each, `MissesReady`, and TLC finds it violated without that:

* `serve`: the event loop calls `ready.notify_waiters()` (`receiver.rs:230`) before it
  stores `ready_flag` (`receiver.rs:231`). A `ready` that creates its future and looks
  at the flag in between is told by neither, and waits for ever.
  `crates/remote/examples/tcp_server.rs:81` goes on only when `b.ready().await` returns.
* `relay`: the same in the wrapper of a relay (`relay.rs:264`, `relay.rs:265`); only a
  connection that breaks and is made again ends the wait.
  `crates/remote/examples/tcp_client.rs:39` waits there.

The models also show behaviour no statement of the repository speaks about. It is
kept as explicit exceptions of the properties, section 3: the counters of a relay,
the event stream that waits for itself, InitFailed that arrives as Ready, QUIC's
second copy, the plain send to a relay for requests, the partial batch that Sync
and Close leave.

## 7. Hazards

`PROJECT.json` lists them at their lines with the properties that cover each, and a
note where a property excuses a behaviour, or a run shows it, rather than excludes it. No
property covers the waiter that `request_deserialize` leaves behind when decoding
fails (`lib.rs:780`) and the give-up of `flush_all` after 32 rounds, which no caller
can tell from success (`lib.rs:165`). Two flushes or syncs of one receiver at a
time are covered only as far as one at a time is.

## 8. What could be added

* Flushes and syncs of one receiver that overlap, which need statements of what merged
  notifications still promise.
* `RemoteBus` with `MixedBus` instead of tasks that just end: too large for TLC
  with a break.

## 9. Running

    tlc -workers 2 -config MCFlow.cfg MCUnorderedBus
    tlc -workers 2 -config MCServe.cfg MCUnorderedBus
    tlc -workers 2 -config MCBatches.cfg MCMixedBus
    tlc -workers 2 -config MCRelay.cfg MCRelay
    tlc -workers 2 -config MCRemote.cfg MCRemoteBus
    tlc -workers 2 -config MCBuild.cfg MCBuilder
    tlapm BusProofs.tla
    tlapm UnorderedBusProofs.tla
    tlapm UnorderedBusRefinement.tla
    tlapm MixedBusProofs.tla
    tlapm MixedBusRefinement.tla
    tlapm RelayProofs.tla
    tlapm RemoteBusProofs.tla
    tlapm BuilderProofs.tla
