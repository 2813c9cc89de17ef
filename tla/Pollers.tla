------------------------------- MODULE Pollers -------------------------------
(***************************************************************************)
(* What the pollers of the Synchronized, BufferUnorderedBatched and        *)
(* SynchronizedBatched receivers have in common: a buffer of messages not  *)
(* yet handed to a task, the tasks spawned, each with the batch it handles *)
(* (of one message for Synchronized), and the tokio Mutex around an object *)
(* that was registered with register_unsync.                               *)
(***************************************************************************)
EXTENDS Mailbox

CONSTANTS Owner,         \* the registered object behind each receiver
          BatchSize,     \* cfg.batch_size of each receiver
          MaxParallel,   \* cfg.max_parallel of each receiver
          Panicking      \* the messages whose handler may panic

ASSUME PollersAssumption ==
  /\ DOMAIN Owner = Receivers
  /\ BatchSize \in [Receivers -> Nat \ {0}]
  /\ MaxParallel \in [Receivers -> Nat \ {0}]
  /\ Panicking \subseteq Messages

VARIABLES kind,      \* the subscribe function r was made with
          poller,    \* where the poller loop of r is
          sem,       \* permits left in its semaphore
          buffer,    \* buffer and buffer_mid of the poller
          batches    \* what each task spawned so far was given, in that order

pollVars == <<kind, poller, sem, buffer, batches>>

\* Behind a mutex, registered with register_unsync; or shared, with register.
SerialKinds == {"synchronized", "synchronized_batched"}
Kinds == SerialKinds \cup {"unordered_batched"}

PollerPlace == {"recv", "await", "spawn", "drain", "flush", "sync", "syncing",
                "ended", "panicked"}

\* All subscriptions of an object are behind its mutex, or none is.
PollInit ==
  /\ kind \in [Receivers -> Kinds]
  /\ \A r, s \in Receivers : Owner[r] = Owner[s] =>
       (kind[r] \in SerialKinds <=> kind[s] \in SerialKinds)
  /\ poller = [r \in Receivers |-> "recv"]
  /\ sem = MaxParallel
  /\ buffer = [r \in Receivers |-> <<>>]
  /\ batches = [r \in Receivers |-> <<>>]

Members(batch) == {batch[i] : i \in DOMAIN batch}
Buffered(r) == Members(buffer[r])
Handling(r) == \E c \in Messages : at[r][c] = "running"

\* ut.lock() of the mutex that r shares with the other receivers of its object.
MutexFree(r) ==
  \A s \in Receivers : Owner[s] = Owner[r] => poller[s] # "syncing" /\ ~Handling(s)

PollerGoes(r, from, to) ==
  /\ poller[r] = from
  /\ poller' = [poller EXCEPT ![r] = to]

MoveAll(r, some, place) ==
  at' = [at EXCEPT ![r] = [c \in Messages |-> IF c \in some THEN place ELSE at[r][c]]]

Waiting(r) == {c \in Messages : at[r][c] = "queued"}

\* The poller panics and drops rx, the queue, its buffer, and fails with "some".
PollerPanics(r, some) ==
  /\ poller' = [poller EXCEPT ![r] = "panicked"]
  /\ rx' = [rx EXCEPT ![r] = "gone"]
  /\ queue' = [queue EXCEPT ![r] = <<>>]
  /\ buffer' = [buffer EXCEPT ![r] = <<>>]
  /\ MoveAll(r, some \cup Waiting(r) \cup Buffered(r), "lost")

\* stx.send(signal).unwrap() in the poller, which then waits for the next item;
\* "rest" is what is left of the queue.
PollerEmits(r, signal, rest) ==
  IF srx[r]
  THEN /\ poller' = [poller EXCEPT ![r] = "recv"]
       /\ events' = [events EXCEPT ![r] = Append(@, signal)]
       /\ queue' = [queue EXCEPT ![r] = rest]
       /\ UNCHANGED <<at, rx, buffer>>
  ELSE PollerPanics(r, {}) /\ UNCHANGED events

Upcoming(r, item) == queue[r] # <<>> /\ Incoming(r) = item

---------------------------------------------------------------------------
\* Action::Init is answered by Ready.
PollInitAction(r) ==
  /\ poller[r] = "recv"
  /\ Upcoming(r, "Init")
  /\ PollerEmits(r, "Ready", Tail(queue[r]))
  /\ UNCHANGED <<srx, kind, sem, batches>>

\* Action::Close: rx.close(), after which sends fail and what is queued drains.
PollClose(r) ==
  /\ poller[r] = "recv"
  /\ Receive(r)
  /\ Incoming(r) = "Close"
  /\ rx' = [rx EXCEPT ![r] = "closed"]
  /\ UNCHANGED <<at, events, srx, pollVars>>

\* MUTANT: the poller leaves its loop at Action::Close.
EndPollerUndrained(r) ==
  /\ PollerGoes(r, "recv", "ended")
  /\ rx[r] = "closed"
  /\ rx' = [rx EXCEPT ![r] = "gone"]
  /\ buffer' = [buffer EXCEPT ![r] = <<>>]
  /\ MoveAll(r, Buffered(r), "lost")
  /\ UNCHANGED <<queue, events, srx, kind, sem, batches>>

\* rx.recv() returns None: the poller ends and drops a batch not yet full.
EndPoller(r) ==
  /\ PollerGoes(r, "recv", "ended")
  /\ rx[r] = "closed"
  /\ queue[r] = <<>>
  /\ rx' = [rx EXCEPT ![r] = "gone"]
  /\ buffer' = [buffer EXCEPT ![r] = <<>>]
  /\ MoveAll(r, Buffered(r), "lost")
  /\ UNCHANGED <<queue, events, srx, kind, sem, batches>>

\* buffer_mid.push, buffer.push
Buffer(r) ==
  /\ Receive(r)
  /\ Incoming(r) \in Messages
  /\ buffer' = [buffer EXCEPT ![r] = Append(@, Incoming(r))]
  /\ Move(r, Incoming(r), "held")

\* MUTANT: the buffers are cloned, not drained.
SpawnBatchUndrained(r, batch) ==
  /\ batches' = [batches EXCEPT ![r] = Append(@, batch)]
  /\ buffer' = [buffer EXCEPT ![r] = batch]

\* Both buffers are drained into a task.
SpawnBatch(r, batch) ==
  /\ batches' = [batches EXCEPT ![r] = Append(@, batch)]
  /\ buffer' = [buffer EXCEPT ![r] = <<>>]

---------------------------------------------------------------------------
(* A task, by its batch.                                                   *)

\* MUTANT: the task does not lock the object.
HandlerStartsUnlocked(r, batch) ==
  /\ \A c \in Members(batch) : at[r][c] = "held"
  /\ MoveAll(r, Members(batch), "running")
  /\ UNCHANGED <<queue, rx, events, srx, pollVars>>

\* The task calls the handler, once it has the mutex if there is one.
HandlerStarts(r, batch) ==
  /\ \A c \in Members(batch) : at[r][c] = "held"
  /\ kind[r] \in SerialKinds => MutexFree(r)
  /\ MoveAll(r, Members(batch), "running")
  /\ UNCHANGED <<queue, rx, events, srx, pollVars>>

\* drop(task_permit), in the receivers that have a semaphore.
FreePermit(r) ==
  sem' = IF kind[r] = "unordered_batched" THEN [sem EXCEPT ![r] = @ + 1] ELSE sem

\* The handler returns; the mutex or the task permit is given back.
HandlerReturns(r, batch) ==
  /\ \A c \in Members(batch) : at[r][c] = "running"
  /\ MoveAll(r, Members(batch), "handled")
  /\ FreePermit(r)
  /\ UNCHANGED <<queue, rx, events, srx, kind, poller, buffer, batches>>

Unreported(r, batch) == {i \in DOMAIN batch : at[r][batch[i]] = "handled"}

\* process_batch_result sends one Response per message, in the order of the
\* batch, whatever the handler returned: a result, NoResponse when there are too
\* few, its error.  Without an event loop the task panics at the first.
Respond(r, batch) ==
  \E i \in Unreported(r, batch) :
    /\ \A j \in Unreported(r, batch) : i <= j
    /\ IF srx[r]
       THEN /\ events' = [events EXCEPT ![r] = Append(@, batch[i])]
            /\ Move(r, batch[i], "answered")
       ELSE /\ MoveAll(r, {batch[j] : j \in Unreported(r, batch)}, "lost")
            /\ UNCHANGED events
    /\ UNCHANGED <<queue, rx, srx, pollVars>>

\* The handler panics: the task unwinds with its batch and answers nothing.
HandlerPanics(r, batch) ==
  /\ Members(batch) \cap Panicking # {}
  /\ \A c \in Members(batch) : at[r][c] = "running"
  /\ MoveAll(r, Members(batch), "lost")
  /\ FreePermit(r)
  /\ UNCHANGED <<queue, rx, events, srx, kind, poller, buffer, batches>>

PollTypeOK ==
  /\ kind \in [Receivers -> Kinds]
  /\ poller \in [Receivers -> PollerPlace]
  /\ sem \in [Receivers -> Nat]
  /\ \A r \in Receivers : sem[r] <= MaxParallel[r]
  /\ buffer \in [Receivers -> Seq(Messages)]
  /\ batches \in [Receivers -> Seq(Seq(Messages))]
=============================================================================
