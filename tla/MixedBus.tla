------------------------------- MODULE MixedBus -------------------------------
(***************************************************************************)
(* A bus whose receivers are of the three kinds UnorderedBus has not: each *)
(* is Synchronized, BufferUnorderedBatched or SynchronizedBatched, and     *)
(* receivers of one object may share its mutex.                            *)
(***************************************************************************)
EXTENDS Bus, Synchronized, BufferUnorderedBatched, SynchronizedBatched, SequencesExt

VARIABLE accepted   \* history: what the queue of r took, in that order

outsidePoller == <<wrapperVars, loop, busVars, accepted>>
vars == <<mailVars, pollVars, wrapperVars, loop, busVars, accepted>>

Init ==
  /\ MailInit
  /\ PollInit
  /\ WrapperInit
  /\ BusInit
  /\ accepted = [r \in Receivers |-> <<>>]

\* A client, or a handler, makes a call.
Make(c) ==
  /\ \/ c \in Messages /\ (StartSend(c) \/ StartRequest(c))
     \/ c \in Controls /\ (StartControl(c) \/ StartClose(c))
  /\ UNCHANGED <<pollVars, loop, accepted>>

\* A client drops the future of a request.
Drop(c) ==
  /\ c \in Messages
  /\ Abandon(c)
  /\ UNCHANGED <<pollVars, loop, accepted>>

\* A call that was made goes on.
Call(c) ==
  /\ \/ c \in Messages /\ MessageStep(c)
     \/ c \in Controls /\ ControlStep(c)
  /\ accepted' = IF pc[c] = "send" /\ rx[At(c)] = "open"
                 THEN [accepted EXCEPT ![At(c)] = Append(@, c)] ELSE accepted
  /\ UNCHANGED <<pollVars, loop>>

\* The 20 seconds of a close are over.
Timer(c) ==
  /\ c \in Controls
  /\ TimeOut(c)
  /\ UNCHANGED <<pollVars, loop, accepted>>

EventLoop(r) == LoopStep(r) /\ UNCHANGED <<pollVars, busVars, accepted>>

Poller(r) ==
  /\ \/ PollInitAction(r) \/ PollClose(r) \/ EndPoller(r)
     \/ kind[r] = "synchronized" /\ SynchronizedStep(r)
     \/ kind[r] = "unordered_batched" /\ UnorderedBatchedStep(r)
     \/ kind[r] = "synchronized_batched" /\ SynchronizedBatchedStep(r)
  /\ UNCHANGED outsidePoller

\* The calls made from the handlers of a batch have returned.
HandlersDone(r, batch) ==
  \A d \in Calls, c \in Members(batch) : <<r, c>> \in Inside[d] => pc[d] = "done"

\* A task goes on.  That of a Synchronized receiver ends with its poller's await.
Task(r, batch) ==
  /\ \/ HandlerStarts(r, batch)
     \/ HandlersDone(r, batch) /\ HandlerReturns(r, batch)
     \/ kind[r] # "synchronized" /\ Respond(r, batch)
  /\ UNCHANGED outsidePoller

Panic(r, batch) ==
  /\ IF kind[r] = "synchronized" THEN TaskPanics(r) ELSE HandlerPanics(r, batch)
  /\ UNCHANGED outsidePoller

\* Every call that can still be made has been made and has returned.
Finished ==
  /\ \A c \in Calls : \/ pc[c] = "done"
                      \/ Inside[c] # {} /\ ~MayStart(c)
  /\ UNCHANGED vars

Next ==
  \/ \E c \in Calls : Make(c) \/ Call(c) \/ Drop(c) \/ Timer(c)
  \/ \E r \in Receivers : EventLoop(r) \/ Poller(r)
  \/ \E r \in Receivers : \E i \in DOMAIN batches[r] :
       Task(r, batches[r][i]) \/ Panic(r, batches[r][i])
  \/ Finished

\* What runs on the tokio runtime, the calls handlers make included.
Runtime ==
  \/ \E c \in Calls : Call(c) \/ (Inside[c] # {} /\ Make(c))
  \/ \E r \in Receivers : EventLoop(r) \/ Poller(r)
  \/ \E r \in Receivers : \E i \in DOMAIN batches[r] : Task(r, batches[r][i])

\* As in UnorderedBus: the runtime goes on while something in it can.
Fairness == WF_vars(Runtime)

Spec == Init /\ [][Next]_vars /\ Fairness

---------------------------------------------------------------------------
(* Properties. *)

\* Every variable holds a value of its type.
TypeOK ==
  /\ MailTypeOK
  /\ PollTypeOK
  /\ WrapperTypeOK
  /\ BusTypeOK
  /\ accepted \in [Receivers -> Seq(Messages)]

\* The batches of a receiver, the buffer and the queue behind them are what its
\* queue took, in that order, none twice and none left out; only the end of the
\* poller loses some, and unless it panics fewer than a batch.
BatchOrder ==
  \A r \in Receivers :
    LET kept == FlattenSeq(batches[r]) \o buffer[r]
                \o SelectSeq(queue[r], LAMBDA item : item \in Messages)
    IN  /\ IsPrefix(kept, accepted[r])
        /\ rx[r] # "gone" => kept = accepted[r]
        /\ poller[r] = "ended" => Len(accepted[r]) - Len(kept) < BatchSize[r]
        /\ Len(buffer[r]) <= BatchSize[r]

\* When flush returns, what was sent before it is not in a queue or a buffer any
\* more, and but for SynchronizedBatched its handler has returned.
FlushCovers ==
  \A f \in Controls : Op[f] = "flush" /\ outcome[f] = "ok" =>
    \A i \in DOMAIN Route[f] : LET r == Route[f][i] IN
      \A m \in before[f] :
        /\ at[r][m] # "queued"
        /\ m \notin Buffered(r)
        /\ kind[r] # "synchronized_batched" => at[r][m] \notin {"held", "running"}

\* When sync returns, what was sent before it has left the queue and all but a
\* batch that was not full has been handled; with SynchronizedBatched any task
\* may have lost the race for the mutex.
SyncCovers ==
  \A s \in Controls : Op[s] = "sync" /\ outcome[s] = "ok" =>
    \A i \in DOMAIN Route[s] : LET r == Route[s][i] IN
      /\ \A m \in before[s] : at[r][m] # "queued"
      /\ kind[r] # "synchronized_batched" =>
           Cardinality(before[s] \cap Copies(r, {"held", "running"})) < BatchSize[r]

\* A sync handler runs alone: no handler of the same receiver runs, nor of any
\* receiver behind the same mutex.
SyncExclusive ==
  \A r, s \in Receivers : poller[r] = "syncing" =>
    /\ ~Handling(r)
    /\ kind[r] \in SerialKinds /\ Owner[s] = Owner[r] => ~Handling(s)

\* One handler at a time on an object behind a mutex, whichever of its receivers
\* and tasks asks; the batches of an object that is shared stay in bounds.
OneHandlerPerObject ==
  /\ \A r, s \in Receivers : \A i \in DOMAIN batches[r], j \in DOMAIN batches[s] :
       /\ kind[r] \in SerialKinds /\ Owner[r] = Owner[s]
       /\ at[r][batches[r][i][1]] = "running" /\ at[s][batches[s][j][1]] = "running"
       => r = s /\ i = j
  /\ \A r \in Receivers : kind[r] = "unordered_batched" =>
       Cardinality({i \in DOMAIN batches[r] : at[r][batches[r][i][1]] = "running"})
         <= MaxParallel[r]

\* A Synchronized receiver handles one message at a time to its end: none is
\* begun before the one accepted before it has been answered, or died.
OneByOne ==
  \A r \in Receivers : kind[r] = "synchronized" =>
    \A i \in DOMAIN accepted[r], j \in DOMAIN accepted[r] :
      i < j /\ at[r][accepted[r][j]] \notin {"queued", "lost"} =>
        at[r][accepted[r][i]] \in {"answered", "answering", "done", "lost"}

\* When close returns, nothing any receiver accepted is under way, also not in a
\* task that waited for the mutex when the poller ended, except at those it or an
\* earlier close gave up and those whose poller has panicked.
CloseDrains ==
  \A c \in Controls : Op[c] = "close" /\ pc[c] = "done" =>
    \A i \in DOMAIN Route[c] :
      ~GivenUp(Route[c][i]) /\ poller[Route[c][i]] # "panicked" =>
        Copies(Route[c][i], {"queued", "held", "running", "handled", "answered"}) = {}

\* Call c waits for what only the end of its own handler can give: a slot of that
\* handler's receiver, all of them taken by it and by messages behind it, or its
\* turn at a receiver of the same object, whose mutex the handler has.
WaitsForItself(c) ==
  /\ pc[c] # "done"
  /\ Copies(At(c), {"handled", "answered", "answering"}) = {}
  /\ \E h \in Inside[c] :
       /\ at[h[1]][h[2]] = "running"
       /\ \/ At(c) = h[1] /\ Full(h[1]) /\ at[h[1]][c] = "none"
          \/ Owner[At(c)] = Owner[h[1]] /\ kind[h[1]] \in SerialKinds

\* Every call returns in the end, but for one that waits for its own handler: it
\* keeps nobody else waiting, and a batch fills and is answered as a whole.
CallsSettle ==
  \A c \in Calls : <>[](pc[c] \in {"start", "done"} \/ WaitsForItself(c))

---------------------------------------------------------------------------
(* The inductive invariant behind TypeOK, Accounting, SyncExclusive,       *)
(* OneHandlerPerObject and OneByOne.                                       *)

\* Where the copy of a message can be once a task has it.
InTask == {"held", "running", "handled", "answered", "answering", "done", "lost"}

\* All receivers of an object are behind its mutex, or none is.
KindInv == \A r, s \in Receivers : Owner[r] = Owner[s] =>
  (kind[r] \in SerialKinds <=> kind[s] \in SerialKinds)

\* What a poller keeps back is held; a Synchronized poller keeps nothing back and
\* awaits the task of the only message that it has received and not reported.
PollerInv(r) ==
  /\ \A c \in Buffered(r) : at[r][c] = "held"
  /\ poller[r] \in {"spawn", "drain"} => buffer[r] # <<>>
  /\ poller[r] = "await" => kind[r] = "synchronized" /\ batches[r] # <<>>
  /\ kind[r] = "synchronized" =>
       /\ buffer[r] = <<>>
       /\ \A i \in DOMAIN batches[r] : Len(batches[r][i]) = 1
       /\ \A c \in Messages : at[r][c] \in {"held", "running", "handled"} =>
            poller[r] = "await" /\ Current(r) = <<c>>

\* No message is in two batches, or in one and the buffer; and a batch is held,
\* and run, as a whole.
BatchInv(r) ==
  \A i \in DOMAIN batches[r] :
    /\ batches[r][i] # <<>>
    /\ \A c \in Members(batches[r][i]) :
         /\ at[r][c] \in InTask
         /\ c \notin Buffered(r)
         /\ \A j \in DOMAIN batches[r] : c \in Members(batches[r][j]) => j = i
         /\ \A d \in Members(batches[r][i]) :
              at[r][c] \in {"held", "running"} => at[r][d] = at[r][c]

\* What runs, runs in a task.
TaskInv(r) ==
  \A c \in Messages : at[r][c] = "running" =>
    \E i \in DOMAIN batches[r] : c \in Members(batches[r][i])

\* The tasks of r whose handler has not returned: they own a task permit, if r is
\* a receiver that has them.
Live(r) ==
  {i \in DOMAIN batches[r] : at[r][batches[r][i][1]] \in {"held", "running"}}

SemaphoreInv(r) ==
  IF kind[r] # "unordered_batched" THEN sem[r] = MaxParallel[r]
  ELSE IF poller[r] = "syncing" THEN sem[r] = 0 /\ Live(r) = {}
  ELSE sem[r] + Cardinality(Live(r)) = MaxParallel[r]

\* What is queued is in the queue, in the order in which it was accepted.
OrderInv(r) ==
  /\ \A i, j \in DOMAIN accepted[r] : accepted[r][i] = accepted[r][j] => i = j
  /\ \A i \in DOMAIN accepted[r] : at[r][accepted[r][i]] \in InTask \cup {"queued"}
  /\ \A c \in Messages : at[r][c] = "queued" => \E k \in DOMAIN queue[r] : queue[r][k] = c
  /\ \A k \in DOMAIN queue[r] : queue[r][k] \in Messages =>
       \E i \in DOMAIN accepted[r] :
         /\ accepted[r][i] = queue[r][k]
         /\ \A l \in DOMAIN queue[r], j \in DOMAIN accepted[r] :
              l > k /\ accepted[r][j] = queue[r][l] => j > i

\* The mutex of an object: of the sync handlers and the handlers of batches, of
\* all its receivers, only one runs.
MutexInv ==
  \A r, s \in Receivers : Owner[r] = Owner[s] /\ kind[r] \in SerialKinds =>
    /\ poller[r] = "syncing" => ~Handling(s)
    /\ \A c, d \in Messages : at[r][c] = "running" /\ at[s][d] = "running" =>
         /\ r = s
         /\ \E i \in DOMAIN batches[r] :
              c \in Members(batches[r][i]) /\ d \in Members(batches[r][i])

\* Every copy of a message is in exactly one pair of hands (its call, the queue,
\* the poller's buffer, one batch, the event channel), and the slots, the task
\* permits and the mutexes are those that the hands account for.
IInv ==
  /\ TypeOK
  /\ Visiting
  /\ ChannelInv
  /\ RouteInv
  /\ Accounting
  /\ Backpressure
  /\ KindInv
  /\ MutexInv
  /\ \A r \in Receivers : /\ PollerInv(r)
                          /\ BatchInv(r)
                          /\ TaskInv(r)
                          /\ SemaphoreInv(r)
                          /\ OrderInv(r)
  /\ OneByOne

---------------------------------------------------------------------------
(* The contract of a receiver, for the Synchronized ones; the others are   *)
(* kept in their initial state.  A message is begun when its task has the  *)
(* mutex, and a handler that panics takes the receiver with it.            *)

Serial(r) == kind[r] = "synchronized"

Pending(r) ==
  CASE poller[r] = "sync" -> <<"Sync">>
    [] poller[r] = "await" /\ Copies(r, {"held"}) # {} -> Current(r)
    [] OTHER -> <<>>

stage == [r \in Receivers |-> [c \in Messages |->
           IF ~Serial(r) THEN "none"
           ELSE IF at[r][c] = "held" THEN "queued" ELSE at[r][c]]]
inbox == [r \in Receivers |-> IF Serial(r) THEN Pending(r) \o queue[r] ELSE <<"Init">>]
inboxEnd == [r \in Receivers |-> IF Serial(r) THEN rx[r] ELSE "open"]
outbox == [r \in Receivers |-> IF Serial(r) THEN events[r] ELSE <<>>]
outboxEnd == [r \in Receivers |-> Serial(r) => srx[r]]
inSync == {r \in Receivers : Serial(r) /\ poller[r] = "syncing"}

Contract == INSTANCE ReceiverContract WITH
  Fragile <- Receivers, at <- stage, queue <- inbox, rx <- inboxEnd,
  events <- outbox, srx <- outboxEnd, busy <- inSync

\* Synchronized keeps the contract of a receiver, with its sync handler and its
\* handlers behind one mutex and none of the permits BufferUnordered has.
KeepsContract == Contract!Spec
=============================================================================
