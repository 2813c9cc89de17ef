---------------------------- MODULE UnorderedBus ----------------------------
(***************************************************************************)
(* A bus all of whose receivers are BufferUnordered ones: the calls of the *)
(* clients, the event loops of the wrappers and the pollers with their     *)
(* tasks, running side by side.                                            *)
(***************************************************************************)
EXTENDS Bus, BufferUnordered

outsidePoller == <<wrapperVars, loop, busVars>>
vars == <<mailVars, pollVars, wrapperVars, loop, busVars>>

Init ==
  /\ MailInit
  /\ PollInit
  /\ WrapperInit
  /\ BusInit

\* A client, or a handler, makes a call.
Make(c) ==
  /\ \/ c \in Messages /\ (StartSend(c) \/ StartRequest(c))
     \/ c \in Controls /\ (StartControl(c) \/ StartClose(c))
  /\ UNCHANGED <<pollVars, loop>>

\* A client drops the future of a request.
Drop(c) ==
  /\ c \in Messages
  /\ Abandon(c)
  /\ UNCHANGED <<pollVars, loop>>

\* A call that was made goes on.
Call(c) ==
  /\ \/ c \in Messages /\ MessageStep(c)
     \/ c \in Controls /\ ControlStep(c)
  /\ UNCHANGED <<pollVars, loop>>

\* The 20 seconds of a close are over.
Timer(c) ==
  /\ c \in Controls
  /\ TimeOut(c)
  /\ UNCHANGED <<pollVars, loop>>

EventLoop(r) == LoopStep(r) /\ UNCHANGED <<pollVars, busVars>>

Poller(r) == PollerStep(r) /\ UNCHANGED outsidePoller

\* A handler returns when the calls it makes have returned.
Task(r, c) ==
  /\ \/ /\ \A d \in Calls : <<r, c>> \in Inside[d] => pc[d] = "done"
        /\ HandlerReturns(r, c)
     \/ Respond(r, c)
  /\ UNCHANGED outsidePoller

Panic(r, c) == HandlerPanics(r, c) /\ UNCHANGED outsidePoller

\* Every call that can still be made has been made and has returned.
Finished ==
  /\ \A c \in Calls : \/ pc[c] = "done"
                      \/ Inside[c] # {} /\ ~MayStart(c)
  /\ UNCHANGED vars

Next ==
  \/ \E c \in Calls : Make(c) \/ Call(c) \/ Drop(c) \/ Timer(c)
  \/ \E r \in Receivers : EventLoop(r) \/ Poller(r)
  \/ \E r \in Receivers, c \in Messages : Task(r, c) \/ Panic(r, c)
  \/ Finished

\* What runs on the tokio runtime, the calls handlers make included.
Runtime ==
  \/ \E c \in Calls : Call(c) \/ (Inside[c] # {} /\ Make(c))
  \/ \E r \in Receivers : EventLoop(r) \/ Poller(r)
  \/ \E r \in Receivers, c \in Messages : Task(r, c)

\* The runtime does not stop while a task of it can go on, and handlers return.
\* Nobody is obliged to make a call, to drop one, to panic, or to wait 20 s.
Fairness == WF_vars(Runtime)

Spec == Init /\ [][Next]_vars /\ Fairness

---------------------------------------------------------------------------
(* Properties. *)

\* Every variable holds a value of its type.
TypeOK ==
  /\ MailTypeOK
  /\ PollTypeOK
  /\ WrapperTypeOK
  /\ BusTypeOK

Tasks(r) == Copies(r, {"running"})

\* A try_send that took a slot of r and found a later receiver full: permit_drop
\* gives the slot back and notifies nobody.
GaveBackQuietly(r) ==
  \E c \in Messages :
    /\ Op[c] = "try_send"
    /\ pc[c] = "drop" \/ outcome[c] = "full"
    /\ \E i \in DOMAIN Route[c] : Route[c][i] = r /\ at[r][c] = "none"

\* A call that took the notification of r, or found a slot, and is about to act.
AboutToReserve(r) ==
  \E c \in Messages : At(c) = r /\ Op[c] # "try_send" /\ Reserving(c)

\* No call is parked in reserve at a receiver without a message in flight, unless
\* the event loop is about to notify it or another call will: merged and stored
\* notifications lose nobody.  The one exception is a slot that a failed try_send
\* gave back: permit_drop does not notify.
NoStrandedSender ==
  \A r \in Receivers :
    /\ processing[r] = 0
    /\ \E c \in Messages : IsParked(notify[r].response, c)
    => \/ loop[r] \in {"idle", "response"}
       \/ AboutToReserve(r)
       \/ GaveBackQuietly(r)

\* A message sent before the flush began has been handled at every receiver of
\* the flush once flush returns (flush_all and flush, without the fuse).
FlushCovers ==
  \A f \in Controls : Op[f] = "flush" /\ outcome[f] = "ok" =>
    \A i \in DOMAIN Route[f], m \in before[f] :
      at[Route[f][i]][m] \notin {"queued", "held", "running"}

\* A message sent before a sync began has been handled once sync returns.
SyncCovers ==
  \A s \in Controls : Op[s] = "sync" /\ outcome[s] = "ok" =>
    \A i \in DOMAIN Route[s], m \in before[s] :
      at[Route[s][i]][m] \notin {"queued", "held", "running"}

\* The sync handler runs alone, whatever the clients send meanwhile.
SyncExclusive ==
  \A r \in Receivers : poller[r] = "syncing" => Tasks(r) = {}

\* At most max_parallel handlers of a receiver run at a time.
ParallelBound ==
  \A r \in Receivers : Cardinality(Tasks(r)) <= MaxParallel[r]

\* What flush_all is used for: when it returns, the messages sent before it and
\* those their handlers sent have all been handled.
FlushEquilibrium ==
  \A f \in Controls : Op[f] = "flush" /\ outcome[f] = "ok" =>
    \A r \in Receivers, m \in Messages :
      (\E h \in Inside[m] : h[2] \in before[f]) =>
        at[r][m] \notin {"queued", "held", "running"}

\* When close returns, nothing any receiver accepted is under way, except at those
\* it or an earlier close gave up after 20 seconds and those whose poller has
\* panicked, which refuse the Close and are passed over.
CloseDrains ==
  \A c \in Controls : Op[c] = "close" /\ pc[c] = "done" =>
    \A i \in DOMAIN Route[c] :
      ~GivenUp(Route[c][i]) /\ poller[Route[c][i]] # "panicked" =>
        Copies(Route[c][i], {"queued", "held", "running", "handled", "answered"}) = {}

\* Every call returns: no client waits for ever.
CallsReturn == \A c \in Calls : pc[c] # "start" ~> pc[c] = "done"

\* A ready that registers after the event loop has notified Ready, and looks at
\* the flag before it is set.
MissesReady(c) ==
  /\ Op[c] = "ready"
  /\ pc[c] = "recheck"
  /\ loop[At(c)] = "ready"
  /\ c \in listening[At(c)].ready

\* An idle that has seen a message in flight, and registers after the event loop
\* has handled the last response and notified.
MissesIdle(c) ==
  /\ Op[c] = "idle"
  /\ pc[c] = "register"
  /\ processing[At(c)] = 0
  /\ loop[At(c)] # "idle"

\* Every call returns, but for a ready or an idle whose own registration misses
\* the notification it waits for: one registered earlier is woken, a later one
\* sees the flag or the counter, and no slot, answer, flush or sync is forgotten.
CallsSettle ==
  \A c \in Calls : <>(pc[c] # "start") =>
    <>(pc[c] = "done" \/ MissesReady(c) \/ MissesIdle(c))

---------------------------------------------------------------------------
(* The inductive invariant behind Accounting, Backpressure, ParallelBound  *)
(* and SyncExclusive.                                                      *)

\* The permits of the semaphore and the running tasks add up to max_parallel.
SemaphoreInv ==
  \A r \in Receivers :
    IF poller[r] = "syncing"
    THEN sem[r] = 0 /\ Tasks(r) = {}
    ELSE sem[r] + Cardinality(Tasks(r)) = MaxParallel[r]

\* What every step of send, try_send, the pollers and the event loops keeps: the
\* counters processing and semaphore agree with the messages on their way, and a
\* message is in a channel exactly as its copy says, once.
IInv ==
  /\ TypeOK
  /\ Visiting
  /\ ChannelInv
  /\ RouteInv
  /\ Accounting
  /\ Backpressure
  /\ SemaphoreInv

---------------------------------------------------------------------------
(* The contract of a receiver.  What the poller has received but not acted *)
(* on yet is still in the inbox of the contract.                           *)

Pending(r) ==
  CASE poller[r] = "acquire" -> <<CHOOSE c \in Messages : at[r][c] = "held">>
    [] poller[r] = "flush"   -> <<"Flush">>
    [] poller[r] = "sync"    -> <<"Sync">>
    [] OTHER                 -> <<>>

stage == [r \in Receivers |-> [c \in Messages |->
           IF at[r][c] = "held" THEN "queued" ELSE at[r][c]]]
inbox == [r \in Receivers |-> Pending(r) \o queue[r]]
inSync == {r \in Receivers : poller[r] = "syncing"}

Contract == INSTANCE ReceiverContract WITH
  Fragile <- {}, at <- stage, queue <- inbox, busy <- inSync

\* BufferUnordered keeps the contract: FIFO start, one answer per message, and
\* Flushed, Synchronized and the end of the stream as barriers.
KeepsContract == Contract!Spec
=============================================================================
