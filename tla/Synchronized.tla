---------------------------- MODULE Synchronized ----------------------------
(***************************************************************************)
(* The poller of SynchronizedAsync and SynchronizedSync: it spawns a task  *)
(* per message and awaits it, so it is Flush-clean whenever it receives.   *)
(* JoinHandle::await().unwrap() carries a panic of the task to the poller. *)
(***************************************************************************)
EXTENDS Pollers

\* The batch of the task the poller awaits.
Current(r) == batches[r][Len(batches[r])]

\* MUTANT: the JoinHandle of the task is not awaited.
TakeMessageUnawaited(r) ==
  /\ PollerGoes(r, "recv", "recv")
  /\ Receive(r)
  /\ Incoming(r) \in Messages
  /\ Move(r, Incoming(r), "held")
  /\ batches' = [batches EXCEPT ![r] = Append(@, <<Incoming(r)>>)]
  /\ UNCHANGED <<rx, events, srx, kind, sem, buffer>>

\* Request::Request: a task is spawned and awaited.
TakeMessage(r) ==
  /\ PollerGoes(r, "recv", "await")
  /\ Receive(r)
  /\ Incoming(r) \in Messages
  /\ Move(r, Incoming(r), "held")
  /\ batches' = [batches EXCEPT ![r] = Append(@, <<Incoming(r)>>)]
  /\ UNCHANGED <<rx, events, srx, kind, sem, buffer>>

\* The task sends its Response and is joined; it and the poller panic if the
\* event loop is gone.
TaskEnds(r) ==
  /\ poller[r] = "await"
  /\ Unreported(r, Current(r)) # {}
  /\ IF srx[r]
     THEN /\ poller' = [poller EXCEPT ![r] = "recv"]
          /\ events' = [events EXCEPT ![r] = Append(@, Current(r)[1])]
          /\ Move(r, Current(r)[1], "answered")
          /\ UNCHANGED <<queue, rx, buffer>>
     ELSE PollerPanics(r, Members(Current(r))) /\ UNCHANGED events
  /\ UNCHANGED <<srx, kind, sem, batches>>

\* The handler panics: so does the poller that awaits its task.
TaskPanics(r) ==
  /\ poller[r] = "await"
  /\ Members(Current(r)) \subseteq Panicking
  /\ \A c \in Members(Current(r)) : at[r][c] = "running"
  /\ PollerPanics(r, Members(Current(r)))
  /\ UNCHANGED <<events, srx, kind, sem, batches>>

\* Action::Flush: nothing is under way, Flushed is sent at once.
FlushAtOnce(r) ==
  /\ poller[r] = "recv"
  /\ Upcoming(r, "Flush")
  /\ PollerEmits(r, "Flushed", Tail(queue[r]))
  /\ UNCHANGED <<srx, kind, sem, batches>>

\* Action::Sync: the poller waits for the mutex of the object ...
AwaitMutex(r) ==
  /\ PollerGoes(r, "recv", "sync")
  /\ Receive(r)
  /\ Incoming(r) = "Sync"
  /\ UNCHANGED <<at, rx, events, srx, kind, sem, buffer, batches>>

\* ... calls the sync handler with it ...
SyncLocked(r) ==
  /\ PollerGoes(r, "sync", "syncing")
  /\ MutexFree(r)
  /\ UNCHANGED <<mailVars, kind, sem, buffer, batches>>

\* ... and sends Synchronized.
SyncReturns(r) ==
  /\ poller[r] = "syncing"
  /\ PollerEmits(r, "Synchronized", queue[r])
  /\ UNCHANGED <<srx, kind, sem, batches>>

SynchronizedStep(r) ==
  \/ TakeMessage(r) \/ TaskEnds(r) \/ FlushAtOnce(r)
  \/ AwaitMutex(r) \/ SyncLocked(r) \/ SyncReturns(r)
=============================================================================
