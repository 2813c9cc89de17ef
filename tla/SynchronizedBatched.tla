------------------------- MODULE SynchronizedBatched -------------------------
(***************************************************************************)
(* The poller of SynchronizedBatchedAsync and SynchronizedBatchedSync: a   *)
(* task per batch that waits for the mutex of the object.  The poller      *)
(* awaits none of them: Flush hands over and does not wait, and Sync       *)
(* competes for the mutex with the batches spawned before it.              *)
(***************************************************************************)
EXTENDS Pollers

\* Request::Request: the message that fills the batch sends it off.
CollectMessage(r) ==
  /\ PollerGoes(r, "recv", "recv")
  /\ Receive(r)
  /\ Incoming(r) \in Messages
  /\ Move(r, Incoming(r), "held")
  /\ IF Len(buffer[r]) + 1 >= BatchSize[r]
     THEN SpawnBatch(r, Append(buffer[r], Incoming(r)))
     ELSE /\ buffer' = [buffer EXCEPT ![r] = Append(@, Incoming(r))]
          /\ UNCHANGED batches
  /\ UNCHANGED <<rx, events, srx, kind, sem>>

\* MUTANT: Flushed is sent, the partial batch stays.
HandOverNothing(r) ==
  /\ poller[r] = "recv"
  /\ Upcoming(r, "Flush")
  /\ PollerEmits(r, "Flushed", Tail(queue[r]))
  /\ UNCHANGED <<srx, kind, sem, batches>>

\* Action::Flush: a partial batch becomes a task, Flushed is sent at once.  The
\* poller that cannot send it panics, and the task goes on without it.
HandOver(r) ==
  /\ poller[r] = "recv"
  /\ Upcoming(r, "Flush")
  /\ batches' = IF buffer[r] = <<>> THEN batches
                                    ELSE [batches EXCEPT ![r] = Append(@, buffer[r])]
  /\ buffer' = [buffer EXCEPT ![r] = <<>>]
  /\ IF srx[r]
     THEN /\ events' = [events EXCEPT ![r] = Append(@, "Flushed")]
          /\ queue' = [queue EXCEPT ![r] = Tail(@)]
          /\ UNCHANGED <<at, rx, poller>>
     ELSE /\ poller' = [poller EXCEPT ![r] = "panicked"]
          /\ rx' = [rx EXCEPT ![r] = "gone"]
          /\ queue' = [queue EXCEPT ![r] = <<>>]
          /\ MoveAll(r, Waiting(r), "lost")
          /\ UNCHANGED events
  /\ UNCHANGED <<srx, kind, sem>>

\* Action::Sync waits for the mutex like a batch ...
Compete(r) ==
  /\ PollerGoes(r, "recv", "sync")
  /\ Receive(r)
  /\ Incoming(r) = "Sync"
  /\ UNCHANGED <<at, rx, events, srx, kind, sem, buffer, batches>>

\* ... calls the sync handler with it ...
SyncWins(r) ==
  /\ PollerGoes(r, "sync", "syncing")
  /\ MutexFree(r)
  /\ UNCHANGED <<mailVars, kind, sem, buffer, batches>>

\* ... and sends Synchronized.
SyncUnlocks(r) ==
  /\ poller[r] = "syncing"
  /\ PollerEmits(r, "Synchronized", queue[r])
  /\ UNCHANGED <<srx, kind, sem, batches>>

SynchronizedBatchedStep(r) ==
  \/ CollectMessage(r) \/ HandOver(r)
  \/ Compete(r) \/ SyncWins(r) \/ SyncUnlocks(r)
=============================================================================
