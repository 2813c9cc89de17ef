----------------------- MODULE BufferUnorderedBatched -----------------------
(***************************************************************************)
(* The poller of BufferUnorderedBatchedAsync and BufferUnorderedBatchedSync: *)
(* a task per full batch under a semaphore, and Flush, which sends a batch *)
(* that is not full as well and then waits for every task.                 *)
(***************************************************************************)
EXTENDS Pollers

\* Request::Request: the message is buffered; a full batch needs a task permit.
BufferMessage(r) ==
  /\ PollerGoes(r, "recv", IF Len(buffer[r]) + 1 >= BatchSize[r] THEN "spawn" ELSE "recv")
  /\ Buffer(r)
  /\ UNCHANGED <<rx, events, srx, kind, sem, batches>>

\* MUTANT: the permit is dropped where it was acquired, the task owns none.
SpawnPermitDropped(r, from, to) ==
  /\ PollerGoes(r, from, to)
  /\ sem[r] > 0
  /\ SpawnBatch(r, buffer[r])
  /\ UNCHANGED <<mailVars, kind, sem>>

\* The permit is there: the batch is drained into a task that owns it.
SpawnPermitted(r, from, to) ==
  /\ PollerGoes(r, from, to)
  /\ sem[r] > 0
  /\ sem' = [sem EXCEPT ![r] = @ - 1]
  /\ SpawnBatch(r, buffer[r])
  /\ UNCHANGED <<mailVars, kind>>

\* Action::Flush: a partial batch goes first, when there is a permit for it.
Drain(r) ==
  /\ PollerGoes(r, "recv", IF buffer[r] # <<>> THEN "drain" ELSE "flush")
  /\ Receive(r)
  /\ Incoming(r) = "Flush"
  /\ UNCHANGED <<at, rx, events, srx, kind, sem, buffer, batches>>

\* acquire_many(max_parallel) waits for every task, then Flushed is sent.
FlushAll(r) ==
  /\ poller[r] = "flush"
  /\ sem[r] = MaxParallel[r]
  /\ PollerEmits(r, "Flushed", queue[r])
  /\ UNCHANGED <<srx, kind, sem, batches>>

\* Action::Sync waits for every task, and leaves a partial batch where it is.
AwaitPermits(r) ==
  /\ PollerGoes(r, "recv", "sync")
  /\ Receive(r)
  /\ Incoming(r) = "Sync"
  /\ UNCHANGED <<at, rx, events, srx, kind, sem, buffer, batches>>

\* MUTANT: the sync handler does not wait for the tasks.
SyncUnpermitted(r) ==
  /\ PollerGoes(r, "sync", "syncing")
  /\ sem' = [sem EXCEPT ![r] = 0]
  /\ UNCHANGED <<mailVars, kind, buffer, batches>>

SyncPermitted(r) ==
  /\ PollerGoes(r, "sync", "syncing")
  /\ sem[r] = MaxParallel[r]
  /\ sem' = [sem EXCEPT ![r] = 0]
  /\ UNCHANGED <<mailVars, kind, buffer, batches>>

\* drop(lock), then Synchronized is sent.
SyncReleases(r) ==
  /\ poller[r] = "syncing"
  /\ sem' = [sem EXCEPT ![r] = MaxParallel[r]]
  /\ PollerEmits(r, "Synchronized", queue[r])
  /\ UNCHANGED <<srx, kind, batches>>

UnorderedBatchedStep(r) ==
  \/ BufferMessage(r)
  \/ SpawnPermitted(r, "spawn", "recv") \/ SpawnPermitted(r, "drain", "flush")
  \/ Drain(r) \/ FlushAll(r)
  \/ AwaitPermits(r) \/ SyncPermitted(r) \/ SyncReleases(r)
=============================================================================
