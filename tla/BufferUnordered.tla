--------------------------- MODULE BufferUnordered ---------------------------
(***************************************************************************)
(* The poller of BufferUnorderedAsync and BufferUnorderedSync: one loop    *)
(* over the queue that spawns a task per message, at most MaxParallel at a *)
(* time, and runs Flush and Sync by taking every task permit.              *)
(***************************************************************************)
EXTENDS Mailbox

CONSTANTS MaxParallel,   \* cfg.max_parallel of each receiver
          Panicking      \* the messages whose handler may panic

ASSUME BufferUnorderedAssumption ==
  /\ MaxParallel \in [Receivers -> Nat \ {0}]
  /\ Panicking \subseteq Messages

VARIABLES poller,   \* where the poller loop of r is
          sem       \* permits left in its semaphore

pollVars == <<poller, sem>>

PollerPlace == {"recv", "acquire", "flush", "sync", "syncing", "ended", "panicked"}

PollInit ==
  /\ poller = [r \in Receivers |-> "recv"]
  /\ sem = MaxParallel

PollerGoes(r, from, to) ==
  /\ poller[r] = from
  /\ poller' = [poller EXCEPT ![r] = to]

\* A panic of the poller drops rx, and with it everything still queued.
PollerPanics(r) ==
  /\ poller' = [poller EXCEPT ![r] = "panicked"]
  /\ rx' = [rx EXCEPT ![r] = "gone"]
  /\ queue' = [queue EXCEPT ![r] = <<>>]
  /\ at' = [at EXCEPT ![r] = [c \in Messages |->
              IF at[r][c] = "queued" THEN "lost" ELSE at[r][c]]]

\* stx.send(signal).unwrap() in the poller, which then waits for the next item.
PollerEmits(r, signal) ==
  IF srx[r]
  THEN /\ poller' = [poller EXCEPT ![r] = "recv"]
       /\ events' = [events EXCEPT ![r] = Append(@, signal)]
       /\ UNCHANGED <<at, rx>>
  ELSE PollerPanics(r) /\ UNCHANGED events

---------------------------------------------------------------------------
\* Request::Request: receive the message, then wait for a task permit.
PollRequest(r) ==
  /\ PollerGoes(r, "recv", "acquire")
  /\ Receive(r)
  /\ Incoming(r) \in Messages
  /\ Move(r, Incoming(r), "held")
  /\ UNCHANGED <<rx, events, srx, sem>>

\* MUTANT: the poller does not wait for a permit.
SpawnUnbounded(r) ==
  /\ PollerGoes(r, "acquire", "recv")
  /\ sem' = [sem EXCEPT ![r] = @ - 1]
  /\ \E c \in Messages : at[r][c] = "held" /\ Move(r, c, "running")
  /\ UNCHANGED <<queue, rx, events, srx>>

\* MUTANT: the permit is dropped in the poller instead of moved to the task.
SpawnUnowned(r) ==
  /\ PollerGoes(r, "acquire", "recv")
  /\ sem[r] > 0
  /\ \E c \in Messages : at[r][c] = "held" /\ Move(r, c, "running")
  /\ UNCHANGED <<queue, rx, events, srx, sem>>

\* A permit is acquired and the task that owns it is spawned.
Spawn(r) ==
  /\ PollerGoes(r, "acquire", "recv")
  /\ sem[r] > 0
  /\ sem' = [sem EXCEPT ![r] = @ - 1]
  /\ \E c \in Messages : at[r][c] = "held" /\ Move(r, c, "running")
  /\ UNCHANGED <<queue, rx, events, srx>>

\* Action::Init is answered by Ready.
PollInitAction(r) ==
  /\ poller[r] = "recv"
  /\ queue[r] # <<>>
  /\ Incoming(r) = "Init"
  /\ PollerEmits(r, "Ready")
  /\ srx[r] => Receive(r)
  /\ UNCHANGED <<srx, sem>>

\* MUTANT: the poller takes the action and forgets rx.close().
PollCloseOpen(r) ==
  /\ poller[r] = "recv"
  /\ Receive(r)
  /\ Incoming(r) = "Close"
  /\ UNCHANGED <<at, rx, events, srx, pollVars>>

\* Action::Close: rx.close(), after which sends fail and what is queued drains.
PollClose(r) ==
  /\ poller[r] = "recv"
  /\ Receive(r)
  /\ Incoming(r) = "Close"
  /\ rx' = [rx EXCEPT ![r] = "closed"]
  /\ UNCHANGED <<at, events, srx, pollVars>>

\* Action::Flush is received; the poller starts to wait for every permit.
PollFlush(r) ==
  /\ PollerGoes(r, "recv", "flush")
  /\ Receive(r)
  /\ Incoming(r) = "Flush"
  /\ UNCHANGED <<at, rx, events, srx, sem>>

\* MUTANT: Flushed is sent without waiting for the tasks.
FinishFlushEarly(r) ==
  /\ poller[r] = "flush"
  /\ PollerEmits(r, "Flushed")
  /\ srx[r] => UNCHANGED queue
  /\ UNCHANGED <<srx, sem>>

\* Every permit was there at once: they are given back and Flushed is sent.
FinishFlush(r) ==
  /\ poller[r] = "flush"
  /\ sem[r] = MaxParallel[r]
  /\ PollerEmits(r, "Flushed")
  /\ srx[r] => UNCHANGED queue
  /\ UNCHANGED <<srx, sem>>

\* Action::Sync is received; the poller starts to wait for every permit.
PollSync(r) ==
  /\ PollerGoes(r, "recv", "sync")
  /\ Receive(r)
  /\ Incoming(r) = "Sync"
  /\ UNCHANGED <<at, rx, events, srx, sem>>

\* MUTANT: the sync handler is content with one permit.
StartSyncShared(r) ==
  /\ PollerGoes(r, "sync", "syncing")
  /\ sem[r] > 0
  /\ sem' = [sem EXCEPT ![r] = 0]
  /\ UNCHANGED mailVars

\* The sync handler starts while the poller holds every permit.
StartSync(r) ==
  /\ PollerGoes(r, "sync", "syncing")
  /\ sem[r] = MaxParallel[r]
  /\ sem' = [sem EXCEPT ![r] = 0]
  /\ UNCHANGED mailVars

\* The sync handler returns: the lock is dropped and Synchronized is sent.
FinishSync(r) ==
  /\ poller[r] = "syncing"
  /\ sem' = [sem EXCEPT ![r] = MaxParallel[r]]
  /\ PollerEmits(r, "Synchronized")
  /\ srx[r] => UNCHANGED queue
  /\ UNCHANGED srx

\* MUTANT: the poller leaves its loop at Action::Close.
EndPollerUndrained(r) ==
  /\ PollerGoes(r, "recv", "ended")
  /\ rx[r] = "closed"
  /\ rx' = [rx EXCEPT ![r] = "gone"]
  /\ UNCHANGED <<at, queue, events, srx, sem>>

\* rx.recv() returns None: the queue is closed and drained, the poller ends.
EndPoller(r) ==
  /\ PollerGoes(r, "recv", "ended")
  /\ rx[r] = "closed"
  /\ queue[r] = <<>>
  /\ rx' = [rx EXCEPT ![r] = "gone"]
  /\ UNCHANGED <<at, queue, events, srx, sem>>

---------------------------------------------------------------------------
\* The task of c: its handler returns and drop(task_permit) frees the permit.
HandlerReturns(r, c) ==
  /\ at[r][c] = "running"
  /\ Move(r, c, "handled")
  /\ sem' = [sem EXCEPT ![r] = @ + 1]
  /\ UNCHANGED <<queue, rx, events, srx, poller>>

\* The task sends its Response, or panics because the event loop is gone.
Respond(r, c) ==
  /\ at[r][c] = "handled"
  /\ IF srx[r] THEN /\ events' = [events EXCEPT ![r] = Append(@, c)]
                    /\ Move(r, c, "answered")
               ELSE /\ Move(r, c, "lost")
                    /\ UNCHANGED events
  /\ UNCHANGED <<queue, rx, srx, pollVars>>

\* The handler of c panics: its task unwinds, frees the permit, sends nothing.
HandlerPanics(r, c) ==
  /\ c \in Panicking
  /\ at[r][c] = "running"
  /\ Move(r, c, "lost")
  /\ sem' = [sem EXCEPT ![r] = @ + 1]
  /\ UNCHANGED <<queue, rx, events, srx, poller>>

PollerStep(r) ==
  \/ PollRequest(r) \/ Spawn(r) \/ PollInitAction(r) \/ PollClose(r)
  \/ PollFlush(r) \/ FinishFlush(r) \/ PollSync(r) \/ StartSync(r)
  \/ FinishSync(r) \/ EndPoller(r)

PollTypeOK ==
  /\ poller \in [Receivers -> PollerPlace]
  /\ sem \in [Receivers -> Nat]
=============================================================================
