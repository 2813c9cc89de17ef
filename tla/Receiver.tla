------------------------------ MODULE Receiver ------------------------------
(***************************************************************************)
(* ReceiverWrapper and ReceiverContext: what the bus keeps of a receiver   *)
(* whatever its implementation S is, and the event loop of                 *)
(* start_polling_events, which takes the events of S one at a time.  The   *)
(* loop is split where it touches shared state, so the calls of the bus    *)
(* interleave with it at every atomic store and notification.              *)
(***************************************************************************)
EXTENDS Mailbox, Notify

CONSTANTS Controls,   \* the calls that carry no message: flush, sync, close ...
          Limit       \* the queue limit each receiver was subscribed with

Calls == Messages \cup Controls

ASSUME ReceiverAssumption ==
  /\ Limit \in [Receivers -> Nat]
  /\ Messages \cap Controls = {}
  /\ \A c \in Messages : c \notin Nat

VARIABLES processing,   \* context.processing
          needFlush,    \* context.need_flush
          readyFlag,    \* context.ready_flag
          notify,       \* the Notifys used with notify_one: response, flushed
          listening,    \* those used with notify_waiters, as the set of calls
                        \* whose Notified exists and was not notified yet
          waiters,      \* the response waiters in the slab, as their requests
          slab,         \* small keys the slab of r has handed out
          mid,          \* the message id a call was sent with, without bit 63
          reply,        \* reply[q]: whose response the oneshot of q received
          abandoned,    \* requests whose end of the oneshot is dropped
          loop          \* where the event loop of r is

contextVars == <<processing, needFlush, readyFlag>>
notifyVars == <<notify, listening>>
slabVars == <<waiters, slab, mid, reply, abandoned>>
wrapperVars == <<contextVars, notifyVars, slabVars>>

OneKinds == {"response", "flushed"}
AllKinds == {"ready", "closed", "idle", "synchronized"}
LoopPlace == {"next", "idle", "response", "deliver", "flushed", "ready", "ended"}

WrapperInit ==
  /\ processing = [r \in Receivers |-> 0]
  /\ needFlush = [r \in Receivers |-> FALSE]
  /\ readyFlag = [r \in Receivers |-> FALSE]
  /\ notify = [r \in Receivers |-> [k \in OneKinds |-> Quiet]]
  /\ listening = [r \in Receivers |-> [k \in AllKinds |-> {}]]
  /\ waiters = [r \in Receivers |-> {}]
  /\ slab = [r \in Receivers |-> 0]
  /\ mid = [c \in Messages |-> 0]
  /\ reply = [c \in Messages |-> {}]
  /\ abandoned = {}
  /\ loop = [r \in Receivers |-> "next"]

---------------------------------------------------------------------------
(* What the calls of the bus do to a receiver. *)

\* MUTANT: the limit is compared with ">".
FullOffByOne(r) == processing[r] > Limit[r]

Full(r) == processing[r] >= Limit[r]

\* try_reserve: the compare-and-swap that takes a slot for a Permit of c.
TakeSlot(r, c) ==
  /\ ~Full(r)
  /\ processing' = [processing EXCEPT ![r] = @ + 1]
  /\ Move(r, c, "permit")

\* increment_processing: force_send takes a slot whatever the limit is.
ForceSlot(r, c) ==
  /\ processing' = [processing EXCEPT ![r] = @ + 1]
  /\ Move(r, c, "permit")

\* MUTANT: a dropped Permit keeps its slot.
DropSlotLeaks(r, c) ==
  /\ Move(r, c, "none")
  /\ UNCHANGED processing

\* permit_drop: a Permit that was not used gives its slot back, quietly.
DropSlot(r, c) ==
  /\ processing' = [processing EXCEPT ![r] = @ - 1]
  /\ Move(r, c, "none")

\* notified().await on a Notify of notify_one: its first poll, after which the
\* call goes on at once if a permit was stored and is parked otherwise.
Poll(r, kind, c) ==
  notify' = [notify EXCEPT ![r][kind] = PollNotified(@, c)]

Permitted(r, kind) == notify[r][kind].permit

\* notified() on a Notify of notify_waiters, and the drop of that future.
Listen(r, kind, c) == listening' = [listening EXCEPT ![r][kind] = @ \cup {c}]
Unlisten(r, kind, c) == listening' = [listening EXCEPT ![r][kind] = @ \ {c}]
Wake(r, kind) == listening' = [listening EXCEPT ![r][kind] = {}]

\* MUTANT: every waiter gets the key of the first.
AddWaiterReused(r, c) ==
  /\ waiters' = [waiters EXCEPT ![r] = @ \cup {c}]
  /\ mid' = [mid EXCEPT ![c] = slab[r]]
  /\ UNCHANGED slab

\* waiters.insert: the key of a new waiter.  The shard of the first thread
\* hands out 0, 1, 2, ...; any other key has high bits set and is the call's own.
AddWaiter(r, c) ==
  /\ waiters' = [waiters EXCEPT ![r] = @ \cup {c}]
  /\ \/ /\ mid' = [mid EXCEPT ![c] = slab[r]]
        /\ slab' = [slab EXCEPT ![r] = @ + 1]
     \/ /\ mid' = [mid EXCEPT ![c] = c]
        /\ UNCHANGED slab

---------------------------------------------------------------------------
(* The event loop. *)

LoopGoes(r, from, to) ==
  /\ loop[r] = from
  /\ loop' = [loop EXCEPT ![r] = to]

TakeEvent(r, event) ==
  /\ events[r] # <<>>
  /\ Head(events[r]) = event
  /\ events' = [events EXCEPT ![r] = Tail(@)]
  /\ UNCHANGED <<queue, rx, srx>>

\* MUTANT: a response does not free the slot of its message.
OnResponseLeaks(r, c) ==
  /\ LoopGoes(r, "next", IF processing[r] = 1 THEN "idle" ELSE "response")
  /\ TakeEvent(r, c)
  /\ Move(r, c, "answering")
  /\ UNCHANGED <<contextVars, notifyVars, slabVars>>

\* Event::Response: the slot is freed; the last one leads to the idle branch.
OnResponse(r, c) ==
  /\ LoopGoes(r, "next", IF processing[r] = 1 THEN "idle" ELSE "response")
  /\ TakeEvent(r, c)
  /\ Move(r, c, "answering")
  /\ processing' = [processing EXCEPT ![r] = @ - 1]
  /\ UNCHANGED <<needFlush, readyFlag, notifyVars, slabVars>>

\* MUTANT: nobody is told that the receiver is idle.
NotifyIdleSilent(r) ==
  /\ LoopGoes(r, "idle", "response")
  /\ UNCHANGED <<mailVars, contextVars, notifyVars, slabVars>>

\* context.idle.notify_waiters()
NotifyIdle(r) ==
  /\ LoopGoes(r, "idle", "response")
  /\ Wake(r, "idle")
  /\ UNCHANGED <<mailVars, contextVars, notify, slabVars>>

\* MUTANT: nobody is told that a slot was freed.
NotifyResponseSilent(r) ==
  /\ LoopGoes(r, "response", "deliver")
  /\ UNCHANGED <<mailVars, contextVars, notifyVars, slabVars>>

\* context.response.notify_one(): one call that waits for a slot may retry.
NotifyResponse(r) ==
  /\ LoopGoes(r, "response", "deliver")
  /\ notify' = [notify EXCEPT ![r].response = NotifyOne(@)]
  /\ UNCHANGED <<mailVars, contextVars, listening, slabVars>>

\* The waiter self.response() takes for the response of c: the one whose key is
\* the message id of c, whether c was a request or not.
WaiterOf(r, c) == {q \in waiters[r] : mid[q] = mid[c]}

\* self.response(): the response of c goes to the waiter, or nowhere.
Deliver(r, c) ==
  /\ at[r][c] = "answering"
  /\ WaiterOf(r, c) \cap abandoned = {}
  /\ LoopGoes(r, "deliver", "next")
  /\ Move(r, c, "done")
  /\ waiters' = [waiters EXCEPT ![r] = @ \ WaiterOf(r, c)]
  /\ reply' = [q \in Messages |->
                 IF q \in WaiterOf(r, c) THEN {c} ELSE reply[q]]
  /\ UNCHANGED <<queue, rx, events, srx, contextVars, notifyVars, slab, mid,
                 abandoned>>

\* sender.send(resp).unwrap() of a request nobody awaits any more: the event
\* loop panics, its end of the channel is dropped with what is in it.
DeliverPanics(r, c) ==
  /\ at[r][c] = "answering"
  /\ WaiterOf(r, c) \cap abandoned # {}
  /\ LoopGoes(r, "deliver", "ended")
  /\ waiters' = [waiters EXCEPT ![r] = @ \ WaiterOf(r, c)]
  /\ srx' = [srx EXCEPT ![r] = FALSE]
  /\ events' = [events EXCEPT ![r] = <<>>]
  /\ at' = [at EXCEPT ![r] = [m \in Messages |->
              IF m = c THEN "done"
              ELSE IF at[r][m] = "answered" THEN "lost" ELSE at[r][m]]]
  /\ UNCHANGED <<queue, rx, contextVars, notifyVars, slab, mid, reply, abandoned>>

\* Event::Flushed: need_flush is cleared, then one flush call is notified.
OnFlushed(r) ==
  /\ LoopGoes(r, "next", "flushed")
  /\ TakeEvent(r, "Flushed")
  /\ needFlush' = [needFlush EXCEPT ![r] = FALSE]
  /\ UNCHANGED <<at, processing, readyFlag, notifyVars, slabVars>>

NotifyFlushed(r) ==
  /\ LoopGoes(r, "flushed", "next")
  /\ notify' = [notify EXCEPT ![r].flushed = NotifyOne(@)]
  /\ UNCHANGED <<mailVars, contextVars, listening, slabVars>>

\* MUTANT: the flag is set, and nobody is notified.
OnReadySilent(r) ==
  /\ LoopGoes(r, "next", "ready")
  /\ TakeEvent(r, "Ready")
  /\ UNCHANGED <<at, contextVars, notifyVars, slabVars>>

\* Event::Ready: the calls that wait are notified, then the flag is set.
OnReady(r) ==
  /\ LoopGoes(r, "next", "ready")
  /\ TakeEvent(r, "Ready")
  /\ Wake(r, "ready")
  /\ UNCHANGED <<at, contextVars, notify, slabVars>>

SetReady(r) ==
  /\ LoopGoes(r, "ready", "next")
  /\ readyFlag' = [readyFlag EXCEPT ![r] = TRUE]
  /\ UNCHANGED <<mailVars, processing, needFlush, notifyVars, slabVars>>

\* Event::Synchronized: every sync call that waits is notified.
OnSynchronized(r) ==
  /\ loop[r] = "next"
  /\ TakeEvent(r, "Synchronized")
  /\ Wake(r, "synchronized")
  /\ UNCHANGED <<at, contextVars, notify, slabVars, loop>>

\* The stream of events ends: the calls that close the receiver are notified.
EndLoop(r) ==
  /\ StreamEnded(r)
  /\ LoopGoes(r, "next", "ended")
  /\ Wake(r, "closed")
  /\ srx' = [srx EXCEPT ![r] = FALSE]
  /\ UNCHANGED <<at, queue, rx, events, contextVars, notify, slabVars>>

LoopStep(r) ==
  \/ \E c \in Messages : OnResponse(r, c) \/ Deliver(r, c) \/ DeliverPanics(r, c)
  \/ NotifyIdle(r) \/ NotifyResponse(r)
  \/ OnFlushed(r) \/ NotifyFlushed(r)
  \/ OnReady(r) \/ SetReady(r)
  \/ OnSynchronized(r) \/ EndLoop(r)

NotifyState == [permit : BOOLEAN, waiting : Seq(Calls)]

WrapperTypeOK ==
  /\ processing \in [Receivers -> Int]
  /\ needFlush \in [Receivers -> BOOLEAN]
  /\ readyFlag \in [Receivers -> BOOLEAN]
  /\ notify \in [Receivers -> [OneKinds -> NotifyState]]
  /\ listening \in [Receivers -> [AllKinds -> SUBSET Calls]]
  /\ waiters \in [Receivers -> SUBSET Messages]
  /\ slab \in [Receivers -> Nat]
  /\ mid \in [Messages -> Nat \cup Messages]
  /\ reply \in [Messages -> SUBSET Messages]
  /\ abandoned \in SUBSET Messages
  /\ loop \in [Receivers -> LoopPlace]
=============================================================================
