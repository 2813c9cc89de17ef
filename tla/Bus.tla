--------------------------------- MODULE Bus ---------------------------------
(***************************************************************************)
(* The API of Bus: every call is a process of its own, in the steps        *)
(* between which other threads, the pollers and the event loops may run.   *)
(* "Op" says which function a call is, "Route" which receivers it visits   *)
(* in which order: what the lookup table and SendOptions left over.        *)
(***************************************************************************)
EXTENDS Receiver

CONSTANTS Op,          \* the function of Bus each call is a call of
          Route,       \* the receivers it visits
          After,       \* the calls its client awaits before making it
          Inside,      \* the handlers it is made from: pairs <<receiver, message>>
          Droppable,   \* requests whose future may be dropped unanswered
          Fuse         \* fuse_count of the flush functions, 32 in the code

MessageOps == {"send", "send_one", "try_send", "force_send", "request"}
ControlOps == {"flush", "sync", "idle", "ready", "close"}

ASSUME BusAssumption ==
  /\ Op \in [Calls -> MessageOps \cup ControlOps]
  /\ \A c \in Calls : c \in Messages <=> Op[c] \in MessageOps
  /\ Route \in [Calls -> Seq(Receivers)]
  /\ \A c \in Calls : Route[c] # <<>>
  /\ \A c \in Messages : \A i, j \in DOMAIN Route[c] :
       Route[c][i] = Route[c][j] => i = j
  /\ \A c \in Messages : Op[c] \in {"send_one", "request"} => Len(Route[c]) = 1
  /\ After \in [Calls -> SUBSET Calls]
  /\ Inside \in [Calls -> SUBSET (Receivers \X Messages)]
  /\ Droppable \subseteq {c \in Messages : Op[c] = "request"}
  /\ Fuse \in Nat \ {0}

VARIABLES pc,          \* where call c is
          pos,         \* the index in Route[c] of the receiver it is at
          round,       \* iters of a flush
          again,       \* flushed: this round of a flush found need_flush set
          outcome,     \* what the call returned
          idCounter,   \* ID_COUNTER
          closed,      \* inner.closed
          maintain,    \* the close call that holds inner.maintain, if any
          timedOut,    \* the pairs <<close call, receiver>> given up after 20 s
          before       \* history: the sends that had returned when a control
                       \* was called

localVars == <<pc, pos, round, again, outcome, before>>
sharedVars == <<idCounter, closed, maintain, timedOut>>
busVars == <<localVars, sharedVars>>

CallPlace == {"start", "reserve", "poll", "parked", "tryreserve", "drop", "bump",
              "send", "mark", "await", "check", "register", "push", "listen",
              "recheck", "done"}
Outcome == {"none", "ok", "closed", "full", "fuse", "dropped"}

BusInit ==
  /\ pc = [c \in Calls |-> "start"]
  /\ pos = [c \in Calls |-> 1]
  /\ round = [c \in Calls |-> 1]
  /\ again = [c \in Calls |-> FALSE]
  /\ outcome = [c \in Calls |-> "none"]
  /\ idCounter = 1
  /\ closed = FALSE
  /\ maintain = {}
  /\ timedOut = {}
  /\ before = [c \in Controls |-> {}]

At(c) == Route[c][pos[c]]
IsLast(c) == pos[c] = Len(Route[c])

Goes(c, to) == pc' = [pc EXCEPT ![c] = to]
StaysLocal == UNCHANGED <<pos, round, again, outcome, before>>
Step(c, from, to) == pc[c] = from /\ Goes(c, to) /\ StaysLocal

Return(c, result) ==
  /\ Goes(c, "done")
  /\ outcome' = [outcome EXCEPT ![c] = result]
  /\ UNCHANGED <<pos, round, again, before>>

\* The first step a call makes at each receiver it visits.
Entry(c) == CASE Op[c] \in {"send", "send_one", "request"} -> "reserve"
              [] Op[c] = "try_send"   -> "tryreserve"
              [] Op[c] = "force_send" -> "bump"
              [] Op[c] = "flush"      -> "check"
              [] Op[c] = "idle"       -> "push"
              [] OTHER                -> "register"

Visit(c, to) ==
  /\ Goes(c, to)
  /\ pos' = [pos EXCEPT ![c] = @ + 1]
  /\ UNCHANGED <<round, again, outcome, before>>

Rewind(c, to) ==
  /\ Goes(c, to)
  /\ pos' = [pos EXCEPT ![c] = 1]
  /\ UNCHANGED <<round, again, outcome, before>>

\* A call is made once its client gets to it, or while its handler runs.
MayStart(c) ==
  /\ pc[c] = "start"
  /\ \A d \in After[c] : pc[d] = "done"
  /\ \A h \in Inside[c] : at[h[1]][h[2]] = "running"

Enter(c) ==
  /\ Goes(c, Entry(c))
  /\ before' = [d \in Controls |->
                  IF d = c THEN {m \in Messages : outcome[m] = "ok"} ELSE before[d]]
  /\ UNCHANGED <<pos, round, again, outcome>>

---------------------------------------------------------------------------
(* send, send_one, try_send, force_send and request. *)

\* The closed check of every send, and the message id it takes.
StartSend(c) ==
  /\ MayStart(c)
  /\ Op[c] \in MessageOps \ {"request"}
  /\ IF closed
     THEN Return(c, "closed") /\ UNCHANGED <<mid, idCounter>>
     ELSE /\ Enter(c)
          /\ mid' = [mid EXCEPT ![c] = idCounter]
          /\ idCounter' = idCounter + 1
  /\ UNCHANGED <<mailVars, contextVars, notifyVars, waiters, slab, reply,
                 abandoned, closed, maintain, timedOut>>

\* request does not look at closed: it registers a waiter with its receiver.
StartRequest(c) ==
  /\ MayStart(c)
  /\ Op[c] = "request"
  /\ AddWaiter(At(c), c)
  /\ Enter(c)
  /\ UNCHANGED <<mailVars, contextVars, notifyVars, reply, abandoned, sharedVars>>

\* Whether the call is in the loop of reserve() and not parked there.
Reserving(c) == \/ pc[c] = "reserve"
                \/ pc[c] = "parked" /\ ~IsParked(notify[At(c)].response, c)

\* One turn of the loop of reserve().
Reserve(c) ==
  /\ Reserving(c)
  /\ IF Full(At(c))
     THEN /\ Goes(c, "poll")
          /\ UNCHANGED <<at, processing>>
     ELSE /\ Goes(c, "send")
          /\ TakeSlot(At(c), c)
  /\ StaysLocal
  /\ UNCHANGED <<queue, rx, events, srx, needFlush, readyFlag, notifyVars,
                 slabVars, sharedVars>>

\* reserve() awaits response.notified().
PollReserve(c) ==
  /\ Step(c, "poll", IF Permitted(At(c), "response") THEN "reserve" ELSE "parked")
  /\ Poll(At(c), "response", c)
  /\ UNCHANGED <<mailVars, contextVars, listening, slabVars, sharedVars>>

\* Bus::try_reserve collects a Permit of every receiver of the route.
TryReserve(c) ==
  /\ pc[c] = "tryreserve"
  /\ IF Full(At(c))
     THEN Rewind(c, "drop") /\ UNCHANGED <<at, processing>>
     ELSE /\ IF IsLast(c) THEN Rewind(c, "send") ELSE Visit(c, "tryreserve")
          /\ TakeSlot(At(c), c)
  /\ UNCHANGED <<queue, rx, events, srx, needFlush, readyFlag, notifyVars,
                 slabVars, sharedVars>>

\* One receiver was full: the Permits collected so far are dropped.
DropPermit(c) ==
  /\ pc[c] = "drop"
  /\ IF at[At(c)][c] = "permit"
     THEN DropSlot(At(c), c) /\ Visit(c, "drop")
     ELSE Return(c, "full") /\ UNCHANGED <<at, processing>>
  /\ UNCHANGED <<queue, rx, events, srx, needFlush, readyFlag, notifyVars,
                 slabVars, sharedVars>>

\* Receiver::force_send first increments processing.
Bump(c) ==
  /\ Step(c, "bump", "send")
  /\ ForceSlot(At(c), c)
  /\ UNCHANGED <<queue, rx, events, srx, needFlush, readyFlag, notifyVars,
                 slabVars, sharedVars>>

\* Receiver::send: the message goes to the implementation, with its Permit.
Send(c) ==
  /\ Step(c, "send", "mark")
  /\ SendMessage(At(c), c)
  /\ UNCHANGED <<wrapperVars, sharedVars>>

\* Where a call stands after one receiver: only a request and the _one
\* functions look at the error of a refused message.
SendNext(c) ==
  IF Op[c] \in {"request", "send_one"} /\ at[At(c)][c] = "refused"
  THEN Return(c, "closed")
  ELSE IF Op[c] = "request" THEN Goes(c, "await") /\ StaysLocal
  ELSE IF IsLast(c) THEN Return(c, "ok")
  ELSE Visit(c, IF Op[c] = "try_send" THEN "send" ELSE Entry(c))

\* Receiver::send ends with set_need_flush, sent or not.  A refused request
\* returns and leaves its waiter in the slab.
Mark(c) ==
  /\ pc[c] = "mark"
  /\ needFlush' = [needFlush EXCEPT ![At(c)] = TRUE]
  /\ SendNext(c)
  /\ abandoned' = IF Op[c] = "request" /\ at[At(c)][c] = "refused"
                  THEN abandoned \cup {c} ELSE abandoned
  /\ UNCHANGED <<mailVars, processing, readyFlag, notifyVars, waiters, slab, mid,
                 reply, sharedVars>>

\* rx.await of a request: the oneshot has a response.
Answered(c) ==
  /\ pc[c] = "await"
  /\ reply[c] # {}
  /\ Return(c, "ok")
  /\ UNCHANGED <<mailVars, wrapperVars, sharedVars>>

\* The client drops the future of a request, in a timeout or a select.
Abandon(c) ==
  /\ c \in Droppable
  /\ pc[c] = "await"
  /\ abandoned' = abandoned \cup {c}
  /\ Return(c, "dropped")
  /\ UNCHANGED <<mailVars, contextVars, notifyVars, waiters, slab, mid, reply,
                 sharedVars>>

---------------------------------------------------------------------------
(* flush, idle, sync, ready and close. *)

\* The wait set of a control that waits for a notify_waiters.
Kind(c) == CASE Op[c] = "idle"  -> "idle"
             [] Op[c] = "ready" -> "ready"
             [] Op[c] = "sync"  -> "synchronized"
             [] OTHER           -> "closed"

ActionOf(c) == CASE Op[c] = "sync"  -> "Sync"
                 [] Op[c] = "close" -> "Close"
                 [] OTHER           -> "Flush"

\* A flush makes another round while its rounds find something to flush.
NextRound(c) ==
  IF round[c] = Fuse THEN Return(c, "fuse")
  ELSE /\ Goes(c, "check")
       /\ pos' = [pos EXCEPT ![c] = 1]
       /\ round' = [round EXCEPT ![c] = @ + 1]
       /\ again' = [again EXCEPT ![c] = FALSE]
       /\ UNCHANGED <<outcome, before>>

\* The loop over the receivers; the end of close unlocks inner.maintain.
Onward(c) ==
  /\ IF ~IsLast(c) THEN Visit(c, Entry(c))
     ELSE IF again[c] THEN NextRound(c)
     ELSE Return(c, "ok")
  /\ maintain' = IF IsLast(c) THEN maintain \ {c} ELSE maintain
  /\ UNCHANGED <<idCounter, closed>>

StartControl(c) ==
  /\ MayStart(c)
  /\ Op[c] # "close"
  /\ Enter(c)
  /\ UNCHANGED <<mailVars, wrapperVars, sharedVars>>

\* close locks inner.maintain, then sets closed.
StartClose(c) ==
  /\ MayStart(c)
  /\ Op[c] = "close"
  /\ maintain = {}
  /\ maintain' = {c}
  /\ closed' = TRUE
  /\ Enter(c)
  /\ UNCHANGED <<mailVars, wrapperVars, idCounter, timedOut>>

\* A flush skips the receivers whose need_flush is clear.
Check(c) ==
  /\ pc[c] = "check"
  /\ IF needFlush[At(c)]
     THEN /\ Goes(c, "push")
          /\ again' = [again EXCEPT ![c] = TRUE]
          /\ UNCHANGED <<pos, round, outcome, before, sharedVars>>
     ELSE Onward(c) /\ UNCHANGED timedOut
  /\ UNCHANGED <<mailVars, wrapperVars>>

\* notified() of ready, sync and close comes before, that of idle after, what
\* the call waits for.
Register(c) ==
  /\ Step(c, "register", CASE Op[c] = "idle"  -> "listen"
                           [] Op[c] = "ready" -> "recheck"
                           [] OTHER           -> "push")
  /\ Listen(At(c), Kind(c), c)
  /\ UNCHANGED <<mailVars, contextVars, notify, slabVars, sharedVars>>

\* send_action, which the open queue takes.
Push(c) ==
  /\ Step(c, "push", IF Op[c] \in {"flush", "idle"} THEN "poll" ELSE "listen")
  /\ SendAction(At(c), ActionOf(c))
  /\ UNCHANGED <<wrapperVars, sharedVars>>

\* send_action fails: the wait is skipped and the Notified dropped.
PushFails(c) ==
  /\ pc[c] = "push"
  /\ rx[At(c)] # "open"
  /\ IF Op[c] = "idle" THEN Goes(c, "recheck") /\ StaysLocal /\ UNCHANGED sharedVars
                       ELSE Onward(c) /\ UNCHANGED timedOut
  /\ Unlisten(At(c), Kind(c), c)
  /\ UNCHANGED <<mailVars, contextVars, notify, slabVars>>

\* What follows flush(): idle goes on with the same receiver.
Flushed(c) ==
  IF Op[c] = "idle" THEN Goes(c, "recheck") /\ StaysLocal /\ UNCHANGED sharedVars
                    ELSE Onward(c) /\ UNCHANGED timedOut

\* flush() awaits flushed.notified().
PollFlushed(c) ==
  /\ pc[c] = "poll"
  /\ Poll(At(c), "flushed", c)
  /\ IF Permitted(At(c), "flushed")
     THEN Flushed(c)
     ELSE Goes(c, "parked") /\ StaysLocal /\ UNCHANGED sharedVars
  /\ UNCHANGED <<mailVars, contextVars, listening, slabVars>>

UnparkFlushed(c) ==
  /\ pc[c] = "parked"
  /\ ~IsParked(notify[At(c)].flushed, c)
  /\ Flushed(c)
  /\ UNCHANGED <<mailVars, wrapperVars>>

\* is_idling() of idle, before it registers.
CheckIdle(c) ==
  /\ pc[c] = "recheck"
  /\ Op[c] = "idle"
  /\ IF processing[At(c)] = 0
     THEN Onward(c) /\ UNCHANGED timedOut
     ELSE Goes(c, "register") /\ StaysLocal /\ UNCHANGED sharedVars
  /\ UNCHANGED <<mailVars, wrapperVars>>

\* is_ready() of ready, after it registered.
CheckReady(c) ==
  /\ pc[c] = "recheck"
  /\ Op[c] = "ready"
  /\ IF readyFlag[At(c)]
     THEN Unlisten(At(c), "ready", c) /\ Onward(c) /\ UNCHANGED timedOut
     ELSE Goes(c, "listen") /\ StaysLocal /\ UNCHANGED <<listening, sharedVars>>
  /\ UNCHANGED <<mailVars, contextVars, notify, slabVars>>

\* The Notified the call awaits was notified.
Awake(c) ==
  /\ pc[c] = "listen"
  /\ c \notin listening[At(c)][Kind(c)]
  /\ Onward(c)
  /\ UNCHANGED <<mailVars, wrapperVars, timedOut>>

\* close gives a receiver up after 20 seconds and goes to the next.
TimeOut(c) ==
  /\ pc[c] = "listen"
  /\ Op[c] = "close"
  /\ c \in listening[At(c)].closed
  /\ Unlisten(At(c), "closed", c)
  /\ timedOut' = timedOut \cup {<<c, At(c)>>}
  /\ Onward(c)
  /\ UNCHANGED <<mailVars, contextVars, notify, slabVars>>

MessageStep(c) ==
  \/ Reserve(c) \/ PollReserve(c) \/ TryReserve(c) \/ DropPermit(c)
  \/ Bump(c) \/ Send(c) \/ Mark(c) \/ Answered(c)

ControlStep(c) ==
  \/ Check(c) \/ Register(c) \/ Push(c) \/ PushFails(c) \/ PollFlushed(c)
  \/ UnparkFlushed(c) \/ CheckIdle(c) \/ CheckReady(c) \/ Awake(c)

BusTypeOK ==
  /\ pc \in [Calls -> CallPlace]
  /\ pos \in [Calls -> Nat \ {0}]
  /\ round \in [Calls -> 1..Fuse]
  /\ again \in [Calls -> BOOLEAN]
  /\ outcome \in [Calls -> Outcome]
  /\ before \in [Controls -> SUBSET Messages]
  /\ idCounter \in Nat
  /\ closed \in BOOLEAN
  /\ maintain \in SUBSET Controls
  /\ timedOut \in SUBSET (Controls \X Receivers)

---------------------------------------------------------------------------
(* What every bus keeps, whatever its receivers are. *)

Copies(r, places) == {c \in Messages : at[r][c] \in places}

\* "processing" is exactly the number of messages that hold a slot of r: the
\* queue and event-loop sides of one counter never lose or double a message,
\* whatever happens to a batch: full, flushed, panicking, dropped with its poller.
Accounting ==
  \A r \in Receivers : processing[r] = Cardinality(Copies(r, Slotted))

\* Backpressure: the messages in flight through reserve and try_reserve never
\* exceed the limit of the receiver; only force_send goes beyond it.
Backpressure ==
  \A r \in Receivers :
    Cardinality({c \in Copies(r, Slotted) : Op[c] # "force_send"}) <= Limit[r]

\* A request is answered by the handler that got its message.
AnswerMatches == \A q \in Messages : reply[q] \subseteq {q}

\* No receiver is sent both requests and plain messages.  The ids of the former
\* are the keys of a slab, those of the latter a counter, and they may be equal.
SeparateRequests ==
  \A q, c \in Messages :
    /\ Op[q] = "request"
    /\ \E i \in DOMAIN Route[c] : Route[c][i] = Route[q][1]
    => Op[c] = "request"

\* The calls whose route has r.
Visits(c, r) == \E i \in DOMAIN Route[c] : Route[c][i] = r

\* The flushes and syncs keep out of each other's way: a receiver that a flush
\* visits is visited by no other flush and no idle, the syncs of a receiver are
\* awaited one before the other, and a close that visits it awaits them.
BarriersApart ==
  \A b, d \in Controls, r \in Receivers :
    b # d /\ Op[b] \in {"flush", "sync"} /\ Visits(b, r) /\ Visits(d, r) =>
      /\ Op[b] = "flush" => Op[d] \notin {"flush", "idle"}
      /\ Op[b] = "sync" /\ Op[d] = "sync" => b \in After[d] \/ d \in After[b]
      /\ Op[d] = "close" => b \in After[d]

\* A close gave up on r, and the next one cannot send it a Close.
GivenUp(r) == \E c \in Controls : <<c, r>> \in timedOut

\* A call is always at one of the receivers of its route.
Visiting == \A c \in Calls : pos[c] \in DOMAIN Route[c]

\* A channel holds a message at most once, and only while it is in that place.
Holds(channel, place) ==
  \A r \in Receivers : \A i \in DOMAIN channel[r] :
    channel[r][i] \in Messages =>
      /\ at[r][channel[r][i]] = place
      /\ \A j \in DOMAIN channel[r] : channel[r][j] = channel[r][i] => j = i

\* Both channels of a receiver hold what the copies of the messages say.
ChannelInv == Holds(queue, "queued") /\ Holds(events, "answered")

\* The copy of c for the i-th receiver of its route, seen from where the call
\* is: what lies behind pos[c] is sent, what lies ahead is not, except that a
\* try_send holds the Permits of all its receivers before it sends to one.
Copy(c, i) == at[Route[c][i]][c]

Underway(c, i) ==
  /\ pc[c] = "start" => pos[c] = 1 /\ Copy(c, i) = "none"
  /\ pc[c] \in {"reserve", "poll", "parked"} =>
       /\ Op[c] \notin {"try_send", "force_send"}
       /\ i >= pos[c] => Copy(c, i) = "none"
  /\ pc[c] = "bump" =>
       /\ Op[c] = "force_send"
       /\ i >= pos[c] => Copy(c, i) = "none"
  /\ pc[c] = "tryreserve" =>
       /\ Op[c] = "try_send"
       /\ Copy(c, i) = IF i < pos[c] THEN "permit" ELSE "none"
  /\ pc[c] = "drop" =>
       /\ Copy(c, i) \in {"none", "permit"}
       /\ \E j \in DOMAIN Route[c] : j >= pos[c] /\ Copy(c, j) = "none"
  /\ pc[c] \in {"send", "mark"} /\ i > pos[c] =>
       Copy(c, i) = IF Op[c] = "try_send" THEN "permit" ELSE "none"
  /\ pc[c] = "send" /\ i = pos[c] => Copy(c, i) = "permit"

\* Every copy of every message is where the progress of its call says.
RouteInv == \A c \in Messages : \A i \in DOMAIN Route[c] : Underway(c, i)
=============================================================================
