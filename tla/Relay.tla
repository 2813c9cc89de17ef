-------------------------------- MODULE Relay --------------------------------
(***************************************************************************)
(* RelayWrapper: what the bus keeps of a relay, and its event loop.  A     *)
(* relay takes messages of many types; each type has a slot counter of its *)
(* own, RelayReceiverContext, made on first use.  The relay behind the     *)
(* wrapper is any relay: it answers what it takes in any order and may     *)
(* lose it.  Of the other receivers of a message only one thing matters    *)
(* here: a try_send that finds one of them full drops the Permit it has.   *)
(***************************************************************************)
EXTENDS Notify, Integers, FiniteSets

CONSTANTS Types,       \* type tags
          Calls,       \* the calls that reach the relay
          Op,          \* the function of Bus each is a call of
          TypeOf,      \* the type of the message of a call
          ResponseOf,  \* the type of the response to a request
          Scripts,     \* the sets of calls that are made
          RelayLimit,  \* the limit of every type, 16 in the code
          Wrap,        \* 2^64: processing is an AtomicU64
          MaxLosses    \* bound: messages and actions the relay may lose

MessageOps == {"send", "try_send", "force_send", "request"}
ControlOps == {"flush", "sync", "ready", "close"}
Messages == {c \in Calls : Op[c] \in MessageOps}

ASSUME RelayAssumption ==
  /\ Op \in [Calls -> MessageOps \cup ControlOps]
  /\ TypeOf \in [Messages -> Types]
  /\ ResponseOf \in [{c \in Messages : Op[c] = "request"} -> Types]
  /\ Scripts \subseteq SUBSET Calls
  /\ \A c, d \in Calls : Op[c] = "flush" /\ Op[d] = "flush" => c = d
  /\ RelayLimit \in Nat \ {0}
  /\ Wrap \in Nat /\ RelayLimit < Wrap
  /\ Types # {}
  /\ IsFiniteSet(Messages) /\ Cardinality(Messages) < Wrap  \* no 2^64 messages
  /\ MaxLosses \in Nat

VARIABLES contexts,    \* contexts[t]: the contexts made for t, the last one in the map
          needFlush, readyFlag,
          flushed,     \* the Notify of flush
          listening,   \* the calls that wait for a notify_waiters
          waiters,     \* requests with a waiter in the slab
          replied,     \* requests whose oneshot has received
          loop,        \* where the event loop is
          freeing,     \* the type whose context it handles
          events,      \* the events of the relay that the loop has not taken
          inner,       \* what the relay has taken and not answered
          accepting,   \* whether the relay takes anything
          lost,        \* history: what it lost
          init,        \* how far the relay is with its Init, "done" from the
                       \* start if no call looks at ready_flag
          pc,          \* where a call is
          held         \* the index of the context that counts its slot, 0 if none

wrapperVars == <<contexts, needFlush, readyFlag, flushed, listening, waiters, replied>>
loopVars == <<loop, freeing, events>>
innerVars == <<inner, accepting, lost, init>>
callVars == <<pc, held>>
vars == <<wrapperVars, loopVars, innerVars, callVars>>

AllKinds == {"ready", "synchronized", "closed"}
Fresh == [processing |-> 0, response |-> Quiet]

Init ==
  /\ contexts = [t \in Types |-> <<>>]
  /\ needFlush = FALSE
  /\ readyFlag = FALSE
  /\ flushed = Quiet
  /\ listening = [k \in AllKinds |-> {}]
  /\ waiters = {}
  /\ replied = {}
  /\ loop = "next"
  /\ freeing = CHOOSE t \in Types : TRUE
  /\ events = <<>>
  /\ inner = {}
  /\ accepting = TRUE
  /\ lost = {}
  /\ \E made \in Scripts :
       /\ pc = [c \in Calls |-> IF c \in made THEN "start" ELSE "unmade"]
       /\ init = IF \E c \in made : Op[c] = "ready" THEN "first" ELSE "done"
  /\ held = [c \in Messages |-> 0]

Goes(c, to) == pc' = [pc EXCEPT ![c] = to]
Step(c, from, to) == pc[c] = from /\ Goes(c, to)
Newest(t) == contexts[t][Len(contexts[t])]

\* MUTANT: a counter may go below zero.
AddUnwrapped(t, i, n) ==
  contexts' = [contexts EXCEPT ![t][i].processing = @ + n]

\* fetch_add and fetch_sub on processing of the i-th context of t.
Add(t, i, n) ==
  contexts' = [contexts EXCEPT ![t][i].processing = (@ + n) % Wrap]

---------------------------------------------------------------------------
(* Messages: try_reserve, reserve_notify and what Receiver does with them.  *)

\* A request registers its waiter, then every call but force_send looks for
\* the context of its type.
Look(c) ==
  /\ Step(c, "start", IF contexts[TypeOf[c]] = <<>> THEN "insert" ELSE "reserve")
  /\ Op[c] \in MessageOps \ {"force_send"}
  /\ waiters' = IF Op[c] = "request" THEN waiters \cup {c} ELSE waiters
  /\ UNCHANGED <<contexts, needFlush, readyFlag, flushed, listening, replied, held,
                 loopVars, innerVars>>

\* The map is locked while the event loop handles a context that is in it.
Insert(c) ==
  /\ Step(c, "insert", "reserve")
  /\ ~(loop = "notify" /\ freeing = TypeOf[c])
  /\ contexts' = [contexts EXCEPT ![TypeOf[c]] = Append(@, Fresh)]
  /\ UNCHANGED <<needFlush, readyFlag, flushed, listening, waiters, replied, held,
                 loopVars, innerVars>>

\* MUTANT: the limit is compared with ">".
FullOffByOne(t) == Newest(t).processing > RelayLimit

Full(t) == Newest(t).processing >= RelayLimit

\* Whether the call is in the loop of reserve() and not parked there.
Reserving(c) ==
  \/ pc[c] = "reserve"
  \/ pc[c] = "parked" /\ c \in Messages /\ ~IsParked(contexts[TypeOf[c]][held[c]].response, c)

\* The compare-and-swap of try_reserve.  A try_send that finds the type full
\* returns, any other call goes on to wait.
Reserve(c) ==
  LET t == TypeOf[c] IN
  /\ Reserving(c)
  /\ IF Full(t)
     THEN /\ Goes(c, IF Op[c] = "try_send" THEN "full" ELSE "wait")
          /\ held' = [held EXCEPT ![c] = 0]
          /\ UNCHANGED contexts
     ELSE /\ Goes(c, "send")
          /\ Add(t, Len(contexts[t]), 1)
          /\ held' = [held EXCEPT ![c] = Len(contexts[t])]
  /\ UNCHANGED <<needFlush, readyFlag, flushed, listening, waiters, replied,
                 loopVars, innerVars>>

\* reserve_notify(tt).notified().await: the Notify of the newest context.
Wait(c) ==
  LET t == TypeOf[c]
      i == Len(contexts[t])
  IN  /\ Step(c, "wait", IF Newest(t).response.permit THEN "reserve" ELSE "parked")
      /\ contexts' = [contexts EXCEPT ![t][i].response = PollNotified(@, c)]
      /\ held' = [held EXCEPT ![c] = i]
      /\ UNCHANGED <<needFlush, readyFlag, flushed, listening, waiters, replied,
                     loopVars, innerVars>>

\* MUTANT: a Permit that is dropped keeps its slot.
DropPermitLeaks(c) ==
  /\ Step(c, "send", "full")
  /\ Op[c] = "try_send"
  /\ held' = [held EXCEPT ![c] = 0]
  /\ UNCHANGED <<wrapperVars, loopVars, innerVars>>

\* permit_drop: another receiver of a try_send was full.
DropPermit(c) ==
  /\ Step(c, "send", "full")
  /\ Op[c] = "try_send"
  /\ Add(TypeOf[c], held[c], -1)
  /\ held' = [held EXCEPT ![c] = 0]
  /\ UNCHANGED <<needFlush, readyFlag, flushed, listening, waiters, replied,
                 loopVars, innerVars>>

\* increment_processing of force_send: nothing if the type has no context yet.
Bump(c) ==
  LET t == TypeOf[c] IN
  /\ Step(c, "start", "send")
  /\ Op[c] = "force_send"
  /\ held' = [held EXCEPT ![c] = Len(contexts[t])]
  /\ IF contexts[t] = <<>> THEN UNCHANGED contexts ELSE Add(t, Len(contexts[t]), 1)
  /\ UNCHANGED <<needFlush, readyFlag, flushed, listening, waiters, replied,
                 loopVars, innerVars>>

\* send_boxed: the relay takes the message, or refuses it; the slot is kept.
Send(c) ==
  /\ Step(c, "send", IF accepting THEN "mark" ELSE "refused")
  /\ inner' = IF accepting THEN inner \cup {c} ELSE inner
  /\ UNCHANGED <<wrapperVars, loopVars, accepting, lost, init, held>>

\* set_need_flush, sent or not.  Only a request looks at the error: a send whose
\* message was dropped returns Ok.
Mark(c) ==
  /\ pc[c] \in {"mark", "refused"}
  /\ Goes(c, IF pc[c] = "refused" THEN "failed"
             ELSE IF Op[c] = "request" THEN "await" ELSE "done")
  /\ needFlush' = TRUE
  /\ UNCHANGED <<contexts, readyFlag, flushed, listening, waiters, replied, held,
                 loopVars, innerVars>>

Answered(c) ==
  /\ Step(c, "await", "done")
  /\ c \in replied
  /\ UNCHANGED <<wrapperVars, loopVars, innerVars, held>>

MessageStep(c) ==
  /\ c \in Messages
  /\ \/ Look(c) \/ Insert(c) \/ Reserve(c) \/ Wait(c) \/ DropPermit(c) \/ Bump(c)
     \/ Send(c) \/ Mark(c) \/ Answered(c)

---------------------------------------------------------------------------
(* flush, sync, ready and close.                                           *)

\* flush: a round while need_flush is set.  A relay that refuses the action
\* leaves it set, and the rounds come to their end.
Flush(c) ==
  /\ Step(c, "start", IF ~needFlush THEN "done" ELSE IF accepting THEN "poll" ELSE "failed")
  /\ Op[c] = "flush"
  /\ inner' = IF needFlush /\ accepting THEN inner \cup {c} ELSE inner
  /\ UNCHANGED <<wrapperVars, loopVars, accepting, lost, init, held>>

PollFlushed(c) ==
  /\ Step(c, "poll", IF flushed.permit THEN "start" ELSE "parked")
  /\ flushed' = PollNotified(flushed, c)
  /\ UNCHANGED <<contexts, needFlush, readyFlag, listening, waiters, replied, held,
                 loopVars, innerVars>>

UnparkFlushed(c) ==
  /\ Step(c, "parked", "start")
  /\ Op[c] = "flush"
  /\ ~IsParked(flushed, c)
  /\ UNCHANGED <<wrapperVars, loopVars, innerVars, held>>

Kind(c) == CASE Op[c] = "ready" -> "ready"
             [] Op[c] = "sync"  -> "synchronized"
             [] OTHER           -> "closed"

\* notified() comes first, then the action or the look at the flag.
Register(c) ==
  /\ Step(c, "start", "registered")
  /\ Op[c] \in ControlOps \ {"flush"}
  /\ listening' = [listening EXCEPT ![Kind(c)] = @ \cup {c}]
  /\ UNCHANGED <<contexts, needFlush, readyFlag, flushed, waiters, replied, held,
                 loopVars, innerVars>>

Act(c) ==
  LET waits == IF Op[c] = "ready" THEN ~readyFlag ELSE accepting IN
  /\ Step(c, "registered", IF waits THEN "listen" ELSE "done")
  /\ inner' = IF Op[c] # "ready" /\ accepting THEN inner \cup {c} ELSE inner
  /\ listening' = IF waits THEN listening ELSE [listening EXCEPT ![Kind(c)] = @ \ {c}]
  /\ UNCHANGED <<contexts, needFlush, readyFlag, flushed, waiters, replied, held,
                 loopVars, accepting, lost, init>>

Awake(c) ==
  /\ Step(c, "listen", "done")
  /\ c \notin listening[Kind(c)]
  /\ UNCHANGED <<wrapperVars, loopVars, innerVars, held>>

\* close gives the relay up after 20 seconds.
TimeOut(c) ==
  /\ Step(c, "listen", "done")
  /\ Op[c] = "close"
  /\ listening' = [listening EXCEPT !.closed = @ \ {c}]
  /\ UNCHANGED <<contexts, needFlush, readyFlag, flushed, waiters, replied, held,
                 loopVars, innerVars>>

ControlStep(c) ==
  Flush(c) \/ PollFlushed(c) \/ UnparkFlushed(c) \/ Register(c) \/ Act(c) \/ Awake(c)

---------------------------------------------------------------------------
(* The event loop of start_polling, split where it touches shared state.   *)

TakeEvent(kind) ==
  /\ loop = "next"
  /\ events # <<>>
  /\ Head(events).kind = kind
  /\ events' = Tail(events)

Wake(kind) == listening' = [listening EXCEPT ![kind] = {}]

\* MUTANT: the flag is stored, and nobody is notified.
OnInitSilent(kind) ==
  /\ TakeEvent(kind)
  /\ loop' = kind
  /\ UNCHANGED <<wrapperVars, freeing, innerVars, callVars>>

\* Ready and InitFailed: the calls that wait are notified, then the flag is stored.
OnInit(kind) ==
  /\ TakeEvent(kind)
  /\ Wake("ready")
  /\ loop' = kind
  /\ UNCHANGED <<contexts, needFlush, readyFlag, flushed, waiters, replied, freeing,
                 innerVars, callVars>>

StoreReady ==
  /\ loop \in {"ready", "failed"}
  /\ readyFlag' = (loop = "ready")
  /\ loop' = "next"
  /\ UNCHANGED <<contexts, needFlush, flushed, listening, waiters, replied, freeing,
                 events, innerVars, callVars>>

OnPause ==
  /\ TakeEvent("pause")
  /\ readyFlag' = FALSE
  /\ UNCHANGED <<contexts, needFlush, flushed, listening, waiters, replied, loop,
                 freeing, innerVars, callVars>>

\* Flushed: need_flush is cleared, then one flush is notified.
OnFlushed ==
  /\ TakeEvent("flush")
  /\ needFlush' = FALSE
  /\ loop' = "flushed"
  /\ UNCHANGED <<contexts, readyFlag, flushed, listening, waiters, replied, freeing,
                 innerVars, callVars>>

\* MUTANT: nobody is notified.
NotifyFlushedNobody ==
  /\ loop = "flushed"
  /\ loop' = "next"
  /\ UNCHANGED <<wrapperVars, freeing, events, innerVars, callVars>>

NotifyFlushed ==
  /\ loop = "flushed"
  /\ flushed' = NotifyOne(flushed)
  /\ loop' = "next"
  /\ UNCHANGED <<contexts, needFlush, readyFlag, listening, waiters, replied, freeing,
                 events, innerVars, callVars>>

OnSynchronized ==
  /\ TakeEvent("sync")
  /\ Wake("synchronized")
  /\ UNCHANGED <<contexts, needFlush, readyFlag, flushed, waiters, replied, loop,
                 freeing, innerVars, callVars>>

\* Exited, or the end of the stream.
EndLoop ==
  /\ TakeEvent("close")
  /\ Wake("closed")
  /\ loop' = "ended"
  /\ UNCHANGED <<contexts, needFlush, readyFlag, flushed, waiters, replied, freeing,
                 innerVars, callVars>>

\* Response: the waiter gets it.  What is freed afterwards is a slot of the
\* type of the response: none if it is an error, which has no type.
OnResponse ==
  /\ TakeEvent("request")
  /\ LET q == Head(events).call
     IN  /\ waiters' = waiters \ {q}
         /\ replied' = replied \cup ({q} \cap waiters)
         /\ freeing' = ResponseOf[q]
         /\ loop' = IF Head(events).ok /\ contexts[ResponseOf[q]] # <<>>
                    THEN "free" ELSE "next"
  /\ UNCHANGED <<contexts, needFlush, readyFlag, flushed, listening, innerVars, callVars>>

FreeSlot ==
  /\ loop = "free"
  /\ Add(freeing, Len(contexts[freeing]), -1)
  /\ loop' = "notify"
  /\ UNCHANGED <<needFlush, readyFlag, flushed, listening, waiters, replied, freeing,
                 events, innerVars, callVars>>

\* BatchComplete(tt, 1): a slot of tt is freed if tt has a context.
OnBatchComplete ==
  /\ TakeEvent("send")
  /\ LET t == TypeOf[Head(events).call]
     IN  /\ freeing' = t
         /\ loop' = IF contexts[t] # <<>> THEN "notify" ELSE "next"
         /\ IF contexts[t] # <<>> THEN Add(t, Len(contexts[t]), -1) ELSE UNCHANGED contexts
  /\ UNCHANGED <<needFlush, readyFlag, flushed, listening, waiters, replied, innerVars,
                 callVars>>

NotifyResponse ==
  /\ loop = "notify"
  /\ contexts' = [contexts EXCEPT ![freeing][Len(contexts[freeing])].response = NotifyOne(@)]
  /\ loop' = "next"
  /\ UNCHANGED <<needFlush, readyFlag, flushed, listening, waiters, replied, freeing,
                 events, innerVars, callVars>>

LoopStep ==
  \/ OnInit("ready") \/ OnInit("failed") \/ StoreReady \/ OnPause
  \/ OnFlushed \/ NotifyFlushed \/ OnSynchronized \/ EndLoop
  \/ OnResponse \/ FreeSlot \/ OnBatchComplete \/ NotifyResponse

---------------------------------------------------------------------------
(* The relay itself: what comes out of its event stream.                   *)

Emits(e) == loop # "ended" /\ events' = Append(events, e)

\* It answers what it took: a plain send with a BatchComplete, a request with a
\* response or an error, an action with the event of its name.
Answer(c) ==
  /\ c \in inner
  /\ inner' = inner \ {c}
  /\ \E ok \in BOOLEAN :
       /\ ok \/ Op[c] = "request"
       /\ Emits([kind |-> IF Op[c] \in {"try_send", "force_send"} THEN "send" ELSE Op[c],
                 call |-> c, ok |-> ok])
  /\ accepting' = (accepting /\ Op[c] # "close")
  /\ UNCHANGED <<wrapperVars, loop, freeing, lost, init, callVars>>

\* It loses a message or an action on its way to the other side or back.
Lose(c) ==
  /\ c \in inner
  /\ Op[c] # "close"
  /\ Cardinality(lost) < MaxLosses
  /\ inner' = inner \ {c}
  /\ lost' = lost \cup {c}
  /\ UNCHANGED <<wrapperVars, loopVars, accepting, init, callVars>>

\* Its stream ends, or it sends Exited, without having been closed.
Exit ==
  /\ accepting
  /\ MaxLosses > 0
  /\ accepting' = FALSE
  /\ Emits([kind |-> "close"])
  /\ UNCHANGED <<wrapperVars, loop, freeing, inner, lost, init, callVars>>

\* It connects, or fails to; a connection may break and be made again.
Connect ==
  /\ init \in {"first", "paused"}
  /\ \/ Emits([kind |-> "ready"]) /\ init' = IF init = "first" THEN "up" ELSE "done"
     \/ Emits([kind |-> "failed"]) /\ init' = "done"
  /\ UNCHANGED <<wrapperVars, loop, freeing, inner, accepting, lost, callVars>>

Disconnect ==
  /\ init = "up"
  /\ Emits([kind |-> "pause"])
  /\ init' = "paused"
  /\ UNCHANGED <<wrapperVars, loop, freeing, inner, accepting, lost, callVars>>

---------------------------------------------------------------------------
Returned(c) == pc[c] \in {"unmade", "done", "full", "failed"}

Finished ==
  /\ \A c \in Calls : Returned(c)
  /\ UNCHANGED vars

Next ==
  \/ \E c \in Calls : MessageStep(c) \/ ControlStep(c) \/ TimeOut(c) \/ Answer(c) \/ Lose(c)
  \/ LoopStep \/ Exit \/ Connect \/ Disconnect \/ Finished

\* The runtime polls a call, the event loop and the relay whenever they can go on.
\* Nothing has to be lost or to break.
Fairness ==
  /\ \A c \in Calls : WF_vars(MessageStep(c) \/ ControlStep(c)) /\ WF_vars(Answer(c))
  /\ WF_vars(LoopStep) /\ WF_vars(Connect)

Spec == Init /\ [][Next]_vars /\ Fairness

---------------------------------------------------------------------------
\* The shape of the state.
TypeOK ==
  /\ \A t \in Types : \A i \in DOMAIN contexts[t] : contexts[t][i].processing \in 0..(Wrap - 1)
  /\ needFlush \in BOOLEAN /\ readyFlag \in BOOLEAN
  /\ replied \subseteq Messages /\ waiters \subseteq Messages \ replied
  /\ freeing \in Types
  /\ loop = "notify" => contexts[freeing] # <<>>
  /\ \A c \in Messages : held[c] \in 0..Len(contexts[TypeOf[c]])

Eventful == {events[i].call : i \in {j \in DOMAIN events : "call" \in DOMAIN events[j]}}

\* Whether the slot of c is still to be given back: a request never gives its
\* slot back, a plain send does when the loop handles its BatchComplete.
KeepsSlot(c) ==
  /\ held[c] # 0
  /\ \/ pc[c] \in {"send", "refused", "failed"}
     \/ pc[c] \in {"mark", "await", "done"} /\ Op[c] = "request"
     \/ c \in inner \cup lost \cup Eventful
KeptSlots(t) == {c \in Messages : TypeOf[c] = t /\ KeepsSlot(c)}

\* The types whose counter is only used as it was meant to: one context, no
\* force_send from before it was made, no request that is answered with the type.
Plain(t) ==
  /\ Len(contexts[t]) = 1
  /\ \A c \in Messages : TypeOf[c] = t /\ Op[c] = "force_send" =>
       held[c] # 0 \/ pc[c] \in {"unmade", "start"}
  /\ \A q \in DOMAIN ResponseOf : ResponseOf[q] = t => pc[q] = "unmade"

\* The counter of a plain type is the number of its messages that the relay has
\* not answered, of the Permits in hand, and of all its requests, answered or not.
Accounting ==
  \A t \in Types : Plain(t) => Newest(t).processing = Cardinality(KeptSlots(t))

\* A relay never has more than its limit of unanswered sends of a plain type that
\* were not forced on it.
Backpressure ==
  \A t \in Types : Plain(t) =>
    Cardinality({c \in inner \cap Messages : TypeOf[c] = t /\ Op[c] # "force_send"}) <= RelayLimit

\* Why call c may be parked for a slot of its type for ever: at a context that has
\* been replaced; a try_send gave its slot back without a word; requests, refused
\* and lost messages keep all slots; or the counter is off.
NoSlotEver(c) ==
  LET t == TypeOf[c] IN
  \/ held[c] # Len(contexts[t])
  \/ ~Full(t) /\ \E x \in Messages : TypeOf[x] = t /\ pc[x] = "full"
  \/ Cardinality({m \in KeptSlots(t) : Op[m] = "request" \/ m \in lost \/ pc[m] = "failed"})
       >= RelayLimit
  \/ Full(t) /\ ~Plain(t)

\* Why a call may wait for ever: the loop that would wake it is over, which close
\* never waits for in vain; what it waits for was lost; or there is no slot for it.
Excused(c) ==
  \/ Op[c] # "close" /\ loop = "ended" /\ pc[c] \in {"parked", "await", "listen"}
  \/ c \in lost
  \/ c \in Messages /\ pc[c] = "parked" /\ NoSlotEver(c)

Readies == {c \in Calls : Op[c] = "ready"}

\* A ready that has registered after the last notification of Ready or InitFailed
\* and looks at the flag before it is set, or when the relay has failed for good.
MissesReady(c) ==
  /\ pc[c] = "registered" /\ c \in listening.ready
  /\ ~readyFlag
  /\ \/ loop = "ready"
     \/ init = "done" /\ \A i \in DOMAIN events : events[i].kind \notin {"ready", "failed"}

\* Every call comes to its end or is excused for good, but for a ready whose own
\* registration misses the notification: one registered earlier is woken.
CallsSettle ==
  /\ <>[](\A c \in Calls \ Readies : Returned(c) \/ Excused(c))
  /\ \A c \in Readies : <>[](Returned(c) \/ Excused(c)) \/ <>MissesReady(c)
=============================================================================
