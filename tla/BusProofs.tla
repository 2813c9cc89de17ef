------------------------------ MODULE BusProofs ------------------------------
(***************************************************************************)
(* What the calls and the event loops of every bus keep, whatever pollers  *)
(* its receivers have: the types, every call at a receiver of its route,   *)
(* each message in a channel exactly as its copy says and once, and the    *)
(* counters of slots in agreement with the messages on their way.          *)
(***************************************************************************)
EXTENDS Bus, FiniteSetTheorems, SequenceTheorems, TLAPS

\* The types of all but the pollers.
CommonTypeOK ==
  /\ MailTypeOK
  /\ WrapperTypeOK
  /\ BusTypeOK

---------------------------------------------------------------------------
(* Mailbox *)

LEMMA MoveType ==
  ASSUME MailTypeOK, NEW r \in Receivers, NEW c \in Messages, NEW p \in Place,
         Move(r, c, p)
  PROVE  at' \in [Receivers -> [Messages -> Place]]
BY DEF MailTypeOK, Move

LEMMA ReceiveType ==
  ASSUME MailTypeOK, NEW r \in Receivers, Receive(r)
  PROVE  queue' \in [Receivers -> Seq(Messages \cup Actions)]
<1>1. queue[r] \in Seq(Messages \cup Actions) /\ queue[r] # <<>>
  BY DEF MailTypeOK, Receive
<1>2. Tail(queue[r]) \in Seq(Messages \cup Actions)
  BY <1>1
<1>3. QED
  BY <1>2 DEF MailTypeOK, Receive

LEMMA AppendQueueType ==
  ASSUME MailTypeOK, NEW r \in Receivers, NEW x \in Messages \cup Actions,
         queue' = [queue EXCEPT ![r] = Append(@, x)]
  PROVE  queue' \in [Receivers -> Seq(Messages \cup Actions)]
<1>1. Append(queue[r], x) \in Seq(Messages \cup Actions)
  BY DEF MailTypeOK
<1>2. QED
  BY <1>1 DEF MailTypeOK

LEMMA AppendEventType ==
  ASSUME MailTypeOK, NEW r \in Receivers, NEW x \in Messages \cup Signals,
         events' = [events EXCEPT ![r] = Append(@, x)]
  PROVE  events' \in [Receivers -> Seq(Messages \cup Signals)]
<1>1. Append(events[r], x) \in Seq(Messages \cup Signals)
  BY DEF MailTypeOK
<1>2. QED
  BY <1>1 DEF MailTypeOK

LEMMA TakeEventType ==
  ASSUME MailTypeOK, NEW r \in Receivers, NEW x, TakeEvent(r, x)
  PROVE  events' \in [Receivers -> Seq(Messages \cup Signals)]
<1>1. events[r] \in Seq(Messages \cup Signals) /\ events[r] # <<>>
  BY DEF MailTypeOK, TakeEvent
<1>2. Tail(events[r]) \in Seq(Messages \cup Signals)
  BY <1>1
<1>3. QED
  BY <1>2 DEF MailTypeOK, TakeEvent

LEMMA SendMessageType ==
  ASSUME MailTypeOK, NEW r \in Receivers, NEW c \in Messages, SendMessage(r, c)
  PROVE  MailTypeOK'
<1>1. CASE rx[r] = "open"
  BY <1>1, MoveType, AppendQueueType DEF SendMessage, MailTypeOK, Place
<1>2. CASE rx[r] # "open"
  BY <1>2, MoveType DEF SendMessage, MailTypeOK, Place
<1>3. QED
  BY <1>1, <1>2

LEMMA SendActionType ==
  ASSUME MailTypeOK, NEW r \in Receivers, NEW a \in Actions, SendAction(r, a)
  PROVE  MailTypeOK'
BY AppendQueueType DEF SendAction, MailTypeOK

---------------------------------------------------------------------------
(* Notify and the wrapper *)

LEMMA NotifyOneType ==
  ASSUME NEW n \in NotifyState
  PROVE  NotifyOne(n) \in NotifyState
<1>1. CASE n.waiting = <<>>
  BY <1>1 DEF NotifyOne, NotifyState
<1>2. CASE n.waiting # <<>>
  <2>1. Tail(n.waiting) \in Seq(Calls)
    BY <1>2 DEF NotifyState
  <2>2. QED
    BY <1>2, <2>1 DEF NotifyOne, NotifyState
<1>3. QED
  BY <1>1, <1>2

LEMMA PollNotifiedType ==
  ASSUME NEW n \in NotifyState, NEW c \in Calls
  PROVE  PollNotified(n, c) \in NotifyState
<1>1. Append(n.waiting, c) \in Seq(Calls)
  BY DEF NotifyState
<1>2. QED
  BY <1>1 DEF PollNotified, NotifyState

LEMMA PollType ==
  ASSUME WrapperTypeOK, NEW r \in Receivers, NEW k \in OneKinds, NEW c \in Calls,
         Poll(r, k, c)
  PROVE  notify' \in [Receivers -> [OneKinds -> NotifyState]]
<1>1. PollNotified(notify[r][k], c) \in NotifyState
  BY PollNotifiedType DEF WrapperTypeOK
<1>2. QED
  BY <1>1 DEF WrapperTypeOK, Poll

LEMMA NotifyType ==
  ASSUME WrapperTypeOK, NEW r \in Receivers, NEW k \in OneKinds,
         notify' = [notify EXCEPT ![r][k] = NotifyOne(@)]
  PROVE  notify' \in [Receivers -> [OneKinds -> NotifyState]]
<1>1. NotifyOne(notify[r][k]) \in NotifyState
  BY NotifyOneType DEF WrapperTypeOK
<1>2. QED
  BY <1>1 DEF WrapperTypeOK

LEMMA ListeningType ==
  ASSUME WrapperTypeOK, NEW r \in Receivers, NEW k \in AllKinds,
         \/ Wake(r, k)
         \/ \E c \in Calls : Listen(r, k, c) \/ Unlisten(r, k, c)
  PROVE  listening' \in [Receivers -> [AllKinds -> SUBSET Calls]]
<1>1. \A c \in Calls : /\ listening[r][k] \cup {c} \in SUBSET Calls
                       /\ listening[r][k] \ {c} \in SUBSET Calls
  BY DEF WrapperTypeOK
<1>2. CASE Wake(r, k)
  BY <1>2 DEF WrapperTypeOK, Wake
<1>3. ASSUME NEW c \in Calls, Listen(r, k, c)
      PROVE  listening' \in [Receivers -> [AllKinds -> SUBSET Calls]]
  BY <1>1, <1>3 DEF WrapperTypeOK, Listen
<1>4. ASSUME NEW c \in Calls, Unlisten(r, k, c)
      PROVE  listening' \in [Receivers -> [AllKinds -> SUBSET Calls]]
  BY <1>1, <1>4 DEF WrapperTypeOK, Unlisten
<1>5. QED
  BY <1>2, <1>3, <1>4

---------------------------------------------------------------------------
(* The state a call keeps for itself. *)

\* The types of localVars; every call is at a receiver of its route.
LocalOK ==
  /\ pc \in [Calls -> CallPlace]
  /\ pos \in [Calls -> Nat \ {0}]
  /\ round \in [Calls -> 1..Fuse]
  /\ again \in [Calls -> BOOLEAN]
  /\ outcome \in [Calls -> Outcome]
  /\ before \in [Controls -> SUBSET Messages]
  /\ Visiting

LEMMA AtReceiver ==
  ASSUME Visiting, NEW c \in Calls
  PROVE  At(c) \in Receivers
BY BusAssumption DEF Visiting, At

LEMMA GoesType ==
  ASSUME LocalOK, NEW c \in Calls, NEW to \in CallPlace, Goes(c, to), StaysLocal
  PROVE  LocalOK'
BY DEF LocalOK, Goes, StaysLocal, Visiting

LEMMA ReturnType ==
  ASSUME LocalOK, NEW c \in Calls, NEW result \in Outcome, Return(c, result)
  PROVE  LocalOK'
BY DEF LocalOK, Return, Goes, CallPlace, Visiting

LEMMA VisitType ==
  ASSUME LocalOK, NEW c \in Calls, NEW to \in CallPlace, Visit(c, to), ~IsLast(c)
  PROVE  LocalOK'
<1>1. Route[c] \in Seq(Receivers) /\ pos[c] \in DOMAIN Route[c]
  BY BusAssumption DEF LocalOK, Visiting
<1>2. pos[c] + 1 \in DOMAIN Route[c] /\ pos[c] + 1 \in Nat \ {0}
  BY <1>1 DEF IsLast
<1>3. QED
  BY <1>2 DEF LocalOK, Visit, Goes, Visiting

LEMMA RewindType ==
  ASSUME LocalOK, NEW c \in Calls, NEW to \in CallPlace, Rewind(c, to)
  PROVE  LocalOK'
<1>1. 1 \in DOMAIN Route[c]
  BY BusAssumption
<1>2. QED
  BY <1>1 DEF LocalOK, Rewind, Goes, Visiting

LEMMA EntryType ==
  ASSUME NEW c \in Calls
  PROVE  Entry(c) \in CallPlace
BY DEF Entry, CallPlace

LEMMA EnterType ==
  ASSUME LocalOK, NEW c \in Calls, Enter(c)
  PROVE  LocalOK'
<1>1. before' \in [Controls -> SUBSET Messages]
  BY DEF LocalOK, Enter
<1>2. QED
  BY <1>1, EntryType DEF LocalOK, Enter, Goes, Visiting

LEMMA NextRoundType ==
  ASSUME LocalOK, NEW c \in Calls, NextRound(c)
  PROVE  LocalOK'
<1>1. CASE round[c] = Fuse
  BY <1>1, ReturnType DEF NextRound, Outcome
<1>2. CASE round[c] # Fuse
  <2>1. 1 \in DOMAIN Route[c]
    BY BusAssumption
  <2>2. round[c] + 1 \in 1..Fuse
    BY <1>2, BusAssumption DEF LocalOK
  <2>3. round' \in [Calls -> 1..Fuse]
    BY <1>2, <2>2 DEF LocalOK, NextRound
  <2>4. pc' \in [Calls -> CallPlace]
    BY <1>2 DEF LocalOK, NextRound, Goes, CallPlace
  <2>5. pos' \in [Calls -> Nat \ {0}] /\ Visiting'
    BY <1>2, <2>1 DEF LocalOK, NextRound, Visiting
  <2>6. QED
    BY <1>2, <2>3, <2>4, <2>5 DEF LocalOK, NextRound
<1>3. QED
  BY <1>1, <1>2

LEMMA OnwardType ==
  ASSUME LocalOK, NEW c \in Controls, Onward(c), maintain \in SUBSET Controls
  PROVE  LocalOK' /\ maintain' \in SUBSET Controls
<1>0. c \in Calls
  BY DEF Calls
<1>1. maintain' \in SUBSET Controls
  BY DEF Onward
<1>2. CASE ~IsLast(c)
  BY <1>0, <1>2, VisitType, EntryType DEF Onward
<1>3. CASE IsLast(c) /\ again[c]
  BY <1>0, <1>3, NextRoundType DEF Onward
<1>4. CASE IsLast(c) /\ ~again[c]
  BY <1>0, <1>4, ReturnType DEF Onward, Outcome
<1>5. QED
  BY <1>1, <1>2, <1>3, <1>4

LEMMA SendNextType ==
  ASSUME LocalOK, NEW c \in Messages, SendNext(c)
  PROVE  LocalOK'
<1>0. c \in Calls
  BY DEF Calls
<1>1. CASE Return(c, "closed") \/ Return(c, "ok")
  BY <1>0, <1>1, ReturnType DEF Outcome
<1>2. CASE Goes(c, "await") /\ StaysLocal
  BY <1>0, <1>2, GoesType DEF CallPlace
<1>3. CASE ~IsLast(c) /\ \E to \in CallPlace : Visit(c, to)
  BY <1>0, <1>3, VisitType
<1>4. QED
  BY <1>0, <1>1, <1>2, <1>3, EntryType DEF SendNext, CallPlace

---------------------------------------------------------------------------
(* The calls that carry a message. *)

LEMMA StartSendType ==
  ASSUME CommonTypeOK, LocalOK, NEW c \in Messages, StartSend(c), UNCHANGED loop
  PROVE  /\ MailTypeOK' /\ WrapperTypeOK' /\ LocalOK'
         /\ idCounter' \in Nat /\ UNCHANGED <<closed, maintain, timedOut>>
<1>0. c \in Calls
  BY DEF Calls
<1>1. LocalOK'
  BY <1>0, ReturnType, EnterType DEF StartSend, Outcome
<1>2. MailTypeOK'
  BY DEF StartSend, CommonTypeOK, MailTypeOK, mailVars
<1>3. idCounter' \in Nat /\ mid' \in [Messages -> Nat \cup Messages]
  <2>1. idCounter \in Nat \cup Messages /\ idCounter + 1 \in Nat
    BY DEF CommonTypeOK, BusTypeOK
  <2>2. idCounter' \in Nat
    BY <2>1 DEF StartSend, CommonTypeOK, BusTypeOK
  <2>3. mid' = mid \/ mid' = [mid EXCEPT ![c] = idCounter]
    BY DEF StartSend
  <2>4. QED
    BY <2>1, <2>2, <2>3 DEF CommonTypeOK, WrapperTypeOK
<1>4. WrapperTypeOK'
  BY <1>3 DEF StartSend, CommonTypeOK, WrapperTypeOK, contextVars, notifyVars
<1>5. QED
  BY <1>1, <1>2, <1>3, <1>4 DEF StartSend

LEMMA StartRequestType ==
  ASSUME CommonTypeOK, LocalOK, NEW c \in Messages, StartRequest(c), UNCHANGED loop
  PROVE  MailTypeOK' /\ WrapperTypeOK' /\ LocalOK' /\ UNCHANGED sharedVars
<1>0. c \in Calls /\ At(c) \in Receivers
  BY AtReceiver DEF Calls, LocalOK
<1>1. LocalOK'
  BY <1>0, EnterType DEF StartRequest
<1>2. MailTypeOK'
  BY DEF StartRequest, CommonTypeOK, MailTypeOK, mailVars
<1>3. /\ waiters' \in [Receivers -> SUBSET Messages]
      /\ slab' \in [Receivers -> Nat]
      /\ mid' \in [Messages -> Nat \cup Messages]
  <2>1. waiters[At(c)] \cup {c} \in SUBSET Messages /\ slab[At(c)] \in Nat
    BY <1>0 DEF CommonTypeOK, WrapperTypeOK
  <2>2. waiters' \in [Receivers -> SUBSET Messages]
    BY <1>0, <2>1 DEF StartRequest, AddWaiter, CommonTypeOK, WrapperTypeOK
  <2>3. slab' \in [Receivers -> Nat]
    BY <1>0, <2>1, slab[At(c)] + 1 \in Nat DEF StartRequest, AddWaiter, CommonTypeOK, WrapperTypeOK
  <2>4. \E key \in Nat \cup Messages : mid' = [mid EXCEPT ![c] = key]
    BY <2>1 DEF StartRequest, AddWaiter
  <2>5. mid' \in [Messages -> Nat \cup Messages]
    BY <2>4 DEF CommonTypeOK, WrapperTypeOK
  <2>6. QED
    BY <2>2, <2>3, <2>5
<1>4. WrapperTypeOK'
  BY <1>3 DEF StartRequest, CommonTypeOK, WrapperTypeOK, contextVars, notifyVars
<1>5. QED
  BY <1>1, <1>2, <1>4 DEF StartRequest, sharedVars

LEMMA AbandonType ==
  ASSUME CommonTypeOK, LocalOK, NEW c \in Messages, Abandon(c), UNCHANGED loop
  PROVE  MailTypeOK' /\ WrapperTypeOK' /\ LocalOK' /\ UNCHANGED sharedVars
<1>0. c \in Calls
  BY DEF Calls
<1>1. LocalOK'
  BY <1>0, ReturnType DEF Abandon, Outcome
<1>2. QED
  BY <1>1 DEF Abandon, CommonTypeOK, MailTypeOK, WrapperTypeOK, mailVars, contextVars,
              notifyVars, sharedVars

LEMMA MessageType ==
  ASSUME CommonTypeOK, LocalOK, RouteInv, NEW c \in Messages, MessageStep(c),
         UNCHANGED loop
  PROVE  MailTypeOK' /\ WrapperTypeOK' /\ LocalOK' /\ UNCHANGED sharedVars
<1>0. c \in Calls /\ At(c) \in Receivers
  BY AtReceiver DEF Calls, LocalOK
<1>1. CASE Reserve(c)
  <2>1. LocalOK'
    BY <1>0, <1>1, GoesType DEF Reserve, CallPlace
  <2>2. MailTypeOK'
    BY <1>0, <1>1, MoveType DEF Reserve, TakeSlot, Place, CommonTypeOK, MailTypeOK
  <2>3. WrapperTypeOK'
    BY <1>0, <1>1 DEF Reserve, TakeSlot, CommonTypeOK, WrapperTypeOK, notifyVars, slabVars
  <2>4. QED
    BY <1>1, <2>1, <2>2, <2>3 DEF Reserve, sharedVars
<1>2. CASE PollReserve(c)
  <2>1. LocalOK'
    BY <1>0, <1>2, GoesType DEF PollReserve, Step, CallPlace
  <2>2. MailTypeOK'
    BY <1>2 DEF PollReserve, CommonTypeOK, MailTypeOK, mailVars
  <2>3. notify' \in [Receivers -> [OneKinds -> NotifyState]]
    BY <1>0, <1>2, PollType DEF PollReserve, OneKinds, CommonTypeOK
  <2>4. WrapperTypeOK'
    BY <1>2, <2>3 DEF PollReserve, CommonTypeOK, WrapperTypeOK, contextVars, slabVars
  <2>5. QED
    BY <1>2, <2>1, <2>2, <2>4 DEF PollReserve, sharedVars
<1>3. CASE TryReserve(c)
  <2>1. LocalOK'
    BY <1>0, <1>3, VisitType, RewindType DEF TryReserve, CallPlace
  <2>2. MailTypeOK'
    BY <1>0, <1>3, MoveType DEF TryReserve, TakeSlot, Place, CommonTypeOK, MailTypeOK
  <2>3. WrapperTypeOK'
    BY <1>0, <1>3 DEF TryReserve, TakeSlot, CommonTypeOK, WrapperTypeOK, notifyVars, slabVars
  <2>4. QED
    BY <1>3, <2>1, <2>2, <2>3 DEF TryReserve, sharedVars
<1>4. CASE DropPermit(c)
  <2>1. LocalOK'
    <3>1. CASE at[At(c)][c] = "permit"
      <4>1. pos[c] \in DOMAIN Route[c] /\ Route[c] \in Seq(Receivers)
        BY <1>0, BusAssumption DEF LocalOK, Visiting
      <4>2. PICK j \in DOMAIN Route[c] : j >= pos[c] /\ Copy(c, j) = "none"
        BY <1>4, <4>1 DEF RouteInv, Underway, DropPermit
      <4>3. j # pos[c]
        BY <3>1, <4>2 DEF Copy, At
      <4>4. ~IsLast(c)
        BY <4>1, <4>2, <4>3 DEF IsLast
      <4>5. QED
        BY <1>0, <1>4, <3>1, <4>4, VisitType DEF DropPermit, CallPlace
    <3>2. CASE at[At(c)][c] # "permit"
      BY <1>0, <1>4, <3>2, ReturnType DEF DropPermit, Outcome
    <3>3. QED
      BY <3>1, <3>2
  <2>2. MailTypeOK'
    BY <1>0, <1>4, MoveType DEF DropPermit, DropSlot, Place, CommonTypeOK, MailTypeOK
  <2>3. WrapperTypeOK'
    BY <1>0, <1>4 DEF DropPermit, DropSlot, CommonTypeOK, WrapperTypeOK, notifyVars, slabVars
  <2>4. QED
    BY <1>4, <2>1, <2>2, <2>3 DEF DropPermit, sharedVars
<1>5. CASE Bump(c)
  <2>1. LocalOK'
    BY <1>0, <1>5, GoesType DEF Bump, Step, CallPlace
  <2>2. MailTypeOK'
    BY <1>0, <1>5, MoveType DEF Bump, ForceSlot, Place, CommonTypeOK, MailTypeOK
  <2>3. WrapperTypeOK'
    BY <1>0, <1>5 DEF Bump, ForceSlot, CommonTypeOK, WrapperTypeOK, notifyVars, slabVars
  <2>4. QED
    BY <1>5, <2>1, <2>2, <2>3 DEF Bump, sharedVars
<1>6. CASE Send(c)
  <2>1. LocalOK'
    BY <1>0, <1>6, GoesType DEF Send, Step, CallPlace
  <2>2. MailTypeOK'
    BY <1>0, <1>6, SendMessageType DEF Send, CommonTypeOK
  <2>3. WrapperTypeOK'
    BY <1>6 DEF Send, SendMessage, CommonTypeOK, WrapperTypeOK, wrapperVars, contextVars,
                notifyVars, slabVars
  <2>4. QED
    BY <1>6, <2>1, <2>2, <2>3 DEF Send, sharedVars
<1>7. CASE Mark(c)
  <2>1. LocalOK'
    BY <1>0, <1>7, SendNextType DEF Mark
  <2>2. MailTypeOK'
    BY <1>7 DEF Mark, CommonTypeOK, MailTypeOK, mailVars
  <2>3. WrapperTypeOK'
    BY <1>0, <1>7 DEF Mark, CommonTypeOK, WrapperTypeOK, notifyVars
  <2>4. QED
    BY <1>7, <2>1, <2>2, <2>3 DEF Mark, sharedVars
<1>8. CASE Answered(c)
  <2>1. LocalOK'
    BY <1>0, <1>8, ReturnType DEF Answered, Outcome
  <2>2. QED
    BY <1>8, <2>1 DEF Answered, CommonTypeOK, MailTypeOK, WrapperTypeOK, mailVars,
                      wrapperVars, contextVars, notifyVars, slabVars,
                      sharedVars
<1>9. QED
  BY <1>1, <1>2, <1>3, <1>4, <1>5, <1>6, <1>7, <1>8 DEF MessageStep

---------------------------------------------------------------------------
(* The controls.  None of them touches a copy, a slot or a waiter. *)

\* The types of sharedVars.
SharedOK == idCounter \in Nat /\ closed \in BOOLEAN /\ maintain \in SUBSET Controls
            /\ timedOut \in SUBSET (Controls \X Receivers)

LEMMA FlushedType ==
  ASSUME LocalOK, SharedOK, NEW c \in Controls, Flushed(c)
  PROVE  LocalOK' /\ SharedOK'
<1>0. c \in Calls
  BY DEF Calls
<1>1. CASE Op[c] = "idle"
  BY <1>0, <1>1, GoesType DEF Flushed, CallPlace, SharedOK, sharedVars
<1>2. CASE Op[c] # "idle"
  BY <1>2, OnwardType DEF Flushed, SharedOK, Onward
<1>3. QED
  BY <1>1, <1>2

LEMMA KindType ==
  ASSUME NEW c \in Calls
  PROVE  Kind(c) \in AllKinds /\ ActionOf(c) \in Actions
BY DEF Kind, ActionOf, AllKinds, Actions

LEMMA ControlType ==
  ASSUME CommonTypeOK, LocalOK, NEW c \in Controls, UNCHANGED loop,
         StartControl(c) \/ StartClose(c) \/ TimeOut(c) \/ ControlStep(c)
  PROVE  MailTypeOK' /\ WrapperTypeOK' /\ LocalOK' /\ SharedOK'
<1>0. c \in Calls /\ At(c) \in Receivers /\ SharedOK
  BY AtReceiver DEF Calls, LocalOK, SharedOK, CommonTypeOK, BusTypeOK
<1> DEFINE Frame == UNCHANGED <<contextVars, slabVars, loop>>
<1>a. ASSUME Frame, notify' \in [Receivers -> [OneKinds -> NotifyState]],
             listening' \in [Receivers -> [AllKinds -> SUBSET Calls]]
      PROVE  WrapperTypeOK'
  BY <1>a DEF CommonTypeOK, WrapperTypeOK, contextVars, slabVars
<1>b. ASSUME UNCHANGED mailVars
      PROVE  MailTypeOK'
  BY <1>b DEF CommonTypeOK, MailTypeOK, mailVars
<1>c. ASSUME UNCHANGED wrapperVars
      PROVE  WrapperTypeOK'
  BY <1>c, <1>a DEF wrapperVars, notifyVars, CommonTypeOK, WrapperTypeOK
<1> HIDE DEF Frame
<1>1. CASE StartControl(c)
  BY <1>0, <1>1, <1>b, <1>c, EnterType DEF StartControl, SharedOK, sharedVars
<1>2. CASE StartClose(c)
  BY <1>0, <1>2, <1>b, <1>c, EnterType DEF StartClose, SharedOK
<1>3. CASE Check(c)
  <2>1. CASE needFlush[At(c)]
    <3>1. LocalOK'
      BY <1>0, <1>3, <2>1 DEF Check, LocalOK, Goes, CallPlace, Visiting
    <3>2. QED
      BY <1>0, <1>3, <2>1, <3>1, <1>b, <1>c DEF Check, SharedOK, sharedVars
  <2>2. CASE ~needFlush[At(c)]
    BY <1>0, <1>3, <2>2, <1>b, <1>c, OnwardType DEF Check, SharedOK, Onward
  <2>3. QED
    BY <2>1, <2>2
<1>4. CASE Register(c)
  <2>1. LocalOK' /\ SharedOK'
    BY <1>0, <1>4, GoesType DEF Register, Step, CallPlace, SharedOK, sharedVars
  <2>2. listening' \in [Receivers -> [AllKinds -> SUBSET Calls]]
    BY <1>0, <1>4, ListeningType, KindType DEF Register, CommonTypeOK
  <2>3. QED
    BY <1>4, <2>1, <2>2, <1>a, <1>b DEF Register, Frame, CommonTypeOK, WrapperTypeOK
<1>5. CASE Push(c)
  <2>1. LocalOK' /\ SharedOK'
    BY <1>0, <1>5, GoesType DEF Push, Step, CallPlace, SharedOK, sharedVars
  <2>2. MailTypeOK'
    BY <1>0, <1>5, SendActionType, KindType DEF Push, CommonTypeOK
  <2>3. QED
    BY <1>5, <2>1, <2>2, <1>c DEF Push
<1>6. CASE PushFails(c)
  <2>1. LocalOK' /\ SharedOK'
    BY <1>0, <1>6, FlushedType DEF PushFails, Flushed
  <2>2. listening' \in [Receivers -> [AllKinds -> SUBSET Calls]]
    BY <1>0, <1>6, ListeningType, KindType DEF PushFails, CommonTypeOK
  <2>3. QED
    BY <1>6, <2>1, <2>2, <1>a, <1>b DEF PushFails, Frame, CommonTypeOK, WrapperTypeOK
<1>7. CASE PollFlushed(c)
  <2>1. LocalOK' /\ SharedOK'
    BY <1>0, <1>7, FlushedType, GoesType DEF PollFlushed, CallPlace, SharedOK, sharedVars
  <2>2. notify' \in [Receivers -> [OneKinds -> NotifyState]]
    BY <1>0, <1>7, PollType DEF PollFlushed, OneKinds, CommonTypeOK
  <2>3. QED
    BY <1>7, <2>1, <2>2, <1>a, <1>b DEF PollFlushed, Frame, CommonTypeOK, WrapperTypeOK
<1>8. CASE UnparkFlushed(c)
  BY <1>0, <1>8, <1>b, <1>c, FlushedType DEF UnparkFlushed
<1>9. CASE CheckIdle(c)
  <2>1. LocalOK' /\ SharedOK'
    BY <1>0, <1>9, OnwardType, GoesType DEF CheckIdle, CallPlace, SharedOK, sharedVars, Onward
  <2>2. QED
    BY <1>9, <2>1, <1>b, <1>c DEF CheckIdle
<1>10. CASE CheckReady(c)
  <2>1. LocalOK' /\ SharedOK'
    BY <1>0, <1>10, OnwardType, GoesType DEF CheckReady, CallPlace, SharedOK, sharedVars, Onward
  <2>2. listening' \in [Receivers -> [AllKinds -> SUBSET Calls]]
    BY <1>0, <1>10, ListeningType, "ready" \in AllKinds
       DEF CheckReady, CommonTypeOK, WrapperTypeOK, AllKinds
  <2>3. QED
    BY <1>10, <2>1, <2>2, <1>a, <1>b DEF CheckReady, Frame, CommonTypeOK, WrapperTypeOK
<1>11. CASE Awake(c)
  BY <1>0, <1>11, <1>b, <1>c, OnwardType DEF Awake, SharedOK, Onward
<1>12. CASE TimeOut(c)
  <2>1. LocalOK' /\ SharedOK'
    <3>1. LocalOK' /\ maintain' \in SUBSET Controls
      BY <1>0, <1>12, OnwardType DEF TimeOut, SharedOK
    <3>2. timedOut' \in SUBSET (Controls \X Receivers)
      BY <1>0, <1>12 DEF TimeOut, SharedOK
    <3>3. UNCHANGED <<idCounter, closed>>
      BY <1>12 DEF TimeOut, Onward
    <3>4. QED
      BY <1>0, <3>1, <3>2, <3>3 DEF SharedOK
  <2>2. listening' \in [Receivers -> [AllKinds -> SUBSET Calls]]
    BY <1>0, <1>12, ListeningType DEF TimeOut, CommonTypeOK, AllKinds
  <2>3. QED
    BY <1>12, <2>1, <2>2, <1>a, <1>b DEF TimeOut, Frame, CommonTypeOK, WrapperTypeOK
<1>13. QED
  BY <1>1, <1>2, <1>3, <1>4, <1>5, <1>6, <1>7, <1>8, <1>9, <1>10, <1>11, <1>12
     DEF ControlStep

---------------------------------------------------------------------------
(* The event loop. *)

LEMMA LoopGoesType ==
  ASSUME WrapperTypeOK, NEW r \in Receivers, NEW from, NEW to \in LoopPlace,
         LoopGoes(r, from, to)
  PROVE  loop' \in [Receivers -> LoopPlace]
BY DEF WrapperTypeOK, LoopGoes

LEMMA LoopType ==
  ASSUME CommonTypeOK, NEW r \in Receivers, LoopStep(r)
  PROVE  MailTypeOK' /\ WrapperTypeOK'
<1>a. ASSUME UNCHANGED <<at, queue, rx, srx>>,
             events' \in [Receivers -> Seq(Messages \cup Signals)]
      PROVE  MailTypeOK'
  BY <1>a DEF CommonTypeOK, MailTypeOK
<1>b. ASSUME UNCHANGED mailVars
      PROVE  MailTypeOK'
  BY <1>b DEF CommonTypeOK, MailTypeOK, mailVars
<1>1. ASSUME NEW c \in Messages, OnResponse(r, c)
      PROVE  MailTypeOK' /\ WrapperTypeOK'
  <2>1. MailTypeOK'
    BY <1>1, MoveType, TakeEventType DEF OnResponse, TakeEvent, CommonTypeOK, MailTypeOK, Place
  <2>2. loop' \in [Receivers -> LoopPlace]
    BY <1>1, LoopGoesType DEF OnResponse, CommonTypeOK, LoopPlace
  <2>3. processing' \in [Receivers -> Int]
    BY <1>1 DEF OnResponse, CommonTypeOK, WrapperTypeOK
  <2>4. WrapperTypeOK'
    BY <1>1, <2>2, <2>3 DEF OnResponse, CommonTypeOK, WrapperTypeOK, notifyVars, slabVars
  <2>5. QED
    BY <2>1, <2>4
<1>2. ASSUME NEW c \in Messages, Deliver(r, c)
      PROVE  MailTypeOK' /\ WrapperTypeOK'
  <2>1. MailTypeOK'
    BY <1>2, MoveType DEF Deliver, CommonTypeOK, MailTypeOK, Place
  <2>2. loop' \in [Receivers -> LoopPlace]
    BY <1>2, LoopGoesType DEF Deliver, CommonTypeOK, LoopPlace
  <2>3. waiters' \in [Receivers -> SUBSET Messages]
    BY <1>2 DEF Deliver, CommonTypeOK, WrapperTypeOK
  <2>4. reply' \in [Messages -> SUBSET Messages]
    BY <1>2 DEF Deliver, CommonTypeOK, WrapperTypeOK
  <2>5. WrapperTypeOK'
    BY <1>2, <2>2, <2>3, <2>4 DEF Deliver, CommonTypeOK, WrapperTypeOK, contextVars, notifyVars
  <2>6. QED
    BY <2>1, <2>5
<1>3. ASSUME NEW c \in Messages, DeliverPanics(r, c)
      PROVE  MailTypeOK' /\ WrapperTypeOK'
  <2>1. at' \in [Receivers -> [Messages -> Place]]
    BY <1>3 DEF DeliverPanics, CommonTypeOK, MailTypeOK, Place
  <2>2. MailTypeOK'
    BY <1>3, <2>1, <<>> \in Seq(Messages \cup Signals) DEF DeliverPanics, CommonTypeOK, MailTypeOK
  <2>3. loop' \in [Receivers -> LoopPlace]
    BY <1>3, LoopGoesType DEF DeliverPanics, CommonTypeOK, LoopPlace
  <2>4. waiters' \in [Receivers -> SUBSET Messages]
    BY <1>3 DEF DeliverPanics, CommonTypeOK, WrapperTypeOK
  <2>5. WrapperTypeOK'
    BY <1>3, <2>3, <2>4 DEF DeliverPanics, CommonTypeOK, WrapperTypeOK, contextVars, notifyVars
  <2>6. QED
    BY <2>2, <2>5
<1>4. CASE NotifyIdle(r)
  <2>1. loop' \in [Receivers -> LoopPlace]
    BY <1>4, LoopGoesType DEF NotifyIdle, CommonTypeOK, LoopPlace
  <2>2. listening' \in [Receivers -> [AllKinds -> SUBSET Calls]]
    BY <1>4, ListeningType DEF NotifyIdle, CommonTypeOK, AllKinds
  <2>3. QED
    BY <1>4, <1>b, <2>1, <2>2 DEF NotifyIdle, CommonTypeOK, WrapperTypeOK, contextVars, slabVars
<1>5. CASE NotifyResponse(r)
  <2>1. loop' \in [Receivers -> LoopPlace]
    BY <1>5, LoopGoesType DEF NotifyResponse, CommonTypeOK, LoopPlace
  <2>2. notify' \in [Receivers -> [OneKinds -> NotifyState]]
    BY <1>5, NotifyType DEF NotifyResponse, CommonTypeOK, OneKinds
  <2>3. QED
    BY <1>5, <1>b, <2>1, <2>2 DEF NotifyResponse, CommonTypeOK, WrapperTypeOK, contextVars, slabVars
<1>6. CASE OnFlushed(r)
  <2>1. loop' \in [Receivers -> LoopPlace]
    BY <1>6, LoopGoesType DEF OnFlushed, CommonTypeOK, LoopPlace
  <2>2. MailTypeOK'
    BY <1>6, <1>a, TakeEventType DEF OnFlushed, TakeEvent, CommonTypeOK
  <2>3. QED
    BY <1>6, <2>1, <2>2 DEF OnFlushed, CommonTypeOK, WrapperTypeOK, notifyVars, slabVars
<1>7. CASE NotifyFlushed(r)
  <2>1. loop' \in [Receivers -> LoopPlace]
    BY <1>7, LoopGoesType DEF NotifyFlushed, CommonTypeOK, LoopPlace
  <2>2. notify' \in [Receivers -> [OneKinds -> NotifyState]]
    BY <1>7, NotifyType DEF NotifyFlushed, CommonTypeOK, OneKinds
  <2>3. QED
    BY <1>7, <1>b, <2>1, <2>2 DEF NotifyFlushed, CommonTypeOK, WrapperTypeOK, contextVars, slabVars
<1>8. CASE OnReady(r)
  <2>1. loop' \in [Receivers -> LoopPlace]
    BY <1>8, LoopGoesType DEF OnReady, CommonTypeOK, LoopPlace
  <2>2. listening' \in [Receivers -> [AllKinds -> SUBSET Calls]]
    BY <1>8, ListeningType DEF OnReady, CommonTypeOK, AllKinds
  <2>3. MailTypeOK'
    BY <1>8, <1>a, TakeEventType DEF OnReady, TakeEvent, CommonTypeOK
  <2>4. QED
    BY <1>8, <2>1, <2>2, <2>3 DEF OnReady, CommonTypeOK, WrapperTypeOK, contextVars, slabVars
<1>9. CASE SetReady(r)
  <2>1. loop' \in [Receivers -> LoopPlace]
    BY <1>9, LoopGoesType DEF SetReady, CommonTypeOK, LoopPlace
  <2>2. QED
    BY <1>9, <1>b, <2>1 DEF SetReady, CommonTypeOK, WrapperTypeOK, notifyVars, slabVars
<1>10. CASE OnSynchronized(r)
  <2>1. listening' \in [Receivers -> [AllKinds -> SUBSET Calls]]
    BY <1>10, ListeningType DEF OnSynchronized, CommonTypeOK, AllKinds
  <2>2. MailTypeOK'
    BY <1>10, <1>a, TakeEventType DEF OnSynchronized, TakeEvent, CommonTypeOK
  <2>3. QED
    BY <1>10, <2>1, <2>2 DEF OnSynchronized, CommonTypeOK, WrapperTypeOK, contextVars, slabVars
<1>11. CASE EndLoop(r)
  <2>1. loop' \in [Receivers -> LoopPlace]
    BY <1>11, LoopGoesType DEF EndLoop, CommonTypeOK, LoopPlace
  <2>2. listening' \in [Receivers -> [AllKinds -> SUBSET Calls]]
    BY <1>11, ListeningType DEF EndLoop, CommonTypeOK, AllKinds
  <2>3. MailTypeOK'
    BY <1>11 DEF EndLoop, CommonTypeOK, MailTypeOK
  <2>4. QED
    BY <1>11, <2>1, <2>2, <2>3 DEF EndLoop, CommonTypeOK, WrapperTypeOK, contextVars, slabVars
<1>12. QED
  BY <1>1, <1>2, <1>3, <1>4, <1>5, <1>6, <1>7, <1>8, <1>9, <1>10, <1>11 DEF LoopStep

---------------------------------------------------------------------------
(* Counting the copies of a receiver. *)

\* Two sets that differ in one element at most differ in size accordingly.
LEMMA CountMove ==
  ASSUME NEW F, NEW G, NEW c, IsFiniteSet(F), IsFiniteSet(G), F \ {c} = G \ {c}
  PROVE  /\ Cardinality(F) \in Nat /\ Cardinality(G) \in Nat
         /\ (c \in F <=> c \in G) => Cardinality(G) = Cardinality(F)
         /\ c \notin F /\ c \in G => Cardinality(G) = Cardinality(F) + 1
         /\ c \in F /\ c \notin G => Cardinality(G) = Cardinality(F) - 1
<1>1. Cardinality(F) \in Nat /\ Cardinality(G) \in Nat
  BY FS_CardinalityType
<1>2. Cardinality(F \ {c}) = IF c \in F THEN Cardinality(F) - 1 ELSE Cardinality(F)
  BY FS_RemoveElement
<1>3. Cardinality(G \ {c}) = IF c \in G THEN Cardinality(G) - 1 ELSE Cardinality(G)
  BY FS_RemoveElement
<1>4. QED
  BY <1>1, <1>2, <1>3

LEMMA CopiesFinite ==
  ASSUME NEW r, NEW S
  PROVE  IsFiniteSet(Copies(r, S))
BY MailboxAssumption, FS_Subset DEF Copies

\* A Move of c changes the copies of its receiver by c at most.
LEMMA MoveCopies ==
  ASSUME MailTypeOK, NEW r \in Receivers, NEW c \in Messages, NEW p, Move(r, c, p),
         NEW CONSTANT S
  PROVE  /\ \A s \in Receivers \ {r} : Copies(s, S)' = Copies(s, S)
         /\ Copies(r, S)' \ {c} = Copies(r, S) \ {c}
         /\ c \in Copies(r, S) <=> at[r][c] \in S
         /\ c \in Copies(r, S)' <=> p \in S
BY DEF MailTypeOK, Move, Copies

\* Those among the copies with a slot that reserve or try_reserve admitted.
Limited(r) == {c \in Copies(r, Slotted) : Op[c] # "force_send"}

LEMMA LimitedCount ==
  ASSUME NEW r
  PROVE  /\ IsFiniteSet(Limited(r))
         /\ Cardinality(Limited(r)) \in Nat
         /\ Cardinality(Copies(r, Slotted)) \in Nat
         /\ Cardinality(Limited(r)) <= Cardinality(Copies(r, Slotted))
BY CopiesFinite, FS_Subset, FS_CardinalityType DEF Limited

---------------------------------------------------------------------------
(* Accounting and Backpressure. *)

Slots == Accounting /\ Backpressure

LEMMA SlotsLimited ==
  Backpressure <=> \A r \in Receivers : Cardinality(Limited(r)) <= Limit[r]
BY DEF Backpressure, Limited

\* A Move that takes no slot and frees none.
LEMMA SlotKept ==
  ASSUME CommonTypeOK, Slots, NEW r \in Receivers, NEW c \in Messages, NEW p, Move(r, c, p),
         at[r][c] \in Slotted <=> p \in Slotted, UNCHANGED processing
  PROVE  Slots'
<1>1. /\ \A s \in Receivers \ {r} : Copies(s, Slotted)' = Copies(s, Slotted)
      /\ Copies(r, Slotted)' \ {c} = Copies(r, Slotted) \ {c}
      /\ c \in Copies(r, Slotted) <=> at[r][c] \in Slotted
      /\ c \in Copies(r, Slotted)' <=> p \in Slotted
  BY MoveCopies DEF CommonTypeOK
<1>2. Copies(r, Slotted)' = Copies(r, Slotted)
  BY <1>1
<1>3. \A s \in Receivers : Copies(s, Slotted)' = Copies(s, Slotted)
  BY <1>1, <1>2
<1>4. QED
  BY <1>3 DEF Slots, Accounting, Backpressure

\* A Move into a slot, which the limit has room for unless it is forced.
LEMMA SlotTaken ==
  ASSUME CommonTypeOK, Slots, NEW r \in Receivers, NEW c \in Messages, NEW p, Move(r, c, p),
         at[r][c] \notin Slotted, p \in Slotted,
         Op[c] = "force_send" \/ processing[r] < Limit[r],
         processing' = [processing EXCEPT ![r] = @ + 1]
  PROVE  Slots'
<1>1. /\ \A s \in Receivers \ {r} : Copies(s, Slotted)' = Copies(s, Slotted)
      /\ Copies(r, Slotted)' \ {c} = Copies(r, Slotted) \ {c}
      /\ c \notin Copies(r, Slotted) /\ c \in Copies(r, Slotted)'
  BY MoveCopies DEF CommonTypeOK
<1>2. IsFiniteSet(Copies(r, Slotted)) /\ IsFiniteSet(Copies(r, Slotted)')
  <2>1. IsFiniteSet(Copies(r, Slotted)')
    BY MailboxAssumption, FS_Subset DEF Copies
  <2>2. QED
    BY <2>1, CopiesFinite
<1>3. Cardinality(Copies(r, Slotted)') = Cardinality(Copies(r, Slotted)) + 1
  BY <1>1, <1>2, CountMove
<1>4. Accounting'
  <2>1. SUFFICES ASSUME NEW s \in Receivers
                 PROVE  processing'[s] = Cardinality(Copies(s, Slotted)')
    BY DEF Accounting
  <2>2. processing[s] = Cardinality(Copies(s, Slotted))
    BY DEF Slots, Accounting
  <2>3. CASE s = r
    BY <1>3, <2>2, <2>3 DEF CommonTypeOK, WrapperTypeOK
  <2>4. CASE s # r
    BY <1>1, <2>2, <2>4 DEF CommonTypeOK, WrapperTypeOK
  <2>5. QED
    BY <2>3, <2>4
<1>5. Backpressure'
  <2>1. SUFFICES ASSUME NEW s \in Receivers
                 PROVE  Cardinality(Limited(s)') <= Limit[s]
    BY DEF Backpressure, Limited
  <2>2. Cardinality(Limited(s)) <= Limit[s]
    BY SlotsLimited DEF Slots
  <2>3. CASE s # r
    BY <1>1, <2>2, <2>3 DEF Limited
  <2>4. CASE s = r /\ Op[c] = "force_send"
    <3>1. Limited(r)' = Limited(r)
      BY <1>1, <2>4 DEF Limited
    <3>2. QED
      BY <2>2, <2>4, <3>1
  <2>5. CASE s = r /\ Op[c] # "force_send"
    <3>1. /\ Limited(r)' \ {c} = Limited(r) \ {c}
          /\ c \notin Limited(r) /\ c \in Limited(r)'
      BY <1>1, <2>5 DEF Limited
    <3>2. IsFiniteSet(Limited(r)')
      BY <1>2, FS_Subset DEF Limited
    <3>3. Cardinality(Limited(r)') = Cardinality(Limited(r)) + 1
      BY <3>1, <3>2, LimitedCount, CountMove
    <3>4. Cardinality(Limited(r)) <= processing[r] /\ processing[r] < Limit[r]
      BY <2>5, LimitedCount DEF Slots, Accounting
    <3>5. Limit[r] \in Nat /\ processing[r] \in Int /\ Cardinality(Limited(r)) \in Nat
      BY ReceiverAssumption, LimitedCount DEF CommonTypeOK, WrapperTypeOK
    <3>6. QED
      BY <2>5, <3>3, <3>4, <3>5
  <2>6. QED
    BY <2>3, <2>4, <2>5
<1>6. QED
  BY <1>4, <1>5 DEF Slots

\* A Move out of a slot.
LEMMA SlotFreed ==
  ASSUME CommonTypeOK, Slots, NEW r \in Receivers, NEW c \in Messages, NEW p, Move(r, c, p),
         at[r][c] \in Slotted, p \notin Slotted,
         processing' = [processing EXCEPT ![r] = @ - 1]
  PROVE  Slots'
<1>1. /\ \A s \in Receivers \ {r} : Copies(s, Slotted)' = Copies(s, Slotted)
      /\ Copies(r, Slotted)' \ {c} = Copies(r, Slotted) \ {c}
      /\ c \in Copies(r, Slotted) /\ c \notin Copies(r, Slotted)'
  BY MoveCopies DEF CommonTypeOK
<1>2. IsFiniteSet(Copies(r, Slotted)')
  BY MailboxAssumption, FS_Subset DEF Copies
<1>3. Cardinality(Copies(r, Slotted)') = Cardinality(Copies(r, Slotted)) - 1
  BY <1>1, <1>2, CopiesFinite, CountMove
<1>4. Accounting'
  <2>1. SUFFICES ASSUME NEW s \in Receivers
                 PROVE  processing'[s] = Cardinality(Copies(s, Slotted)')
    BY DEF Accounting
  <2>2. processing[s] = Cardinality(Copies(s, Slotted))
    BY DEF Slots, Accounting
  <2>3. CASE s = r
    BY <1>3, <2>2, <2>3 DEF CommonTypeOK, WrapperTypeOK
  <2>4. CASE s # r
    BY <1>1, <2>2, <2>4 DEF CommonTypeOK, WrapperTypeOK
  <2>5. QED
    BY <2>3, <2>4
<1>5. Backpressure'
  <2>1. SUFFICES ASSUME NEW s \in Receivers
                 PROVE  Cardinality(Limited(s)') <= Limit[s]
    BY DEF Backpressure, Limited
  <2>2. Cardinality(Limited(s)) <= Limit[s]
    BY SlotsLimited DEF Slots
  <2>3. Limited(s)' \subseteq Limited(s)
    BY <1>1 DEF Limited
  <2>4. Cardinality(Limited(s)') <= Cardinality(Limited(s)) /\ Cardinality(Limited(s)') \in Nat
    BY <2>3, LimitedCount, FS_Subset, FS_CardinalityType
  <2>5. QED
    BY <2>2, <2>4, LimitedCount, ReceiverAssumption
<1>6. QED
  BY <1>4, <1>5 DEF Slots

LEMMA SlotFrame ==
  ASSUME Slots, UNCHANGED processing,
         \A r \in Receivers : Copies(r, Slotted)' = Copies(r, Slotted)
  PROVE  Slots'
BY DEF Slots, Accounting, Backpressure

---------------------------------------------------------------------------
(* The channels. *)

\* Holds for one channel q and the places f of the copies of its receiver.
HoldsIn(q, f, place) ==
  \A i \in DOMAIN q : q[i] \in Messages =>
    /\ f[q[i]] = place
    /\ \A j \in DOMAIN q : q[j] = q[i] => j = i

LEMMA HoldsSplit ==
  ASSUME NEW channel, NEW place
  PROVE  Holds(channel, place) <=>
           \A r \in Receivers : HoldsIn(channel[r], at[r], place)
BY DEF Holds, HoldsIn

LEMMA HoldsTail ==
  ASSUME NEW X, NEW q \in Seq(X), q # <<>>, NEW f, NEW place, HoldsIn(q, f, place)
  PROVE  /\ HoldsIn(Tail(q), f, place)
         /\ Head(q) \in Messages =>
              f[Head(q)] = place /\ \A i \in DOMAIN Tail(q) : Tail(q)[i] # Head(q)
<1>1. /\ Len(q) \in Nat /\ Len(q) >= 1 /\ DOMAIN q = 1..Len(q)
      /\ DOMAIN Tail(q) = 1..(Len(q) - 1) /\ Head(q) = q[1]
      /\ \A i \in DOMAIN Tail(q) : Tail(q)[i] = q[i + 1]
  OBVIOUS
<1>2. \A i \in DOMAIN Tail(q) : i + 1 \in DOMAIN q /\ i \in Nat /\ i + 1 # 1
  BY <1>1
<1>3. HoldsIn(Tail(q), f, place)
  <2>1. SUFFICES ASSUME NEW i \in DOMAIN Tail(q), q[i + 1] \in Messages
                 PROVE  /\ f[q[i + 1]] = place
                        /\ \A j \in DOMAIN Tail(q) : q[j + 1] = q[i + 1] => j = i
    BY <1>1 DEF HoldsIn
  <2>2. /\ f[q[i + 1]] = place
        /\ \A j \in DOMAIN Tail(q) : q[j + 1] = q[i + 1] => j + 1 = i + 1
    BY <1>2, <2>1 DEF HoldsIn
  <2>3. QED
    BY <1>2, <2>2
<1>4. ASSUME Head(q) \in Messages
      PROVE  f[Head(q)] = place /\ \A i \in DOMAIN Tail(q) : Tail(q)[i] # Head(q)
  <2>1. 1 \in DOMAIN q /\ q[1] \in Messages
    BY <1>1, <1>4
  <2>2. f[q[1]] = place /\ \A j \in DOMAIN q : q[j] = q[1] => j = 1
    BY <2>1 DEF HoldsIn
  <2>3. QED
    BY <1>1, <1>2, <2>2
<1>5. QED
  BY <1>3, <1>4

LEMMA HoldsAppend ==
  ASSUME NEW X, NEW q \in Seq(X), NEW f, NEW place, NEW x, HoldsIn(q, f, place),
         x \in Messages => f[x] = place /\ \A i \in DOMAIN q : q[i] # x
  PROVE  HoldsIn(Append(q, x), f, place)
<1>1. /\ Len(q) \in Nat /\ DOMAIN q = 1..Len(q)
      /\ DOMAIN Append(q, x) = 1..(Len(q) + 1)
      /\ Append(q, x)[Len(q) + 1] = x
      /\ \A i \in DOMAIN q : Append(q, x)[i] = q[i]
  OBVIOUS
<1>2. \A i \in DOMAIN Append(q, x) : i \in DOMAIN q \/ i = Len(q) + 1
  BY <1>1
<1>3. SUFFICES ASSUME NEW i \in DOMAIN Append(q, x), Append(q, x)[i] \in Messages
               PROVE  /\ f[Append(q, x)[i]] = place
                      /\ \A j \in DOMAIN Append(q, x) :
                           Append(q, x)[j] = Append(q, x)[i] => j = i
  BY DEF HoldsIn
<1>4. CASE i \in DOMAIN q
  BY <1>1, <1>2, <1>3, <1>4 DEF HoldsIn
<1>5. CASE i = Len(q) + 1
  BY <1>1, <1>2, <1>3, <1>5 DEF HoldsIn
<1>6. QED
  BY <1>2, <1>4, <1>5

\* The places of what a channel holds may be seen from another state.
LEMMA HoldsFrame ==
  ASSUME NEW q, NEW f, NEW g, NEW place, HoldsIn(q, f, place),
         \A m \in Messages : f[m] = place => g[m] = place
  PROVE  HoldsIn(q, g, place)
BY DEF HoldsIn

\* Likewise when one message left the place, and is not in the channel.
LEMMA HoldsWithout ==
  ASSUME NEW q, NEW f, NEW g, NEW place, NEW c, HoldsIn(q, f, place),
         \A m \in Messages \ {c} : f[m] = place => g[m] = place,
         \A i \in DOMAIN q : q[i] # c
  PROVE  HoldsIn(q, g, place)
BY DEF HoldsIn

\* What a Move does to a channel that is left alone.
LEMMA HoldsMove ==
  ASSUME MailTypeOK, NEW r \in Receivers, NEW c \in Messages, NEW p, Move(r, c, p),
         NEW s \in Receivers, NEW q, NEW place, HoldsIn(q, at[s], place),
         s = r => at[r][c] # place \/ \A i \in DOMAIN q : q[i] # c
  PROVE  HoldsIn(q, at'[s], place)
<1>1. at'[s] = IF s = r THEN [at[s] EXCEPT ![c] = p] ELSE at[s]
  BY DEF MailTypeOK, Move
<1>2. \A m \in Messages \ {c} : at'[s][m] = at[s][m]
  BY <1>1 DEF MailTypeOK
<1>3. CASE s # r
  BY <1>1, <1>3
<1>4. CASE s = r /\ at[r][c] # place
  <2>1. \A m \in Messages : at[s][m] = place => at'[s][m] = place
    BY <1>2, <1>4
  <2>2. QED
    BY <2>1, HoldsFrame
<1>5. CASE \A i \in DOMAIN q : q[i] # c
  <2>1. \A m \in Messages \ {c} : at[s][m] = place => at'[s][m] = place
    BY <1>2
  <2>2. QED
    BY <1>5, <2>1, HoldsWithout
<1>6. QED
  BY <1>3, <1>4, <1>5

QueueOf(r) == HoldsIn(queue[r], at[r], "queued")
EventsOf(r) == HoldsIn(events[r], at[r], "answered")

LEMMA ChannelSplit ==
  /\ ChannelInv <=> \A r \in Receivers : QueueOf(r) /\ EventsOf(r)
  /\ ChannelInv' <=> \A r \in Receivers : QueueOf(r)' /\ EventsOf(r)'
BY DEF ChannelInv, Holds, HoldsIn, QueueOf, EventsOf

\* A copy that is in no channel may move.
LEMMA ChannelKept ==
  ASSUME CommonTypeOK, ChannelInv, NEW r \in Receivers, NEW c \in Messages, NEW p,
         Move(r, c, p), at[r][c] \notin {"queued", "answered"},
         UNCHANGED <<queue, events>>
  PROVE  ChannelInv'
<1>1. SUFFICES ASSUME NEW s \in Receivers
               PROVE  QueueOf(s)' /\ EventsOf(s)'
  BY ChannelSplit
<1>2. QueueOf(s) /\ EventsOf(s)
  BY ChannelSplit
<1>3. HoldsIn(queue[s], at'[s], "queued")
  BY <1>2, HoldsMove DEF CommonTypeOK, QueueOf
<1>4. HoldsIn(events[s], at'[s], "answered")
  BY <1>2, HoldsMove DEF CommonTypeOK, EventsOf
<1>5. QED
  BY <1>3, <1>4 DEF QueueOf, EventsOf

LEMMA ChannelFrame ==
  ASSUME ChannelInv, UNCHANGED <<at, queue, events>>
  PROVE  ChannelInv'
BY DEF ChannelInv, Holds

---------------------------------------------------------------------------
(* The routes. *)

\* A step of c alone: the other calls and their copies stay where they are.
Others(c) == \A m \in Messages \ {c} : pc'[m] = pc[m] /\ pos'[m] = pos[m]

LEMMA RouteOfOne ==
  ASSUME RouteInv, NEW c \in Messages, Others(c),
         \A r \in Receivers, m \in Messages \ {c} : at'[r][m] = at[r][m],
         \A i \in DOMAIN Route[c] : Underway(c, i)'
  PROVE  RouteInv'
<1>1. SUFFICES ASSUME NEW m \in Messages \ {c}, NEW i \in DOMAIN Route[m]
               PROVE  Underway(m, i)'
  BY DEF RouteInv
<1>2. Route[m] \in Seq(Receivers)
  BY BusAssumption DEF Calls
<1>3. \A j \in DOMAIN Route[m] : Copy(m, j)' = Copy(m, j)
  BY <1>2 DEF Copy
<1>4. pc'[m] = pc[m] /\ pos'[m] = pos[m] /\ Underway(m, i)
  BY DEF Others, RouteInv
<1>5. QED
  BY <1>3, <1>4 DEF Underway

\* A step of the receivers: copies move, but to and from places ahead of the
\* calls' business with them.
LEMMA RouteKept ==
  ASSUME RouteInv, \A m \in Messages : pc'[m] = pc[m] /\ pos'[m] = pos[m],
         \A r \in Receivers, m \in Messages :
           \/ at'[r][m] = at[r][m]
           \/ at[r][m] \notin {"none", "permit"} /\ at'[r][m] \notin {"none", "permit"}
  PROVE  RouteInv'
<1>1. SUFFICES ASSUME NEW m \in Messages, NEW i \in DOMAIN Route[m]
               PROVE  Underway(m, i)'
  BY DEF RouteInv
<1>2. Route[m] \in Seq(Receivers)
  BY BusAssumption DEF Calls
<1>3. ASSUME NEW j \in DOMAIN Route[m]
      PROVE  /\ Copy(m, j)' = "none" <=> Copy(m, j) = "none"
             /\ Copy(m, j)' = "permit" <=> Copy(m, j) = "permit"
  <2>1. Route[m][j] \in Receivers
    BY <1>2
  <2>2. QED
    BY <2>1 DEF Copy
<1>4. pc'[m] = pc[m] /\ pos'[m] = pos[m] /\ Underway(m, i)
  BY DEF RouteInv
<1>5. QED
  BY <1>3, <1>4 DEF Underway

LEMMA CopyMove ==
  ASSUME CommonTypeOK, Visiting, NEW c \in Messages, NEW p, Move(At(c), c, p)
  PROVE  /\ \A i \in DOMAIN Route[c] : Copy(c, i)' = IF i = pos[c] THEN p ELSE Copy(c, i)
         /\ \A r \in Receivers, m \in Messages \ {c} : at'[r][m] = at[r][m]
<1>1. /\ c \in Calls /\ Route[c] \in Seq(Receivers) /\ pos[c] \in DOMAIN Route[c]
      /\ \A i, j \in DOMAIN Route[c] : Route[c][i] = Route[c][j] => i = j
  BY BusAssumption DEF Calls, Visiting
<1>2. \A i \in DOMAIN Route[c] : Route[c][i] \in Receivers
  BY <1>1
<1>3. QED
  BY <1>1, <1>2 DEF CommonTypeOK, MailTypeOK, Move, Copy, At

\* Where the helpers for localVars leave a call.
LEMMA LocalMoves ==
  ASSUME CommonTypeOK, NEW c \in Messages
  PROVE  /\ \A to : Goes(c, to) /\ StaysLocal =>
              pc'[c] = to /\ pos'[c] = pos[c] /\ Others(c)
         /\ \A result : Return(c, result) => pc'[c] = "done" /\ Others(c)
         /\ \A to : Visit(c, to) => pc'[c] = to /\ pos'[c] = pos[c] + 1 /\ Others(c)
         /\ \A to : Rewind(c, to) => pc'[c] = to /\ pos'[c] = 1 /\ Others(c)
         /\ Enter(c) => pc'[c] = Entry(c) /\ pos'[c] = pos[c] /\ Others(c)
<1>1. /\ c \in Calls /\ Messages \subseteq Calls
      /\ pc \in [Calls -> CallPlace] /\ pos \in [Calls -> Nat \ {0}]
  BY DEF Calls, CommonTypeOK, BusTypeOK
<1>2. \A to : Goes(c, to) => pc'[c] = to /\ \A m \in Messages \ {c} : pc'[m] = pc[m]
  BY <1>1 DEF Goes
<1>3. QED
  BY <1>1, <1>2 DEF StaysLocal, Return, Visit, Rewind, Enter, Others

---------------------------------------------------------------------------
(* The steps of a call that carries a message. *)

BusInv == ChannelInv /\ RouteInv /\ Slots

\* A step that touches no copy and no channel, only the local state of c.
LEMMA QuietStep ==
  ASSUME BusInv, NEW c \in Messages, Others(c), UNCHANGED <<mailVars, processing>>,
         \A i \in DOMAIN Route[c] : Underway(c, i)'
  PROVE  BusInv'
<1>1. ChannelInv'
  BY ChannelFrame DEF BusInv, mailVars
<1>2. RouteInv'
  BY RouteOfOne DEF BusInv, mailVars
<1>3. \A r : \A S : Copies(r, S)' = Copies(r, S)
  BY DEF mailVars, Copies
<1>4. Slots'
  BY <1>3, SlotFrame DEF BusInv
<1>5. QED
  BY <1>1, <1>2, <1>4 DEF BusInv

\* A step that takes or drops a Permit of c for the receiver it is at.
LEMMA PermitStep ==
  ASSUME CommonTypeOK, Visiting, BusInv, NEW c \in Messages, NEW p, Move(At(c), c, p),
         {at[At(c)][c], p} \subseteq {"none", "permit"},
         Others(c), UNCHANGED <<queue, events>>, Slots',
         \A i \in DOMAIN Route[c] : Underway(c, i)'
  PROVE  BusInv'
<1>0. At(c) \in Receivers
  BY AtReceiver DEF Calls
<1>1. ChannelInv'
  BY <1>0, ChannelKept DEF BusInv
<1>2. RouteInv'
  BY CopyMove, RouteOfOne DEF BusInv
<1>3. QED
  BY <1>1, <1>2 DEF BusInv

LEMMA StartKeeps ==
  ASSUME CommonTypeOK, Visiting, BusInv, NEW c \in Messages, StartSend(c) \/ StartRequest(c)
  PROVE  BusInv'
<1>0. Op[c] \in MessageOps /\ c \in Calls
  BY BusAssumption DEF Calls
<1>1. Others(c) /\ UNCHANGED <<mailVars, processing>>
  BY LocalMoves DEF StartSend, StartRequest, contextVars
<1>2. \A i \in DOMAIN Route[c] : pos[c] = 1 /\ Copy(c, i) = "none" /\ Copy(c, i)' = Copy(c, i)
  BY <1>1 DEF StartSend, StartRequest, MayStart, BusInv, RouteInv, Underway, Copy, mailVars
<1>3. \/ pc'[c] = "done"
      \/ pc'[c] = Entry(c) /\ pos'[c] = pos[c]
  BY LocalMoves DEF StartSend, StartRequest
<1>4. Entry(c) = CASE Op[c] \in {"send", "send_one", "request"} -> "reserve"
                   [] Op[c] = "try_send"   -> "tryreserve"
                   [] Op[c] = "force_send" -> "bump"
  BY <1>0 DEF Entry, MessageOps
<1>5. ASSUME NEW i \in DOMAIN Route[c]
      PROVE  Underway(c, i)'
  <2>1. Route[c] \in Seq(Receivers) /\ i \in Nat /\ i >= 1
    BY <1>0, BusAssumption
  <2>2. CASE pc'[c] = "done"
    BY <2>2 DEF Underway
  <2>3. CASE pc'[c] = Entry(c) /\ Op[c] \in {"send", "send_one", "request"}
    BY <1>2, <1>4, <2>3 DEF Underway
  <2>4. CASE pc'[c] = Entry(c) /\ pos'[c] = pos[c] /\ Op[c] = "try_send"
    BY <1>2, <1>4, <2>1, <2>4 DEF Underway
  <2>5. CASE pc'[c] = Entry(c) /\ Op[c] = "force_send"
    BY <1>2, <1>4, <2>5 DEF Underway
  <2>6. QED
    BY <1>0, <1>3, <2>2, <2>3, <2>4, <2>5 DEF MessageOps
<1>6. QED
  BY <1>1, <1>5, QuietStep

LEMMA ReserveKeeps ==
  ASSUME CommonTypeOK, Visiting, BusInv, NEW c \in Messages, Reserve(c)
  PROVE  BusInv'
<1>0. /\ c \in Calls /\ At(c) \in Receivers
      /\ Route[c] \in Seq(Receivers) /\ pos[c] \in DOMAIN Route[c]
  BY AtReceiver, BusAssumption DEF Calls, Visiting
<1>1. \A i \in DOMAIN Route[c] : /\ Op[c] \notin {"try_send", "force_send"}
                                 /\ i >= pos[c] => Copy(c, i) = "none"
  BY DEF BusInv, RouteInv, Underway, Reserve, Reserving
<1>2. pos'[c] = pos[c] /\ Others(c)
  BY LocalMoves DEF Reserve
<1>3. CASE Full(At(c))
  <2>1. pc'[c] = "poll" /\ UNCHANGED <<mailVars, processing>>
    BY <1>3, LocalMoves DEF Reserve, mailVars
  <2>2. \A i \in DOMAIN Route[c] : Underway(c, i)'
    BY <1>1, <1>2, <2>1 DEF Underway, Copy, mailVars
  <2>3. QED
    BY <1>2, <2>1, <2>2, QuietStep
<1>4. CASE ~Full(At(c))
  <2>1. /\ pc'[c] = "send" /\ TakeSlot(At(c), c)
        /\ UNCHANGED <<queue, events>>
    BY <1>4, LocalMoves DEF Reserve
  <2>2. at[At(c)][c] = "none"
    BY <1>0, <1>1 DEF Copy, At
  <2>3. Move(At(c), c, "permit")
    BY <2>1 DEF TakeSlot
  <2>4. Slots'
    <3>1. processing[At(c)] < Limit[At(c)]
      BY <1>0, <1>4, ReceiverAssumption DEF Full, CommonTypeOK, WrapperTypeOK
    <3>2. processing' = [processing EXCEPT ![At(c)] = @ + 1]
      BY <2>1 DEF TakeSlot
    <3>3. "none" \notin Slotted /\ "permit" \in Slotted
      BY DEF Slotted
    <3>4. QED
      BY <1>0, <2>2, <2>3, <3>1, <3>2, <3>3, SlotTaken DEF BusInv
  <2>5. \A i \in DOMAIN Route[c] : Underway(c, i)'
    <3>1. \A i \in DOMAIN Route[c] :
            Copy(c, i)' = IF i = pos[c] THEN "permit" ELSE Copy(c, i)
      BY <2>3, CopyMove
    <3>2. \A i \in DOMAIN Route[c] : i \in Nat
      BY <1>0
    <3>3. pos[c] \in Nat
      BY <1>0, <3>2
    <3>4. QED
      BY <1>1, <1>2, <2>1, <3>1, <3>2, <3>3 DEF Underway
  <2>6. QED
    BY <1>2, <2>1, <2>2, <2>3, <2>4, <2>5, PermitStep
<1>5. QED
  BY <1>3, <1>4

LEMMA PollReserveKeeps ==
  ASSUME CommonTypeOK, Visiting, BusInv, NEW c \in Messages, PollReserve(c)
  PROVE  BusInv'
<1>1. /\ pc'[c] \in {"reserve", "parked"} /\ pos'[c] = pos[c] /\ Others(c)
      /\ pc[c] = "poll" /\ UNCHANGED <<mailVars, processing>>
  BY LocalMoves DEF PollReserve, Step, contextVars
<1>2. \A i \in DOMAIN Route[c] : Underway(c, i)'
  BY <1>1 DEF BusInv, RouteInv, Underway, Copy, mailVars
<1>3. QED
  BY <1>1, <1>2, QuietStep

LEMMA TryReserveKeeps ==
  ASSUME CommonTypeOK, Visiting, BusInv, NEW c \in Messages, TryReserve(c)
  PROVE  BusInv'
<1>0. /\ c \in Calls /\ At(c) \in Receivers
      /\ Route[c] \in Seq(Receivers) /\ pos[c] \in DOMAIN Route[c]
      /\ DOMAIN Route[c] = 1..Len(Route[c]) /\ Len(Route[c]) \in Nat
  BY AtReceiver, BusAssumption DEF Calls, Visiting
<1>1. /\ Op[c] = "try_send"
      /\ \A i \in DOMAIN Route[c] : Copy(c, i) = IF i < pos[c] THEN "permit" ELSE "none"
  BY <1>0 DEF BusInv, RouteInv, Underway, TryReserve
<1>2. Others(c)
  BY LocalMoves DEF TryReserve
<1>3. CASE Full(At(c))
  <2>1. /\ pc'[c] = "drop" /\ pos'[c] = 1
        /\ UNCHANGED <<mailVars, processing>>
    BY <1>3, LocalMoves DEF TryReserve, mailVars
  <2>2. \A i \in DOMAIN Route[c] : Copy(c, i)' = Copy(c, i)
    BY <2>1 DEF Copy, mailVars
  <2>3. pos[c] >= 1 /\ Copy(c, pos[c]) = "none"
    BY <1>0, <1>1
  <2>4. \A i \in DOMAIN Route[c] : Underway(c, i)'
    BY <1>0, <1>1, <2>1, <2>2, <2>3 DEF Underway
  <2>5. QED
    BY <1>2, <2>1, <2>4, QuietStep
<1>4. CASE ~Full(At(c))
  <2>1. /\ IF IsLast(c) THEN pc'[c] = "send" /\ pos'[c] = 1
                        ELSE pc'[c] = "tryreserve" /\ pos'[c] = pos[c] + 1
        /\ TakeSlot(At(c), c) /\ UNCHANGED <<queue, events>>
    BY <1>4, LocalMoves DEF TryReserve
  <2>2. at[At(c)][c] = "none"
    BY <1>0, <1>1 DEF Copy, At
  <2>3. Move(At(c), c, "permit")
    BY <2>1 DEF TakeSlot
  <2>4. Slots'
    <3>1. processing[At(c)] < Limit[At(c)]
      BY <1>0, <1>4, ReceiverAssumption DEF Full, CommonTypeOK, WrapperTypeOK
    <3>2. processing' = [processing EXCEPT ![At(c)] = @ + 1]
      BY <2>1 DEF TakeSlot
    <3>3. "none" \notin Slotted /\ "permit" \in Slotted
      BY DEF Slotted
    <3>4. QED
      BY <1>0, <2>2, <2>3, <3>1, <3>2, <3>3, SlotTaken DEF BusInv
  <2>5. \A i \in DOMAIN Route[c] :
          Copy(c, i)' = IF i = pos[c] THEN "permit" ELSE Copy(c, i)
    BY <2>3, CopyMove
  <2>6. \A i \in DOMAIN Route[c] : Underway(c, i)'
    <3>1. CASE IsLast(c)
      <4>1. \A i \in DOMAIN Route[c] : Copy(c, i)' = "permit"
        BY <1>0, <1>1, <2>5, <3>1 DEF IsLast
      <4>2. QED
        BY <1>1, <2>1, <3>1, <4>1 DEF Underway
    <3>2. CASE ~IsLast(c)
      <4>1. \A i \in DOMAIN Route[c] :
              Copy(c, i)' = IF i < pos[c] + 1 THEN "permit" ELSE "none"
        BY <1>0, <1>1, <2>5
      <4>2. QED
        BY <1>1, <2>1, <3>2, <4>1 DEF Underway
    <3>3. QED
      BY <3>1, <3>2
  <2>7. QED
    BY <1>2, <2>1, <2>2, <2>3, <2>4, <2>6, PermitStep
<1>5. QED
  BY <1>3, <1>4

LEMMA DropPermitKeeps ==
  ASSUME CommonTypeOK, Visiting, BusInv, NEW c \in Messages, DropPermit(c)
  PROVE  BusInv'
<1>0. /\ c \in Calls /\ At(c) \in Receivers
      /\ Route[c] \in Seq(Receivers) /\ pos[c] \in DOMAIN Route[c]
      /\ DOMAIN Route[c] = 1..Len(Route[c]) /\ Len(Route[c]) \in Nat
  BY AtReceiver, BusAssumption DEF Calls, Visiting
<1>1. /\ \A i \in DOMAIN Route[c] : Copy(c, i) \in {"none", "permit"}
      /\ \E j \in DOMAIN Route[c] : j >= pos[c] /\ Copy(c, j) = "none"
  BY <1>0 DEF BusInv, RouteInv, Underway, DropPermit
<1>2. Others(c)
  BY LocalMoves DEF DropPermit
<1>3. CASE at[At(c)][c] = "permit"
  <2>1. /\ pc'[c] = "drop" /\ pos'[c] = pos[c] + 1
        /\ Move(At(c), c, "none") /\ UNCHANGED <<queue, events>>
        /\ processing' = [processing EXCEPT ![At(c)] = @ - 1]
    BY <1>3, LocalMoves DEF DropPermit, DropSlot
  <2>2. Slots'
    BY <1>0, <1>3, <2>1, SlotFreed DEF BusInv, Slotted
  <2>3. \A i \in DOMAIN Route[c] :
          Copy(c, i)' = IF i = pos[c] THEN "none" ELSE Copy(c, i)
    BY <2>1, CopyMove
  <2>4. PICK j \in DOMAIN Route[c] : j >= pos[c] /\ Copy(c, j) = "none"
    BY <1>1
  <2>5. j >= pos[c] + 1 /\ Copy(c, j)' = "none"
    BY <1>0, <1>3, <2>3, <2>4 DEF Copy, At
  <2>6. \A i \in DOMAIN Route[c] : Underway(c, i)'
    BY <1>1, <2>1, <2>3, <2>5 DEF Underway
  <2>7. QED
    BY <1>2, <1>3, <2>1, <2>2, <2>6, PermitStep
<1>4. CASE at[At(c)][c] # "permit"
  <2>1. pc'[c] = "done" /\ UNCHANGED <<mailVars, processing>>
    BY <1>4, LocalMoves DEF DropPermit, mailVars
  <2>2. \A i \in DOMAIN Route[c] : Underway(c, i)'
    BY <2>1 DEF Underway
  <2>3. QED
    BY <1>2, <2>1, <2>2, QuietStep
<1>5. QED
  BY <1>3, <1>4

LEMMA BumpKeeps ==
  ASSUME CommonTypeOK, Visiting, BusInv, NEW c \in Messages, Bump(c)
  PROVE  BusInv'
<1>0. /\ c \in Calls /\ At(c) \in Receivers
      /\ Route[c] \in Seq(Receivers) /\ pos[c] \in DOMAIN Route[c]
      /\ DOMAIN Route[c] = 1..Len(Route[c]) /\ Len(Route[c]) \in Nat
  BY AtReceiver, BusAssumption DEF Calls, Visiting
<1>1. /\ Op[c] = "force_send"
      /\ \A i \in DOMAIN Route[c] : i >= pos[c] => Copy(c, i) = "none"
  BY <1>0 DEF BusInv, RouteInv, Underway, Bump, Step
<1>2. /\ Others(c) /\ pc'[c] = "send" /\ pos'[c] = pos[c]
      /\ Move(At(c), c, "permit") /\ UNCHANGED <<queue, events>>
      /\ processing' = [processing EXCEPT ![At(c)] = @ + 1]
  BY LocalMoves DEF Bump, Step, ForceSlot
<1>3. at[At(c)][c] = "none"
  BY <1>0, <1>1 DEF Copy, At
<1>4. Slots'
  BY <1>0, <1>1, <1>2, <1>3, SlotTaken DEF BusInv, Slotted
<1>5. \A i \in DOMAIN Route[c] :
        Copy(c, i)' = IF i = pos[c] THEN "permit" ELSE Copy(c, i)
  BY <1>2, CopyMove
<1>6. \A i \in DOMAIN Route[c] : Underway(c, i)'
  BY <1>0, <1>1, <1>2, <1>5 DEF Underway
<1>7. QED
  BY <1>2, <1>3, <1>4, <1>6, PermitStep

LEMMA SendKeeps ==
  ASSUME CommonTypeOK, Visiting, BusInv, NEW c \in Messages, Send(c)
  PROVE  BusInv'
<1>0. /\ c \in Calls /\ At(c) \in Receivers
      /\ Route[c] \in Seq(Receivers) /\ pos[c] \in DOMAIN Route[c]
      /\ DOMAIN Route[c] = 1..Len(Route[c]) /\ Len(Route[c]) \in Nat
  BY AtReceiver, BusAssumption DEF Calls, Visiting
<1>1. /\ at[At(c)][c] = "permit"
      /\ \A i \in DOMAIN Route[c] : i > pos[c] =>
           Copy(c, i) = IF Op[c] = "try_send" THEN "permit" ELSE "none"
  BY <1>0 DEF BusInv, RouteInv, Underway, Send, Step, Copy, At
<1>2. /\ pc'[c] = "mark" /\ pos'[c] = pos[c] /\ Others(c)
      /\ UNCHANGED <<processing, events>>
  BY LocalMoves DEF Send, Step, SendMessage, wrapperVars, contextVars
<1>3. PICK p \in {"queued", "refused"} : Move(At(c), c, p)
  BY DEF Send, SendMessage
<1>4. Slots'
  BY <1>0, <1>1, <1>2, <1>3, SlotKept DEF BusInv, Slotted
<1>6. RouteInv'
  <2>1. \A i \in DOMAIN Route[c] :
          Copy(c, i)' = IF i = pos[c] THEN p ELSE Copy(c, i)
    BY <1>3, CopyMove
  <2>2. \A i \in DOMAIN Route[c] : Underway(c, i)'
    BY <1>0, <1>1, <1>2, <2>1 DEF Underway
  <2>3. QED
    BY <1>2, <1>3, <2>2, CopyMove, RouteOfOne DEF BusInv
<1>7. ChannelInv'
  <2>1. CASE UNCHANGED queue
    BY <1>0, <1>1, <1>2, <1>3, <2>1, ChannelKept DEF BusInv
  <2>2. CASE /\ queue' = [queue EXCEPT ![At(c)] = Append(@, c)]
             /\ Move(At(c), c, "queued")
    <3>1. SUFFICES ASSUME NEW s \in Receivers
                   PROVE  QueueOf(s)' /\ EventsOf(s)'
      BY ChannelSplit
    <3>2. QueueOf(s) /\ EventsOf(s)
      BY ChannelSplit DEF BusInv
    <3>3. HoldsIn(events[s], at'[s], "answered")
      BY <1>0, <1>1, <2>2, <3>2, HoldsMove DEF CommonTypeOK, EventsOf
    <3>4. HoldsIn(queue[s], at'[s], "queued")
      BY <1>0, <1>1, <2>2, <3>2, HoldsMove DEF CommonTypeOK, QueueOf
    <3>5. CASE s # At(c)
      <4>1. queue'[s] = queue[s]
        BY <2>2, <3>5 DEF CommonTypeOK, MailTypeOK
      <4>2. QED
        BY <1>2, <3>3, <3>4, <4>1 DEF QueueOf, EventsOf
    <3>6. CASE s = At(c)
      <4>1. queue'[s] = Append(queue[s], c) /\ at'[s][c] = "queued"
        BY <1>0, <2>2, <3>6 DEF CommonTypeOK, MailTypeOK, Move
      <4>2. \A i \in DOMAIN queue[s] : queue[s][i] # c
        BY <1>1, <3>2, <3>6 DEF QueueOf, HoldsIn
      <4>3. queue[s] \in Seq(Messages \cup Actions)
        BY DEF CommonTypeOK, MailTypeOK
      <4>4. HoldsIn(Append(queue[s], c), at'[s], "queued")
        BY <3>4, <4>1, <4>2, <4>3, HoldsAppend
      <4>5. QED
        BY <1>2, <3>3, <4>1, <4>4 DEF QueueOf, EventsOf
    <3>7. QED
      BY <3>5, <3>6
  <2>3. QED
    BY <2>1, <2>2 DEF Send, SendMessage
<1>8. QED
  BY <1>4, <1>6, <1>7 DEF BusInv

LEMMA MarkKeeps ==
  ASSUME CommonTypeOK, Visiting, BusInv, NEW c \in Messages, Mark(c)
  PROVE  BusInv'
<1>0. /\ c \in Calls /\ Op[c] \in MessageOps
      /\ Route[c] \in Seq(Receivers) /\ pos[c] \in DOMAIN Route[c]
      /\ DOMAIN Route[c] = 1..Len(Route[c]) /\ Len(Route[c]) \in Nat
      /\ Op[c] \in {"send_one", "request"} => Len(Route[c]) = 1
  BY BusAssumption DEF Calls, Visiting
<1>1. /\ Others(c) /\ UNCHANGED <<mailVars, processing>>
      /\ \A i \in DOMAIN Route[c] : Copy(c, i)' = Copy(c, i)
  BY LocalMoves DEF Mark, SendNext, mailVars, Copy
<1>2. \A i \in DOMAIN Route[c] : i > pos[c] =>
        Copy(c, i)' = IF Op[c] = "try_send" THEN "permit" ELSE "none"
  BY <1>1 DEF BusInv, RouteInv, Underway, Mark
<1>3. CASE pc'[c] \in {"done", "await"}
  BY <1>1, <1>3, QuietStep DEF Underway
<1>4. CASE /\ ~IsLast(c) /\ Op[c] # "request" /\ pos'[c] = pos[c] + 1
           /\ pc'[c] = IF Op[c] = "try_send" THEN "send" ELSE Entry(c)
  <2>1. Op[c] \in {"send", "try_send", "force_send"}
    <3>1. ASSUME Len(Route[c]) = 1
          PROVE  pos[c] = Len(Route[c])
      <4>1. pos[c] \in 1..1
        BY <1>0, <3>1
      <4>2. QED
        BY <3>1, <4>1
    <3>2. QED
      BY <1>0, <1>4, <3>1 DEF MessageOps, IsLast
  <2>2. \A i \in DOMAIN Route[c] : i >= pos'[c] => i > pos[c]
    BY <1>0, <1>4
  <2>3. CASE Op[c] = "send"
    <3>1. pc'[c] = "reserve"
      BY <1>4, <2>3 DEF Entry
    <3>2. \A i \in DOMAIN Route[c] : Underway(c, i)'
      BY <1>2, <2>2, <2>3, <3>1 DEF Underway
    <3>3. QED
      BY <1>1, <3>2, QuietStep
  <2>4. CASE Op[c] = "try_send"
    <3>1. pc'[c] = "send"
      BY <1>4, <2>4
    <3>2. \A i \in DOMAIN Route[c] : i = pos'[c] \/ i > pos'[c] => i >= pos'[c]
      BY <1>0, <1>4
    <3>3. \A i \in DOMAIN Route[c] : Underway(c, i)'
      BY <1>2, <2>2, <2>4, <3>1, <3>2 DEF Underway
    <3>4. QED
      BY <1>1, <3>3, QuietStep
  <2>5. CASE Op[c] = "force_send"
    <3>1. pc'[c] = "bump"
      BY <1>4, <2>5 DEF Entry
    <3>2. \A i \in DOMAIN Route[c] : Underway(c, i)'
      BY <1>2, <2>2, <2>5, <3>1 DEF Underway
    <3>3. QED
      BY <1>1, <3>2, QuietStep
  <2>6. QED
    BY <2>1, <2>3, <2>4, <2>5
<1>5. QED
  BY <1>3, <1>4, LocalMoves DEF Mark, SendNext

LEMMA ReturnKeeps ==
  ASSUME CommonTypeOK, BusInv, NEW c \in Messages, Answered(c) \/ Abandon(c)
  PROVE  BusInv'
<1>1. /\ pc'[c] = "done" /\ Others(c) /\ UNCHANGED <<mailVars, processing>>
  BY LocalMoves DEF Answered, Abandon, wrapperVars, contextVars
<1>2. QED
  BY <1>1, QuietStep DEF Underway

LEMMA MessageKeeps ==
  ASSUME CommonTypeOK, Visiting, BusInv, NEW c \in Messages, MessageStep(c)
  PROVE  BusInv'
BY ReserveKeeps, PollReserveKeeps, TryReserveKeeps, DropPermitKeeps, BumpKeeps, SendKeeps,
   MarkKeeps, ReturnKeeps DEF MessageStep

---------------------------------------------------------------------------
(* The steps of a control. *)

LEMMA OnwardLocal ==
  ASSUME CommonTypeOK, NEW c \in Controls, NEW m \in Messages
  PROVE  /\ Onward(c) => pc'[m] = pc[m] /\ pos'[m] = pos[m]
         /\ Flushed(c) => pc'[m] = pc[m] /\ pos'[m] = pos[m]
         /\ \A to : Goes(c, to) => pc'[m] = pc[m]
<1>1. /\ c \in Calls /\ m \in Calls /\ m # c
      /\ pc \in [Calls -> CallPlace] /\ pos \in [Calls -> Nat \ {0}]
  BY ReceiverAssumption DEF Calls, CommonTypeOK, BusTypeOK
<1>2. \A to : Goes(c, to) => pc'[m] = pc[m]
  BY <1>1 DEF Goes
<1>3. Onward(c) => pc'[m] = pc[m] /\ pos'[m] = pos[m]
  BY <1>1, <1>2 DEF Onward, Visit, NextRound, Return
<1>4. Flushed(c) => pc'[m] = pc[m] /\ pos'[m] = pos[m]
  BY <1>2, <1>3 DEF Flushed, StaysLocal
<1>5. QED
  BY <1>2, <1>3, <1>4

LEMMA ControlKeeps ==
  ASSUME CommonTypeOK, Visiting, BusInv, NEW c \in Controls,
         StartControl(c) \/ StartClose(c) \/ TimeOut(c) \/ ControlStep(c)
  PROVE  BusInv'
<1>0. At(c) \in Receivers
  BY AtReceiver DEF Calls
<1>1. \A m \in Messages : pc'[m] = pc[m] /\ pos'[m] = pos[m]
  BY OnwardLocal DEF StartControl, StartClose, TimeOut, ControlStep, Check, Register,
     Push, PushFails, PollFlushed, UnparkFlushed, CheckIdle, CheckReady, Awake, Enter,
     Step, StaysLocal
<1>2. UNCHANGED <<at, processing, events>>
  BY DEF StartControl, StartClose, TimeOut, ControlStep, Check, Register, Push,
     PushFails, PollFlushed, UnparkFlushed, CheckIdle, CheckReady, Awake, SendAction,
     mailVars, wrapperVars, contextVars
<1>3. UNCHANGED queue \/ \E a \in Actions : queue' = [queue EXCEPT ![At(c)] = Append(@, a)]
  <2>1. ActionOf(c) \in Actions
    BY KindType DEF Calls
  <2>2. QED
    BY <2>1 DEF StartControl, StartClose, TimeOut, ControlStep, Check, Register, Push,
       PushFails, PollFlushed, UnparkFlushed, CheckIdle, CheckReady, Awake, SendAction,
       mailVars
<1>4. ChannelInv'
  <2>1. CASE UNCHANGED queue
    BY <1>2, <2>1, ChannelFrame DEF BusInv
  <2>2. ASSUME NEW a \in Actions, queue' = [queue EXCEPT ![At(c)] = Append(@, a)]
        PROVE  ChannelInv'
    <3>1. SUFFICES ASSUME NEW s \in Receivers
                   PROVE  QueueOf(s)' /\ EventsOf(s)'
      BY ChannelSplit
    <3>2. QueueOf(s) /\ EventsOf(s)
      BY ChannelSplit DEF BusInv
    <3>3. queue'[s] = queue[s] \/ queue'[s] = Append(queue[s], a)
      BY <1>0, <2>2 DEF CommonTypeOK, MailTypeOK
    <3>4. queue[s] \in Seq(Messages \cup Actions) /\ a \notin Messages
      BY MailboxAssumption DEF CommonTypeOK, MailTypeOK
    <3>5. HoldsIn(Append(queue[s], a), at[s], "queued")
      BY <3>2, <3>4, HoldsAppend DEF QueueOf
    <3>6. QED
      BY <1>2, <3>2, <3>3, <3>5 DEF QueueOf, EventsOf
  <2>3. QED
    BY <1>3, <2>1, <2>2
<1>5. RouteInv'
  BY <1>1, <1>2, RouteKept DEF BusInv
<1>6. \A r : \A S : Copies(r, S)' = Copies(r, S)
  BY <1>2 DEF Copies
<1>7. Slots'
  BY <1>2, <1>6, SlotFrame DEF BusInv
<1>8. QED
  BY <1>4, <1>5, <1>7 DEF BusInv

---------------------------------------------------------------------------
(* The steps of the event loop. *)

LEMMA LoopFrame ==
  ASSUME BusInv, UNCHANGED <<at, queue, processing, busVars>>, ChannelInv'
  PROVE  BusInv'
<1>1. \A r : \A S : Copies(r, S)' = Copies(r, S)
  BY DEF Copies
<1>2. RouteInv'
  BY RouteKept DEF BusInv, busVars, localVars
<1>3. QED
  BY <1>1, <1>2, SlotFrame DEF BusInv

\* Taking an event from its channel, its copy left where it is.
LEMMA TakeEventHolds ==
  ASSUME CommonTypeOK, ChannelInv, NEW r \in Receivers, NEW x, TakeEvent(r, x)
  PROVE  /\ \A s \in Receivers : HoldsIn(events'[s], at[s], "answered")
         /\ x \in Messages =>
              at[r][x] = "answered" /\ \A i \in DOMAIN events'[r] : events'[r][i] # x
<1>1. \A s \in Receivers : HoldsIn(events[s], at[s], "answered")
  BY ChannelSplit DEF EventsOf
<1>2. /\ events[r] \in Seq(Messages \cup Signals) /\ events[r] # <<>>
      /\ x = Head(events[r]) /\ events'[r] = Tail(events[r])
      /\ \A s \in Receivers \ {r} : events'[s] = events[s]
  BY DEF TakeEvent, CommonTypeOK, MailTypeOK
<1>3. /\ HoldsIn(Tail(events[r]), at[r], "answered")
      /\ Head(events[r]) \in Messages =>
           /\ at[r][Head(events[r])] = "answered"
           /\ \A i \in DOMAIN Tail(events[r]) : Tail(events[r])[i] # Head(events[r])
  BY <1>1, <1>2, HoldsTail
<1>4. QED
  BY <1>1, <1>2, <1>3

LEMMA LoopKeeps ==
  ASSUME CommonTypeOK, Visiting, BusInv, NEW r \in Receivers, LoopStep(r),
         UNCHANGED busVars
  PROVE  BusInv'
<1>a. \A m \in Messages : pc'[m] = pc[m] /\ pos'[m] = pos[m]
  BY DEF busVars, localVars
<1>b. ASSUME UNCHANGED <<mailVars, processing>>
      PROVE  BusInv'
  BY <1>b, ChannelFrame, LoopFrame DEF BusInv, mailVars
<1>c. ASSUME NEW x, TakeEvent(r, x), UNCHANGED <<at, processing>>
      PROVE  BusInv'
  <2>1. ChannelInv'
    <3>1. UNCHANGED <<at, queue>>
      BY <1>c DEF TakeEvent
    <3>2. \A s \in Receivers : HoldsIn(events'[s], at[s], "answered")
      BY <1>c, TakeEventHolds DEF BusInv
    <3>3. QED
      BY <3>1, <3>2, ChannelSplit DEF BusInv, QueueOf, EventsOf
  <2>2. QED
    BY <1>c, <2>1, LoopFrame DEF TakeEvent
<1>1. ASSUME NEW c \in Messages, OnResponse(r, c)
      PROVE  BusInv'
  <2>1. /\ Move(r, c, "answering") /\ TakeEvent(r, c) /\ UNCHANGED queue
        /\ processing' = [processing EXCEPT ![r] = @ - 1]
    BY <1>1 DEF OnResponse, TakeEvent
  <2>2. /\ \A s \in Receivers : HoldsIn(events'[s], at[s], "answered")
        /\ at[r][c] = "answered" /\ \A i \in DOMAIN events'[r] : events'[r][i] # c
    BY <2>1, TakeEventHolds DEF BusInv
  <2>3. ChannelInv'
    <3>1. SUFFICES ASSUME NEW s \in Receivers
                   PROVE  QueueOf(s)' /\ EventsOf(s)'
      BY ChannelSplit
    <3>2. HoldsIn(queue[s], at'[s], "queued")
      BY <2>1, <2>2, ChannelSplit, HoldsMove DEF BusInv, CommonTypeOK, QueueOf
    <3>3. HoldsIn(events'[s], at'[s], "answered")
      BY <2>1, <2>2, HoldsMove DEF CommonTypeOK
    <3>4. QED
      BY <2>1, <3>2, <3>3 DEF QueueOf, EventsOf
  <2>4. Slots'
    BY <2>1, <2>2, SlotFreed DEF BusInv, Slotted
  <2>5. RouteInv'
    BY <1>a, <2>1, <2>2, RouteKept DEF BusInv, Move, CommonTypeOK, MailTypeOK
  <2>6. QED
    BY <2>3, <2>4, <2>5 DEF BusInv
<1>2. ASSUME NEW c \in Messages, Deliver(r, c)
      PROVE  BusInv'
  <2>1. /\ at[r][c] = "answering" /\ Move(r, c, "done")
        /\ UNCHANGED <<queue, events, processing>>
    BY <1>2 DEF Deliver, contextVars
  <2>2. ChannelInv'
    BY <2>1, ChannelKept DEF BusInv
  <2>3. Slots'
    BY <2>1, SlotKept DEF BusInv, Slotted
  <2>4. RouteInv'
    BY <1>a, <2>1, RouteKept DEF BusInv, Move, CommonTypeOK, MailTypeOK
  <2>5. QED
    BY <2>2, <2>3, <2>4 DEF BusInv
<1>3. ASSUME NEW c \in Messages, DeliverPanics(r, c)
      PROVE  BusInv'
  <2>1. /\ \A s \in Receivers \ {r} : at'[s] = at[s] /\ events'[s] = events[s]
        /\ events'[r] = <<>>
        /\ \A m \in Messages : at'[r][m] = IF m = c THEN "done"
                                ELSE IF at[r][m] = "answered" THEN "lost" ELSE at[r][m]
        /\ at[r][c] = "answering" /\ UNCHANGED <<queue, processing>>
    BY <1>3 DEF DeliverPanics, CommonTypeOK, MailTypeOK, contextVars
  <2>2. ChannelInv'
    <3>1. SUFFICES ASSUME NEW s \in Receivers
                   PROVE  QueueOf(s)' /\ EventsOf(s)'
      BY ChannelSplit
    <3>2. QueueOf(s) /\ EventsOf(s)
      BY ChannelSplit DEF BusInv
    <3>3. CASE s # r
      BY <2>1, <3>2, <3>3 DEF QueueOf, EventsOf
    <3>4. CASE s = r
      <4>1. \A m \in Messages : at[r][m] = "queued" => at'[r][m] = "queued"
        BY <2>1
      <4>2. HoldsIn(queue[r], at'[r], "queued")
        BY <3>2, <3>4, <4>1, HoldsFrame DEF QueueOf
      <4>3. HoldsIn(<<>>, at'[r], "answered")
        BY DEF HoldsIn
      <4>4. QED
        BY <2>1, <3>4, <4>2, <4>3 DEF QueueOf, EventsOf
    <3>5. QED
      BY <3>3, <3>4
  <2>3. \A s \in Receivers : Copies(s, Slotted)' = Copies(s, Slotted)
    BY <2>1 DEF Copies, Slotted
  <2>4. RouteInv'
    <3>1. \A s \in Receivers, m \in Messages :
            \/ at'[s][m] = at[s][m]
            \/ at[s][m] \notin {"none", "permit"} /\ at'[s][m] \notin {"none", "permit"}
      BY <2>1
    <3>2. QED
      BY <1>a, <3>1, RouteKept DEF BusInv
  <2>5. QED
    BY <2>1, <2>2, <2>3, <2>4, SlotFrame DEF BusInv
<1>4. CASE NotifyIdle(r) \/ NotifyResponse(r) \/ NotifyFlushed(r) \/ SetReady(r)
  BY <1>4, <1>b DEF NotifyIdle, NotifyResponse, NotifyFlushed, SetReady, contextVars
<1>5. CASE OnFlushed(r)
  BY <1>5, <1>c DEF OnFlushed
<1>6. CASE OnReady(r)
  BY <1>6, <1>c DEF OnReady, contextVars
<1>7. CASE OnSynchronized(r)
  BY <1>7, <1>c DEF OnSynchronized, contextVars
<1>8. CASE EndLoop(r)
  <2>1. UNCHANGED <<at, queue, events, processing>>
    BY <1>8 DEF EndLoop, contextVars
  <2>2. QED
    BY <2>1, ChannelFrame, LoopFrame DEF BusInv
<1>9. QED
  BY <1>1, <1>2, <1>3, <1>4, <1>5, <1>6, <1>7, <1>8 DEF LoopStep

\* Receiving the next item, its copy left where it is.
LEMMA ReceiveHolds ==
  ASSUME CommonTypeOK, ChannelInv, NEW r \in Receivers, Receive(r)
  PROVE  /\ \A s \in Receivers : HoldsIn(queue'[s], at[s], "queued")
         /\ Incoming(r) \in Messages =>
              /\ at[r][Incoming(r)] = "queued"
              /\ \A i \in DOMAIN queue'[r] : queue'[r][i] # Incoming(r)
<1>1. \A s \in Receivers : HoldsIn(queue[s], at[s], "queued")
  BY ChannelSplit DEF QueueOf
<1>2. /\ queue[r] \in Seq(Messages \cup Actions) /\ queue[r] # <<>>
      /\ queue'[r] = Tail(queue[r])
      /\ \A s \in Receivers \ {r} : queue'[s] = queue[s]
  BY DEF Receive, CommonTypeOK, MailTypeOK
<1>3. /\ HoldsIn(Tail(queue[r]), at[r], "queued")
      /\ Head(queue[r]) \in Messages =>
           /\ at[r][Head(queue[r])] = "queued"
           /\ \A i \in DOMAIN Tail(queue[r]) : Tail(queue[r])[i] # Head(queue[r])
  BY <1>1, <1>2, HoldsTail
<1>4. QED
  BY <1>1, <1>2, <1>3 DEF Incoming

\* The poller sends a signal, and may have taken an item without a message.
LEMMA SignalHolds ==
  ASSUME CommonTypeOK, ChannelInv, NEW r \in Receivers, NEW x \in Signals,
         events' = [events EXCEPT ![r] = Append(@, x)], UNCHANGED at,
         UNCHANGED queue \/ Receive(r)
  PROVE  ChannelInv'
<1>1. SUFFICES ASSUME NEW s \in Receivers
               PROVE  QueueOf(s)' /\ EventsOf(s)'
  BY ChannelSplit
<1>2. QueueOf(s) /\ EventsOf(s)
  BY ChannelSplit
<1>3. HoldsIn(queue'[s], at[s], "queued")
  BY <1>2, ReceiveHolds DEF QueueOf
<1>4. events'[s] = events[s] \/ events'[s] = Append(events[s], x)
  BY DEF CommonTypeOK, MailTypeOK
<1>5. events[s] \in Seq(Messages \cup Signals) /\ x \notin Messages
  BY MailboxAssumption DEF CommonTypeOK, MailTypeOK
<1>6. HoldsIn(Append(events[s], x), at[s], "answered")
  BY <1>2, <1>5, HoldsAppend DEF EventsOf
<1>7. QED
  BY <1>2, <1>3, <1>4, <1>6 DEF QueueOf, EventsOf

---------------------------------------------------------------------------
(* What the calls and the event loops do to the copies. *)

\* They reserve, send and answer; what a poller or a task has is not theirs.
Outside ==
  \A r \in Receivers, m \in Messages :
    \/ at'[r][m] = at[r][m]
    \/ at[r][m] \in {"none", "permit"} /\ at'[r][m] \in {"none", "permit", "queued", "refused"}
    \/ at[r][m] \in {"answered", "answering"} /\ at'[r][m] \in {"answering", "done", "lost"}

LEMMA MoveOutside ==
  ASSUME CommonTypeOK, NEW r \in Receivers, NEW c \in Messages, NEW p, Move(r, c, p),
         \/ at[r][c] \in {"none", "permit"} /\ p \in {"none", "permit", "queued", "refused"}
         \/ at[r][c] \in {"answered", "answering"} /\ p \in {"answering", "done", "lost"}
  PROVE  Outside
BY DEF Move, CommonTypeOK, MailTypeOK, Outside

LEMMA SlotOutside ==
  ASSUME CommonTypeOK, Visiting, BusInv, NEW c \in Messages,
         Reserve(c) \/ TryReserve(c) \/ Bump(c)
  PROVE  Outside
<1>1. /\ c \in Calls /\ At(c) \in Receivers
      /\ Route[c] \in Seq(Receivers) /\ pos[c] \in DOMAIN Route[c]
  BY AtReceiver, BusAssumption DEF Calls, Visiting
<1>2. Copy(c, pos[c]) = "none"
  <2>1. pos[c] \in Nat
    BY <1>1
  <2>2. Underway(c, pos[c])
    BY <1>1 DEF BusInv, RouteInv
  <2>3. QED
    BY <2>1, <2>2 DEF Underway, Reserve, Reserving, TryReserve, Bump, Step
<1>3. at[At(c)][c] = "none"
  BY <1>2 DEF Copy, At
<1>4. UNCHANGED at \/ Move(At(c), c, "permit")
  BY DEF Reserve, TryReserve, Bump, TakeSlot, ForceSlot
<1>5. QED
  BY <1>1, <1>3, <1>4, MoveOutside DEF Outside

LEMMA MessageOutside ==
  ASSUME CommonTypeOK, Visiting, BusInv, NEW c \in Messages,
         StartSend(c) \/ StartRequest(c) \/ Abandon(c) \/ MessageStep(c)
  PROVE  Outside
<1>1. /\ c \in Calls /\ At(c) \in Receivers
      /\ Route[c] \in Seq(Receivers) /\ pos[c] \in DOMAIN Route[c]
  BY AtReceiver, BusAssumption DEF Calls, Visiting
<1>2. ASSUME UNCHANGED at
      PROVE  Outside
  BY <1>2 DEF Outside
<1>3. CASE Reserve(c) \/ TryReserve(c) \/ Bump(c)
  BY <1>3, SlotOutside
<1>4. CASE DropPermit(c)
  BY <1>1, <1>2, <1>4, MoveOutside DEF DropPermit, DropSlot
<1>5. CASE Send(c)
  <2>1. Underway(c, pos[c]) /\ pc[c] = "send"
    BY <1>1, <1>5 DEF BusInv, RouteInv, Send, Step
  <2>2. at[At(c)][c] = "permit"
    BY <2>1 DEF Underway, Copy, At
  <2>3. PICK p \in {"queued", "refused"} : Move(At(c), c, p)
    BY <1>5 DEF Send, SendMessage
  <2>4. QED
    BY <1>1, <2>2, <2>3, MoveOutside
<1>6. CASE PollReserve(c) \/ Mark(c) \/ Answered(c) \/ StartSend(c) \/ StartRequest(c)
           \/ Abandon(c)
  BY <1>2, <1>6 DEF PollReserve, Mark, Answered, StartSend, StartRequest, Abandon, mailVars
<1>7. QED
  BY <1>3, <1>4, <1>5, <1>6 DEF MessageStep

LEMMA ControlOutside ==
  ASSUME NEW c \in Controls,
         StartControl(c) \/ StartClose(c) \/ TimeOut(c) \/ ControlStep(c)
  PROVE  UNCHANGED at
BY DEF StartControl, StartClose, TimeOut, ControlStep, Check, Register, Push, PushFails,
   PollFlushed, UnparkFlushed, CheckIdle, CheckReady, Awake, SendAction, mailVars

LEMMA LoopOutside ==
  ASSUME CommonTypeOK, BusInv, NEW r \in Receivers, LoopStep(r)
  PROVE  Outside
<1>1. ASSUME UNCHANGED at
      PROVE  Outside
  BY <1>1 DEF Outside
<1>2. ASSUME NEW c \in Messages, OnResponse(r, c)
      PROVE  Outside
  BY <1>2, TakeEventHolds, MoveOutside DEF OnResponse, BusInv
<1>3. ASSUME NEW c \in Messages, Deliver(r, c)
      PROVE  Outside
  BY <1>3, MoveOutside DEF Deliver
<1>4. ASSUME NEW c \in Messages, DeliverPanics(r, c)
      PROVE  Outside
  BY <1>4 DEF DeliverPanics, CommonTypeOK, MailTypeOK, Outside
<1>5. CASE NotifyIdle(r) \/ NotifyResponse(r) \/ NotifyFlushed(r) \/ SetReady(r)
           \/ OnFlushed(r) \/ OnReady(r) \/ OnSynchronized(r) \/ EndLoop(r)
  BY <1>1, <1>5 DEF NotifyIdle, NotifyResponse, NotifyFlushed, SetReady, OnFlushed,
     OnReady, OnSynchronized, EndLoop, mailVars
<1>6. QED
  BY <1>2, <1>3, <1>4, <1>5 DEF LoopStep

\* The event loop only moves the copies whose Response it takes.
LEMMA LoopCopies ==
  ASSUME CommonTypeOK, BusInv, NEW r \in Receivers, LoopStep(r)
  PROVE  \A s \in Receivers, m \in Messages :
           \/ at'[s][m] = at[s][m]
           \/ at[s][m] \in {"answered", "answering"} /\ at'[s][m] \in {"answering", "done", "lost"}
<1> DEFINE Goal == \A s \in Receivers, m \in Messages :
      \/ at'[s][m] = at[s][m]
      \/ at[s][m] \in {"answered", "answering"} /\ at'[s][m] \in {"answering", "done", "lost"}
<1>0. at \in [Receivers -> [Messages -> Place]]
  BY DEF CommonTypeOK, MailTypeOK
<1>1. ASSUME NEW c \in Messages, OnResponse(r, c)
      PROVE  Goal
  BY <1>0, <1>1, TakeEventHolds DEF OnResponse, BusInv, Move
<1>2. ASSUME NEW c \in Messages, Deliver(r, c)
      PROVE  Goal
  BY <1>0, <1>2 DEF Deliver, Move
<1>3. ASSUME NEW c \in Messages, DeliverPanics(r, c)
      PROVE  Goal
  BY <1>0, <1>3 DEF DeliverPanics
<1>4. CASE UNCHANGED at
  BY <1>4
<1>5. QED
  BY <1>1, <1>2, <1>3, <1>4 DEF LoopStep, NotifyIdle, NotifyResponse, NotifyFlushed,
     SetReady, OnFlushed, OnReady, OnSynchronized, EndLoop, mailVars

---------------------------------------------------------------------------
(* The steps of a poller and its tasks. *)

\* What a poller and its tasks have keeps its slot.
LEMMA InsideKeeps ==
  ASSUME CommonTypeOK, BusInv, ChannelInv', UNCHANGED <<processing, busVars>>,
         \A r \in Receivers, m \in Messages :
           \/ at'[r][m] = at[r][m]
           \/ /\ at[r][m] \in Slotted /\ at[r][m] # "permit"
              /\ at'[r][m] \in Slotted /\ at'[r][m] # "permit"
  PROVE  BusInv'
<1>1. \A r \in Receivers : Copies(r, Slotted)' = Copies(r, Slotted)
  BY DEF Copies
<1>2. RouteInv'
  <2>1. \A m \in Messages : pc'[m] = pc[m] /\ pos'[m] = pos[m]
    BY DEF busVars, localVars
  <2>2. \A r \in Receivers, m \in Messages :
          \/ at'[r][m] = at[r][m]
          \/ at[r][m] \notin {"none", "permit"} /\ at'[r][m] \notin {"none", "permit"}
    BY DEF Slotted
  <2>3. QED
    BY <2>1, <2>2, RouteKept DEF BusInv
<1>3. Slots'
  BY <1>1, SlotFrame DEF BusInv
<1>4. QED
  BY <1>2, <1>3 DEF BusInv

\* The channels stay, and what is in them.
LEMMA ChannelSame ==
  ASSUME CommonTypeOK, ChannelInv, UNCHANGED <<queue, events>>,
         \A r \in Receivers, m \in Messages :
           at[r][m] \in {"queued", "answered"} => at'[r][m] = at[r][m]
  PROVE  ChannelInv'
<1>1. SUFFICES ASSUME NEW r \in Receivers
               PROVE  QueueOf(r)' /\ EventsOf(r)'
  BY ChannelSplit
<1>2. QueueOf(r) /\ EventsOf(r)
  BY ChannelSplit
<1>3. /\ \A m \in Messages : at[r][m] = "queued" => at'[r][m] = "queued"
      /\ \A m \in Messages : at[r][m] = "answered" => at'[r][m] = "answered"
  OBVIOUS
<1>4. HoldsIn(queue[r], at'[r], "queued") /\ HoldsIn(events[r], at'[r], "answered")
  BY <1>2, <1>3, HoldsFrame DEF QueueOf, EventsOf
<1>5. QED
  BY <1>4 DEF QueueOf, EventsOf

\* A poller that ends drops its queue.
LEMMA ChannelDropped ==
  ASSUME CommonTypeOK, ChannelInv, NEW r \in Receivers, UNCHANGED events,
         queue' = [queue EXCEPT ![r] = <<>>],
         \A s \in Receivers \ {r} : at'[s] = at[s],
         \A m \in Messages : at[r][m] = "answered" => at'[r][m] = "answered"
  PROVE  ChannelInv'
<1>1. SUFFICES ASSUME NEW s \in Receivers
               PROVE  QueueOf(s)' /\ EventsOf(s)'
  BY ChannelSplit
<1>2. QueueOf(s) /\ EventsOf(s)
  BY ChannelSplit
<1>3. CASE s # r
  <2>1. queue'[s] = queue[s] /\ at'[s] = at[s]
    BY <1>3 DEF CommonTypeOK, MailTypeOK
  <2>2. QED
    BY <1>2, <2>1 DEF QueueOf, EventsOf
<1>4. CASE s = r
  <2>1. HoldsIn(events[r], at'[r], "answered")
    BY <1>2, <1>4, HoldsFrame DEF EventsOf
  <2>2. queue'[r] = <<>> /\ HoldsIn(<<>>, at'[r], "queued")
    BY DEF HoldsIn, CommonTypeOK, MailTypeOK
  <2>3. QED
    BY <1>4, <2>1, <2>2 DEF QueueOf, EventsOf
<1>5. QED
  BY <1>3, <1>4

\* A poller receives a message.
LEMMA ChannelHeld ==
  ASSUME CommonTypeOK, ChannelInv, NEW r \in Receivers, Receive(r),
         NEW c \in Messages, c = Incoming(r), Move(r, c, "held"), UNCHANGED events
  PROVE  ChannelInv' /\ at[r][c] = "queued"
<1>1. /\ \A s \in Receivers : HoldsIn(queue'[s], at[s], "queued")
      /\ at[r][c] = "queued" /\ \A i \in DOMAIN queue'[r] : queue'[r][i] # c
  BY ReceiveHolds
<1>2. SUFFICES ASSUME NEW s \in Receivers
               PROVE  QueueOf(s)' /\ EventsOf(s)'
  BY <1>1, ChannelSplit
<1>3. HoldsIn(events[s], at'[s], "answered")
  BY <1>1, ChannelSplit, HoldsMove DEF CommonTypeOK, EventsOf
<1>4. HoldsIn(queue'[s], at'[s], "queued")
  BY <1>1, HoldsMove DEF CommonTypeOK
<1>5. QED
  BY <1>3, <1>4 DEF QueueOf, EventsOf

\* A task sends the Response of a message.
LEMMA ChannelAnswered ==
  ASSUME CommonTypeOK, ChannelInv, NEW r \in Receivers, NEW c \in Messages,
         at[r][c] = "handled", Move(r, c, "answered"), UNCHANGED queue,
         events' = [events EXCEPT ![r] = Append(@, c)]
  PROVE  ChannelInv'
<1>1. SUFFICES ASSUME NEW s \in Receivers
               PROVE  QueueOf(s)' /\ EventsOf(s)'
  BY ChannelSplit
<1>2. QueueOf(s) /\ EventsOf(s)
  BY ChannelSplit
<1>3. HoldsIn(queue[s], at'[s], "queued")
  BY <1>2, HoldsMove DEF CommonTypeOK, QueueOf
<1>4. HoldsIn(events[s], at'[s], "answered")
  BY <1>2, HoldsMove DEF CommonTypeOK, EventsOf
<1>5. CASE s # r
  <2>1. events'[s] = events[s]
    BY <1>5 DEF CommonTypeOK, MailTypeOK
  <2>2. QED
    BY <1>3, <1>4, <2>1 DEF QueueOf, EventsOf
<1>6. CASE s = r
  <2>1. events'[s] = Append(events[s], c) /\ at'[s][c] = "answered"
    BY <1>6 DEF CommonTypeOK, MailTypeOK, Move
  <2>2. \A i \in DOMAIN events[s] : events[s][i] # c
    BY <1>2, <1>6 DEF EventsOf, HoldsIn
  <2>3. events[s] \in Seq(Messages \cup Signals)
    BY DEF CommonTypeOK, MailTypeOK
  <2>4. HoldsIn(Append(events[s], c), at'[s], "answered")
    BY <1>4, <2>1, <2>2, <2>3, HoldsAppend
  <2>5. QED
    BY <1>3, <2>1, <2>4 DEF QueueOf, EventsOf
<1>7. QED
  BY <1>5, <1>6

---------------------------------------------------------------------------
(* Answers.  The keys of the slab of a receiver are distinct, so the       *)
(* response of a request finds its own waiter or none.                     *)

Requested(q) == Op[q] = "request" /\ pc[q] # "start"

\* A copy is where its call was sent.
Sent(r, c) == pc[c] # "start" /\ \E i \in DOMAIN Route[c] : Route[c][i] = r

\* The key of q is its own, or one its receiver has handed out already.
Keyed(q) == mid[q] = q \/ (mid[q] \in Nat /\ mid[q] < slab[Route[q][1]])

WaitersInv ==
  \A r \in Receivers, q \in Messages :
    q \in waiters[r] => Requested(q) /\ Route[q][1] = r
SentInv == \A r \in Receivers, c \in Messages : at[r][c] # "none" => Sent(r, c)
KeyedInv == \A q \in Messages : Requested(q) => Keyed(q)
DistinctInv ==
  \A p, q \in Messages :
    Requested(p) /\ Requested(q) /\ Route[p][1] = Route[q][1] /\ mid[p] = mid[q] => p = q

AnswerInv == AnswerMatches /\ WaitersInv /\ SentInv /\ KeyedInv /\ DistinctInv

\* A step that makes no call and delivers nothing.
LEMMA AnswerFrame ==
  ASSUME AnswerInv, UNCHANGED <<reply, waiters, slab, mid>>,
         \A m \in Messages : pc'[m] = "start" <=> pc[m] = "start",
         \A r \in Receivers, m \in Messages :
           at'[r][m] # "none" => at[r][m] # "none" \/ Sent(r, m)'
  PROVE  AnswerInv'
<1>1. \A m \in Messages : Requested(m)' <=> Requested(m)
  BY DEF Requested
<1>2. \A r \in Receivers, m \in Messages : Sent(r, m)' <=> Sent(r, m)
  BY DEF Sent
<1>3. AnswerMatches' /\ KeyedInv' /\ DistinctInv'
  BY <1>1 DEF AnswerInv, AnswerMatches, KeyedInv, Keyed, DistinctInv
<1>4. WaitersInv'
  BY DEF AnswerInv, WaitersInv, Requested
<1>5. SentInv'
  BY <1>2 DEF AnswerInv, SentInv
<1>6. QED
  BY <1>3, <1>4, <1>5 DEF AnswerInv

LEMMA ControlAnswers ==
  ASSUME CommonTypeOK, AnswerInv, NEW c \in Controls,
         StartControl(c) \/ StartClose(c) \/ TimeOut(c) \/ ControlStep(c)
  PROVE  AnswerInv'
<1>1. \A m \in Messages : pc'[m] = pc[m]
  BY OnwardLocal DEF StartControl, StartClose, TimeOut, ControlStep, Check, Register,
     Push, PushFails, PollFlushed, UnparkFlushed, CheckIdle, CheckReady, Awake, Enter,
     Step
<1>2. UNCHANGED at
  BY ControlOutside
<1>3. UNCHANGED <<reply, waiters, slab, mid>>
  BY DEF StartControl, StartClose, TimeOut, ControlStep, Check, Register, Push,
     PushFails, PollFlushed, UnparkFlushed, CheckIdle, CheckReady, Awake, wrapperVars,
     slabVars
<1>4. QED
  BY <1>1, <1>2, <1>3, AnswerFrame

\* A step of a call that was made.
LEMMA MessageAnswers ==
  ASSUME CommonTypeOK, Visiting, BusInv, AnswerInv, NEW c \in Messages,
         MessageStep(c) \/ Abandon(c)
  PROVE  AnswerInv'
<1>1. /\ c \in Calls /\ At(c) \in Receivers /\ pos[c] \in DOMAIN Route[c]
  BY AtReceiver DEF Calls, Visiting
<1>2. pc[c] # "start" /\ pc'[c] # "start" /\ Others(c)
  BY LocalMoves DEF MessageStep, Abandon, Reserve, Reserving, PollReserve, TryReserve,
     DropPermit, Bump, Send, Mark, Answered, Step, SendNext, Entry
<1>3. UNCHANGED <<reply, waiters, slab, mid>>
  BY DEF MessageStep, Abandon, Reserve, PollReserve, TryReserve, DropPermit, Bump, Send,
     Mark, Answered, wrapperVars, slabVars
<1>4. \A r \in Receivers, m \in Messages : at'[r][m] = at[r][m] \/ (r = At(c) /\ m = c)
  BY <1>1 DEF MessageStep, Abandon, Reserve, PollReserve, TryReserve, DropPermit, Bump,
     Send, Mark, Answered, TakeSlot, ForceSlot, DropSlot, SendMessage, Move, mailVars,
     CommonTypeOK, MailTypeOK
<1>5. Sent(At(c), c)
  BY <1>1, <1>2 DEF Sent, At
<1>6. \A r \in Receivers, m \in Messages :
        at'[r][m] # "none" => at[r][m] # "none" \/ Sent(r, m)'
  BY <1>2, <1>4, <1>5 DEF Sent
<1>7. \A m \in Messages : pc'[m] = "start" <=> pc[m] = "start"
  BY <1>2 DEF Others
<1>8. QED
  BY <1>3, <1>6, <1>7, AnswerFrame

\* A send that is made takes an id, which no request looks at.
LEMMA SendAnswers ==
  ASSUME CommonTypeOK, AnswerInv, NEW c \in Messages, StartSend(c)
  PROVE  AnswerInv'
<1>1. /\ pc[c] = "start" /\ Op[c] # "request" /\ Others(c)
      /\ UNCHANGED <<at, reply, waiters, slab>>
      /\ \A m \in Messages \ {c} : mid'[m] = mid[m]
  BY LocalMoves DEF StartSend, MayStart, mailVars, CommonTypeOK, WrapperTypeOK
<1>2. \A m \in Messages : Requested(m)' <=> Requested(m)
  BY <1>1 DEF Requested, Others
<1>3. \A m \in Messages : Requested(m) => mid'[m] = mid[m]
  BY <1>1 DEF Requested
<1>4. AnswerMatches' /\ KeyedInv' /\ DistinctInv'
  BY <1>1, <1>2, <1>3 DEF AnswerInv, AnswerMatches, KeyedInv, Keyed, DistinctInv
<1>5. WaitersInv'
  BY <1>1, <1>2 DEF AnswerInv, WaitersInv, CommonTypeOK, WrapperTypeOK
<1>6. SentInv'
  BY <1>1 DEF AnswerInv, SentInv, Sent, Others
<1>7. QED
  BY <1>4, <1>5, <1>6 DEF AnswerInv

\* A request that is made gets a key nobody has at its receiver.
LEMMA RequestAnswers ==
  ASSUME CommonTypeOK, Visiting, BusInv, AnswerInv, NEW c \in Messages, StartRequest(c)
  PROVE  AnswerInv'
<1>1. /\ pc[c] = "start" /\ Op[c] = "request" /\ Others(c) /\ UNCHANGED <<at, reply>>
      /\ pc'[c] = "reserve" /\ AddWaiter(At(c), c)
  BY LocalMoves DEF StartRequest, MayStart, mailVars, Entry
<1>2. PICK r \in Receivers : r = At(c)
  BY AtReceiver DEF Calls
<1>3. Route[c][1] = r
  <2>1. 1 \in DOMAIN Route[c]
    BY BusAssumption DEF Calls
  <2>2. pos[c] = 1
    BY <1>1, <2>1 DEF BusInv, RouteInv, Underway
  <2>3. QED
    BY <1>2, <2>2 DEF At
<1>4. /\ slab \in [Receivers -> Nat] /\ waiters \in [Receivers -> SUBSET Messages]
      /\ mid \in [Messages -> Nat \cup Messages]
  BY DEF CommonTypeOK, WrapperTypeOK
<1>5. /\ waiters' = [waiters EXCEPT ![r] = @ \cup {c}]
      /\ \/ mid'[c] = slab[r] /\ slab' = [slab EXCEPT ![r] = @ + 1]
         \/ mid'[c] = c /\ slab' = slab
      /\ \A m \in Messages \ {c} : mid'[m] = mid[m]
  BY <1>1, <1>2, <1>4 DEF AddWaiter
<1>6. \A m \in Messages : Requested(m)' <=> Requested(m) \/ m = c
  BY <1>1 DEF Requested, Others
<1>7. AnswerMatches'
  BY <1>1 DEF AnswerInv, AnswerMatches
<1>8. WaitersInv'
  BY <1>3, <1>4, <1>5, <1>6 DEF AnswerInv, WaitersInv
<1>9. SentInv'
  BY <1>1 DEF AnswerInv, SentInv, Sent, Others
<1>10. KeyedInv'
  <2>1. SUFFICES ASSUME NEW q \in Messages, Requested(q)'
                 PROVE  Keyed(q)'
    BY DEF KeyedInv
  <2>2. /\ slab'[r] \in Nat /\ slab[r] <= slab'[r]
        /\ \A s \in Receivers \ {r} : slab'[s] = slab[s]
    BY <1>4, <1>5
  <2>3. CASE q = c
    <3>1. \/ mid'[c] = c
          \/ mid'[c] = slab[r] /\ slab'[r] = slab[r] + 1 /\ slab[r] \in Nat
      BY <1>4, <1>5
    <3>2. QED
      BY <1>3, <2>3, <3>1 DEF Keyed
  <2>4. CASE q # c
    <3>1. Keyed(q) /\ mid'[q] = mid[q]
      BY <1>5, <1>6, <2>1, <2>4 DEF AnswerInv, KeyedInv
    <3>2. PICK s \in Receivers : s = Route[q][1]
      BY BusAssumption DEF Calls
    <3>3. slab[s] \in Nat /\ slab'[s] \in Nat /\ slab[s] <= slab'[s]
      BY <1>4, <2>2
    <3>4. QED
      BY <3>1, <3>2, <3>3 DEF Keyed
  <2>5. QED
    BY <2>3, <2>4
<1>11. \A q \in Messages \ {c} : Requested(q) /\ Route[q][1] = r => mid[q] # mid'[c]
  <2>1. SUFFICES ASSUME NEW q \in Messages \ {c}, Requested(q), Route[q][1] = r,
                        mid[q] = mid'[c]
                 PROVE  FALSE
    OBVIOUS
  <2>2. mid[q] = q \/ (mid[q] \in Nat /\ mid[q] < slab[r])
    BY <2>1 DEF AnswerInv, KeyedInv, Keyed
  <2>3. q \notin Nat /\ c \notin Nat /\ slab[r] \in Nat
    BY <1>4, ReceiverAssumption
  <2>4. QED
    BY <1>5, <2>1, <2>2, <2>3
<1>12. DistinctInv'
  <2>1. SUFFICES ASSUME NEW p \in Messages, NEW q \in Messages, Requested(p)',
                        Requested(q)', Route[p][1] = Route[q][1], mid'[p] = mid'[q]
                 PROVE  p = q
    BY DEF DistinctInv
  <2>2. CASE p # c /\ q # c
    BY <1>5, <1>6, <2>1, <2>2 DEF AnswerInv, DistinctInv
  <2>3. CASE p = c
    BY <1>3, <1>5, <1>6, <1>11, <2>1, <2>3
  <2>4. CASE q = c
    BY <1>3, <1>5, <1>6, <1>11, <2>1, <2>4
  <2>5. QED
    BY <2>2, <2>3, <2>4
<1>13. QED
  BY <1>7, <1>8, <1>9, <1>10, <1>12 DEF AnswerInv

LEMMA StartAnswers ==
  ASSUME CommonTypeOK, Visiting, BusInv, AnswerInv, NEW c \in Messages,
         StartSend(c) \/ StartRequest(c)
  PROVE  AnswerInv'
BY SendAnswers, RequestAnswers

\* The waiter a response finds is that of its own request.
LEMMA OwnWaiter ==
  ASSUME SeparateRequests, AnswerInv, NEW r \in Receivers, NEW c \in Messages,
         at[r][c] = "answering", NEW q \in WaiterOf(r, c), q \in Messages
  PROVE  q = c
<1>1. q \in waiters[r] /\ mid[q] = mid[c]
  BY DEF WaiterOf
<1>2. Requested(q) /\ Route[q][1] = r
  BY <1>1 DEF AnswerInv, WaitersInv
<1>3. Sent(r, c)
  BY DEF AnswerInv, SentInv
<1>4. PICK i \in DOMAIN Route[c] : Route[c][i] = r
  BY <1>3 DEF Sent
<1>5. Op[c] = "request"
  BY <1>2, <1>4 DEF SeparateRequests, Requested
<1>6. Len(Route[c]) = 1 /\ Route[c] \in Seq(Receivers)
  BY <1>5, BusAssumption DEF Calls
<1>7. i = 1
  BY <1>6
<1>8. QED
  BY <1>1, <1>2, <1>3, <1>4, <1>5, <1>7 DEF AnswerInv, DistinctInv, Requested, Sent

LEMMA LoopAnswers ==
  ASSUME SeparateRequests, CommonTypeOK, BusInv, AnswerInv, NEW r \in Receivers,
         LoopStep(r), UNCHANGED busVars
  PROVE  AnswerInv'
<1>1. UNCHANGED pc
  BY DEF busVars, localVars
<1>2. \A s \in Receivers, m \in Messages : at'[s][m] # "none" => at[s][m] # "none"
  BY LoopCopies
<1>3. waiters \in [Receivers -> SUBSET Messages]
  BY DEF CommonTypeOK, WrapperTypeOK
<1>4. ASSUME NEW c \in Messages, Deliver(r, c) \/ DeliverPanics(r, c)
      PROVE  AnswerInv'
  <2>1. UNCHANGED <<slab, mid>> /\ \A s \in Receivers : waiters'[s] \subseteq waiters[s]
    BY <1>3, <1>4 DEF Deliver, DeliverPanics
  <2>2. AnswerMatches'
    <3>1. \A q \in WaiterOf(r, c) : q \in Messages /\ q = c
      BY <1>3, <1>4, OwnWaiter DEF WaiterOf, Deliver, DeliverPanics
    <3>2. QED
      BY <1>4, <3>1 DEF Deliver, DeliverPanics, AnswerInv, AnswerMatches
  <2>3. WaitersInv' /\ KeyedInv' /\ DistinctInv'
    BY <1>1, <2>1 DEF AnswerInv, WaitersInv, KeyedInv, Keyed, DistinctInv, Requested
  <2>4. SentInv'
    BY <1>1, <1>2 DEF AnswerInv, SentInv, Sent
  <2>5. QED
    BY <2>2, <2>3, <2>4 DEF AnswerInv
<1>5. CASE ~\E c \in Messages : Deliver(r, c) \/ DeliverPanics(r, c)
  <2>1. UNCHANGED <<reply, waiters, slab, mid>>
    BY <1>5 DEF LoopStep, OnResponse, NotifyIdle, NotifyResponse, OnFlushed,
       NotifyFlushed, OnReady, SetReady, OnSynchronized, EndLoop, slabVars
  <2>2. QED
    BY <1>1, <1>2, <2>1, AnswerFrame
<1>6. QED
  BY <1>4, <1>5

\* Pollers and tasks make no call and know nothing of waiters.
LEMMA InsideAnswers ==
  ASSUME AnswerInv, UNCHANGED <<wrapperVars, busVars>>,
         \A r \in Receivers, m \in Messages : at'[r][m] # "none" => at[r][m] # "none"
  PROVE  AnswerInv'
BY AnswerFrame DEF wrapperVars, slabVars, busVars, localVars

LEMMA InitAnswers ==
  ASSUME WrapperInit, BusInit, MailInit
  PROVE  AnswerInv
<1>1. /\ \A m \in Messages : reply[m] = {} /\ ~Requested(m)
      /\ \A r \in Receivers : waiters[r] = {} /\ \A m \in Messages : at[r][m] = "none"
  BY DEF WrapperInit, BusInit, MailInit, Requested, Calls
<1>2. QED
  BY <1>1 DEF AnswerInv, AnswerMatches, WaitersInv, SentInv, KeyedInv, DistinctInv

---------------------------------------------------------------------------
(* What is queued is in the queue, and what is answered is in the events.  *)

Carries(q, x) == \E k \in DOMAIN q : q[k] = x

LEMMA CarriesTail ==
  ASSUME NEW S, NEW q \in Seq(S), q # <<>>, NEW x
  PROVE  /\ Carries(q, x) => x = Head(q) \/ Carries(Tail(q), x)
         /\ Carries(Tail(q), x) => Carries(q, x)
<1>1. /\ Len(q) \in Nat /\ Len(q) >= 1 /\ DOMAIN q = 1..Len(q)
      /\ DOMAIN Tail(q) = 1..(Len(q) - 1)
      /\ \A k \in DOMAIN Tail(q) : Tail(q)[k] = q[k + 1]
      /\ Head(q) = q[1]
  OBVIOUS
<1>2. ASSUME NEW k \in DOMAIN q, q[k] = x
      PROVE  x = Head(q) \/ Carries(Tail(q), x)
  <2>1. CASE k = 1
    BY <1>1, <1>2, <2>1
  <2>2. CASE k # 1
    <3>1. k - 1 \in DOMAIN Tail(q) /\ (k - 1) + 1 = k
      BY <1>1, <2>2
    <3>2. Tail(q)[k - 1] = x
      BY <1>1, <1>2, <3>1
    <3>3. QED
      BY <3>1, <3>2 DEF Carries
  <2>3. QED
    BY <2>1, <2>2
<1>3. ASSUME NEW k \in DOMAIN Tail(q), Tail(q)[k] = x
      PROVE  Carries(q, x)
  <2>1. k + 1 \in DOMAIN q /\ q[k + 1] = x
    BY <1>1, <1>3
  <2>2. QED
    BY <2>1 DEF Carries
<1>4. QED
  BY <1>2, <1>3 DEF Carries

LEMMA CarriesAppend ==
  ASSUME NEW S, NEW q \in Seq(S), NEW x, NEW y
  PROVE  Carries(Append(q, y), x) <=> Carries(q, x) \/ x = y
<1>1. /\ Len(q) \in Nat /\ DOMAIN q = 1..Len(q)
      /\ DOMAIN Append(q, y) = 1..(Len(q) + 1)
      /\ \A k \in 1..Len(q) : Append(q, y)[k] = q[k]
      /\ Append(q, y)[Len(q) + 1] = y
  OBVIOUS
<1>2. \A k \in 1..(Len(q) + 1) : k \in 1..Len(q) \/ k = Len(q) + 1
  BY <1>1
<1>3. \A k \in 1..Len(q) : k \in 1..(Len(q) + 1)
  BY <1>1
<1>4. Len(q) + 1 \in 1..(Len(q) + 1)
  BY <1>1
<1>5. QED
  BY <1>1, <1>2, <1>3, <1>4 DEF Carries

LEMMA CarriesNone ==
  ASSUME NEW x
  PROVE  ~Carries(<<>>, x)
BY DEF Carries

QueueFull(r) == \A m \in Messages : at[r][m] = "queued" => Carries(queue[r], m)
EventsFull(r) == \A m \in Messages : at[r][m] = "answered" => Carries(events[r], m)
GoneInv(r) == rx[r] = "gone" => queue[r] = <<>>
FullInv == \A r \in Receivers : QueueFull(r) /\ EventsFull(r) /\ GoneInv(r)

\* The poller of r takes the head of its queue, and no message it takes stays queued.
LEMMA TakenFull ==
  ASSUME CommonTypeOK, NEW r \in Receivers, QueueFull(r),
         queue[r] # <<>>, queue'[r] = Tail(queue[r]),
         \A m \in Messages : at'[r][m] = "queued" => at[r][m] = "queued" /\ m # Incoming(r)
  PROVE  QueueFull(r)'
<1>1. queue[r] \in Seq(Messages \cup Actions)
  BY DEF CommonTypeOK, MailTypeOK
<1>2. QED
  BY <1>1, CarriesTail DEF QueueFull, Incoming

\* An event is added to those of r, and no message but its own becomes answered.
LEMMA AddedFull ==
  ASSUME CommonTypeOK, NEW r \in Receivers, EventsFull(r), NEW x,
         events'[r] = Append(events[r], x),
         \A m \in Messages : at'[r][m] = "answered" => at[r][m] = "answered" \/ m = x
  PROVE  EventsFull(r)'
<1>1. events[r] \in Seq(Messages \cup Signals)
  BY DEF CommonTypeOK, MailTypeOK
<1>2. QED
  BY <1>1, CarriesAppend DEF EventsFull

LEMMA MessageFull ==
  ASSUME CommonTypeOK, Visiting, FullInv, NEW c \in Messages,
         StartSend(c) \/ StartRequest(c) \/ Abandon(c) \/ MessageStep(c)
  PROVE  FullInv'
<1>1. At(c) \in Receivers
  BY AtReceiver DEF Calls
<1>2. SUFFICES ASSUME NEW r \in Receivers
               PROVE  QueueFull(r)' /\ EventsFull(r)' /\ GoneInv(r)'
  BY DEF FullInv
<1>3. /\ QueueFull(r) /\ EventsFull(r) /\ GoneInv(r)
      /\ queue[r] \in Seq(Messages \cup Actions) /\ at \in [Receivers -> [Messages -> Place]]
      /\ queue \in [Receivers -> Seq(Messages \cup Actions)]
  BY DEF FullInv, CommonTypeOK, MailTypeOK
<1>4. CASE Send(c)
  <2>1. CASE rx[At(c)] = "open"
    <3>1. /\ queue' = [queue EXCEPT ![At(c)] = Append(@, c)] /\ Move(At(c), c, "queued")
          /\ UNCHANGED <<rx, events>>
      BY <1>4, <2>1 DEF Send, SendMessage
    <3>2. CASE r = At(c)
      <4>1. /\ queue'[r] = Append(queue[r], c)
            /\ \A m \in Messages \ {c} : at'[r][m] = at[r][m]
            /\ at'[r][c] = "queued"
        BY <1>3, <3>1, <3>2 DEF Move
      <4>2. QueueFull(r)'
        BY <1>3, <4>1, CarriesAppend DEF QueueFull
      <4>3. QED
        BY <1>3, <2>1, <3>1, <3>2, <4>1, <4>2 DEF EventsFull, GoneInv
    <3>3. CASE r # At(c)
      <4>1. queue'[r] = queue[r] /\ at'[r] = at[r]
        BY <1>3, <3>1, <3>3 DEF Move
      <4>2. QED
        BY <1>3, <3>1, <4>1 DEF QueueFull, EventsFull, GoneInv
    <3>4. QED
      BY <3>2, <3>3
  <2>2. CASE rx[At(c)] # "open"
    <3>1. Move(At(c), c, "refused") /\ UNCHANGED <<queue, rx, events>>
      BY <1>4, <2>2 DEF Send, SendMessage
    <3>2. QED
      BY <1>1, <1>3, <3>1 DEF Move, QueueFull, EventsFull, GoneInv
  <2>3. QED
    BY <2>1, <2>2
<1>5. CASE ~Send(c)
  <2>1. UNCHANGED <<queue, rx, events>>
    BY <1>5 DEF StartSend, StartRequest, Abandon, MessageStep, Reserve, PollReserve,
       TryReserve, DropPermit, Bump, Mark, Answered, mailVars
  <2>2. \/ UNCHANGED at
        \/ \E p \in {"permit", "none"} : Move(At(c), c, p)
    BY <1>5 DEF StartSend, StartRequest, Abandon, MessageStep, Reserve, PollReserve,
       TryReserve, DropPermit, Bump, Mark, Answered, TakeSlot, ForceSlot, DropSlot, mailVars
  <2>3. \A m \in Messages : at'[r][m] = at[r][m] \/ at'[r][m] \in {"permit", "none"}
    BY <1>1, <1>3, <2>2 DEF Move
  <2>4. QED
    BY <1>3, <2>1, <2>3 DEF QueueFull, EventsFull, GoneInv
<1>6. QED
  BY <1>4, <1>5

LEMMA ControlFull ==
  ASSUME CommonTypeOK, Visiting, FullInv, NEW c \in Controls,
         StartControl(c) \/ StartClose(c) \/ TimeOut(c) \/ ControlStep(c)
  PROVE  FullInv'
<1>1. At(c) \in Receivers
  BY AtReceiver DEF Calls
<1>2. SUFFICES ASSUME NEW r \in Receivers
               PROVE  QueueFull(r)' /\ EventsFull(r)' /\ GoneInv(r)'
  BY DEF FullInv
<1>3. /\ QueueFull(r) /\ EventsFull(r) /\ GoneInv(r)
      /\ queue[r] \in Seq(Messages \cup Actions)
      /\ queue \in [Receivers -> Seq(Messages \cup Actions)]
  BY DEF FullInv, CommonTypeOK, MailTypeOK
<1>4. UNCHANGED <<at, rx, events>>
  BY DEF StartControl, StartClose, TimeOut, ControlStep, Check, Register, Push,
     PushFails, PollFlushed, UnparkFlushed, CheckIdle, CheckReady, Awake, SendAction,
     mailVars
<1>5. \/ UNCHANGED queue
      \/ rx[At(c)] = "open" /\ queue' = [queue EXCEPT ![At(c)] = Append(@, ActionOf(c))]
  BY DEF StartControl, StartClose, TimeOut, ControlStep, Check, Register, Push,
     PushFails, PollFlushed, UnparkFlushed, CheckIdle, CheckReady, Awake, SendAction,
     mailVars
<1>6. CASE queue'[r] = queue[r]
  BY <1>3, <1>4, <1>6 DEF QueueFull, EventsFull, GoneInv
<1>7. CASE queue'[r] # queue[r]
  <2>1. rx[r] = "open" /\ queue'[r] = Append(queue[r], ActionOf(c))
    BY <1>3, <1>5, <1>7
  <2>2. QueueFull(r)'
    BY <1>3, <1>4, <2>1, CarriesAppend DEF QueueFull
  <2>3. QED
    BY <1>3, <1>4, <2>1, <2>2 DEF EventsFull, GoneInv
<1>8. QED
  BY <1>6, <1>7

LEMMA LoopFull ==
  ASSUME CommonTypeOK, BusInv, FullInv, NEW s \in Receivers, LoopStep(s)
  PROVE  FullInv'
<1>1. /\ at \in [Receivers -> [Messages -> Place]]
      /\ events \in [Receivers -> Seq(Messages \cup Signals)]
      /\ Messages \cap Signals = {}
  BY MailboxAssumption DEF CommonTypeOK, MailTypeOK
<1>2. UNCHANGED <<queue, rx>>
  BY DEF LoopStep, OnResponse, Deliver, DeliverPanics, NotifyIdle, NotifyResponse,
     OnFlushed, NotifyFlushed, OnReady, SetReady, OnSynchronized, EndLoop, TakeEvent,
     mailVars
<1>3. ASSUME NEW r \in Receivers
      PROVE  QueueFull(r)' /\ GoneInv(r)'
  <2>1. \A m \in Messages : at'[r][m] = "queued" => at[r][m] = "queued"
    BY LoopCopies
  <2>2. QED
    BY <1>2, <2>1 DEF FullInv, QueueFull, GoneInv
<1>4. ASSUME NEW x, TakeEvent(s, x), NEW r \in Receivers,
             \A m \in Messages : at'[r][m] = "answered" =>
               at[r][m] = "answered" /\ (r = s => m # x)
      PROVE  EventsFull(r)'
  <2>1. CASE r = s
    <3>1. events'[r] = Tail(events[r]) /\ Head(events[r]) = x /\ events[r] # <<>>
      BY <1>1, <1>4, <2>1 DEF TakeEvent
    <3>2. events[r] \in Seq(Messages \cup Signals)
      BY <1>1
    <3>3. QED
      BY <1>4, <2>1, <3>1, <3>2, CarriesTail DEF FullInv, EventsFull
  <2>2. CASE r # s
    BY <1>1, <1>4, <2>2 DEF TakeEvent, FullInv, EventsFull
  <2>3. QED
    BY <2>1, <2>2
<1>5. ASSUME NEW r \in Receivers
      PROVE  EventsFull(r)'
  <2>1. ASSUME NEW c \in Messages, OnResponse(s, c)
        PROVE  EventsFull(r)'
    <3>1. \A m \in Messages : at'[r][m] = "answered" =>
            at[r][m] = "answered" /\ (r = s => m # c)
      BY <1>1, <2>1 DEF OnResponse, Move
    <3>2. QED
      BY <1>4, <2>1, <3>1 DEF OnResponse
  <2>2. ASSUME NEW c \in Messages, Deliver(s, c)
        PROVE  EventsFull(r)'
    BY <1>1, <2>2 DEF Deliver, Move, FullInv, EventsFull
  <2>3. ASSUME NEW c \in Messages, DeliverPanics(s, c)
        PROVE  EventsFull(r)'
    BY <1>1, <2>3 DEF DeliverPanics, FullInv, EventsFull
  <2>4. CASE OnFlushed(s) \/ OnReady(s) \/ OnSynchronized(s)
    <3>1. PICK x \in Signals : TakeEvent(s, x) /\ UNCHANGED at
      BY <2>4 DEF OnFlushed, OnReady, OnSynchronized, Signals
    <3>2. QED
      BY <1>1, <1>4, <3>1
  <2>5. CASE NotifyIdle(s) \/ NotifyResponse(s) \/ NotifyFlushed(s) \/ SetReady(s)
             \/ EndLoop(s)
    BY <2>5 DEF NotifyIdle, NotifyResponse, NotifyFlushed, SetReady, EndLoop, mailVars,
       FullInv, EventsFull
  <2>6. QED
    BY <2>1, <2>2, <2>3, <2>4, <2>5 DEF LoopStep
<1>6. QED
  BY <1>3, <1>5 DEF FullInv

---------------------------------------------------------------------------
(* Closing.  A close goes on to the next receiver only when the one it is  *)
(* at has nothing left under way, is given up, or is dead: which ones are  *)
(* dead is for the buses to say.                                           *)

InFlight == {"queued", "held", "running", "handled", "answered"}

Drained(r) == rx[r] = "gone" /\ Copies(r, InFlight) = {}
Settled(dead, r) == r \in dead \/ GivenUp(r) \/ Drained(r)

\* r has been sent a Close, or its poller has ended without one.
Told(r) == rx[r] # "open" \/ Carries(queue[r], "Close")

Waits(c, r) ==
  Op[c] = "close" /\ pc[c] = "listen" /\ At(c) = r /\ c \in listening[r].closed

\* A close holds inner.maintain until it returns; if it is not registered where
\* it listens, it has been notified; and what it went past is settled.
CloseCall(dead, c) ==
  /\ pc[c] \in {"start", "register", "push", "listen", "done"}
  /\ pc[c] \notin {"start", "done"} => maintain = {c}
  /\ pc[c] \in {"push", "listen"} => c \in listening[At(c)].closed \/ Settled(dead, At(c))
  /\ \A i \in DOMAIN Route[c] :
       pc[c] = "done" \/ i < pos[c] => Settled(dead, Route[c][i])

CloseInv(dead) ==
  /\ \A r \in Receivers : Told(r) => Settled(dead, r) \/ \E c \in Controls : Waits(c, r)
  /\ \A c \in Controls : again[c] => Op[c] # "close"
  /\ \A c \in Controls : Op[c] = "close" => CloseCall(dead, c)

\* Taking an item from a queue tells it nothing.
LEMMA TakenTold ==
  ASSUME CommonTypeOK, NEW r \in Receivers, queue[r] # <<>>, queue'[r] = Tail(queue[r]),
         rx'[r] = rx[r], Told(r)'
  PROVE  Told(r)
<1>1. queue[r] \in Seq(Messages \cup Actions)
  BY DEF CommonTypeOK, MailTypeOK
<1>2. QED
  BY <1>1, CarriesTail DEF Told

\* Nothing goes back to a queue nobody receives from.
LEMMA SettledStays ==
  ASSUME NEW dead, NEW more, NEW r \in Receivers, Settled(dead, r),
         r \in dead => r \in more, timedOut \subseteq timedOut',
         rx[r] = "gone" => rx'[r] = "gone",
         rx[r] = "gone" =>
           \A m \in Messages : at'[r][m] \in InFlight => at[r][m] \in InFlight
  PROVE  Settled(more, r)'
<1>1. Drained(r) => Drained(r)'
  BY DEF Drained, Copies
<1>2. GivenUp(r) => GivenUp(r)'
  BY DEF GivenUp
<1>3. QED
  BY <1>1, <1>2 DEF Settled

\* A step that leaves the controls where they are.
LEMMA CloseFrame ==
  ASSUME NEW dead, NEW more, CloseInv(dead), UNCHANGED maintain,
         \A c \in Controls : /\ pc'[c] = pc[c] /\ pos'[c] = pos[c] /\ again'[c] = again[c]
                             /\ At(c) \in Receivers
                             /\ \A i \in DOMAIN Route[c] : Route[c][i] \in Receivers,
         \A r \in Receivers : Settled(dead, r) => Settled(more, r)',
         \A r \in Receivers : Told(r)' => Told(r) \/ Settled(more, r)',
         \A r \in Receivers : \A c \in listening[r].closed :
           c \in listening'[r].closed \/ Settled(more, r)'
  PROVE  CloseInv(more)'
<1>1. \A c \in Controls : At(c)' = At(c)
  BY DEF At
<1>2. ASSUME NEW r \in Receivers, Told(r)'
      PROVE  Settled(more, r)' \/ \E c \in Controls : Waits(c, r)'
  <2>1. CASE Settled(dead, r) \/ ~Told(r)
    BY <1>2, <2>1
  <2>2. CASE Told(r) /\ ~Settled(dead, r)
    <3>1. PICK c \in Controls : Waits(c, r)
      BY <2>2 DEF CloseInv
    <3>2. Settled(more, r)' \/ Waits(c, r)'
      BY <1>1, <3>1 DEF Waits
    <3>3. QED
      BY <3>2
  <2>3. QED
    BY <2>1, <2>2
<1>3. ASSUME NEW c \in Controls, Op[c] = "close"
      PROVE  CloseCall(more, c)'
  <2>1. CloseCall(dead, c) /\ At(c) \in Receivers /\ At(c)' = At(c)
    BY <1>1, <1>3 DEF CloseInv
  <2>2. \A i \in DOMAIN Route[c] : Settled(dead, Route[c][i]) => Settled(more, Route[c][i])'
    OBVIOUS
  <2>3. PICK r \in Receivers : r = At(c)
    BY <2>1
  <2>4. Settled(dead, r) => Settled(more, r)'
    OBVIOUS
  <2>5. pc'[c] \in {"push", "listen"} => c \in listening'[r].closed \/ Settled(more, r)'
    BY <2>1, <2>3, <2>4 DEF CloseCall
  <2>6. QED
    BY <2>1, <2>2, <2>3, <2>5 DEF CloseCall
<1>4. QED
  BY <1>2, <1>3 DEF CloseInv

LEMMA ControlsVisit ==
  ASSUME Visiting, NEW c \in Controls
  PROVE  /\ c \in Calls /\ At(c) \in Receivers
         /\ Route[c] \in Seq(Receivers) /\ pos[c] \in DOMAIN Route[c]
         /\ \A i \in DOMAIN Route[c] : Route[c][i] \in Receivers
BY AtReceiver, BusAssumption DEF Calls, Visiting

LEMMA MessageClose ==
  ASSUME CommonTypeOK, Visiting, NEW dead, CloseInv(dead), NEW c \in Messages,
         StartSend(c) \/ StartRequest(c) \/ Abandon(c) \/ MessageStep(c)
  PROVE  CloseInv(dead)'
<1>0. /\ c \in Calls /\ At(c) \in Receivers /\ at \in [Receivers -> [Messages -> Place]]
      /\ queue \in [Receivers -> Seq(Messages \cup Actions)]
      /\ pc \in [Calls -> CallPlace] /\ pos \in [Calls -> Nat \ {0}]
      /\ \A d \in Controls : d \in Calls /\ d # c
  BY AtReceiver, ReceiverAssumption DEF Calls, CommonTypeOK, BusTypeOK, MailTypeOK
<1>1. UNCHANGED <<rx, listening, maintain, timedOut, again>>
  BY DEF StartSend, StartRequest, Abandon, MessageStep, Reserve, PollReserve, TryReserve,
     DropPermit, Bump, Send, Mark, Answered, SendMessage, StaysLocal, Enter, Return, Rewind,
     Visit, Step, SendNext, mailVars, notifyVars, wrapperVars, sharedVars
<1>2. \A d \in Controls : pc'[d] = pc[d] /\ pos'[d] = pos[d]
  BY <1>0 DEF StartSend, StartRequest, Abandon, MessageStep, Reserve, PollReserve,
     TryReserve, DropPermit, Bump, Send, Mark, Answered, StaysLocal, Enter, Return, Rewind,
     Visit, Step, SendNext, Goes
<1>3. ASSUME NEW r \in Receivers
      PROVE  /\ rx[r] = "gone" =>
                  \A m \in Messages : at'[r][m] \in InFlight => at[r][m] \in InFlight
             /\ Told(r)' => Told(r)
  <2>1. CASE Send(c) /\ rx[At(c)] = "open"
    <3>1. /\ queue' = [queue EXCEPT ![At(c)] = Append(@, c)] /\ Move(At(c), c, "queued")
      BY <2>1 DEF Send, SendMessage
    <3>2. c # "Close" /\ queue[r] \in Seq(Messages \cup Actions)
      BY <1>0, MailboxAssumption DEF Actions
    <3>3. queue'[r] = queue[r] \/ queue'[r] = Append(queue[r], c)
      BY <1>0, <3>1
    <3>4. Told(r)' => Told(r)
      BY <1>1, <3>2, <3>3, CarriesAppend DEF Told
    <3>5. QED
      BY <1>0, <2>1, <3>1, <3>4 DEF Move
  <2>2. CASE ~(Send(c) /\ rx[At(c)] = "open")
    <3>1. UNCHANGED queue
      BY <2>2 DEF StartSend, StartRequest, Abandon, MessageStep, Reserve, PollReserve,
         TryReserve, DropPermit, Bump, Send, SendMessage, Mark, Answered, mailVars
    <3>2. \/ UNCHANGED at
          \/ \E p \in {"permit", "none", "refused"} : Move(At(c), c, p)
      BY <2>2 DEF StartSend, StartRequest, Abandon, MessageStep, Reserve, PollReserve,
         TryReserve, DropPermit, Bump, Send, SendMessage, Mark, Answered, TakeSlot,
         ForceSlot, DropSlot, mailVars
    <3>3. \A m \in Messages : at'[r][m] \in InFlight => at[r][m] \in InFlight
      BY <1>0, <3>2 DEF Move, InFlight
    <3>4. QED
      BY <1>1, <3>1, <3>3 DEF Told
  <2>3. QED
    BY <2>1, <2>2
<1>4. \A r \in Receivers : Settled(dead, r) => Settled(dead, r)'
  BY <1>1, <1>3, SettledStays
<1>5. QED
  BY <1>1, <1>2, <1>3, <1>4, CloseFrame, ControlsVisit

LEMMA LoopClose ==
  ASSUME CommonTypeOK, BusInv, Visiting, FullInv, NEW dead, CloseInv(dead),
         NEW s \in Receivers, LoopStep(s), UNCHANGED busVars
  PROVE  CloseInv(dead)'
<1>1. /\ at \in [Receivers -> [Messages -> Place]]
      /\ listening \in [Receivers -> [AllKinds -> SUBSET Calls]]
  BY DEF CommonTypeOK, MailTypeOK, WrapperTypeOK
<1>2. UNCHANGED <<queue, rx>>
  BY DEF LoopStep, OnResponse, Deliver, DeliverPanics, NotifyIdle, NotifyResponse,
     OnFlushed, NotifyFlushed, OnReady, SetReady, OnSynchronized, EndLoop, TakeEvent,
     mailVars
<1>3. \A r \in Receivers, m \in Messages : at'[r][m] \in InFlight => at[r][m] \in InFlight
  BY LoopCopies DEF InFlight
<1>4. \A r \in Receivers : Settled(dead, r) => Settled(dead, r)'
  BY <1>2, <1>3, SettledStays DEF busVars, sharedVars
<1>5. ASSUME NEW r \in Receivers, NEW c \in listening[r].closed
      PROVE  c \in listening'[r].closed \/ Settled(dead, r)'
  <2>1. CASE EndLoop(s)
    <3>1. /\ listening' = [listening EXCEPT ![s]["closed"] = {}] /\ UNCHANGED <<at, queue, rx>>
          /\ StreamEnded(s)
      BY <2>1 DEF EndLoop, Wake
    <3>2. CASE r = s
      <4>1. rx[r] = "gone" /\ events[r] = <<>> /\ queue[r] = <<>>
        BY <3>1, <3>2 DEF StreamEnded, FullInv, GoneInv
      <4>2. \A m \in Messages : at[r][m] \notin {"queued", "answered"}
        BY <4>1, CarriesNone DEF FullInv, QueueFull, EventsFull
      <4>3. Drained(r)'
        BY <3>1, <3>2, <4>1, <4>2 DEF StreamEnded, Drained, Copies, InFlight
      <4>4. QED
        BY <4>3 DEF Settled
    <3>3. CASE r # s
      BY <1>1, <3>1, <3>3
    <3>4. QED
      BY <3>2, <3>3
  <2>2. CASE ~EndLoop(s)
    <3>1. UNCHANGED listening \/ \E k \in AllKinds \ {"closed"} : Wake(s, k)
      BY <2>2 DEF LoopStep, OnResponse, Deliver, DeliverPanics, NotifyIdle, NotifyResponse,
         OnFlushed, NotifyFlushed, OnReady, SetReady, OnSynchronized, notifyVars, AllKinds
    <3>2. listening'[r].closed = listening[r].closed
      BY <1>1, <3>1 DEF Wake, AllKinds
    <3>3. QED
      BY <3>2
  <2>3. QED
    BY <2>1, <2>2
<1>6. \A r \in Receivers : Told(r)' => Told(r)
  BY <1>2 DEF Told
<1>7. QED
  BY <1>4, <1>5, <1>6, CloseFrame, ControlsVisit DEF busVars, localVars, sharedVars

\* A step of the pollers and tasks: what they end or lose is not under way.
LEMMA InsideClose ==
  ASSUME Visiting, NEW dead, NEW more, CloseInv(dead), UNCHANGED <<wrapperVars, busVars>>,
         \A r \in Receivers : r \in dead => r \in more,
         \A r \in Receivers : rx[r] = "gone" => rx'[r] = "gone",
         \A r \in Receivers : rx[r] = "gone" =>
           \A m \in Messages : at'[r][m] \in InFlight => at[r][m] \in InFlight,
         \A r \in Receivers : Told(r)' => Told(r) \/ Settled(dead, r) \/ r \in more
  PROVE  CloseInv(more)'
<1>1. UNCHANGED <<listening, timedOut, maintain, pc, pos, again>>
  BY DEF wrapperVars, notifyVars, busVars, localVars, sharedVars
<1>2. \A r \in Receivers : Settled(dead, r) => Settled(more, r)'
  BY <1>1, SettledStays
<1>3. \A r \in Receivers : r \in more => Settled(more, r)'
  BY DEF Settled
<1>4. QED
  BY <1>1, <1>2, <1>3, CloseFrame, ControlsVisit

\* A step of the control c, which leaves the others where they are.
LEMMA CloseAlone ==
  ASSUME CommonTypeOK, Visiting, NEW dead, CloseInv(dead), NEW c \in Controls,
         \A d \in Controls \ {c} :
           pc'[d] = pc[d] /\ pos'[d] = pos[d] /\ again'[d] = again[d],
         \A d \in Controls \ {c} : maintain = {d} => maintain' = {d},
         \A r \in Receivers : \A d \in listening[r].closed \ {c} : d \in listening'[r].closed,
         \A r \in Receivers : Settled(dead, r) => Settled(dead, r)',
         \A r \in Receivers : Told(r)' => Told(r) \/ Waits(c, r)' \/ Settled(dead, r)',
         \A r \in Receivers : Waits(c, r) => Waits(c, r)' \/ Settled(dead, r)',
         Op[c] = "close" => again'[c] = FALSE /\ CloseCall(dead, c)'
  PROVE  CloseInv(dead)'
<1>1. \A d \in Controls \ {c} : At(d)' = At(d)
  BY DEF At
<1>2. ASSUME NEW r \in Receivers, Told(r)'
      PROVE  Settled(dead, r)' \/ \E d \in Controls : Waits(d, r)'
  <2>1. CASE Settled(dead, r) \/ ~Told(r)
    BY <1>2, <2>1
  <2>2. CASE Told(r) /\ ~Settled(dead, r)
    <3>1. PICK d \in Controls : Waits(d, r)
      BY <2>2 DEF CloseInv
    <3>2. CASE d = c
      BY <3>1, <3>2
    <3>3. CASE d # c
      BY <1>1, <3>1, <3>3 DEF Waits
    <3>4. QED
      BY <3>2, <3>3
  <2>3. QED
    BY <2>1, <2>2
<1>3. ASSUME NEW d \in Controls, Op[d] = "close"
      PROVE  CloseCall(dead, d)'
  <2>1. CASE d = c
    BY <1>3, <2>1
  <2>2. CASE d # c
    <3>1. CloseCall(dead, d)
      BY <1>3 DEF CloseInv
    <3>2. PICK r \in Receivers : r = At(d)
      BY ControlsVisit
    <3>3. At(d)' = r /\ pc'[d] = pc[d] /\ pos'[d] = pos[d]
      BY <1>1, <2>2, <3>2
    <3>4. Settled(dead, r) => Settled(dead, r)'
      OBVIOUS
    <3>5. pc'[d] \in {"push", "listen"} => d \in listening'[r].closed \/ Settled(dead, r)'
      BY <2>2, <3>1, <3>2, <3>3, <3>4 DEF CloseCall
    <3>6. \A i \in DOMAIN Route[d] : Settled(dead, Route[d][i]) => Settled(dead, Route[d][i])'
      BY ControlsVisit
    <3>7. pc'[d] \notin {"start", "done"} => maintain' = {d}
      BY <2>2, <3>1, <3>3 DEF CloseCall
    <3>8. QED
      BY <3>1, <3>2, <3>3, <3>5, <3>6, <3>7 DEF CloseCall
  <2>3. QED
    BY <2>1, <2>2
<1>4. QED
  BY <1>2, <1>3 DEF CloseInv

\* A close goes on from a receiver that is settled.
LEMMA CloseOnward ==
  ASSUME CommonTypeOK, Visiting, NEW dead, CloseInv(dead), NEW c \in Controls,
         Op[c] = "close", pc[c] \notin {"start", "done"}, Onward(c),
         UNCHANGED <<at, queue, rx>>, timedOut \subseteq timedOut',
         listening' = listening \/ Unlisten(At(c), "closed", c),
         \A r \in Receivers : r = At(c) => Settled(dead, r)'
  PROVE  CloseInv(dead)'
<1>0. /\ c \in Calls /\ At(c) \in Receivers /\ again[c] = FALSE /\ CloseCall(dead, c)
      /\ Route[c] \in Seq(Receivers) /\ pos[c] \in DOMAIN Route[c] /\ maintain = {c}
      /\ pc \in [Calls -> CallPlace] /\ pos \in [Calls -> Nat \ {0}]
      /\ again \in [Calls -> BOOLEAN]
      /\ listening \in [Receivers -> [AllKinds -> SUBSET Calls]]
      /\ \A d \in Controls : d \in Calls
  BY ControlsVisit DEF CloseInv, CloseCall, CommonTypeOK, BusTypeOK, WrapperTypeOK, Calls
<1>1. \A r \in Receivers : Settled(dead, r) => Settled(dead, r)'
  BY SettledStays
<1>2. /\ again' = again /\ maintain' = (IF IsLast(c) THEN {} ELSE {c})
      /\ IF IsLast(c) THEN pc' = [pc EXCEPT ![c] = "done"] /\ pos' = pos
         ELSE pc' = [pc EXCEPT ![c] = "register"] /\ pos' = [pos EXCEPT ![c] = @ + 1]
  BY <1>0 DEF Onward, Visit, Return, Goes, Entry
<1>3. \A i \in DOMAIN Route[c] :
        i \in Nat /\ i <= Len(Route[c]) /\ (i < pos[c] + 1 => i < pos[c] \/ i = pos[c])
  BY <1>0
<1>4. \A i \in DOMAIN Route[c] : Route[c][i] \in Receivers
  BY <1>0
<1>5. PICK p \in DOMAIN Route[c] : p = pos[c] /\ Settled(dead, Route[c][p])'
  <2>1. PICK p \in DOMAIN Route[c] : p = pos[c]
    BY <1>0
  <2>2. Route[c][p] = At(c)
    BY <2>1 DEF At
  <2>3. QED
    BY <1>4, <2>1, <2>2
<1>6. CloseCall(dead, c)'
  <2>1. CASE IsLast(c)
    <3>1. \A i \in DOMAIN Route[c] : i < pos[c] \/ i = pos[c]
      BY <1>0, <1>3, <2>1 DEF IsLast
    <3>2. ASSUME NEW i \in DOMAIN Route[c]
          PROVE  Settled(dead, Route[c][i])'
      <4>1. CASE i = p
        BY <1>5, <4>1
      <4>2. CASE i # p
        BY <1>0, <1>1, <1>4, <1>5, <3>1, <4>2 DEF CloseCall
      <4>3. QED
        BY <4>1, <4>2
    <3>3. pc'[c] = "done"
      BY <1>0, <1>2, <2>1
    <3>4. QED
      BY <3>2, <3>3 DEF CloseCall
  <2>2. CASE ~IsLast(c)
    <3>1. pc'[c] = "register" /\ pos'[c] = pos[c] + 1 /\ maintain' = {c}
      BY <1>0, <1>2, <2>2
    <3>2. ASSUME NEW i \in DOMAIN Route[c], i < pos[c] + 1
          PROVE  Settled(dead, Route[c][i])'
      <4>1. CASE i = p
        BY <1>5, <4>1
      <4>2. CASE i # p
        BY <1>0, <1>1, <1>3, <1>4, <1>5, <3>2, <4>2 DEF CloseCall
      <4>3. QED
        BY <4>1, <4>2
    <3>3. QED
      BY <3>1, <3>2 DEF CloseCall
  <2>3. QED
    BY <2>1, <2>2
<1>7. \A d \in Controls \ {c} : pc'[d] = pc[d] /\ pos'[d] = pos[d] /\ again'[d] = again[d]
  BY <1>0, <1>2
<1>8. \A r \in Receivers : \A d \in listening[r].closed \ {c} : d \in listening'[r].closed
  <2>1. PICK s \in Receivers : s = At(c)
    BY <1>0
  <2>2. listening' = listening \/ listening' = [listening EXCEPT ![s]["closed"] = @ \ {c}]
    BY <2>1 DEF Unlisten
  <2>3. QED
    BY <1>0, <2>2 DEF AllKinds
<1>9. \A r \in Receivers : Told(r)' => Told(r)
  BY DEF Told
<1>10. \A r \in Receivers : Waits(c, r) => Settled(dead, r)'
  BY DEF Waits
<1>11. (\A d \in Controls \ {c} : maintain = {d} => maintain' = {d}) /\ again'[c] = FALSE
  BY <1>0, <1>2
<1>12. QED
  BY <1>1, <1>6, <1>7, <1>8, <1>9, <1>10, <1>11, CloseAlone

\* The steps of a close.
LEMMA CloseSteps ==
  ASSUME CommonTypeOK, Visiting, NEW dead, CloseInv(dead), NEW c \in Controls,
         Op[c] = "close", StartClose(c) \/ TimeOut(c) \/ ControlStep(c)
  PROVE  CloseInv(dead)'
<1>0. /\ c \in Calls /\ At(c) \in Receivers /\ again[c] = FALSE /\ CloseCall(dead, c)
      /\ pc \in [Calls -> CallPlace] /\ pos \in [Calls -> Nat \ {0}]
      /\ again \in [Calls -> BOOLEAN] /\ Kind(c) = "closed" /\ ActionOf(c) = "Close"
      /\ queue \in [Receivers -> Seq(Messages \cup Actions)]
      /\ listening \in [Receivers -> [AllKinds -> SUBSET Calls]]
      /\ pc[c] \in {"start", "register", "push", "listen", "done"}
      /\ \A d \in Controls : d \in Calls
  BY ControlsVisit
     DEF CloseInv, CloseCall, CommonTypeOK, BusTypeOK, WrapperTypeOK, MailTypeOK, Calls,
         Kind, ActionOf
<1>a. PICK s \in Receivers : s = At(c)
  BY <1>0
<1>1. CASE StartClose(c)
  <2>1. /\ pc[c] = "start" /\ pc' = [pc EXCEPT ![c] = "register"] /\ UNCHANGED <<pos, again>>
        /\ maintain = {} /\ maintain' = {c}
        /\ UNCHANGED <<at, queue, rx, listening, timedOut>>
    BY <1>0, <1>1
       DEF StartClose, MayStart, Enter, Goes, Entry, mailVars, wrapperVars, notifyVars
  <2>2. \A r \in Receivers : Settled(dead, r) => Settled(dead, r)'
    BY <2>1, SettledStays
  <2>3. CloseCall(dead, c)'
    <3>1. pc'[c] = "register" /\ pos'[c] = pos[c] /\ maintain' = {c}
      BY <1>0, <2>1
    <3>2. \A i \in DOMAIN Route[c] : i < pos[c] => Settled(dead, Route[c][i])'
      BY <1>0, <2>2, ControlsVisit DEF CloseCall
    <3>3. QED
      BY <3>1, <3>2 DEF CloseCall
  <2>4. \A r \in Receivers : (Told(r)' => Told(r)) /\ ~Waits(c, r)
    BY <2>1 DEF Told, Waits
  <2>5. \A d \in Controls \ {c} : pc'[d] = pc[d] /\ pos'[d] = pos[d] /\ again'[d] = again[d]
    BY <1>0, <2>1
  <2>6. (\A d \in Controls \ {c} : maintain = {d} => maintain' = {d}) /\ again'[c] = FALSE
    BY <1>0, <2>1
  <2>7. \A r \in Receivers : \A d \in listening[r].closed \ {c} : d \in listening'[r].closed
    BY <2>1
  <2>8. QED
    BY <2>2, <2>3, <2>4, <2>5, <2>6, <2>7, CloseAlone
<1>2. CASE TimeOut(c)
  <2>1. /\ pc[c] = "listen" /\ timedOut' = timedOut \cup {<<c, s>>} /\ Onward(c)
        /\ UNCHANGED <<at, queue, rx>> /\ Unlisten(At(c), "closed", c)
    BY <1>2, <1>a DEF TimeOut, mailVars
  <2>2. Settled(dead, s)'
    BY <2>1 DEF Settled, GivenUp
  <2>3. QED
    BY <1>a, <2>1, <2>2, CloseOnward
<1>3. CASE Register(c)
  <2>1. /\ pc[c] = "register" /\ pc' = [pc EXCEPT ![c] = "push"] /\ UNCHANGED <<pos, again>>
        /\ listening' = [listening EXCEPT ![s]["closed"] = @ \cup {c}]
        /\ UNCHANGED <<at, queue, rx, maintain, timedOut>>
    BY <1>0, <1>3, <1>a
       DEF Register, Step, Goes, StaysLocal, Listen, mailVars, sharedVars
  <2>2. \A r \in Receivers : Settled(dead, r) => Settled(dead, r)'
    BY <2>1, SettledStays
  <2>3. CloseCall(dead, c)'
    <3>1. pc'[c] = "push" /\ pos'[c] = pos[c] /\ maintain' = {c} /\ At(c)' = s
      BY <1>0, <1>a, <2>1 DEF CloseCall, At
    <3>2. \A i \in DOMAIN Route[c] : i < pos[c] => Settled(dead, Route[c][i])'
      BY <1>0, <2>2, ControlsVisit DEF CloseCall
    <3>3. c \in listening'[s].closed
      BY <1>0, <2>1 DEF AllKinds
    <3>4. QED
      BY <3>1, <3>2, <3>3 DEF CloseCall
  <2>4. \A r \in Receivers : (Told(r)' => Told(r)) /\ ~Waits(c, r)
    BY <2>1 DEF Told, Waits
  <2>5. \A d \in Controls \ {c} : pc'[d] = pc[d] /\ pos'[d] = pos[d] /\ again'[d] = again[d]
    BY <1>0, <2>1
  <2>6. maintain' = maintain /\ again'[c] = FALSE
    BY <1>0, <2>1
  <2>7. \A r \in Receivers : \A d \in listening[r].closed \ {c} : d \in listening'[r].closed
    BY <1>0, <2>1 DEF AllKinds
  <2>8. QED
    BY <2>2, <2>3, <2>4, <2>5, <2>6, <2>7, CloseAlone
<1>4. CASE Push(c)
  <2>1. /\ pc[c] = "push" /\ pc' = [pc EXCEPT ![c] = "listen"] /\ UNCHANGED <<pos, again>>
        /\ queue' = [queue EXCEPT ![s] = Append(@, "Close")]
        /\ UNCHANGED <<at, rx, listening, maintain, timedOut>>
    BY <1>0, <1>4, <1>a
       DEF Push, Step, Goes, StaysLocal, SendAction, wrapperVars, notifyVars, sharedVars
  <2>2. \A r \in Receivers : Settled(dead, r) => Settled(dead, r)'
    BY <2>1, SettledStays
  <2>3. pc'[c] = "listen" /\ pos'[c] = pos[c] /\ At(c)' = s
    BY <1>0, <1>a, <2>1 DEF At
  <2>4. CloseCall(dead, c)'
    <3>1. maintain' = {c}
      BY <1>0, <2>1 DEF CloseCall
    <3>2. \A i \in DOMAIN Route[c] : i < pos[c] => Settled(dead, Route[c][i])'
      BY <1>0, <2>2, ControlsVisit DEF CloseCall
    <3>3. c \in listening'[s].closed \/ Settled(dead, s)'
      BY <1>0, <1>a, <2>1, <2>2 DEF CloseCall
    <3>4. QED
      BY <2>3, <3>1, <3>2, <3>3 DEF CloseCall
  <2>5. ASSUME NEW r \in Receivers, Told(r)'
        PROVE  Told(r) \/ Waits(c, r)' \/ Settled(dead, r)'
    <3>1. CASE r = s
      BY <1>0, <2>3, <2>4, <3>1 DEF CloseCall, Waits
    <3>2. CASE r # s
      BY <1>0, <2>1, <2>5, <3>2 DEF Told
    <3>3. QED
      BY <3>1, <3>2
  <2>6. \A r \in Receivers : ~Waits(c, r)
    BY <2>1 DEF Waits
  <2>7. \A d \in Controls \ {c} : pc'[d] = pc[d] /\ pos'[d] = pos[d] /\ again'[d] = again[d]
    BY <1>0, <2>1
  <2>8. maintain' = maintain /\ again'[c] = FALSE
    BY <1>0, <2>1
  <2>9. \A r \in Receivers : \A d \in listening[r].closed \ {c} : d \in listening'[r].closed
    BY <2>1
  <2>10. QED
    BY <2>2, <2>4, <2>5, <2>6, <2>7, <2>8, <2>9, CloseAlone
<1>5. CASE PushFails(c)
  <2>1. /\ pc[c] = "push" /\ rx[s] # "open" /\ Onward(c) /\ UNCHANGED timedOut
        /\ Unlisten(At(c), "closed", c) /\ UNCHANGED <<at, queue, rx>>
    BY <1>0, <1>5, <1>a DEF PushFails, mailVars
  <2>2. Settled(dead, s)
    <3>1. SUFFICES ASSUME NEW d \in Controls, Waits(d, s)
                   PROVE  FALSE
      BY <2>1 DEF CloseInv, Told
    <3>2. d # c /\ maintain = {d}
      BY <2>1, <3>1 DEF Waits, CloseInv, CloseCall
    <3>3. QED
      BY <1>0, <2>1, <3>2 DEF CloseCall
  <2>3. Settled(dead, s)'
    BY <2>1, <2>2, SettledStays
  <2>4. QED
    BY <1>a, <2>1, <2>3, CloseOnward
<1>6. CASE Awake(c)
  <2>1. /\ pc[c] = "listen" /\ c \notin listening[s].closed /\ Onward(c)
        /\ UNCHANGED <<timedOut, at, queue, rx, listening>>
    BY <1>0, <1>6, <1>a DEF Awake, mailVars, wrapperVars, notifyVars
  <2>2. Settled(dead, s)
    BY <1>0, <1>a, <2>1 DEF CloseCall
  <2>3. Settled(dead, s)'
    BY <2>1, <2>2, SettledStays
  <2>4. QED
    BY <1>a, <2>1, <2>3, CloseOnward
<1>7. ~(Check(c) \/ PollFlushed(c) \/ UnparkFlushed(c) \/ CheckIdle(c) \/ CheckReady(c))
  BY <1>0 DEF Check, PollFlushed, UnparkFlushed, CheckIdle, CheckReady
<1>8. QED
  BY <1>1, <1>2, <1>3, <1>4, <1>5, <1>6, <1>7 DEF ControlStep

\* The steps of the other controls, which send no Close.
LEMMA OtherClose ==
  ASSUME CommonTypeOK, Visiting, NEW dead, CloseInv(dead), NEW c \in Controls,
         Op[c] # "close", StartControl(c) \/ ControlStep(c)
  PROVE  CloseInv(dead)'
<1>0. /\ c \in Calls /\ At(c) \in Receivers
      /\ pc \in [Calls -> CallPlace] /\ pos \in [Calls -> Nat \ {0}]
      /\ again \in [Calls -> BOOLEAN] /\ Kind(c) \in AllKinds /\ ActionOf(c) # "Close"
      /\ queue \in [Receivers -> Seq(Messages \cup Actions)]
      /\ listening \in [Receivers -> [AllKinds -> SUBSET Calls]]
      /\ \A d \in Controls : d \in Calls
  BY ControlsVisit, KindType
     DEF CommonTypeOK, BusTypeOK, WrapperTypeOK, MailTypeOK, Calls, ActionOf
<1>1. UNCHANGED <<at, rx, timedOut>>
  BY DEF StartControl, ControlStep, Check, Register, Push, PushFails, PollFlushed,
     UnparkFlushed, CheckIdle, CheckReady, Awake, Flushed, Onward, SendAction, mailVars,
     sharedVars
<1>2. maintain' = maintain \/ maintain' = maintain \ {c}
  BY DEF StartControl, ControlStep, Check, Register, Push, PushFails, PollFlushed,
     UnparkFlushed, CheckIdle, CheckReady, Awake, Flushed, Onward, sharedVars
<1>3. \A d \in Controls \ {c} : pc'[d] = pc[d] /\ pos'[d] = pos[d] /\ again'[d] = again[d]
  BY <1>0 DEF StartControl, ControlStep, Check, Register, Push, PushFails, PollFlushed,
     UnparkFlushed, CheckIdle, CheckReady, Awake, Flushed, Onward, Enter, Step, StaysLocal,
     Visit, NextRound, Return, Goes
<1>4. \A r \in Receivers : \A d \in listening[r].closed \ {c} : d \in listening'[r].closed
  <2>1. \/ UNCHANGED listening
        \/ \E k \in AllKinds : Listen(At(c), k, c) \/ Unlisten(At(c), k, c)
    BY <1>0 DEF StartControl, ControlStep, Check, Register, Push, PushFails, PollFlushed,
       UnparkFlushed, CheckIdle, CheckReady, Awake, wrapperVars, notifyVars, AllKinds
  <2>2. PICK s \in Receivers : s = At(c)
    BY <1>0
  <2>3. ASSUME NEW k \in AllKinds, Listen(At(c), k, c) \/ Unlisten(At(c), k, c)
        PROVE  \A r \in Receivers : \A d \in listening[r].closed \ {c} : d \in listening'[r].closed
    <3>1. \/ listening' = [listening EXCEPT ![s][k] = @ \cup {c}]
          \/ listening' = [listening EXCEPT ![s][k] = @ \ {c}]
      BY <2>2, <2>3 DEF Listen, Unlisten
    <3>2. SUFFICES ASSUME NEW r \in Receivers, NEW d \in listening[r].closed, d # c
                   PROVE  d \in listening'[r].closed
      OBVIOUS
    <3>3. CASE r = s /\ k = "closed"
      <4>1. \/ listening'[s]["closed"] = listening[s]["closed"] \cup {c}
            \/ listening'[s]["closed"] = listening[s]["closed"] \ {c}
        BY <1>0, <3>1, <3>3 DEF AllKinds
      <4>2. QED
        BY <3>2, <3>3, <4>1
    <3>4. CASE ~(r = s /\ k = "closed")
      <4>1. listening'[r]["closed"] = listening[r]["closed"]
        BY <1>0, <3>1, <3>4 DEF AllKinds
      <4>2. QED
        BY <3>2, <4>1
    <3>5. QED
      BY <3>3, <3>4
  <2>4. QED
    BY <2>1, <2>3
<1>5. \A r \in Receivers : Told(r)' => Told(r)
  <2>1. SUFFICES ASSUME NEW r \in Receivers, Told(r)'
                 PROVE  Told(r)
    OBVIOUS
  <2>2. \/ UNCHANGED queue
        \/ queue' = [queue EXCEPT ![At(c)] = Append(@, ActionOf(c))]
    BY DEF StartControl, ControlStep, Check, Register, Push, PushFails, PollFlushed,
       UnparkFlushed, CheckIdle, CheckReady, Awake, SendAction, mailVars
  <2>3. queue'[r] = queue[r] \/ queue'[r] = Append(queue[r], ActionOf(c))
    BY <1>0, <2>2
  <2>4. queue[r] \in Seq(Messages \cup Actions)
    BY <1>0
  <2>5. Carries(queue'[r], "Close") => Carries(queue[r], "Close")
    BY <1>0, <2>3, <2>4, CarriesAppend
  <2>6. QED
    BY <1>1, <2>1, <2>5 DEF Told
<1>6. \A r \in Receivers : Settled(dead, r) => Settled(dead, r)'
  BY <1>1, SettledStays
<1>7. \A r \in Receivers : ~Waits(c, r)
  BY DEF Waits
<1>8. \A d \in Controls \ {c} : maintain = {d} => maintain' = {d}
  BY <1>2
<1>9. QED
  BY <1>3, <1>4, <1>5, <1>6, <1>7, <1>8, CloseAlone

LEMMA ControlClose ==
  ASSUME CommonTypeOK, Visiting, NEW dead, CloseInv(dead), NEW c \in Controls,
         StartControl(c) \/ StartClose(c) \/ TimeOut(c) \/ ControlStep(c)
  PROVE  CloseInv(dead)'
<1>1. CASE Op[c] = "close"
  BY <1>1, CloseSteps DEF StartControl
<1>2. CASE Op[c] # "close"
  BY <1>2, OtherClose DEF StartClose, TimeOut
<1>3. QED
  BY <1>1, <1>2

LEMMA InitClose ==
  ASSUME WrapperInit, BusInit, MailInit, NEW dead
  PROVE  FullInv /\ CloseInv(dead)
<1>1. /\ \A r \in Receivers : queue[r] = <<"Init">> /\ rx[r] = "open"
      /\ \A r \in Receivers, m \in Messages : at[r][m] = "none"
  BY DEF MailInit
<1>2. \A c \in Controls : pc[c] = "start" /\ pos[c] = 1 /\ again[c] = FALSE
  BY DEF BusInit, Calls
<1>3. FullInv
  BY <1>1 DEF FullInv, QueueFull, EventsFull, GoneInv
<1>4. \A r \in Receivers : ~Told(r)
  BY <1>1 DEF Told, Carries
<1>5. \A c \in Controls : Op[c] = "close" => CloseCall(dead, c)
  <2>1. \A c \in Controls : \A i \in DOMAIN Route[c] : ~(i < 1)
    BY BusAssumption DEF Calls
  <2>2. QED
    BY <1>2, <2>1 DEF CloseCall
<1>6. QED
  BY <1>2, <1>3, <1>4, <1>5 DEF CloseInv

---------------------------------------------------------------------------
(* Flushes and syncs.  Which ones cover a receiver, and which receivers    *)
(* have ended with nothing unhandled, is for the buses to say: "clear" are *)
(* the pairs <<control, receiver>> of the former, "over" is the set of the *)
(* latter.  "flushing" and "syncing" are the receivers whose poller has    *)
(* taken a Flush or a Sync that it has not reported yet.                   *)

\* Where the copy of a message is that a flush or a sync waits for.
Unhandled == {"queued", "held", "running"}

Barrier(b, r) == Op[b] \in {"flush", "sync"} /\ Visits(b, r)
Active(c) == pc[c] \notin {"start", "done"}

\* The places of a control, by its function.
Places(op) ==
  CASE op = "flush" -> {"start", "check", "push", "poll", "parked", "done"}
    [] op = "idle"  -> {"start", "push", "poll", "parked", "recheck", "register", "listen", "done"}
    [] op = "ready" -> {"start", "register", "recheck", "listen", "done"}
    [] OTHER        -> {"start", "register", "push", "listen", "done"}

\* What a call awaits has returned before it is made, and so has what a control
\* is to cover.
Progress ==
  /\ \A c \in Calls : pc[c] # "start" => \A d \in After[c] : pc[d] = "done"
  /\ \A c \in Calls : outcome[c] # "none" => pc[c] = "done"
  /\ \A b \in Controls : \A m \in before[b] : pc[m] = "done"
  /\ \A c \in Controls :
       /\ pc[c] \in Places(Op[c])
       /\ again[c] => Op[c] = "flush"
       /\ pc[c] = "start" => pos[c] = 1 /\ outcome[c] = "none"

\* x occurs in q before y.
Ahead(q, x, y) == \E i, j \in DOMAIN q : i < j /\ q[i] = x /\ q[j] = y

\* x occurs in q at its front only.
FirstOnly(q, x) == \A i \in DOMAIN q : q[i] = x => i = 1

\* x occurs in q once at most.
Once(q, x) == \A i, j \in DOMAIN q : q[i] = x /\ q[j] = x => i = j

\* The poller of r has answered a Flush and no call has got the answer yet.
FlushDue(r) ==
  \/ Carries(events[r], "Flushed")
  \/ loop[r] = "flushed"
  \/ notify[r].flushed.permit

\* Before the flush of r is made nothing flushes r, and whatever is unhandled has
\* set need_flush or is about to.  From then on, until the flush covers r,
\* need_flush stays set and no answer to a Flush is to be had.
FlushAt(flushing, clear, f, r) ==
  /\ pc[f] = "start" =>
       /\ ~Carries(queue[r], "Flush") /\ r \notin flushing /\ ~FlushDue(r)
       /\ \A m \in Messages :
            at[r][m] \in Unhandled => needFlush[r] \/ (pc[m] = "mark" /\ At(m) = r)
  /\ pc[f] # "start" /\ <<f, r>> \notin clear =>
       /\ needFlush[r]
       /\ ~FlushDue(r)
       /\ pc[f] = "parked" /\ At(f) = r => IsParked(notify[r].flushed, f)

\* A sync is registered before it sends Sync, and until it is notified; before it
\* covers r no Synchronized is on its way.
SyncAt(clear, s, r) ==
  /\ pc[s] = "push" /\ At(s) = r => s \in listening[r].synchronized
  /\ pc[s] = "listen" /\ At(s) = r /\ <<s, r>> \notin clear => s \in listening[r].synchronized
  /\ Active(s) /\ <<s, r>> \notin clear => ~Carries(events[r], "Synchronized")

SyncWaits(s, r) ==
  Op[s] = "sync" /\ pc[s] = "listen" /\ At(s) = r /\ s \in listening[r].synchronized

SyncSent(syncing, r) ==
  Carries(queue[r], "Sync") \/ r \in syncing \/ Carries(events[r], "Synchronized")

\* There is one Sync or answer to it on its way at most, and a sync awaits it.
SyncTokens(syncing, r) ==
  /\ SyncSent(syncing, r) => \E s \in Controls : SyncWaits(s, r)
  /\ Once(queue[r], "Sync") /\ Once(events[r], "Synchronized")
  /\ Carries(queue[r], "Sync") => r \notin syncing /\ ~Carries(events[r], "Synchronized")
  /\ r \in syncing => ~Carries(events[r], "Synchronized")

\* Until the control b returns r is not closed, nothing it is to cover gets behind
\* its Flush or Sync, and it goes past r only when it covers r.
BarrierAt(clear, over, b, r) ==
  /\ pc[b] # "done" => ~Carries(queue[r], "Close") /\ (rx[r] # "open" => r \in over)
  /\ Active(b) => \A m \in before[b] : ~Ahead(queue[r], ActionOf(b), m)
  /\ pc[b] # "start" /\ <<b, r>> \notin clear =>
       pc[b] # "done" /\ \A i \in DOMAIN Route[b] : i < pos[b] => Route[b][i] # r

\* Init is the first that a poller takes.
InitFirst(r) ==
  /\ FirstOnly(queue[r], "Init")
  /\ Carries(queue[r], "Init") => \A m \in Messages : at[r][m] \notin {"held", "running"}

CoverInv(flushing, syncing, clear, over) ==
  /\ Progress
  /\ \A r \in Receivers : InitFirst(r) /\ SyncTokens(syncing, r)
  /\ \A b \in Controls, r \in Receivers : Barrier(b, r) =>
       /\ BarrierAt(clear, over, b, r)
       /\ Op[b] = "flush" => FlushAt(flushing, clear, b, r)
       /\ Op[b] = "sync" => SyncAt(clear, b, r)

\* What a step does to them: what covers a receiver covers it for good, and so does
\* what has nothing left to cover, or a receiver that has ended.
Grows(clear, more, over, gone) ==
  /\ \A b \in Controls, r \in Receivers :
       /\ pc[b] # "start" /\ <<b, r>> \in clear => <<b, r>> \in more
       /\ (\A m \in before'[b] : at'[r][m] \notin Unhandled) => <<b, r>> \in more
       /\ r \in gone => <<b, r>> \in more
  /\ \A r \in Receivers : r \in over => r \in gone

LEMMA AheadTail ==
  ASSUME NEW S, NEW q \in Seq(S), q # <<>>, NEW x, NEW y
  PROVE  /\ Ahead(Tail(q), x, y) => Ahead(q, x, y)
         /\ Head(q) = x /\ Carries(Tail(q), y) => Ahead(q, x, y)
<1>1. /\ Len(q) \in Nat /\ Len(q) >= 1 /\ DOMAIN q = 1..Len(q)
      /\ DOMAIN Tail(q) = 1..(Len(q) - 1)
      /\ \A k \in DOMAIN Tail(q) : Tail(q)[k] = q[k + 1]
      /\ Head(q) = q[1]
  OBVIOUS
<1>2. \A k \in DOMAIN Tail(q) : k + 1 \in DOMAIN q /\ 1 < k + 1
  BY <1>1
<1>3. ASSUME NEW i \in DOMAIN Tail(q), NEW j \in DOMAIN Tail(q), i < j,
             Tail(q)[i] = x, Tail(q)[j] = y
      PROVE  Ahead(q, x, y)
  <2>1. i + 1 < j + 1 /\ q[i + 1] = x /\ q[j + 1] = y
    BY <1>1, <1>3
  <2>2. QED
    BY <1>2, <2>1 DEF Ahead
<1>4. ASSUME NEW j \in DOMAIN Tail(q), Tail(q)[j] = y, Head(q) = x
      PROVE  Ahead(q, x, y)
  <2>1. q[1] = x /\ q[j + 1] = y /\ 1 \in DOMAIN q
    BY <1>1, <1>4
  <2>2. QED
    BY <1>2, <2>1 DEF Ahead
<1>5. QED
  BY <1>3, <1>4 DEF Ahead, Carries

LEMMA AheadAppend ==
  ASSUME NEW S, NEW q \in Seq(S), NEW x, NEW y, NEW z, Ahead(Append(q, z), x, y)
  PROVE  Ahead(q, x, y) \/ (y = z /\ Carries(q, x))
<1>1. /\ Len(q) \in Nat /\ DOMAIN q = 1..Len(q)
      /\ DOMAIN Append(q, z) = 1..(Len(q) + 1)
      /\ \A k \in 1..Len(q) : Append(q, z)[k] = q[k]
      /\ Append(q, z)[Len(q) + 1] = z
  OBVIOUS
<1>2. PICK i \in 1..(Len(q) + 1), j \in 1..(Len(q) + 1) :
        i < j /\ Append(q, z)[i] = x /\ Append(q, z)[j] = y
  BY <1>1 DEF Ahead
<1>3. i \in 1..Len(q) /\ q[i] = x
  BY <1>1, <1>2
<1>4. CASE j = Len(q) + 1
  BY <1>1, <1>2, <1>3, <1>4 DEF Carries
<1>5. CASE j # Len(q) + 1
  <2>1. j \in 1..Len(q) /\ q[j] = y
    BY <1>1, <1>2, <1>5
  <2>2. QED
    BY <1>1, <1>2, <1>3, <2>1 DEF Ahead
<1>6. QED
  BY <1>4, <1>5

LEMMA AheadNone ==
  ASSUME NEW q, NEW x, NEW y, ~Carries(q, x) \/ q = <<>>
  PROVE  ~Ahead(q, x, y)
<1>1. q = <<>> => DOMAIN q = {}
  OBVIOUS
<1>2. QED
  BY <1>1 DEF Ahead, Carries

LEMMA OnceTail ==
  ASSUME NEW S, NEW q \in Seq(S), q # <<>>, NEW x, Once(q, x)
  PROVE  /\ Once(Tail(q), x)
         /\ Head(q) = x => ~Carries(Tail(q), x)
<1>1. /\ Len(q) \in Nat /\ Len(q) >= 1 /\ DOMAIN q = 1..Len(q)
      /\ DOMAIN Tail(q) = 1..(Len(q) - 1)
      /\ \A k \in DOMAIN Tail(q) : Tail(q)[k] = q[k + 1]
      /\ Head(q) = q[1]
  OBVIOUS
<1>2. \A k \in DOMAIN Tail(q) : k \in Int /\ k + 1 \in DOMAIN q /\ k + 1 # 1
  BY <1>1
<1>3. Once(Tail(q), x)
  <2>1. SUFFICES ASSUME NEW i \in DOMAIN Tail(q), NEW j \in DOMAIN Tail(q),
                        Tail(q)[i] = x, Tail(q)[j] = x
                 PROVE  i = j
    BY DEF Once
  <2>2. q[i + 1] = x /\ q[j + 1] = x
    BY <1>1, <2>1
  <2>3. i + 1 = j + 1
    BY <1>2, <2>2 DEF Once
  <2>4. QED
    BY <1>2, <2>3
<1>4. ASSUME Head(q) = x, NEW k \in DOMAIN Tail(q), Tail(q)[k] = x
      PROVE  FALSE
  <2>1. q[1] = x /\ q[k + 1] = x /\ 1 \in DOMAIN q
    BY <1>1, <1>4
  <2>2. QED
    BY <1>2, <2>1 DEF Once
<1>5. QED
  BY <1>3, <1>4 DEF Carries

LEMMA OnceAppend ==
  ASSUME NEW S, NEW q \in Seq(S), NEW x, NEW z, Once(q, x), z = x => ~Carries(q, x)
  PROVE  Once(Append(q, z), x)
<1>1. /\ Len(q) \in Nat /\ DOMAIN q = 1..Len(q)
      /\ DOMAIN Append(q, z) = 1..(Len(q) + 1)
      /\ \A k \in 1..Len(q) : Append(q, z)[k] = q[k]
      /\ Append(q, z)[Len(q) + 1] = z
  OBVIOUS
<1>2. \A k \in 1..(Len(q) + 1) : k \in 1..Len(q) \/ k = Len(q) + 1
  BY <1>1
<1>3. QED
  BY <1>1, <1>2 DEF Once, Carries

LEMMA OnceNone ==
  ASSUME NEW q, NEW x, ~Carries(q, x) \/ q = <<>>
  PROVE  Once(q, x)
<1>1. q = <<>> => DOMAIN q = {}
  OBVIOUS
<1>2. QED
  BY <1>1 DEF Once, Carries

LEMMA FrontTail ==
  ASSUME NEW S, NEW q \in Seq(S), q # <<>>, NEW x, FirstOnly(q, x)
  PROVE  FirstOnly(Tail(q), x) /\ ~Carries(Tail(q), x)
<1>1. /\ Len(q) \in Nat /\ Len(q) >= 1 /\ DOMAIN q = 1..Len(q)
      /\ DOMAIN Tail(q) = 1..(Len(q) - 1)
      /\ \A k \in DOMAIN Tail(q) : Tail(q)[k] = q[k + 1]
  OBVIOUS
<1>2. \A k \in DOMAIN Tail(q) : k + 1 \in DOMAIN q /\ k + 1 # 1
  BY <1>1
<1>3. \A k \in DOMAIN Tail(q) : Tail(q)[k] # x
  BY <1>1, <1>2 DEF FirstOnly
<1>4. QED
  BY <1>3 DEF FirstOnly, Carries

LEMMA FrontAppend ==
  ASSUME NEW S, NEW q \in Seq(S), NEW x, NEW z, FirstOnly(q, x), z # x
  PROVE  FirstOnly(Append(q, z), x)
<1>1. /\ Len(q) \in Nat /\ DOMAIN q = 1..Len(q)
      /\ DOMAIN Append(q, z) = 1..(Len(q) + 1)
      /\ \A k \in 1..Len(q) : Append(q, z)[k] = q[k]
      /\ Append(q, z)[Len(q) + 1] = z
  OBVIOUS
<1>2. \A k \in 1..(Len(q) + 1) : k \in 1..Len(q) \/ k = Len(q) + 1
  BY <1>1
<1>3. QED
  BY <1>1, <1>2 DEF FirstOnly

LEMMA MessageProgress ==
  ASSUME CommonTypeOK, Progress, NEW c \in Messages,
         StartSend(c) \/ StartRequest(c) \/ Abandon(c) \/ MessageStep(c)
  PROVE  /\ Progress'
         /\ pc[c] # "done"
         /\ before' = before
         /\ \A d \in Controls : /\ pc'[d] = pc[d] /\ pos'[d] = pos[d]
                                /\ again'[d] = again[d] /\ outcome'[d] = outcome[d]
<1>0. /\ c \in Calls /\ pc \in [Calls -> CallPlace] /\ pos \in [Calls -> Nat \ {0}]
      /\ again \in [Calls -> BOOLEAN] /\ outcome \in [Calls -> Outcome]
      /\ before \in [Controls -> SUBSET Messages]
      /\ \A d \in Controls : d \in Calls /\ d # c
      /\ \A m \in Messages : m \in Calls
  BY ReceiverAssumption DEF Calls, CommonTypeOK, BusTypeOK
<1>1. /\ pc[c] # "done" /\ before' = before /\ again' = again
      /\ \E p : pc' = [pc EXCEPT ![c] = p]
      /\ pos' = pos \/ \E p : pos' = [pos EXCEPT ![c] = p]
      /\ outcome' = outcome
         \/ (pc' = [pc EXCEPT ![c] = "done"] /\ \E p : outcome' = [outcome EXCEPT ![c] = p])
  <2>1. CASE StartSend(c) \/ StartRequest(c)
    <3>1. before' = before \/ ~Enter(c)
      BY <1>0 DEF Enter
    <3>2. pc[c] = "start"
      BY <2>1 DEF StartSend, StartRequest, MayStart
    <3>3. QED
      BY <2>1, <3>1, <3>2 DEF StartSend, StartRequest, Return, Enter, Goes
  <2>2. CASE Abandon(c) \/ Answered(c)
    BY <2>2 DEF Abandon, Answered, Return, Goes
  <2>3. CASE Reserve(c) \/ PollReserve(c) \/ Bump(c) \/ Send(c)
    BY <2>3 DEF Reserve, Reserving, PollReserve, Bump, Send, Step, Goes, StaysLocal
  <2>4. CASE TryReserve(c) \/ DropPermit(c) \/ Mark(c)
    BY <2>4 DEF TryReserve, DropPermit, Mark, SendNext, Rewind, Visit, Return, Goes, StaysLocal
  <2>5. QED
    BY <2>1, <2>2, <2>3, <2>4 DEF MessageStep
<1>2. \A d \in Controls : /\ pc'[d] = pc[d] /\ pos'[d] = pos[d]
                          /\ again'[d] = again[d] /\ outcome'[d] = outcome[d]
  BY <1>0, <1>1
<1>3. \A d \in Calls : d # c => pc'[d] = pc[d]
  BY <1>0, <1>1
<1>4. \A d \in Calls : pc[d] = "done" => pc'[d] = "done"
  BY <1>1, <1>3
<1>5. pc[c] = "start" => \A e \in After[c] : pc[e] = "done"
  BY DEF StartSend, StartRequest, Abandon, MessageStep, MayStart, Answered, Reserve,
     Reserving, PollReserve, Bump, Send, Step, TryReserve, DropPermit, Mark
<1>6. \A d \in Calls : \A e \in After[d] : e \in Calls
  BY BusAssumption
<1>7. \A d \in Calls : pc'[d] # "start" => \A e \in After[d] : pc'[e] = "done"
  BY <1>3, <1>4, <1>5, <1>6 DEF Progress
<1>8. \A m \in Calls : outcome'[m] # "none" => pc'[m] = "done"
  <2>1. \A m \in Calls \ {c} : outcome'[m] = outcome[m]
    BY <1>0, <1>1
  <2>2. outcome'[c] # "none" => pc'[c] = "done"
    BY <1>0, <1>1 DEF Progress
  <2>3. QED
    BY <1>0, <1>4, <2>1, <2>2 DEF Progress
<1>9. \A b \in Controls : \A m \in before'[b] : pc'[m] = "done"
  BY <1>0, <1>1, <1>4 DEF Progress
<1>10. QED
  BY <1>1, <1>2, <1>7, <1>8, <1>9 DEF Progress

\* The step of a control leaves the other calls where they are.
LEMMA ControlLocal ==
  ASSUME CommonTypeOK, Progress, NEW c \in Controls,
         StartControl(c) \/ StartClose(c) \/ TimeOut(c) \/ ControlStep(c)
  PROVE  /\ pc[c] # "done" /\ (pc[c] = "start" <=> StartControl(c) \/ StartClose(c))
         /\ pc'[c] # "start"
         /\ \A d \in Calls : d # c => /\ pc'[d] = pc[d] /\ pos'[d] = pos[d]
                                      /\ again'[d] = again[d] /\ outcome'[d] = outcome[d]
         /\ \A d \in Controls : pc[c] # "start" \/ d # c => before'[d] = before[d]
         /\ pc[c] = "start" =>
              /\ before'[c] = {m \in Messages : outcome[m] = "ok"}
              /\ pc'[c] = Entry(c) /\ pos'[c] = 1 /\ outcome'[c] = "none"
<1>0. /\ c \in Calls /\ pc \in [Calls -> CallPlace] /\ pos \in [Calls -> Nat \ {0}]
      /\ again \in [Calls -> BOOLEAN] /\ outcome \in [Calls -> Outcome]
      /\ before \in [Controls -> SUBSET Messages] /\ Op[c] \in ControlOps
      /\ (pc[c] = "start" => pos[c] = 1 /\ outcome[c] = "none")
  BY ReceiverAssumption, BusAssumption DEF Calls, CommonTypeOK, BusTypeOK, Progress
<1>1. Entry(c) \in {"check", "push", "register"}
  BY <1>0, BusAssumption DEF Entry, ControlOps
<1>2. CASE StartControl(c) \/ StartClose(c)
  BY <1>0, <1>1, <1>2 DEF StartControl, StartClose, MayStart, Enter, Goes
<1>3. ASSUME Onward(c)
      PROVE  /\ \E p \in {"check", "push", "register", "done"} : pc' = [pc EXCEPT ![c] = p]
             /\ before' = before
             /\ pos' = pos \/ \E p : pos' = [pos EXCEPT ![c] = p]
             /\ again' = again \/ \E p : again' = [again EXCEPT ![c] = p]
             /\ outcome' = outcome \/ \E p : outcome' = [outcome EXCEPT ![c] = p]
  BY <1>1, <1>3 DEF Onward, Visit, NextRound, Return, Goes
<1>4. CASE TimeOut(c) \/ ControlStep(c)
  <2>1. pc[c] \notin {"start", "done"}
    BY <1>4 DEF TimeOut, ControlStep, Check, Register, Push, PushFails, PollFlushed,
       UnparkFlushed, CheckIdle, CheckReady, Awake, Step
  <2>2. /\ \E p \in CallPlace \ {"start"} : pc' = [pc EXCEPT ![c] = p]
        /\ before' = before
        /\ pos' = pos \/ \E p : pos' = [pos EXCEPT ![c] = p]
        /\ again' = again \/ \E p : again' = [again EXCEPT ![c] = p]
        /\ outcome' = outcome \/ \E p : outcome' = [outcome EXCEPT ![c] = p]
    <3>1. CASE Onward(c)
      BY <1>3, <3>1 DEF CallPlace
    <3>2. CASE ~Onward(c)
      BY <1>4, <3>2 DEF TimeOut, ControlStep, Check, Register, Push, PushFails, PollFlushed,
         UnparkFlushed, CheckIdle, CheckReady, Awake, Step, Flushed, Goes, StaysLocal, CallPlace
    <3>3. QED
      BY <3>1, <3>2
  <2>3. /\ \A d \in Calls : d # c => /\ pc'[d] = pc[d] /\ pos'[d] = pos[d]
                                     /\ again'[d] = again[d] /\ outcome'[d] = outcome[d]
        /\ pc'[c] # "start"
    BY <1>0, <2>2
  <2>4. ~StartControl(c) /\ ~StartClose(c)
    BY <2>1 DEF StartControl, StartClose, MayStart
  <2>5. QED
    BY <2>1, <2>2, <2>3, <2>4
<1>5. QED
  BY <1>2, <1>4

LEMMA ControlProgress ==
  ASSUME CommonTypeOK, Progress, NEW c \in Controls,
         StartControl(c) \/ StartClose(c) \/ TimeOut(c) \/ ControlStep(c)
  PROVE  Progress'
<1>0. /\ c \in Calls /\ pc \in [Calls -> CallPlace] /\ pos \in [Calls -> Nat \ {0}]
      /\ again \in [Calls -> BOOLEAN] /\ outcome \in [Calls -> Outcome]
      /\ Op[c] \in ControlOps /\ pc[c] \in Places(Op[c]) /\ (again[c] => Op[c] = "flush")
      /\ \A d \in Controls : d \in Calls
      /\ \A m \in Messages : m \in Calls /\ m # c
      /\ \A d \in Calls : \A e \in After[d] : e \in Calls
  BY ReceiverAssumption, BusAssumption DEF Calls, CommonTypeOK, BusTypeOK, Progress
<1>1. /\ pc[c] # "done" /\ (pc[c] = "start" <=> StartControl(c) \/ StartClose(c))
      /\ pc'[c] # "start"
      /\ \A d \in Calls : d # c => /\ pc'[d] = pc[d] /\ pos'[d] = pos[d]
                                   /\ again'[d] = again[d] /\ outcome'[d] = outcome[d]
      /\ \A d \in Controls : pc[c] # "start" \/ d # c => before'[d] = before[d]
      /\ pc[c] = "start" =>
           /\ before'[c] = {m \in Messages : outcome[m] = "ok"} /\ pc'[c] = Entry(c)
  BY ControlLocal
<1>2. \A d \in Calls : pc[d] = "done" => pc'[d] = "done"
  BY <1>1
<1>3. pc[c] = "start" => \A e \in After[c] : pc[e] = "done"
  BY <1>1 DEF StartControl, StartClose, MayStart
<1>4. \A d \in Calls : pc'[d] # "start" => \A e \in After[d] : pc'[e] = "done"
  BY <1>0, <1>1, <1>2, <1>3 DEF Progress
<1>5. \A d \in Calls : outcome'[d] # "none" => pc'[d] = "done"
  <2>1. outcome[c] = "none"
    BY <1>0, <1>1 DEF Progress
  <2>2. outcome'[c] # "none" => pc'[c] = "done"
    <3>1. CASE StartControl(c) \/ StartClose(c)
      BY <2>1, <3>1, ControlLocal
    <3>2. CASE Onward(c)
      BY <1>0, <2>1, <3>2 DEF Onward, Visit, NextRound, Return, Goes
    <3>3. CASE ~Onward(c) /\ ~StartControl(c) /\ ~StartClose(c)
      <4>1. outcome' = outcome
        BY <3>3 DEF TimeOut, ControlStep, Check, Register, Push, PushFails, PollFlushed,
           UnparkFlushed, CheckIdle, CheckReady, Awake, Step, Flushed, StaysLocal
      <4>2. QED
        BY <2>1, <4>1
    <3>4. QED
      BY <3>1, <3>2, <3>3
  <2>3. QED
    BY <1>0, <1>1, <2>2 DEF Progress
<1>6. ASSUME NEW b \in Controls, NEW m \in before'[b]
      PROVE  pc'[m] = "done"
  <2>1. CASE b = c /\ pc[c] = "start"
    <3>1. m \in Messages /\ outcome[m] # "none"
      BY <1>1, <1>6, <2>1
    <3>2. QED
      BY <1>0, <1>2, <3>1 DEF Progress
  <2>2. CASE ~(b = c /\ pc[c] = "start")
    <3>1. m \in before[b] /\ m \in Calls
      BY <1>0, <1>1, <1>6, <2>2 DEF CommonTypeOK, BusTypeOK
    <3>2. QED
      BY <1>2, <3>1 DEF Progress
  <2>3. QED
    BY <2>1, <2>2
<1>7. pc'[c] \in Places(Op[c]) /\ (again'[c] => Op[c] = "flush")
  <2>1. Entry(c) \in Places(Op[c])
    BY <1>0, BusAssumption DEF Entry, Places, ControlOps
  <2>2. CASE pc[c] = "start"
    <3>1. again' = again
      BY <1>1, <2>2 DEF StartControl, StartClose, Enter
    <3>2. QED
      BY <1>0, <1>1, <2>1, <2>2, <3>1
  <2>3. ASSUME Onward(c), Op[c] # "flush"
        PROVE  pc'[c] \in Places(Op[c]) /\ (again'[c] => Op[c] = "flush")
    <3>1. pc'[c] \in {Entry(c), "done"} /\ again' = again
      BY <1>0, <2>3 DEF Onward, Visit, Return, Goes
    <3>2. QED
      BY <1>0, <2>1, <2>3, <3>1 DEF Places
  <2>4. ASSUME Onward(c), Op[c] = "flush"
        PROVE  pc'[c] \in Places(Op[c])
    <3>1. pc'[c] \in {Entry(c), "check", "done"}
      BY <1>0, <2>4 DEF Onward, Visit, NextRound, Return, Goes
    <3>2. QED
      BY <2>1, <2>4, <3>1 DEF Places
  <2>5. CASE pc[c] # "start" /\ ~Onward(c)
    <3>1. ControlStep(c)
      BY <1>1, <2>5 DEF TimeOut
    <3>2. CASE Check(c)
      BY <1>0, <2>5, <3>1, <3>2 DEF Check, Places, ControlOps, Goes
    <3>3. CASE Register(c)
      BY <1>0, <2>5, <3>3 DEF Register, Step, StaysLocal, Places, ControlOps, Goes
    <3>4. CASE Push(c)
      BY <1>0, <2>5, <3>4 DEF Push, Step, StaysLocal, Places, ControlOps, Goes
    <3>5. CASE PushFails(c)
      BY <1>0, <2>5, <3>5 DEF PushFails, StaysLocal, Places, ControlOps, Goes
    <3>6. CASE PollFlushed(c) \/ UnparkFlushed(c)
      BY <1>0, <2>5, <3>6
         DEF PollFlushed, UnparkFlushed, Flushed, StaysLocal, Places, ControlOps, Goes
    <3>7. CASE CheckIdle(c) \/ CheckReady(c)
      BY <1>0, <2>5, <3>7 DEF CheckIdle, CheckReady, StaysLocal, Places, ControlOps, Goes
    <3>8. QED
      BY <2>5, <3>1, <3>2, <3>3, <3>4, <3>5, <3>6, <3>7 DEF ControlStep, Awake
  <2>6. QED
    BY <2>2, <2>3, <2>4, <2>5
<1>8. \A d \in Controls :
        /\ pc'[d] \in Places(Op[d])
        /\ again'[d] => Op[d] = "flush"
        /\ pc'[d] = "start" => pos'[d] = 1 /\ outcome'[d] = "none"
  BY <1>0, <1>1, <1>7 DEF Progress
<1>9. QED
  BY <1>4, <1>5, <1>6, <1>8 DEF Progress

LEMMA MessageOthers ==
  ASSUME CommonTypeOK, NEW c \in Messages,
         StartSend(c) \/ StartRequest(c) \/ Abandon(c) \/ MessageStep(c)
  PROVE  \A m \in Messages : m # c => pc'[m] = pc[m] /\ At(m)' = At(m)
<1>0. /\ pc \in [Calls -> CallPlace] /\ pos \in [Calls -> Nat \ {0}]
      /\ \A m \in Messages : m \in Calls
  BY DEF Calls, CommonTypeOK, BusTypeOK
<1>1. /\ \E p : pc' = [pc EXCEPT ![c] = p]
      /\ pos' = pos \/ \E p : pos' = [pos EXCEPT ![c] = p]
  BY DEF StartSend, StartRequest, Abandon, MessageStep, Answered, Reserve, PollReserve, Bump,
     Send, Step, TryReserve, DropPermit, Mark, SendNext, Enter, Rewind, Visit, Return, Goes,
     StaysLocal
<1>2. QED
  BY <1>0, <1>1 DEF At

\* What a call with a message does to the channels, flags and copies.
LEMMA MessageEffects ==
  ASSUME CommonTypeOK, Visiting, NEW c \in Messages,
         StartSend(c) \/ StartRequest(c) \/ Abandon(c) \/ MessageStep(c)
  PROVE  /\ UNCHANGED <<rx, events, listening>>
         /\ \A r \in Receivers :
              /\ needFlush[r] => needFlush'[r]
              /\ pc[c] = "mark" /\ At(c) = r => needFlush'[r]
              /\ notify'[r].flushed = notify[r].flushed
              /\ \/ queue'[r] = queue[r]
                 \/ pc[c] = "send" /\ rx[r] = "open" /\ queue'[r] = Append(queue[r], c)
              /\ \A m \in Messages : m # c => at'[r][m] = at[r][m]
              /\ \/ at'[r][c] = at[r][c]
                 \/ at'[r][c] \in {"none", "permit", "refused"}
                 \/ /\ at'[r][c] = "queued" /\ rx[r] = "open" /\ pc[c] = "send"
                    /\ pc'[c] = "mark" /\ At(c)' = r
<1>0. /\ c \in Calls /\ At(c) \in Receivers /\ at \in [Receivers -> [Messages -> Place]]
      /\ queue \in [Receivers -> Seq(Messages \cup Actions)]
      /\ needFlush \in [Receivers -> BOOLEAN]
      /\ notify \in [Receivers -> [OneKinds -> NotifyState]]
      /\ pc \in [Calls -> CallPlace] /\ pos \in [Calls -> Nat \ {0}]
  BY AtReceiver DEF Calls, CommonTypeOK, BusTypeOK, MailTypeOK, WrapperTypeOK
<1>1. UNCHANGED <<rx, events, listening>>
  BY DEF StartSend, StartRequest, Abandon, MessageStep, Reserve, PollReserve, TryReserve,
     DropPermit, Bump, Send, SendMessage, Mark, Answered, mailVars, wrapperVars, notifyVars
<1>2. ASSUME NEW r \in Receivers
      PROVE  /\ needFlush[r] => needFlush'[r]
             /\ pc[c] = "mark" /\ At(c) = r => needFlush'[r]
  <2>1. CASE Mark(c)
    BY <1>0, <2>1 DEF Mark
  <2>2. CASE ~Mark(c)
    <3>1. UNCHANGED needFlush /\ pc[c] # "mark"
      BY <2>2 DEF StartSend, StartRequest, Abandon, MessageStep, MayStart, Reserve, Reserving,
         PollReserve, TryReserve, DropPermit, Bump, Send, Answered, Step, wrapperVars,
         contextVars
    <3>2. QED
      BY <3>1
  <2>3. QED
    BY <2>1, <2>2
<1>3. ASSUME NEW r \in Receivers
      PROVE  notify'[r].flushed = notify[r].flushed
  <2>1. CASE PollReserve(c)
    <3>1. notify' = [notify EXCEPT ![At(c)]["response"] = PollNotified(@, c)]
      BY <2>1 DEF PollReserve, Poll
    <3>2. QED
      BY <1>0, <3>1 DEF OneKinds
  <2>2. CASE ~PollReserve(c)
    <3>1. UNCHANGED notify
      BY <2>2 DEF StartSend, StartRequest, Abandon, MessageStep, Reserve, TryReserve,
         DropPermit, Bump, Send, Mark, Answered, wrapperVars, notifyVars
    <3>2. QED
      BY <3>1
  <2>3. QED
    BY <2>1, <2>2
<1>4. CASE Send(c) /\ rx[At(c)] = "open"
  <2>1. /\ pc[c] = "send" /\ pc'[c] = "mark" /\ At(c)' = At(c)
        /\ queue' = [queue EXCEPT ![At(c)] = Append(@, c)] /\ Move(At(c), c, "queued")
    BY <1>0, <1>4 DEF Send, SendMessage, Step, Goes, StaysLocal, At
  <2>2. ASSUME NEW r \in Receivers
        PROVE  /\ \/ queue'[r] = queue[r]
                  \/ pc[c] = "send" /\ rx[r] = "open" /\ queue'[r] = Append(queue[r], c)
               /\ \A m \in Messages : m # c => at'[r][m] = at[r][m]
               /\ \/ at'[r][c] = at[r][c]
                  \/ /\ at'[r][c] = "queued" /\ rx[r] = "open" /\ pc[c] = "send"
                     /\ pc'[c] = "mark" /\ At(c)' = r
    BY <1>0, <1>4, <2>1 DEF Move
  <2>3. QED
    BY <1>1, <1>2, <1>3, <2>2
<1>5. CASE ~(Send(c) /\ rx[At(c)] = "open")
  <2>1. UNCHANGED queue
    BY <1>5 DEF StartSend, StartRequest, Abandon, MessageStep, Reserve, PollReserve,
       TryReserve, DropPermit, Bump, Send, SendMessage, Mark, Answered, mailVars
  <2>2. \/ UNCHANGED at
        \/ \E p \in {"permit", "none", "refused"} : Move(At(c), c, p)
    BY <1>5 DEF StartSend, StartRequest, Abandon, MessageStep, Reserve, PollReserve,
       TryReserve, DropPermit, Bump, Send, SendMessage, Mark, Answered, TakeSlot,
       ForceSlot, DropSlot, mailVars
  <2>3. ASSUME NEW r \in Receivers
        PROVE  /\ \A m \in Messages : m # c => at'[r][m] = at[r][m]
               /\ at'[r][c] = at[r][c] \/ at'[r][c] \in {"none", "permit", "refused"}
    BY <1>0, <2>2 DEF Move
  <2>4. QED
    BY <1>1, <1>2, <1>3, <2>1, <2>3
<1>6. QED
  BY <1>4, <1>5

LEMMA MessageCover ==
  ASSUME CommonTypeOK, Visiting, NEW c \in Messages,
         NEW flushing, NEW syncing, NEW clear, NEW more, NEW over, NEW gone,
         CoverInv(flushing, syncing, clear, over), Grows(clear, more, over, gone),
         StartSend(c) \/ StartRequest(c) \/ Abandon(c) \/ MessageStep(c), UNCHANGED loop
  PROVE  CoverInv(flushing, syncing, more, gone)'
<1>0. /\ c \in Calls /\ queue \in [Receivers -> Seq(Messages \cup Actions)]
      /\ before \in [Controls -> SUBSET Messages]
      /\ Messages \cap (Actions \cup Signals) = {}
      /\ \A d \in Controls : d \in Calls /\ d # c
      /\ \A b \in Controls, r \in Receivers : Barrier(b, r) => ActionOf(b) \in Actions
  BY ReceiverAssumption, MailboxAssumption
     DEF Calls, CommonTypeOK, BusTypeOK, MailTypeOK, ActionOf, Actions
<1>1. /\ Progress' /\ Progress /\ pc[c] # "done" /\ before' = before
      /\ \A d \in Controls : /\ pc'[d] = pc[d] /\ pos'[d] = pos[d]
                             /\ again'[d] = again[d] /\ outcome'[d] = outcome[d]
  BY MessageProgress DEF CoverInv
<1>2. \A d \in Controls : At(d)' = At(d)
  BY <1>1 DEF At
<1>3. UNCHANGED <<rx, events, listening>>
  BY MessageEffects
<1>4. ASSUME NEW r \in Receivers
      PROVE  /\ needFlush[r] => needFlush'[r]
             /\ pc[c] = "mark" /\ At(c) = r => needFlush'[r]
             /\ notify'[r].flushed = notify[r].flushed
             /\ \/ queue'[r] = queue[r]
                \/ pc[c] = "send" /\ rx[r] = "open" /\ queue'[r] = Append(queue[r], c)
             /\ \A m \in Messages : m # c => at'[r][m] = at[r][m]
             /\ \/ at'[r][c] = at[r][c]
                \/ at'[r][c] \in {"none", "permit", "refused"}
                \/ /\ at'[r][c] = "queued" /\ rx[r] = "open" /\ pc[c] = "send"
                   /\ pc'[c] = "mark" /\ At(c)' = r
  BY MessageEffects
<1>5. ASSUME NEW r \in Receivers, NEW x \in Actions
      PROVE  /\ Carries(queue'[r], x) <=> Carries(queue[r], x)
             /\ Once(queue[r], x) => Once(queue'[r], x)
             /\ FirstOnly(queue[r], x) => FirstOnly(queue'[r], x)
             /\ \A y \in Messages : y # c /\ Ahead(queue'[r], x, y) => Ahead(queue[r], x, y)
  <2>1. queue[r] \in Seq(Messages \cup Actions) /\ x # c
    BY <1>0
  <2>2. CASE queue'[r] = queue[r]
    BY <2>2
  <2>3. CASE queue'[r] = Append(queue[r], c)
    BY <2>1, <2>3, CarriesAppend, OnceAppend, FrontAppend, AheadAppend
  <2>4. QED
    BY <1>4, <2>2, <2>3
<1>6. ASSUME NEW r \in Receivers
      PROVE  InitFirst(r)' /\ SyncTokens(syncing, r)'
  <2>1. InitFirst(r) /\ SyncTokens(syncing, r)
    BY DEF CoverInv
  <2>2. InitFirst(r)'
    BY <1>4, <1>5, <2>1 DEF InitFirst, Actions
  <2>3. \A s \in Controls : SyncWaits(s, r) => SyncWaits(s, r)'
    BY <1>1, <1>2, <1>3 DEF SyncWaits
  <2>4. SyncTokens(syncing, r)'
    BY <1>3, <1>5, <2>1, <2>3 DEF SyncTokens, SyncSent, Actions
  <2>5. QED
    BY <2>2, <2>4
<1>7. ASSUME NEW b \in Controls, NEW r \in Receivers, Barrier(b, r)
      PROVE  BarrierAt(more, gone, b, r)'
  <2>1. BarrierAt(clear, over, b, r)
    BY <1>7 DEF CoverInv
  <2>2. pc'[b] # "done" => ~Carries(queue'[r], "Close") /\ (rx'[r] # "open" => r \in gone)
    BY <1>1, <1>3, <1>5, <2>1 DEF BarrierAt, Grows, Actions
  <2>3. Active(b)' => \A m \in before'[b] : ~Ahead(queue'[r], ActionOf(b), m)
    <3>1. \A m \in before[b] : m \in Messages /\ m # c
      BY <1>0, <1>1 DEF Progress
    <3>2. QED
      BY <1>0, <1>1, <1>5, <1>7, <2>1, <3>1 DEF BarrierAt, Active
  <2>4. pc'[b] # "start" /\ <<b, r>> \notin more =>
          pc'[b] # "done" /\ \A i \in DOMAIN Route[b] : i < pos'[b] => Route[b][i] # r
    BY <1>1, <2>1 DEF BarrierAt, Grows
  <2>5. QED
    BY <2>2, <2>3, <2>4 DEF BarrierAt
<1>8. ASSUME NEW f \in Controls, NEW r \in Receivers, Barrier(f, r), Op[f] = "flush"
      PROVE  FlushAt(flushing, more, f, r)'
  <2>1. FlushAt(flushing, clear, f, r)
    BY <1>8 DEF CoverInv
  <2>2. FlushDue(r)' <=> FlushDue(r)
    BY <1>3, <1>4 DEF FlushDue
  <2>3. ASSUME pc[f] = "start", NEW m \in Messages, at'[r][m] \in Unhandled
        PROVE  needFlush'[r] \/ (pc'[m] = "mark" /\ At(m)' = r)
    <3>1. CASE m = c
      BY <1>4, <2>1, <2>3, <3>1 DEF FlushAt, Unhandled
    <3>2. CASE m # c
      <4>1. pc'[m] = pc[m] /\ At(m)' = At(m)
        BY <3>2, MessageOthers
      <4>2. QED
        BY <1>4, <2>1, <2>3, <3>2, <4>1 DEF FlushAt
    <3>3. QED
      BY <3>1, <3>2
  <2>4. pc'[f] = "start" =>
          /\ ~Carries(queue'[r], "Flush") /\ r \notin flushing /\ ~FlushDue(r)'
          /\ \A m \in Messages :
               at'[r][m] \in Unhandled => needFlush'[r] \/ (pc'[m] = "mark" /\ At(m)' = r)
    BY <1>1, <1>5, <2>1, <2>2, <2>3 DEF FlushAt, Actions
  <2>5. pc'[f] # "start" /\ <<f, r>> \notin more =>
          /\ needFlush'[r]
          /\ ~FlushDue(r)'
          /\ pc'[f] = "parked" /\ At(f)' = r => IsParked(notify'[r].flushed, f)
    BY <1>1, <1>2, <1>4, <2>1, <2>2 DEF FlushAt, Grows
  <2>6. QED
    BY <2>4, <2>5 DEF FlushAt
<1>9. ASSUME NEW s \in Controls, NEW r \in Receivers, Barrier(s, r), Op[s] = "sync"
      PROVE  SyncAt(more, s, r)'
  <2>1. SyncAt(clear, s, r)
    BY <1>9 DEF CoverInv
  <2>2. QED
    BY <1>1, <1>2, <1>3, <2>1 DEF SyncAt, Grows, Active
<1>10. QED
  BY <1>1, <1>6, <1>7, <1>8, <1>9 DEF CoverInv

\* What a control does to the channels, flags and Notifys.
LEMMA ControlEffects ==
  ASSUME CommonTypeOK, Visiting, NEW c \in Controls,
         StartControl(c) \/ StartClose(c) \/ TimeOut(c) \/ ControlStep(c)
  PROVE  /\ UNCHANGED <<at, rx, events, needFlush>>
         /\ Visits(c, At(c)) /\ At(c) \in Receivers
         /\ \A r \in Receivers :
              /\ \/ queue'[r] = queue[r]
                 \/ /\ Push(c) /\ r = At(c) /\ rx[r] = "open"
                    /\ queue'[r] = Append(queue[r], ActionOf(c))
              /\ \/ notify'[r].flushed = notify[r].flushed
                 \/ PollFlushed(c) /\ r = At(c)
              /\ \A d \in listening[r].synchronized : d # c => d \in listening'[r].synchronized
<1>0. /\ c \in Calls /\ At(c) \in Receivers
      /\ queue \in [Receivers -> Seq(Messages \cup Actions)]
      /\ notify \in [Receivers -> [OneKinds -> NotifyState]]
      /\ listening \in [Receivers -> [AllKinds -> SUBSET Calls]] /\ Kind(c) \in AllKinds
  BY AtReceiver, KindType DEF Calls, CommonTypeOK, BusTypeOK, MailTypeOK, WrapperTypeOK
<1>1. UNCHANGED <<at, rx, events, needFlush>>
  BY DEF StartControl, StartClose, TimeOut, ControlStep, Check, Register, Push, PushFails,
     PollFlushed, UnparkFlushed, CheckIdle, CheckReady, Awake, SendAction, mailVars,
     wrapperVars, contextVars
<1>2. Visits(c, At(c))
  BY ControlsVisit DEF Visits, At
<1>3. ASSUME NEW r \in Receivers
      PROVE  \/ queue'[r] = queue[r]
             \/ /\ Push(c) /\ r = At(c) /\ rx[r] = "open"
                /\ queue'[r] = Append(queue[r], ActionOf(c))
  <2>1. CASE Push(c)
    BY <1>0, <2>1 DEF Push, SendAction
  <2>2. CASE ~Push(c)
    BY <2>2 DEF StartControl, StartClose, TimeOut, ControlStep, Check, Register, PushFails,
       PollFlushed, UnparkFlushed, CheckIdle, CheckReady, Awake, mailVars
  <2>3. QED
    BY <2>1, <2>2
<1>4. ASSUME NEW r \in Receivers
      PROVE  \/ notify'[r].flushed = notify[r].flushed
             \/ PollFlushed(c) /\ r = At(c)
  <2>1. CASE PollFlushed(c)
    BY <1>0, <2>1 DEF PollFlushed, Poll
  <2>2. CASE ~PollFlushed(c)
    BY <2>2 DEF StartControl, StartClose, TimeOut, ControlStep, Check, Register, Push,
       PushFails, UnparkFlushed, CheckIdle, CheckReady, Awake, wrapperVars, notifyVars
  <2>3. QED
    BY <2>1, <2>2
<1>5. ASSUME NEW r \in Receivers, NEW d \in listening[r].synchronized, d # c
      PROVE  d \in listening'[r].synchronized
  <2>1. \/ UNCHANGED listening
        \/ \E k \in AllKinds : Listen(At(c), k, c) \/ Unlisten(At(c), k, c)
    BY <1>0 DEF StartControl, StartClose, TimeOut, ControlStep, Check, Register, Push,
       PushFails, PollFlushed, UnparkFlushed, CheckIdle, CheckReady, Awake, wrapperVars,
       notifyVars, AllKinds
  <2>2. PICK s \in Receivers : s = At(c)
    BY <1>0
  <2>3. ASSUME NEW k \in AllKinds, Listen(At(c), k, c) \/ Unlisten(At(c), k, c)
        PROVE  d \in listening'[r].synchronized
    <3>1. \/ listening' = [listening EXCEPT ![s][k] = @ \cup {c}]
          \/ listening' = [listening EXCEPT ![s][k] = @ \ {c}]
      BY <2>2, <2>3 DEF Listen, Unlisten
    <3>2. CASE r = s /\ k = "synchronized"
      <4>1. \/ listening'[s]["synchronized"] = listening[s]["synchronized"] \cup {c}
            \/ listening'[s]["synchronized"] = listening[s]["synchronized"] \ {c}
        BY <1>0, <3>1, <3>2 DEF AllKinds
      <4>2. QED
        BY <1>5, <3>2, <4>1
    <3>3. CASE ~(r = s /\ k = "synchronized")
      <4>1. listening'[r]["synchronized"] = listening[r]["synchronized"]
        BY <1>0, <3>1, <3>3 DEF AllKinds
      <4>2. QED
        BY <1>5, <4>1
    <3>4. QED
      BY <3>2, <3>3
  <2>4. QED
    BY <1>5, <2>1, <2>3
<1>6. QED
  BY <1>0, <1>1, <1>2, <1>3, <1>4, <1>5

\* Whatever a control appends to the queue of r, nothing gets behind it.
LEMMA PushedQueue ==
  ASSUME CommonTypeOK, Visiting, NEW c \in Controls,
         StartControl(c) \/ StartClose(c) \/ TimeOut(c) \/ ControlStep(c),
         NEW r \in Receivers, NEW x \in Actions
  PROVE  /\ Carries(queue'[r], x) => Carries(queue[r], x) \/ (Push(c) /\ r = At(c) /\ ActionOf(c) = x)
         /\ Carries(queue[r], x) => Carries(queue'[r], x)
         /\ x # "Init" \/ (FirstOnly(queue[r], x) => FirstOnly(queue'[r], x))
         /\ (Carries(queue[r], x) => ~(Push(c) /\ r = At(c) /\ ActionOf(c) = x)) /\ Once(queue[r], x)
              => Once(queue'[r], x)
         /\ \A m \in Messages : Ahead(queue'[r], x, m) => Ahead(queue[r], x, m)
<1>0. /\ queue[r] \in Seq(Messages \cup Actions)
      /\ ActionOf(c) \in Actions \ {"Init"} /\ Messages \cap Actions = {}
  BY MailboxAssumption DEF CommonTypeOK, MailTypeOK, ActionOf, Actions
<1>1. CASE queue'[r] = queue[r]
  BY <1>1
<1>2. CASE queue'[r] # queue[r]
  <2>1. /\ Push(c) /\ r = At(c) /\ queue'[r] = Append(queue[r], ActionOf(c))
    BY <1>2, ControlEffects
  <2>2. \A m \in Messages : m # ActionOf(c)
    BY <1>0
  <2>3. \A m \in Messages : Ahead(queue'[r], x, m) => Ahead(queue[r], x, m)
    BY <1>0, <2>1, <2>2, AheadAppend
  <2>4. QED
    BY <1>0, <2>1, <2>3, CarriesAppend, OnceAppend, FrontAppend
<1>3. QED
  BY <1>1, <1>2

\* Two syncs of a receiver are never under way at once, so there is no Sync but
\* that of the one that waits for it.
LEMMA NoSyncSent ==
  ASSUME BarriersApart, NEW syncing, Progress, NEW c \in Controls, NEW r \in Receivers,
         Visiting, SyncTokens(syncing, r), Op[c] = "sync", Visits(c, r),
         pc[c] \notin {"listen", "done"},
         pc[c] = "start" => \A d \in After[c] : pc[d] = "done"
  PROVE  ~SyncSent(syncing, r)
<1>1. SUFFICES ASSUME NEW s \in Controls, SyncWaits(s, r)
               PROVE  FALSE
  BY DEF SyncTokens
<1>2. s # c /\ Op[s] = "sync" /\ Visits(s, r) /\ s \in Calls /\ c \in Calls
  BY <1>1, ControlsVisit DEF SyncWaits, Visits, At, Calls
<1>3. c \in After[s] \/ s \in After[c]
  BY <1>2 DEF BarriersApart
<1>4. QED
  BY <1>1, <1>2, <1>3 DEF SyncWaits, Progress

LEMMA ControlTokens ==
  ASSUME BarriersApart, CommonTypeOK, Visiting, NEW c \in Controls,
         NEW flushing, NEW syncing, NEW clear, NEW over, NEW r \in Receivers,
         CoverInv(flushing, syncing, clear, over),
         StartControl(c) \/ StartClose(c) \/ TimeOut(c) \/ ControlStep(c)
  PROVE  InitFirst(r)' /\ SyncTokens(syncing, r)'
<1>0. Progress /\ InitFirst(r) /\ SyncTokens(syncing, r) /\ c \in Calls
  BY DEF CoverInv, Calls
<1>1. UNCHANGED <<at, events>> /\ Visits(c, At(c))
  BY ControlEffects
<1>2. InitFirst(r)'
  <2>1. Carries(queue'[r], "Init") => Carries(queue[r], "Init")
    BY PushedQueue DEF Actions, ActionOf
  <2>2. FirstOnly(queue'[r], "Init")
    BY <1>0, PushedQueue DEF Actions, InitFirst
  <2>3. QED
    BY <1>0, <1>1, <2>1, <2>2 DEF InitFirst
<1>3. CASE Push(c) /\ r = At(c) /\ ActionOf(c) = "Sync"
  <2>1. pc[c] = "push" /\ Op[c] = "sync" /\ pc'[c] = "listen" /\ At(c)' = r
    BY <1>0, <1>3 DEF Push, Step, Goes, StaysLocal, At, ActionOf, CommonTypeOK, BusTypeOK
  <2>2. ~SyncSent(syncing, r)
    BY <1>0, <1>1, <1>3, <2>1, NoSyncSent
  <2>3. Barrier(c, r)
    BY <1>1, <1>3, <2>1 DEF Barrier
  <2>4. c \in listening[r].synchronized
    BY <1>3, <2>1, <2>3 DEF CoverInv, SyncAt
  <2>5. SyncWaits(c, r)'
    BY <1>3, <2>1, <2>4 DEF Push, wrapperVars, notifyVars, SyncWaits
  <2>6. Once(queue'[r], "Sync")
    BY <1>0, <2>2, PushedQueue DEF Actions, SyncSent, SyncTokens
  <2>7. QED
    BY <1>0, <1>1, <1>2, <2>2, <2>5, <2>6 DEF SyncTokens, SyncSent
<1>4. CASE ~(Push(c) /\ r = At(c) /\ ActionOf(c) = "Sync")
  <2>1. (Carries(queue'[r], "Sync") <=> Carries(queue[r], "Sync")) /\ Once(queue'[r], "Sync")
    BY <1>0, <1>4, PushedQueue DEF Actions, SyncTokens
  <2>2. \A s \in Controls : SyncWaits(s, r) => SyncWaits(s, r)'
    <3>1. SUFFICES ASSUME NEW s \in Controls, SyncWaits(s, r)
                   PROVE  SyncWaits(s, r)'
      OBVIOUS
    <3>2. s # c
      <4>1. SUFFICES ASSUME s = c
                     PROVE  FALSE
        OBVIOUS
      <4>2. pc[c] = "listen" /\ Op[c] = "sync" /\ c \in listening[At(c)].synchronized
        BY <3>1, <4>1 DEF SyncWaits
      <4>3. QED
        BY <4>2 DEF StartControl, StartClose, MayStart, TimeOut, ControlStep, Check, Register,
           Push, PushFails, PollFlushed, UnparkFlushed, CheckIdle, CheckReady, Awake, Step, Kind
    <3>3. pc'[s] = pc[s] /\ At(s)' = At(s)
      BY <1>0, <3>2, ControlLocal DEF At, Calls
    <3>4. s \in listening'[r].synchronized
      BY <3>1, <3>2, ControlEffects DEF SyncWaits
    <3>5. QED
      BY <3>1, <3>3, <3>4 DEF SyncWaits
  <2>3. QED
    BY <1>0, <1>1, <1>2, <2>1, <2>2 DEF SyncTokens, SyncSent
<1>5. QED
  BY <1>3, <1>4

\* Where a step of a control leaves what the other flushes and syncs rely on.
LEMMA ControlOthers ==
  ASSUME BarriersApart, CommonTypeOK, Visiting, NEW c \in Controls,
         NEW flushing, NEW syncing, NEW clear, NEW more, NEW over, NEW gone,
         CoverInv(flushing, syncing, clear, over), Grows(clear, more, over, gone),
         StartControl(c) \/ StartClose(c) \/ TimeOut(c) \/ ControlStep(c), UNCHANGED loop,
         NEW b \in Controls, b # c, NEW r \in Receivers, Barrier(b, r)
  PROVE  /\ BarrierAt(more, gone, b, r)'
         /\ Op[b] = "flush" => FlushAt(flushing, more, b, r)'
         /\ Op[b] = "sync" => SyncAt(more, b, r)'
<1>0. /\ Progress /\ b \in Calls /\ c \in Calls /\ Op[c] \in ControlOps
      /\ pc[c] \in Places(Op[c])
      /\ BarrierAt(clear, over, b, r) /\ Visits(b, r) /\ Op[b] \in {"flush", "sync"}
      /\ Op[b] = "flush" => FlushAt(flushing, clear, b, r)
      /\ Op[b] = "sync" => SyncAt(clear, b, r)
  BY ReceiverAssumption, BusAssumption DEF CoverInv, Progress, Calls, Barrier
<1>1. /\ pc'[b] = pc[b] /\ pos'[b] = pos[b] /\ outcome'[b] = outcome[b]
      /\ before'[b] = before[b] /\ At(b)' = At(b)
      /\ \A m \in Messages : pc'[m] = pc[m] /\ At(m)' = At(m)
  BY <1>0, ReceiverAssumption, ControlLocal DEF At, Calls
<1>2. /\ UNCHANGED <<at, rx, events, needFlush>>
      /\ Visits(c, At(c)) /\ At(c) \in Receivers
      /\ \/ notify'[r].flushed = notify[r].flushed
         \/ PollFlushed(c) /\ r = At(c)
      /\ b \in listening[r].synchronized => b \in listening'[r].synchronized
  BY ControlEffects
<1>3. Op[b] = "flush" /\ Visits(c, r) => Op[c] \notin {"flush", "idle"}
  BY <1>0 DEF BarriersApart
<1>4. Op[c] = "close" /\ Visits(c, r) /\ pc[c] # "start" => pc[b] = "done"
  BY <1>0 DEF BarriersApart, Progress
<1>5. BarrierAt(more, gone, b, r)'
  <2>1. ASSUME pc[b] # "done"
        PROVE  ~Carries(queue'[r], "Close") /\ (rx'[r] # "open" => r \in gone)
    <3>1. ~(Push(c) /\ r = At(c) /\ ActionOf(c) = "Close")
      BY <1>0, <1>2, <1>4, <2>1 DEF Push, Step, ActionOf
    <3>2. QED
      BY <1>0, <1>2, <2>1, <3>1, PushedQueue DEF BarrierAt, Grows, Actions
  <2>2. ASSUME Active(b)
        PROVE  \A m \in before'[b] : ~Ahead(queue'[r], ActionOf(b), m)
    <3>1. before[b] \subseteq Messages /\ ActionOf(b) \in Actions
      BY DEF CommonTypeOK, BusTypeOK, ActionOf, Actions
    <3>2. QED
      BY <1>0, <1>1, <2>2, <3>1, PushedQueue DEF BarrierAt
  <2>3. pc'[b] # "start" /\ <<b, r>> \notin more =>
          pc'[b] # "done" /\ \A i \in DOMAIN Route[b] : i < pos'[b] => Route[b][i] # r
    BY <1>0, <1>1 DEF BarrierAt, Grows
  <2>4. QED
    BY <1>1, <2>1, <2>2, <2>3 DEF BarrierAt, Active
<1>6. ASSUME Op[b] = "flush"
      PROVE  FlushAt(flushing, more, b, r)'
  <2>1. FlushAt(flushing, clear, b, r) /\ (Visits(c, r) => Op[c] \notin {"flush", "idle"})
    BY <1>0, <1>3, <1>6
  <2>2. notify'[r].flushed = notify[r].flushed
    BY <1>0, <1>2, <2>1 DEF PollFlushed, Places, ControlOps
  <2>3. FlushDue(r)' <=> FlushDue(r)
    BY <1>2, <2>2 DEF FlushDue
  <2>4. Carries(queue'[r], "Flush") => Carries(queue[r], "Flush")
    <3>1. ~(Push(c) /\ r = At(c) /\ ActionOf(c) = "Flush")
      BY <1>0, <1>2, <2>1 DEF Push, Step, ActionOf, Places, ControlOps
    <3>2. QED
      BY <3>1, PushedQueue DEF Actions
  <2>5. pc'[b] = "start" =>
          /\ ~Carries(queue'[r], "Flush") /\ r \notin flushing /\ ~FlushDue(r)'
          /\ \A m \in Messages :
               at'[r][m] \in Unhandled => needFlush'[r] \/ (pc'[m] = "mark" /\ At(m)' = r)
    BY <1>1, <1>2, <2>1, <2>3, <2>4 DEF FlushAt
  <2>6. pc'[b] # "start" /\ <<b, r>> \notin more =>
          /\ needFlush'[r]
          /\ ~FlushDue(r)'
          /\ pc'[b] = "parked" /\ At(b)' = r => IsParked(notify'[r].flushed, b)
    BY <1>1, <1>2, <2>1, <2>2, <2>3 DEF FlushAt, Grows
  <2>7. QED
    BY <2>5, <2>6 DEF FlushAt
<1>7. ASSUME Op[b] = "sync"
      PROVE  SyncAt(more, b, r)'
  BY <1>0, <1>1, <1>2, <1>7 DEF SyncAt, Grows, Active
<1>8. QED
  BY <1>5, <1>6, <1>7

\* A flush or sync goes on past a receiver it covers, and past the last one only
\* when it covers them all.
LEMMA OnwardOwn ==
  ASSUME CommonTypeOK, Visiting, Progress, NEW c \in Controls, NEW r \in Receivers,
         NEW clear, NEW more, NEW over, NEW gone,
         Op[c] \in {"flush", "sync"}, Visits(c, r), BarrierAt(clear, over, c, r),
         Grows(clear, more, over, gone), pc[c] # "start", Onward(c), <<c, At(c)>> \in more
  PROVE  <<c, r>> \notin more =>
           pc'[c] # "done" /\ \A i \in DOMAIN Route[c] : i < pos'[c] => Route[c][i] # r
<1>1. SUFFICES ASSUME <<c, r>> \notin more
               PROVE  pc'[c] # "done"
                      /\ \A i \in DOMAIN Route[c] : i < pos'[c] => Route[c][i] # r
  OBVIOUS
<1>2. /\ c \in Calls /\ pos[c] \in Nat \ {0} /\ Route[c] \in Seq(Receivers)
      /\ pos \in [Calls -> Nat \ {0}] /\ outcome \in [Calls -> Outcome]
  BY BusAssumption DEF Calls, CommonTypeOK, BusTypeOK
<1>3. DOMAIN Route[c] = 1..Len(Route[c]) /\ Len(Route[c]) \in Nat
  BY <1>2
<1>4. /\ pc[c] # "done" /\ Route[c][pos[c]] # r
      /\ \A i \in DOMAIN Route[c] : i < pos[c] => Route[c][i] # r
  BY <1>1 DEF BarrierAt, Grows, At
<1>5. \A i \in DOMAIN Route[c] : i < pos[c] + 1 => Route[c][i] # r
  <2>1. \A i \in DOMAIN Route[c] : i < pos[c] + 1 => i < pos[c] \/ i = pos[c]
    BY <1>2, <1>3
  <2>2. QED
    BY <1>4, <2>1
<1>6. ~IsLast(c)
  <2>1. SUFFICES ASSUME pos[c] = Len(Route[c])
                 PROVE  FALSE
    BY DEF IsLast
  <2>2. \A i \in DOMAIN Route[c] : i < pos[c] + 1
    BY <1>2, <1>3, <2>1
  <2>3. QED
    BY <1>5, <2>2 DEF Visits
<1>7. Entry(c) # "done" /\ pc \in [Calls -> CallPlace]
  BY DEF Entry, CommonTypeOK, BusTypeOK
<1>8. QED
  BY <1>2, <1>4, <1>5, <1>6, <1>7 DEF Onward, Visit, Goes

\* A flush or sync leaves a receiver behind only when it covers it.
LEMMA OwnCovered ==
  ASSUME CommonTypeOK, Visiting, NEW c \in Controls,
         NEW flushing, NEW syncing, NEW clear, NEW more, NEW over, NEW gone,
         CoverInv(flushing, syncing, clear, over), Grows(clear, more, over, gone),
         Op[c] \in {"flush", "sync"}, TimeOut(c) \/ ControlStep(c), pc[c] # "start", Onward(c)
  PROVE  <<c, At(c)>> \in more
<1>0. /\ c \in Calls /\ At(c) \in Receivers /\ pc \in [Calls -> CallPlace]
      /\ Barrier(c, At(c)) /\ pc[c] \in Places(Op[c]) /\ pc[c] # "done"
  BY AtReceiver, ControlEffects, ControlLocal DEF Barrier, CoverInv, Progress, Calls,
     CommonTypeOK, BusTypeOK
<1>1. PICK a \in Receivers : a = At(c)
  BY <1>0
<1>2. SUFFICES ASSUME <<c, a>> \notin more
               PROVE  FALSE
  BY <1>1
<1>3. /\ <<c, a>> \notin clear
      /\ rx[a] = "open"
      /\ Op[c] = "flush" => FlushAt(flushing, clear, c, a)
      /\ Op[c] = "sync" => SyncAt(clear, c, a)
  BY <1>0, <1>1, <1>2 DEF CoverInv, BarrierAt, Grows
<1>4. pc'[c] \in {Entry(c), "check", "done"}
  BY <1>0 DEF Onward, Visit, NextRound, Return, Goes
<1>5. ~TimeOut(c) /\ ~PushFails(c)
  BY <1>0, <1>1, <1>3 DEF TimeOut, PushFails
<1>6. CASE Op[c] = "flush"
  <2>1. needFlush[a] /\ ~FlushDue(a) /\ (pc[c] = "parked" => IsParked(notify[a].flushed, c))
    BY <1>0, <1>1, <1>3, <1>6 DEF FlushAt
  <2>2. Entry(c) = "check"
    BY <1>6 DEF Entry
  <2>3. ~Check(c)
    BY <1>0, <1>1, <1>4, <2>1, <2>2 DEF Check, Goes
  <2>4. ~PollFlushed(c)
    BY <1>0, <1>1, <1>4, <2>1, <2>2 DEF PollFlushed, Permitted, FlushDue, Goes
  <2>5. ~UnparkFlushed(c) /\ ~Push(c)
    BY <1>0, <1>1, <1>4, <1>6, <2>1, <2>2 DEF UnparkFlushed, Push, Step, Goes
  <2>6. QED
    BY <1>0, <1>5, <1>6, <2>3, <2>4, <2>5 DEF ControlStep, Places, Register, CheckIdle,
       CheckReady, Awake, Step
<1>7. CASE Op[c] = "sync"
  <2>1. pc[c] = "listen" => c \in listening[a].synchronized
    BY <1>1, <1>3, <1>7 DEF SyncAt
  <2>2. Entry(c) = "register"
    BY <1>7 DEF Entry
  <2>3. ~Register(c) /\ ~Push(c)
    BY <1>0, <1>4, <1>7, <2>2 DEF Register, Push, Step, Goes
  <2>4. ~Awake(c)
    BY <1>1, <1>7, <2>1 DEF Awake, Kind
  <2>5. QED
    BY <1>0, <1>5, <1>7, <2>3, <2>4 DEF ControlStep, Places, Check, PollFlushed, UnparkFlushed,
       CheckIdle, CheckReady
<1>8. QED
  BY <1>6, <1>7

\* A flush or sync takes its own steps.
LEMMA ControlOwn ==
  ASSUME BarriersApart, CommonTypeOK, Visiting, NEW c \in Controls,
         NEW flushing, NEW syncing, NEW clear, NEW more, NEW over, NEW gone,
         CoverInv(flushing, syncing, clear, over), Grows(clear, more, over, gone),
         StartControl(c) \/ StartClose(c) \/ TimeOut(c) \/ ControlStep(c), UNCHANGED loop,
         NEW r \in Receivers, Barrier(c, r)
  PROVE  /\ BarrierAt(more, gone, c, r)'
         /\ Op[c] = "flush" => FlushAt(flushing, more, c, r)'
         /\ Op[c] = "sync" => SyncAt(more, c, r)'
<1>0. /\ Progress /\ c \in Calls /\ pc \in [Calls -> CallPlace] /\ pc[c] \in Places(Op[c])
      /\ pos \in [Calls -> Nat \ {0}] /\ outcome \in [Calls -> Outcome]
      /\ BarrierAt(clear, over, c, r) /\ Visits(c, r) /\ Op[c] \in {"flush", "sync"}
      /\ Op[c] = "flush" => FlushAt(flushing, clear, c, r)
      /\ Op[c] = "sync" => SyncAt(clear, c, r)
      /\ At(c) \in Receivers /\ SyncTokens(syncing, r)
      /\ ActionOf(c) \in Actions /\ ActionOf(c) # "Close"
      /\ before \in [Controls -> SUBSET Messages]
  BY AtReceiver DEF CoverInv, Progress, Calls, Barrier, CommonTypeOK, BusTypeOK, ActionOf, Actions
<1>1. /\ pc[c] # "done" /\ pc'[c] # "start"
      /\ pc[c] = "start" <=> StartControl(c) \/ StartClose(c)
      /\ pc[c] # "start" => before'[c] = before[c]
      /\ pc[c] = "start" =>
           /\ before'[c] = {m \in Messages : outcome[m] = "ok"}
           /\ pc'[c] = Entry(c) /\ pos'[c] = 1 /\ outcome'[c] = "none"
      /\ pc[c] = "start" => \A d \in After[c] : pc[d] = "done"
  <2>1. Progress
    BY <1>0
  <2>2. StartControl(c) \/ StartClose(c) => \A d \in After[c] : pc[d] = "done"
    BY DEF StartControl, StartClose, MayStart
  <2>3. QED
    BY <2>1, <2>2, ControlLocal
<1>2. /\ UNCHANGED <<at, rx, events, needFlush>>
      /\ \/ notify'[r].flushed = notify[r].flushed
         \/ PollFlushed(c) /\ r = At(c)
      /\ \/ queue'[r] = queue[r]
         \/ Push(c)
  BY ControlEffects
<1>3. pc[c] # "start" /\ <<c, r>> \notin more => <<c, r>> \notin clear
  BY DEF Grows
<1>4. pc[c] = "start" => ~Carries(queue[r], ActionOf(c))
  <2>1. Op[c] = "sync" /\ pc[c] = "start" => ~SyncSent(syncing, r)
    BY <1>0, <1>1, NoSyncSent
  <2>2. QED
    BY <1>0, <2>1 DEF FlushAt, SyncSent, ActionOf
<1>5. BarrierAt(more, gone, c, r)'
  <2>1. ~Carries(queue'[r], "Close") /\ (rx'[r] # "open" => r \in gone)
    BY <1>0, <1>1, <1>2, PushedQueue DEF BarrierAt, Grows, Actions
  <2>2. \A m \in before'[c] : ~Ahead(queue'[r], ActionOf(c), m)
    <3>1. CASE pc[c] = "start"
      <4>1. queue'[r] = queue[r]
        BY <1>2, <3>1 DEF Push, Step
      <4>2. QED
        BY <1>4, <3>1, <4>1, AheadNone
    <3>2. CASE pc[c] # "start"
      <4>1. before'[c] \subseteq Messages /\ Active(c) /\ before'[c] = before[c]
        BY <1>0, <1>1, <3>2 DEF Active
      <4>2. QED
        BY <1>0, <4>1, PushedQueue DEF BarrierAt
    <3>3. QED
      BY <3>1, <3>2
  <2>3. <<c, r>> \notin more =>
          pc'[c] # "done" /\ \A i \in DOMAIN Route[c] : i < pos'[c] => Route[c][i] # r
    <3>1. CASE pc[c] = "start"
      <4>1. \A i \in DOMAIN Route[c] : ~(i < 1)
        BY <1>0, BusAssumption
      <4>2. Entry(c) # "done"
        BY <1>0 DEF Entry
      <4>3. QED
        BY <1>1, <3>1, <4>1, <4>2
    <3>2. CASE pc[c] # "start" /\ Onward(c)
      <4>1. TimeOut(c) \/ ControlStep(c)
        BY <1>1, <3>2
      <4>2. <<c, At(c)>> \in more
        BY <1>0, <3>2, <4>1, OwnCovered
      <4>3. QED
        BY <1>0, <3>2, <4>2, OnwardOwn
    <3>3. CASE pc[c] # "start" /\ ~Onward(c)
      <4>1. pos' = pos /\ pc'[c] # "done"
        BY <1>0, <1>1, <3>3 DEF TimeOut, ControlStep, Check, Register, Push, PushFails,
           PollFlushed, UnparkFlushed, CheckIdle, CheckReady, Awake, Step, Flushed, StaysLocal, Goes
      <4>2. QED
        BY <1>0, <1>3, <3>3, <4>1 DEF BarrierAt
    <3>4. QED
      BY <3>1, <3>2, <3>3
  <2>4. QED
    BY <2>1, <2>2, <2>3 DEF BarrierAt
<1>6. ASSUME Op[c] = "flush"
      PROVE  FlushAt(flushing, more, c, r)'
  <2>1. FlushAt(flushing, clear, c, r)
    BY <1>0, <1>6
  <2>2. SUFFICES ASSUME <<c, r>> \notin more
                 PROVE  /\ needFlush'[r]
                        /\ ~FlushDue(r)'
                        /\ pc'[c] = "parked" /\ At(c)' = r => IsParked(notify'[r].flushed, c)
    BY <1>1 DEF FlushAt
  <2>3. CASE pc[c] = "start"
    <3>1. PICK m \in before'[c] : at'[r][m] \in Unhandled
      BY <2>2 DEF Grows
    <3>2. m \in Messages /\ outcome[m] = "ok"
      BY <1>1, <2>3, <3>1
    <3>3. pc[m] = "done"
      BY <1>0, <3>2 DEF Progress, Calls
    <3>4. needFlush'[r]
      BY <1>2, <2>1, <2>3, <3>1, <3>2, <3>3 DEF FlushAt
    <3>5. notify'[r].flushed = notify[r].flushed
      BY <1>2, <2>3 DEF PollFlushed
    <3>6. pc'[c] = "check"
      BY <1>1, <1>6, <2>3 DEF Entry
    <3>7. QED
      BY <1>2, <2>1, <2>3, <3>4, <3>5, <3>6 DEF FlushAt, FlushDue
  <2>4. CASE pc[c] # "start"
    <3>1. needFlush[r] /\ ~FlushDue(r)
      BY <1>3, <2>1, <2>2, <2>4 DEF FlushAt
    <3>2. CASE PollFlushed(c) /\ r = At(c)
      <4>1. /\ notify[r].flushed.permit = FALSE
            /\ notify'[r].flushed = PollNotified(notify[r].flushed, c)
        <5>1. notify \in [Receivers -> [OneKinds -> NotifyState]]
          BY DEF CommonTypeOK, WrapperTypeOK
        <5>2. QED
          BY <3>1, <3>2, <5>1 DEF PollFlushed, Poll, OneKinds, NotifyState, FlushDue
      <4>2. notify[r].flushed.waiting \in Seq(Calls)
        BY DEF CommonTypeOK, WrapperTypeOK, NotifyState, OneKinds
      <4>3. /\ notify'[r].flushed.permit = FALSE
            /\ notify'[r].flushed.waiting = Append(notify[r].flushed.waiting, c)
        BY <4>1 DEF PollNotified
      <4>4. IsParked(notify'[r].flushed, c)
        <5>1. Carries(notify'[r].flushed.waiting, c)
          BY <1>0, <4>2, <4>3, CarriesAppend
        <5>2. QED
          BY <5>1 DEF Carries, IsParked
      <4>5. QED
        BY <1>2, <3>1, <4>3, <4>4 DEF FlushDue
    <3>3. CASE ~(PollFlushed(c) /\ r = At(c))
      <4>1. notify'[r].flushed = notify[r].flushed
        BY <1>2, <3>3
      <4>2. ~(pc'[c] = "parked" /\ At(c)' = r)
        <5>1. SUFFICES ASSUME pc'[c] = "parked", At(c)' = r
                       PROVE  FALSE
          OBVIOUS
        <5>2. ~Onward(c)
          BY <1>0, <1>6, <5>1 DEF Onward, Visit, NextRound, Return, Goes, Entry
        <5>3. PollFlushed(c)
          BY <1>0, <1>1, <1>6, <2>4, <5>1, <5>2 DEF TimeOut, ControlStep, Check, Register, Push,
             PushFails, UnparkFlushed, CheckIdle, CheckReady, Awake, Step, Flushed, Goes
        <5>4. pos' = pos
          BY <1>6, <5>2, <5>3 DEF PollFlushed, Flushed, StaysLocal
        <5>5. QED
          BY <3>3, <5>1, <5>3, <5>4 DEF At
      <4>3. QED
        BY <1>2, <3>1, <4>1, <4>2 DEF FlushDue
    <3>4. QED
      BY <3>2, <3>3
  <2>5. QED
    BY <2>3, <2>4
<1>7. ASSUME Op[c] = "sync"
      PROVE  SyncAt(more, c, r)'
  <2>1. SyncAt(clear, c, r)
    BY <1>0, <1>7
  <2>2. Entry(c) = "register" /\ Kind(c) = "synchronized" /\ ActionOf(c) = "Sync"
    BY <1>7 DEF Entry, Kind, ActionOf
  <2>3. Onward(c) => pc'[c] \in {"register", "check", "done"}
    BY <1>0, <2>2 DEF Onward, Visit, NextRound, Return, Goes
  <2>4. ASSUME pc'[c] = "push", At(c)' = r
        PROVE  c \in listening'[r].synchronized
    <3>1. Register(c)
      BY <1>0, <1>1, <1>7, <2>2, <2>3, <2>4 DEF TimeOut, ControlStep, Check, Push,
         PushFails, PollFlushed, UnparkFlushed, CheckIdle, CheckReady, Awake, Step, Flushed, Goes,
         Places
    <3>2. listening \in [Receivers -> [AllKinds -> SUBSET Calls]]
      BY DEF CommonTypeOK, WrapperTypeOK
    <3>3. At(c) = r /\ listening' = [listening EXCEPT ![r]["synchronized"] = @ \cup {c}]
      BY <2>2, <2>4, <3>1 DEF Register, Step, StaysLocal, At, Listen
    <3>4. QED
      BY <3>2, <3>3 DEF AllKinds
  <2>5. ASSUME pc'[c] = "listen", At(c)' = r
        PROVE  c \in listening'[r].synchronized
    <3>1. Push(c)
      BY <1>0, <1>1, <1>7, <2>2, <2>3, <2>5 DEF TimeOut, ControlStep, Check, Register,
         PushFails, PollFlushed, UnparkFlushed, CheckIdle, CheckReady, Awake, Step, Flushed, Goes,
         Places
    <3>2. pc[c] = "push" /\ At(c) = r /\ listening' = listening
      BY <2>5, <3>1 DEF Push, Step, StaysLocal, At, wrapperVars, notifyVars
    <3>3. QED
      BY <2>1, <3>2 DEF SyncAt
  <2>6. <<c, r>> \notin more => ~Carries(events'[r], "Synchronized")
    <3>1. CASE pc[c] = "start"
      BY <1>0, <1>1, <1>2, <1>7, <3>1, NoSyncSent DEF SyncSent
    <3>2. CASE pc[c] # "start"
      BY <1>1, <1>2, <1>3, <2>1, <3>2 DEF SyncAt, Active
    <3>3. QED
      BY <3>1, <3>2
  <2>7. QED
    BY <2>4, <2>5, <2>6 DEF SyncAt
<1>8. QED
  BY <1>5, <1>6, <1>7

LEMMA ControlCover ==
  ASSUME BarriersApart, CommonTypeOK, Visiting, NEW c \in Controls,
         NEW flushing, NEW syncing, NEW clear, NEW more, NEW over, NEW gone,
         CoverInv(flushing, syncing, clear, over), Grows(clear, more, over, gone),
         StartControl(c) \/ StartClose(c) \/ TimeOut(c) \/ ControlStep(c), UNCHANGED loop
  PROVE  CoverInv(flushing, syncing, more, gone)'
<1>1. Progress'
  BY ControlProgress DEF CoverInv
<1>2. \A r \in Receivers : InitFirst(r)' /\ SyncTokens(syncing, r)'
  BY ControlTokens
<1>3. ASSUME NEW b \in Controls, NEW r \in Receivers, Barrier(b, r)
      PROVE  /\ BarrierAt(more, gone, b, r)'
             /\ Op[b] = "flush" => FlushAt(flushing, more, b, r)'
             /\ Op[b] = "sync" => SyncAt(more, b, r)'
  BY <1>3, ControlOthers, ControlOwn
<1>4. QED
  BY <1>1, <1>2, <1>3 DEF CoverInv

\* What the event loop of s takes, clears and notifies.
LEMMA LoopEffects ==
  ASSUME CommonTypeOK, NEW s \in Receivers, LoopStep(s), NEW r \in Receivers
  PROVE  /\ UNCHANGED <<queue, rx>>
         /\ \/ events'[r] = events[r]
            \/ events[r] # <<>> /\ events'[r] = Tail(events[r])
            \/ events'[r] = <<>>
         /\ \/ listening'[r].synchronized = listening[r].synchronized
            \/ /\ events[r] # <<>> /\ Head(events[r]) = "Synchronized"
               /\ events'[r] = Tail(events[r])
         /\ ~FlushDue(r) => /\ ~FlushDue(r)'
                            /\ needFlush'[r] = needFlush[r]
                            /\ notify'[r].flushed = notify[r].flushed
<1>0. /\ events \in [Receivers -> Seq(Messages \cup Signals)]
      /\ listening \in [Receivers -> [AllKinds -> SUBSET Calls]]
      /\ needFlush \in [Receivers -> BOOLEAN]
      /\ notify \in [Receivers -> [OneKinds -> NotifyState]]
      /\ loop \in [Receivers -> LoopPlace]
  BY DEF CommonTypeOK, MailTypeOK, WrapperTypeOK
<1>1. UNCHANGED <<queue, rx>>
  BY DEF LoopStep, OnResponse, Deliver, DeliverPanics, NotifyIdle, NotifyResponse,
     OnFlushed, NotifyFlushed, OnReady, SetReady, OnSynchronized, EndLoop, TakeEvent,
     mailVars
<1>2. ASSUME NEW x, TakeEvent(s, x)
      PROVE  /\ \/ events'[r] = events[r]
                \/ /\ r = s /\ events[r] # <<>> /\ Head(events[r]) = x
                   /\ events'[r] = Tail(events[r])
             /\ Carries(events[s], x)
             /\ \A y : Carries(events'[r], y) => Carries(events[r], y)
  <2>1. events[s] # <<>> /\ Head(events[s]) = x /\ events' = [events EXCEPT ![s] = Tail(@)]
    BY <1>2 DEF TakeEvent
  <2>2. events[s] \in Seq(Messages \cup Signals) /\ events[r] \in Seq(Messages \cup Signals)
    BY <1>0
  <2>3. Carries(events[s], x)
    <3>1. 1 \in DOMAIN events[s] /\ events[s][1] = x
      BY <2>1, <2>2
    <3>2. QED
      BY <3>1 DEF Carries
  <2>4. CASE r = s
    BY <1>0, <2>1, <2>2, <2>3, <2>4, CarriesTail
  <2>5. CASE r # s
    BY <1>0, <2>1, <2>3, <2>5
  <2>6. QED
    BY <2>4, <2>5
<1>3. /\ \/ events'[r] = events[r]
         \/ events[r] # <<>> /\ events'[r] = Tail(events[r])
         \/ events'[r] = <<>>
      /\ \A y : Carries(events'[r], y) => Carries(events[r], y)
  <2>1. CASE \E x : TakeEvent(s, x)
    BY <1>2, <2>1
  <2>2. ASSUME NEW c \in Messages, DeliverPanics(s, c)
        PROVE  events'[r] = events[r] \/ events'[r] = <<>>
    BY <1>0, <2>2 DEF DeliverPanics
  <2>3. CASE UNCHANGED events
    BY <2>3
  <2>4. QED
    BY <2>1, <2>2, <2>3, CarriesNone DEF LoopStep, OnResponse, Deliver, NotifyIdle,
       NotifyResponse, OnFlushed, NotifyFlushed, OnReady, SetReady, OnSynchronized, EndLoop,
       mailVars
<1>4. \/ listening'[r].synchronized = listening[r].synchronized
      \/ /\ events[r] # <<>> /\ Head(events[r]) = "Synchronized"
         /\ events'[r] = Tail(events[r])
  <2>1. CASE OnSynchronized(s)
    <3>1. TakeEvent(s, "Synchronized") /\ listening' = [listening EXCEPT ![s]["synchronized"] = {}]
      BY <2>1 DEF OnSynchronized, Wake
    <3>2. CASE r = s
      <4>1. /\ events[s] # <<>> /\ Head(events[s]) = "Synchronized"
            /\ events' = [events EXCEPT ![s] = Tail(@)]
        BY <3>1 DEF TakeEvent
      <4>2. QED
        BY <1>0, <3>2, <4>1
    <3>3. CASE r # s
      BY <1>0, <3>1, <3>3
    <3>4. QED
      BY <3>2, <3>3
  <2>2. CASE ~OnSynchronized(s)
    <3>1. UNCHANGED listening \/ \E k \in AllKinds \ {"synchronized"} : Wake(s, k)
      BY <2>2 DEF LoopStep, OnResponse, Deliver, DeliverPanics, NotifyIdle, NotifyResponse,
         OnFlushed, NotifyFlushed, OnReady, SetReady, EndLoop, notifyVars, AllKinds
    <3>2. ASSUME NEW k \in AllKinds \ {"synchronized"}, listening' = [listening EXCEPT ![s][k] = {}]
          PROVE  listening'[r].synchronized = listening[r].synchronized
      <4>1. listening[s] \in [AllKinds -> SUBSET Calls]
        BY <1>0
      <4>2. listening'[s]["synchronized"] = listening[s]["synchronized"]
        BY <1>0, <3>2, <4>1 DEF AllKinds
      <4>3. QED
        BY <1>0, <3>2, <4>2
    <3>3. QED
      BY <3>1, <3>2 DEF Wake
  <2>3. QED
    BY <2>1, <2>2
<1>5. ASSUME ~FlushDue(r)
      PROVE  /\ ~FlushDue(r)'
             /\ needFlush'[r] = needFlush[r]
             /\ notify'[r].flushed = notify[r].flushed
  <2>1. CASE OnFlushed(s)
    <3>1. r # s
      BY <1>2, <1>5, <2>1 DEF OnFlushed, FlushDue
    <3>2. loop'[r] = loop[r] /\ needFlush'[r] = needFlush[r] /\ notify' = notify
      BY <1>0, <2>1, <3>1 DEF OnFlushed, LoopGoes, notifyVars
    <3>3. QED
      BY <1>3, <1>5, <3>2 DEF FlushDue
  <2>2. CASE NotifyFlushed(s)
    <3>1. r # s
      BY <1>5, <2>2 DEF NotifyFlushed, LoopGoes, FlushDue
    <3>2. loop'[r] = loop[r] /\ needFlush'[r] = needFlush[r] /\ notify'[r] = notify[r]
      BY <1>0, <2>2, <3>1 DEF NotifyFlushed, LoopGoes, contextVars
    <3>3. QED
      BY <1>3, <1>5, <3>2 DEF FlushDue
  <2>3. CASE ~OnFlushed(s) /\ ~NotifyFlushed(s)
    <3>1. needFlush' = needFlush
      BY <2>3 DEF LoopStep, OnResponse, Deliver, DeliverPanics, NotifyIdle, NotifyResponse,
         OnReady, SetReady, OnSynchronized, EndLoop, contextVars
    <3>2. notify'[r].flushed = notify[r].flushed
      <4>1. CASE NotifyResponse(s)
        BY <1>0, <4>1 DEF NotifyResponse, OneKinds
      <4>2. CASE ~NotifyResponse(s)
        BY <2>3, <4>2 DEF LoopStep, OnResponse, Deliver, DeliverPanics, NotifyIdle,
           OnReady, SetReady, OnSynchronized, EndLoop, notifyVars
      <4>3. QED
        BY <4>1, <4>2
    <3>3. loop'[r] = "flushed" => loop[r] = "flushed"
      <4>1. loop' = loop \/ \E p \in LoopPlace \ {"flushed"} : loop' = [loop EXCEPT ![s] = p]
        BY <2>3 DEF LoopStep, OnResponse, Deliver, DeliverPanics, NotifyIdle, NotifyResponse,
           OnReady, SetReady, OnSynchronized, EndLoop, LoopGoes, LoopPlace
      <4>2. QED
        BY <1>0, <4>1
    <3>4. QED
      BY <1>3, <1>5, <3>1, <3>2, <3>3 DEF FlushDue
  <2>4. QED
    BY <2>1, <2>2, <2>3
<1>6. QED
  BY <1>1, <1>3, <1>4, <1>5

LEMMA LoopCover ==
  ASSUME BarriersApart, CommonTypeOK, Visiting, BusInv, NEW s \in Receivers,
         NEW flushing, NEW syncing, NEW clear, NEW more, NEW over, NEW gone,
         CoverInv(flushing, syncing, clear, over), Grows(clear, more, over, gone),
         LoopStep(s), UNCHANGED busVars
  PROVE  CoverInv(flushing, syncing, more, gone)'
<1>0. /\ events \in [Receivers -> Seq(Messages \cup Signals)]
      /\ UNCHANGED <<pc, pos, again, outcome, before>>
      /\ \A c \in Calls : At(c)' = At(c)
      /\ UNCHANGED <<queue, rx>>
  BY LoopEffects DEF CommonTypeOK, MailTypeOK, busVars, localVars, At
<1>1. Progress /\ Progress'
  BY <1>0 DEF CoverInv, Progress
<1>2. \A r \in Receivers, m \in Messages :
        /\ at'[r][m] \in Unhandled => at[r][m] \in Unhandled
        /\ at'[r][m] \in {"held", "running"} => at[r][m] \in {"held", "running"}
  BY LoopCopies DEF Unhandled
<1>3. ASSUME NEW r \in Receivers
      PROVE  /\ \A x : Carries(events'[r], x) => Carries(events[r], x)
             /\ Once(events[r], "Synchronized") => Once(events'[r], "Synchronized")
             /\ \/ listening'[r].synchronized = listening[r].synchronized
                \/ /\ Carries(events[r], "Synchronized")
                   /\ Once(events[r], "Synchronized") => ~Carries(events'[r], "Synchronized")
  <2>1. events[r] \in Seq(Messages \cup Signals)
    BY <1>0
  <2>2. /\ \/ events'[r] = events[r]
           \/ events[r] # <<>> /\ events'[r] = Tail(events[r])
           \/ events'[r] = <<>>
        /\ \/ listening'[r].synchronized = listening[r].synchronized
           \/ /\ events[r] # <<>> /\ Head(events[r]) = "Synchronized"
              /\ events'[r] = Tail(events[r])
    BY LoopEffects
  <2>3. events[r] # <<>> /\ Head(events[r]) = "Synchronized" => Carries(events[r], "Synchronized")
    BY <2>1, 1 \in DOMAIN events[r] \/ events[r] = <<>> DEF Carries
  <2>4. QED
    BY <2>1, <2>2, <2>3, CarriesTail, CarriesNone, OnceTail, OnceNone
<1>4. ASSUME NEW r \in Receivers
      PROVE  InitFirst(r)' /\ SyncTokens(syncing, r)'
  <2>1. InitFirst(r) /\ SyncTokens(syncing, r)
    BY DEF CoverInv
  <2>2. InitFirst(r)'
    BY <1>0, <1>2, <2>1 DEF InitFirst
  <2>3. SyncSent(syncing, r)' => \E c \in Controls : SyncWaits(c, r)'
    <3>1. SUFFICES ASSUME SyncSent(syncing, r)'
                   PROVE  \E c \in Controls : SyncWaits(c, r)'
      OBVIOUS
    <3>2. SyncSent(syncing, r)
      BY <1>0, <1>3, <3>1 DEF SyncSent
    <3>3. PICK c \in Controls : SyncWaits(c, r)
      BY <2>1, <3>2 DEF SyncTokens
    <3>4. listening'[r].synchronized = listening[r].synchronized
      BY <1>0, <1>3, <2>1, <3>1 DEF SyncTokens, SyncSent
    <3>5. SyncWaits(c, r)'
      BY <1>0, <3>3, <3>4 DEF SyncWaits, Calls
    <3>6. QED
      BY <3>5
  <2>4. SyncTokens(syncing, r)'
    BY <1>0, <1>3, <2>1, <2>3 DEF SyncTokens
  <2>5. QED
    BY <2>2, <2>4
<1>5. ASSUME NEW b \in Controls, NEW r \in Receivers, Barrier(b, r)
      PROVE  BarrierAt(more, gone, b, r)'
  BY <1>0, <1>5 DEF CoverInv, BarrierAt, Grows, Active
<1>6. ASSUME NEW f \in Controls, NEW r \in Receivers, Barrier(f, r), Op[f] = "flush"
      PROVE  FlushAt(flushing, more, f, r)'
  <2>1. FlushAt(flushing, clear, f, r)
    BY <1>6 DEF CoverInv
  <2>2. ~FlushDue(r) => /\ ~FlushDue(r)'
                        /\ needFlush'[r] = needFlush[r]
                        /\ notify'[r].flushed = notify[r].flushed
    BY LoopEffects
  <2>3. ASSUME pc[f] = "start", NEW m \in Messages, at'[r][m] \in Unhandled
        PROVE  needFlush'[r] \/ (pc'[m] = "mark" /\ At(m)' = r)
    BY <1>0, <1>2, <2>1, <2>2, <2>3 DEF FlushAt, Calls
  <2>4. pc'[f] = "start" =>
          /\ ~Carries(queue'[r], "Flush") /\ r \notin flushing /\ ~FlushDue(r)'
          /\ \A m \in Messages :
               at'[r][m] \in Unhandled => needFlush'[r] \/ (pc'[m] = "mark" /\ At(m)' = r)
    BY <1>0, <2>1, <2>2, <2>3 DEF FlushAt
  <2>5. pc'[f] # "start" /\ <<f, r>> \notin more =>
          /\ needFlush'[r]
          /\ ~FlushDue(r)'
          /\ pc'[f] = "parked" /\ At(f)' = r => IsParked(notify'[r].flushed, f)
    BY <1>0, <2>1, <2>2 DEF FlushAt, Grows, Calls
  <2>6. QED
    BY <2>4, <2>5 DEF FlushAt
<1>7. ASSUME NEW c \in Controls, NEW r \in Receivers, Barrier(c, r), Op[c] = "sync"
      PROVE  SyncAt(more, c, r)'
  <2>1. SyncAt(clear, c, r) /\ SyncTokens(syncing, r) /\ At(c)' = At(c) /\ Visits(c, r)
    BY <1>0, <1>7 DEF CoverInv, Calls, Barrier
  <2>2. pc[c] = "push" => ~SyncSent(syncing, r)
    BY <1>1, <1>7, <2>1, NoSyncSent
  <2>3. pc'[c] = "push" /\ At(c)' = r => c \in listening'[r].synchronized
    BY <1>0, <1>3, <2>1, <2>2 DEF SyncAt, SyncSent
  <2>4. ASSUME Active(c), <<c, r>> \notin more
        PROVE  ~Carries(events[r], "Synchronized")
    BY <2>1, <2>4 DEF SyncAt, Grows, Active
  <2>5. pc'[c] = "listen" /\ At(c)' = r /\ <<c, r>> \notin more => c \in listening'[r].synchronized
    BY <1>0, <1>3, <2>1, <2>4 DEF SyncAt, Active, Grows
  <2>6. Active(c)' /\ <<c, r>> \notin more => ~Carries(events'[r], "Synchronized")
    BY <1>0, <1>3, <2>4 DEF Active
  <2>7. QED
    BY <2>3, <2>5, <2>6 DEF SyncAt
<1>8. QED
  BY <1>1, <1>4, <1>5, <1>6, <1>7 DEF CoverInv

\* What a step of the poller of r or its tasks may do.  It takes the head of the
\* queue, or loses the queue; it takes up a Flush or a Sync from there; it answers
\* one it has taken up, when the flushes and syncs that are made cover r; and r
\* ends by a Close, or when there is nothing left for any of them to cover.
Works(flushing, taking, syncing, meeting, more, gone, r) ==
  /\ \/ queue'[r] = queue[r]
     \/ queue[r] # <<>> /\ queue'[r] = Tail(queue[r])
     \/ queue'[r] = <<>>
  /\ r \in taking => r \in flushing \/ Carries(queue[r], "Flush")
  /\ r \in meeting =>
       \/ r \in syncing
       \/ queue[r] # <<>> /\ Head(queue[r]) = "Sync" /\ queue'[r] = Tail(queue[r])
  /\ \/ events'[r] = events[r]
     \/ \E x : /\ events'[r] = Append(events[r], x)
               /\ x = "Flushed" =>
                    /\ r \in flushing \/ Carries(queue[r], "Flush")
                    /\ \A b \in Controls :
                         Barrier(b, r) /\ Op[b] = "flush" /\ Active(b) => <<b, r>> \in more
               /\ x = "Synchronized" =>
                    /\ r \in syncing /\ r \notin meeting
                    /\ \A b \in Controls :
                         Barrier(b, r) /\ Op[b] = "sync" /\ Active(b) => <<b, r>> \in more
  /\ \A m \in Messages :
       /\ at'[r][m] \in Unhandled => at[r][m] \in Unhandled
       /\ at'[r][m] \in {"held", "running"} =>
            \/ at[r][m] \in {"held", "running"}
            \/ queue[r] # <<>> /\ queue'[r] = Tail(queue[r])
  /\ rx'[r] # "open" => rx[r] # "open" \/ Carries(queue[r], "Close") \/ r \in gone

LEMMA WorksQueue ==
  ASSUME CommonTypeOK, NEW r \in Receivers, NEW flushing, NEW taking, NEW syncing,
         NEW meeting, NEW more, NEW gone,
         Works(flushing, taking, syncing, meeting, more, gone, r)
  PROVE  /\ \A x : Carries(queue'[r], x) => Carries(queue[r], x)
         /\ \A x, y : Ahead(queue'[r], x, y) => Ahead(queue[r], x, y)
         /\ \A x : Once(queue[r], x) => Once(queue'[r], x)
         /\ \A x : FirstOnly(queue[r], x) => FirstOnly(queue'[r], x)
<1>1. queue[r] \in Seq(Messages \cup Actions)
  BY DEF CommonTypeOK, MailTypeOK
<1>2. CASE queue'[r] = queue[r]
  BY <1>2
<1>3. CASE queue[r] # <<>> /\ queue'[r] = Tail(queue[r])
  BY <1>1, <1>3, CarriesTail, AheadTail, OnceTail, FrontTail
<1>4. CASE queue'[r] = <<>>
  <2>1. DOMAIN queue'[r] = {}
    BY <1>4
  <2>2. QED
    BY <1>4, <2>1 DEF Carries, Ahead, Once, FirstOnly
<1>5. QED
  BY <1>2, <1>3, <1>4 DEF Works

LEMMA InsideCover ==
  ASSUME CommonTypeOK, Visiting,
         NEW flushing, NEW taking, NEW syncing, NEW meeting,
         NEW clear, NEW more, NEW over, NEW gone,
         CoverInv(flushing, syncing, clear, over), Grows(clear, more, over, gone),
         UNCHANGED <<wrapperVars, loop, busVars>>,
         \A r \in Receivers : Works(flushing, taking, syncing, meeting, more, gone, r)
  PROVE  /\ Progress'
         /\ \A r \in Receivers : InitFirst(r)' /\ SyncTokens(meeting, r)'
         /\ \A b \in Controls, r \in Receivers : Barrier(b, r) =>
              /\ BarrierAt(more, gone, b, r)'
              /\ Op[b] = "flush" => FlushAt(taking, more, b, r)'
              /\ Op[b] = "sync" => SyncAt(more, b, r)'
<1>0. /\ events \in [Receivers -> Seq(Messages \cup Signals)]
      /\ queue \in [Receivers -> Seq(Messages \cup Actions)]
      /\ UNCHANGED <<pc, pos, again, outcome, before, needFlush, notify, listening, loop>>
      /\ \A c \in Calls : At(c)' = At(c)
  BY DEF CommonTypeOK, MailTypeOK, busVars, localVars, At, wrapperVars, contextVars, notifyVars
<1>1. Progress /\ Progress'
  BY <1>0 DEF CoverInv, Progress
<1>2. ASSUME NEW r \in Receivers
      PROVE  /\ \A x : Carries(queue'[r], x) => Carries(queue[r], x)
             /\ \A x, y : Ahead(queue'[r], x, y) => Ahead(queue[r], x, y)
             /\ \A x : Once(queue[r], x) => Once(queue'[r], x)
             /\ \A x : FirstOnly(queue[r], x) => FirstOnly(queue'[r], x)
  BY WorksQueue
<1>3. ASSUME NEW r \in Receivers
      PROVE  /\ Carries(events'[r], "Flushed") =>
                  \/ Carries(events[r], "Flushed")
                  \/ /\ r \in flushing \/ Carries(queue[r], "Flush")
                     /\ \A b \in Controls :
                          Barrier(b, r) /\ Op[b] = "flush" /\ Active(b) => <<b, r>> \in more
             /\ Carries(events'[r], "Synchronized") =>
                  \/ Carries(events[r], "Synchronized")
                  \/ /\ r \in syncing /\ r \notin meeting
                     /\ \A b \in Controls :
                          Barrier(b, r) /\ Op[b] = "sync" /\ Active(b) => <<b, r>> \in more
             /\ Once(events[r], "Synchronized") =>
                  \/ Once(events'[r], "Synchronized")
                  \/ r \in syncing /\ Carries(events[r], "Synchronized")
  <2>1. CASE events'[r] = events[r]
    BY <2>1
  <2>2. CASE events'[r] # events[r]
    <3>1. PICK x : /\ events'[r] = Append(events[r], x)
                   /\ x = "Flushed" =>
                        /\ r \in flushing \/ Carries(queue[r], "Flush")
                        /\ \A b \in Controls :
                          Barrier(b, r) /\ Op[b] = "flush" /\ Active(b) => <<b, r>> \in more
                   /\ x = "Synchronized" =>
                        /\ r \in syncing /\ r \notin meeting
                        /\ \A b \in Controls :
                          Barrier(b, r) /\ Op[b] = "sync" /\ Active(b) => <<b, r>> \in more
      BY <2>2 DEF Works
    <3>2. events[r] \in Seq(Messages \cup Signals)
      BY <1>0
    <3>3. /\ \A y : Carries(events'[r], y) <=> Carries(events[r], y) \/ y = x
          /\ (x = "Synchronized" => ~Carries(events[r], "Synchronized"))
                /\ Once(events[r], "Synchronized") => Once(events'[r], "Synchronized")
      BY <3>1, <3>2, CarriesAppend, OnceAppend
    <3>4. QED
      BY <3>1, <3>3
  <2>3. QED
    BY <2>1, <2>2
<1>4. ASSUME NEW r \in Receivers
      PROVE  InitFirst(r)' /\ SyncTokens(meeting, r)'
  <2>1. InitFirst(r) /\ SyncTokens(syncing, r)
    BY DEF CoverInv
  <2>2. InitFirst(r)'
    <3>1. FirstOnly(queue[r], "Init") /\ queue[r] \in Seq(Messages \cup Actions)
      BY <1>0, <2>1 DEF InitFirst
    <3>2. queue[r] # <<>> /\ queue'[r] = Tail(queue[r]) => ~Carries(queue'[r], "Init")
      BY <3>1, FrontTail
    <3>3. ASSUME Carries(queue'[r], "Init"), NEW m \in Messages
          PROVE  at'[r][m] \notin {"held", "running"}
      <4>1. at[r][m] \notin {"held", "running"}
        BY <1>2, <2>1, <3>3 DEF InitFirst
      <4>2. QED
        BY <3>2, <3>3, <4>1 DEF Works
    <3>4. QED
      BY <1>2, <3>1, <3>3 DEF InitFirst
  <2>3. r \in meeting => r \in syncing \/ (Carries(queue[r], "Sync") /\ ~Carries(queue'[r], "Sync"))
    <3>1. SUFFICES ASSUME queue[r] # <<>>, Head(queue[r]) = "Sync", queue'[r] = Tail(queue[r])
                   PROVE  Carries(queue[r], "Sync") /\ ~Carries(queue'[r], "Sync")
      BY DEF Works
    <3>2. queue[r] \in Seq(Messages \cup Actions)
      BY <1>0
    <3>3. 1 \in DOMAIN queue[r] /\ queue[r][1] = "Sync"
      BY <3>1, <3>2
    <3>4. ~Carries(queue'[r], "Sync")
      BY <2>1, <3>1, <3>2, OnceTail DEF SyncTokens
    <3>5. QED
      BY <3>3, <3>4 DEF Carries
  <2>4. SyncSent(meeting, r)' => SyncSent(syncing, r)
    BY <1>2, <1>3, <2>3 DEF SyncSent
  <2>5. \A c \in Controls : SyncWaits(c, r) => SyncWaits(c, r)'
    BY <1>0 DEF SyncWaits, Calls
  <2>6. Once(queue'[r], "Sync") /\ Once(events'[r], "Synchronized")
    BY <1>2, <1>3, <2>1 DEF SyncTokens
  <2>7. Carries(queue'[r], "Sync") => r \notin meeting /\ ~Carries(events'[r], "Synchronized")
    BY <1>2, <1>3, <2>1, <2>3 DEF SyncTokens
  <2>8. r \in meeting => ~Carries(events'[r], "Synchronized")
    BY <1>2, <1>3, <2>1, <2>3 DEF SyncTokens
  <2>9. SyncTokens(meeting, r)'
    BY <2>1, <2>4, <2>5, <2>6, <2>7, <2>8 DEF SyncTokens
  <2>10. QED
    BY <2>2, <2>9
<1>5. ASSUME NEW b \in Controls, NEW r \in Receivers, Barrier(b, r)
      PROVE  BarrierAt(more, gone, b, r)'
  <2>1. BarrierAt(clear, over, b, r) /\ Works(flushing, taking, syncing, meeting, more, gone, r)
    BY <1>5 DEF CoverInv
  <2>2. pc'[b] # "done" => ~Carries(queue'[r], "Close") /\ (rx'[r] # "open" => r \in gone)
    BY <1>0, <1>2, <2>1 DEF BarrierAt, Works, Grows
  <2>3. QED
    BY <1>0, <1>2, <2>1, <2>2 DEF BarrierAt, Active, Grows
<1>6. ASSUME NEW f \in Controls, NEW r \in Receivers, Barrier(f, r), Op[f] = "flush"
      PROVE  FlushAt(taking, more, f, r)'
  <2>1. FlushAt(flushing, clear, f, r) /\ Works(flushing, taking, syncing, meeting, more, gone, r)
    BY <1>6 DEF CoverInv
  <2>2. ASSUME pc[f] = "start"
        PROVE  /\ ~Carries(queue'[r], "Flush") /\ r \notin taking /\ ~FlushDue(r)'
               /\ \A m \in Messages :
                    at'[r][m] \in Unhandled => needFlush'[r] \/ (pc'[m] = "mark" /\ At(m)' = r)
    <3>1. ~Carries(queue[r], "Flush") /\ r \notin flushing /\ ~FlushDue(r)
      BY <2>1, <2>2 DEF FlushAt
    <3>2. ~Carries(queue'[r], "Flush") /\ r \notin taking
      BY <1>2, <2>1, <3>1 DEF Works
    <3>3. ~FlushDue(r)'
      BY <1>0, <1>3, <3>1 DEF FlushDue
    <3>4. QED
      BY <1>0, <2>1, <2>2, <3>2, <3>3 DEF FlushAt, Works, Calls
  <2>3. ASSUME pc[f] # "start", <<f, r>> \notin more
        PROVE  /\ needFlush'[r]
               /\ ~FlushDue(r)'
               /\ pc'[f] = "parked" /\ At(f)' = r => IsParked(notify'[r].flushed, f)
    <3>1. /\ needFlush[r] /\ ~FlushDue(r)
          /\ pc[f] = "parked" /\ At(f) = r => IsParked(notify[r].flushed, f)
          /\ pc[f] # "done"
      BY <1>6, <2>1, <2>3 DEF CoverInv, BarrierAt, FlushAt, Grows
    <3>2. ~Carries(events'[r], "Flushed")
      BY <1>3, <1>6, <2>3, <3>1 DEF FlushDue, Active
    <3>3. QED
      BY <1>0, <2>3, <3>1, <3>2 DEF FlushDue, Calls
  <2>4. QED
    BY <1>0, <2>2, <2>3 DEF FlushAt
<1>7. ASSUME NEW c \in Controls, NEW r \in Receivers, Barrier(c, r), Op[c] = "sync"
      PROVE  SyncAt(more, c, r)'
  <2>1. SyncAt(clear, c, r) /\ At(c)' = At(c)
    BY <1>0, <1>7 DEF CoverInv, Calls
  <2>2. Active(c)' /\ <<c, r>> \notin more => ~Carries(events'[r], "Synchronized")
    BY <1>0, <1>3, <1>7, <2>1 DEF SyncAt, Grows, Active
  <2>3. QED
    BY <1>0, <2>1, <2>2 DEF SyncAt, Grows
<1>8. QED
  BY <1>1, <1>4, <1>5, <1>6, <1>7

\* Before any call there is nothing to cover.
LEMMA InitCover ==
  ASSUME MailInit, WrapperInit, BusInit, NEW clear, NEW over
  PROVE  CoverInv({}, {}, clear, over)
<1>1. Progress
  BY BusAssumption DEF BusInit, Progress, Places, ControlOps, Calls
<1>2. /\ \A r \in Receivers : /\ queue[r] = <<"Init">> /\ events[r] = <<>> /\ rx[r] = "open"
                              /\ ~notify[r].flushed.permit /\ loop[r] = "next"
      /\ \A r \in Receivers, m \in Messages : at[r][m] = "none"
  BY DEF MailInit, WrapperInit, Quiet, OneKinds
<1>3. \A r \in Receivers : /\ \A x : Carries(queue[r], x) => x = "Init"
                           /\ \A x : ~Carries(events[r], x)
                           /\ FirstOnly(queue[r], "Init")
                           /\ \A x : x # "Init" => Once(queue[r], x)
                           /\ \A x : Once(events[r], x)
  BY <1>2 DEF Carries, FirstOnly, Once
<1>4. ASSUME NEW r \in Receivers
      PROVE  InitFirst(r) /\ SyncTokens({}, r)
  <2>1. InitFirst(r)
    BY <1>2, <1>3 DEF InitFirst
  <2>2. ~SyncSent({}, r)
    BY <1>3 DEF SyncSent
  <2>3. QED
    BY <1>3, <2>1, <2>2 DEF SyncTokens, SyncSent
<1>5. ASSUME NEW b \in Controls, NEW r \in Receivers, Barrier(b, r)
      PROVE  /\ BarrierAt(clear, over, b, r)
             /\ Op[b] = "flush" => FlushAt({}, clear, b, r)
             /\ Op[b] = "sync" => SyncAt(clear, b, r)
  <2>1. pc[b] = "start"
    BY DEF BusInit, Calls
  <2>2. ~FlushDue(r)
    BY <1>2, <1>3 DEF FlushDue
  <2>3. QED
    BY <1>2, <1>3, <2>1, <2>2 DEF BarrierAt, FlushAt, SyncAt, Active, Unhandled
<1>6. QED
  BY <1>1, <1>4, <1>5 DEF CoverInv

---------------------------------------------------------------------------
(* What the proofs of refinement share. *)

LEMMA Prepended ==
  ASSUME NEW X, NEW x \in X, NEW q \in Seq(X)
  PROVE  /\ <<x>> \o q \in Seq(X) /\ <<x>> \o q # <<>>
         /\ Head(<<x>> \o q) = x /\ Tail(<<x>> \o q) = q
         /\ <<>> \o q = q
         /\ q # <<>> => <<Head(q)>> \o Tail(q) = q
<1>1. <<x>> \in Seq(X) /\ Len(<<x>>) = 1
  OBVIOUS
<1>2. /\ <<x>> \o q \in Seq(X) /\ Len(<<x>> \o q) = 1 + Len(q) /\ <<x>> \o q # <<>>
      /\ \A i \in 1..(1 + Len(q)) : (<<x>> \o q)[i] = IF i <= 1 THEN <<x>>[i] ELSE q[i - 1]
  BY <1>1, ConcatProperties
<1>3. Head(<<x>> \o q) = x
  BY <1>2
<1>4. Tail(<<x>> \o q) = q
  <2>1. /\ Tail(<<x>> \o q) \in Seq(X) /\ Len(Tail(<<x>> \o q)) = Len(q)
        /\ \A i \in 1..Len(q) : Tail(<<x>> \o q)[i] = (<<x>> \o q)[i + 1]
    BY <1>2, HeadTailProperties
  <2>2. \A i \in 1..Len(q) : (<<x>> \o q)[i + 1] = q[i]
    BY <1>2
  <2>3. QED
    BY <2>1, <2>2, SeqEqual
<1>5. <<>> \o q = q
  BY ConcatEmptySeq
<1>6. ASSUME q # <<>>
      PROVE  <<Head(q)>> \o Tail(q) = q
  <2>1. /\ Head(q) \in X /\ Tail(q) \in Seq(X) /\ Len(Tail(q)) = Len(q) - 1
        /\ \A i \in 1..Len(Tail(q)) : Tail(q)[i] = q[i + 1]
    BY <1>6, HeadTailProperties
  <2>2. /\ <<Head(q)>> \in Seq(X) /\ Len(<<Head(q)>>) = 1 /\ Len(q) \in Nat
        /\ <<Head(q)>>[1] = q[1]
    BY <2>1
  <2>3. /\ <<Head(q)>> \o Tail(q) \in Seq(X)
        /\ Len(<<Head(q)>> \o Tail(q)) = Len(q)
        /\ \A i \in 1..Len(q) : (<<Head(q)>> \o Tail(q))[i] =
              IF i <= 1 THEN <<Head(q)>>[i] ELSE Tail(q)[i - 1]
    BY <2>1, <2>2, ConcatProperties
  <2>4. \A i \in 1..Len(q) : (<<Head(q)>> \o Tail(q))[i] = q[i]
    BY <2>1, <2>2, <2>3
  <2>5. QED
    BY <2>3, <2>4, SeqEqual
<1>7. QED
  BY <1>2, <1>3, <1>4, <1>5, <1>6

\* Where the copy is that a call is about to move.
LEMMA CopyAt ==
  ASSUME Visiting, RouteInv, NEW c \in Messages
  PROVE  /\ At(c) \in Receivers
         /\ Reserve(c) \/ Bump(c) => at[At(c)][c] = "none"
         /\ TryReserve(c) => at[At(c)][c] = "none"
         /\ Send(c) => at[At(c)][c] = "permit"
<1>1. /\ c \in Calls /\ At(c) \in Receivers
      /\ Route[c] \in Seq(Receivers) /\ pos[c] \in DOMAIN Route[c]
  BY AtReceiver, BusAssumption DEF Calls, Visiting
<1>2. pos[c] \in Nat
  BY <1>1
<1>3. Underway(c, pos[c]) /\ Copy(c, pos[c]) = at[At(c)][c]
  BY <1>1 DEF RouteInv, Copy, At
<1>4. pc[c] \in {"reserve", "parked", "bump", "tryreserve"} => at[At(c)][c] = "none"
  BY <1>2, <1>3 DEF Underway
<1>5. pc[c] = "send" => at[At(c)][c] = "permit"
  BY <1>2, <1>3 DEF Underway
<1>6. QED
  BY <1>1, <1>4, <1>5 DEF Reserve, Reserving, Bump, TryReserve, Send, Step

\* An event loop holds its end of the channel until it ends.
LoopInv == \A r \in Receivers : srx[r] <=> loop[r] # "ended"

\* A call leaves the event loop's end of the channel alone.
LEMMA CallFlag ==
  ASSUME NEW c \in Calls,
         \/ c \in Messages /\ (StartSend(c) \/ StartRequest(c) \/ Abandon(c) \/ MessageStep(c))
         \/ c \in Controls /\ (StartControl(c) \/ StartClose(c) \/ TimeOut(c) \/ ControlStep(c))
  PROVE  UNCHANGED srx
<1>1. c \in Messages /\ (StartSend(c) \/ StartRequest(c) \/ MessageStep(c) \/ Abandon(c))
        => UNCHANGED srx
  BY DEF StartSend, StartRequest, Abandon, MessageStep, Reserve, PollReserve,
     TryReserve, DropPermit, Bump, Send, SendMessage, Mark, Answered, mailVars
<1>2. c \in Controls /\ (StartControl(c) \/ StartClose(c) \/ TimeOut(c) \/ ControlStep(c))
        => UNCHANGED srx
  BY DEF StartControl, StartClose, TimeOut, ControlStep, Check, Register, Push,
     PushFails, PollFlushed, UnparkFlushed, CheckIdle, CheckReady, Awake,
     SendAction, mailVars
<1>3. QED
  BY <1>1, <1>2

\* Only the event loop moves itself and drops its end of the channel.
LEMMA LoopFlag ==
  ASSUME CommonTypeOK, LoopInv, NEW r \in Receivers, LoopStep(r)
  PROVE  LoopInv'
<1>1. loop \in [Receivers -> LoopPlace] /\ srx \in [Receivers -> BOOLEAN]
  BY DEF CommonTypeOK, WrapperTypeOK, MailTypeOK
<1>2. CASE EndLoop(r) \/ \E c \in Messages : DeliverPanics(r, c)
  <2>1. loop' = [loop EXCEPT ![r] = "ended"] /\ srx' = [srx EXCEPT ![r] = FALSE]
    BY <1>2 DEF EndLoop, DeliverPanics, LoopGoes
  <2>2. QED
    BY <1>1, <2>1 DEF LoopInv
<1>3. CASE /\ UNCHANGED srx
           /\ \/ UNCHANGED loop
              \/ \E to \in LoopPlace \ {"ended"} :
                   loop[r] # "ended" /\ loop' = [loop EXCEPT ![r] = to]
  BY <1>1, <1>3 DEF LoopInv
<1>4. QED
  BY <1>2, <1>3 DEF LoopStep, OnResponse, Deliver, NotifyIdle, NotifyResponse,
     OnFlushed, NotifyFlushed, OnReady, SetReady, OnSynchronized, LoopGoes,
     TakeEvent, LoopPlace, mailVars
=============================================================================
