------------------------- MODULE UnorderedBusProofs -------------------------
(***************************************************************************)
(* What UnorderedBus keeps for any number of calls and receivers: the      *)
(* pollers' and tasks' steps keep the types and the invariant of every     *)
(* bus (module BusProofs), and SemaphoreInv with it; what close, flush and *)
(* sync promise follows, and that no call waits for a slot in vain.        *)
(***************************************************************************)
EXTENDS UnorderedBus, BusProofs

LEMMA TypeParts == TypeOK <=> CommonTypeOK /\ PollTypeOK
BY DEF TypeOK, CommonTypeOK

---------------------------------------------------------------------------
(* The poller and its tasks. *)

LEMMA PollerPanicsType ==
  ASSUME TypeOK, NEW r \in Receivers, PollerPanics(r)
  PROVE  /\ at' \in [Receivers -> [Messages -> Place]]
         /\ queue' \in [Receivers -> Seq(Messages \cup Actions)]
         /\ rx' \in [Receivers -> {"open", "closed", "gone"}]
         /\ poller' \in [Receivers -> PollerPlace]
<1>1. at' \in [Receivers -> [Messages -> Place]]
  BY DEF PollerPanics, TypeOK, CommonTypeOK, MailTypeOK, Place
<1>2. queue' \in [Receivers -> Seq(Messages \cup Actions)]
  BY <<>> \in Seq(Messages \cup Actions) DEF PollerPanics, TypeOK, CommonTypeOK, MailTypeOK
<1>3. QED
  BY <1>1, <1>2 DEF PollerPanics, TypeOK, CommonTypeOK, MailTypeOK, PollTypeOK, PollerPlace

LEMMA PollerEmitsType ==
  ASSUME TypeOK, NEW r \in Receivers, NEW x \in Signals, PollerEmits(r, x),
         srx[r] => queue' \in [Receivers -> Seq(Messages \cup Actions)],
         UNCHANGED srx
  PROVE  MailTypeOK' /\ poller' \in [Receivers -> PollerPlace]
<1>1. CASE srx[r]
  <2>1. events' \in [Receivers -> Seq(Messages \cup Signals)]
    BY <1>1, AppendEventType DEF PollerEmits, TypeOK, CommonTypeOK
  <2>2. QED
    BY <1>1, <2>1 DEF PollerEmits, TypeOK, CommonTypeOK, MailTypeOK, PollTypeOK, PollerPlace
<1>2. CASE ~srx[r]
  BY <1>2, PollerPanicsType DEF PollerEmits, TypeOK, CommonTypeOK, MailTypeOK
<1>3. QED
  BY <1>1, <1>2

LEMMA PollerGoesType ==
  ASSUME PollTypeOK, NEW r \in Receivers, NEW from, NEW to \in PollerPlace,
         PollerGoes(r, from, to)
  PROVE  poller' \in [Receivers -> PollerPlace]
BY DEF PollTypeOK, PollerGoes

LEMMA PollerType ==
  ASSUME TypeOK, NEW r \in Receivers, PollerStep(r)
  PROVE  MailTypeOK' /\ PollTypeOK'
<1>a. sem[r] \in Nat /\ 0 \in Nat /\ MaxParallel[r] \in Nat
  BY BufferUnorderedAssumption DEF TypeOK, CommonTypeOK, PollTypeOK
<1>1. CASE PollRequest(r)
  <2>1. MailTypeOK'
    BY <1>1, MoveType, ReceiveType DEF PollRequest, TypeOK, CommonTypeOK, MailTypeOK, Place
  <2>2. QED
    BY <1>1, <2>1, PollerGoesType DEF PollRequest, TypeOK, CommonTypeOK, PollTypeOK, PollerPlace
<1>2. CASE Spawn(r)
  <2>1. MailTypeOK'
    BY <1>2, MoveType DEF Spawn, TypeOK, CommonTypeOK, MailTypeOK, Place
  <2>2. poller' \in [Receivers -> PollerPlace]
    BY <1>2, PollerGoesType DEF Spawn, TypeOK, CommonTypeOK, PollerPlace
  <2>3. sem[r] - 1 \in Nat
    BY <1>2, <1>a DEF Spawn
  <2>4. QED
    BY <1>2, <2>1, <2>2, <2>3 DEF Spawn, TypeOK, CommonTypeOK, PollTypeOK
<1>3. CASE PollInitAction(r)
  <2>1. MailTypeOK' /\ poller' \in [Receivers -> PollerPlace]
    BY <1>3, PollerEmitsType, ReceiveType DEF PollInitAction, TypeOK, CommonTypeOK, Signals
  <2>2. QED
    BY <1>3, <2>1 DEF PollInitAction, TypeOK, CommonTypeOK, PollTypeOK
<1>4. CASE PollClose(r)
  <2>1. MailTypeOK'
    BY <1>4, ReceiveType DEF PollClose, TypeOK, CommonTypeOK, MailTypeOK
  <2>2. QED
    BY <1>4, <2>1 DEF PollClose, TypeOK, CommonTypeOK, PollTypeOK, pollVars
<1>5. CASE PollFlush(r)
  <2>1. MailTypeOK'
    BY <1>5, ReceiveType DEF PollFlush, TypeOK, CommonTypeOK, MailTypeOK
  <2>2. QED
    BY <1>5, <2>1, PollerGoesType DEF PollFlush, TypeOK, CommonTypeOK, PollTypeOK, PollerPlace
<1>6. CASE FinishFlush(r)
  <2>1. MailTypeOK' /\ poller' \in [Receivers -> PollerPlace]
    BY <1>6, PollerEmitsType DEF FinishFlush, TypeOK, CommonTypeOK, MailTypeOK, Signals
  <2>2. QED
    BY <1>6, <2>1 DEF FinishFlush, TypeOK, CommonTypeOK, PollTypeOK
<1>7. CASE PollSync(r)
  <2>1. MailTypeOK'
    BY <1>7, ReceiveType DEF PollSync, TypeOK, CommonTypeOK, MailTypeOK
  <2>2. QED
    BY <1>7, <2>1, PollerGoesType DEF PollSync, TypeOK, CommonTypeOK, PollTypeOK, PollerPlace
<1>8. CASE StartSync(r)
  BY <1>8, <1>a, PollerGoesType
     DEF StartSync, TypeOK, CommonTypeOK, MailTypeOK, PollTypeOK, PollerPlace,
       mailVars
<1>9. CASE FinishSync(r)
  <2>1. MailTypeOK' /\ poller' \in [Receivers -> PollerPlace]
    BY <1>9, PollerEmitsType DEF FinishSync, TypeOK, CommonTypeOK, MailTypeOK, Signals
  <2>2. QED
    BY <1>9, <1>a, <2>1 DEF FinishSync, TypeOK, CommonTypeOK, PollTypeOK
<1>10. CASE EndPoller(r)
  <2>1. MailTypeOK'
    BY <1>10 DEF EndPoller, TypeOK, CommonTypeOK, MailTypeOK
  <2>2. QED
    BY <1>10, <2>1, PollerGoesType DEF EndPoller, TypeOK, CommonTypeOK, PollTypeOK, PollerPlace
<1>11. QED
  BY <1>1, <1>2, <1>3, <1>4, <1>5, <1>6, <1>7, <1>8, <1>9, <1>10 DEF PollerStep

LEMMA TaskType ==
  ASSUME TypeOK, NEW r \in Receivers, NEW c \in Messages,
         HandlerReturns(r, c) \/ Respond(r, c) \/ HandlerPanics(r, c)
  PROVE  MailTypeOK' /\ PollTypeOK'
<1>a. sem[r] + 1 \in Nat
  BY DEF TypeOK, CommonTypeOK, PollTypeOK
<1>1. CASE HandlerReturns(r, c)
  BY <1>1, <1>a, MoveType DEF HandlerReturns, TypeOK, CommonTypeOK, MailTypeOK, PollTypeOK, Place
<1>2. CASE Respond(r, c)
  BY <1>2, MoveType, AppendEventType
     DEF Respond, TypeOK, CommonTypeOK, MailTypeOK, PollTypeOK, Place, pollVars
<1>3. CASE HandlerPanics(r, c)
  BY <1>3, <1>a, MoveType DEF HandlerPanics, TypeOK, CommonTypeOK, MailTypeOK, PollTypeOK, Place
<1>4. QED
  BY <1>1, <1>2, <1>3

---------------------------------------------------------------------------
(* The system. *)

\* The initial states have the right types.
LEMMA InitType == Init => TypeOK /\ Visiting
<1> SUFFICES ASSUME Init PROVE TypeOK /\ Visiting
  OBVIOUS
<1>1. MailTypeOK
  BY DEF Init, MailInit, MailTypeOK, Place, Actions
<1>2. PollTypeOK
  BY BufferUnorderedAssumption DEF Init, PollInit, PollTypeOK, PollerPlace
<1>3. WrapperTypeOK
  BY DEF Init, WrapperInit, WrapperTypeOK, NotifyState, Quiet, LoopPlace
<1>4. Visiting
  <2>1. \A c \in Calls : 1 \in DOMAIN Route[c]
    BY BusAssumption
  <2>2. QED
    BY <2>1 DEF Init, BusInit, Visiting
<1>5. BusTypeOK
  <2>1. 1 \in 1..Fuse /\ 1 \in Nat \ {0}
    BY BusAssumption
  <2>2. QED
    BY <2>1 DEF Init, BusInit, BusTypeOK, CallPlace, Outcome
<1>6. QED
  BY <1>1, <1>2, <1>3, <1>4, <1>5 DEF TypeOK, CommonTypeOK

\* A step keeps the types, and keeps every call at a receiver of its route.
LEMMA StepType ==
  ASSUME TypeOK, Visiting, RouteInv, [Next]_vars
  PROVE  TypeOK' /\ Visiting'
<1>0. LocalOK /\ SharedOK
  BY DEF TypeOK, CommonTypeOK, BusTypeOK, LocalOK, SharedOK
<1>a. ASSUME UNCHANGED busVars
      PROVE  BusTypeOK' /\ Visiting'
  BY <1>a, <1>0 DEF busVars, localVars, sharedVars, LocalOK, SharedOK, BusTypeOK, Visiting
<1>b. ASSUME LocalOK', SharedOK'
      PROVE  BusTypeOK' /\ Visiting'
  BY <1>b DEF LocalOK, SharedOK, BusTypeOK
<1>c. ASSUME UNCHANGED pollVars
      PROVE  PollTypeOK'
  BY <1>c DEF pollVars, TypeOK, CommonTypeOK, PollTypeOK
<1>d. ASSUME UNCHANGED <<wrapperVars, loop>>
      PROVE  WrapperTypeOK'
  BY <1>d DEF wrapperVars, contextVars, notifyVars, slabVars, TypeOK, CommonTypeOK,
       WrapperTypeOK
<1>e. ASSUME UNCHANGED sharedVars
      PROVE  SharedOK'
  BY <1>e, <1>0 DEF sharedVars, SharedOK
<1>1. ASSUME NEW c \in Calls, Make(c)
      PROVE  TypeOK' /\ Visiting'
  <2>1. ASSUME c \in Messages, StartSend(c)
        PROVE  TypeOK' /\ Visiting'
    <3>1. MailTypeOK' /\ WrapperTypeOK' /\ LocalOK' /\ SharedOK'
      BY <1>0, <1>1, <2>1, StartSendType, TypeParts DEF Make, SharedOK
    <3>2. QED
      BY <1>1, <1>b, <1>c, <3>1 DEF Make, TypeOK, CommonTypeOK
  <2>2. ASSUME c \in Messages, StartRequest(c)
        PROVE  TypeOK' /\ Visiting'
    BY <1>0, <1>1, <1>b, <1>c, <1>e, <2>2, StartRequestType DEF Make, TypeOK, CommonTypeOK
  <2>3. ASSUME c \in Controls, StartControl(c) \/ StartClose(c)
        PROVE  TypeOK' /\ Visiting'
    BY <1>0, <1>1, <1>b, <1>c, <2>3, ControlType DEF Make, TypeOK, CommonTypeOK
  <2>4. QED
    BY <1>1, <2>1, <2>2, <2>3 DEF Make
<1>2. ASSUME NEW c \in Calls, Call(c)
      PROVE  TypeOK' /\ Visiting'
  <2>1. ASSUME c \in Messages, MessageStep(c)
        PROVE  TypeOK' /\ Visiting'
    BY <1>0, <1>2, <1>b, <1>c, <1>e, <2>1, MessageType DEF Call, TypeOK, CommonTypeOK
  <2>2. ASSUME c \in Controls, ControlStep(c)
        PROVE  TypeOK' /\ Visiting'
    BY <1>0, <1>2, <1>b, <1>c, <2>2, ControlType DEF Call, TypeOK, CommonTypeOK
  <2>3. QED
    BY <1>2, <2>1, <2>2 DEF Call
<1>3. ASSUME NEW c \in Calls, Drop(c)
      PROVE  TypeOK' /\ Visiting'
  BY <1>0, <1>3, <1>b, <1>c, <1>e, AbandonType DEF Drop, TypeOK, CommonTypeOK
<1>4. ASSUME NEW c \in Calls, Timer(c)
      PROVE  TypeOK' /\ Visiting'
  BY <1>0, <1>4, <1>b, <1>c, ControlType DEF Timer, TypeOK, CommonTypeOK
<1>5. ASSUME NEW r \in Receivers, EventLoop(r)
      PROVE  TypeOK' /\ Visiting'
  BY <1>5, <1>a, <1>c, LoopType DEF EventLoop, TypeOK, CommonTypeOK
<1>6. ASSUME NEW r \in Receivers, Poller(r)
      PROVE  TypeOK' /\ Visiting'
  BY <1>6, <1>a, <1>d, PollerType DEF Poller, TypeOK, CommonTypeOK, outsidePoller
<1>7. ASSUME NEW r \in Receivers, NEW c \in Messages, Task(r, c) \/ Panic(r, c)
      PROVE  TypeOK' /\ Visiting'
  BY <1>7, <1>a, <1>d, TaskType DEF Task, Panic, TypeOK, CommonTypeOK, outsidePoller
<1>8. CASE UNCHANGED vars
  <2>1. MailTypeOK'
    BY <1>8 DEF vars, mailVars, TypeOK, CommonTypeOK, MailTypeOK
  <2>2. QED
    BY <1>8, <1>a, <1>c, <1>d, <2>1 DEF vars, TypeOK, CommonTypeOK
<1>9. QED
  BY <1>1, <1>2, <1>3, <1>4, <1>5, <1>6, <1>7, <1>8 DEF Next, Finished

---------------------------------------------------------------------------
(* The semaphore. *)

LEMMA SemaphoreFrame ==
  ASSUME SemaphoreInv, UNCHANGED <<poller, sem>>,
         \A r \in Receivers : Tasks(r)' = Tasks(r)
  PROVE  SemaphoreInv'
BY DEF SemaphoreInv

LEMMA SemaphoreKept ==
  ASSUME TypeOK, SemaphoreInv, NEW r \in Receivers, NEW c \in Messages, NEW p,
         Move(r, c, p), at[r][c] # "running", p # "running", UNCHANGED <<poller, sem>>
  PROVE  SemaphoreInv'
<1>1. /\ \A s \in Receivers \ {r} : Copies(s, {"running"})' = Copies(s, {"running"})
      /\ Copies(r, {"running"})' \ {c} = Copies(r, {"running"}) \ {c}
      /\ c \notin Copies(r, {"running"}) /\ c \notin Copies(r, {"running"})'
  BY MoveCopies DEF TypeOK, CommonTypeOK
<1>2. \A s \in Receivers : Tasks(s)' = Tasks(s)
  BY <1>1 DEF Tasks
<1>3. QED
  BY <1>2, SemaphoreFrame


---------------------------------------------------------------------------
(* The steps of the calls and the event loops. *)

Rest == BusInv /\ SemaphoreInv

\* They start and end no task.
LEMMA OutsideRest ==
  ASSUME Rest, BusInv', Outside, UNCHANGED pollVars
  PROVE  Rest'
<1>1. \A r \in Receivers : Tasks(r)' = Tasks(r)
  BY DEF Outside, Tasks, Copies
<1>2. QED
  BY <1>1, SemaphoreFrame DEF Rest, pollVars

LEMMA MessageRest ==
  ASSUME TypeOK, Visiting, Rest, NEW c \in Messages, UNCHANGED pollVars,
         StartSend(c) \/ StartRequest(c) \/ Abandon(c) \/ MessageStep(c)
  PROVE  Rest'
<1>1. CommonTypeOK /\ BusInv
  BY TypeParts DEF Rest
<1>2. BusInv'
  BY <1>1, StartKeeps, ReturnKeeps, MessageKeeps
<1>3. QED
  BY <1>1, <1>2, MessageOutside, OutsideRest

LEMMA ControlRest ==
  ASSUME TypeOK, Visiting, Rest, NEW c \in Controls, UNCHANGED pollVars,
         StartControl(c) \/ StartClose(c) \/ TimeOut(c) \/ ControlStep(c)
  PROVE  Rest'
<1>1. CommonTypeOK /\ BusInv
  BY TypeParts DEF Rest
<1>2. BusInv' /\ UNCHANGED at
  BY <1>1, ControlKeeps, ControlOutside
<1>3. QED
  BY <1>2, OutsideRest DEF Outside

LEMMA LoopRest ==
  ASSUME TypeOK, Visiting, Rest, NEW r \in Receivers, LoopStep(r),
         UNCHANGED <<pollVars, busVars>>
  PROVE  Rest'
<1>1. CommonTypeOK /\ BusInv
  BY TypeParts DEF Rest
<1>2. BusInv' /\ Outside
  BY <1>1, LoopKeeps, LoopOutside
<1>3. QED
  BY <1>2, OutsideRest


---------------------------------------------------------------------------
(* The steps of the poller and of its tasks. *)

\* A poller that dies takes nothing from the running tasks, and the messages of
\* its queue keep their slots.
LEMMA PollerPanicsRest ==
  ASSUME TypeOK, Rest, NEW r \in Receivers, PollerPanics(r),
         UNCHANGED <<events, processing, busVars>>, SemaphoreInv'
  PROVE  Rest'
<1>1. /\ \A s \in Receivers \ {r} : at'[s] = at[s] /\ queue'[s] = queue[s]
      /\ queue'[r] = <<>>
      /\ \A m \in Messages :
           at'[r][m] = IF at[r][m] = "queued" THEN "lost" ELSE at[r][m]
  BY DEF PollerPanics, TypeOK, CommonTypeOK, MailTypeOK
<1>2. ChannelInv'
  BY <1>1, TypeParts, ChannelDropped DEF PollerPanics, Rest, BusInv
<1>3. BusInv'
  BY <1>1, <1>2, TypeParts, InsideKeeps DEF Rest, Slotted
<1>4. QED
  BY <1>3 DEF Rest

LEMMA PollerFrame ==
  ASSUME Rest, UNCHANGED <<at, processing, busVars>>, ChannelInv', SemaphoreInv'
  PROVE  Rest'
<1>1. \A r : \A S : Copies(r, S)' = Copies(r, S)
  BY DEF Copies
<1>2. RouteInv'
  BY RouteKept DEF Rest, BusInv, busVars, localVars
<1>3. QED
  BY <1>1, <1>2, SlotFrame DEF Rest, BusInv

LEMMA EmitRest ==
  ASSUME TypeOK, Rest, NEW r \in Receivers, NEW x \in Signals, PollerEmits(r, x),
         srx[r] => UNCHANGED queue \/ Receive(r),
         UNCHANGED <<processing, busVars>>, SemaphoreInv'
  PROVE  Rest'
<1>1. CASE srx[r]
  <2>1. ChannelInv'
    BY TypeParts, <1>1, SignalHolds DEF PollerEmits, Rest, BusInv
  <2>2. QED
    BY <1>1, <2>1, PollerFrame DEF PollerEmits
<1>2. CASE ~srx[r]
  BY <1>2, PollerPanicsRest DEF PollerEmits
<1>3. QED
  BY <1>1, <1>2

\* An emitting poller starts and ends no task, and is not in its sync handler
\* afterwards.
LEMMA EmitTasks ==
  ASSUME TypeOK, NEW r \in Receivers, NEW x, PollerEmits(r, x)
  PROVE  /\ \A s \in Receivers : Tasks(s)' = Tasks(s)
         /\ \A s \in Receivers \ {r} : poller'[s] = poller[s]
         /\ poller'[r] # "syncing"
<1>1. \A s \in Receivers, m \in Messages : at'[s][m] = "running" <=> at[s][m] = "running"
  <2>1. CASE UNCHANGED at
    BY <2>1
  <2>2. CASE PollerPanics(r)
    <3>1. /\ \A s \in Receivers \ {r} : at'[s] = at[s]
          /\ \A m \in Messages :
               at'[r][m] = IF at[r][m] = "queued" THEN "lost" ELSE at[r][m]
      BY <2>2 DEF PollerPanics, TypeOK, CommonTypeOK, MailTypeOK
    <3>2. QED
      BY <3>1
  <2>3. QED
    BY <2>1, <2>2 DEF PollerEmits
<1>2. QED
  BY <1>1 DEF PollerEmits, PollerPanics, TypeOK, CommonTypeOK, PollTypeOK, Tasks, Copies

LEMMA PollerRest ==
  ASSUME TypeOK, Visiting, Rest, NEW r \in Receivers, PollerStep(r), UNCHANGED outsidePoller
  PROVE  Rest'
<1>a. UNCHANGED <<processing, busVars>>
  BY DEF outsidePoller, wrapperVars, contextVars
<1>b. \A m \in Messages : pc'[m] = pc[m] /\ pos'[m] = pos[m]
  BY <1>a DEF busVars, localVars
<1>c. /\ sem \in [Receivers -> Nat] /\ poller \in [Receivers -> PollerPlace]
      /\ \A s \in Receivers : MaxParallel[s] \in Nat
      /\ \A s \in Receivers : IsFiniteSet(Tasks(s)) /\ Cardinality(Tasks(s)) \in Nat
  BY BufferUnorderedAssumption, CopiesFinite, FS_CardinalityType
     DEF TypeOK, CommonTypeOK, PollTypeOK, Tasks
<1>d. \A s \in Receivers :
        IF poller[s] = "syncing" THEN sem[s] = 0 /\ Tasks(s) = {}
                                 ELSE sem[s] + Cardinality(Tasks(s)) = MaxParallel[s]
  BY DEF Rest, BusInv, SemaphoreInv
<1>e. ASSUME UNCHANGED at, UNCHANGED sem, poller[r] # "syncing",
             NEW p \in PollerPlace, p # "syncing", poller' = [poller EXCEPT ![r] = p]
      PROVE  SemaphoreInv'
  <2>1. \A s \in Receivers : Tasks(s)' = Tasks(s)
    BY <1>e DEF Tasks, Copies
  <2>2. QED
    BY <1>c, <1>d, <1>e, <2>1 DEF SemaphoreInv
<1>f. ASSUME UNCHANGED <<at, events>>, Receive(r)
      PROVE  ChannelInv'
  BY TypeParts, <1>f, ReceiveHolds, ChannelSplit DEF Rest, BusInv, QueueOf, EventsOf
<1>1. CASE PollRequest(r)
  <2> DEFINE c == Incoming(r)
  <2>1. /\ c \in Messages /\ Move(r, c, "held") /\ Receive(r)
        /\ UNCHANGED <<events, sem>> /\ PollerGoes(r, "recv", "acquire")
    BY <1>1 DEF PollRequest
  <2>2. ChannelInv' /\ at[r][c] = "queued"
    BY <2>1, TypeParts, ChannelHeld DEF Rest, BusInv
  <2> HIDE DEF c
  <2>3. Slots'
    BY TypeParts, <1>a, <2>1, <2>2, SlotKept DEF Rest, BusInv, Slotted
  <2>4. SemaphoreInv'
    <3>1. \A s \in Receivers : Tasks(s)' = Tasks(s)
      <4>1. /\ \A s \in Receivers \ {r} : Copies(s, {"running"})' = Copies(s, {"running"})
            /\ Copies(r, {"running"})' \ {c} = Copies(r, {"running"}) \ {c}
            /\ c \notin Copies(r, {"running"}) /\ c \notin Copies(r, {"running"})'
        BY <2>1, <2>2, MoveCopies DEF TypeOK, CommonTypeOK
      <4>2. QED
        BY <4>1 DEF Tasks
    <3>2. QED
      BY <1>c, <1>d, <2>1, <3>1 DEF SemaphoreInv, PollerGoes
  <2>5. RouteInv'
    BY <1>b, <2>1, <2>2, RouteKept DEF Rest, BusInv, Move, TypeOK, CommonTypeOK, MailTypeOK
  <2>6. QED
    BY <2>2, <2>3, <2>4, <2>5 DEF Rest, BusInv
<1>2. CASE Spawn(r)
  <2>1. PICK c \in Messages : at[r][c] = "held" /\ Move(r, c, "running")
    BY <1>2 DEF Spawn
  <2>2. /\ sem[r] > 0 /\ sem' = [sem EXCEPT ![r] = @ - 1]
        /\ poller[r] = "acquire" /\ poller' = [poller EXCEPT ![r] = "recv"]
        /\ UNCHANGED <<queue, events>>
    BY <1>2 DEF Spawn, PollerGoes
  <2>3. ChannelInv'
    BY TypeParts, <2>1, <2>2, ChannelKept DEF Rest, BusInv
  <2>4. Slots'
    BY TypeParts, <1>a, <2>1, SlotKept DEF Rest, BusInv, Slotted
  <2>5. SemaphoreInv'
    <3>1. /\ \A s \in Receivers \ {r} : Tasks(s)' = Tasks(s)
          /\ Tasks(r)' \ {c} = Tasks(r) \ {c}
          /\ c \notin Tasks(r) /\ c \in Tasks(r)'
      BY <2>1, MoveCopies DEF TypeOK, CommonTypeOK, Tasks
    <3>2. IsFiniteSet(Tasks(r)')
      BY MailboxAssumption, FS_Subset DEF Tasks, Copies
    <3>3. Cardinality(Tasks(r)') = Cardinality(Tasks(r)) + 1
      BY <1>c, <3>1, <3>2, CountMove
    <3>4. QED
      BY <1>c, <1>d, <2>2, <3>1, <3>3 DEF SemaphoreInv
  <2>6. RouteInv'
    BY <1>b, <2>1, RouteKept DEF Rest, BusInv, Move, TypeOK, CommonTypeOK, MailTypeOK
  <2>7. QED
    BY <2>3, <2>4, <2>5, <2>6 DEF Rest, BusInv
<1>3. CASE PollInitAction(r)
  <2>1. /\ PollerEmits(r, "Ready") /\ UNCHANGED sem /\ poller[r] # "syncing"
        /\ srx[r] => Receive(r)
    BY <1>3 DEF PollInitAction
  <2>2. SemaphoreInv'
    BY <1>c, <1>d, <2>1, EmitTasks DEF SemaphoreInv
  <2>3. QED
    BY <1>a, <2>1, <2>2, EmitRest DEF Signals
<1>4. CASE PollClose(r)
  <2>1. UNCHANGED <<at, events, pollVars>> /\ Receive(r)
    BY <1>4 DEF PollClose
  <2>2. SemaphoreInv'
    BY <2>1, SemaphoreFrame DEF Rest, BusInv, pollVars, Tasks, Copies
  <2>3. QED
    BY <1>a, <1>f, <2>1, <2>2, PollerFrame
<1>5. CASE PollFlush(r) \/ PollSync(r)
  <2>1. /\ UNCHANGED <<at, events, sem>> /\ Receive(r) /\ poller[r] # "syncing"
        /\ \E p \in {"flush", "sync"} : poller' = [poller EXCEPT ![r] = p]
    BY <1>5 DEF PollFlush, PollSync, PollerGoes
  <2>2. SemaphoreInv'
    BY <1>e, <2>1 DEF PollerPlace
  <2>3. QED
    BY <1>a, <1>f, <2>1, <2>2, PollerFrame
<1>6. CASE FinishFlush(r)
  <2>1. /\ PollerEmits(r, "Flushed") /\ UNCHANGED sem /\ poller[r] # "syncing"
        /\ srx[r] => UNCHANGED queue
    BY <1>6 DEF FinishFlush
  <2>2. SemaphoreInv'
    BY <1>c, <1>d, <2>1, EmitTasks DEF SemaphoreInv
  <2>3. QED
    BY <1>a, <2>1, <2>2, EmitRest DEF Signals
<1>7. CASE StartSync(r)
  <2>1. /\ poller[r] = "sync" /\ poller' = [poller EXCEPT ![r] = "syncing"]
        /\ sem[r] = MaxParallel[r] /\ sem' = [sem EXCEPT ![r] = 0]
        /\ UNCHANGED mailVars
    BY <1>7 DEF StartSync, PollerGoes
  <2>2. \A s \in Receivers : Tasks(s)' = Tasks(s)
    BY <2>1 DEF Tasks, Copies, mailVars
  <2>3. Tasks(r) = {}
    <3>1. Cardinality(Tasks(r)) = 0
      BY <1>c, <1>d, <2>1
    <3>2. QED
      BY <1>c, <3>1, FS_EmptySet
  <2>4. SemaphoreInv'
    BY <1>c, <1>d, <2>1, <2>2, <2>3 DEF SemaphoreInv
  <2>5. ChannelInv'
    BY <2>1, ChannelFrame DEF Rest, BusInv, mailVars
  <2>6. QED
    BY <1>a, <2>1, <2>4, <2>5, PollerFrame DEF mailVars
<1>8. CASE FinishSync(r)
  <2>1. /\ PollerEmits(r, "Synchronized") /\ poller[r] = "syncing"
        /\ sem' = [sem EXCEPT ![r] = MaxParallel[r]]
        /\ srx[r] => UNCHANGED queue
    BY <1>8 DEF FinishSync
  <2>2. Tasks(r) = {} /\ Cardinality(Tasks(r)) = 0
    BY <1>d, <2>1, FS_EmptySet
  <2>3. SemaphoreInv'
    <3>1. /\ \A s \in Receivers : Tasks(s)' = Tasks(s)
          /\ \A s \in Receivers \ {r} : poller'[s] = poller[s]
          /\ poller'[r] # "syncing"
      BY <2>1, EmitTasks
    <3>2. /\ sem'[r] = MaxParallel[r] /\ MaxParallel[r] + 0 = MaxParallel[r]
          /\ \A s \in Receivers \ {r} : sem'[s] = sem[s]
      BY <1>c, <2>1
    <3>3. QED
      BY <1>d, <2>2, <3>1, <3>2 DEF SemaphoreInv
  <2>4. QED
    BY <1>a, <2>1, <2>3, EmitRest DEF Signals
<1>9. CASE EndPoller(r)
  <2>1. /\ UNCHANGED <<at, queue, events, sem>> /\ poller[r] # "syncing"
        /\ poller' = [poller EXCEPT ![r] = "ended"]
    BY <1>9 DEF EndPoller, PollerGoes
  <2>2. SemaphoreInv'
    BY <1>e, <2>1 DEF PollerPlace
  <2>3. ChannelInv'
    BY <2>1, ChannelFrame DEF Rest, BusInv
  <2>4. QED
    BY <1>a, <2>1, <2>2, <2>3, PollerFrame
<1>10. QED
  BY <1>1, <1>2, <1>3, <1>4, <1>5, <1>6, <1>7, <1>8, <1>9 DEF PollerStep

\* A handler gives its permit back, whether it returns or panics.
LEMMA TaskEnds ==
  ASSUME TypeOK, Rest, NEW r \in Receivers, NEW c \in Messages, at[r][c] = "running",
         NEW p \in {"handled", "lost"}, Move(r, c, p),
         sem' = [sem EXCEPT ![r] = @ + 1], UNCHANGED <<poller, queue, events>>,
         UNCHANGED outsidePoller
  PROVE  Rest'
<1>1. ChannelInv'
  BY TypeParts, ChannelKept DEF Rest, BusInv
<1>2. Slots'
  BY TypeParts, SlotKept DEF Rest, BusInv, Slotted, outsidePoller, wrapperVars, contextVars
<1>3. RouteInv'
  BY RouteKept DEF Rest, BusInv, Move, TypeOK, CommonTypeOK, MailTypeOK, outsidePoller,
       busVars, localVars
<1>4. SemaphoreInv'
  <2>1. /\ sem \in [Receivers -> Nat] /\ MaxParallel[r] \in Nat
        /\ IsFiniteSet(Tasks(r)) /\ IsFiniteSet(Tasks(r)')
    BY BufferUnorderedAssumption, MailboxAssumption, CopiesFinite, FS_Subset
       DEF TypeOK, CommonTypeOK, PollTypeOK, Tasks, Copies
  <2>2. /\ \A s \in Receivers \ {r} : Tasks(s)' = Tasks(s)
        /\ Tasks(r)' \ {c} = Tasks(r) \ {c}
        /\ c \in Tasks(r) /\ c \notin Tasks(r)'
    BY MoveCopies DEF TypeOK, CommonTypeOK, Tasks
  <2>3. /\ Cardinality(Tasks(r)') = Cardinality(Tasks(r)) - 1
        /\ Cardinality(Tasks(r)) \in Nat
    BY <2>1, <2>2, CountMove
  <2>4. poller[r] # "syncing" /\ sem[r] + Cardinality(Tasks(r)) = MaxParallel[r]
    BY <2>2 DEF Rest, BusInv, SemaphoreInv
  <2>5. QED
    BY <2>1, <2>2, <2>3, <2>4 DEF Rest, BusInv, SemaphoreInv
<1>5. QED
  BY <1>1, <1>2, <1>3, <1>4 DEF Rest, BusInv

LEMMA TaskRest ==
  ASSUME TypeOK, Rest, NEW r \in Receivers, NEW c \in Messages, UNCHANGED outsidePoller,
         HandlerReturns(r, c) \/ Respond(r, c) \/ HandlerPanics(r, c)
  PROVE  Rest'
<1>1. CASE HandlerReturns(r, c) \/ HandlerPanics(r, c)
  BY <1>1, TaskEnds DEF HandlerReturns, HandlerPanics
<1>2. CASE Respond(r, c)
  <2>1. PICK p \in {"answered", "lost"} : Move(r, c, p)
    BY <1>2 DEF Respond
  <2>2. at[r][c] = "handled" /\ UNCHANGED <<queue, pollVars, processing>>
    BY <1>2 DEF Respond, outsidePoller, wrapperVars, contextVars
  <2>3. ChannelInv'
    BY <1>2, <2>1, <2>2, TypeParts, ChannelKept, ChannelAnswered
       DEF Respond, Rest, BusInv
  <2>4. BusInv'
    BY <2>1, <2>2, <2>3, TypeParts, InsideKeeps
       DEF Rest, Move, CommonTypeOK, MailTypeOK, Slotted, outsidePoller
  <2>5. SemaphoreInv'
    BY <2>1, <2>2, SemaphoreKept DEF Rest, pollVars
  <2>6. QED
    BY <2>4, <2>5 DEF Rest
<1>3. QED
  BY <1>1, <1>2

---------------------------------------------------------------------------
(* The system. *)

LEMMA InvRest == IInv <=> TypeOK /\ Visiting /\ Rest
BY DEF IInv, Rest, BusInv, Slots

LEMMA InitInv == Init => IInv
<1> SUFFICES ASSUME Init PROVE IInv
  OBVIOUS
<1>1. TypeOK /\ Visiting
  BY InitType
<1>2. /\ \A r \in Receivers, c \in Messages : at[r][c] = "none"
      /\ \A r \in Receivers : queue[r] = <<"Init">> /\ events[r] = <<>>
      /\ \A r \in Receivers : poller[r] = "recv" /\ sem[r] = MaxParallel[r]
      /\ \A r \in Receivers : processing[r] = 0
      /\ \A c \in Calls : pc[c] = "start" /\ pos[c] = 1
  BY DEF Init, MailInit, PollInit, WrapperInit, BusInit
<1>3. ChannelInv
  <2>1. SUFFICES ASSUME NEW r \in Receivers
                 PROVE  QueueOf(r) /\ EventsOf(r)
    BY ChannelSplit
  <2>2. "Init" \notin Messages
    BY MailboxAssumption DEF Actions
  <2>3. HoldsIn(<<"Init">>, at[r], "queued") /\ HoldsIn(<<>>, at[r], "answered")
    BY <2>2 DEF HoldsIn
  <2>4. QED
    BY <1>2, <2>3 DEF QueueOf, EventsOf
<1>4. RouteInv
  <2>1. SUFFICES ASSUME NEW c \in Messages, NEW i \in DOMAIN Route[c]
                 PROVE  Underway(c, i)
    BY DEF RouteInv
  <2>2. c \in Calls /\ Route[c] \in Seq(Receivers)
    BY BusAssumption DEF Calls
  <2>3. Copy(c, i) = "none"
    BY <1>2, <2>2 DEF Copy
  <2>4. QED
    BY <1>2, <2>2, <2>3 DEF Underway
<1>5. \A r \in Receivers : Copies(r, Slotted) = {} /\ Tasks(r) = {}
  BY <1>2 DEF Copies, Tasks, Slotted
<1>6. Accounting /\ Backpressure
  <2>1. \A r \in Receivers : Limited(r) = {} /\ Limit[r] \in Nat
    BY <1>5, ReceiverAssumption DEF Limited
  <2>2. Backpressure
    BY <2>1, FS_EmptySet, SlotsLimited
  <2>3. Accounting
    BY <1>2, <1>5, FS_EmptySet DEF Accounting
  <2>4. QED
    BY <2>2, <2>3
<1>7. SemaphoreInv
  <2>1. \A r \in Receivers : Cardinality(Tasks(r)) = 0
    BY <1>5, FS_EmptySet
  <2>2. \A r \in Receivers : MaxParallel[r] \in Nat
    BY BufferUnorderedAssumption
  <2>3. QED
    BY <1>2, <2>1, <2>2 DEF SemaphoreInv
<1>8. QED
  BY <1>1, <1>3, <1>4, <1>6, <1>7 DEF IInv

LEMMA StepInv == IInv /\ [Next]_vars => IInv'
<1> SUFFICES ASSUME IInv, [Next]_vars PROVE IInv'
  OBVIOUS
<1>0. TypeOK /\ Visiting /\ Rest
  BY InvRest
<1>1. TypeOK' /\ Visiting'
  BY <1>0, StepType DEF Rest, BusInv
<1>2. Rest'
  <2>1. ASSUME NEW c \in Calls, Make(c)
        PROVE  Rest'
    BY <1>0, <2>1, MessageRest, ControlRest DEF Make
  <2>2. ASSUME NEW c \in Calls, Call(c)
        PROVE  Rest'
    BY <1>0, <2>2, MessageRest, ControlRest DEF Call
  <2>3. ASSUME NEW c \in Calls, Drop(c)
        PROVE  Rest'
    BY <1>0, <2>3, MessageRest DEF Drop
  <2>4. ASSUME NEW c \in Calls, Timer(c)
        PROVE  Rest'
    BY <1>0, <2>4, ControlRest DEF Timer
  <2>5. ASSUME NEW r \in Receivers, EventLoop(r)
        PROVE  Rest'
    BY <1>0, <2>5, LoopRest DEF EventLoop
  <2>6. ASSUME NEW r \in Receivers, Poller(r)
        PROVE  Rest'
    BY <1>0, <2>6, PollerRest DEF Poller
  <2>7. ASSUME NEW r \in Receivers, NEW c \in Messages, Task(r, c) \/ Panic(r, c)
        PROVE  Rest'
    BY <1>0, <2>7, TaskRest DEF Task, Panic
  <2>8. CASE UNCHANGED vars
    <3>1. ChannelInv'
      BY <1>0, <2>8, ChannelFrame DEF Rest, BusInv, vars, mailVars
    <3>2. UNCHANGED <<at, processing, busVars, pollVars>>
      BY <2>8 DEF vars, mailVars, wrapperVars, contextVars
    <3>3. SemaphoreInv'
      BY <1>0, <3>2, SemaphoreFrame DEF Rest, BusInv, pollVars, Tasks, Copies
    <3>4. QED
      BY <1>0, <3>1, <3>2, <3>3, PollerFrame
  <2>9. QED
    BY <2>1, <2>2, <2>3, <2>4, <2>5, <2>6, <2>7, <2>8 DEF Next, Finished
<1>3. QED
  BY <1>1, <1>2 DEF IInv, Rest, BusInv, Slots

\* IInv, which says where every copy of a message can be, holds of every
\* reachable state: the strengthening all theorems below rest on.
THEOREM Invariance == Spec => []IInv
<1>1. Init => IInv
  BY InitInv
<1>2. IInv /\ [Next]_vars => IInv'
  BY StepInv
<1>3. QED
  BY <1>1, <1>2, PTL DEF Spec

\* Every variable keeps its type; in particular no receiver index is ever out
\* of range and no semaphore goes below zero.
THEOREM TypeCorrectness == Spec => []TypeOK
<1>1. IInv => TypeOK
  BY DEF IInv
<1>2. QED
  BY <1>1, Invariance, PTL

\* The counter "processing" of receiver.rs, incremented by senders and
\* decremented by the event loop without a common lock, is always the number of
\* messages that hold a slot: no interleaving of permits, failed try_sends,
\* panics and responses loses or doubles one.
THEOREM SlotAccounting == Spec => []Accounting
<1>1. IInv => Accounting
  BY DEF IInv
<1>2. QED
  BY <1>1, Invariance, PTL

\* Without force_send no more messages are in flight than the limit the receiver
\* was subscribed with, however many senders race for the last slot.
THEOREM BackpressureHolds == Spec => []Backpressure
<1>1. IInv => Backpressure
  BY DEF IInv
<1>2. QED
  BY <1>1, Invariance, PTL

LEMMA SemaphoreBounds ==
  ASSUME TypeOK, SemaphoreInv
  PROVE  ParallelBound /\ SyncExclusive
<1>1. SUFFICES ASSUME NEW r \in Receivers
               PROVE  /\ Cardinality(Tasks(r)) <= MaxParallel[r]
                      /\ poller[r] = "syncing" => Tasks(r) = {}
  BY DEF ParallelBound, SyncExclusive
<1>2. /\ sem[r] \in Nat /\ MaxParallel[r] \in Nat
      /\ IsFiniteSet(Tasks(r)) /\ Cardinality(Tasks(r)) \in Nat
  BY BufferUnorderedAssumption, CopiesFinite, FS_CardinalityType
     DEF TypeOK, CommonTypeOK, PollTypeOK, Tasks
<1>3. CASE poller[r] = "syncing"
  BY <1>2, <1>3, FS_EmptySet DEF SemaphoreInv
<1>4. CASE poller[r] # "syncing"
  BY <1>2, <1>4 DEF SemaphoreInv
<1>5. QED
  BY <1>3, <1>4

\* At most max_parallel handlers of a receiver run at a time.
THEOREM HandlersBounded == Spec => []ParallelBound
<1>1. IInv => ParallelBound
  BY SemaphoreBounds DEF IInv
<1>2. QED
  BY <1>1, Invariance, PTL

\* While the sync handler of a receiver runs, no message handler of it does.
THEOREM SyncAlone == Spec => []SyncExclusive
<1>1. IInv => SyncExclusive
  BY SemaphoreBounds DEF IInv
<1>2. QED
  BY <1>1, Invariance, PTL

---------------------------------------------------------------------------
(* Answers. *)

\* What the pollers and tasks have was sent.
LEMMA InsideSends ==
  ASSUME TypeOK, ChannelInv, NEW r \in Receivers,
         \/ PollerStep(r)
         \/ \E c \in Messages : HandlerReturns(r, c) \/ Respond(r, c) \/ HandlerPanics(r, c)
  PROVE  \A s \in Receivers, m \in Messages : at'[s][m] # "none" => at[s][m] # "none"
<1> DEFINE Goal == \A s \in Receivers, m \in Messages :
                     at'[s][m] # "none" => at[s][m] # "none"
<1>0. at \in [Receivers -> [Messages -> Place]]
  BY DEF TypeOK, MailTypeOK
<1>a. ASSUME NEW c \in Messages, NEW p, Move(r, c, p), at[r][c] # "none"
      PROVE  Goal
  BY <1>0, <1>a DEF Move
<1>b. ASSUME NEW x, PollerEmits(r, x)
      PROVE  Goal
  BY <1>0, <1>b DEF PollerEmits, PollerPanics
<1>1. CASE PollRequest(r)
  <2>1. at[r][Incoming(r)] = "queued" /\ Incoming(r) \in Messages
    BY <1>1, TypeParts, ReceiveHolds DEF PollRequest
  <2>2. QED
    BY <1>1, <1>a, <2>1 DEF PollRequest
<1>2. CASE Spawn(r)
  BY <1>2, <1>a DEF Spawn
<1>3. CASE PollInitAction(r) \/ FinishFlush(r) \/ FinishSync(r)
  BY <1>3, <1>b DEF PollInitAction, FinishFlush, FinishSync
<1>4. CASE PollClose(r) \/ PollFlush(r) \/ PollSync(r) \/ StartSync(r) \/ EndPoller(r)
  BY <1>4 DEF PollClose, PollFlush, PollSync, StartSync, EndPoller, mailVars
<1>5. ASSUME NEW c \in Messages, HandlerReturns(r, c) \/ Respond(r, c) \/ HandlerPanics(r, c)
      PROVE  Goal
  BY <1>5, <1>a DEF HandlerReturns, Respond, HandlerPanics
<1>6. QED
  BY <1>1, <1>2, <1>3, <1>4, <1>5 DEF PollerStep

LEMMA StepAnswers ==
  ASSUME SeparateRequests, IInv, AnswerInv, [Next]_vars
  PROVE  AnswerInv'
<1>0. TypeOK /\ CommonTypeOK /\ Visiting /\ BusInv /\ ChannelInv
  BY TypeParts DEF IInv, BusInv, Slots
<1>1. ASSUME NEW c \in Calls, Make(c) \/ Call(c) \/ Drop(c) \/ Timer(c)
      PROVE  AnswerInv'
  BY <1>0, <1>1, StartAnswers, MessageAnswers, ControlAnswers DEF Make, Call, Drop, Timer
<1>2. ASSUME NEW r \in Receivers, EventLoop(r)
      PROVE  AnswerInv'
  BY <1>0, <1>2, LoopAnswers DEF EventLoop
<1>3. ASSUME NEW r \in Receivers, Poller(r)
      PROVE  AnswerInv'
  BY <1>0, <1>3, InsideSends, InsideAnswers DEF Poller, outsidePoller
<1>4. ASSUME NEW r \in Receivers, NEW c \in Messages, Task(r, c) \/ Panic(r, c)
      PROVE  AnswerInv'
  BY <1>0, <1>4, InsideSends, InsideAnswers DEF Task, Panic, outsidePoller
<1>5. CASE UNCHANGED vars
  BY <1>5, InsideAnswers DEF vars, mailVars
<1>6. QED
  BY <1>1, <1>2, <1>3, <1>4, <1>5 DEF Next, Finished

\* The oneshot of a request only ever carries the response of the handler that got
\* its message, however responses overtake each other, provided that no receiver
\* is sent requests and plain messages: then no two messages a receiver may
\* answer have the same id.
THEOREM AnswersMatch ==
  ASSUME SeparateRequests
  PROVE  Spec => []AnswerMatches
<1>1. Init => AnswerInv
  BY InitAnswers DEF Init
<1>2. IInv /\ AnswerInv /\ [Next]_vars => AnswerInv'
  BY StepAnswers
<1>3. AnswerInv => AnswerMatches
  BY DEF AnswerInv
<1>4. QED
  BY <1>1, <1>2, <1>3, Invariance, PTL DEF Spec

---------------------------------------------------------------------------
(* Closing. *)

Panicked == {r \in Receivers : poller[r] = "panicked"}

\* The poller holds rx until it ends.
EndInv == \A r \in Receivers : rx[r] = "gone" <=> poller[r] \in {"ended", "panicked"}

DrainInv == FullInv /\ EndInv /\ CloseInv(Panicked)

\* What a step of the poller of r, or of a task, does to r; all else stays.
Here(r) ==
  \A s \in Receivers \ {r} :
    /\ at'[s] = at[s] /\ queue'[s] = queue[s] /\ events'[s] = events[s]
    /\ rx'[s] = rx[s] /\ poller'[s] = poller[s]

\* A poller or a task loses no track of a message that is queued or answered, and
\* closes its queue only when it is told to or panics.
Keeps(r) ==
  /\ Here(r)
  /\ FullInv => QueueFull(r)' /\ EventsFull(r)' /\ GoneInv(r)'
  /\ rx[r] # "gone" \/ poller'[r] = poller[r]
  /\ rx'[r] = "gone" <=> poller'[r] \in {"ended", "panicked"}
  /\ poller[r] = "panicked" => poller'[r] = "panicked"
  /\ rx[r] = "gone" => rx'[r] = "gone"
  /\ rx[r] = "gone" => \A m \in Messages : at'[r][m] \in InFlight => at[r][m] \in InFlight
  /\ Told(r)' => Told(r) \/ poller'[r] = "panicked"

LEMMA KeepsDrain ==
  ASSUME TypeOK, Visiting, DrainInv, NEW r \in Receivers, Keeps(r),
         UNCHANGED <<wrapperVars, busVars>>
  PROVE  DrainInv'
<1>1. FullInv'
  BY DEF DrainInv, FullInv, Keeps, Here, QueueFull, EventsFull, GoneInv
<1>2. EndInv'
  BY DEF DrainInv, EndInv, Keeps, Here
<1>3. CloseInv(Panicked)'
  <2>1. PICK dead : dead = Panicked
    OBVIOUS
  <2>2. PICK more : more = Panicked'
    OBVIOUS
  <2>3. CloseInv(dead)
    BY <2>1 DEF DrainInv
  <2>4. /\ \A s \in Receivers : s \in dead => s \in more
        /\ \A s \in Receivers : rx[s] = "gone" => rx'[s] = "gone"
        /\ \A s \in Receivers : rx[s] = "gone" =>
             \A m \in Messages : at'[s][m] \in InFlight => at[s][m] \in InFlight
    BY <2>1, <2>2 DEF Panicked, Keeps, Here
  <2>5. \A s \in Receivers : Told(s)' => Told(s) \/ Settled(dead, s) \/ s \in more
    BY <2>2 DEF Panicked, Keeps, Here, Told
  <2>6. CloseInv(more)'
    BY <2>3, <2>4, <2>5, InsideClose
  <2>7. QED
    BY <2>2, <2>6 DEF CloseInv, CloseCall, Settled
<1>4. QED
  BY <1>1, <1>2, <1>3 DEF DrainInv

\* The poller panics: its queue is dropped, what was answered stays answered.
LEMMA PanicKeeps ==
  ASSUME TypeOK, NEW r \in Receivers, PollerPanics(r), UNCHANGED events,
         poller[r] # "panicked", rx[r] # "gone"
  PROVE  Keeps(r)
<1>1. /\ at'[r] = [c \in Messages |-> IF at[r][c] = "queued" THEN "lost" ELSE at[r][c]]
      /\ queue'[r] = <<>> /\ rx'[r] = "gone" /\ poller'[r] = "panicked"
  BY DEF PollerPanics, TypeOK, MailTypeOK, PollTypeOK
<1>2. Here(r)
  BY DEF PollerPanics, TypeOK, MailTypeOK, PollTypeOK, Here
<1>3. QueueFull(r)' /\ GoneInv(r)'
  BY <1>1 DEF QueueFull, GoneInv
<1>4. FullInv => EventsFull(r)'
  BY <1>1 DEF FullInv, EventsFull
<1>5. QED
  BY <1>1, <1>2, <1>3, <1>4 DEF Keeps

\* The poller sends a signal, or panics because the event loop is gone.
LEMMA EmitKeeps ==
  ASSUME TypeOK, NEW r \in Receivers, NEW x \in Signals, PollerEmits(r, x),
         poller[r] \notin {"ended", "panicked"}, rx[r] # "gone",
         srx[r] => UNCHANGED queue \/ (Receive(r) /\ Incoming(r) \notin Messages)
  PROVE  Keeps(r)
<1>1. CASE ~srx[r]
  BY <1>1, PanicKeeps DEF PollerEmits
<1>2. CASE srx[r]
  <2>1. /\ poller' = [poller EXCEPT ![r] = "recv"]
        /\ events' = [events EXCEPT ![r] = Append(@, x)] /\ UNCHANGED <<at, rx>>
        /\ UNCHANGED queue \/ (Receive(r) /\ Incoming(r) \notin Messages)
    BY <1>2 DEF PollerEmits
  <2>2. /\ CommonTypeOK /\ poller'[r] = "recv" /\ events'[r] = Append(events[r], x)
        /\ queue'[r] = queue[r] \/ (queue[r] # <<>> /\ queue'[r] = Tail(queue[r]))
    BY <2>1, TypeParts DEF Receive, TypeOK, MailTypeOK, PollTypeOK
  <2>3. Here(r)
    BY <2>1 DEF Receive, TypeOK, MailTypeOK, PollTypeOK, Here
  <2>4. FullInv => QueueFull(r)'
    <3>1. CASE queue'[r] = queue[r]
      BY <2>1, <3>1 DEF FullInv, QueueFull
    <3>2. CASE queue'[r] # queue[r]
      BY <2>1, <2>2, <3>2, TakenFull DEF FullInv
    <3>3. QED
      BY <3>1, <3>2
  <2>5. FullInv => EventsFull(r)'
    BY <2>1, <2>2, AddedFull DEF FullInv
  <2>6. Told(r)' => Told(r)
    <3>1. CASE queue'[r] = queue[r]
      BY <2>1, <3>1 DEF Told
    <3>2. CASE queue'[r] # queue[r]
      BY <2>1, <2>2, <3>2, TakenTold
    <3>3. QED
      BY <3>1, <3>2
  <2>7. QED
    BY <2>1, <2>2, <2>3, <2>4, <2>5, <2>6 DEF Keeps, GoneInv
<1>3. QED
  BY <1>1, <1>2

LEMMA PollerKeeps ==
  ASSUME TypeOK, ChannelInv, EndInv, NEW r \in Receivers, PollerStep(r)
  PROVE  Keeps(r)
<1>0. /\ CommonTypeOK /\ at \in [Receivers -> [Messages -> Place]]
      /\ queue \in [Receivers -> Seq(Messages \cup Actions)]
      /\ rx \in [Receivers -> {"open", "closed", "gone"}]
      /\ poller \in [Receivers -> PollerPlace]
      /\ Messages \cap (Actions \cup Signals) = {}
  BY TypeParts, MailboxAssumption DEF TypeOK, MailTypeOK, PollTypeOK
<1>1. poller[r] \in {"recv", "acquire", "flush", "sync", "syncing"} /\ rx[r] # "gone"
  BY DEF PollerStep, PollRequest, Spawn, PollInitAction, PollClose, PollFlush, FinishFlush,
     PollSync, StartSync, FinishSync, EndPoller, PollerGoes, EndInv
\* The poller takes the head of its queue, a message or an action.
<1>a. ASSUME NEW p \in PollerPlace, poller' = [poller EXCEPT ![r] = p],
             p \notin {"ended", "panicked"}, Receive(r), UNCHANGED <<events, rx>>,
             UNCHANGED at \/ Move(r, Incoming(r), "held"),
             Incoming(r) \in Messages => at'[r][Incoming(r)] = "held"
      PROVE  Keeps(r)
  <2>1. /\ queue[r] # <<>> /\ queue'[r] = Tail(queue[r]) /\ poller'[r] = p
        /\ \A m \in Messages : at'[r][m] = at[r][m] \/ at'[r][m] = "held"
    BY <1>0, <1>a DEF Receive, Move
  <2>2. Here(r)
    BY <1>0, <1>a DEF Receive, Move, Here
  <2>3. FullInv => QueueFull(r)'
    BY <1>0, <1>a, <2>1, TakenFull DEF FullInv
  <2>4. FullInv => EventsFull(r)'
    BY <1>a, <2>1 DEF FullInv, EventsFull
  <2>5. Told(r)' => Told(r)
    BY <1>0, <1>a, <2>1, TakenTold
  <2>6. QED
    BY <1>1, <1>a, <2>1, <2>2, <2>3, <2>4, <2>5 DEF Keeps, GoneInv
<1>2. CASE PollRequest(r)
  <2>1. at'[r][Incoming(r)] = "held"
    BY <1>0, <1>2 DEF PollRequest, Move
  <2>2. QED
    BY <1>2, <1>a, <2>1 DEF PollRequest, PollerGoes, PollerPlace
<1>3. CASE Spawn(r)
  <2>1. /\ poller' = [poller EXCEPT ![r] = "recv"] /\ UNCHANGED <<queue, rx, events>>
        /\ \E c \in Messages : at[r][c] = "held" /\ Move(r, c, "running")
    BY <1>3 DEF Spawn, PollerGoes
  <2>2. /\ poller'[r] = "recv" /\ Here(r)
        /\ \A m \in Messages : at'[r][m] = at[r][m] \/ at'[r][m] = "running"
    BY <1>0, <2>1 DEF Move, Here
  <2>3. QED
    BY <1>1, <2>1, <2>2 DEF Keeps, FullInv, QueueFull, EventsFull, GoneInv, Told
<1>4. CASE PollInitAction(r)
  BY <1>0, <1>1, <1>4, EmitKeeps DEF PollInitAction, Signals, Actions
<1>5. CASE PollClose(r)
  <2>1. /\ queue[r] # <<>> /\ queue'[r] = Tail(queue[r]) /\ Head(queue[r]) = "Close"
        /\ rx' = [rx EXCEPT ![r] = "closed"] /\ rx'[r] = "closed"
        /\ UNCHANGED <<at, events, poller>> /\ Incoming(r) \notin Messages
    BY <1>0, <1>5 DEF PollClose, Receive, Incoming, pollVars, Actions
  <2>2. Here(r)
    BY <1>0, <1>5, <2>1 DEF PollClose, Receive, Here
  <2>3. FullInv => QueueFull(r)'
    BY <1>0, <2>1, TakenFull DEF FullInv
  <2>4. Told(r)
    <3>1. 1 \in DOMAIN queue[r] /\ queue[r][1] = "Close"
      BY <1>0, <2>1
    <3>2. QED
      BY <3>1 DEF Told, Carries
  <2>5. QED
    BY <1>1, <2>1, <2>2, <2>3, <2>4 DEF Keeps, FullInv, EventsFull, GoneInv
<1>6. CASE PollFlush(r) \/ PollSync(r)
  BY <1>0, <1>6, <1>a DEF PollFlush, PollSync, PollerGoes, PollerPlace, Actions
<1>7. CASE FinishFlush(r) \/ FinishSync(r)
  <2>1. PICK x \in Signals : PollerEmits(r, x)
    BY <1>7 DEF FinishFlush, FinishSync, Signals
  <2>2. srx[r] => UNCHANGED queue
    BY <1>7 DEF FinishFlush, FinishSync, PollerEmits
  <2>3. poller[r] \notin {"ended", "panicked"}
    BY <1>1
  <2>4. QED
    BY <1>1, <2>1, <2>2, <2>3, EmitKeeps
<1>8. CASE StartSync(r)
  <2>1. /\ poller' = [poller EXCEPT ![r] = "syncing"] /\ UNCHANGED <<at, queue, rx, events>>
    BY <1>8 DEF StartSync, PollerGoes, mailVars
  <2>2. /\ poller'[r] = "syncing" /\ Here(r)
    BY <1>0, <2>1 DEF Here
  <2>3. QED
    BY <1>1, <2>1, <2>2 DEF Keeps, FullInv, QueueFull, EventsFull, GoneInv, Told
<1>9. CASE EndPoller(r)
  <2>1. /\ poller' = [poller EXCEPT ![r] = "ended"] /\ rx' = [rx EXCEPT ![r] = "gone"]
        /\ UNCHANGED <<at, queue, events>> /\ queue[r] = <<>> /\ rx[r] = "closed"
    BY <1>9 DEF EndPoller, PollerGoes
  <2>2. poller'[r] = "ended" /\ rx'[r] = "gone" /\ Here(r)
    BY <1>0, <2>1 DEF Here
  <2>3. QED
    BY <1>1, <2>1, <2>2 DEF Keeps, FullInv, QueueFull, EventsFull, GoneInv, Told
<1>10. QED
  BY <1>2, <1>3, <1>4, <1>5, <1>6, <1>7, <1>8, <1>9 DEF PollerStep

LEMMA TaskKeeps ==
  ASSUME TypeOK, EndInv, NEW r \in Receivers, NEW c \in Messages,
         HandlerReturns(r, c) \/ Respond(r, c) \/ HandlerPanics(r, c)
  PROVE  Keeps(r)
<1>0. CommonTypeOK /\ at \in [Receivers -> [Messages -> Place]]
      /\ events \in [Receivers -> Seq(Messages \cup Signals)]
  BY TypeParts DEF TypeOK, MailTypeOK
<1>1. UNCHANGED <<queue, rx, poller>>
  BY DEF HandlerReturns, Respond, HandlerPanics, pollVars
<1>2. /\ at[r][c] \in {"running", "handled"}
      /\ \/ (Move(r, c, "handled") \/ Move(r, c, "lost")) /\ UNCHANGED events
         \/ Move(r, c, "answered") /\ events' = [events EXCEPT ![r] = Append(@, c)]
  BY DEF HandlerReturns, Respond, HandlerPanics
<1>3. /\ Here(r)
      /\ \A m \in Messages \ {c} : at'[r][m] = at[r][m]
      /\ at'[r][c] \in {"handled", "lost", "answered"}
  BY <1>0, <1>1, <1>2 DEF Move, Here
<1>4. FullInv => EventsFull(r)'
  <2>1. CASE UNCHANGED events
    BY <1>0, <1>2, <1>3, <2>1 DEF FullInv, EventsFull, Move
  <2>2. CASE events' = [events EXCEPT ![r] = Append(@, c)]
    BY <1>0, <1>3, <2>2, AddedFull DEF FullInv
  <2>3. QED
    BY <1>2, <2>1, <2>2
<1>5. QED
  BY <1>1, <1>2, <1>3, <1>4 DEF Keeps, FullInv, QueueFull, GoneInv, Told, EndInv, InFlight

\* A step that is not of a poller or a task.
LEMMA OutsideDrain ==
  ASSUME DrainInv, FullInv', CloseInv(Panicked) => \A dead : dead = Panicked => CloseInv(dead)',
         UNCHANGED <<rx, poller>>
  PROVE  DrainInv'
<1>1. EndInv'
  BY DEF DrainInv, EndInv
<1>2. CloseInv(Panicked)'
  <2>1. PICK dead : dead = Panicked
    OBVIOUS
  <2>2. CloseInv(dead)' /\ Panicked' = dead
    BY <2>1 DEF DrainInv, Panicked
  <2>3. QED
    BY <2>2 DEF CloseInv, CloseCall, Settled
<1>3. QED
  BY <1>1, <1>2 DEF DrainInv
LEMMA StepDrain ==
  ASSUME IInv, DrainInv, [Next]_vars
  PROVE  DrainInv'
<1>0. TypeOK /\ CommonTypeOK /\ Visiting /\ BusInv /\ ChannelInv /\ FullInv
  BY TypeParts DEF IInv, BusInv, Slots, DrainInv
<1>1. ASSUME NEW c \in Calls, Make(c) \/ Call(c) \/ Drop(c) \/ Timer(c)
      PROVE  DrainInv'
  <2>1. UNCHANGED <<rx, poller>>
    <3>1. CASE c \in Messages
      BY <1>1, <3>1, ReceiverAssumption
         DEF Make, Call, Drop, Timer, pollVars, MessageStep, StartSend, StartRequest, Abandon,
         Reserve, PollReserve, TryReserve, DropPermit, Bump, Send, SendMessage, Mark, Answered,
         mailVars
    <3>2. CASE c \in Controls
      BY <1>1, <3>2, ReceiverAssumption
         DEF Make, Call, Drop, Timer, pollVars, ControlStep, StartControl, StartClose, TimeOut,
         Check, Register, Push, PushFails, PollFlushed, UnparkFlushed, CheckIdle, CheckReady,
         Awake, SendAction, mailVars
    <3>3. QED
      BY <3>1, <3>2 DEF Calls
  <2>2. CASE c \in Messages
    <3>1. StartSend(c) \/ StartRequest(c) \/ Abandon(c) \/ MessageStep(c)
      BY <1>1, <2>2, ReceiverAssumption DEF Make, Call, Drop, Timer
    <3>2. FullInv'
      BY <1>0, <2>2, <3>1, MessageFull
    <3>3. QED
      BY <1>0, <2>1, <2>2, <3>1, <3>2, MessageClose, OutsideDrain
  <2>3. CASE c \in Controls
    <3>1. StartControl(c) \/ StartClose(c) \/ TimeOut(c) \/ ControlStep(c)
      BY <1>1, <2>3, ReceiverAssumption DEF Make, Call, Drop, Timer
    <3>2. FullInv'
      BY <1>0, <2>3, <3>1, ControlFull
    <3>3. QED
      BY <1>0, <2>1, <2>3, <3>1, <3>2, ControlClose, OutsideDrain
  <2>4. QED
    BY <2>2, <2>3 DEF Calls
<1>2. ASSUME NEW r \in Receivers, EventLoop(r)
      PROVE  DrainInv'
  <2>1. UNCHANGED <<rx, poller>> /\ LoopStep(r) /\ UNCHANGED busVars
    BY <1>2 DEF EventLoop, pollVars, LoopStep, OnResponse, Deliver, DeliverPanics, NotifyIdle,
       NotifyResponse, OnFlushed, NotifyFlushed, OnReady, SetReady, OnSynchronized, EndLoop,
       TakeEvent, mailVars
  <2>2. FullInv'
    BY <1>0, <2>1, LoopFull
  <2>3. QED
    BY <1>0, <2>1, <2>2, LoopClose, OutsideDrain
<1>3. ASSUME NEW r \in Receivers, Poller(r)
      PROVE  DrainInv'
  BY <1>0, <1>3, PollerKeeps, KeepsDrain DEF Poller, outsidePoller, DrainInv
<1>4. ASSUME NEW r \in Receivers, NEW c \in Messages, Task(r, c) \/ Panic(r, c)
      PROVE  DrainInv'
  BY <1>0, <1>4, TaskKeeps, KeepsDrain DEF Task, Panic, outsidePoller, DrainInv
<1>5. CASE UNCHANGED vars
  <2>1. FullInv'
    BY <1>0, <1>5 DEF FullInv, QueueFull, EventsFull, GoneInv, vars, mailVars
  <2>2. UNCHANGED <<at, queue, rx, poller, wrapperVars, busVars>>
    BY <1>5 DEF vars, mailVars, pollVars
  <2>3. ASSUME NEW dead, CloseInv(dead)
        PROVE  CloseInv(dead)'
    BY <1>0, <2>2, <2>3, InsideClose DEF Told
  <2>4. QED
    BY <2>1, <2>2, <2>3, OutsideDrain
<1>6. QED
  BY <1>1, <1>2, <1>3, <1>4, <1>5 DEF Next, Finished

LEMMA InitDrain == Init => DrainInv
<1>1. SUFFICES ASSUME Init
               PROVE  DrainInv
  OBVIOUS
<1>2. FullInv /\ CloseInv(Panicked)
  BY <1>1, InitClose DEF Init
<1>3. EndInv
  BY <1>1 DEF Init, MailInit, PollInit, EndInv
<1>4. QED
  BY <1>2, <1>3 DEF DrainInv

\* When close returns, every receiver it visited has ended with nothing it accepted
\* still under way, or was given up after 20 seconds, or has panicked: whichever
\* closes run one after another, and wherever the messages were when they began.
THEOREM CloseLeavesNothing == Spec => []CloseDrains
<1>1. Init => DrainInv
  BY InitDrain
<1>2. IInv /\ DrainInv /\ [Next]_vars => DrainInv'
  BY StepDrain
<1>3. IInv /\ DrainInv => CloseDrains
  <2>1. SUFFICES ASSUME IInv, DrainInv, NEW c \in Controls, Op[c] = "close", pc[c] = "done",
                        NEW i \in DOMAIN Route[c], ~GivenUp(Route[c][i]),
                        poller[Route[c][i]] # "panicked"
                 PROVE  Copies(Route[c][i], InFlight) = {}
    BY DEF CloseDrains, InFlight
  <2>2. Settled(Panicked, Route[c][i])
    BY <2>1 DEF DrainInv, CloseInv, CloseCall
  <2>3. QED
    BY <2>1, <2>2 DEF Settled, Panicked, Drained
<1>4. QED
  BY <1>1, <1>2, <1>3, Invariance, PTL DEF Spec

---------------------------------------------------------------------------
(* Flushes and syncs. *)

Flushing == {r \in Receivers : poller[r] = "flush"}
Syncing == {r \in Receivers : poller[r] \in {"sync", "syncing"}}

\* What the control b is to cover has been handled at r.
Clear == {p \in Controls \X Receivers : \A m \in before[p[1]] : at[p[2]][m] \notin Unhandled}

\* The poller of r has ended with nothing unhandled.
Over == {r \in Receivers : rx[r] = "gone" /\ Copies(r, Unhandled) = {}}

\* A message is held only by a poller that waits for a task permit, and what a
\* control is to cover is not queued any more when its Flush or Sync is taken.
TakenInv ==
  \A r \in Receivers, m \in Messages :
    /\ at[r][m] = "held" =>
         /\ poller[r] = "acquire"
         /\ \A n \in Messages : at[r][n] = "held" => m = n
    /\ \A b \in Controls :
         /\ Barrier(b, r) /\ Active(b) /\ m \in before[b]
         /\ \/ Op[b] = "flush" /\ r \in Flushing
            \/ Op[b] = "sync" /\ r \in Syncing
         => at[r][m] # "queued"

CoversInv == TakenInv /\ CoverInv(Flushing, Syncing, Clear, Over)

\* Nothing runs when the poller has every permit, or holds the lock.
LEMMA NoTasks ==
  ASSUME TypeOK, SemaphoreInv, NEW r \in Receivers,
         sem[r] = MaxParallel[r] \/ poller[r] = "syncing"
  PROVE  \A m \in Messages : at[r][m] # "running"
<1>1. /\ sem[r] \in Nat /\ MaxParallel[r] \in Nat
      /\ IsFiniteSet(Tasks(r)) /\ Cardinality(Tasks(r)) \in Nat
  BY BufferUnorderedAssumption, CopiesFinite, FS_CardinalityType
     DEF TypeOK, CommonTypeOK, PollTypeOK, Tasks
<1>2. CASE poller[r] = "syncing"
  BY <1>2 DEF SemaphoreInv, Tasks, Copies
<1>3. CASE poller[r] # "syncing"
  <2>1. Cardinality(Tasks(r)) = 0
    BY <1>1, <1>3 DEF SemaphoreInv
  <2>2. Tasks(r) = {}
    BY <1>1, <2>1, FS_EmptySet
  <2>3. QED
    BY <2>2 DEF Tasks, Copies
<1>4. QED
  BY <1>2, <1>3

\* A message gets unhandled only while its call goes on and the queue is open.
LEMMA StepGrows ==
  ASSUME TypeOK, TypeOK', Progress, NEW clear, NEW more, NEW over, NEW gone,
         clear = Clear, more = Clear', over = Over, gone = Over',
         \A r \in Receivers, m \in Messages : at'[r][m] \in Unhandled =>
           at[r][m] \in Unhandled \/ (pc[m] # "done" /\ rx[r] = "open"),
         \A r \in Receivers : rx[r] = "gone" => rx'[r] = "gone",
         \A b \in Controls : pc[b] # "start" => before'[b] = before[b]
  PROVE  Grows(clear, more, over, gone)
<1>1. /\ before \in [Controls -> SUBSET Messages] /\ before' \in [Controls -> SUBSET Messages]
  BY DEF TypeOK, BusTypeOK
<1>2. ASSUME NEW b \in Controls, NEW r \in Receivers
      PROVE  /\ pc[b] # "start" /\ <<b, r>> \in clear => <<b, r>> \in more
             /\ (\A m \in before'[b] : at'[r][m] \notin Unhandled) => <<b, r>> \in more
             /\ r \in gone => <<b, r>> \in more
  <2>1. /\ <<b, r>> \in clear <=> \A m \in before[b] : at[r][m] \notin Unhandled
        /\ <<b, r>> \in more <=> \A m \in before'[b] : at'[r][m] \notin Unhandled
    BY DEF Clear
  <2>2. \A m \in before[b] : m \in Messages /\ pc[m] = "done"
    BY <1>1 DEF Progress
  <2>3. r \in gone => \A m \in Messages : at'[r][m] \notin Unhandled
    BY DEF Over, Copies
  <2>4. QED
    BY <1>1, <2>1, <2>2, <2>3
<1>3. ASSUME NEW r \in Receivers, r \in over
      PROVE  r \in gone
  <2>1. rx'[r] = "gone" /\ rx[r] = "gone" /\ \A m \in Messages : at[r][m] \notin Unhandled
    BY <1>3 DEF Over, Copies
  <2>2. \A m \in Messages : at'[r][m] \notin Unhandled
    BY <2>1
  <2>3. QED
    BY <2>1, <2>2 DEF Over, Copies
<1>4. QED
  BY <1>2, <1>3 DEF Grows

LEMMA PanicWorks ==
  ASSUME TypeOK, NEW flushing, NEW taking, NEW syncing, NEW meeting, NEW more, NEW gone,
         taking = Flushing', meeting = Syncing', gone = Over',
         NEW r \in Receivers, PollerPanics(r), UNCHANGED events,
         \A m \in Messages : at[r][m] \notin {"held", "running"}
  PROVE  Works(flushing, taking, syncing, meeting, more, gone, r)
<1>1. /\ at'[r] = [c \in Messages |-> IF at[r][c] = "queued" THEN "lost" ELSE at[r][c]]
      /\ queue'[r] = <<>> /\ rx'[r] = "gone" /\ poller'[r] = "panicked"
  BY DEF PollerPanics, TypeOK, MailTypeOK, PollTypeOK
<1>2. \A m \in Messages : at'[r][m] \notin Unhandled
  BY <1>1 DEF Unhandled
<1>3. r \in gone /\ r \notin taking /\ r \notin meeting
  BY <1>1, <1>2 DEF Over, Copies, Flushing, Syncing
<1>4. QED
  BY <1>1, <1>2, <1>3 DEF Works, Unhandled

LEMMA EmitWorks ==
  ASSUME TypeOK, NEW flushing, NEW taking, NEW syncing, NEW meeting, NEW more, NEW gone,
         taking = Flushing', meeting = Syncing', gone = Over',
         NEW r \in Receivers, NEW x \in Signals, PollerEmits(r, x),
         srx[r] => UNCHANGED queue \/ Receive(r),
         \A m \in Messages : at[r][m] \notin {"held", "running"},
         x = "Flushed" =>
           /\ r \in flushing
           /\ UNCHANGED at => \A b \in Controls :
                Barrier(b, r) /\ Op[b] = "flush" /\ Active(b) => <<b, r>> \in more,
         x = "Synchronized" =>
           /\ r \in syncing
           /\ UNCHANGED at => \A b \in Controls :
                Barrier(b, r) /\ Op[b] = "sync" /\ Active(b) => <<b, r>> \in more
  PROVE  Works(flushing, taking, syncing, meeting, more, gone, r)
<1>1. CASE ~srx[r]
  BY <1>1, PanicWorks DEF PollerEmits
<1>2. CASE srx[r]
  <2>1. /\ poller'[r] = "recv" /\ events'[r] = Append(events[r], x) /\ UNCHANGED <<at, rx>>
        /\ queue'[r] = queue[r] \/ (queue[r] # <<>> /\ queue'[r] = Tail(queue[r]))
    BY <1>2 DEF PollerEmits, Receive, TypeOK, MailTypeOK, PollTypeOK
  <2>2. r \notin taking /\ r \notin meeting
    BY <2>1 DEF Flushing, Syncing
  <2>3. /\ \/ queue'[r] = queue[r]
           \/ queue[r] # <<>> /\ queue'[r] = Tail(queue[r])
           \/ queue'[r] = <<>>
        /\ \E y : /\ events'[r] = Append(events[r], y)
                  /\ y = "Flushed" =>
                       /\ r \in flushing
                       /\ \A b \in Controls :
                            Barrier(b, r) /\ Op[b] = "flush" /\ Active(b) => <<b, r>> \in more
                  /\ y = "Synchronized" =>
                       /\ r \in syncing /\ r \notin meeting
                       /\ \A b \in Controls :
                            Barrier(b, r) /\ Op[b] = "sync" /\ Active(b) => <<b, r>> \in more
    BY <2>1, <2>2
  <2>4. QED
    BY <2>1, <2>2, <2>3 DEF Works
<1>3. QED
  BY <1>1, <1>2

LEMMA PollerWorks ==
  ASSUME IInv, DrainInv, CoversInv, TypeOK',
         NEW flushing, NEW taking, NEW syncing, NEW meeting, NEW more, NEW gone,
         flushing = Flushing, taking = Flushing', syncing = Syncing, meeting = Syncing',
         more = Clear', gone = Over',
         NEW r \in Receivers, PollerStep(r), UNCHANGED outsidePoller
  PROVE  Works(flushing, taking, syncing, meeting, more, gone, r)
<1>0. /\ TypeOK /\ CommonTypeOK /\ at \in [Receivers -> [Messages -> Place]]
      /\ queue \in [Receivers -> Seq(Messages \cup Actions)]
      /\ rx \in [Receivers -> {"open", "closed", "gone"}]
      /\ poller \in [Receivers -> PollerPlace]
      /\ before' = before
  BY TypeParts DEF IInv, TypeOK, MailTypeOK, PollTypeOK, outsidePoller, busVars, localVars
<1>1. /\ r \in flushing <=> poller[r] = "flush"
      /\ r \in taking <=> poller'[r] = "flush"
      /\ r \in syncing <=> poller[r] \in {"sync", "syncing"}
      /\ r \in meeting <=> poller'[r] \in {"sync", "syncing"}
  BY DEF Flushing, Syncing
<1>2. poller[r] # "acquire" => \A m \in Messages : at[r][m] # "held"
  BY DEF CoversInv, TakenInv
<1>3. Holds(queue, "queued") /\ SemaphoreInv
  BY DEF IInv, ChannelInv
<1>4. queue[r] # <<>> => Carries(queue[r], Incoming(r))
  <2>1. queue[r] \in Seq(Messages \cup Actions)
    BY <1>0
  <2>2. QED
    BY <2>1, 1 \in DOMAIN queue[r] \/ queue[r] = <<>> DEF Carries, Incoming
<1>5. CASE PollRequest(r)
  <2>1. at[r][Incoming(r)] = "queued" /\ Incoming(r) \in Messages
    BY <1>0, <1>3, <1>5, ReceiveHolds DEF PollRequest, IInv
  <2>2. /\ poller[r] = "recv" /\ poller'[r] = "acquire" /\ queue[r] # <<>>
        /\ queue'[r] = Tail(queue[r]) /\ UNCHANGED <<events, rx>>
        /\ \A m \in Messages : at'[r][m] = at[r][m] \/ at[r][m] = "queued"
    BY <1>0, <1>5, <2>1 DEF PollRequest, PollerGoes, Receive, Move
  <2>3. QED
    BY <1>1, <2>2 DEF Works, Unhandled
<1>6. CASE Spawn(r)
  <2>1. /\ poller'[r] = "recv" /\ UNCHANGED <<queue, rx, events>>
        /\ \A m \in Messages : at'[r][m] = at[r][m] \/ at[r][m] = "held"
    BY <1>0, <1>6 DEF Spawn, PollerGoes, Move
  <2>2. QED
    BY <1>1, <2>1 DEF Works, Unhandled
<1>7. CASE PollInitAction(r)
  <2>1. PollerEmits(r, "Ready") /\ poller[r] = "recv" /\ Carries(queue[r], "Init")
        /\ (srx[r] => Receive(r))
    BY <1>4, <1>7 DEF PollInitAction
  <2>2. \A m \in Messages : at[r][m] \notin {"held", "running"}
    BY <2>1 DEF CoversInv, CoverInv, InitFirst
  <2>3. QED
    BY <1>0, <2>1, <2>2, EmitWorks DEF Signals
<1>8. CASE PollClose(r)
  <2>1. /\ queue'[r] = Tail(queue[r]) /\ queue[r] # <<>> /\ Carries(queue[r], "Close")
        /\ poller' = poller /\ UNCHANGED <<at, events>>
    BY <1>0, <1>4, <1>8 DEF PollClose, Receive, pollVars
  <2>2. QED
    BY <1>1, <2>1 DEF Works
<1>9. CASE PollFlush(r) \/ PollSync(r)
  <2>1. /\ queue'[r] = Tail(queue[r]) /\ queue[r] # <<>> /\ UNCHANGED <<at, rx, events>>
        /\ \/ poller'[r] = "flush" /\ Carries(queue[r], "Flush")
           \/ poller'[r] = "sync" /\ Head(queue[r]) = "Sync"
    BY <1>0, <1>4, <1>9 DEF PollFlush, PollSync, PollerGoes, Receive, Incoming
  <2>2. QED
    BY <1>1, <2>1 DEF Works
<1>10. CASE FinishFlush(r)
  <2>1. PollerEmits(r, "Flushed") /\ poller[r] = "flush" /\ (srx[r] => UNCHANGED queue)
        /\ sem[r] = MaxParallel[r]
    BY <1>10 DEF FinishFlush
  <2>2. \A m \in Messages : at[r][m] \notin {"held", "running"}
    BY <1>0, <1>2, <1>3, <2>1, NoTasks
  <2>3. ASSUME UNCHANGED at, NEW b \in Controls, Barrier(b, r), Op[b] = "flush", Active(b)
        PROVE  <<b, r>> \in more
    <3>1. \A m \in before[b] : m \in Messages /\ at[r][m] # "queued"
      BY <1>0, <1>1, <2>1, <2>3
         DEF CoversInv, TakenInv, Flushing, CommonTypeOK, BusTypeOK
    <3>2. \A m \in before'[b] : at'[r][m] \notin Unhandled
      BY <1>0, <2>2, <2>3, <3>1 DEF Unhandled
    <3>3. QED
      BY <3>2 DEF Clear
  <2>4. QED
    BY <1>0, <1>1, <2>1, <2>2, <2>3, EmitWorks DEF Signals
<1>11. CASE StartSync(r)
  <2>1. poller[r] = "sync" /\ poller'[r] = "syncing" /\ UNCHANGED <<at, queue, rx, events>>
    BY <1>0, <1>11 DEF StartSync, PollerGoes, mailVars
  <2>2. QED
    BY <1>1, <2>1 DEF Works
<1>12. CASE FinishSync(r)
  <2>1. PollerEmits(r, "Synchronized") /\ poller[r] = "syncing" /\ (srx[r] => UNCHANGED queue)
    BY <1>12 DEF FinishSync
  <2>2. \A m \in Messages : at[r][m] \notin {"held", "running"}
    BY <1>0, <1>2, <1>3, <2>1, NoTasks
  <2>3. ASSUME UNCHANGED at, NEW b \in Controls, Barrier(b, r), Op[b] = "sync", Active(b)
        PROVE  <<b, r>> \in more
    <3>1. \A m \in before[b] : m \in Messages /\ at[r][m] # "queued"
      BY <1>0, <1>1, <2>1, <2>3
         DEF CoversInv, TakenInv, Syncing, CommonTypeOK, BusTypeOK
    <3>2. \A m \in before'[b] : at'[r][m] \notin Unhandled
      BY <1>0, <2>2, <2>3, <3>1 DEF Unhandled
    <3>3. QED
      BY <3>2 DEF Clear
  <2>4. QED
    BY <1>0, <1>1, <2>1, <2>2, <2>3, EmitWorks DEF Signals
<1>13. CASE EndPoller(r)
  <2>1. poller'[r] = "ended" /\ UNCHANGED <<at, queue, events>> /\ rx[r] = "closed"
    BY <1>0, <1>13 DEF EndPoller, PollerGoes
  <2>2. QED
    BY <1>1, <2>1 DEF Works
<1>14. QED
  BY <1>5, <1>6, <1>7, <1>8, <1>9, <1>10, <1>11, <1>12, <1>13 DEF PollerStep

LEMMA TaskWorks ==
  ASSUME TypeOK, NEW r \in Receivers, NEW c \in Messages,
         NEW flushing, NEW taking, NEW syncing, NEW meeting, NEW more, NEW gone,
         flushing = Flushing, taking = Flushing', syncing = Syncing, meeting = Syncing',
         HandlerReturns(r, c) \/ Respond(r, c) \/ HandlerPanics(r, c)
  PROVE  Works(flushing, taking, syncing, meeting, more, gone, r)
<1>0. /\ at \in [Receivers -> [Messages -> Place]] /\ c \notin Signals
      /\ events \in [Receivers -> Seq(Messages \cup Signals)]
  BY MailboxAssumption DEF TypeOK, MailTypeOK
<1>1. UNCHANGED <<queue, rx, poller>>
  BY DEF HandlerReturns, Respond, HandlerPanics, pollVars
<1>2. taking = flushing /\ meeting = syncing
  BY <1>1 DEF Flushing, Syncing
<1>3. /\ \A m \in Messages : at'[r][m] = at[r][m] \/ at'[r][m] \in {"handled", "lost", "answered"}
      /\ events'[r] = events[r] \/ events'[r] = Append(events[r], c)
  BY <1>0 DEF HandlerReturns, Respond, HandlerPanics, Move
<1>4. \/ events'[r] = events[r]
      \/ \E x : events'[r] = Append(events[r], x) /\ x # "Flushed" /\ x # "Synchronized"
  BY <1>0, <1>3 DEF Signals
<1>5. QED
  BY <1>1, <1>2, <1>3, <1>4 DEF Works, Unhandled

\* A step of a poller or a task, seen from the other receivers.
LEMMA ElsewhereWorks ==
  ASSUME NEW r \in Receivers, Here(r), NEW s \in Receivers, s # r,
         NEW flushing, NEW taking, NEW syncing, NEW meeting, NEW more, NEW gone,
         flushing = Flushing, taking = Flushing', syncing = Syncing, meeting = Syncing'
  PROVE  Works(flushing, taking, syncing, meeting, more, gone, s)
<1>1. /\ at'[s] = at[s] /\ queue'[s] = queue[s] /\ events'[s] = events[s]
      /\ rx'[s] = rx[s] /\ poller'[s] = poller[s]
  BY DEF Here
<1>2. (s \in taking <=> s \in flushing) /\ (s \in meeting <=> s \in syncing)
  BY <1>1 DEF Flushing, Syncing
<1>3. QED
  BY <1>1, <1>2 DEF Works

LEMMA PollerTaken ==
  ASSUME IInv, DrainInv, CoversInv, NEW r \in Receivers, PollerStep(r), UNCHANGED outsidePoller
  PROVE  TakenInv'
<1>0. /\ CommonTypeOK /\ at \in [Receivers -> [Messages -> Place]]
      /\ queue \in [Receivers -> Seq(Messages \cup Actions)]
      /\ poller \in [Receivers -> PollerPlace]
      /\ UNCHANGED <<pc, before>> /\ TakenInv
      /\ Messages \cap Actions = {}
      /\ Holds(queue, "queued")
      /\ before \in [Controls -> SUBSET Messages]
  BY TypeParts, MailboxAssumption DEF IInv, TypeOK, MailTypeOK, PollTypeOK, BusTypeOK,
     outsidePoller, busVars, localVars, CoversInv, ChannelInv
<1>1. Here(r)
  BY PollerKeeps DEF IInv, DrainInv, Keeps
<1>2. /\ \A m \in Messages : at'[r][m] = "queued" => at[r][m] = "queued"
      /\ \A m \in Messages : at'[r][m] = "held" =>
           /\ poller'[r] = "acquire"
           /\ \A n \in Messages : at'[r][n] = "held" => m = n
      /\ poller'[r] = "flush" => poller[r] = "flush" \/ PollFlush(r)
      /\ poller'[r] \in {"sync", "syncing"} => poller[r] \in {"sync", "syncing"} \/ PollSync(r)
  <2>1. /\ poller[r] # "acquire" => \A m \in Messages : at[r][m] # "held"
        /\ \A m, n \in Messages : at[r][m] = "held" /\ at[r][n] = "held" => m = n
    BY <1>0 DEF TakenInv
  <2>a. ASSUME UNCHANGED at, poller[r] # "acquire"
        PROVE  /\ \A m \in Messages : at'[r][m] = "queued" => at[r][m] = "queued"
               /\ \A m \in Messages : at'[r][m] # "held"
    BY <2>1, <2>a
  <2>b. ASSUME NEW x, PollerEmits(r, x), poller[r] # "acquire"
        PROVE  /\ \A m \in Messages : at'[r][m] = "queued" => at[r][m] = "queued"
               /\ \A m \in Messages : at'[r][m] # "held"
               /\ poller'[r] \in {"recv", "panicked"}
    <3>1. /\ poller'[r] \in {"recv", "panicked"}
          /\ \A m \in Messages : at'[r][m] = at[r][m] \/ at'[r][m] = "lost"
      BY <1>0, <2>b DEF PollerEmits, PollerPanics
    <3>2. QED
      BY <2>1, <2>b, <3>1
  <2>2. CASE PollRequest(r)
    <3>1. /\ poller[r] = "recv" /\ poller'[r] = "acquire" /\ Incoming(r) \in Messages
          /\ at'[r] = [at[r] EXCEPT ![Incoming(r)] = "held"]
      BY <1>0, <2>2 DEF PollRequest, PollerGoes, Move
    <3>2. QED
      BY <1>0, <2>1, <3>1
  <2>3. CASE Spawn(r)
    <3>1. PICK c \in Messages : at[r][c] = "held" /\ at'[r] = [at[r] EXCEPT ![c] = "running"]
      BY <1>0, <2>3 DEF Spawn, Move
    <3>2. poller'[r] = "recv"
      BY <1>0, <2>3 DEF Spawn, PollerGoes
    <3>3. QED
      BY <1>0, <2>1, <3>1, <3>2
  <2>4. CASE PollInitAction(r) \/ FinishFlush(r) \/ FinishSync(r)
    BY <2>4, <2>b DEF PollInitAction, FinishFlush, FinishSync
  <2>5. CASE PollClose(r) \/ EndPoller(r) \/ StartSync(r)
    <3>1. /\ UNCHANGED at /\ poller[r] # "acquire" /\ poller'[r] # "flush"
          /\ poller'[r] = "syncing" => poller[r] = "sync"
          /\ poller'[r] # "sync"
      BY <1>0, <2>5 DEF PollClose, EndPoller, StartSync, PollerGoes, pollVars, mailVars
    <3>2. QED
      BY <2>a, <3>1
  <2>6. CASE PollFlush(r) \/ PollSync(r)
    <3>1. /\ UNCHANGED at /\ poller[r] # "acquire"
          /\ poller'[r] = "flush" => PollFlush(r)
          /\ poller'[r] \in {"sync", "syncing"} => PollSync(r)
      BY <1>0, <2>6 DEF PollFlush, PollSync, PollerGoes
    <3>2. QED
      BY <2>a, <3>1
  <2>7. QED
    BY <2>2, <2>3, <2>4, <2>5, <2>6 DEF PollerStep
<1>3. ASSUME NEW x \in Actions, Receive(r), Incoming(r) = x, NEW b \in Controls, Barrier(b, r),
             Active(b), ActionOf(b) = x, NEW m \in before[b]
      PROVE  at[r][m] # "queued"
  <2>1. m \in Messages /\ m # x /\ ~Ahead(queue[r], x, m)
    <3>1. m \in Messages /\ x \in Actions
      BY <1>0, <1>3
    <3>2. BarrierAt(Clear, Over, b, r)
      BY <1>3 DEF CoversInv, CoverInv
    <3>3. ~Ahead(queue[r], x, m)
      BY <1>3, <3>2 DEF BarrierAt
    <3>4. QED
      BY <1>0, <3>1, <3>3
  <2>2. queue[r] \in Seq(Messages \cup Actions) /\ queue[r] # <<>> /\ Head(queue[r]) = x
    BY <1>0, <1>3 DEF Receive, Incoming
  <2>3. ~Carries(queue[r], m)
    BY <2>1, <2>2, CarriesTail, AheadTail
  <2>4. QED
    BY <2>1, <2>3 DEF DrainInv, FullInv, QueueFull
<1>4. SUFFICES ASSUME NEW s \in Receivers, NEW m \in Messages
               PROVE  /\ at'[s][m] = "held" =>
                           /\ poller'[s] = "acquire"
                           /\ \A n \in Messages : at'[s][n] = "held" => m = n
                      /\ \A b \in Controls :
                           /\ Barrier(b, s) /\ Active(b) /\ m \in before[b]
                           /\ \/ Op[b] = "flush" /\ poller'[s] = "flush"
                              \/ Op[b] = "sync" /\ poller'[s] \in {"sync", "syncing"}
                           => at'[s][m] # "queued"
  BY <1>0 DEF TakenInv, Active, Flushing, Syncing
<1>5. CASE s # r
  BY <1>0, <1>1, <1>5 DEF Here, TakenInv, Flushing, Syncing
<1>6. CASE s = r
  <2>1. SUFFICES ASSUME NEW b \in Controls, Barrier(b, r), Active(b), m \in before[b],
                        \/ Op[b] = "flush" /\ poller'[r] = "flush"
                        \/ Op[b] = "sync" /\ poller'[r] \in {"sync", "syncing"},
                        at[r][m] = "queued"
                 PROVE  FALSE
    BY <1>2, <1>6
  <2>2. CASE \/ Op[b] = "flush" /\ poller[r] = "flush"
             \/ Op[b] = "sync" /\ poller[r] \in {"sync", "syncing"}
    BY <1>0, <2>1, <2>2 DEF TakenInv, Flushing, Syncing
  <2>3. CASE Op[b] = "flush" /\ PollFlush(r)
    BY <1>3, <2>1, <2>3 DEF PollFlush, ActionOf, Actions
  <2>4. CASE Op[b] = "sync" /\ PollSync(r)
    BY <1>3, <2>1, <2>4 DEF PollSync, ActionOf, Actions
  <2>5. CASE Op[b] = "flush"
    BY <1>2, <2>1, <2>2, <2>3, <2>5
  <2>6. CASE Op[b] = "sync"
    BY <1>2, <2>1, <2>2, <2>4, <2>6
  <2>7. QED
    BY <2>1, <2>5, <2>6
<1>7. QED
  BY <1>5, <1>6

LEMMA TaskTaken ==
  ASSUME TypeOK, TakenInv, NEW r \in Receivers, NEW c \in Messages,
         HandlerReturns(r, c) \/ Respond(r, c) \/ HandlerPanics(r, c), UNCHANGED outsidePoller
  PROVE  TakenInv'
<1>1. UNCHANGED <<poller, pc, before>>
  BY DEF HandlerReturns, Respond, HandlerPanics, pollVars, outsidePoller, busVars, localVars
<1>2. \A s \in Receivers, m \in Messages :
        at'[s][m] = at[s][m] \/ at'[s][m] \in {"handled", "lost", "answered"}
  <2>1. PICK p \in {"handled", "lost", "answered"} : Move(r, c, p)
    BY DEF HandlerReturns, Respond, HandlerPanics
  <2>2. QED
    BY <2>1 DEF Move, TypeOK, MailTypeOK
<1>3. QED
  BY <1>1, <1>2 DEF TakenInv, Active, Flushing, Syncing

\* A step of a call or an event loop: no control begins while a Flush or a Sync
\* that could be its own is taken.
LEMMA OutsideTaken ==
  ASSUME TypeOK, TypeOK', TakenInv, Progress, UNCHANGED poller,
         \A r \in Receivers, m \in Messages :
           /\ at'[r][m] = "held" => at[r][m] = "held"
           /\ at'[r][m] = "queued" => at[r][m] = "queued" \/ pc[m] # "done",
         \A b \in Controls : Active(b)' =>
           \/ Active(b) /\ before'[b] = before[b]
           \/ \A r \in Receivers : Barrier(b, r) =>
                /\ Op[b] = "flush" => r \notin Flushing
                /\ Op[b] = "sync" => r \notin Syncing
  PROVE  TakenInv'
<1>1. SUFFICES ASSUME NEW r \in Receivers, NEW m \in Messages
               PROVE  /\ at'[r][m] = "held" =>
                           /\ poller'[r] = "acquire"
                           /\ \A n \in Messages : at'[r][n] = "held" => m = n
                      /\ \A b \in Controls :
                           /\ Barrier(b, r) /\ Active(b)' /\ m \in before'[b]
                           /\ \/ Op[b] = "flush" /\ r \in Flushing
                              \/ Op[b] = "sync" /\ r \in Syncing
                           => at'[r][m] # "queued"
  BY DEF TakenInv, Flushing, Syncing
<1>2. at'[r][m] = "held" =>
        /\ poller'[r] = "acquire"
        /\ \A n \in Messages : at'[r][n] = "held" => m = n
  BY DEF TakenInv
<1>3. ASSUME NEW b \in Controls, Barrier(b, r), Active(b)', m \in before'[b],
             \/ Op[b] = "flush" /\ r \in Flushing
             \/ Op[b] = "sync" /\ r \in Syncing
      PROVE  at'[r][m] # "queued"
  <2>1. Active(b) /\ m \in before[b]
    BY <1>3
  <2>2. pc[m] = "done" /\ at[r][m] # "queued"
    BY <1>3, <2>1 DEF Progress, TakenInv
  <2>3. QED
    BY <2>2
<1>4. QED
  BY <1>2, <1>3

LEMMA CoversNow ==
  ASSUME NEW flushing, NEW syncing, NEW clear, NEW over,
         flushing = Flushing', syncing = Syncing', clear = Clear', over = Over',
         Progress',
         \A r \in Receivers : InitFirst(r)' /\ SyncTokens(syncing, r)',
         \A b \in Controls, r \in Receivers : Barrier(b, r) =>
           /\ BarrierAt(clear, over, b, r)'
           /\ Op[b] = "flush" => FlushAt(flushing, clear, b, r)'
           /\ Op[b] = "sync" => SyncAt(clear, b, r)'
  PROVE  CoverInv(Flushing, Syncing, Clear, Over)'
<1>1. \A r \in Receivers : SyncTokens(Syncing, r)'
  BY DEF SyncTokens, SyncSent
<1>2. \A b \in Controls, r \in Receivers : Barrier(b, r) =>
        /\ BarrierAt(Clear, Over, b, r)'
        /\ Op[b] = "flush" => FlushAt(Flushing, Clear, b, r)'
        /\ Op[b] = "sync" => SyncAt(Clear, b, r)'
  BY DEF BarrierAt, FlushAt, SyncAt
<1>3. QED
  BY <1>1, <1>2 DEF CoverInv, Barrier, Visits

\* The step of a poller or a task.
LEMMA InsideCovers ==
  ASSUME IInv, DrainInv, CoversInv, TypeOK', NEW r \in Receivers,
         \/ PollerStep(r)
         \/ \E c \in Messages : HandlerReturns(r, c) \/ Respond(r, c) \/ HandlerPanics(r, c),
         UNCHANGED outsidePoller
  PROVE  CoversInv'
<1>0. /\ TypeOK /\ CommonTypeOK /\ Visiting /\ Progress
      /\ UNCHANGED <<wrapperVars, loop, busVars, pc, before>>
  BY TypeParts DEF IInv, CoversInv, CoverInv, outsidePoller, busVars, localVars
<1>1. Here(r) /\ (rx[r] = "gone" => rx'[r] = "gone")
  BY PollerKeeps, TaskKeeps DEF IInv, DrainInv, Keeps
<1>2. TakenInv'
  BY <1>0, PollerTaken, TaskTaken DEF CoversInv
<1>3. PICK flushing, taking, syncing, meeting :
        flushing = Flushing /\ taking = Flushing' /\ syncing = Syncing /\ meeting = Syncing'
  OBVIOUS
<1>4. PICK clear, more, over, gone :
        clear = Clear /\ more = Clear' /\ over = Over /\ gone = Over'
  OBVIOUS
<1>5. \A s \in Receivers : Works(flushing, taking, syncing, meeting, more, gone, s)
  <2>1. Works(flushing, taking, syncing, meeting, more, gone, r)
    BY <1>0, <1>3, <1>4, PollerWorks, TaskWorks
  <2>2. QED
    BY <1>1, <1>3, <2>1, ElsewhereWorks
<1>6. Grows(clear, more, over, gone)
  <2>1. \A s \in Receivers, m \in Messages : at'[s][m] \in Unhandled => at[s][m] \in Unhandled
    BY <1>5 DEF Works
  <2>2. \A s \in Receivers : rx[s] = "gone" => rx'[s] = "gone"
    BY <1>1 DEF Here
  <2>3. QED
    BY <1>0, <1>4, <2>1, <2>2, StepGrows
<1>7. CoverInv(flushing, syncing, clear, over)
  BY <1>3, <1>4 DEF CoversInv
<1>8. /\ Progress'
      /\ \A s \in Receivers : InitFirst(s)' /\ SyncTokens(meeting, s)'
      /\ \A b \in Controls, s \in Receivers : Barrier(b, s) =>
           /\ BarrierAt(more, gone, b, s)'
           /\ Op[b] = "flush" => FlushAt(taking, more, b, s)'
           /\ Op[b] = "sync" => SyncAt(more, b, s)'
  BY <1>0, <1>5, <1>6, <1>7, InsideCover
<1>9. CoverInv(Flushing, Syncing, Clear, Over)'
  BY <1>3, <1>4, <1>8, CoversNow
<1>10. QED
  BY <1>2, <1>9 DEF CoversInv

\* A step of a call or an event loop.
LEMMA OutsideCovers ==
  ASSUME IInv, CoversInv, TypeOK', UNCHANGED <<rx, poller>>,
         \A r \in Receivers, m \in Messages :
           /\ at'[r][m] = "held" => at[r][m] = "held"
           /\ at'[r][m] \in Unhandled =>
                \/ at'[r][m] = at[r][m]
                \/ at'[r][m] = "queued" /\ pc[m] # "done" /\ rx[r] = "open",
         \A b \in Controls :
           /\ pc[b] # "start" => before'[b] = before[b]
           /\ Active(b)' =>
                \/ Active(b)
                \/ /\ pc[b] = "start"
                   /\ \A d \in After[b] : pc[d] = "done",
         BarriersApart,
         \A flushing, syncing, clear, more, over, gone :
           CoverInv(flushing, syncing, clear, over) /\ Grows(clear, more, over, gone) =>
             CoverInv(flushing, syncing, more, gone)'
  PROVE  CoversInv'
<1>0. TypeOK /\ CommonTypeOK /\ Visiting /\ Progress /\ TakenInv
  BY TypeParts DEF IInv, CoversInv, CoverInv
<1>1. PICK flushing, syncing : flushing = Flushing /\ syncing = Syncing
  OBVIOUS
<1>2. PICK clear, more, over, gone :
        clear = Clear /\ more = Clear' /\ over = Over /\ gone = Over'
  OBVIOUS
<1>3. CoverInv(flushing, syncing, clear, over)
  BY <1>1, <1>2 DEF CoversInv
<1>4. Grows(clear, more, over, gone)
  BY <1>0, <1>2, StepGrows
<1>5. CoverInv(flushing, syncing, more, gone)'
  BY <1>3, <1>4
<1>6. flushing = Flushing' /\ syncing = Syncing'
  BY <1>1 DEF Flushing, Syncing
<1>7. CoverInv(Flushing, Syncing, Clear, Over)'
  <2>1. /\ Progress'
        /\ \A s \in Receivers : InitFirst(s)' /\ SyncTokens(syncing, s)'
        /\ \A b \in Controls, s \in Receivers : Barrier(b, s) =>
             /\ BarrierAt(more, gone, b, s)'
             /\ Op[b] = "flush" => FlushAt(flushing, more, b, s)'
             /\ Op[b] = "sync" => SyncAt(more, b, s)'
    BY <1>5 DEF CoverInv, Barrier, Visits
  <2>2. QED
    BY <1>2, <1>6, <2>1, CoversNow
<1>8. \A b \in Controls : Active(b)' =>
        \/ Active(b) /\ before'[b] = before[b]
        \/ \A r \in Receivers : Barrier(b, r) =>
             /\ Op[b] = "flush" => r \notin Flushing
             /\ Op[b] = "sync" => r \notin Syncing
  <2>1. SUFFICES ASSUME NEW b \in Controls, pc[b] = "start", \A d \in After[b] : pc[d] = "done",
                        NEW r \in Receivers, Barrier(b, r)
                 PROVE  /\ Op[b] = "flush" => r \notin Flushing
                        /\ Op[b] = "sync" => r \notin Syncing
    BY DEF Active
  <2>2. Op[b] = "flush" => r \notin Flushing
    BY <1>1, <1>3, <2>1 DEF CoverInv, FlushAt
  <2>3. Op[b] = "sync" => ~SyncSent(syncing, r)
    BY <1>0, <1>3, <2>1, NoSyncSent DEF CoverInv, Barrier
  <2>4. QED
    BY <1>1, <2>2, <2>3 DEF SyncSent
<1>9. TakenInv'
  BY <1>0, <1>8, OutsideTaken DEF Unhandled
<1>10. QED
  BY <1>7, <1>9 DEF CoversInv

LEMMA StepCovers ==
  ASSUME BarriersApart, IInv, DrainInv, CoversInv, [Next]_vars
  PROVE  CoversInv'
<1>0. /\ TypeOK /\ CommonTypeOK /\ Visiting /\ BusInv /\ Progress /\ TypeOK'
      /\ at \in [Receivers -> [Messages -> Place]]
  BY TypeParts, StepInv DEF IInv, BusInv, Slots, CoversInv, CoverInv, TypeOK, MailTypeOK
<1>1. ASSUME NEW c \in Messages, Make(c) \/ Call(c) \/ Drop(c) \/ Timer(c)
      PROVE  CoversInv'
  <2>1. /\ StartSend(c) \/ StartRequest(c) \/ Abandon(c) \/ MessageStep(c)
        /\ UNCHANGED <<poller, loop>>
    BY <1>1, ReceiverAssumption DEF Make, Call, Drop, Timer, pollVars
  <2>2. /\ UNCHANGED <<rx, before>> /\ pc[c] # "done"
        /\ \A b \in Controls : pc'[b] = pc[b]
    BY <1>0, <2>1, MessageEffects, MessageProgress
  <2>3. \A r \in Receivers, m \in Messages :
          /\ at'[r][m] = "held" => at[r][m] = "held"
          /\ at'[r][m] \in Unhandled =>
               \/ at'[r][m] = at[r][m]
               \/ at'[r][m] = "queued" /\ pc[m] # "done" /\ rx[r] = "open"
    <3>1. SUFFICES ASSUME NEW r \in Receivers, NEW m \in Messages
                   PROVE  /\ at'[r][m] = "held" => at[r][m] = "held"
                          /\ at'[r][m] \in Unhandled =>
                               \/ at'[r][m] = at[r][m]
                               \/ at'[r][m] = "queued" /\ pc[m] # "done" /\ rx[r] = "open"
      OBVIOUS
    <3>2. /\ m # c => at'[r][m] = at[r][m]
          /\ \/ at'[r][c] = at[r][c]
             \/ at'[r][c] \in {"none", "permit", "refused"}
             \/ at'[r][c] = "queued" /\ rx[r] = "open"
      BY <1>0, <2>1, MessageEffects
    <3>3. QED
      BY <2>2, <3>2 DEF Unhandled
  <2>4. ASSUME NEW flushing, NEW syncing, NEW clear, NEW more, NEW over, NEW gone,
               CoverInv(flushing, syncing, clear, over), Grows(clear, more, over, gone)
        PROVE  CoverInv(flushing, syncing, more, gone)'
    BY <1>0, <2>1, <2>4, MessageCover
  <2>5. QED
    BY <1>0, <2>1, <2>2, <2>3, <2>4, OutsideCovers DEF Active
<1>2. ASSUME NEW c \in Controls, Make(c) \/ Call(c) \/ Drop(c) \/ Timer(c)
      PROVE  CoversInv'
  <2>1. /\ StartControl(c) \/ StartClose(c) \/ TimeOut(c) \/ ControlStep(c)
        /\ UNCHANGED <<poller, loop>>
    BY <1>2, ReceiverAssumption DEF Make, Call, Drop, Timer, pollVars
  <2>2. UNCHANGED <<at, rx>>
    BY <1>0, <2>1, ControlEffects
  <2>3. \A b \in Controls :
          /\ pc[b] # "start" => before'[b] = before[b]
          /\ Active(b)' =>
               \/ Active(b)
               \/ pc[b] = "start" /\ \A d \in After[b] : pc[d] = "done"
    <3>1. /\ \A b \in Controls : b # c => pc'[b] = pc[b]
          /\ \A b \in Controls : pc[c] # "start" \/ b # c => before'[b] = before[b]
          /\ pc[c] # "done"
          /\ pc[c] = "start" => StartControl(c) \/ StartClose(c)
      BY <1>0, <2>1, ControlLocal DEF Calls
    <3>2. pc[c] = "start" => \A d \in After[c] : pc[d] = "done"
      BY <3>1 DEF StartControl, StartClose, MayStart
    <3>3. QED
      BY <3>1, <3>2 DEF Active
  <2>4. ASSUME NEW flushing, NEW syncing, NEW clear, NEW more, NEW over, NEW gone,
               CoverInv(flushing, syncing, clear, over), Grows(clear, more, over, gone)
        PROVE  CoverInv(flushing, syncing, more, gone)'
    BY <1>0, <2>1, <2>4, ControlCover
  <2>5. QED
    BY <1>0, <2>1, <2>2, <2>3, <2>4, OutsideCovers
<1>3. ASSUME NEW r \in Receivers, EventLoop(r)
      PROVE  CoversInv'
  <2>1. LoopStep(r) /\ UNCHANGED <<poller, busVars, pc, before>>
    BY <1>3 DEF EventLoop, pollVars, busVars, localVars
  <2>2. UNCHANGED rx
    BY <1>0, <2>1, LoopEffects
  <2>3. \A s \in Receivers, m \in Messages :
          /\ at'[s][m] = "held" => at[s][m] = "held"
          /\ at'[s][m] \in Unhandled => at'[s][m] = at[s][m]
    BY <1>0, <2>1, LoopCopies DEF Unhandled
  <2>4. ASSUME NEW flushing, NEW syncing, NEW clear, NEW more, NEW over, NEW gone,
               CoverInv(flushing, syncing, clear, over), Grows(clear, more, over, gone)
        PROVE  CoverInv(flushing, syncing, more, gone)'
    BY <1>0, <2>1, <2>4, LoopCover
  <2>5. QED
    BY <1>0, <2>1, <2>2, <2>3, <2>4, OutsideCovers DEF Active
<1>4. ASSUME NEW r \in Receivers, Poller(r)
      PROVE  CoversInv'
  BY <1>0, <1>4, InsideCovers DEF Poller
<1>5. ASSUME NEW r \in Receivers, NEW c \in Messages, Task(r, c) \/ Panic(r, c)
      PROVE  CoversInv'
  BY <1>0, <1>5, InsideCovers DEF Task, Panic
<1>6. CASE UNCHANGED vars
  <2>1. UNCHANGED <<at, queue, rx, events, poller, pc, pos, outcome, before, again, needFlush,
                    notify, listening, loop>>
    BY <1>6 DEF vars, mailVars, pollVars, wrapperVars, contextVars, notifyVars, busVars, localVars
  <2>2. CoverInv(Flushing, Syncing, Clear, Over)'
    BY <2>1 DEF CoversInv, CoverInv, Progress, InitFirst, SyncTokens, SyncSent, SyncWaits,
       BarrierAt, FlushAt, SyncAt, FlushDue, Barrier, Visits, Active, At, Flushing, Syncing,
       Clear, Over, Copies
  <2>3. TakenInv'
    BY <2>1 DEF CoversInv, TakenInv, Active, Flushing, Syncing, Barrier, Visits
  <2>4. QED
    BY <2>2, <2>3 DEF CoversInv
<1>7. QED
  BY <1>1, <1>2, <1>3, <1>4, <1>5, <1>6 DEF Next, Finished, Calls

LEMMA InitCovers == Init => CoversInv
<1>1. SUFFICES ASSUME Init
               PROVE  CoversInv
  OBVIOUS
<1>2. Flushing = {} /\ Syncing = {}
  BY <1>1 DEF Init, PollInit, Flushing, Syncing
<1>3. PICK clear, over : clear = Clear /\ over = Over
  OBVIOUS
<1>4. CoverInv({}, {}, clear, over)
  BY <1>1, InitCover DEF Init
<1>5. CoverInv(Flushing, Syncing, Clear, Over)
  BY <1>2, <1>3, <1>4
<1>6. TakenInv
  BY <1>1 DEF Init, MailInit, TakenInv
<1>7. QED
  BY <1>5, <1>6 DEF CoversInv

\* Whatever a control that has returned "ok" was to cover is handled.
LEMMA CoversAll ==
  ASSUME CoversInv, NEW b \in Controls, Op[b] \in {"flush", "sync"}, outcome[b] = "ok",
         NEW i \in DOMAIN Route[b], NEW m \in before[b]
  PROVE  at[Route[b][i]][m] \notin Unhandled
<1>1. PICK r \in Receivers : r = Route[b][i]
  BY BusAssumption DEF Calls
<1>2. Barrier(b, r)
  BY <1>1 DEF Barrier, Visits
<1>3. pc[b] = "done" /\ BarrierAt(Clear, Over, b, r)
  BY <1>2 DEF CoversInv, CoverInv, Progress, Calls
<1>4. <<b, r>> \in Clear
  BY <1>3 DEF BarrierAt
<1>5. QED
  BY <1>1, <1>4 DEF Clear

LEMMA CoversAlways ==
  ASSUME BarriersApart
  PROVE  Spec => []CoversInv
<1>1. Init => DrainInv /\ CoversInv
  BY InitDrain, InitCovers
<1>2. IInv /\ DrainInv /\ CoversInv /\ [Next]_vars => DrainInv' /\ CoversInv'
  BY StepDrain, StepCovers
<1>3. QED
  BY <1>1, <1>2, Invariance, PTL DEF Spec

\* What was sent before a flush began has been handled when the flush returns,
\* provided that the flushes of a receiver keep out of each other's way: through
\* any number of rounds, other senders, event loops that fail and pollers that
\* panic.
THEOREM FlushesCover ==
  ASSUME BarriersApart
  PROVE  Spec => []FlushCovers
<1>1. CoversInv => FlushCovers
  BY CoversAll DEF FlushCovers, Unhandled
<1>2. QED
  BY <1>1, CoversAlways, PTL

\* And what was sent before a sync began, when it returns, provided that the syncs
\* of a receiver are made one after another.
THEOREM SyncsCover ==
  ASSUME BarriersApart
  PROVE  Spec => []SyncCovers
<1>1. CoversInv => SyncCovers
  BY CoversAll DEF SyncCovers, Unhandled
<1>2. QED
  BY <1>1, CoversAlways, PTL

---------------------------------------------------------------------------
(* reserve waits for a slot on a Notify that merges notifications and      *)
(* stores one.  With limits above zero no call is left waiting at an idle  *)
(* receiver, except where permit_drop gave the slot back.                  *)

Slept(r) == notify[r].response

\* A permit is stored only when nobody waits, and who waits is a call parked in
\* reserve at this receiver, once.
WaitingInv ==
  \A r \in Receivers :
    /\ Slept(r).permit => Slept(r).waiting = <<>>
    /\ \A c \in Calls : IsParked(Slept(r), c) =>
         c \in Messages /\ pc[c] = "parked" /\ At(c) = r
    /\ \A i, j \in DOMAIN Slept(r).waiting :
         Slept(r).waiting[i] = Slept(r).waiting[j] => i = j

CallInv ==
  \A c \in Messages : /\ outcome[c] # "none" => pc[c] = "done"
                      /\ pc[c] = "drop" => Op[c] = "try_send"

\* A call that waits for a slot of r, or found none and is about to wait.
Sleeper(r, c) == IsParked(Slept(r), c) \/ (pc[c] = "poll" /\ At(c) = r)

About(r, c) == At(c) = r /\ Op[c] # "try_send" /\ Reserving(c)

GaveBack(r, c) ==
  /\ Op[c] = "try_send"
  /\ pc[c] = "drop" \/ outcome[c] = "full"
  /\ \E i \in DOMAIN Route[c] : Route[c][i] = r /\ at[r][c] = "none"

\* Why a sleeper need not despair although no message is in flight.
Hope(r) ==
  \/ loop[r] \in {"idle", "response"}
  \/ Slept(r).permit
  \/ \E c \in Messages : About(r, c) \/ GaveBack(r, c)

WakeInv ==
  \A r \in Receivers :
    processing[r] = 0 /\ (\E c \in Messages : Sleeper(r, c)) => Hope(r)

WInv == WaitingInv /\ CallInv /\ WakeInv

LEMMA WInvSuffices == WInv => NoStrandedSender
<1>1. SUFFICES ASSUME WInv, NEW r \in Receivers, processing[r] = 0,
                      NEW c \in Messages, IsParked(Slept(r), c)
               PROVE  \/ loop[r] \in {"idle", "response"}
                      \/ AboutToReserve(r)
                      \/ GaveBackQuietly(r)
  BY DEF NoStrandedSender, Slept
<1>2. ~Slept(r).permit
  BY <1>1 DEF WInv, WaitingInv, IsParked
<1>3. Hope(r)
  BY <1>1 DEF WInv, WakeInv, Sleeper
<1>4. QED
  BY <1>2, <1>3 DEF Hope, About, GaveBack, AboutToReserve, GaveBackQuietly

---------------------------------------------------------------------------
(* Steps that leave the calls and their Notify alone. *)

\* The messages stay where they are, and no event loop goes back on a promise.
CallsStay ==
  /\ \A c \in Messages : pc'[c] = pc[c] /\ pos'[c] = pos[c] /\ outcome'[c] = outcome[c]
  /\ \A r \in Receivers, c \in Messages : at'[r][c] = "none" <=> at[r][c] = "none"

LEMMA AboutFrame ==
  ASSUME NEW r \in Receivers, NEW c \in Messages, pc'[c] = pc[c], pos'[c] = pos[c],
         At(c) = r => (IsParked(Slept(r), c)' => IsParked(Slept(r), c)), About(r, c)
  PROVE  About(r, c)'
<1>1. At(c)' = At(c)
  BY DEF At
<1>2. QED
  BY <1>1 DEF About, Reserving, Slept

LEMMA QuietFrame ==
  ASSUME NEW r \in Receivers, NEW c \in Messages, pc'[c] = pc[c],
         outcome'[c] = outcome[c], at[r][c] = "none" => at'[r][c] = "none", GaveBack(r, c)
  PROVE  GaveBack(r, c)'
BY DEF GaveBack

LEMMA StayWaiting ==
  ASSUME WaitingInv, CallInv, CallsStay, \A r \in Receivers : Slept(r)' = Slept(r)
  PROVE  WaitingInv' /\ CallInv'
<1>1. \A c \in Messages : At(c)' = At(c)
  BY DEF CallsStay, At
<1>2. WaitingInv'
  BY <1>1 DEF WaitingInv, CallsStay
<1>3. CallInv'
  BY DEF CallInv, CallsStay
<1>4. QED
  BY <1>2, <1>3

LEMMA StayWake ==
  ASSUME CallsStay, NEW r \in Receivers, Slept(r)' = Slept(r), processing'[r] = processing[r],
         loop[r] \in {"idle", "response"} => loop'[r] \in {"idle", "response"},
         processing[r] = 0 /\ (\E c \in Messages : Sleeper(r, c)) => Hope(r)
  PROVE  processing'[r] = 0 /\ (\E c \in Messages : Sleeper(r, c)') => Hope(r)'
<1>1. SUFFICES ASSUME processing'[r] = 0, NEW c \in Messages, Sleeper(r, c)'
               PROVE  Hope(r)'
  OBVIOUS
<1>2. At(c)' = At(c)
  BY DEF CallsStay, At
<1>3. Sleeper(r, c)
  BY <1>1, <1>2 DEF CallsStay, Sleeper
<1>4. Hope(r)
  BY <1>1, <1>3
<1>5. ASSUME NEW d \in Messages, About(r, d)
      PROVE  About(r, d)'
  BY <1>5, AboutFrame DEF CallsStay
<1>6. ASSUME NEW d \in Messages, GaveBack(r, d)
      PROVE  GaveBack(r, d)'
  BY <1>6, QuietFrame DEF CallsStay
<1>7. QED
  BY <1>4, <1>5, <1>6 DEF Hope

\* A step of a control, a poller or a task: no message call and no response
\* notification is involved.
LEMMA StayStep ==
  ASSUME WInv, CallsStay, UNCHANGED <<processing, loop>>,
         \A r \in Receivers : Slept(r)' = Slept(r)
  PROVE  WInv'
<1>1. \A r \in Receivers :
        processing'[r] = 0 /\ (\E c \in Messages : Sleeper(r, c)') => Hope(r)'
  BY StayWake DEF WInv, WakeInv
<1>2. QED
  BY <1>1, StayWaiting DEF WInv, WakeInv

LEMMA ControlWake ==
  ASSUME TypeOK, WInv, NEW c \in Controls,
         StartControl(c) \/ StartClose(c) \/ TimeOut(c) \/ ControlStep(c),
         UNCHANGED loop
  PROVE  WInv'
<1>1. /\ c \in Calls /\ Messages \subseteq Calls /\ c \notin Messages
      /\ outcome \in [Calls -> Outcome] /\ notify \in [Receivers -> [OneKinds -> NotifyState]]
  BY ReceiverAssumption DEF Calls, TypeOK, CommonTypeOK, BusTypeOK, WrapperTypeOK
<1>2. \A m \in Messages : pc'[m] = pc[m] /\ pos'[m] = pos[m]
  BY TypeParts, OnwardLocal DEF StartControl, StartClose, TimeOut, ControlStep, Check, Register, Push,
       PushFails, PollFlushed, UnparkFlushed, CheckIdle, CheckReady, Awake, Enter,
       Step, StaysLocal
<1>3. \A m \in Messages : Onward(c) \/ Flushed(c) => outcome'[m] = outcome[m]
  BY <1>1 DEF Onward, Visit, NextRound, Return, Flushed, StaysLocal
<1>4. \A m \in Messages : outcome'[m] = outcome[m]
  BY <1>3 DEF StartControl, StartClose, TimeOut, ControlStep, Check, Register, Push,
       PushFails, PollFlushed, UnparkFlushed, CheckIdle, CheckReady, Awake, Enter,
       Step, StaysLocal
<1>5. UNCHANGED <<at, processing>>
  BY DEF StartControl, StartClose, TimeOut, ControlStep, Check, Register, Push,
       PushFails, PollFlushed, UnparkFlushed, CheckIdle, CheckReady, Awake,
       SendAction, mailVars, wrapperVars, contextVars
<1>6. UNCHANGED notify \/ Poll(At(c), "flushed", c)
  BY DEF StartControl, StartClose, TimeOut, ControlStep, Check, Register, Push,
       PushFails, PollFlushed, UnparkFlushed, CheckIdle, CheckReady, Awake,
       wrapperVars, notifyVars
<1>7. \A r \in Receivers : Slept(r)' = Slept(r)
  BY <1>1, <1>6 DEF Slept, Poll, OneKinds
<1>8. QED
  BY <1>2, <1>4, <1>5, <1>7, StayStep DEF CallsStay

\* The receivers' side moves only copies that were sent, and back to no call.
LEMMA PollerMoves ==
  ASSUME IInv, NEW r \in Receivers,
         \/ PollerStep(r)
         \/ \E c \in Messages : HandlerReturns(r, c) \/ Respond(r, c) \/ HandlerPanics(r, c)
  PROVE  \A s \in Receivers, c \in Messages : at'[s][c] = "none" <=> at[s][c] = "none"
<1> DEFINE Kept == \A s \in Receivers, c \in Messages : at'[s][c] = "none" <=> at[s][c] = "none"
<1>0. /\ at \in [Receivers -> [Messages -> Place]]
      /\ queue[r] \in Seq(Messages \cup Actions)
  BY DEF IInv, TypeOK, CommonTypeOK, MailTypeOK
<1>a. ASSUME NEW c \in Messages, NEW p, at[r][c] # "none", p # "none", Move(r, c, p)
      PROVE  Kept
  BY <1>0, <1>a DEF Move
<1>1. CASE PollRequest(r)
  <2>1. /\ queue[r] # <<>> /\ Head(queue[r]) \in Messages
        /\ Move(r, Head(queue[r]), "held")
    BY <1>1 DEF PollRequest, Receive, Incoming
  <2>2. HoldsIn(queue[r], at[r], "queued")
    BY ChannelSplit DEF IInv, QueueOf
  <2>3. at[r][Head(queue[r])] = "queued"
    BY <1>0, <2>1, <2>2, HoldsTail
  <2>4. QED
    BY <1>a, <2>1, <2>3
<1>2. CASE Spawn(r)
  BY <1>a, <1>2 DEF Spawn
<1>3. CASE \E signal : PollerEmits(r, signal)
  BY <1>0, <1>3 DEF PollerEmits, PollerPanics
<1>4. CASE UNCHANGED at
  BY <1>4
<1>5. CASE \E c \in Messages : HandlerReturns(r, c) \/ Respond(r, c) \/ HandlerPanics(r, c)
  BY <1>a, <1>5 DEF HandlerReturns, Respond, HandlerPanics
<1>6. QED
  BY <1>1, <1>2, <1>3, <1>4, <1>5 DEF PollerStep, PollInitAction, PollClose, PollFlush, FinishFlush, PollSync,
       StartSync, FinishSync, EndPoller, mailVars

LEMMA PollerWake ==
  ASSUME IInv, WInv, NEW r \in Receivers, UNCHANGED outsidePoller,
         \/ PollerStep(r)
         \/ \E c \in Messages : HandlerReturns(r, c) \/ Respond(r, c) \/ HandlerPanics(r, c)
  PROVE  WInv'
<1>1. UNCHANGED <<processing, loop, pc, pos, outcome, notify>>
  BY DEF outsidePoller, wrapperVars, contextVars, notifyVars, busVars, localVars
<1>2. QED
  BY <1>1, PollerMoves, StayStep DEF CallsStay, Slept

---------------------------------------------------------------------------
(* Steps of the event loops. *)

LEMMA LoopMoves ==
  ASSUME IInv, NEW r \in Receivers, LoopStep(r)
  PROVE  \A s \in Receivers, c \in Messages : at'[s][c] = "none" <=> at[s][c] = "none"
<1> DEFINE Kept == \A s \in Receivers, c \in Messages : at'[s][c] = "none" <=> at[s][c] = "none"
<1>0. at \in [Receivers -> [Messages -> Place]] /\ TypeOK /\ ChannelInv
  BY DEF IInv, TypeOK, CommonTypeOK, MailTypeOK
<1>1. ASSUME NEW c \in Messages, OnResponse(r, c)
      PROVE  Kept
  <2>1. at[r][c] = "answered" /\ Move(r, c, "answering")
    BY TypeParts, <1>0, <1>1, TakeEventHolds DEF OnResponse
  <2>2. QED
    BY <1>0, <2>1 DEF Move
<1>2. ASSUME NEW c \in Messages, Deliver(r, c)
      PROVE  Kept
  BY <1>0, <1>2 DEF Deliver, Move
<1>3. ASSUME NEW c \in Messages, DeliverPanics(r, c)
      PROVE  Kept
  BY <1>0, <1>3 DEF DeliverPanics
<1>4. CASE UNCHANGED at
  BY <1>4
<1>5. QED
  BY <1>1, <1>2, <1>3, <1>4 DEF LoopStep, NotifyIdle, NotifyResponse, OnFlushed, NotifyFlushed, OnReady,
       SetReady, OnSynchronized, EndLoop, mailVars

\* Waking the call that waited longest: those behind it keep their place, once.
LEMMA HeadWoken ==
  ASSUME NEW n \in NotifyState, n.waiting # <<>>, NEW o, o = NotifyOne(n),
         \A i, j \in DOMAIN n.waiting : n.waiting[i] = n.waiting[j] => i = j
  PROVE  /\ o.permit = n.permit
         /\ \A i, j \in DOMAIN o.waiting : o.waiting[i] = o.waiting[j] => i = j
         /\ \A c \in Calls : IsParked(o, c) => IsParked(n, c)
         /\ \E h \in Calls : IsParked(n, h) /\ ~IsParked(o, h)
<1> DEFINE q == n.waiting
<1>1. /\ q \in Seq(Calls) /\ q # <<>>
      /\ o.permit = n.permit /\ o.waiting = Tail(q)
  BY DEF NotifyState, NotifyOne
<1> HIDE DEF q
<1>2. /\ Len(q) \in Nat /\ Len(q) >= 1 /\ DOMAIN q = 1..Len(q) /\ Head(q) \in Calls
      /\ DOMAIN Tail(q) = 1..(Len(q) - 1) /\ Head(q) = q[1]
      /\ \A i \in DOMAIN Tail(q) : Tail(q)[i] = q[i + 1]
  BY <1>1
<1>3. \A i \in DOMAIN Tail(q) : i + 1 \in DOMAIN q /\ i \in Nat /\ i + 1 # 1
  BY <1>2
<1>4. \A i, j \in DOMAIN q : q[i] = q[j] => i = j
  BY DEF q
<1>5. ASSUME NEW i \in DOMAIN Tail(q), NEW j \in DOMAIN Tail(q), Tail(q)[i] = Tail(q)[j]
      PROVE  i = j
  <2>1. i + 1 = j + 1
    BY <1>2, <1>3, <1>4, <1>5
  <2>2. QED
    BY <1>3, <2>1
<1>6. IsParked(n, q[1]) /\ q[1] \in Calls /\ ~IsParked(o, q[1])
  BY <1>1, <1>2, <1>3, <1>4 DEF IsParked, q
<1>7. \A c \in Calls : IsParked(o, c) => IsParked(n, c)
  BY <1>1, <1>2, <1>3 DEF IsParked, q
<1>8. QED
  BY <1>1, <1>5, <1>6, <1>7

\* NotifyResponse wakes a call that is then about to reserve, or stores a permit.
LEMMA NotifyResponseWake ==
  ASSUME IInv, WInv, NEW r \in Receivers, NotifyResponse(r), UNCHANGED busVars
  PROVE  WInv'
<1>0. notify \in [Receivers -> [OneKinds -> NotifyState]] /\ Slept(r) \in NotifyState
  BY DEF IInv, TypeOK, CommonTypeOK, WrapperTypeOK, Slept, OneKinds
<1>1. /\ \A c \in Calls : pc'[c] = pc[c] /\ At(c)' = At(c) /\ outcome'[c] = outcome[c]
      /\ UNCHANGED <<at, processing>> /\ CallsStay /\ Messages \subseteq Calls
  BY DEF NotifyResponse, busVars, localVars, At, CallsStay, mailVars, contextVars,
       Calls
<1>2. /\ Slept(r)' = NotifyOne(Slept(r))
      /\ \A s \in Receivers \ {r} : Slept(s)' = Slept(s) /\ loop'[s] = loop[s]
  BY <1>0 DEF NotifyResponse, Slept, OneKinds, LoopGoes, IInv, TypeOK, CommonTypeOK,
       WrapperTypeOK
<1>3. CallInv'
  BY <1>1 DEF WInv, CallInv
<1>4. CASE Slept(r).waiting = <<>>
  <2>1. Slept(r)' = [permit |-> TRUE, waiting |-> <<>>]
    BY <1>2, <1>4 DEF NotifyOne
  <2>2. WaitingInv'
    BY <1>1, <1>2, <2>1 DEF WInv, WaitingInv, IsParked
  <2>3. Hope(r)'
    BY <2>1 DEF Hope
  <2>4. QED
    BY <1>1, <1>2, <1>3, <2>2, <2>3, StayWake DEF WInv, WakeInv
<1>5. CASE Slept(r).waiting # <<>>
  <2>1. /\ ~Slept(r).permit /\ Slept(r)'.permit = Slept(r).permit
        /\ \A i, j \in DOMAIN Slept(r)'.waiting :
             Slept(r)'.waiting[i] = Slept(r)'.waiting[j] => i = j
        /\ \A c \in Calls : IsParked(Slept(r)', c) => IsParked(Slept(r), c)
        /\ \E h \in Calls : IsParked(Slept(r), h) /\ ~IsParked(Slept(r)', h)
    BY <1>0, <1>2, <1>5, HeadWoken DEF WInv, WaitingInv
  <2>2. WaitingInv'
    BY <1>1, <1>2, <2>1 DEF WInv, WaitingInv
  <2>3. PICK h \in Calls : IsParked(Slept(r), h) /\ ~IsParked(Slept(r)', h)
    BY <2>1
  <2>4. h \in Messages /\ pc[h] = "parked" /\ At(h) = r
    BY <2>3 DEF WInv, WaitingInv
  <2>5. Op[h] # "try_send"
    <3>1. pos[h] \in DOMAIN Route[h]
      BY DEF IInv, Visiting
    <3>2. QED
      BY <2>4, <3>1 DEF IInv, RouteInv, Underway
  <2>6. About(r, h)'
    BY <1>1, <2>3, <2>4, <2>5 DEF About, Reserving, Slept
  <2>7. Hope(r)'
    BY <2>4, <2>6 DEF Hope
  <2>8. QED
    BY <1>1, <1>2, <1>3, <2>2, <2>7, StayWake DEF WInv, WakeInv
<1>6. QED
  BY <1>4, <1>5

LEMMA LoopWake ==
  ASSUME IInv, WInv, NEW r \in Receivers, LoopStep(r), UNCHANGED busVars
  PROVE  WInv'
<1>1. CASE NotifyResponse(r)
  BY <1>1, NotifyResponseWake
<1>2. CASE ~NotifyResponse(r)
  <2>0. /\ notify \in [Receivers -> [OneKinds -> NotifyState]]
        /\ loop \in [Receivers -> LoopPlace] /\ processing \in [Receivers -> Int]
    BY DEF IInv, TypeOK, CommonTypeOK, WrapperTypeOK
  <2>1. CallsStay
    BY LoopMoves DEF CallsStay, busVars, localVars
  <2>2. \A s \in Receivers : Slept(s)' = Slept(s)
    <3>1. UNCHANGED notify \/ notify' = [notify EXCEPT ![r].flushed = NotifyOne(@)]
      BY <1>2 DEF LoopStep, OnResponse, Deliver, DeliverPanics, NotifyIdle, OnFlushed,
       NotifyFlushed, OnReady, SetReady, OnSynchronized, EndLoop, notifyVars
    <3>2. QED
      BY <2>0, <3>1 DEF Slept, OneKinds
  <2>3. \A s \in Receivers \ {r} : loop'[s] = loop[s] /\ processing'[s] = processing[s]
    BY <2>0, <1>2 DEF LoopStep, OnResponse, Deliver, DeliverPanics, NotifyIdle, OnFlushed,
       NotifyFlushed, OnReady, SetReady, OnSynchronized, EndLoop, LoopGoes,
       contextVars
  <2>4. CASE \E c \in Messages : OnResponse(r, c)
    <3>1. loop'[r] \in {"idle", "response"}
      BY <2>0, <2>4 DEF OnResponse, LoopGoes
    <3>2. Hope(r)'
      BY <3>1 DEF Hope
    <3>3. QED
      BY <2>1, <2>2, <2>3, <3>2, StayWaiting, StayWake DEF WInv, WakeInv
  <2>5. CASE ~\E c \in Messages : OnResponse(r, c)
    <3>1. /\ processing'[r] = processing[r]
          /\ loop[r] \in {"idle", "response"} => loop'[r] \in {"idle", "response"}
      BY <1>2, <2>0, <2>5 DEF LoopStep, Deliver, DeliverPanics, NotifyIdle, OnFlushed, NotifyFlushed,
       OnReady, SetReady, OnSynchronized, EndLoop, LoopGoes, contextVars
    <3>2. QED
      BY <2>1, <2>2, <2>3, <3>1, StayWaiting, StayWake DEF WInv, WakeInv
  <2>6. QED
    BY <2>4, <2>5
<1>3. QED
  BY <1>1, <1>2

---------------------------------------------------------------------------
(* Steps of the calls that carry a message. *)

MessageMoves(c) ==
  \/ StartSend(c) \/ StartRequest(c) \/ Reserve(c) \/ TryReserve(c) \/ DropPermit(c)
  \/ Bump(c) \/ Send(c) \/ Mark(c) \/ Answered(c) \/ Abandon(c)

\* A step of c alone touches no other call and no other call's copies.
Alone(c) ==
  \A m \in Messages \ {c} :
    /\ pc'[m] = pc[m] /\ pos'[m] = pos[m] /\ outcome'[m] = outcome[m]
    /\ \A r \in Receivers : at'[r][m] = at[r][m]

LEMMA MovesAlone ==
  ASSUME IInv, NEW c \in Messages, MessageMoves(c) \/ PollReserve(c)
  PROVE  Alone(c)
<1>0. /\ TypeOK /\ Visiting /\ Messages \subseteq Calls
      /\ outcome \in [Calls -> Outcome]
  BY DEF IInv, TypeOK, CommonTypeOK, BusTypeOK, Calls
<1>1. Others(c)
  BY TypeParts, <1>0, LocalMoves DEF MessageMoves, StartSend, StartRequest, Reserve, PollReserve, TryReserve,
       DropPermit, Bump, Send, Mark, SendNext, Answered, Abandon, Step
<1>2. \/ UNCHANGED outcome \/ \E result : outcome' = [outcome EXCEPT ![c] = result]
  BY DEF MessageMoves, StartSend, StartRequest, Reserve, PollReserve, TryReserve,
       DropPermit, Bump, Send, Mark, SendNext, Answered, Abandon, Step, StaysLocal,
       Return, Visit, Rewind, Enter
<1>3. \/ UNCHANGED at \/ \E p : Move(At(c), c, p)
  BY DEF MessageMoves, StartSend, StartRequest, Reserve, PollReserve, TryReserve,
       DropPermit, Bump, Send, Mark, Answered, Abandon, TakeSlot, DropSlot,
       ForceSlot, SendMessage, mailVars
<1>4. \A r \in Receivers, m \in Messages \ {c} : at'[r][m] = at[r][m]
  BY TypeParts, <1>0, <1>3, CopyMove
<1>5. QED
  BY <1>0, <1>1, <1>2, <1>4 DEF Alone, Others

\* What c does leaves r awake if c neither waits for r nor gives up on it.
LEMMA AloneWake ==
  ASSUME NEW c \in Messages, Alone(c), UNCHANGED loop, NEW r \in Receivers,
         Slept(r)' = Slept(r), processing'[r] = 0 => processing[r] = 0,
         ~Sleeper(r, c)', ~About(r, c), GaveBack(r, c) => GaveBack(r, c)',
         processing[r] = 0 /\ (\E d \in Messages : Sleeper(r, d)) => Hope(r)
  PROVE  processing'[r] = 0 /\ (\E d \in Messages : Sleeper(r, d)') => Hope(r)'
<1>1. SUFFICES ASSUME processing'[r] = 0, NEW d \in Messages, Sleeper(r, d)'
               PROVE  Hope(r)'
  OBVIOUS
<1>2. d # c
  BY <1>1
<1>3. At(d)' = At(d) /\ pc'[d] = pc[d]
  BY <1>2 DEF Alone, At
<1>4. Sleeper(r, d)
  BY <1>1, <1>3 DEF Sleeper
<1>5. Hope(r)
  BY <1>1, <1>4
<1>6. ASSUME NEW e \in Messages, About(r, e)
      PROVE  About(r, e)'
  <2>1. e # c
    BY <1>6
  <2>2. QED
    BY <1>6, <2>1, AboutFrame DEF Alone
<1>7. ASSUME NEW e \in Messages \ {c}, GaveBack(r, e)
      PROVE  GaveBack(r, e)'
  BY <1>7, QuietFrame DEF Alone
<1>8. QED
  BY <1>5, <1>6, <1>7 DEF Hope

\* Where c is when it makes such a step, and where it is after it.
LEMMA MovesPlaces ==
  ASSUME IInv, WInv, NEW c \in Messages, MessageMoves(c)
  PROVE  /\ pc[c] # "poll" /\ outcome[c] = "none" /\ UNCHANGED notify
         /\ pc'[c] \in {"poll", "parked"} => Reserve(c)
         /\ pc'[c] = "drop" => Op[c] = "try_send"
         /\ outcome'[c] # "none" => pc'[c] = "done"
         /\ Reserving(c) => Reserve(c)
         /\ pc[c] = "parked" => Reserving(c)
         /\ pc[c] = "drop" <=> DropPermit(c)
<1>0. /\ c \in Calls /\ pos[c] \in DOMAIN Route[c] /\ TypeOK
      /\ outcome \in [Calls -> Outcome] /\ Op[c] \in MessageOps
  BY BusAssumption DEF IInv, Visiting, Calls, TypeOK, CommonTypeOK, BusTypeOK
<1>1. pc[c] \in {"start", "tryreserve", "drop", "bump", "send", "mark", "await"} \/ Reserve(c)
  BY DEF MessageMoves, StartSend, StartRequest, MayStart, TryReserve, DropPermit,
       Bump, Send, Mark, Answered, Abandon, Step
<1>2. Reserve(c) => pc[c] = "reserve" \/ (pc[c] = "parked" /\ Reserving(c))
  BY DEF Reserve, Reserving
<1>3. outcome[c] = "none"
  BY <1>1, <1>2 DEF WInv, CallInv
<1>4. UNCHANGED notify
  BY DEF MessageMoves, StartSend, StartRequest, Reserve, TryReserve, DropPermit,
       Bump, Send, Mark, Answered, Abandon, notifyVars, wrapperVars
<1>5. pc[c] = "drop" <=> DropPermit(c)
  BY <1>1, <1>2 DEF MessageMoves, StartSend, StartRequest, MayStart, TryReserve, DropPermit,
       Bump, Send, Mark, Answered, Abandon, Step
<1>6. pc[c] = "drop" => Op[c] = "try_send"
  BY DEF WInv, CallInv
<1>7. pc[c] = "tryreserve" => Op[c] = "try_send"
  BY <1>0 DEF IInv, RouteInv, Underway
<1>8. Entry(c) \in {"reserve", "tryreserve", "bump"}
  BY <1>0 DEF Entry, MessageOps
<1>9. pc'[c] \in {"poll", "parked"} => Reserve(c)
  BY TypeParts, <1>0, <1>8, LocalMoves DEF MessageMoves, StartSend, StartRequest, TryReserve, DropPermit, Bump,
       Send, Mark, SendNext, Answered, Abandon, Step
<1>10. pc'[c] = "drop" => pc[c] \in {"tryreserve", "drop"}
  BY TypeParts, <1>0, <1>8, LocalMoves DEF MessageMoves, StartSend, StartRequest, Reserve, TryReserve, DropPermit,
       Bump, Send, Mark, SendNext, Answered, Abandon, Step
<1>11. outcome'[c] # "none" => pc'[c] = "done"
  BY TypeParts, <1>0, <1>3, LocalMoves DEF MessageMoves, StartSend, StartRequest, Reserve, TryReserve, DropPermit,
       Bump, Send, Mark, SendNext, Answered, Abandon, Step, StaysLocal, Return,
       Visit, Rewind, Enter
<1>12. /\ Reserving(c) => Reserve(c)
       /\ pc[c] = "parked" => Reserving(c)
  BY <1>1, <1>2 DEF Reserving
<1>13. pc[c] # "poll"
  BY <1>1, <1>2
<1>14. QED
  BY <1>3, <1>4, <1>5, <1>6, <1>7, <1>9, <1>10, <1>11, <1>12, <1>13

LEMMA MovesWaiting ==
  ASSUME IInv, WInv, NEW c \in Messages, MessageMoves(c)
  PROVE  WaitingInv' /\ CallInv'
<1>1. Alone(c)
  BY MovesAlone
<1>2. \A r \in Receivers : Slept(r)' = Slept(r)
  BY MovesPlaces DEF Slept
<1>3. CallInv'
  <2>1. SUFFICES ASSUME NEW m \in Messages
                 PROVE  /\ outcome'[m] # "none" => pc'[m] = "done"
                        /\ pc'[m] = "drop" => Op[m] = "try_send"
    BY DEF CallInv
  <2>2. CASE m = c
    BY <2>2, MovesPlaces
  <2>3. CASE m # c
    BY <1>1, <2>3 DEF Alone, WInv, CallInv
  <2>4. QED
    BY <2>2, <2>3
<1>4. ASSUME NEW r \in Receivers, NEW d \in Calls, IsParked(Slept(r), d)
      PROVE  d \in Messages /\ pc'[d] = "parked" /\ At(d)' = r
  <2>1. d \in Messages /\ pc[d] = "parked" /\ At(d) = r
    BY <1>4 DEF WInv, WaitingInv
  <2>2. d # c
    <3>1. ASSUME d = c
          PROVE  FALSE
      <4>1. Reserving(c)
        BY <2>1, <3>1, MovesPlaces
      <4>2. QED
        BY <1>4, <2>1, <3>1, <4>1 DEF Reserving, Slept
    <3>2. QED
      BY <3>1
  <2>3. QED
    BY <1>1, <2>1, <2>2 DEF Alone, At
<1>5. WaitingInv'
  BY <1>2, <1>4 DEF WInv, WaitingInv
<1>6. QED
  BY <1>3, <1>5

\* A failed reserve finds messages in flight, which will notify: this needs a
\* limit above zero.
LEMMA MovesWake ==
  ASSUME \A r \in Receivers : Limit[r] > 0,
         IInv, WInv, NEW c \in Messages, MessageMoves(c), UNCHANGED loop
  PROVE  WInv'
<1>0. /\ TypeOK /\ c \in Calls /\ At(c) \in Receivers /\ WaitingInv' /\ CallInv'
      /\ Alone(c) /\ outcome[c] = "none" /\ pc[c] # "poll"
  BY AtReceiver, MovesWaiting, MovesAlone, MovesPlaces DEF IInv, Calls
<1>1. SUFFICES ASSUME NEW r \in Receivers
               PROVE  processing'[r] = 0 /\ (\E d \in Messages : Sleeper(r, d)') => Hope(r)'
  BY <1>0 DEF WInv, WakeInv
<1>2. Slept(r)' = Slept(r)
  BY MovesPlaces DEF Slept
<1>3. processing[r] = 0 /\ (\E d \in Messages : Sleeper(r, d)) => Hope(r)
  BY DEF WInv, WakeInv
<1>4. Limit[r] > 0 /\ Limit \in [Receivers -> Nat] /\ processing \in [Receivers -> Int]
  BY <1>0, ReceiverAssumption DEF TypeOK, CommonTypeOK, WrapperTypeOK
<1>5. CASE Reserve(c)
  <2>1. /\ pc'[c] \in {"poll", "send"} /\ At(c)' = At(c)
        /\ pc'[c] = "poll" => Full(At(c)) /\ UNCHANGED processing
        /\ pc'[c] = "send" => processing' = [processing EXCEPT ![At(c)] = @ + 1]
                              /\ ~Full(At(c))
    BY TypeParts, <1>0, <1>5, LocalMoves DEF Reserve, TakeSlot, At, StaysLocal
  <2>2. pc[c] \in {"reserve", "parked"}
    BY <1>5 DEF Reserve, Reserving
  <2>3. ~GaveBack(r, c)
    BY <1>0, <2>2 DEF GaveBack
  <2>4. CASE At(c) = r
    <3>1. \A s \in Receivers : processing[s] >= 0
      <4>1. SUFFICES ASSUME NEW s \in Receivers PROVE processing[s] >= 0
        OBVIOUS
      <4>2. Cardinality(Copies(s, Slotted)) \in Nat
        BY CopiesFinite, FS_CardinalityType
      <4>3. QED
        BY <4>2 DEF IInv, Accounting
    <3>2. processing'[r] > 0
      BY <1>4, <2>1, <2>4, <3>1 DEF Full
    <3>3. QED
      BY <1>4, <3>2
  <2>5. CASE At(c) # r
    <3>1. ~About(r, c) /\ (processing'[r] = 0 => processing[r] = 0)
      BY <1>0, <1>4, <2>1, <2>5 DEF About
    <3>2. ~Sleeper(r, c)'
      BY <1>0, <2>1, <2>5 DEF Sleeper, WaitingInv
    <3>3. QED
      BY <1>0, <1>2, <1>3, <2>3, <3>1, <3>2, AloneWake
  <2>6. QED
    BY <2>4, <2>5
<1>6. CASE ~Reserve(c)
  <2>1. ~Reserving(c) /\ pc'[c] \notin {"poll", "parked"}
    BY <1>6, MovesPlaces
  <2>2. ~About(r, c) /\ ~Sleeper(r, c)'
    BY <1>0, <2>1 DEF About, Sleeper, WaitingInv
  <2>3. CASE ~DropPermit(c)
    <3>1. pc[c] # "drop" /\ ~GaveBack(r, c)
      BY <1>0, <2>3, MovesPlaces DEF GaveBack
    <3>2. processing'[r] = 0 => processing[r] = 0
      <4>1. \/ UNCHANGED processing
            \/ processing' = [processing EXCEPT ![At(c)] = @ + 1]
        BY <1>6, <2>3 DEF MessageMoves, StartSend, StartRequest, TryReserve, TakeSlot, Bump,
       ForceSlot, Send, Mark, Answered, Abandon, contextVars, wrapperVars
      <4>2. Cardinality(Copies(r, Slotted)) \in Nat
        BY CopiesFinite, FS_CardinalityType
      <4>3. processing[r] >= 0
        BY <4>2 DEF IInv, Accounting
      <4>4. QED
        BY <1>0, <1>4, <4>1, <4>3
    <3>3. QED
      BY <1>0, <1>2, <1>3, <2>2, <3>1, <3>2, AloneWake
  <2>4. CASE DropPermit(c)
    <3>1. /\ pc[c] = "drop" /\ Op[c] = "try_send"
          /\ at \in [Receivers -> [Messages -> Place]]
      BY <1>0, <2>4 DEF DropPermit, WInv, CallInv, TypeOK, CommonTypeOK, MailTypeOK
    <3>2. CASE at[At(c)][c] = "permit"
      <4>1. /\ pc'[c] = "drop" /\ Move(At(c), c, "none")
            /\ processing' = [processing EXCEPT ![At(c)] = @ - 1]
        BY TypeParts, <1>0, <2>4, <3>2, LocalMoves DEF DropPermit, DropSlot
      <4>2. GaveBack(r, c) => GaveBack(r, c)'
        BY <3>1, <4>1 DEF GaveBack, Move
      <4>3. CASE At(c) = r
        <5>1. pos[c] \in DOMAIN Route[c] /\ Route[c][pos[c]] = r /\ at'[r][c] = "none"
          BY <3>1, <4>1, <4>3 DEF IInv, Visiting, At, Move, Calls
        <5>2. GaveBack(r, c)'
          BY <3>1, <4>1, <5>1 DEF GaveBack
        <5>3. QED
          BY <5>2 DEF Hope
      <4>4. CASE At(c) # r
        <5>1. processing'[r] = processing[r]
          BY <1>0, <1>4, <4>1, <4>4
        <5>2. QED
          BY <1>0, <1>2, <1>3, <2>2, <4>2, <5>1, AloneWake
      <4>5. QED
        BY <4>3, <4>4
    <3>3. CASE at[At(c)][c] # "permit"
      <4>1. outcome' = [outcome EXCEPT ![c] = "full"] /\ UNCHANGED <<at, processing>>
        BY <2>4, <3>3 DEF DropPermit, Return
      <4>2. outcome'[c] = "full"
        BY <1>0, <4>1 DEF TypeOK, CommonTypeOK, BusTypeOK
      <4>3. GaveBack(r, c) => GaveBack(r, c)'
        BY <4>1, <4>2 DEF GaveBack
      <4>4. QED
        BY <1>0, <1>2, <1>3, <2>2, <4>1, <4>3, AloneWake
    <3>4. QED
      BY <3>2, <3>3
  <2>5. QED
    BY <2>3, <2>4
<1>7. QED
  BY <1>5, <1>6

\* A call that polls takes a stored permit, or takes its place among those that
\* wait.
LEMMA PollReserveWake ==
  ASSUME IInv, WInv, NEW c \in Messages, PollReserve(c), UNCHANGED loop
  PROVE  WInv'
<1>a. PICK s \in Receivers : s = At(c)
  BY AtReceiver DEF Calls, IInv
<1>0. /\ TypeOK /\ c \in Calls /\ At(c) = s /\ Alone(c) /\ pc[c] = "poll"
      /\ outcome \in [Calls -> Outcome] /\ UNCHANGED <<at, processing, outcome>>
      /\ notify \in [Receivers -> [OneKinds -> NotifyState]]
  BY <1>a, MovesAlone DEF IInv, Calls, TypeOK, CommonTypeOK, BusTypeOK, WrapperTypeOK, PollReserve,
       Step, StaysLocal, mailVars, contextVars
<1>1. /\ pc'[c] = IF Slept(s).permit THEN "reserve" ELSE "parked"
      /\ At(c)' = s /\ UNCHANGED pos
  BY TypeParts, <1>0, LocalMoves DEF PollReserve, Step, Permitted, Slept, StaysLocal, At
<1>2. /\ Slept(s)' = PollNotified(Slept(s), c)
      /\ \A r \in Receivers \ {s} : Slept(r)' = Slept(r)
      /\ Slept(s) \in NotifyState
  BY <1>0 DEF PollReserve, Poll, Slept, OneKinds
<1>3. Op[c] # "try_send"
  BY <1>0 DEF IInv, RouteInv, Underway, Visiting
<1>4. \A r \in Receivers : ~IsParked(Slept(r), c)
  BY <1>0 DEF WInv, WaitingInv
<1>5. CallInv'
  <2>1. SUFFICES ASSUME NEW m \in Messages
                 PROVE  /\ outcome'[m] # "none" => pc'[m] = "done"
                        /\ pc'[m] = "drop" => Op[m] = "try_send"
    BY DEF CallInv
  <2>2. CASE m = c
    BY <1>0, <1>1, <2>2 DEF WInv, CallInv
  <2>3. CASE m # c
    BY <1>0, <2>3 DEF Alone, WInv, CallInv
  <2>4. QED
    BY <2>2, <2>3
<1>6. \A d \in Calls, r \in Receivers :
        IsParked(Slept(r), d) => d \in Messages /\ pc'[d] = "parked" /\ At(d)' = r
  <2>1. SUFFICES ASSUME NEW d \in Calls, NEW r \in Receivers, IsParked(Slept(r), d)
                 PROVE  d \in Messages /\ pc'[d] = "parked" /\ At(d)' = r
    OBVIOUS
  <2>2. d \in Messages \ {c} /\ pc[d] = "parked" /\ At(d) = r
    BY <1>4, <2>1 DEF WInv, WaitingInv
  <2>3. QED
    BY <1>0, <2>2 DEF Alone, At
<1>7. \A r \in Receivers, d \in Messages : GaveBack(r, d) => GaveBack(r, d)'
  <2>1. SUFFICES ASSUME NEW r \in Receivers, NEW d \in Messages, GaveBack(r, d)
                 PROVE  GaveBack(r, d)'
    OBVIOUS
  <2>2. d # c
    BY <1>3, <2>1 DEF GaveBack
  <2>3. QED
    BY <1>0, <2>1, <2>2, QuietFrame DEF Alone
<1>8. \A r \in Receivers, d \in Messages : About(r, d) => d # c
  BY <1>0 DEF About, Reserving
<1>9. ASSUME NEW r \in Receivers, r # s
      PROVE  processing'[r] = 0 /\ (\E d \in Messages : Sleeper(r, d)') => Hope(r)'
  <2>1. Slept(r)' = Slept(r) /\ ~Sleeper(r, c)' /\ ~About(r, c)
    BY <1>1, <1>2, <1>4, <1>8, <1>9 DEF Sleeper
  <2>2. QED
    BY <1>0, <1>7, <2>1, AloneWake DEF WInv, WakeInv
<1>10. CASE Slept(s).permit
  <2>1. /\ Slept(s)' = [permit |-> FALSE, waiting |-> Slept(s).waiting]
        /\ Slept(s).waiting = <<>>
    BY <1>0, <1>2, <1>10 DEF PollNotified, WInv, WaitingInv
  <2>2. WaitingInv'
    BY <1>2, <1>6, <2>1 DEF WInv, WaitingInv, IsParked
  <2>3. About(s, c)'
    BY <1>1, <1>3, <1>10 DEF About, Reserving
  <2>4. Hope(s)'
    BY <2>3 DEF Hope
  <2>5. QED
    BY <1>5, <1>9, <2>2, <2>4 DEF WInv, WakeInv
<1>11. CASE ~Slept(s).permit
  <2> DEFINE q == Slept(s).waiting
  <2>1. /\ Slept(s)' = [permit |-> FALSE, waiting |-> Append(q, c)]
        /\ q \in Seq(Calls)
    BY <1>2, <1>11 DEF PollNotified, NotifyState
  <2>2. /\ DOMAIN q = 1..Len(q) /\ Len(q) \in Nat
        /\ DOMAIN Append(q, c) = 1..(Len(q) + 1)
        /\ \A i \in DOMAIN Append(q, c) :
             Append(q, c)[i] = IF i = Len(q) + 1 THEN c ELSE q[i]
    BY <2>1
  <2>3. \A i \in DOMAIN q : q[i] # c
    BY <1>0, <1>4 DEF IsParked
  <2>4. \A i, j \in DOMAIN Append(q, c) : Append(q, c)[i] = Append(q, c)[j] => i = j
    <3>1. \A i, j \in DOMAIN q : q[i] = q[j] => i = j
      BY <1>0 DEF WInv, WaitingInv
    <3>2. \A i \in DOMAIN Append(q, c) : i = Len(q) + 1 \/ i \in DOMAIN q
      BY <2>2
    <3> HIDE DEF q
    <3>3. QED
      BY <2>2, <2>3, <3>1, <3>2
  <2>5. \A d \in Calls : IsParked(Slept(s)', d) => d = c \/ IsParked(Slept(s), d)
    BY <2>1, <2>2 DEF IsParked
  <2>6. WaitingInv'
    <3>1. SUFFICES ASSUME NEW r \in Receivers
                   PROVE  /\ Slept(r)'.permit => Slept(r)'.waiting = <<>>
                          /\ \A d \in Calls : IsParked(Slept(r)', d) =>
                               d \in Messages /\ pc'[d] = "parked" /\ At(d)' = r
                          /\ \A i, j \in DOMAIN Slept(r)'.waiting :
                               Slept(r)'.waiting[i] = Slept(r)'.waiting[j] => i = j
      BY DEF WaitingInv
    <3>2. CASE r # s
      BY <1>2, <1>6, <3>2 DEF WInv, WaitingInv
    <3>3. CASE r = s
      <4>1. \A d \in Calls : IsParked(Slept(s)', d) =>
              d \in Messages /\ pc'[d] = "parked" /\ At(d)' = s
        BY <1>1, <1>6, <1>11, <2>5
      <4>2. Slept(s)'.permit = FALSE /\ Slept(s)'.waiting = Append(q, c)
        BY <2>1
      <4> HIDE DEF q
      <4>3. QED
        BY <2>4, <3>3, <4>1, <4>2
    <3>4. QED
      BY <3>2, <3>3
  <2>7. ASSUME processing'[s] = 0
        PROVE  Hope(s)'
    <3>1. Hope(s)
      BY <1>0, <2>7 DEF WInv, WakeInv, Sleeper
    <3>2. ASSUME NEW d \in Messages, About(s, d)
          PROVE  About(s, d)'
      <4>1. d \in Calls /\ d # c
        BY <1>8, <3>2, ReceiverAssumption DEF Calls
      <4>2. IsParked(Slept(s), d)' => IsParked(Slept(s), d)
        BY <2>5, <4>1
      <4>3. QED
        BY <1>0, <3>2, <4>1, <4>2, AboutFrame DEF Alone
    <3>3. QED
      BY <1>7, <1>11, <3>1, <3>2 DEF Hope
  <2>8. QED
    BY <1>5, <1>9, <2>6, <2>7 DEF WInv, WakeInv
<1>12. QED
  BY <1>10, <1>11

---------------------------------------------------------------------------
(* The system. *)

LEMMA InitWake == Init => WInv
<1> SUFFICES ASSUME Init PROVE WInv
  OBVIOUS
<1>1. \A r \in Receivers : Slept(r) = Quiet
  BY DEF Init, WrapperInit, Slept, OneKinds
<1>2. \A c \in Messages : pc[c] = "start" /\ outcome[c] = "none"
  BY DEF Init, BusInit, Calls
<1>3. \A r \in Receivers, c \in Calls : ~IsParked(Slept(r), c)
  BY <1>1 DEF IsParked, Quiet
<1>4. WaitingInv
  BY <1>1, <1>3 DEF WaitingInv, Quiet
<1>5. CallInv
  BY <1>2 DEF CallInv
<1>6. \A r \in Receivers, c \in Messages : ~Sleeper(r, c)
  BY <1>2, <1>3 DEF Sleeper, Calls
<1>7. QED
  BY <1>4, <1>5, <1>6 DEF WInv, WakeInv

LEMMA StepWake ==
  ASSUME \A r \in Receivers : Limit[r] > 0, IInv, WInv, [Next]_vars
  PROVE  WInv'
<1>1. ASSUME NEW c \in Calls, Make(c) \/ Call(c) \/ Drop(c) \/ Timer(c)
      PROVE  WInv'
  <2>1. UNCHANGED loop
    BY <1>1 DEF Make, Call, Drop, Timer
  <2>2. CASE c \in Messages
    <3>1. MessageMoves(c) \/ PollReserve(c)
      BY <1>1, <2>2, ReceiverAssumption
         DEF Make, Call, Drop, Timer, MessageStep, MessageMoves
    <3>2. QED
      BY <2>1, <2>2, <3>1, MovesWake, PollReserveWake
  <2>3. CASE c \notin Messages
    <3>1. /\ c \in Controls
          /\ StartControl(c) \/ StartClose(c) \/ TimeOut(c) \/ ControlStep(c)
      BY <1>1, <2>3 DEF Make, Call, Drop, Timer
    <3>2. QED
      BY <2>1, <3>1, ControlWake DEF IInv
  <2>4. QED
    BY <2>2, <2>3
<1>2. ASSUME NEW r \in Receivers, EventLoop(r)
      PROVE  WInv'
  BY <1>2, LoopWake DEF EventLoop
<1>3. ASSUME NEW r \in Receivers, Poller(r)
      PROVE  WInv'
  BY <1>3, PollerWake DEF Poller
<1>4. ASSUME NEW r \in Receivers, NEW c \in Messages, Task(r, c) \/ Panic(r, c)
      PROVE  WInv'
  BY <1>4, PollerWake DEF Task, Panic
<1>5. CASE UNCHANGED vars
  <2>1. UNCHANGED <<at, pc, pos, outcome, notify, processing, loop>>
    BY <1>5 DEF vars, mailVars, wrapperVars, contextVars, notifyVars, busVars, localVars
  <2>2. QED
    BY <2>1, StayStep DEF CallsStay, Slept
<1>6. QED
  BY <1>1, <1>2, <1>3, <1>4, <1>5 DEF Next, Finished

\* Notifications of Notify are merged and a permit is stored at most once, yet
\* no send or request waits for a slot of an idle receiver, unless somebody is
\* about to take the slot or permit_drop gave it back without a notification.
THEOREM NobodyStranded ==
  ASSUME \A r \in Receivers : Limit[r] > 0
  PROVE  Spec => []NoStrandedSender
<1>1. Init => WInv
  BY InitWake
<1>2. IInv /\ WInv /\ [Next]_vars => WInv'
  BY StepWake
<1>3. WInv => NoStrandedSender
  BY WInvSuffices
<1>4. QED
  BY <1>1, <1>2, <1>3, Invariance, PTL DEF Spec
=============================================================================
