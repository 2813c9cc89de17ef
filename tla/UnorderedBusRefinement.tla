----------------------- MODULE UnorderedBusRefinement -----------------------
(***************************************************************************)
(* Every behaviour of UnorderedBus is one of ReceiverContract, seen        *)
(* through stage, inbox and inSync: a step of a client, an event loop, a   *)
(* poller or a task is a step of the contract or changes nothing in it.    *)
(***************************************************************************)
EXTENDS UnorderedBusProofs

---------------------------------------------------------------------------
(* What the simulation needs beyond IInv. *)

\* The poller holds a message, and one only, exactly while it waits for a permit.
HeldInv ==
  \A r \in Receivers :
    /\ poller[r] = "acquire" <=> \E c \in Messages : at[r][c] = "held"
    /\ \A c, d \in Messages : at[r][c] = "held" /\ at[r][d] = "held" => c = d

RInv == IInv /\ HeldInv /\ LoopInv

---------------------------------------------------------------------------
(* Steps in which the poller neither moves nor takes or hands over a       *)
(* message.                                                                *)

HandsOff ==
  /\ UNCHANGED poller
  /\ \A r \in Receivers, c \in Messages : at'[r][c] = "held" <=> at[r][c] = "held"

LEMMA HeldFrame ==
  ASSUME HeldInv, HandsOff
  PROVE  HeldInv'
BY DEF HeldInv, HandsOff

LEMMA MoveHandsOff ==
  ASSUME MailTypeOK, NEW r \in Receivers, NEW c \in Messages, NEW p,
         Move(r, c, p), at[r][c] # "held", p # "held", UNCHANGED poller
  PROVE  HandsOff
BY DEF MailTypeOK, Move, HandsOff

\* What the poller holds is the message it waits with.
LEMMA PendingHeld ==
  ASSUME HeldInv, NEW r \in Receivers, NEW c \in Messages, at[r][c] = "held"
  PROVE  Pending(r) = <<c>>
<1>1. poller[r] = "acquire" /\ \A d \in Messages : at[r][d] = "held" <=> d = c
  BY DEF HeldInv
<1>2. (CHOOSE d \in Messages : at[r][d] = "held") = c
  BY <1>1
<1>3. QED
  BY <1>1, <1>2 DEF Pending

LEMMA PendingOther ==
  ASSUME NEW r \in Receivers, poller[r] \notin {"acquire", "flush", "sync"}
  PROVE  Pending(r) = <<>>
BY DEF Pending

LEMMA PendingFrame ==
  ASSUME HeldInv, NEW r \in Receivers, poller'[r] = poller[r],
         \A c \in Messages : at'[r][c] = "held" <=> at[r][c] = "held"
  PROVE  Pending(r)' = Pending(r)
<1>1. CASE poller[r] = "acquire"
  <2>1. PICK c \in Messages : at[r][c] = "held"
    BY <1>1 DEF HeldInv
  <2>2. Pending(r) = <<c>>
    BY <2>1, PendingHeld
  <2>3. poller'[r] = "acquire" /\ \A d \in Messages : at'[r][d] = "held" <=> d = c
    BY <1>1, <2>1 DEF HeldInv
  <2>4. (CHOOSE d \in Messages : at'[r][d] = "held") = c
    BY <2>3
  <2>5. Pending(r)' = <<c>>
    BY <2>3, <2>4 DEF Pending
  <2>6. QED
    BY <2>2, <2>5
<1>2. CASE poller[r] # "acquire"
  BY <1>2 DEF Pending
<1>3. QED
  BY <1>1, <1>2

LEMMA PendingType ==
  ASSUME HeldInv, NEW r \in Receivers
  PROVE  Pending(r) \in Seq(Messages \cup Actions)
<1>1. \A x \in Messages \cup Actions : <<x>> \in Seq(Messages \cup Actions)
  OBVIOUS
<1>2. CASE poller[r] = "acquire"
  <2>1. PICK c \in Messages : at[r][c] = "held"
    BY <1>2 DEF HeldInv
  <2>2. QED
    BY <1>1, <2>1, PendingHeld
<1>3. CASE poller[r] # "acquire"
  <2>1. <<>> \in Seq(Messages \cup Actions) /\ {"Flush", "Sync"} \subseteq Actions
    BY DEF Actions
  <2>2. Pending(r) \in {<<>>, <<"Flush">>, <<"Sync">>}
    BY <1>3 DEF Pending
  <2>3. QED
    BY <1>1, <2>1, <2>2
<1>4. QED
  BY <1>2, <1>3

---------------------------------------------------------------------------
(* The contract's variables. *)

LEMMA StageMove ==
  ASSUME MailTypeOK, NEW r \in Receivers, NEW c \in Messages, NEW p,
         Move(r, c, p), p # "held"
  PROVE  Contract!Move(r, c, p)
<1>1. /\ at' = [at EXCEPT ![r][c] = p] /\ at \in [Receivers -> [Messages -> Place]]
  BY DEF Move, MailTypeOK
<1>2. stage' = [stage EXCEPT ![r][c] = p]
  BY <1>1 DEF stage
<1>3. QED
  BY <1>2 DEF Contract!Move

\* A message that is not in the hands of the poller is where the contract says.
LEMMA StageAt ==
  ASSUME NEW r \in Receivers, NEW c \in Messages, at[r][c] # "held"
  PROVE  stage[r][c] = at[r][c]
BY DEF stage

LEMMA InSyncFrame == UNCHANGED poller => UNCHANGED inSync
BY DEF inSync

\* Without the poller, the inbox changes as the queue does.
LEMMA InboxFrame ==
  ASSUME HeldInv, HandsOff, UNCHANGED queue
  PROVE  UNCHANGED inbox
BY PendingFrame DEF inbox, HandsOff

LEMMA InboxAppend ==
  ASSUME MailTypeOK, HeldInv, HandsOff, NEW r \in Receivers,
         NEW x \in Messages \cup Actions, queue' = [queue EXCEPT ![r] = Append(@, x)]
  PROVE  inbox' = [inbox EXCEPT ![r] = Append(@, x)]
<1>1. /\ Pending(r) \in Seq(Messages \cup Actions)
      /\ queue[r] \in Seq(Messages \cup Actions)
  BY PendingType DEF MailTypeOK
<1>2. Pending(r) \o Append(queue[r], x) = Append(Pending(r) \o queue[r], x)
  BY <1>1
<1>3. /\ queue'[r] = Append(queue[r], x)
      /\ \A s \in Receivers \ {r} : queue'[s] = queue[s]
  BY DEF MailTypeOK
<1>4. \A s \in Receivers : Pending(s)' = Pending(s)
  BY PendingFrame DEF HandsOff
<1>5. inbox[r] = Pending(r) \o queue[r] /\ inbox'[r] = Append(inbox[r], x)
  BY <1>2, <1>3, <1>4 DEF inbox
<1>6. ASSUME NEW s \in Receivers \ {r}
      PROVE  inbox'[s] = inbox[s]
  <2>1. inbox[s] = Pending(s) \o queue[s] /\ inbox'[s] = Pending(s)' \o queue'[s]
    BY DEF inbox
  <2>2. queue'[s] = queue[s] /\ Pending(s)' = Pending(s)
    BY <1>3, <1>4
  <2>3. QED
    BY <2>1, <2>2
<1>7. QED
  BY <1>5, <1>6 DEF inbox

---------------------------------------------------------------------------
(* Steps of the clients and the event loops.                               *)

\* A step that changes nothing the contract sees.
LEMMA Unseen ==
  ASSUME HeldInv, UNCHANGED <<mailVars, poller>>
  PROVE  HeldInv' /\ UNCHANGED Contract!vars
<1>1. HandsOff
  BY DEF HandsOff, mailVars
<1>2. UNCHANGED <<inbox, inSync>>
  BY <1>1, InboxFrame, InSyncFrame DEF mailVars
<1>3. UNCHANGED stage
  BY DEF stage, mailVars
<1>4. QED
  BY <1>1, <1>2, <1>3, HeldFrame DEF Contract!vars, Contract!mailVars, mailVars

\* Taking or giving back a slot, and discarding an answer.
LEMMA SlotStep ==
  ASSUME MailTypeOK, HeldInv, NEW r \in Receivers, NEW c \in Messages, NEW p, Move(r, c, p),
         \/ at[r][c] = "none" /\ p = "permit"
         \/ at[r][c] = "permit" /\ p = "none"
         \/ at[r][c] = "answering" /\ p = "done",
         UNCHANGED <<queue, rx, events, srx, poller>>
  PROVE  HeldInv' /\ Contract!Slot(r, c)
<1>1. HandsOff
  BY MoveHandsOff
<1>2. Contract!Move(r, c, p) /\ stage[r][c] = at[r][c]
  BY StageMove, StageAt
<1>3. UNCHANGED <<inbox, inSync>>
  BY <1>1, InboxFrame, InSyncFrame
<1>4. QED
  BY <1>1, <1>2, <1>3, HeldFrame DEF Contract!Slot

LEMMA SendSim ==
  ASSUME TypeOK, HeldInv, NEW r \in Receivers, NEW c \in Messages, SendMessage(r, c),
         at[r][c] = "permit", UNCHANGED poller
  PROVE  HeldInv' /\ Contract!Offer(r)
<1>0. MailTypeOK
  BY DEF TypeOK, CommonTypeOK
<1>1. PICK p \in {"queued", "refused"} : Move(r, c, p)
  BY DEF SendMessage
<1>2. HandsOff
  BY <1>0, <1>1, MoveHandsOff
<1>3. HeldInv' /\ UNCHANGED inSync
  BY <1>2, HeldFrame, InSyncFrame
<1>4. stage[r][c] = "permit"
  BY StageAt
<1>5. Contract!SendMessage(r, c)
  <2>1. CASE rx[r] = "open"
    <3>1. Contract!Move(r, c, "queued")
      BY <1>0, <2>1, StageMove DEF SendMessage
    <3>2. inbox' = [inbox EXCEPT ![r] = Append(@, c)]
      BY <1>0, <1>2, <2>1, InboxAppend DEF SendMessage
    <3>3. QED
      BY <2>1, <3>1, <3>2 DEF SendMessage, Contract!SendMessage
  <2>2. CASE rx[r] # "open"
    <3>1. Contract!Move(r, c, "refused")
      BY <1>0, <2>2, StageMove DEF SendMessage
    <3>2. UNCHANGED inbox
      BY <1>2, <2>2, InboxFrame DEF SendMessage
    <3>3. QED
      BY <2>2, <3>1, <3>2 DEF SendMessage, Contract!SendMessage
  <2>3. QED
    BY <2>1, <2>2
<1>6. QED
  BY <1>3, <1>4, <1>5 DEF Contract!Offer

\* What a step of the system has to show.
Simulates == HeldInv' /\ [Contract!Next]_(Contract!vars)

LEMMA MessageSim ==
  ASSUME RInv, NEW c \in Messages, UNCHANGED pollVars,
         StartSend(c) \/ StartRequest(c) \/ Abandon(c) \/ MessageStep(c)
  PROVE  Simulates
<1>0. TypeOK /\ MailTypeOK /\ HeldInv /\ Visiting /\ RouteInv /\ UNCHANGED poller
  BY DEF RInv, IInv, TypeOK, CommonTypeOK, pollVars
<1>a. At(c) \in Receivers
  BY <1>0, CopyAt
<1>b. ASSUME UNCHANGED mailVars
      PROVE  Simulates
  BY <1>0, <1>b, Unseen DEF Simulates
<1>c. ASSUME NEW p, Move(At(c), c, p), UNCHANGED <<queue, rx, events, srx>>,
             \/ at[At(c)][c] = "none" /\ p = "permit"
             \/ at[At(c)][c] = "permit" /\ p = "none"
      PROVE  Simulates
  BY <1>0, <1>a, <1>c, SlotStep DEF Simulates, Contract!Next
<1>1. CASE StartSend(c) \/ StartRequest(c) \/ Abandon(c) \/ PollReserve(c) \/ Mark(c)
           \/ Answered(c)
  BY <1>1, <1>b DEF StartSend, StartRequest, Abandon, PollReserve, Mark, Answered
<1>2. CASE Reserve(c)
  <2>1. \/ UNCHANGED mailVars
        \/ Move(At(c), c, "permit") /\ UNCHANGED <<queue, rx, events, srx>>
    BY <1>2 DEF Reserve, TakeSlot, mailVars
  <2>2. QED
    BY <1>0, <1>2, <1>b, <1>c, <2>1, CopyAt
<1>3. CASE TryReserve(c)
  <2>1. \/ UNCHANGED mailVars
        \/ Move(At(c), c, "permit") /\ UNCHANGED <<queue, rx, events, srx>>
    BY <1>3 DEF TryReserve, TakeSlot, mailVars
  <2>2. QED
    BY <1>0, <1>3, <1>b, <1>c, <2>1, CopyAt
<1>4. CASE DropPermit(c)
  <2>1. \/ UNCHANGED mailVars
        \/ /\ at[At(c)][c] = "permit" /\ Move(At(c), c, "none")
           /\ UNCHANGED <<queue, rx, events, srx>>
    BY <1>4 DEF DropPermit, DropSlot, mailVars
  <2>2. QED
    BY <1>b, <1>c, <2>1
<1>5. CASE Bump(c)
  <2>1. Move(At(c), c, "permit") /\ UNCHANGED <<queue, rx, events, srx>>
    BY <1>5 DEF Bump, ForceSlot
  <2>2. QED
    BY <1>0, <1>5, <1>c, <2>1, CopyAt
<1>6. CASE Send(c)
  <2>1. SendMessage(At(c), c) /\ at[At(c)][c] = "permit"
    BY <1>0, <1>6, CopyAt DEF Send
  <2>2. QED
    BY <1>0, <1>a, <2>1, SendSim DEF Simulates, Contract!Next
<1>7. QED
  BY <1>1, <1>2, <1>3, <1>4, <1>5, <1>6 DEF MessageStep

LEMMA ControlSim ==
  ASSUME RInv, NEW c \in Controls, UNCHANGED pollVars,
         StartControl(c) \/ StartClose(c) \/ TimeOut(c) \/ ControlStep(c)
  PROVE  Simulates
<1>0. MailTypeOK /\ HeldInv /\ At(c) \in Receivers /\ UNCHANGED poller
  BY AtReceiver DEF RInv, IInv, TypeOK, CommonTypeOK, Calls, pollVars
<1>1. UNCHANGED mailVars \/ SendAction(At(c), ActionOf(c))
  BY DEF StartControl, StartClose, TimeOut, ControlStep, Check, Register, Push,
       PushFails, PollFlushed, UnparkFlushed, CheckIdle, CheckReady, Awake
<1>2. CASE UNCHANGED mailVars
  BY <1>0, <1>2, Unseen DEF Simulates
<1>3. CASE SendAction(At(c), ActionOf(c))
  <2>1. ActionOf(c) \in Actions \ {"Init"}
    BY DEF ActionOf, Actions
  <2>2. HandsOff
    BY <1>0, <1>3 DEF HandsOff, SendAction
  <2>3. inbox' = [inbox EXCEPT ![At(c)] = Append(@, ActionOf(c))]
    BY <1>0, <1>3, <2>1, <2>2, InboxAppend DEF SendAction
  <2>4. HeldInv' /\ UNCHANGED <<stage, inSync>>
    BY <1>0, <1>3, <2>2, HeldFrame, InSyncFrame DEF stage, SendAction
  <2>5. Contract!SendAction(At(c), ActionOf(c))
    BY <1>3, <2>3, <2>4 DEF SendAction, Contract!SendAction
  <2>6. Contract!Offer(At(c))
    BY <2>1, <2>4, <2>5 DEF Contract!Offer, Contract!Actions, Actions
  <2>7. QED
    BY <1>0, <2>4, <2>6 DEF Simulates, Contract!Next
<1>4. QED
  BY <1>1, <1>2, <1>3

LEMMA LoopSim ==
  ASSUME RInv, NEW r \in Receivers, LoopStep(r), UNCHANGED pollVars
  PROVE  Simulates
<1>0. TypeOK /\ MailTypeOK /\ HeldInv /\ ChannelInv /\ UNCHANGED poller /\ UNCHANGED inSync
  BY InSyncFrame DEF RInv, IInv, TypeOK, CommonTypeOK, pollVars
<1>1. ASSUME NEW c \in Messages, OnResponse(r, c)
      PROVE  Simulates
  <2>1. /\ TakeEvent(r, c) /\ Move(r, c, "answering") /\ at[r][c] = "answered"
    BY TypeParts, <1>0, <1>1, TakeEventHolds DEF OnResponse
  <2>2. HandsOff /\ Contract!Move(r, c, "answering") /\ stage[r][c] = "answered"
    BY <1>0, <2>1, MoveHandsOff, StageMove, StageAt
  <2>3. HeldInv' /\ UNCHANGED inbox
    BY <1>0, <2>1, <2>2, HeldFrame, InboxFrame DEF TakeEvent
  <2>4. Contract!TakeEvent(r)
    BY <1>0, <2>1, <2>2, <2>3 DEF TakeEvent, Contract!TakeEvent
  <2>5. QED
    BY <2>3, <2>4 DEF Simulates, Contract!Next
<1>2. ASSUME NEW x \in Signals, TakeEvent(r, x), UNCHANGED at
      PROVE  Simulates
  <2>1. x \notin Messages
    BY MailboxAssumption
  <2>2. HandsOff /\ UNCHANGED stage
    BY <1>0, <1>2 DEF HandsOff, stage
  <2>3. HeldInv' /\ UNCHANGED inbox
    BY <1>0, <1>2, <2>2, HeldFrame, InboxFrame DEF TakeEvent
  <2>4. Contract!TakeEvent(r)
    BY <1>0, <1>2, <2>1, <2>2, <2>3 DEF TakeEvent, Contract!TakeEvent
  <2>5. QED
    BY <2>3, <2>4 DEF Simulates, Contract!Next
<1>3. ASSUME NEW c \in Messages, Deliver(r, c)
      PROVE  Simulates
  <2>1. HeldInv' /\ Contract!Slot(r, c)
    BY <1>0, <1>3, SlotStep DEF Deliver
  <2>2. QED
    BY <2>1 DEF Simulates, Contract!Next
<1>4. ASSUME NEW c \in Messages, DeliverPanics(r, c)
      PROVE  Simulates
  <2>1. /\ at[r][c] = "answering" /\ srx[r]
        /\ srx' = [srx EXCEPT ![r] = FALSE] /\ events' = [events EXCEPT ![r] = <<>>]
        /\ at' = [at EXCEPT ![r] = [m \in Messages |->
                    IF m = c THEN "done"
                    ELSE IF at[r][m] = "answered" THEN "lost" ELSE at[r][m]]]
        /\ UNCHANGED <<queue, rx>>
    BY <1>4 DEF DeliverPanics, RInv, LoopInv, LoopGoes
  <2>2. HandsOff
    BY <1>0, <2>1 DEF HandsOff, MailTypeOK
  <2>3. HeldInv' /\ UNCHANGED inbox
    BY <1>0, <2>1, <2>2, HeldFrame, InboxFrame
  <2>4. stage' = [stage EXCEPT ![r] = [m \in Messages |->
                    IF m = c THEN "done"
                    ELSE IF stage[r][m] = "answered" THEN "lost" ELSE stage[r][m]]]
    BY <1>0, <2>1 DEF stage, MailTypeOK
  <2>5. stage[r][c] = "answering"
    BY <2>1, StageAt
  <2>6. Contract!Stop(r)
    BY <1>0, <2>1, <2>3, <2>4, <2>5 DEF Contract!Stop
  <2>7. QED
    BY <2>3, <2>6 DEF Simulates, Contract!Next
<1>5. CASE EndLoop(r)
  <2>1. /\ srx[r] /\ StreamEnded(r) /\ srx' = [srx EXCEPT ![r] = FALSE]
        /\ UNCHANGED <<at, queue, rx, events>>
    BY <1>5 DEF EndLoop, RInv, LoopInv, LoopGoes
  <2>2. HandsOff /\ UNCHANGED stage
    BY <1>0, <2>1 DEF HandsOff, stage
  <2>3. HeldInv' /\ UNCHANGED inbox
    BY <1>0, <2>1, <2>2, HeldFrame, InboxFrame
  <2>4. Contract!StreamEnded(r)
    BY <2>1 DEF StreamEnded, Contract!StreamEnded, stage
  <2>5. Contract!Stop(r)
    BY <1>0, <2>1, <2>2, <2>3, <2>4 DEF Contract!Stop
  <2>6. QED
    BY <2>3, <2>5 DEF Simulates, Contract!Next
<1>6. CASE NotifyIdle(r) \/ NotifyResponse(r) \/ NotifyFlushed(r) \/ SetReady(r)
  BY <1>0, <1>6, Unseen DEF NotifyIdle, NotifyResponse, NotifyFlushed, SetReady, Simulates
<1>7. CASE OnFlushed(r) \/ OnReady(r) \/ OnSynchronized(r)
  BY <1>2, <1>7 DEF OnFlushed, OnReady, OnSynchronized, Signals
<1>8. QED
  BY <1>1, <1>3, <1>4, <1>5, <1>6, <1>7 DEF LoopStep

---------------------------------------------------------------------------
(* Steps of the poller and of its tasks.                                   *)

\* The poller of r moved, and only copies of r with it.
Locally(r) ==
  \A s \in Receivers \ {r} :
    poller'[s] = poller[s] /\ at'[s] = at[s] /\ queue'[s] = queue[s]

LEMMA HeldLocal ==
  ASSUME HeldInv, NEW r \in Receivers, Locally(r),
         poller'[r] # "acquire", \A c \in Messages : at'[r][c] # "held"
  PROVE  HeldInv'
BY DEF HeldInv, Locally

LEMMA NoneHeld ==
  ASSUME HeldInv, NEW r \in Receivers, poller[r] # "acquire"
  PROVE  \A c \in Messages : at[r][c] # "held"
BY DEF HeldInv

\* A poller that waits for nothing holds nothing back from its queue.
LEMMA InboxOf ==
  ASSUME MailTypeOK, NEW r \in Receivers
  PROVE  /\ poller[r] \in {"recv", "syncing", "ended", "panicked"} => inbox[r] = queue[r]
         /\ poller[r] = "flush" => inbox[r] = <<"Flush">> \o queue[r]
         /\ poller[r] = "sync" => inbox[r] = <<"Sync">> \o queue[r]
<1>1. <<>> \o queue[r] = queue[r]
  BY ConcatEmptySeq DEF MailTypeOK
<1>2. QED
  BY <1>1 DEF inbox, Pending

LEMMA InboxLocally ==
  ASSUME HeldInv, HeldInv', NEW r \in Receivers, Locally(r)
  PROVE  inbox' = [inbox EXCEPT ![r] = inbox'[r]]
<1>1. ASSUME NEW s \in Receivers \ {r}
      PROVE  inbox'[s] = inbox[s]
  BY PendingFrame DEF Locally, inbox
<1>2. QED
  BY <1>1 DEF inbox

\* The contract's inbox when the poller takes the head of its queue.
LEMMA TakeSim ==
  ASSUME MailTypeOK, HeldInv, HeldInv', NEW r \in Receivers, NEW x, Locally(r),
         poller[r] = "recv", Receive(r), Incoming(r) = x,
         poller'[r] = "recv"
  PROVE  Contract!Take(r, x) /\ UNCHANGED inSync
<1>1. queue[r] # <<>> /\ Head(queue[r]) = x /\ queue'[r] = Tail(queue[r])
  BY DEF Receive, Incoming, MailTypeOK
<1>2. inbox[r] = queue[r]
  BY InboxOf
<1>3. Tail(queue[r]) \in Seq(Messages \cup Actions)
  BY <1>1 DEF MailTypeOK
<1>4. inbox'[r] = Tail(queue[r])
  <2>1. Pending(r)' = <<>>
    BY DEF Pending
  <2>2. inbox'[r] = Pending(r)' \o queue'[r]
    BY DEF inbox
  <2>3. QED
    BY <1>1, <1>3, <2>1, <2>2, ConcatEmptySeq
<1>5. inbox' = [inbox EXCEPT ![r] = Tail(@)]
  <2>1. inbox'[r] = Tail(inbox[r])
    BY <1>2, <1>4
  <2>2. QED
    BY <2>1, InboxLocally
<1>6. r \notin inSync /\ UNCHANGED inSync
  BY DEF inSync, Locally
<1>7. QED
  BY <1>1, <1>2, <1>5, <1>6 DEF Contract!Take, Contract!Receive, Contract!Incoming

\* stx.send(signal).unwrap(): with an event loop the signal is sent ...
LEMMA EmitSim ==
  ASSUME HeldInv, NEW r \in Receivers, NEW signal, PollerEmits(r, signal), srx[r],
         UNCHANGED srx, poller \in [Receivers -> PollerPlace], poller[r] # "acquire",
         \A s \in Receivers \ {r} : queue'[s] = queue[s]
  PROVE  /\ HeldInv' /\ Locally(r) /\ poller'[r] = "recv"
         /\ UNCHANGED <<stage, rx, srx>>
         /\ Contract!Emit(r, signal)
<1>1. /\ poller' = [poller EXCEPT ![r] = "recv"] /\ UNCHANGED <<at, rx>>
      /\ events' = [events EXCEPT ![r] = Append(@, signal)]
  BY DEF PollerEmits
<1>2. Locally(r) /\ poller'[r] = "recv"
  BY <1>1 DEF Locally
<1>3. HeldInv'
  BY <1>1, <1>2, NoneHeld, HeldLocal
<1>4. QED
  BY <1>1, <1>2, <1>3 DEF stage, Contract!Emit

\* ... and without one the poller panics, which the contract allows.
LEMMA PanicSim ==
  ASSUME MailTypeOK, HeldInv, NEW r \in Receivers, NEW signal, PollerEmits(r, signal),
         ~srx[r], UNCHANGED srx, poller \in [Receivers -> PollerPlace],
         poller[r] # "acquire"
  PROVE  HeldInv' /\ Contract!Collapse(r)
<1>1. /\ poller' = [poller EXCEPT ![r] = "panicked"] /\ rx' = [rx EXCEPT ![r] = "gone"]
      /\ queue' = [queue EXCEPT ![r] = <<>>] /\ UNCHANGED <<events, srx>>
      /\ at' = [at EXCEPT ![r] = [c \in Messages |->
                  IF at[r][c] = "queued" THEN "lost" ELSE at[r][c]]]
  BY DEF PollerEmits, PollerPanics
<1>2. /\ Locally(r) /\ poller'[r] = "panicked" /\ queue'[r] = <<>>
      /\ \A c \in Messages :
           at'[r][c] = IF at[r][c] = "queued" THEN "lost" ELSE at[r][c]
  BY <1>1 DEF Locally, MailTypeOK
<1>3. \A c \in Messages : at[r][c] # "held" /\ at'[r][c] # "held"
  BY <1>2, NoneHeld
<1>4. HeldInv'
  BY <1>2, <1>3, HeldLocal
<1>5. inbox' = [inbox EXCEPT ![r] = <<>>]
  <2>1. Pending(r)' = <<>>
    BY <1>2 DEF Pending
  <2>2. inbox'[r] = <<>> \o <<>>
    BY <1>2, <2>1 DEF inbox
  <2>3. inbox'[r] = <<>>
    BY <2>2, ConcatEmptySeq, EmptySeq
  <2>4. QED
    BY <1>2, <1>4, <2>3, InboxLocally
<1>6. stage' = [stage EXCEPT ![r] = [c \in Messages |->
                  IF stage[r][c] = "queued" \/ c \in {} THEN "lost" ELSE stage[r][c]]]
  <2>1. \A c \in Messages : stage[r][c] = at[r][c]
    BY <1>3, StageAt
  <2>2. \A c \in Messages : stage'[r][c] =
          IF stage[r][c] = "queued" \/ c \in {} THEN "lost" ELSE stage[r][c]
    BY <1>2, <1>3, <2>1 DEF stage
  <2>3. \A s \in Receivers \ {r} : stage'[s] = stage[s]
    BY <1>2 DEF stage, Locally
  <2>4. stage'[r] = [c \in Messages |->
                      IF stage[r][c] = "queued" \/ c \in {} THEN "lost" ELSE stage[r][c]]
    BY <2>2 DEF stage
  <2>5. QED
    BY <2>3, <2>4 DEF stage
<1>7. inSync' = inSync \ {r}
  BY <1>2 DEF inSync, Locally
<1>8. QED
  BY <1>1, <1>4, <1>5, <1>6, <1>7 DEF Contract!Collapse, Contract!Die

\* The contract's inbox when the poller acts on what it had set aside.
LEMMA ActSim ==
  ASSUME MailTypeOK, HeldInv, HeldInv', NEW r \in Receivers, NEW x \in Messages \cup Actions,
         Locally(r), inbox[r] = <<x>> \o queue[r], queue'[r] = queue[r],
         poller[r] # "syncing", poller'[r] \in {"recv", "syncing"}
  PROVE  Contract!Take(r, x)
<1>1. queue[r] \in Seq(Messages \cup Actions)
  BY DEF MailTypeOK
<1>2. inbox[r] # <<>> /\ Head(inbox[r]) = x /\ Tail(inbox[r]) = queue[r]
  BY <1>1, Prepended
<1>3. inbox'[r] = queue[r]
  <2>1. Pending(r)' = <<>>
    BY DEF Pending
  <2>2. inbox'[r] = <<>> \o queue[r]
    BY <2>1 DEF inbox
  <2>3. QED
    BY <1>1, <2>2, ConcatEmptySeq
<1>4. inbox' = [inbox EXCEPT ![r] = Tail(@)]
  BY <1>2, <1>3, InboxLocally
<1>5. r \notin inSync
  BY DEF inSync
<1>6. QED
  BY <1>2, <1>4, <1>5 DEF Contract!Take, Contract!Receive, Contract!Incoming

LEMMA PollRequestSim ==
  ASSUME RInv, NEW r \in Receivers, PollRequest(r)
  PROVE  Simulates
<1>0. /\ MailTypeOK /\ HeldInv /\ ChannelInv
      /\ poller \in [Receivers -> PollerPlace]
      /\ queue[r] \in Seq(Messages \cup Actions)
  BY DEF RInv, IInv, TypeOK, CommonTypeOK, PollTypeOK, MailTypeOK
<1> DEFINE c == Head(queue[r])
<1>1. /\ poller[r] = "recv" /\ poller' = [poller EXCEPT ![r] = "acquire"]
      /\ c \in Messages /\ Move(r, c, "held") /\ queue[r] # <<>>
      /\ queue' = [queue EXCEPT ![r] = Tail(@)] /\ UNCHANGED <<rx, events, srx>>
  BY DEF PollRequest, PollerGoes, Receive, Incoming
<1> HIDE DEF c
<1>2. /\ \A d \in Messages : at'[r][d] = IF d = c THEN "held" ELSE at[r][d]
      /\ Locally(r) /\ poller'[r] = "acquire" /\ queue'[r] = Tail(queue[r])
  BY <1>0, <1>1 DEF Locally, Move, MailTypeOK
<1>3. \A d \in Messages : at[r][d] # "held"
  BY <1>0, <1>1, NoneHeld
<1>4. HeldInv'
  <2>1. ASSUME NEW s \in Receivers
        PROVE  /\ poller'[s] = "acquire" <=> \E d \in Messages : at'[s][d] = "held"
               /\ \A d, e \in Messages : at'[s][d] = "held" /\ at'[s][e] = "held" => d = e
    BY <1>0, <1>1, <1>2, <1>3 DEF HeldInv, Locally
  <2>2. QED
    BY <2>1 DEF HeldInv
<1>5. at[r][c] = "queued"
  BY <1>0, <1>1, ChannelSplit, HoldsTail DEF QueueOf, c
<1>6. UNCHANGED stage
  BY <1>2, <1>3, <1>5 DEF stage, Locally
<1>7. UNCHANGED inbox
  <2>1. (CHOOSE d \in Messages : at'[r][d] = "held") = c
    BY <1>1, <1>2, <1>3
  <2>2. Pending(r)' = <<c>>
    BY <1>2, <2>1 DEF Pending
  <2>3. inbox'[r] = <<c>> \o Tail(queue[r])
    BY <1>2, <2>2 DEF inbox
  <2>4. <<c>> \o Tail(queue[r]) = queue[r]
    BY <1>0, <1>1, Prepended DEF c
  <2>5. inbox'[r] = inbox[r]
    BY <1>0, <1>1, <2>3, <2>4, InboxOf
  <2>6. QED
    BY <1>0, <1>2, <1>4, <2>5, InboxLocally DEF inbox
<1>8. UNCHANGED inSync
  BY <1>1, <1>2 DEF inSync, Locally
<1>9. QED
  BY <1>1, <1>4, <1>6, <1>7, <1>8 DEF Simulates, Contract!vars, Contract!mailVars

LEMMA SpawnSim ==
  ASSUME RInv, NEW r \in Receivers, Spawn(r)
  PROVE  Simulates
<1>0. MailTypeOK /\ HeldInv /\ poller \in [Receivers -> PollerPlace]
  BY DEF RInv, IInv, TypeOK, CommonTypeOK, PollTypeOK
<1>1. PICK c \in Messages : at[r][c] = "held" /\ Move(r, c, "running")
  BY DEF Spawn
<1>2. /\ poller[r] = "acquire" /\ poller' = [poller EXCEPT ![r] = "recv"]
      /\ UNCHANGED <<queue, rx, events, srx>>
  BY DEF Spawn, PollerGoes
<1>3. /\ \A d \in Messages : at'[r][d] = IF d = c THEN "running" ELSE at[r][d]
      /\ \A d \in Messages : at[r][d] = "held" => d = c
      /\ Locally(r) /\ poller'[r] = "recv"
  BY <1>0, <1>1, <1>2 DEF Locally, Move, MailTypeOK, HeldInv
<1>4. HeldInv'
  BY <1>0, <1>3, HeldLocal
<1>5. Contract!Move(r, c, "running")
  BY <1>0, <1>1, StageMove
<1>6. inbox[r] = <<c>> \o queue[r]
  BY <1>0, <1>1, PendingHeld DEF inbox
<1>7. Contract!Take(r, c)
  BY <1>0, <1>2, <1>3, <1>4, <1>6, ActSim
<1>8. UNCHANGED inSync
  BY <1>2, <1>3 DEF inSync, Locally
<1>9. Contract!Begin(r, c)
  BY <1>2, <1>5, <1>7, <1>8 DEF Contract!Begin
<1>10. QED
  BY <1>4, <1>9 DEF Simulates, Contract!Next

\* With every permit at the poller no handler runs.
LEMMA IdleTasks ==
  ASSUME RInv, NEW r \in Receivers, sem[r] = MaxParallel[r], poller[r] # "syncing"
  PROVE  Contract!Idle(r)
<1>1. sem[r] + Cardinality(Tasks(r)) = MaxParallel[r] /\ MaxParallel[r] \in Nat
  BY BufferUnorderedAssumption DEF RInv, IInv, SemaphoreInv
<1>2. IsFiniteSet(Tasks(r)) /\ Cardinality(Tasks(r)) \in Nat
  BY CopiesFinite, FS_CardinalityType DEF Tasks
<1>3. Cardinality(Tasks(r)) = 0
  BY <1>1, <1>2
<1>4. Tasks(r) = {}
  BY <1>2, <1>3, FS_EmptySet
<1>5. QED
  BY <1>4 DEF Contract!Idle, stage, Tasks, Copies

LEMMA PollerSim ==
  ASSUME RInv, NEW r \in Receivers, PollerStep(r)
  PROVE  Simulates
<1>0. /\ MailTypeOK /\ HeldInv /\ poller \in [Receivers -> PollerPlace]
      /\ queue[r] \in Seq(Messages \cup Actions)
      /\ {"Init", "Flush", "Sync", "Close"} \subseteq Messages \cup Actions
  BY DEF RInv, IInv, TypeOK, CommonTypeOK, PollTypeOK, MailTypeOK, Actions
<1>a. ASSUME NEW signal, PollerEmits(r, signal), ~srx[r], UNCHANGED srx,
             poller[r] # "acquire"
      PROVE  Simulates
  BY <1>0, <1>a, PanicSim DEF Simulates, Contract!Next
<1>b. ASSUME Receive(r)
      PROVE  \A s \in Receivers \ {r} : queue'[s] = queue[s]
  BY <1>0, <1>b DEF Receive, MailTypeOK
<1>1. CASE PollRequest(r)
  BY <1>1, PollRequestSim
<1>2. CASE Spawn(r)
  BY <1>2, SpawnSim
<1>3. CASE PollInitAction(r)
  <2>1. /\ poller[r] = "recv" /\ Incoming(r) = "Init" /\ PollerEmits(r, "Ready")
        /\ srx[r] => Receive(r)
        /\ UNCHANGED srx
    BY <1>3 DEF PollInitAction
  <2>2. CASE srx[r]
    <3>1. /\ HeldInv' /\ Locally(r) /\ poller'[r] = "recv"
          /\ UNCHANGED <<stage, rx, srx>> /\ Contract!Emit(r, "Ready")
      BY <1>0, <1>b, <2>1, <2>2, EmitSim
    <3>2. Contract!Take(r, "Init") /\ UNCHANGED inSync
      BY <1>0, <2>1, <2>2, <3>1, TakeSim
    <3>3. Contract!AnswerInit(r)
      BY <3>1, <3>2 DEF Contract!AnswerInit
    <3>4. QED
      BY <3>1, <3>3 DEF Simulates, Contract!Next
  <2>3. QED
    BY <1>a, <2>1, <2>2
<1>4. CASE PollClose(r)
  <2>1. /\ poller[r] = "recv" /\ Incoming(r) = "Close" /\ Receive(r)
        /\ rx' = [rx EXCEPT ![r] = "closed"] /\ UNCHANGED <<at, events, srx, poller>>
    BY <1>4 DEF PollClose, pollVars
  <2>2. Locally(r) /\ HandsOff /\ UNCHANGED stage
    BY <1>b, <2>1 DEF Locally, HandsOff, stage
  <2>3. HeldInv'
    BY <1>0, <2>2, HeldFrame
  <2>4. Contract!Take(r, "Close") /\ UNCHANGED inSync
    BY <1>0, <2>1, <2>2, <2>3, TakeSim
  <2>5. Contract!AcceptClose(r)
    BY <2>1, <2>2, <2>4 DEF Contract!AcceptClose
  <2>6. QED
    BY <2>3, <2>5 DEF Simulates, Contract!Next
<1>5. CASE PollFlush(r) \/ PollSync(r)
  <2>1. /\ poller[r] = "recv" /\ Receive(r) /\ UNCHANGED <<at, rx, events, srx>>
        /\ \/ Incoming(r) = "Flush" /\ poller' = [poller EXCEPT ![r] = "flush"]
           \/ Incoming(r) = "Sync" /\ poller' = [poller EXCEPT ![r] = "sync"]
    BY <1>5 DEF PollFlush, PollSync, PollerGoes
  <2>2. Locally(r) /\ UNCHANGED stage /\ poller'[r] \in {"flush", "sync"}
    BY <1>0, <1>b, <2>1 DEF Locally, stage
  <2>3. HeldInv'
    BY <1>0, <2>1, <2>2, NoneHeld, HeldLocal
  <2>4. queue[r] # <<>> /\ queue'[r] = Tail(queue[r])
    BY <1>0, <2>1 DEF Receive, MailTypeOK
  <2>5. Pending(r)' = <<Head(queue[r])>>
    BY <1>0, <2>1 DEF Pending, Incoming
  <2>6. inbox'[r] = queue[r]
    BY <1>0, <2>4, <2>5, Prepended DEF inbox
  <2>7. UNCHANGED inbox
    <3>1. inbox'[r] = inbox[r]
      BY <1>0, <2>1, <2>6, InboxOf
    <3>2. QED
      BY <1>0, <2>2, <2>3, <3>1, InboxLocally DEF inbox
  <2>8. UNCHANGED inSync
    BY <2>1, <2>2 DEF inSync, Locally
  <2>9. QED
    BY <2>1, <2>2, <2>3, <2>7, <2>8 DEF Simulates, Contract!vars, Contract!mailVars
<1>6. CASE FinishFlush(r)
  <2>1. /\ poller[r] = "flush" /\ sem[r] = MaxParallel[r] /\ PollerEmits(r, "Flushed")
        /\ srx[r] => UNCHANGED queue
        /\ UNCHANGED srx
    BY <1>6 DEF FinishFlush
  <2>2. CASE srx[r]
    <3>1. /\ HeldInv' /\ Locally(r) /\ poller'[r] = "recv"
          /\ UNCHANGED <<stage, rx, srx>> /\ Contract!Emit(r, "Flushed")
      BY <1>0, <2>1, <2>2, EmitSim
    <3>2. Contract!Take(r, "Flush")
      BY <1>0, <2>1, <2>2, <3>1, InboxOf, ActSim
    <3>3. UNCHANGED inSync
      BY <2>1, <3>1 DEF inSync, Locally
    <3>4. Contract!AnswerFlush(r)
      BY <2>1, <3>1, <3>2, <3>3, IdleTasks DEF Contract!AnswerFlush
    <3>5. QED
      BY <3>1, <3>4 DEF Simulates, Contract!Next
  <2>3. QED
    BY <1>a, <2>1, <2>2
<1>7. CASE StartSync(r)
  <2>1. /\ poller[r] = "sync" /\ poller' = [poller EXCEPT ![r] = "syncing"]
        /\ sem[r] = MaxParallel[r] /\ UNCHANGED <<at, queue, rx, events, srx>>
    BY <1>7 DEF StartSync, PollerGoes, mailVars
  <2>2. Locally(r) /\ poller'[r] = "syncing" /\ UNCHANGED stage
    BY <1>0, <2>1 DEF Locally, stage
  <2>3. HeldInv'
    BY <1>0, <2>1, <2>2, NoneHeld, HeldLocal
  <2>4. Contract!Take(r, "Sync")
    BY <1>0, <2>1, <2>2, <2>3, InboxOf, ActSim
  <2>5. inSync' = inSync \cup {r}
    BY <2>2 DEF inSync, Locally
  <2>6. Contract!BeginSync(r)
    BY <2>1, <2>2, <2>4, <2>5, IdleTasks DEF Contract!BeginSync
  <2>7. QED
    BY <2>3, <2>6 DEF Simulates, Contract!Next
<1>8. CASE FinishSync(r)
  <2>1. /\ poller[r] = "syncing" /\ PollerEmits(r, "Synchronized")
        /\ srx[r] => UNCHANGED queue
        /\ UNCHANGED srx
    BY <1>8 DEF FinishSync
  <2>2. CASE srx[r]
    <3>1. /\ HeldInv' /\ Locally(r) /\ poller'[r] = "recv"
          /\ UNCHANGED <<stage, rx, srx>> /\ Contract!Emit(r, "Synchronized")
      BY <1>0, <2>1, <2>2, EmitSim
    <3>2. UNCHANGED inbox
      <4>1. Pending(r) = <<>> /\ Pending(r)' = <<>>
        BY <2>1, <3>1 DEF Pending
      <4>2. inbox'[r] = inbox[r]
        BY <2>1, <2>2, <4>1 DEF inbox
      <4>3. QED
        BY <1>0, <3>1, <4>2, InboxLocally DEF inbox
    <3>3. r \in inSync /\ inSync' = inSync \ {r}
      BY <2>1, <3>1 DEF inSync, Locally
    <3>4. Contract!EndSync(r)
      BY <3>1, <3>2, <3>3 DEF Contract!EndSync
    <3>5. QED
      BY <3>1, <3>4 DEF Simulates, Contract!Next
  <2>3. QED
    BY <1>a, <2>1, <2>2
<1>9. CASE EndPoller(r)
  <2>1. /\ poller[r] = "recv" /\ poller' = [poller EXCEPT ![r] = "ended"]
        /\ rx[r] = "closed" /\ queue[r] = <<>> /\ rx' = [rx EXCEPT ![r] = "gone"]
        /\ UNCHANGED <<at, queue, events, srx>>
    BY <1>9 DEF EndPoller, PollerGoes
  <2>2. Locally(r) /\ poller'[r] = "ended" /\ UNCHANGED stage
    BY <1>0, <2>1 DEF Locally, stage
  <2>3. HeldInv'
    BY <1>0, <2>1, <2>2, NoneHeld, HeldLocal
  <2>4. inbox[r] = <<>> /\ UNCHANGED inbox
    <3>1. inbox[r] = queue[r]
      BY <1>0, <2>1, InboxOf
    <3>2. Pending(r) = <<>> /\ Pending(r)' = <<>>
      BY <2>1, <2>2 DEF Pending
    <3>3. inbox'[r] = inbox[r]
      BY <2>1, <3>2 DEF inbox
    <3>4. QED
      BY <1>0, <2>1, <2>2, <2>3, <3>1, <3>3, InboxLocally DEF inbox
  <2>5. r \notin inSync /\ UNCHANGED inSync
    BY <2>1, <2>2 DEF inSync, Locally
  <2>6. Contract!Quit(r)
    BY <2>1, <2>2, <2>4, <2>5 DEF Contract!Quit
  <2>7. QED
    BY <2>3, <2>6 DEF Simulates, Contract!Next
<1>10. QED
  BY <1>1, <1>2, <1>3, <1>4, <1>5, <1>6, <1>7, <1>8, <1>9 DEF PollerStep

LEMMA TaskSim ==
  ASSUME RInv, NEW r \in Receivers, NEW c \in Messages,
         HandlerReturns(r, c) \/ Respond(r, c) \/ HandlerPanics(r, c)
  PROVE  Simulates
<1>0. MailTypeOK /\ HeldInv
  BY DEF RInv, IInv, TypeOK, CommonTypeOK
<1>1. PICK p \in {"handled", "lost", "answered"} : Move(r, c, p)
  BY DEF HandlerReturns, Respond, HandlerPanics
<1>2. /\ at[r][c] \in {"running", "handled"} /\ UNCHANGED <<poller, queue, rx, srx>>
  BY DEF HandlerReturns, Respond, HandlerPanics, pollVars
<1>3. HandsOff /\ stage[r][c] = at[r][c]
  BY <1>0, <1>1, <1>2, MoveHandsOff, StageAt
<1>4. HeldInv' /\ UNCHANGED <<inbox, inSync>>
  BY <1>0, <1>2, <1>3, HeldFrame, InboxFrame, InSyncFrame
<1>5. CASE HandlerReturns(r, c) \/ HandlerPanics(r, c)
  <2>1. Contract!Move(r, c, "handled") \/ Contract!Move(r, c, "lost")
    BY <1>0, <1>5, StageMove DEF HandlerReturns, HandlerPanics
  <2>2. at[r][c] = "running" /\ UNCHANGED events
    BY <1>5 DEF HandlerReturns, HandlerPanics
  <2>3. Contract!End(r, c)
    BY <1>2, <1>3, <1>4, <2>1, <2>2 DEF Contract!End
  <2>4. QED
    BY <1>4, <2>3 DEF Simulates, Contract!Next
<1>6. CASE Respond(r, c)
  <2>1. \/ /\ srx[r] /\ events' = [events EXCEPT ![r] = Append(@, c)]
           /\ Contract!Move(r, c, "answered")
        \/ ~srx[r] /\ UNCHANGED events /\ Contract!Move(r, c, "lost")
    BY <1>0, <1>6, StageMove DEF Respond
  <2>2. at[r][c] = "handled"
    BY <1>6 DEF Respond
  <2>3. Contract!Answer(r, c)
    BY <1>2, <1>3, <1>4, <2>1, <2>2 DEF Contract!Answer, Contract!Emit
  <2>4. QED
    BY <1>4, <2>3 DEF Simulates, Contract!Next
<1>7. QED
  BY <1>5, <1>6

---------------------------------------------------------------------------
(* The system. *)

\* Only the event loop moves itself and drops its end of the channel.
LEMMA FlagStep ==
  ASSUME TypeOK, LoopInv, [Next]_vars
  PROVE  LoopInv'
<1>1. CommonTypeOK
  BY DEF TypeOK, CommonTypeOK
<1>2. ASSUME UNCHANGED <<loop, srx>>
      PROVE  LoopInv'
  BY <1>2 DEF LoopInv
<1>3. ASSUME NEW c \in Calls, Make(c) \/ Call(c) \/ Drop(c) \/ Timer(c)
      PROVE  LoopInv'
  BY <1>2, <1>3, CallFlag DEF Make, Call, Drop, Timer
<1>4. ASSUME NEW r \in Receivers, EventLoop(r)
      PROVE  LoopInv'
  BY <1>1, <1>4, LoopFlag DEF EventLoop
<1>5. ASSUME NEW r \in Receivers, Poller(r)
      PROVE  LoopInv'
  BY <1>2, <1>5 DEF Poller, outsidePoller, PollerStep, PollRequest, Spawn, PollInitAction,
       PollClose, PollFlush, FinishFlush, PollSync, StartSync, FinishSync,
       EndPoller, mailVars
<1>6. ASSUME NEW r \in Receivers, NEW c \in Messages, Task(r, c) \/ Panic(r, c)
      PROVE  LoopInv'
  BY <1>2, <1>6 DEF Task, Panic, outsidePoller, HandlerReturns, Respond, HandlerPanics
<1>7. CASE UNCHANGED vars
  BY <1>2, <1>7 DEF vars, mailVars
<1>8. QED
  BY <1>3, <1>4, <1>5, <1>6, <1>7 DEF Next, Finished

LEMMA StepSim == RInv /\ [Next]_vars => RInv' /\ [Contract!Next]_(Contract!vars)
<1> SUFFICES ASSUME RInv, [Next]_vars
             PROVE  RInv' /\ [Contract!Next]_(Contract!vars)
  OBVIOUS
<1>1. IInv' /\ LoopInv'
  BY StepInv, FlagStep DEF RInv, IInv
<1>2. Simulates
  <2>1. ASSUME NEW c \in Calls, Make(c)
        PROVE  Simulates
    BY <2>1, MessageSim, ControlSim DEF Make
  <2>2. ASSUME NEW c \in Calls, Call(c)
        PROVE  Simulates
    BY <2>2, MessageSim, ControlSim DEF Call
  <2>3. ASSUME NEW c \in Calls, Drop(c)
        PROVE  Simulates
    BY <2>3, MessageSim DEF Drop
  <2>4. ASSUME NEW c \in Calls, Timer(c)
        PROVE  Simulates
    BY <2>4, ControlSim DEF Timer
  <2>5. ASSUME NEW r \in Receivers, EventLoop(r)
        PROVE  Simulates
    BY <2>5, LoopSim DEF EventLoop
  <2>6. ASSUME NEW r \in Receivers, Poller(r)
        PROVE  Simulates
    BY <2>6, PollerSim DEF Poller
  <2>7. ASSUME NEW r \in Receivers, NEW c \in Messages, Task(r, c) \/ Panic(r, c)
        PROVE  Simulates
    BY <2>7, TaskSim DEF Task, Panic
  <2>8. CASE UNCHANGED vars
    BY <2>8, Unseen DEF vars, pollVars, RInv, Simulates
  <2>9. QED
    BY <2>1, <2>2, <2>3, <2>4, <2>5, <2>6, <2>7, <2>8 DEF Next, Finished
<1>3. QED
  BY <1>1, <1>2 DEF RInv, Simulates

LEMMA InitSim == Init => RInv /\ Contract!Init
<1> SUFFICES ASSUME Init PROVE RInv /\ Contract!Init
  OBVIOUS
<1>1. /\ at = [r \in Receivers |-> [c \in Messages |-> "none"]]
      /\ queue = [r \in Receivers |-> <<"Init">>]
      /\ rx = [r \in Receivers |-> "open"] /\ events = [r \in Receivers |-> <<>>]
      /\ srx = [r \in Receivers |-> TRUE]
      /\ \A r \in Receivers : poller[r] = "recv" /\ loop[r] = "next"
  BY DEF Init, MailInit, PollInit, WrapperInit
<1>2. RInv
  BY <1>1, InitInv DEF RInv, HeldInv, LoopInv
<1>3. stage = [r \in Receivers |-> [c \in Messages |-> "none"]] /\ inSync = {}
  BY <1>1 DEF stage, inSync
<1>4. inbox = [r \in Receivers |-> <<"Init">>]
  <2>1. ASSUME NEW r \in Receivers
        PROVE  inbox[r] = <<"Init">>
    BY <1>1, <1>2, InboxOf DEF RInv, IInv, TypeOK, CommonTypeOK
  <2>2. QED
    BY <2>1 DEF inbox
<1>5. QED
  BY <1>1, <1>2, <1>3, <1>4 DEF Contract!Init, Contract!MailInit

\* BufferUnordered with its wrapper keeps the contract of a receiver: whatever the
\* clients do, messages are begun in the order they were accepted, each is
\* answered at most once, Flushed and Synchronized are barriers, and the events
\* end after the last answer.
THEOREM Refinement == Spec => KeepsContract
<1>1. Init => RInv /\ Contract!Init
  BY InitSim
<1>2. RInv /\ [Next]_vars => RInv' /\ [Contract!Next]_(Contract!vars)
  BY StepSim
<1>3. QED
  BY <1>1, <1>2, PTL DEF Spec, KeepsContract, Contract!Spec
=============================================================================
