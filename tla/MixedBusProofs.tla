--------------------------- MODULE MixedBusProofs ---------------------------
(***************************************************************************)
(* IInv is an inductive invariant of MixedBus, for any receivers of the    *)
(* three kinds, any objects behind them and any calls: with it the slots   *)
(* are accounted for, no semaphore overflows, a sync handler runs alone,   *)
(* the handlers behind a mutex run one at a time, and a Synchronized       *)
(* receiver handles its messages one by one in the order it took them.     *)
(* From it follows what close, flush and sync promise when they return.    *)
(***************************************************************************)
EXTENDS MixedBus, BusProofs

\* The types, but for the bound on the semaphores.
PollShapeOK ==
  /\ kind \in [Receivers -> Kinds]
  /\ poller \in [Receivers -> PollerPlace]
  /\ sem \in [Receivers -> Nat]
  /\ buffer \in [Receivers -> Seq(Messages)]
  /\ batches \in [Receivers -> Seq(Seq(Messages))]

AcceptedOK == accepted \in [Receivers -> Seq(Messages)]

ShapeOK == CommonTypeOK /\ PollShapeOK /\ AcceptedOK

LEMMA ShapeParts ==
  /\ TypeOK <=> ShapeOK /\ \A r \in Receivers : sem[r] <= MaxParallel[r]
  /\ ShapeOK => MailTypeOK
BY DEF TypeOK, ShapeOK, CommonTypeOK, PollTypeOK, PollShapeOK, AcceptedOK

---------------------------------------------------------------------------
(* Sequences and the batches they are. *)

LEMMA AppendFacts ==
  ASSUME NEW S, NEW q \in Seq(S), NEW x \in S
  PROVE  /\ Append(q, x) \in Seq(S) /\ Append(q, x) # <<>>
         /\ DOMAIN q = 1..Len(q) /\ Len(q) \in Nat
         /\ DOMAIN Append(q, x) = DOMAIN q \cup {Len(q) + 1}
         /\ Len(q) + 1 \notin DOMAIN q
         /\ Len(Append(q, x)) = Len(q) + 1
         /\ Append(q, x)[Len(q) + 1] = x
         /\ \A i \in DOMAIN q : Append(q, x)[i] = q[i]
OBVIOUS

LEMMA OneFacts ==
  ASSUME NEW S, NEW x \in S
  PROVE  <<x>> \in Seq(S) /\ <<x>> # <<>> /\ Len(<<x>>) = 1 /\ DOMAIN <<x>> = {1} /\ <<x>>[1] = x
OBVIOUS

LEMMA EmptyFacts ==
  ASSUME NEW S
  PROVE  <<>> \in Seq(S) /\ DOMAIN <<>> = {} /\ Len(<<>>) = 0 /\ Members(<<>>) = {}
<1>1. <<>> \in Seq(S) /\ DOMAIN <<>> = {} /\ Len(<<>>) = 0
  OBVIOUS
<1>2. QED
  BY <1>1 DEF Members

LEMMA TailFacts ==
  ASSUME NEW S, NEW q \in Seq(S), q # <<>>
  PROVE  /\ Tail(q) \in Seq(S) /\ Head(q) \in S /\ Head(q) = q[1] /\ 1 \in DOMAIN q
         /\ \A k \in DOMAIN Tail(q) :
              k + 1 \in DOMAIN q /\ Tail(q)[k] = q[k + 1] /\ k \in Nat /\ k > 0
         /\ \A k \in DOMAIN q : k # 1 =>
              k \in Nat /\ k - 1 \in DOMAIN Tail(q) /\ Tail(q)[k - 1] = q[k]
OBVIOUS

LEMMA MembersFacts ==
  /\ \A S : \A b \in Seq(S) : Members(b) \subseteq S
  /\ \A S : \A b \in Seq(S) : b # <<>> => 1 \in DOMAIN b /\ b[1] \in Members(b) /\ b[1] \in S
  /\ \A S : \A b \in Seq(S) : b = <<>> <=> Members(b) = {}
  /\ \A S : \A b \in Seq(S) : Len(b) = 1 => b # <<>> /\ b = <<b[1]>> /\ Members(b) = {b[1]}
<1>1. ASSUME NEW S, NEW b \in Seq(S)
      PROVE  /\ DOMAIN b = 1..Len(b) /\ Len(b) \in Nat
             /\ \A i \in DOMAIN b : b[i] \in S
             /\ b # <<>> => 1 \in DOMAIN b
             /\ b = <<>> => DOMAIN b = {}
             /\ Len(b) = 1 => b # <<>> /\ b = <<b[1]>>
  BY <1>1
<1>2. ASSUME NEW S, NEW b \in Seq(S), Len(b) = 1
      PROVE  Members(b) = {b[1]}
  <2>1. DOMAIN b = {1}
    BY <1>1, <1>2
  <2>2. QED
    BY <2>1 DEF Members
<1>3. QED
  BY <1>1, <1>2 DEF Members

LEMMA MembersAppend ==
  ASSUME NEW S, NEW q \in Seq(S), NEW x \in S
  PROVE  Members(Append(q, x)) = Members(q) \cup {x}
BY AppendFacts DEF Members

LEMMA MembersOne == \A x : Members(<<x>>) = {x}
<1>1. SUFFICES ASSUME NEW x PROVE Members(<<x>>) = {x}
  OBVIOUS
<1>2. DOMAIN <<x>> = {1} /\ <<x>>[1] = x
  OBVIOUS
<1>3. QED
  BY <1>2 DEF Members

LEMMA BatchType ==
  ASSUME PollShapeOK, NEW r \in Receivers
  PROVE  /\ buffer[r] \in Seq(Messages) /\ batches[r] \in Seq(Seq(Messages))
         /\ Buffered(r) \subseteq Messages
         /\ DOMAIN batches[r] = 1..Len(batches[r]) /\ Len(batches[r]) \in Nat
         /\ \A i \in DOMAIN batches[r] :
              batches[r][i] \in Seq(Messages) /\ Members(batches[r][i]) \subseteq Messages
         /\ batches[r] # <<>> =>
              /\ Len(batches[r]) \in DOMAIN batches[r]
              /\ Current(r) \in Seq(Messages) /\ Members(Current(r)) \subseteq Messages
<1>1. /\ buffer[r] \in Seq(Messages) /\ batches[r] \in Seq(Seq(Messages))
      /\ DOMAIN batches[r] = 1..Len(batches[r]) /\ Len(batches[r]) \in Nat
      /\ \A i \in DOMAIN batches[r] : batches[r][i] \in Seq(Messages)
      /\ batches[r] # <<>> => Len(batches[r]) \in DOMAIN batches[r]
  BY DEF PollShapeOK
<1>2. QED
  BY <1>1, MembersFacts DEF Buffered, Current

---------------------------------------------------------------------------
(* The types. *)

LEMMA MoveAllAt ==
  ASSUME MailTypeOK, NEW r \in Receivers, NEW some, NEW p \in Place, MoveAll(r, some, p)
  PROVE  /\ at' \in [Receivers -> [Messages -> Place]]
         /\ \A s \in Receivers \ {r} : at'[s] = at[s]
         /\ \A c \in Messages : at'[r][c] = IF c \in some THEN p ELSE at[r][c]
BY DEF MailTypeOK, MoveAll

LEMMA MoveAt ==
  ASSUME MailTypeOK, NEW r \in Receivers, NEW c \in Messages, NEW p \in Place, Move(r, c, p)
  PROVE  /\ at' \in [Receivers -> [Messages -> Place]]
         /\ \A s \in Receivers \ {r} : at'[s] = at[s]
         /\ \A m \in Messages : at'[r][m] = IF m = c THEN p ELSE at[r][m]
BY DEF MailTypeOK, Move

LEMMA PanicsType ==
  ASSUME ShapeOK, NEW r \in Receivers, NEW some, PollerPanics(r, some),
         UNCHANGED <<events, srx>>
  PROVE  /\ MailTypeOK'
         /\ poller' \in [Receivers -> PollerPlace]
         /\ buffer' \in [Receivers -> Seq(Messages)]
<1>0. <<>> \in Seq(Messages) /\ <<>> \in Seq(Messages \cup Actions)
  BY EmptyFacts
<1>1. at' \in [Receivers -> [Messages -> Place]]
  BY ShapeParts, MoveAllAt DEF PollerPanics, Place
<1>2. QED
  BY <1>0, <1>1 DEF PollerPanics, PollerPlace, ShapeOK, CommonTypeOK, MailTypeOK, PollShapeOK

LEMMA EmitsType ==
  ASSUME ShapeOK, NEW r \in Receivers, NEW x \in Signals, NEW rest, PollerEmits(r, x, rest),
         rest \in Seq(Messages \cup Actions), UNCHANGED srx
  PROVE  /\ MailTypeOK'
         /\ poller' \in [Receivers -> PollerPlace]
         /\ buffer' \in [Receivers -> Seq(Messages)]
<1>1. CASE srx[r]
  <2>1. events' \in [Receivers -> Seq(Messages \cup Signals)]
    BY <1>1, ShapeParts, AppendEventType DEF PollerEmits
  <2>2. queue' \in [Receivers -> Seq(Messages \cup Actions)]
    BY <1>1 DEF PollerEmits, ShapeOK, CommonTypeOK, MailTypeOK
  <2>3. /\ poller' \in [Receivers -> PollerPlace]
        /\ buffer' \in [Receivers -> Seq(Messages)]
    BY <1>1 DEF PollerEmits, PollerPlace, ShapeOK, PollShapeOK
  <2>4. QED
    BY <1>1, <2>1, <2>2, <2>3 DEF PollerEmits, ShapeOK, CommonTypeOK, MailTypeOK
<1>2. CASE ~srx[r]
  BY <1>2, PanicsType DEF PollerEmits
<1>3. QED
  BY <1>1, <1>2

LEMMA UpcomingType ==
  ASSUME ShapeOK, NEW r \in Receivers
  PROVE  /\ queue[r] \in Seq(Messages \cup Actions)
         /\ queue[r] # <<>> => Tail(queue[r]) \in Seq(Messages \cup Actions)
BY TailFacts DEF ShapeOK, CommonTypeOK, MailTypeOK

\* A batch more, and the buffer as it is left.
LEMMA BatchesType ==
  ASSUME PollShapeOK, NEW r \in Receivers, NEW b \in Seq(Messages),
         batches' = [batches EXCEPT ![r] = Append(@, b)]
  PROVE  /\ batches' \in [Receivers -> Seq(Seq(Messages))]
         /\ batches'[r] = Append(batches[r], b)
         /\ \A s \in Receivers \ {r} : batches'[s] = batches[s]
<1>1. Append(batches[r], b) \in Seq(Seq(Messages))
  BY DEF PollShapeOK
<1>2. QED
  BY <1>1 DEF PollShapeOK

LEMMA BufferType ==
  ASSUME PollShapeOK, NEW r \in Receivers, NEW b \in Seq(Messages),
         buffer' = [buffer EXCEPT ![r] = b]
  PROVE  buffer' \in [Receivers -> Seq(Messages)]
BY DEF PollShapeOK

LEMMA GoesPlace ==
  ASSUME PollShapeOK, NEW r \in Receivers, NEW from, NEW to \in PollerPlace,
         PollerGoes(r, from, to)
  PROVE  poller' \in [Receivers -> PollerPlace]
BY DEF PollShapeOK, PollerGoes

\* A poller that only waits for something else now, or for the next item.
LEMMA WaitsType ==
  ASSUME ShapeOK, NEW r \in Receivers, NEW to \in PollerPlace, Receive(r),
         PollerGoes(r, "recv", to), UNCHANGED <<at, rx, events, srx, kind, sem, buffer, batches>>
  PROVE  MailTypeOK' /\ PollShapeOK'
<1>1. MailTypeOK'
  BY ShapeParts, ReceiveType DEF MailTypeOK
<1>2. QED
  BY <1>1, GoesPlace DEF ShapeOK, PollShapeOK

\* A poller that sends a signal or dies of the attempt.
LEMMA EmitType ==
  ASSUME ShapeOK, NEW r \in Receivers, NEW x \in Signals, NEW rest,
         PollerEmits(r, x, rest), rest \in Seq(Messages \cup Actions),
         UNCHANGED <<srx, kind, batches>>, sem' \in [Receivers -> Nat]
  PROVE  MailTypeOK' /\ PollShapeOK'
BY EmitsType DEF ShapeOK, PollShapeOK

LEMMA CommonPollType ==
  ASSUME ShapeOK, NEW r \in Receivers, PollInitAction(r) \/ PollClose(r) \/ EndPoller(r)
  PROVE  MailTypeOK' /\ PollShapeOK'
<1>1. CASE PollInitAction(r)
  BY <1>1, EmitType, UpcomingType
     DEF PollInitAction, Upcoming, Signals, ShapeOK, PollShapeOK
<1>2. CASE PollClose(r)
  <2>1. MailTypeOK'
    BY <1>2, ShapeParts, ReceiveType DEF PollClose, MailTypeOK
  <2>2. QED
    BY <1>2, <2>1 DEF PollClose, pollVars, ShapeOK, PollShapeOK
<1>3. CASE EndPoller(r)
  <2>1. at' \in [Receivers -> [Messages -> Place]]
    BY <1>3, ShapeParts, MoveAllAt DEF EndPoller, Place
  <2>2. buffer' \in [Receivers -> Seq(Messages)]
    BY <1>3, BufferType, EmptyFacts DEF EndPoller, ShapeOK
  <2>3. poller' \in [Receivers -> PollerPlace]
    BY <1>3, GoesPlace DEF EndPoller, ShapeOK, PollerPlace
  <2>4. MailTypeOK'
    BY <1>3, <2>1, ShapeParts DEF EndPoller, MailTypeOK
  <2>5. QED
    BY <1>3, <2>2, <2>3, <2>4 DEF EndPoller, ShapeOK, PollShapeOK
<1>4. QED
  BY <1>1, <1>2, <1>3

\* A message is received and held.
LEMMA HoldType ==
  ASSUME ShapeOK, NEW r \in Receivers, Receive(r), Incoming(r) \in Messages,
         Move(r, Incoming(r), "held"), UNCHANGED <<rx, events, srx>>
  PROVE  MailTypeOK'
<1>1. queue' \in [Receivers -> Seq(Messages \cup Actions)]
  BY ShapeParts, ReceiveType
<1>2. at' \in [Receivers -> [Messages -> Place]]
  BY ShapeParts, MoveAt DEF Place
<1>3. QED
  BY <1>1, <1>2, ShapeParts DEF MailTypeOK

LEMMA SynchronizedType ==
  ASSUME ShapeOK, NEW r \in Receivers, PollerInv(r), SynchronizedStep(r)
  PROVE  MailTypeOK' /\ PollShapeOK'
<1>0. PollShapeOK
  BY DEF ShapeOK
<1>1. CASE TakeMessage(r)
  <2>1. MailTypeOK'
    BY <1>1, HoldType DEF TakeMessage
  <2>2. <<Incoming(r)>> \in Seq(Messages)
    BY <1>1, OneFacts DEF TakeMessage
  <2>3. batches' \in [Receivers -> Seq(Seq(Messages))]
    BY <1>0, <1>1, <2>2, BatchesType DEF TakeMessage
  <2>4. poller' \in [Receivers -> PollerPlace]
    BY <1>0, <1>1, GoesPlace DEF TakeMessage, PollerPlace
  <2>5. QED
    BY <1>0, <1>1, <2>1, <2>3, <2>4 DEF TakeMessage, PollShapeOK
<1>2. CASE TaskEnds(r)
  <2>1. CASE srx[r]
    <3>1. Current(r)[1] \in Messages
      <4>1. batches[r] # <<>> /\ kind[r] = "synchronized" /\ Len(Current(r)) = 1
        BY <1>0, <1>2, BatchType DEF TaskEnds, PollerInv, Current
      <4>2. QED
        BY <1>0, <4>1, BatchType, MembersFacts
    <3>2. at' \in [Receivers -> [Messages -> Place]]
      BY <1>2, <2>1, <3>1, ShapeParts, MoveAt DEF TaskEnds, Place
    <3>3. events' \in [Receivers -> Seq(Messages \cup Signals)]
      BY <1>2, <2>1, <3>1, ShapeParts, AppendEventType DEF TaskEnds
    <3>4. MailTypeOK'
      BY <1>2, <2>1, <3>2, <3>3, ShapeParts DEF TaskEnds, MailTypeOK
    <3>5. QED
      BY <1>0, <1>2, <2>1, <3>4 DEF TaskEnds, PollShapeOK, PollerPlace
  <2>2. CASE ~srx[r]
    BY <1>0, <1>2, <2>2, PanicsType DEF TaskEnds, PollShapeOK
  <2>3. QED
    BY <2>1, <2>2
<1>3. CASE FlushAtOnce(r)
  BY <1>0, <1>3, EmitType, UpcomingType DEF FlushAtOnce, Upcoming, Signals, PollShapeOK
<1>4. CASE AwaitMutex(r)
  BY <1>4, WaitsType DEF AwaitMutex, PollerPlace
<1>5. CASE SyncLocked(r)
  BY <1>0, <1>5, GoesPlace, ShapeParts
     DEF SyncLocked, PollShapeOK, PollerPlace, mailVars, MailTypeOK
<1>6. CASE SyncReturns(r)
  BY <1>0, <1>6, EmitType, UpcomingType DEF SyncReturns, Signals, PollShapeOK
<1>7. QED
  BY <1>1, <1>2, <1>3, <1>4, <1>5, <1>6 DEF SynchronizedStep

LEMMA UnorderedBatchedType ==
  ASSUME ShapeOK, NEW r \in Receivers, UnorderedBatchedStep(r)
  PROVE  MailTypeOK' /\ PollShapeOK'
<1>0. PollShapeOK /\ sem[r] \in Nat /\ MaxParallel[r] \in Nat
  BY PollersAssumption DEF ShapeOK, PollShapeOK
<1>1. CASE BufferMessage(r)
  <2>1. MailTypeOK'
    BY <1>1, HoldType DEF BufferMessage, Buffer
  <2>2. Append(buffer[r], Incoming(r)) \in Seq(Messages)
    BY <1>0, <1>1, AppendFacts, BatchType DEF BufferMessage, Buffer
  <2>3. buffer' \in [Receivers -> Seq(Messages)]
    BY <1>0, <1>1, <2>2, BufferType DEF BufferMessage, Buffer
  <2>4. poller' \in [Receivers -> PollerPlace]
    BY <1>0, <1>1, GoesPlace DEF BufferMessage, PollerPlace
  <2>5. QED
    BY <1>0, <1>1, <2>1, <2>3, <2>4 DEF BufferMessage, PollShapeOK
<1>2. ASSUME NEW from, NEW to \in PollerPlace, SpawnPermitted(r, from, to)
      PROVE  MailTypeOK' /\ PollShapeOK'
  <2>1. /\ batches' \in [Receivers -> Seq(Seq(Messages))]
        /\ buffer' \in [Receivers -> Seq(Messages)]
    BY <1>0, <1>2, BatchesType, BufferType, BatchType, EmptyFacts
       DEF SpawnPermitted, SpawnBatch
  <2>2. poller' \in [Receivers -> PollerPlace]
    BY <1>0, <1>2, GoesPlace DEF SpawnPermitted
  <2>3. sem[r] - 1 \in Nat
    BY <1>0, <1>2 DEF SpawnPermitted
  <2>4. sem' \in [Receivers -> Nat]
    BY <1>0, <1>2, <2>3 DEF SpawnPermitted, PollShapeOK
  <2>5. MailTypeOK'
    BY <1>2, ShapeParts DEF SpawnPermitted, mailVars, MailTypeOK
  <2>6. QED
    BY <1>0, <1>2, <2>1, <2>2, <2>4, <2>5 DEF SpawnPermitted, PollShapeOK
<1>3. CASE Drain(r)
  BY <1>3, WaitsType DEF Drain, PollerPlace
<1>4. CASE FlushAll(r)
  BY <1>0, <1>4, EmitType, UpcomingType DEF FlushAll, Signals, PollShapeOK
<1>5. CASE AwaitPermits(r)
  BY <1>5, WaitsType DEF AwaitPermits, PollerPlace
<1>6. CASE SyncPermitted(r)
  <2>1. poller' \in [Receivers -> PollerPlace]
    BY <1>0, <1>6, GoesPlace DEF SyncPermitted, PollerPlace
  <2>2. sem' \in [Receivers -> Nat]
    BY <1>0, <1>6 DEF SyncPermitted, PollShapeOK
  <2>3. QED
    BY <1>0, <1>6, <2>1, <2>2, ShapeParts
       DEF SyncPermitted, PollShapeOK, mailVars, MailTypeOK
<1>7. CASE SyncReleases(r)
  <2>1. sem' \in [Receivers -> Nat]
    BY <1>0, <1>7 DEF SyncReleases, PollShapeOK
  <2>2. QED
    BY <1>7, <2>1, EmitType, UpcomingType DEF SyncReleases, Signals
<1>8. QED
  BY <1>1, <1>2, <1>3, <1>4, <1>5, <1>6, <1>7 DEF UnorderedBatchedStep, PollerPlace

LEMMA SynchronizedBatchedType ==
  ASSUME ShapeOK, NEW r \in Receivers, SynchronizedBatchedStep(r)
  PROVE  MailTypeOK' /\ PollShapeOK'
<1>0. PollShapeOK /\ buffer[r] \in Seq(Messages) /\ <<>> \in Seq(Messages)
  BY EmptyFacts DEF ShapeOK, PollShapeOK
<1>1. CASE CollectMessage(r)
  <2>1. MailTypeOK'
    BY <1>1, HoldType DEF CollectMessage
  <2>2. Append(buffer[r], Incoming(r)) \in Seq(Messages)
    BY <1>0, <1>1, AppendFacts DEF CollectMessage
  <2>3. /\ batches' \in [Receivers -> Seq(Seq(Messages))]
        /\ buffer' \in [Receivers -> Seq(Messages)]
    <3>1. CASE Len(buffer[r]) + 1 >= BatchSize[r]
      BY <1>0, <1>1, <2>2, <3>1, BatchesType, BufferType DEF CollectMessage, SpawnBatch
    <3>2. CASE ~(Len(buffer[r]) + 1 >= BatchSize[r])
      BY <1>0, <1>1, <2>2, <3>2, BufferType DEF CollectMessage, PollShapeOK
    <3>3. QED
      BY <3>1, <3>2
  <2>4. poller' \in [Receivers -> PollerPlace]
    BY <1>0, <1>1, GoesPlace DEF CollectMessage, PollerPlace
  <2>5. QED
    BY <1>0, <1>1, <2>1, <2>3, <2>4 DEF CollectMessage, PollShapeOK
<1>2. CASE HandOver(r)
  <2>1. /\ batches' \in [Receivers -> Seq(Seq(Messages))]
        /\ buffer' \in [Receivers -> Seq(Messages)]
    <3>1. buffer' \in [Receivers -> Seq(Messages)]
      BY <1>0, <1>2, BufferType DEF HandOver
    <3>2. CASE buffer[r] = <<>>
      BY <1>0, <1>2, <3>1, <3>2 DEF HandOver, PollShapeOK
    <3>3. CASE buffer[r] # <<>>
      BY <1>0, <1>2, <3>1, <3>3, BatchesType DEF HandOver
    <3>4. QED
      BY <3>2, <3>3
  <2>2. MailTypeOK' /\ poller' \in [Receivers -> PollerPlace]
    <3>1. CASE srx[r]
      <4>1. events' \in [Receivers -> Seq(Messages \cup Signals)]
        BY <1>2, <3>1, ShapeParts, AppendEventType DEF HandOver, Signals
      <4>2. queue' \in [Receivers -> Seq(Messages \cup Actions)]
        BY <1>2, <3>1, UpcomingType, ShapeParts DEF HandOver, Upcoming, MailTypeOK
      <4>3. QED
        BY <1>0, <1>2, <3>1, <4>1, <4>2, ShapeParts DEF HandOver, MailTypeOK, PollShapeOK
    <3>2. CASE ~srx[r]
      <4>1. at' \in [Receivers -> [Messages -> Place]]
        BY <1>2, <3>2, ShapeParts, MoveAllAt DEF HandOver, Place
      <4>2. queue' \in [Receivers -> Seq(Messages \cup Actions)]
        <5>1. queue' = [queue EXCEPT ![r] = <<>>]
          BY <1>2, <3>2 DEF HandOver
        <5>2. <<>> \in Seq(Messages \cup Actions)
          BY EmptyFacts
        <5>3. queue \in [Receivers -> Seq(Messages \cup Actions)]
          BY <1>0, ShapeParts DEF MailTypeOK
        <5>4. QED
          BY <5>1, <5>2, <5>3
      <4>3. QED
        BY <1>0, <1>2, <3>2, <4>1, <4>2, ShapeParts
           DEF HandOver, MailTypeOK, PollShapeOK, PollerPlace
    <3>3. QED
      BY <3>1, <3>2
  <2>3. QED
    BY <1>0, <1>2, <2>1, <2>2 DEF HandOver, PollShapeOK
<1>3. CASE Compete(r)
  BY <1>3, WaitsType DEF Compete, PollerPlace
<1>4. CASE SyncWins(r)
  BY <1>0, <1>4, GoesPlace, ShapeParts
     DEF SyncWins, PollShapeOK, PollerPlace, mailVars, MailTypeOK
<1>5. CASE SyncUnlocks(r)
  BY <1>0, <1>5, EmitType, UpcomingType DEF SyncUnlocks, Signals, PollShapeOK
<1>6. QED
  BY <1>1, <1>2, <1>3, <1>4, <1>5 DEF SynchronizedBatchedStep

LEMMA MixedTaskType ==
  ASSUME ShapeOK, NEW r \in Receivers, NEW b \in Seq(Messages),
         \/ HandlerStarts(r, b) \/ HandlerReturns(r, b) \/ Respond(r, b)
         \/ HandlerPanics(r, b)
  PROVE  MailTypeOK' /\ PollShapeOK'
<1>0. MailTypeOK /\ PollShapeOK
  BY ShapeParts DEF ShapeOK
<1>1. FreePermit(r) => sem' \in [Receivers -> Nat]
  BY <1>0 DEF FreePermit, PollShapeOK
<1>2. CASE HandlerStarts(r, b)
  <2>1. at' \in [Receivers -> [Messages -> Place]]
    BY <1>0, <1>2, MoveAllAt DEF HandlerStarts, Place
  <2>2. QED
    BY <1>0, <1>2, <2>1 DEF HandlerStarts, MailTypeOK, PollShapeOK, pollVars
<1>3. CASE HandlerReturns(r, b)
  <2>1. at' \in [Receivers -> [Messages -> Place]]
    BY <1>0, <1>3, MoveAllAt DEF HandlerReturns, Place
  <2>2. QED
    BY <1>0, <1>1, <1>3, <2>1 DEF HandlerReturns, MailTypeOK, PollShapeOK
<1>4. CASE HandlerPanics(r, b)
  <2>1. at' \in [Receivers -> [Messages -> Place]]
    BY <1>0, <1>4, MoveAllAt DEF HandlerPanics, Place
  <2>2. QED
    BY <1>0, <1>1, <1>4, <2>1 DEF HandlerPanics, MailTypeOK, PollShapeOK
<1>5. CASE Respond(r, b)
  <2>1. PICK i \in DOMAIN b :
          /\ IF srx[r]
             THEN /\ events' = [events EXCEPT ![r] = Append(@, b[i])]
                  /\ Move(r, b[i], "answered")
             ELSE /\ MoveAll(r, {b[j] : j \in Unreported(r, b)}, "lost")
                  /\ UNCHANGED events
          /\ UNCHANGED <<queue, rx, srx, pollVars>>
    BY <1>5 DEF Respond, Unreported
  <2>2. b[i] \in Messages
    BY <2>1
  <2>3. PollShapeOK'
    BY <1>0, <2>1 DEF PollShapeOK, pollVars
  <2>4. CASE srx[r]
    <3>1. at' \in [Receivers -> [Messages -> Place]]
      BY <1>0, <2>1, <2>2, <2>4, MoveAt DEF Place
    <3>2. events' \in [Receivers -> Seq(Messages \cup Signals)]
      BY <1>0, <2>1, <2>2, <2>4, AppendEventType
    <3>3. QED
      BY <1>0, <2>1, <2>3, <3>1, <3>2 DEF MailTypeOK
  <2>5. CASE ~srx[r]
    <3>1. at' \in [Receivers -> [Messages -> Place]]
      BY <1>0, <2>1, <2>5, MoveAllAt DEF Place
    <3>2. QED
      BY <1>0, <2>1, <2>3, <2>5, <3>1 DEF MailTypeOK
  <2>6. QED
    BY <2>4, <2>5
<1>6. QED
  BY <1>2, <1>3, <1>4, <1>5

LEMMA TaskPanicsType ==
  ASSUME ShapeOK, NEW r \in Receivers, TaskPanics(r)
  PROVE  MailTypeOK' /\ PollShapeOK'
BY PanicsType DEF TaskPanics, ShapeOK, PollShapeOK

---------------------------------------------------------------------------
(* The channels, the routes and the slots. *)

LEMMA PanicsBus ==
  ASSUME ShapeOK, BusInv, NEW r \in Receivers, NEW some, PollerPanics(r, some),
         \A c \in Messages : c \in some \cup Buffered(r) =>
           at[r][c] \in {"held", "running", "handled"},
         UNCHANGED <<events, processing, busVars>>
  PROVE  BusInv'
<1>1. /\ \A s \in Receivers \ {r} : at'[s] = at[s]
      /\ \A c \in Messages :
           at'[r][c] = IF c \in some \cup Waiting(r) \cup Buffered(r) THEN "lost" ELSE at[r][c]
      /\ queue' = [queue EXCEPT ![r] = <<>>]
  BY ShapeParts, MoveAllAt DEF PollerPanics, Place
<1>2. \A c \in Messages : at'[r][c] # at[r][c] =>
        at[r][c] \in {"queued", "held", "running", "handled"} /\ at'[r][c] = "lost"
  BY <1>1 DEF Waiting
<1>3. \A c \in Messages : at[r][c] = "answered" => at'[r][c] = "answered"
  BY <1>2
<1>4. ChannelInv'
  BY <1>1, <1>3, ChannelDropped DEF ShapeOK, BusInv
<1>5. QED
  BY <1>1, <1>2, <1>4, InsideKeeps DEF ShapeOK, Slotted

\* A step that moves no copy.
LEMMA StillBus ==
  ASSUME ShapeOK, BusInv, ChannelInv', UNCHANGED <<at, processing, busVars>>
  PROVE  BusInv'
BY InsideKeeps DEF ShapeOK

LEMMA EmitsBus ==
  ASSUME ShapeOK, BusInv, NEW r \in Receivers, NEW x \in Signals, NEW rest,
         PollerEmits(r, x, rest), PollerInv(r),
         rest = queue[r] \/ (queue[r] # <<>> /\ rest = Tail(queue[r])),
         UNCHANGED <<processing, busVars>>
  PROVE  BusInv'
<1>1. CASE srx[r]
  <2>1. UNCHANGED queue \/ Receive(r)
    BY <1>1 DEF PollerEmits, Receive, ShapeOK, CommonTypeOK, MailTypeOK
  <2>2. ChannelInv'
    BY <1>1, <2>1, SignalHolds DEF PollerEmits, ShapeOK, BusInv
  <2>3. QED
    BY <1>1, <2>2, StillBus DEF PollerEmits
<1>2. CASE ~srx[r]
  BY <1>2, PanicsBus DEF PollerEmits, PollerInv
<1>3. QED
  BY <1>1, <1>2

LEMMA WaitsBus ==
  ASSUME ShapeOK, BusInv, NEW r \in Receivers, Receive(r),
         UNCHANGED <<at, events, processing, busVars>>
  PROVE  BusInv'
<1>1. ChannelInv'
  BY ReceiveHolds, ChannelSplit DEF ShapeOK, BusInv, QueueOf, EventsOf
<1>2. QED
  BY <1>1, StillBus

LEMMA HoldsBus ==
  ASSUME ShapeOK, BusInv, NEW r \in Receivers, Receive(r), Incoming(r) \in Messages,
         Move(r, Incoming(r), "held"), UNCHANGED <<events, processing, busVars>>
  PROVE  BusInv' /\ at[r][Incoming(r)] = "queued"
<1>1. ChannelInv' /\ at[r][Incoming(r)] = "queued"
  BY ChannelHeld DEF ShapeOK, BusInv
<1>2. \A s \in Receivers, m \in Messages :
        at'[s][m] = IF s = r /\ m = Incoming(r) THEN "held" ELSE at[s][m]
  BY ShapeParts, MoveAt DEF Place
<1>3. BusInv'
  BY <1>1, <1>2, InsideKeeps DEF ShapeOK, Slotted
<1>4. QED
  BY <1>1, <1>3

\* A poller or a task that moves some copies, none of them in a channel.
LEMMA MovesBus ==
  ASSUME ShapeOK, BusInv, NEW r \in Receivers, NEW some, NEW p \in Place, MoveAll(r, some, p),
         p \in Slotted, p # "permit",
         \A c \in Messages : c \in some => at[r][c] \in {"held", "running", "handled"},
         UNCHANGED <<queue, events, processing, busVars>>
  PROVE  BusInv'
<1>1. /\ \A s \in Receivers \ {r} : at'[s] = at[s]
      /\ \A c \in Messages : at'[r][c] = IF c \in some THEN p ELSE at[r][c]
  BY ShapeParts, MoveAllAt
<1>2. ChannelInv'
  BY <1>1, ChannelSame DEF ShapeOK, BusInv
<1>3. QED
  BY <1>1, <1>2, InsideKeeps DEF ShapeOK, Slotted

LEMMA AnswersBus ==
  ASSUME ShapeOK, BusInv, NEW r \in Receivers, NEW c \in Messages, at[r][c] = "handled",
         Move(r, c, "answered"), events' = [events EXCEPT ![r] = Append(@, c)],
         UNCHANGED <<queue, processing, busVars>>
  PROVE  BusInv'
<1>1. ChannelInv'
  BY ChannelAnswered DEF ShapeOK, BusInv
<1>2. \A s \in Receivers, m \in Messages :
        at'[s][m] = IF s = r /\ m = c THEN "answered" ELSE at[s][m]
  BY ShapeParts, MoveAt DEF Place
<1>3. QED
  BY <1>1, <1>2, InsideKeeps DEF ShapeOK, Slotted

---------------------------------------------------------------------------
(* The batches of a receiver.                                              *)

\* A copy whose part in the batches stays: as it is, or not in a task's hands.
CalmAt(r, c) ==
  \/ at'[r][c] = at[r][c]
  \/ /\ at[r][c] \notin {"held", "running"} /\ at'[r][c] \notin {"held", "running"}
     /\ at[r][c] \in InTask => at'[r][c] \in InTask

Calm(r) == \A i \in DOMAIN batches[r] : \A c \in Members(batches[r][i]) : CalmAt(r, c)

LEMMA BatchFirst ==
  ASSUME PollShapeOK, NEW r \in Receivers, BatchInv(r), NEW i \in DOMAIN batches[r]
  PROVE  /\ batches[r][i][1] \in Members(batches[r][i])
         /\ batches[r][i][1] \in Messages
         /\ Members(batches[r][i]) \subseteq Messages
BY BatchType, MembersFacts DEF BatchInv

LEMMA BatchSteady ==
  ASSUME PollShapeOK, NEW r \in Receivers, BatchInv(r), Calm(r),
         batches'[r] = batches[r], Buffered(r)' \subseteq Buffered(r)
  PROVE  BatchInv(r)' /\ Live(r)' = Live(r)
<1>1. BatchInv(r)'
  <2>1. SUFFICES ASSUME NEW i \in DOMAIN batches[r], NEW c \in Members(batches[r][i])
                 PROVE  /\ at'[r][c] \in InTask
                        /\ c \notin Buffered(r)'
                        /\ \A d \in Members(batches[r][i]) :
                             at'[r][c] \in {"held", "running"} => at'[r][d] = at'[r][c]
    BY DEF BatchInv
  <2>2. CalmAt(r, c) /\ \A d \in Members(batches[r][i]) : CalmAt(r, d)
    BY DEF Calm
  <2>3. QED
    BY <2>2 DEF BatchInv, CalmAt
<1>2. ASSUME NEW i \in DOMAIN batches[r]
      PROVE  at'[r][batches[r][i][1]] \in {"held", "running"}
             <=> at[r][batches[r][i][1]] \in {"held", "running"}
  <2>1. CalmAt(r, batches[r][i][1])
    BY <1>2, BatchFirst DEF Calm
  <2>2. QED
    BY <2>1 DEF CalmAt
<1>3. QED
  BY <1>1, <1>2 DEF Live

\* One batch moves, as a whole.
LEMMA BatchMoves ==
  ASSUME PollShapeOK, NEW r \in Receivers, BatchInv(r), NEW i \in DOMAIN batches[r],
         NEW p \in InTask, \A c \in Members(batches[r][i]) : at'[r][c] = p,
         \A c \in Messages : c \notin Members(batches[r][i]) => CalmAt(r, c),
         batches'[r] = batches[r], Buffered(r)' \subseteq Buffered(r)
  PROVE  /\ BatchInv(r)'
         /\ Live(r)' = IF p \in {"held", "running"} THEN Live(r) \cup {i} ELSE Live(r) \ {i}
<1>1. ASSUME NEW j \in DOMAIN batches[r], j # i
      PROVE  \A c \in Members(batches[r][j]) : CalmAt(r, c)
  BY <1>1, BatchFirst DEF BatchInv
<1>2. BatchInv(r)'
  <2>1. SUFFICES ASSUME NEW j \in DOMAIN batches[r], NEW c \in Members(batches[r][j])
                 PROVE  /\ at'[r][c] \in InTask
                        /\ c \notin Buffered(r)'
                        /\ \A d \in Members(batches[r][j]) :
                             at'[r][c] \in {"held", "running"} => at'[r][d] = at'[r][c]
    BY DEF BatchInv
  <2>2. CASE j = i
    BY <2>1, <2>2 DEF BatchInv
  <2>3. CASE j # i
    BY <1>1, <2>1, <2>3 DEF BatchInv, CalmAt
  <2>4. QED
    BY <2>2, <2>3
<1>3. ASSUME NEW j \in DOMAIN batches[r], j # i
      PROVE  at'[r][batches[r][j][1]] \in {"held", "running"}
             <=> at[r][batches[r][j][1]] \in {"held", "running"}
  <2>1. CalmAt(r, batches[r][j][1])
    BY <1>1, <1>3, BatchFirst
  <2>2. QED
    BY <2>1 DEF CalmAt
<1>4. at'[r][batches[r][i][1]] = p
  BY BatchFirst
<1>5. QED
  BY <1>2, <1>3, <1>4 DEF Live

\* A batch is added, and its messages have been in none and leave the buffer.
LEMMA BatchAdds ==
  ASSUME PollShapeOK, NEW r \in Receivers, BatchInv(r), Calm(r),
         NEW b \in Seq(Messages), b # <<>>, batches'[r] = Append(batches[r], b),
         \A c \in Members(b) :
           /\ at'[r][c] = "held" /\ c \notin Buffered(r)'
           /\ \A i \in DOMAIN batches[r] : c \notin Members(batches[r][i]),
         Buffered(r)' \subseteq Buffered(r)
  PROVE  /\ BatchInv(r)'
         /\ Len(batches[r]) + 1 \notin Live(r)
         /\ Live(r)' = Live(r) \cup {Len(batches[r]) + 1}
<1> DEFINE n == Len(batches[r]) + 1
<1>1. /\ DOMAIN Append(batches[r], b) = DOMAIN batches[r] \cup {n} /\ n \notin DOMAIN batches[r]
      /\ Append(batches[r], b)[n] = b
      /\ \A i \in DOMAIN batches[r] : Append(batches[r], b)[i] = batches[r][i]
  BY BatchType, AppendFacts
<1>2. b[1] \in Members(b)
  BY MembersFacts
<1> HIDE DEF n
<1>3. BatchInv(r)'
  <2>1. SUFFICES ASSUME NEW i \in DOMAIN batches'[r]
                 PROVE  /\ batches'[r][i] # <<>>
                        /\ \A c \in Members(batches'[r][i]) :
                             /\ at'[r][c] \in InTask
                             /\ c \notin Buffered(r)'
                             /\ \A j \in DOMAIN batches'[r] :
                                  c \in Members(batches'[r][j]) => j = i
                             /\ \A d \in Members(batches'[r][i]) :
                                  at'[r][c] \in {"held", "running"} => at'[r][d] = at'[r][c]
    BY DEF BatchInv
  <2>2. CASE i = n
    BY <1>1, <2>1, <2>2 DEF InTask
  <2>3. CASE i \in DOMAIN batches[r]
    <3>1. batches'[r][i] = batches[r][i] /\ batches[r][i] # <<>>
      BY <1>1, <2>3 DEF BatchInv
    <3>2. SUFFICES ASSUME NEW c \in Members(batches[r][i])
                   PROVE  /\ at'[r][c] \in InTask
                          /\ c \notin Buffered(r)'
                          /\ \A j \in DOMAIN batches'[r] :
                               c \in Members(batches'[r][j]) => j = i
                          /\ \A d \in Members(batches[r][i]) :
                               at'[r][c] \in {"held", "running"} => at'[r][d] = at'[r][c]
      BY <3>1
    <3>3. CalmAt(r, c) /\ \A d \in Members(batches[r][i]) : CalmAt(r, d)
      BY <2>3 DEF Calm
    <3>4. /\ at'[r][c] \in InTask
          /\ \A d \in Members(batches[r][i]) :
               at'[r][c] \in {"held", "running"} => at'[r][d] = at'[r][c]
      BY <2>3, <3>3 DEF BatchInv, CalmAt
    <3>5. c \notin Buffered(r)'
      BY <2>3 DEF BatchInv
    <3>6. ASSUME NEW j \in DOMAIN batches'[r], c \in Members(batches'[r][j])
          PROVE  j = i
      <4>1. CASE j = n
        BY <1>1, <2>3, <3>6, <4>1
      <4>2. CASE j \in DOMAIN batches[r]
        BY <1>1, <2>3, <3>6, <4>2 DEF BatchInv
      <4>3. QED
        BY <1>1, <3>6, <4>1, <4>2
    <3>7. QED
      BY <3>4, <3>5, <3>6
  <2>4. QED
    BY <1>1, <2>2, <2>3
<1>4. ASSUME NEW i \in DOMAIN batches[r]
      PROVE  at'[r][batches[r][i][1]] \in {"held", "running"}
             <=> at[r][batches[r][i][1]] \in {"held", "running"}
  <2>1. CalmAt(r, batches[r][i][1])
    BY <1>4, BatchFirst DEF Calm
  <2>2. QED
    BY <2>1 DEF CalmAt
<1>5. at'[r][b[1]] = "held"
  BY <1>2
<1>6. Live(r)' = Live(r) \cup {n} /\ n \notin Live(r)
  BY <1>1, <1>4, <1>5 DEF Live
<1>7. QED
  BY <1>3, <1>6 DEF n

\* A message is put in the buffer.
LEMMA BatchCollects ==
  ASSUME PollShapeOK, NEW r \in Receivers, BatchInv(r), Calm(r),
         NEW c \in Messages, at[r][c] = "queued",
         batches'[r] = batches[r], Buffered(r)' = Buffered(r) \cup {c}
  PROVE  BatchInv(r)' /\ Live(r)' = Live(r)
<1>1. \A i \in DOMAIN batches[r] : c \notin Members(batches[r][i])
  BY DEF BatchInv, InTask
<1>2. BatchInv(r)'
  BY <1>1 DEF BatchInv, Calm, CalmAt
<1>3. ASSUME NEW i \in DOMAIN batches[r]
      PROVE  at'[r][batches[r][i][1]] \in {"held", "running"}
             <=> at[r][batches[r][i][1]] \in {"held", "running"}
  <2>1. CalmAt(r, batches[r][i][1])
    BY <1>3, BatchFirst DEF Calm
  <2>2. QED
    BY <2>1 DEF CalmAt
<1>4. QED
  BY <1>2, <1>3 DEF Live

LEMMA LiveFinite ==
  ASSUME PollShapeOK, NEW r \in Receivers
  PROVE  IsFiniteSet(Live(r)) /\ Cardinality(Live(r)) \in Nat
<1>0. Len(batches[r]) \in Int /\ 1 \in Int
  BY BatchType
<1>1. IsFiniteSet(1..Len(batches[r])) /\ Live(r) \subseteq 1..Len(batches[r])
  BY <1>0, BatchType, FS_Interval DEF Live
<1>2. QED
  BY <1>1, FS_Subset, FS_CardinalityType

---------------------------------------------------------------------------
(* The order in which a receiver takes its messages.                       *)

Reported == {"answered", "answering", "done", "lost"}

InTurn(r) ==
  kind[r] = "synchronized" =>
    \A i \in DOMAIN accepted[r], j \in DOMAIN accepted[r] :
      i < j /\ at[r][accepted[r][j]] \notin {"queued", "lost"} =>
        at[r][accepted[r][i]] \in Reported

LEMMA TurnParts ==
  /\ OneByOne <=> \A r \in Receivers : InTurn(r)
  /\ OneByOne' <=> \A r \in Receivers : InTurn(r)'
BY DEF OneByOne, InTurn, Reported

LEMMA AcceptedFacts ==
  ASSUME AcceptedOK, NEW r \in Receivers
  PROVE  /\ accepted[r] \in Seq(Messages)
         /\ DOMAIN accepted[r] = 1..Len(accepted[r]) /\ Len(accepted[r]) \in Nat
         /\ \A i \in DOMAIN accepted[r] : accepted[r][i] \in Messages /\ i \in Nat
BY DEF AcceptedOK

LEMMA QueueFacts ==
  ASSUME ShapeOK, NEW r \in Receivers
  PROVE  /\ queue[r] \in Seq(Messages \cup Actions)
         /\ DOMAIN queue[r] = 1..Len(queue[r]) /\ Len(queue[r]) \in Nat
         /\ \A k \in DOMAIN queue[r] : k \in Nat
BY DEF ShapeOK, CommonTypeOK, MailTypeOK

\* What the poller and its tasks do to a copy that is not queued.
LEMMA OrderFrame ==
  ASSUME AcceptedOK, NEW r \in Receivers, OrderInv(r), accepted'[r] = accepted[r],
         queue'[r] = queue[r],
         \A c \in Messages : at'[r][c] = at[r][c] \/
           /\ at[r][c] # "queued" /\ at'[r][c] # "queued"
           /\ at[r][c] \in InTask => at'[r][c] \in InTask
  PROVE  OrderInv(r)'
<1>1. \A c \in Messages : at[r][c] \in InTask \cup {"queued"} =>
        at'[r][c] \in InTask \cup {"queued"}
  BY DEF InTask
<1>2. \A i \in DOMAIN accepted[r] : at'[r][accepted[r][i]] \in InTask \cup {"queued"}
  BY <1>1, AcceptedFacts DEF OrderInv
<1>3. \A c \in Messages : at'[r][c] = "queued" => \E k \in DOMAIN queue[r] : queue[r][k] = c
  BY DEF OrderInv
<1>4. QED
  BY <1>2, <1>3 DEF OrderInv

LEMMA OrderDrop ==
  ASSUME AcceptedOK, NEW r \in Receivers, OrderInv(r), accepted'[r] = accepted[r],
         queue'[r] = <<>>,
         \A c \in Messages :
           /\ at'[r][c] # "queued"
           /\ at[r][c] \in InTask \cup {"queued"} => at'[r][c] \in InTask
  PROVE  OrderInv(r)'
<1>1. \A i \in DOMAIN accepted[r] : at'[r][accepted[r][i]] \in InTask \cup {"queued"}
  BY AcceptedFacts DEF OrderInv
<1>2. DOMAIN queue'[r] = {}
  BY EmptyFacts
<1>3. QED
  BY <1>1, <1>2 DEF OrderInv

LEMMA OrderAction ==
  ASSUME ShapeOK, NEW r \in Receivers, OrderInv(r), accepted'[r] = accepted[r],
         NEW a \in Actions, queue'[r] = Append(queue[r], a), at'[r] = at[r]
  PROVE  OrderInv(r)'
<1>1. /\ DOMAIN queue'[r] = DOMAIN queue[r] \cup {Len(queue[r]) + 1}
      /\ queue'[r][Len(queue[r]) + 1] = a
      /\ \A k \in DOMAIN queue[r] : queue'[r][k] = queue[r][k]
  BY QueueFacts, AppendFacts
<1>2. \A i \in DOMAIN accepted[r] : accepted[r][i] # a
  BY AcceptedFacts, MailboxAssumption DEF ShapeOK
<1>3. a \notin Messages
  BY MailboxAssumption
<1>4. ASSUME NEW k \in DOMAIN queue'[r], queue'[r][k] \in Messages
      PROVE  \E i \in DOMAIN accepted[r] :
               /\ accepted[r][i] = queue'[r][k]
               /\ \A l \in DOMAIN queue'[r], j \in DOMAIN accepted[r] :
                    l > k /\ accepted[r][j] = queue'[r][l] => j > i
  <2>1. k \in DOMAIN queue[r] /\ queue[r][k] \in Messages
    BY <1>1, <1>3, <1>4
  <2>2. PICK i \in DOMAIN accepted[r] :
          /\ accepted[r][i] = queue[r][k]
          /\ \A l \in DOMAIN queue[r], j \in DOMAIN accepted[r] :
               l > k /\ accepted[r][j] = queue[r][l] => j > i
    BY <2>1 DEF OrderInv
  <2>3. QED
    BY <1>1, <1>2, <2>1, <2>2
<1>5. \A c \in Messages : at[r][c] = "queued" => \E k \in DOMAIN queue'[r] : queue'[r][k] = c
  BY <1>1 DEF OrderInv
<1>6. QED
  BY <1>4, <1>5 DEF OrderInv

LEMMA OrderAccept ==
  ASSUME ShapeOK, NEW r \in Receivers, OrderInv(r), NEW c \in Messages,
         at[r][c] \notin InTask \cup {"queued"},
         accepted'[r] = Append(accepted[r], c), queue'[r] = Append(queue[r], c),
         at'[r][c] = "queued", \A m \in Messages \ {c} : at'[r][m] = at[r][m]
  PROVE  OrderInv(r)'
<1> DEFINE n == Len(queue[r]) + 1
           o == Len(accepted[r]) + 1
<1>1. /\ DOMAIN queue'[r] = DOMAIN queue[r] \cup {n} /\ queue'[r][n] = c
      /\ \A k \in DOMAIN queue[r] : queue'[r][k] = queue[r][k] /\ k \in Nat /\ k < n
      /\ n \in Nat
  BY QueueFacts, AppendFacts
<1>2. /\ DOMAIN accepted'[r] = DOMAIN accepted[r] \cup {o} /\ accepted'[r][o] = c
      /\ \A i \in DOMAIN accepted[r] : accepted'[r][i] = accepted[r][i] /\ i \in Nat /\ i < o
      /\ o \in Nat
  BY AcceptedFacts, AppendFacts DEF ShapeOK
<1> HIDE DEF n, o
<1>3. \A i \in DOMAIN accepted[r] : accepted[r][i] # c /\ accepted[r][i] \in Messages
  BY AcceptedFacts DEF OrderInv, ShapeOK
<1>4. \A i, j \in DOMAIN accepted'[r] : accepted'[r][i] = accepted'[r][j] => i = j
  BY <1>2, <1>3 DEF OrderInv
<1>5. \A i \in DOMAIN accepted'[r] : at'[r][accepted'[r][i]] \in InTask \cup {"queued"}
  <2>1. TAKE i \in DOMAIN accepted'[r]
  <2>2. CASE i = o
    BY <1>2, <2>2
  <2>3. CASE i \in DOMAIN accepted[r]
    <3>1. at'[r][accepted[r][i]] = at[r][accepted[r][i]]
      BY <1>3, <2>3
    <3>2. at[r][accepted[r][i]] \in InTask \cup {"queued"}
      BY <2>3 DEF OrderInv
    <3>3. QED
      BY <1>2, <2>3, <3>1, <3>2
  <2>4. QED
    BY <1>2, <2>1, <2>2, <2>3
<1>6. \A m \in Messages : at'[r][m] = "queued" => \E k \in DOMAIN queue'[r] : queue'[r][k] = m
  BY <1>1 DEF OrderInv
<1>7. ASSUME NEW k \in DOMAIN queue'[r], queue'[r][k] \in Messages
      PROVE  \E i \in DOMAIN accepted'[r] :
               /\ accepted'[r][i] = queue'[r][k]
               /\ \A l \in DOMAIN queue'[r], j \in DOMAIN accepted'[r] :
                    l > k /\ accepted'[r][j] = queue'[r][l] => j > i
  <2>1. CASE k = n
    <3>1. \A l \in DOMAIN queue'[r] : ~(l > k)
      BY <1>1, <2>1
    <3>2. QED
      BY <1>1, <1>2, <2>1, <3>1
  <2>2. CASE k \in DOMAIN queue[r]
    <3>1. PICK i \in DOMAIN accepted[r] :
            /\ accepted[r][i] = queue[r][k]
            /\ \A l \in DOMAIN queue[r], j \in DOMAIN accepted[r] :
                 l > k /\ accepted[r][j] = queue[r][l] => j > i
      BY <1>1, <1>7, <2>2 DEF OrderInv
    <3>2. ASSUME NEW l \in DOMAIN queue'[r], NEW j \in DOMAIN accepted'[r],
                 l > k, accepted'[r][j] = queue'[r][l]
          PROVE  j > i
      <4>1. CASE j = o
        BY <1>2, <4>1
      <4>2. CASE j \in DOMAIN accepted[r]
        <5>1. l \in DOMAIN queue[r]
          BY <1>1, <1>2, <1>3, <3>2, <4>2
        <5>2. QED
          BY <1>1, <1>2, <3>1, <3>2, <4>2, <5>1
      <4>3. QED
        BY <1>2, <4>1, <4>2
    <3>3. accepted'[r][i] = queue'[r][k] /\ i \in DOMAIN accepted'[r]
      BY <1>1, <1>2, <2>2, <3>1
    <3>4. QED
      BY <3>2, <3>3
  <2>3. QED
    BY <1>1, <2>1, <2>2
<1>8. QED
  BY <1>4, <1>5, <1>6, <1>7 DEF OrderInv

\* The head of the queue is taken: an action, or a message that is held then.
LEMMA OrderTake ==
  ASSUME ShapeOK, NEW r \in Receivers, OrderInv(r), accepted'[r] = accepted[r],
         queue[r] # <<>>, queue'[r] = Tail(queue[r]),
         \A c \in Messages :
           at'[r][c] = IF c = Head(queue[r]) THEN "held" ELSE at[r][c]
  PROVE  OrderInv(r)'
<1> DEFINE q == queue[r]
<1>1. /\ Head(q) = q[1] /\ 1 \in DOMAIN q
      /\ \A k \in DOMAIN Tail(q) :
           k + 1 \in DOMAIN q /\ Tail(q)[k] = q[k + 1] /\ k \in Nat /\ k > 0
      /\ \A k \in DOMAIN q : k # 1 =>
           k \in Nat /\ k - 1 \in DOMAIN Tail(q) /\ Tail(q)[k - 1] = q[k]
  BY QueueFacts, TailFacts
<1>2. \A i \in DOMAIN accepted[r] : at'[r][accepted[r][i]] \in InTask \cup {"queued"}
  BY AcceptedFacts DEF OrderInv, InTask, ShapeOK
<1>3. \A c \in Messages : at'[r][c] = "queued" =>
        \E k \in DOMAIN queue'[r] : queue'[r][k] = c
  <2>1. SUFFICES ASSUME NEW c \in Messages, at'[r][c] = "queued"
                 PROVE  \E k \in DOMAIN Tail(q) : Tail(q)[k] = c
    OBVIOUS
  <2>2. PICK k \in DOMAIN q : q[k] = c
    BY <2>1 DEF OrderInv
  <2>3. k # 1
    BY <1>1, <2>1, <2>2
  <2>4. k - 1 \in DOMAIN Tail(q) /\ Tail(q)[k - 1] = c
    BY <1>1, <2>2, <2>3
  <2>5. QED
    BY <2>4
<1>4. ASSUME NEW k \in DOMAIN queue'[r], queue'[r][k] \in Messages
      PROVE  \E i \in DOMAIN accepted[r] :
               /\ accepted[r][i] = queue'[r][k]
               /\ \A l \in DOMAIN queue'[r], j \in DOMAIN accepted[r] :
                    l > k /\ accepted[r][j] = queue'[r][l] => j > i
  <2>1. k \in Nat /\ k + 1 \in DOMAIN q /\ queue'[r][k] = q[k + 1]
    BY <1>1, <1>4
  <2>2. PICK i \in DOMAIN accepted[r] :
          /\ accepted[r][i] = q[k + 1]
          /\ \A l \in DOMAIN q, j \in DOMAIN accepted[r] :
               l > k + 1 /\ accepted[r][j] = q[l] => j > i
    BY <1>4, <2>1 DEF OrderInv
  <2>3. ASSUME NEW l \in DOMAIN queue'[r], NEW j \in DOMAIN accepted[r],
               l > k, accepted[r][j] = queue'[r][l]
        PROVE  j > i
    <3>1. l \in Nat /\ l + 1 \in DOMAIN q /\ queue'[r][l] = q[l + 1]
      BY <1>1
    <3>2. l + 1 > k + 1
      BY <2>1, <2>3, <3>1
    <3>3. QED
      BY <2>2, <2>3, <3>1, <3>2
  <2>4. QED
    BY <2>1, <2>2, <2>3
<1>5. QED
  BY <1>2, <1>3, <1>4 DEF OrderInv

LEMMA TurnFrame ==
  ASSUME AcceptedOK, NEW r \in Receivers, InTurn(r), accepted'[r] = accepted[r],
         UNCHANGED kind,
         \A c \in Messages :
           \/ at'[r][c] = at[r][c]
           \/ /\ at[r][c] \notin {"queued", "lost"}
              /\ at[r][c] \in Reported => at'[r][c] \in Reported
           \/ at'[r][c] = "lost"
  PROVE  InTurn(r)'
<1>1. \A i \in DOMAIN accepted[r] : accepted[r][i] \in Messages
  BY AcceptedFacts
<1>2. QED
  BY <1>1 DEF InTurn, Reported

LEMMA TurnAccept ==
  ASSUME AcceptedOK, NEW r \in Receivers, OrderInv(r), InTurn(r), UNCHANGED kind,
         NEW c \in Messages, at[r][c] \notin InTask \cup {"queued"},
         accepted'[r] = Append(accepted[r], c),
         at'[r][c] = "queued", \A m \in Messages \ {c} : at'[r][m] = at[r][m]
  PROVE  InTurn(r)'
<1> DEFINE o == Len(accepted[r]) + 1
<1>1. /\ DOMAIN accepted'[r] = DOMAIN accepted[r] \cup {o} /\ accepted'[r][o] = c
      /\ \A i \in DOMAIN accepted[r] : accepted'[r][i] = accepted[r][i] /\ i \in Nat /\ i < o
      /\ o \in Nat
  BY AcceptedFacts, AppendFacts
<1> HIDE DEF o
<1>2. \A i \in DOMAIN accepted[r] : accepted[r][i] # c /\ accepted[r][i] \in Messages
  BY AcceptedFacts DEF OrderInv
<1>3. SUFFICES ASSUME kind[r] = "synchronized",
                      NEW i \in DOMAIN accepted'[r], NEW j \in DOMAIN accepted'[r],
                      i < j, at'[r][accepted'[r][j]] \notin {"queued", "lost"}
               PROVE  at'[r][accepted'[r][i]] \in Reported
  BY DEF InTurn
<1>4. j \in DOMAIN accepted[r]
  BY <1>1, <1>3
<1>5. i \in DOMAIN accepted[r]
  BY <1>1, <1>3, <1>4
<1>6. QED
  BY <1>1, <1>2, <1>3, <1>4, <1>5 DEF InTurn

\* The head of the queue has its turn when nothing else is under way.
LEMMA TurnTake ==
  ASSUME ShapeOK, NEW r \in Receivers, OrderInv(r), InTurn(r), accepted'[r] = accepted[r],
         UNCHANGED kind, queue[r] # <<>>, NEW c \in Messages, c = Head(queue[r]),
         at[r][c] = "queued",
         \A m \in Messages : at[r][m] \notin {"held", "running", "handled"},
         \A m \in Messages : at'[r][m] = IF m = c THEN "held" ELSE at[r][m]
  PROVE  InTurn(r)'
<1>1. SUFFICES ASSUME kind[r] = "synchronized",
                      NEW i \in DOMAIN accepted[r], NEW j \in DOMAIN accepted[r],
                      i < j, at'[r][accepted[r][j]] \notin {"queued", "lost"}
               PROVE  at'[r][accepted[r][i]] \in Reported
  BY DEF InTurn
<1>2. /\ i \in Nat /\ j \in Nat /\ accepted[r][i] \in Messages /\ accepted[r][j] \in Messages
      /\ accepted[r][i] # accepted[r][j]
      /\ at[r][accepted[r][i]] \in InTask \cup {"queued"}
  BY <1>1, AcceptedFacts DEF OrderInv, ShapeOK
<1>3. 1 \in DOMAIN queue[r] /\ queue[r][1] = c
  BY QueueFacts, TailFacts
<1>4. CASE accepted[r][j] = c
  <2>1. at[r][accepted[r][i]] # "queued"
    <3>1. SUFFICES ASSUME at[r][accepted[r][i]] = "queued"
                   PROVE  FALSE
      OBVIOUS
    <3>2. PICK k \in DOMAIN queue[r] : queue[r][k] = accepted[r][i]
      BY <1>2, <3>1 DEF OrderInv
    <3>3. k > 1
      BY <1>2, <1>3, <1>4, <3>2, QueueFacts
    <3>4. PICK n \in DOMAIN accepted[r] :
            /\ accepted[r][n] = c
            /\ \A l \in DOMAIN queue[r], m \in DOMAIN accepted[r] :
                 l > 1 /\ accepted[r][m] = queue[r][l] => m > n
      BY <1>3 DEF OrderInv
    <3>5. n = j
      BY <1>4, <3>4 DEF OrderInv
    <3>6. i > j
      BY <3>2, <3>3, <3>4, <3>5
    <3>7. QED
      BY <1>1, <1>2, <3>6
  <2>2. at[r][accepted[r][i]] \in Reported
    BY <1>2, <2>1 DEF InTask, Reported
  <2>3. QED
    BY <1>2, <1>4, <2>2
<1>5. CASE accepted[r][j] # c
  <2>1. at[r][accepted[r][i]] \in Reported
    BY <1>1, <1>2, <1>5 DEF InTurn
  <2>2. accepted[r][i] # c
    BY <2>1 DEF Reported
  <2>3. QED
    BY <1>2, <2>1, <2>2
<1>6. QED
  BY <1>4, <1>5

---------------------------------------------------------------------------
(* What a step leaves of the invariant at its receiver.                    *)

\* All of it but for the semaphore.
Parts(r) ==
  /\ PollerInv(r)
  /\ BatchInv(r)
  /\ TaskInv(r)
  /\ OrderInv(r)
  /\ InTurn(r)

LEMMA TaskFrame ==
  ASSUME NEW r \in Receivers, TaskInv(r),
         \A c \in Messages : at'[r][c] = "running" => at[r][c] = "running",
         \A i \in DOMAIN batches[r] :
           i \in DOMAIN batches'[r] /\ batches'[r][i] = batches[r][i]
  PROVE  TaskInv(r)'
BY DEF TaskInv

\* A receiver that a step leaves alone.
LEMMA ElsewhereParts ==
  ASSUME NEW s \in Receivers, Parts(s), SemaphoreInv(s), UNCHANGED kind,
         at'[s] = at[s], queue'[s] = queue[s], poller'[s] = poller[s], sem'[s] = sem[s],
         buffer'[s] = buffer[s], batches'[s] = batches[s], accepted'[s] = accepted[s]
  PROVE  Parts(s)' /\ SemaphoreInv(s)'
<1>1. PollerInv(s)'
  BY DEF Parts, PollerInv, Buffered, Current
<1>2. BatchInv(s)' /\ TaskInv(s)'
  BY DEF Parts, BatchInv, TaskInv, Buffered
<1>3. OrderInv(s)' /\ InTurn(s)'
  BY DEF Parts, OrderInv, InTurn
<1>4. SemaphoreInv(s)'
  BY DEF SemaphoreInv, Live
<1>5. QED
  BY <1>1, <1>2, <1>3, <1>4 DEF Parts

\* A poller that moves no copy and hands nothing over.
LEMMA StillParts ==
  ASSUME ShapeOK, NEW r \in Receivers, Parts(r), UNCHANGED <<kind, accepted>>,
         at'[r] = at[r], buffer'[r] = buffer[r], batches'[r] = batches[r],
         \/ queue'[r] = queue[r]
         \/ queue[r] # <<>> /\ queue'[r] = Tail(queue[r]) /\ Head(queue[r]) \notin Messages,
         poller[r] # "await", poller'[r] # "await",
         poller'[r] \in {"spawn", "drain"} => buffer[r] # <<>>
  PROVE  Parts(r)' /\ Live(r)' = Live(r)
<1>1. PollerInv(r)'
  BY DEF Parts, PollerInv, Buffered, Current
<1>2. BatchInv(r)' /\ TaskInv(r)' /\ Live(r)' = Live(r)
  BY DEF Parts, BatchInv, TaskInv, Buffered, Live
<1>3. AcceptedOK
  BY DEF ShapeOK
<1>4. OrderInv(r)'
  BY <1>3, OrderFrame, OrderTake DEF Parts
<1>5. InTurn(r)'
  BY DEF Parts, InTurn
<1>6. QED
  BY <1>1, <1>2, <1>4, <1>5 DEF Parts

\* A poller that dies, and the task it awaits with it.
LEMMA PanicsParts ==
  ASSUME ShapeOK, NEW r \in Receivers, Parts(r), NEW some, PollerPanics(r, some),
         UNCHANGED <<kind, batches, accepted>>,
         \/ some = {} /\ poller[r] # "await"
         \/ poller[r] = "await" /\ some = Members(Current(r))
  PROVE  /\ Parts(r)'
         /\ poller'[r] = "panicked"
         /\ Live(r)' = Live(r) \/ kind[r] = "synchronized"
<1> DEFINE gone == some \cup Waiting(r) \cup Buffered(r)
<1>0. PollShapeOK /\ AcceptedOK /\ MailTypeOK
  BY ShapeParts DEF ShapeOK
<1>1. /\ \A c \in Messages : at'[r][c] = IF c \in gone THEN "lost" ELSE at[r][c]
      /\ queue'[r] = <<>> /\ buffer'[r] = <<>> /\ poller'[r] = "panicked"
      /\ batches'[r] = batches[r] /\ accepted'[r] = accepted[r]
  BY <1>0, MoveAllAt DEF PollerPanics, Place, MailTypeOK, PollShapeOK
<1>2. Buffered(r)' = {}
  BY <1>1, EmptyFacts DEF Buffered
<1>3. \A i \in DOMAIN batches[r] : \A c \in Members(batches[r][i]) :
        c \in Messages /\ c \notin Waiting(r) \cup Buffered(r)
  BY <1>0, BatchType DEF Parts, BatchInv, Waiting, InTask
<1>4. TaskInv(r)'
  BY <1>1, TaskFrame DEF Parts
<1>5. OrderInv(r)'
  <2>1. \A c \in Messages :
          /\ at'[r][c] # "queued"
          /\ at[r][c] \in InTask \cup {"queued"} => at'[r][c] \in InTask
    BY <1>1 DEF Waiting, InTask
  <2>2. QED
    BY <1>0, <1>1, <2>1, OrderDrop DEF Parts
<1>6. InTurn(r)'
  BY <1>0, <1>1, TurnFrame DEF Parts
<1>7. CASE some = {} /\ poller[r] # "await"
  <2>1. Calm(r)
    BY <1>1, <1>3, <1>7 DEF Calm, CalmAt
  <2>2. BatchInv(r)' /\ Live(r)' = Live(r)
    BY <1>0, <1>1, <1>2, <2>1, BatchSteady DEF Parts
  <2>3. PollerInv(r)'
    <3>1. kind[r] = "synchronized" => \A c \in Messages :
            at'[r][c] \notin {"held", "running", "handled"}
      BY <1>1, <1>7 DEF Parts, PollerInv
    <3>2. QED
      BY <1>1, <1>2, <3>1 DEF Parts, PollerInv
  <2>4. QED
    BY <1>1, <1>4, <1>5, <1>6, <2>2, <2>3 DEF Parts
<1>8. CASE poller[r] = "await" /\ some = Members(Current(r))
  <2>1. kind[r] = "synchronized" /\ \A i \in DOMAIN batches[r] : Len(batches[r][i]) = 1
    BY <1>8 DEF Parts, PollerInv
  <2>2. \A i \in DOMAIN batches[r] : Members(batches[r][i]) = {batches[r][i][1]}
    BY <1>0, <2>1, BatchType, MembersFacts
  <2>3. BatchInv(r)'
    <3>1. \A i \in DOMAIN batches[r] :
            /\ batches[r][i] # <<>>
            /\ \A c \in Members(batches[r][i]) : \A j \in DOMAIN batches[r] :
                 c \in Members(batches[r][j]) => j = i
      BY DEF Parts, BatchInv
    <3>2. \A i \in DOMAIN batches[r] : \A c \in Members(batches[r][i]) :
            /\ at'[r][c] \in InTask
            /\ c \notin Buffered(r)'
            /\ \A d \in Members(batches[r][i]) : d = c
      <4>1. SUFFICES ASSUME NEW i \in DOMAIN batches[r], NEW c \in Members(batches[r][i])
                     PROVE  /\ at'[r][c] \in InTask
                            /\ c \notin Buffered(r)'
                            /\ \A d \in Members(batches[r][i]) : d = c
        OBVIOUS
      <4>2. at'[r][c] \in InTask
        BY <1>1, <1>3, <4>1 DEF Parts, BatchInv, InTask
      <4>3. QED
        BY <1>2, <2>2, <4>1, <4>2
    <3>3. QED
      <4>1. SUFFICES ASSUME NEW i \in DOMAIN batches'[r], NEW c \in Members(batches'[r][i])
                     PROVE  /\ at'[r][c] \in InTask
                            /\ c \notin Buffered(r)'
                            /\ \A j \in DOMAIN batches'[r] :
                                 c \in Members(batches'[r][j]) => j = i
                            /\ \A d \in Members(batches'[r][i]) : d = c
        BY <1>1, <3>1 DEF BatchInv
      <4>2. QED
        BY <1>1, <3>1, <3>2, <4>1
  <2>4. PollerInv(r)'
    <3>1. \A c \in Messages : at'[r][c] \notin {"held", "running", "handled"}
      <4>1. SUFFICES ASSUME NEW c \in Messages, at[r][c] \in {"held", "running", "handled"}
                     PROVE  c \in some
        BY <1>1
      <4>2. Current(r) = <<c>>
        BY <2>1, <4>1 DEF Parts, PollerInv
      <4>3. QED
        BY <1>8, <4>2, MembersOne
    <3>2. QED
      BY <1>1, <1>2, <3>1 DEF Parts, PollerInv
  <2>5. QED
    BY <1>1, <1>4, <1>5, <1>6, <2>1, <2>3, <2>4 DEF Parts
<1>9. QED
  BY <1>7, <1>8

LEMMA EmitsParts ==
  ASSUME ShapeOK, NEW r \in Receivers, Parts(r), NEW x \in Signals, NEW rest,
         PollerEmits(r, x, rest), UNCHANGED <<kind, batches, accepted>>, poller[r] # "await",
         \/ rest = queue[r]
         \/ queue[r] # <<>> /\ rest = Tail(queue[r]) /\ Head(queue[r]) \notin Messages
  PROVE  /\ Parts(r)'
         /\ poller'[r] \in {"recv", "panicked"}
         /\ Live(r)' = Live(r) \/ kind[r] = "synchronized"
<1>1. CASE srx[r]
  <2>1. queue'[r] = rest /\ poller'[r] = "recv"
    BY <1>1 DEF PollerEmits, ShapeOK, CommonTypeOK, MailTypeOK, PollShapeOK
  <2>2. QED
    BY <1>1, <2>1, StillParts DEF PollerEmits
<1>2. CASE ~srx[r]
  BY <1>2, PanicsParts DEF PollerEmits
<1>3. QED
  BY <1>1, <1>2

---------------------------------------------------------------------------
(* The semaphore of a receiver. *)

\* No task gets or gives back a permit, and no sync handler.
LEMMA SemaphoreSame ==
  ASSUME NEW r \in Receivers, SemaphoreInv(r), UNCHANGED kind, sem'[r] = sem[r],
         Live(r)' = Live(r) \/ kind[r] # "unordered_batched",
         \/ poller'[r] = poller[r]
         \/ poller[r] # "syncing" /\ poller'[r] # "syncing"
         \/ kind[r] # "unordered_batched"
  PROVE  SemaphoreInv(r)'
BY DEF SemaphoreInv

LEMMA SemaphoreTakes ==
  ASSUME PollShapeOK, NEW r \in Receivers, SemaphoreInv(r), UNCHANGED kind,
         kind[r] = "unordered_batched", sem'[r] = sem[r] - 1,
         NEW n, n \notin Live(r), Live(r)' = Live(r) \cup {n},
         poller[r] # "syncing", poller'[r] # "syncing"
  PROVE  SemaphoreInv(r)'
<1>1. Cardinality(Live(r)') = Cardinality(Live(r)) + 1 /\ Cardinality(Live(r)) \in Nat
  BY LiveFinite, FS_AddElement
<1>2. sem[r] \in Nat /\ MaxParallel[r] \in Nat
  BY PollersAssumption DEF PollShapeOK
<1>3. sem'[r] + Cardinality(Live(r)') = MaxParallel[r]
  BY <1>1, <1>2 DEF SemaphoreInv
<1>4. QED
  BY <1>3 DEF SemaphoreInv

LEMMA SemaphoreFrees ==
  ASSUME PollShapeOK, NEW r \in Receivers, SemaphoreInv(r), UNCHANGED kind, FreePermit(r),
         NEW n \in Live(r), Live(r)' = Live(r) \ {n}, poller'[r] = poller[r]
  PROVE  SemaphoreInv(r)'
<1>1. CASE kind[r] # "unordered_batched"
  BY <1>1 DEF FreePermit, SemaphoreInv
<1>2. CASE kind[r] = "unordered_batched"
  <2>1. Cardinality(Live(r)') = Cardinality(Live(r)) - 1 /\ Cardinality(Live(r)) \in Nat
    BY LiveFinite, FS_RemoveElement
  <2>2. sem[r] \in Nat /\ MaxParallel[r] \in Nat /\ sem'[r] = sem[r] + 1
    BY <1>2, PollersAssumption DEF PollShapeOK, FreePermit
  <2>3. poller[r] # "syncing"
    BY <1>2 DEF SemaphoreInv
  <2>4. sem'[r] + Cardinality(Live(r)') = MaxParallel[r]
    BY <1>2, <2>1, <2>2, <2>3 DEF SemaphoreInv
  <2>5. QED
    BY <1>2, <2>3, <2>4 DEF SemaphoreInv
<1>3. QED
  BY <1>1, <1>2

\* All the permits are there: no handler of the receiver is under way.
LEMMA AllPermits ==
  ASSUME PollShapeOK, NEW r \in Receivers, SemaphoreInv(r), kind[r] = "unordered_batched",
         poller[r] # "syncing", sem[r] = MaxParallel[r]
  PROVE  Live(r) = {}
<1>1. sem[r] \in Nat /\ sem[r] + Cardinality(Live(r)) = sem[r]
  BY DEF PollShapeOK, SemaphoreInv
<1>2. Cardinality(Live(r)) = 0
  BY <1>1, LiveFinite
<1>3. QED
  BY <1>2, LiveFinite, FS_EmptySet

---------------------------------------------------------------------------
(* What each step of a poller leaves of the invariant at its receiver. *)

\* A message that the poller receives was nowhere else.
LEMMA Taken ==
  ASSUME ShapeOK, BusInv, NEW r \in Receivers, Parts(r), Receive(r), UNCHANGED accepted,
         NEW c \in Messages, c = Incoming(r), Move(r, c, "held")
  PROVE  /\ queue[r] # <<>> /\ c = Head(queue[r]) /\ at[r][c] = "queued"
         /\ \A m \in Messages : at'[r][m] = IF m = c THEN "held" ELSE at[r][m]
         /\ \A i \in DOMAIN batches[r] : c \notin Members(batches[r][i])
         /\ c \notin Buffered(r)
         /\ Calm(r)
         /\ OrderInv(r)'
<1>1. /\ queue[r] # <<>> /\ c = Head(queue[r]) /\ queue'[r] = Tail(queue[r])
      /\ 1 \in DOMAIN queue[r] /\ queue[r][1] = c
  BY QueueFacts, TailFacts DEF Receive, Incoming, ShapeOK, CommonTypeOK, MailTypeOK
<1>2. at[r][c] = "queued"
  BY <1>1 DEF BusInv, ChannelInv, Holds
<1>3. \A m \in Messages : at'[r][m] = IF m = c THEN "held" ELSE at[r][m]
  BY ShapeParts, MoveAt DEF Place
<1>4. \A i \in DOMAIN batches[r] : c \notin Members(batches[r][i])
  BY <1>2 DEF Parts, BatchInv, InTask
<1>5. c \notin Buffered(r)
  BY <1>2 DEF Parts, PollerInv
<1>6. Calm(r)
  <2>1. \A i \in DOMAIN batches[r] : Members(batches[r][i]) \subseteq Messages
    BY BatchType DEF ShapeOK
  <2>2. QED
    BY <1>3, <1>4, <2>1 DEF Calm, CalmAt
<1>7. OrderInv(r)'
  BY <1>1, <1>3, OrderTake DEF Parts
<1>8. QED
  BY <1>1, <1>2, <1>3, <1>4, <1>5, <1>6, <1>7

\* What the receivers of batches do with it leaves their order as it is.
LEMMA TurnFree ==
  ASSUME NEW r \in Receivers, kind[r] # "synchronized", UNCHANGED kind
  PROVE  InTurn(r)'
BY DEF InTurn

LEMMA CommonPollParts ==
  ASSUME ShapeOK, BusInv, NEW r \in Receivers, Parts(r), SemaphoreInv(r),
         PollInitAction(r) \/ PollClose(r) \/ EndPoller(r), UNCHANGED accepted
  PROVE  Parts(r)' /\ SemaphoreInv(r)'
<1>0. PollShapeOK /\ MailTypeOK /\ AcceptedOK
  BY ShapeParts DEF ShapeOK
<1>1. CASE PollInitAction(r)
  <2>1. queue[r] # <<>> /\ Head(queue[r]) \notin Messages
    BY <1>1, MailboxAssumption DEF PollInitAction, Upcoming, Incoming, Actions
  <2>2. /\ Parts(r)'
        /\ poller'[r] \in {"recv", "panicked"}
        /\ Live(r)' = Live(r) \/ kind[r] = "synchronized"
    BY <1>1, <2>1, EmitsParts DEF PollInitAction, Signals
  <2>3. SemaphoreInv(r)'
    BY <1>1, <2>2, SemaphoreSame DEF PollInitAction
  <2>4. QED
    BY <2>2, <2>3
<1>2. CASE PollClose(r)
  <2>1. /\ queue[r] # <<>> /\ Head(queue[r]) \notin Messages
        /\ queue'[r] = Tail(queue[r])
    BY <1>0, <1>2, MailboxAssumption DEF PollClose, Receive, Incoming, Actions, MailTypeOK
  <2>2. Parts(r)' /\ Live(r)' = Live(r)
    BY <1>2, <2>1, StillParts DEF PollClose, pollVars
  <2>3. SemaphoreInv(r)'
    BY <1>2, <2>2, SemaphoreSame DEF PollClose, pollVars
  <2>4. QED
    BY <2>2, <2>3
<1>3. CASE EndPoller(r)
  <2>1. /\ \A c \in Messages : at'[r][c] = IF c \in Buffered(r) THEN "lost" ELSE at[r][c]
        /\ queue'[r] = queue[r] /\ buffer'[r] = <<>> /\ poller'[r] = "ended"
        /\ batches'[r] = batches[r] /\ accepted'[r] = accepted[r] /\ poller[r] = "recv"
        /\ UNCHANGED <<kind, sem>>
    BY <1>0, <1>3, MoveAllAt DEF EndPoller, PollerGoes, Place, MailTypeOK, PollShapeOK
  <2>2. Buffered(r)' = {}
    BY <2>1, EmptyFacts DEF Buffered
  <2>3. \A c \in Buffered(r) : at[r][c] = "held"
    BY DEF Parts, PollerInv
  <2>4. Calm(r)
    <3>1. \A i \in DOMAIN batches[r] : \A c \in Members(batches[r][i]) :
            c \in Messages /\ c \notin Buffered(r)
      BY <1>0, BatchType DEF Parts, BatchInv
    <3>2. QED
      BY <2>1, <3>1 DEF Calm, CalmAt
  <2>5. BatchInv(r)' /\ Live(r)' = Live(r)
    BY <1>0, <2>1, <2>2, <2>4, BatchSteady DEF Parts
  <2>6. TaskInv(r)'
    BY <2>1, TaskFrame DEF Parts
  <2>7. OrderInv(r)'
    BY <1>0, <2>1, <2>3, OrderFrame DEF Parts, InTask
  <2>8. InTurn(r)'
    BY <1>0, <2>1, TurnFrame DEF Parts
  <2>9. PollerInv(r)'
    BY <2>1, <2>2 DEF Parts, PollerInv
  <2>10. SemaphoreInv(r)'
    BY <2>1, <2>5, SemaphoreSame
  <2>11. QED
    BY <2>5, <2>6, <2>7, <2>8, <2>9, <2>10 DEF Parts
<1>4. QED
  BY <1>1, <1>2, <1>3

\* A task more, or another batch of it, than the receiver had.
LEMMA Longer ==
  ASSUME PollShapeOK, NEW r \in Receivers, NEW b \in Seq(Messages),
         batches' = [batches EXCEPT ![r] = Append(@, b)]
  PROVE  /\ batches'[r] = Append(batches[r], b) /\ batches'[r] # <<>>
         /\ Current(r)' = b
         /\ \A i \in DOMAIN batches[r] :
              i \in DOMAIN batches'[r] /\ batches'[r][i] = batches[r][i]
         /\ \A i \in DOMAIN batches'[r] :
              i \in DOMAIN batches[r] \/ batches'[r][i] = b
<1>1. batches'[r] = Append(batches[r], b)
  BY BatchesType
<1>2. batches[r] \in Seq(Seq(Messages))
  BY BatchType
<1>3. QED
  BY <1>1, <1>2, AppendFacts DEF Current

LEMMA TakeMessageParts ==
  ASSUME ShapeOK, BusInv, NEW r \in Receivers, Parts(r), SemaphoreInv(r),
         kind[r] = "synchronized", TakeMessage(r), UNCHANGED accepted
  PROVE  Parts(r)' /\ SemaphoreInv(r)'
<1>0. PollShapeOK /\ MailTypeOK /\ AcceptedOK
  BY ShapeParts DEF ShapeOK
<1> DEFINE c == Incoming(r)
<1>1. c \in Messages /\ Receive(r) /\ Move(r, c, "held")
  BY DEF TakeMessage
<1>2. PICK m \in Messages : m = c
  BY <1>1
<1>3. /\ queue[r] # <<>> /\ m = Head(queue[r]) /\ at[r][m] = "queued"
      /\ \A d \in Messages : at'[r][d] = IF d = m THEN "held" ELSE at[r][d]
      /\ \A i \in DOMAIN batches[r] : m \notin Members(batches[r][i])
      /\ m \notin Buffered(r)
      /\ Calm(r)
      /\ OrderInv(r)'
  BY <1>1, <1>2, Taken
<1>4. <<m>> \in Seq(Messages) /\ <<m>> # <<>> /\ Len(<<m>>) = 1 /\ Members(<<m>>) = {m}
  BY OneFacts, MembersOne
<1>5. /\ batches' = [batches EXCEPT ![r] = Append(@, <<m>>)]
      /\ poller[r] = "recv" /\ poller'[r] = "await"
      /\ UNCHANGED <<kind, sem, buffer, accepted>>
  BY <1>0, <1>2 DEF TakeMessage, PollerGoes, PollShapeOK
<1> HIDE DEF c
<1>6. /\ batches'[r] = Append(batches[r], <<m>>) /\ batches'[r] # <<>>
      /\ Current(r)' = <<m>>
      /\ \A i \in DOMAIN batches[r] :
           i \in DOMAIN batches'[r] /\ batches'[r][i] = batches[r][i]
      /\ \A i \in DOMAIN batches'[r] :
           i \in DOMAIN batches[r] \/ batches'[r][i] = <<m>>
  BY <1>0, <1>4, <1>5, Longer
<1>7. buffer[r] = <<>> /\ Buffered(r) = {} /\ Buffered(r)' = {}
  BY <1>5, EmptyFacts DEF Parts, PollerInv, Buffered
<1>8. \A d \in Messages : at[r][d] \notin {"held", "running", "handled"}
  BY <1>5 DEF Parts, PollerInv
<1>9. BatchInv(r)'
  <2>1. BatchInv(r) /\ Calm(r) /\ Buffered(r)' \subseteq Buffered(r)
    BY <1>3, <1>7 DEF Parts
  <2>2. \A d \in Members(<<m>>) :
          /\ at'[r][d] = "held" /\ d \notin Buffered(r)'
          /\ \A i \in DOMAIN batches[r] : d \notin Members(batches[r][i])
    BY <1>3, <1>4, <1>7
  <2>3. batches'[r] = Append(batches[r], <<m>>)
    BY <1>6
  <2>4. QED
    BY <1>0, <1>4, <2>1, <2>2, <2>3, BatchAdds
<1>10. TaskInv(r)'
  BY <1>3, <1>6, TaskFrame DEF Parts
<1>11. InTurn(r)'
  <2>1. InTurn(r) /\ OrderInv(r)
    BY DEF Parts
  <2>2. accepted'[r] = accepted[r]
    OBVIOUS
  <2>3. QED
    BY <1>3, <1>5, <1>8, <2>1, <2>2, TurnTake
<1>12. PollerInv(r)'
  <2>1. \A i \in DOMAIN batches'[r] : Len(batches'[r][i]) = 1
    BY <1>4, <1>6 DEF Parts, PollerInv
  <2>2. \A d \in Messages : at'[r][d] \in {"held", "running", "handled"} => d = m
    BY <1>3, <1>8
  <2>3. QED
    BY <1>5, <1>6, <1>7, <2>1, <2>2 DEF PollerInv
<1>13. SemaphoreInv(r)'
  BY <1>5, SemaphoreSame
<1>14. QED
  BY <1>3, <1>9, <1>10, <1>11, <1>12, <1>13 DEF Parts

LEMMA TaskEndsParts ==
  ASSUME ShapeOK, NEW r \in Receivers, Parts(r), SemaphoreInv(r),
         kind[r] = "synchronized", TaskEnds(r), UNCHANGED accepted
  PROVE  Parts(r)' /\ SemaphoreInv(r)'
<1>0. PollShapeOK /\ MailTypeOK /\ AcceptedOK
  BY ShapeParts DEF ShapeOK
<1>1. /\ poller[r] = "await" /\ batches[r] # <<>> /\ Len(Current(r)) = 1
      /\ Unreported(r, Current(r)) # {}
      /\ UNCHANGED <<kind, sem, batches, accepted>>
  BY <1>0, BatchType DEF TaskEnds, Parts, PollerInv, Current
<1>2. PICK m \in Messages : Current(r) = <<m>> /\ Current(r)[1] = m
  BY <1>0, <1>1, BatchType, MembersFacts
<1>3. at[r][m] = "handled"
  <2>1. DOMAIN Current(r) = {1}
    BY <1>2, OneFacts
  <2>2. QED
    BY <1>1, <1>2, <2>1 DEF Unreported
<1>4. CASE srx[r]
  <2>1. /\ \A d \in Messages : at'[r][d] = IF d = m THEN "answered" ELSE at[r][d]
        /\ queue'[r] = queue[r] /\ buffer'[r] = buffer[r] /\ poller'[r] = "recv"
    BY <1>0, <1>2, <1>4, MoveAt DEF TaskEnds, Place, PollShapeOK
  <2>2. Calm(r)
    <3>1. \A i \in DOMAIN batches[r] : Members(batches[r][i]) \subseteq Messages
      BY <1>0, BatchType
    <3>2. QED
      BY <1>3, <2>1, <3>1 DEF Calm, CalmAt, InTask
  <2>3. Buffered(r)' = Buffered(r)
    BY <2>1 DEF Buffered
  <2>4. BatchInv(r)'
    BY <1>0, <1>1, <2>2, <2>3, BatchSteady DEF Parts
  <2>5. TaskInv(r)'
    BY <1>1, <2>1, TaskFrame DEF Parts
  <2>6. OrderInv(r)'
    BY <1>0, <1>1, <1>3, <2>1, OrderFrame DEF Parts, InTask
  <2>7. InTurn(r)'
    BY <1>0, <1>1, <1>3, <2>1, TurnFrame DEF Parts, Reported
  <2>8. PollerInv(r)'
    <3>1. ASSUME NEW d \in Messages, d # m
          PROVE  at[r][d] \notin {"held", "running", "handled"}
      BY <1>2, <3>1 DEF Parts, PollerInv
    <3>2. \A d \in Messages : at'[r][d] \notin {"held", "running", "handled"}
      BY <2>1, <3>1
    <3>3. buffer[r] = <<>> /\ Buffered(r) = {}
      BY EmptyFacts DEF Parts, PollerInv, Buffered
    <3>4. QED
      BY <1>1, <2>1, <2>3, <3>2, <3>3 DEF Parts, PollerInv
  <2>9. SemaphoreInv(r)'
    BY <1>1, SemaphoreSame
  <2>10. QED
    BY <2>4, <2>5, <2>6, <2>7, <2>8, <2>9 DEF Parts
<1>5. CASE ~srx[r]
  <2>1. PollerPanics(r, Members(Current(r)))
    BY <1>5 DEF TaskEnds
  <2>2. Parts(r)'
    BY <1>1, <2>1, PanicsParts
  <2>3. SemaphoreInv(r)'
    BY <1>1, SemaphoreSame
  <2>4. QED
    BY <2>2, <2>3
<1>6. QED
  BY <1>4, <1>5

LEMMA TaskPanicsParts ==
  ASSUME ShapeOK, NEW r \in Receivers, Parts(r), SemaphoreInv(r),
         kind[r] = "synchronized", TaskPanics(r), UNCHANGED accepted
  PROVE  Parts(r)' /\ SemaphoreInv(r)'
<1>1. Parts(r)'
  BY PanicsParts DEF TaskPanics
<1>2. SemaphoreInv(r)'
  BY SemaphoreSame DEF TaskPanics
<1>3. QED
  BY <1>1, <1>2

\* What a poller does that emits a signal, but for SyncReleases.
LEMMA EmitParts ==
  ASSUME ShapeOK, NEW r \in Receivers, Parts(r), SemaphoreInv(r), NEW x \in Signals, NEW rest,
         PollerEmits(r, x, rest), UNCHANGED <<kind, sem, batches, accepted>>,
         poller[r] # "await", kind[r] = "unordered_batched" => poller[r] # "syncing",
         \/ rest = queue[r]
         \/ queue[r] # <<>> /\ rest = Tail(queue[r]) /\ Head(queue[r]) \notin Messages
  PROVE  Parts(r)' /\ SemaphoreInv(r)'
<1>1. /\ Parts(r)'
      /\ poller'[r] \in {"recv", "panicked"}
      /\ Live(r)' = Live(r) \/ kind[r] = "synchronized"
  BY EmitsParts
<1>2. SemaphoreInv(r)'
  BY <1>1, SemaphoreSame
<1>3. QED
  BY <1>1, <1>2

\* What a poller does that only waits from now on, or has waited.
LEMMA WaitParts ==
  ASSUME ShapeOK, NEW r \in Receivers, Parts(r), SemaphoreInv(r), NEW from, NEW to,
         PollerGoes(r, from, to), UNCHANGED <<at, kind, sem, buffer, batches, accepted>>,
         \/ UNCHANGED queue
         \/ Receive(r) /\ Incoming(r) \in Actions,
         from # "await", to # "await", to \in {"spawn", "drain"} => buffer[r] # <<>>,
         kind[r] = "unordered_batched" => from # "syncing" /\ to # "syncing"
  PROVE  Parts(r)' /\ SemaphoreInv(r)'
<1>1. poller[r] = from /\ poller'[r] = to
  BY DEF PollerGoes, ShapeOK, PollShapeOK
<1>2. \/ queue'[r] = queue[r]
      \/ queue[r] # <<>> /\ queue'[r] = Tail(queue[r]) /\ Head(queue[r]) \notin Messages
  BY MailboxAssumption DEF Receive, Incoming, ShapeOK, CommonTypeOK, MailTypeOK
<1>3. Parts(r)' /\ Live(r)' = Live(r)
  BY <1>1, <1>2, StillParts
<1>4. SemaphoreInv(r)'
  BY <1>1, <1>3, SemaphoreSame
<1>5. QED
  BY <1>3, <1>4

LEMMA SynchronizedParts ==
  ASSUME ShapeOK, BusInv, NEW r \in Receivers, Parts(r), SemaphoreInv(r),
         kind[r] = "synchronized", SynchronizedStep(r), UNCHANGED accepted
  PROVE  Parts(r)' /\ SemaphoreInv(r)'
<1>1. CASE TakeMessage(r)
  BY <1>1, TakeMessageParts
<1>2. CASE TaskEnds(r)
  BY <1>2, TaskEndsParts
<1>3. CASE FlushAtOnce(r)
  BY <1>3, EmitParts, MailboxAssumption DEF FlushAtOnce, Upcoming, Incoming, Actions, Signals
<1>4. CASE AwaitMutex(r)
  BY <1>4, WaitParts DEF AwaitMutex, Actions
<1>5. CASE SyncLocked(r)
  BY <1>5, WaitParts DEF SyncLocked, mailVars
<1>6. CASE SyncReturns(r)
  BY <1>6, EmitParts DEF SyncReturns, Signals
<1>7. QED
  BY <1>1, <1>2, <1>3, <1>4, <1>5, <1>6 DEF SynchronizedStep

LEMMA BufferMessageParts ==
  ASSUME ShapeOK, BusInv, NEW r \in Receivers, Parts(r), SemaphoreInv(r),
         kind[r] # "synchronized", NEW to \in {"recv", "spawn"}, PollerGoes(r, "recv", to),
         Buffer(r), UNCHANGED <<kind, sem, batches, accepted>>
  PROVE  Parts(r)' /\ SemaphoreInv(r)'
<1>0. PollShapeOK /\ MailTypeOK /\ AcceptedOK
  BY ShapeParts DEF ShapeOK
<1>1. PICK m \in Messages : m = Incoming(r)
  BY DEF Buffer
<1>2. /\ at[r][m] = "queued"
      /\ \A d \in Messages : at'[r][d] = IF d = m THEN "held" ELSE at[r][d]
      /\ Calm(r)
      /\ OrderInv(r)'
  BY <1>1, Taken DEF Buffer
<1>3. /\ buffer'[r] = Append(buffer[r], m) /\ poller[r] = "recv" /\ poller'[r] = to
      /\ batches'[r] = batches[r]
  BY <1>0, <1>1 DEF Buffer, PollerGoes, PollShapeOK
<1>4. Buffered(r)' = Buffered(r) \cup {m} /\ buffer'[r] # <<>>
  BY <1>0, <1>3, BatchType, MembersAppend, AppendFacts DEF Buffered
<1>5. BatchInv(r)' /\ Live(r)' = Live(r)
  BY <1>0, <1>2, <1>3, <1>4, BatchCollects DEF Parts
<1>6. TaskInv(r)'
  BY <1>2, <1>3, TaskFrame DEF Parts
<1>7. PollerInv(r)'
  <2>1. \A c \in Buffered(r) : c \in Messages /\ at[r][c] = "held"
    BY <1>0, BatchType DEF Parts, PollerInv
  <2>2. \A c \in Buffered(r)' : at'[r][c] = "held"
    BY <1>2, <1>4, <2>1
  <2>3. QED
    BY <1>3, <1>4, <2>2 DEF PollerInv
<1>8. InTurn(r)'
  BY TurnFree
<1>9. SemaphoreInv(r)'
  BY <1>3, <1>5, SemaphoreSame
<1>10. QED
  BY <1>2, <1>5, <1>6, <1>7, <1>8, <1>9 DEF Parts

LEMMA SpawnParts ==
  ASSUME ShapeOK, NEW r \in Receivers, Parts(r), SemaphoreInv(r),
         kind[r] = "unordered_batched", NEW from \in {"spawn", "drain"},
         NEW to \in {"recv", "flush"}, SpawnPermitted(r, from, to), UNCHANGED accepted
  PROVE  Parts(r)' /\ SemaphoreInv(r)'
<1>0. PollShapeOK /\ MailTypeOK /\ AcceptedOK
  BY ShapeParts DEF ShapeOK
<1>1. /\ poller[r] = from /\ poller'[r] = to /\ sem'[r] = sem[r] - 1
      /\ batches' = [batches EXCEPT ![r] = Append(@, buffer[r])]
      /\ buffer'[r] = <<>>
      /\ UNCHANGED <<at, queue, kind, accepted>>
  BY <1>0 DEF SpawnPermitted, SpawnBatch, PollerGoes, PollShapeOK, mailVars
<1>2. Buffered(r)' = {}
  BY <1>1, EmptyFacts DEF Buffered
<1>3. /\ buffer[r] # <<>> /\ buffer[r] \in Seq(Messages) /\ Buffered(r) \subseteq Messages
      /\ \A c \in Members(buffer[r]) :
           /\ at'[r][c] = "held"
           /\ \A i \in DOMAIN batches[r] : c \notin Members(batches[r][i])
  BY <1>0, <1>1, BatchType DEF Parts, PollerInv, BatchInv, Buffered
<1>4. Calm(r)
  BY <1>1 DEF Calm, CalmAt
<1>5. /\ batches'[r] = Append(batches[r], buffer[r])
      /\ \A i \in DOMAIN batches[r] :
           i \in DOMAIN batches'[r] /\ batches'[r][i] = batches[r][i]
  BY <1>0, <1>1, <1>3, Longer
<1>6. /\ BatchInv(r)'
      /\ Len(batches[r]) + 1 \notin Live(r)
      /\ Live(r)' = Live(r) \cup {Len(batches[r]) + 1}
  BY <1>0, <1>2, <1>3, <1>4, <1>5, BatchAdds DEF Parts
<1>7. TaskInv(r)'
  BY <1>1, <1>5, TaskFrame DEF Parts
<1>8. OrderInv(r)' /\ InTurn(r)'
  BY <1>1 DEF Parts, OrderInv, InTurn
<1>9. PollerInv(r)'
  BY <1>1, <1>2 DEF PollerInv
<1>10. SemaphoreInv(r)'
  BY <1>0, <1>1, <1>6, SemaphoreTakes
<1>11. QED
  BY <1>6, <1>7, <1>8, <1>9, <1>10 DEF Parts

LEMMA SyncPermittedParts ==
  ASSUME ShapeOK, NEW r \in Receivers, Parts(r), SemaphoreInv(r),
         kind[r] = "unordered_batched", SyncPermitted(r), UNCHANGED accepted
  PROVE  Parts(r)' /\ SemaphoreInv(r)'
<1>0. PollShapeOK
  BY DEF ShapeOK
<1>1. /\ poller[r] = "sync" /\ poller'[r] = "syncing" /\ sem'[r] = 0
      /\ sem[r] = MaxParallel[r]
      /\ UNCHANGED <<at, queue, kind, buffer, batches, accepted>>
  BY <1>0 DEF SyncPermitted, PollerGoes, PollShapeOK, mailVars
<1>2. Parts(r)' /\ Live(r)' = Live(r)
  BY <1>1, StillParts
<1>3. Live(r) = {}
  BY <1>0, <1>1, AllPermits
<1>4. QED
  BY <1>1, <1>2, <1>3 DEF SemaphoreInv

LEMMA SyncReleasesParts ==
  ASSUME ShapeOK, NEW r \in Receivers, Parts(r), SemaphoreInv(r),
         kind[r] = "unordered_batched", SyncReleases(r), UNCHANGED accepted
  PROVE  Parts(r)' /\ SemaphoreInv(r)'
<1>1. /\ Parts(r)'
      /\ poller'[r] \in {"recv", "panicked"}
      /\ Live(r)' = Live(r) \/ kind[r] = "synchronized"
  BY EmitsParts DEF SyncReleases, Signals
<1>2. Live(r)' = {} /\ kind'[r] = "unordered_batched"
  BY <1>1 DEF SyncReleases, SemaphoreInv
<1>3. sem'[r] = MaxParallel[r] /\ MaxParallel[r] \in Nat
  BY PollersAssumption DEF SyncReleases, ShapeOK, PollShapeOK
<1>4. Cardinality(Live(r)') = 0
  BY <1>2, FS_EmptySet
<1>5. SemaphoreInv(r)'
  BY <1>1, <1>2, <1>3, <1>4 DEF SemaphoreInv
<1>6. QED
  BY <1>1, <1>5

LEMMA UnorderedBatchedParts ==
  ASSUME ShapeOK, BusInv, NEW r \in Receivers, Parts(r), SemaphoreInv(r),
         kind[r] = "unordered_batched", UnorderedBatchedStep(r), UNCHANGED accepted
  PROVE  Parts(r)' /\ SemaphoreInv(r)'
<1>1. CASE BufferMessage(r)
  BY <1>1, BufferMessageParts DEF BufferMessage
<1>2. CASE SpawnPermitted(r, "spawn", "recv")
  BY <1>2, SpawnParts
<1>3. CASE SpawnPermitted(r, "drain", "flush")
  BY <1>3, SpawnParts
<1>4. CASE Drain(r)
  BY <1>4, WaitParts DEF Drain, Actions
<1>5. CASE FlushAll(r)
  BY <1>5, EmitParts DEF FlushAll, Signals
<1>6. CASE AwaitPermits(r)
  BY <1>6, WaitParts DEF AwaitPermits, Actions
<1>7. CASE SyncPermitted(r)
  BY <1>7, SyncPermittedParts
<1>8. CASE SyncReleases(r)
  BY <1>8, SyncReleasesParts
<1>9. QED
  BY <1>1, <1>2, <1>3, <1>4, <1>5, <1>6, <1>7, <1>8 DEF UnorderedBatchedStep

LEMMA CollectMessageParts ==
  ASSUME ShapeOK, BusInv, NEW r \in Receivers, Parts(r), SemaphoreInv(r),
         kind[r] = "synchronized_batched", CollectMessage(r), UNCHANGED accepted
  PROVE  Parts(r)' /\ SemaphoreInv(r)'
<1>0. PollShapeOK /\ MailTypeOK /\ AcceptedOK
  BY ShapeParts DEF ShapeOK
<1>1. CASE Len(buffer[r]) + 1 >= BatchSize[r]
  <2>1. PICK m \in Messages : m = Incoming(r)
    BY DEF CollectMessage
  <2>2. /\ at[r][m] = "queued"
        /\ \A d \in Messages : at'[r][d] = IF d = m THEN "held" ELSE at[r][d]
        /\ \A i \in DOMAIN batches[r] : m \notin Members(batches[r][i])
        /\ Calm(r)
        /\ OrderInv(r)'
    BY <2>1, Taken DEF CollectMessage
  <2>3. PICK b \in Seq(Messages) : b = Append(buffer[r], m)
    BY <1>0, BatchType, AppendFacts
  <2>4. /\ batches' = [batches EXCEPT ![r] = Append(@, b)] /\ buffer'[r] = <<>>
        /\ poller[r] = "recv" /\ poller'[r] = "recv" /\ UNCHANGED <<kind, sem, accepted>>
    BY <1>0, <1>1, <2>1, <2>3 DEF CollectMessage, SpawnBatch, PollerGoes, PollShapeOK
  <2>5. b # <<>> /\ Members(b) = Buffered(r) \cup {m}
    BY <1>0, <2>3, BatchType, AppendFacts, MembersAppend DEF Buffered
  <2>6. Buffered(r)' = {}
    BY <2>4, EmptyFacts DEF Buffered
  <2>7. \A c \in Members(b) :
          /\ at'[r][c] = "held"
          /\ \A i \in DOMAIN batches[r] : c \notin Members(batches[r][i])
    <3>1. \A c \in Buffered(r) : c \in Messages /\ at[r][c] = "held"
      BY <1>0, BatchType DEF Parts, PollerInv
    <3>2. \A c \in Buffered(r), i \in DOMAIN batches[r] : c \notin Members(batches[r][i])
      BY DEF Parts, BatchInv
    <3>3. QED
      BY <2>2, <2>5, <3>1, <3>2
  <2>8. /\ batches'[r] = Append(batches[r], b)
        /\ \A i \in DOMAIN batches[r] :
             i \in DOMAIN batches'[r] /\ batches'[r][i] = batches[r][i]
    BY <1>0, <2>4, Longer
  <2>9. BatchInv(r)'
    BY <1>0, <2>2, <2>5, <2>6, <2>7, <2>8, BatchAdds DEF Parts
  <2>10. TaskInv(r)'
    BY <2>2, <2>8, TaskFrame DEF Parts
  <2>11. PollerInv(r)'
    BY <2>4, <2>6 DEF PollerInv
  <2>12. InTurn(r)'
    BY <2>4, TurnFree
  <2>13. SemaphoreInv(r)'
    BY <2>4, SemaphoreSame
  <2>14. QED
    BY <2>2, <2>9, <2>10, <2>11, <2>12, <2>13 DEF Parts
<1>2. CASE ~(Len(buffer[r]) + 1 >= BatchSize[r])
  BY <1>2, BufferMessageParts DEF CollectMessage, Buffer
<1>3. QED
  BY <1>1, <1>2

LEMMA HandOverParts ==
  ASSUME ShapeOK, NEW r \in Receivers, Parts(r), SemaphoreInv(r),
         kind[r] = "synchronized_batched", HandOver(r), UNCHANGED accepted
  PROVE  Parts(r)' /\ SemaphoreInv(r)'
<1>0. PollShapeOK /\ MailTypeOK /\ AcceptedOK
  BY ShapeParts DEF ShapeOK
<1>1. /\ queue[r] # <<>> /\ Head(queue[r]) \notin Messages /\ poller[r] = "recv"
      /\ buffer'[r] = <<>> /\ UNCHANGED <<kind, sem, accepted>>
  BY <1>0, MailboxAssumption DEF HandOver, Upcoming, Incoming, Actions, PollShapeOK
<1>2. Buffered(r)' = {}
  BY <1>1, EmptyFacts DEF Buffered
<1>3. /\ \A c \in Messages : at'[r][c] = at[r][c] \/
           (at[r][c] = "queued" /\ at'[r][c] = "lost" /\ ~srx[r])
      /\ poller'[r] \in {"recv", "panicked"}
  <2>1. CASE srx[r]
    BY <1>1, <2>1 DEF HandOver
  <2>2. CASE ~srx[r]
    <3>1. \A c \in Messages : at'[r][c] = IF c \in Waiting(r) THEN "lost" ELSE at[r][c]
      BY <1>0, <2>2, MoveAllAt DEF HandOver, Place
    <3>2. poller'[r] = "panicked"
      BY <1>0, <2>2 DEF HandOver, PollShapeOK
    <3>3. QED
      BY <2>2, <3>1, <3>2 DEF Waiting
  <2>3. QED
    BY <2>1, <2>2
<1>4. Calm(r)
  <2>1. \A i \in DOMAIN batches[r] : \A c \in Members(batches[r][i]) :
          c \in Messages /\ at[r][c] # "queued"
    BY <1>0, BatchType DEF Parts, BatchInv, InTask
  <2>2. QED
    BY <1>3, <2>1 DEF Calm, CalmAt
<1>5. /\ \A i \in DOMAIN batches[r] :
           i \in DOMAIN batches'[r] /\ batches'[r][i] = batches[r][i]
      /\ BatchInv(r)'
  <2>1. CASE buffer[r] = <<>>
    <3>1. batches' = batches
      BY <2>1 DEF HandOver
    <3>2. QED
      BY <1>0, <1>2, <1>4, <3>1, BatchSteady DEF Parts
  <2>2. CASE buffer[r] # <<>>
    <3>1. batches' = [batches EXCEPT ![r] = Append(@, buffer[r])] /\ buffer[r] \in Seq(Messages)
      BY <1>0, <2>2, BatchType DEF HandOver
    <3>2. /\ batches'[r] = Append(batches[r], buffer[r])
          /\ \A i \in DOMAIN batches[r] :
               i \in DOMAIN batches'[r] /\ batches'[r][i] = batches[r][i]
      BY <1>0, <3>1, Longer
    <3>3. \A c \in Members(buffer[r]) :
            /\ c \in Messages /\ at[r][c] = "held"
            /\ \A i \in DOMAIN batches[r] : c \notin Members(batches[r][i])
      BY <1>0, BatchType DEF Parts, PollerInv, BatchInv, Buffered
    <3>4. \A c \in Members(buffer[r]) : at'[r][c] = "held"
      BY <1>3, <3>3
    <3>5. BatchInv(r)'
      BY <1>0, <1>2, <1>4, <2>2, <3>1, <3>2, <3>3, <3>4, BatchAdds DEF Parts
    <3>6. QED
      BY <3>2, <3>5
  <2>3. QED
    BY <2>1, <2>2
<1>6. TaskInv(r)'
  BY <1>3, <1>5, TaskFrame DEF Parts
<1>7. OrderInv(r)'
  <2>1. CASE srx[r]
    <3>1. queue'[r] = Tail(queue[r]) /\ at' = at
      BY <1>0, <1>1, <2>1 DEF HandOver, MailTypeOK
    <3>2. QED
      BY <1>1, <3>1, OrderTake DEF Parts
  <2>2. CASE ~srx[r]
    <3>1. queue'[r] = <<>>
      BY <1>0, <2>2 DEF HandOver, MailTypeOK
    <3>2. \A c \in Messages : at'[r][c] = IF c \in Waiting(r) THEN "lost" ELSE at[r][c]
      BY <1>0, <2>2, MoveAllAt DEF HandOver, Place
    <3>3. \A c \in Messages :
            /\ at'[r][c] # "queued"
            /\ at[r][c] \in InTask \cup {"queued"} => at'[r][c] \in InTask
      BY <3>2 DEF Waiting, InTask
    <3>4. QED
      BY <1>0, <1>1, <3>1, <3>3, OrderDrop DEF Parts
  <2>3. QED
    BY <2>1, <2>2
<1>8. PollerInv(r)'
  BY <1>1, <1>2, <1>3 DEF PollerInv
<1>9. InTurn(r)'
  BY <1>1, TurnFree
<1>10. SemaphoreInv(r)'
  BY <1>1, SemaphoreSame
<1>11. QED
  BY <1>5, <1>6, <1>7, <1>8, <1>9, <1>10 DEF Parts

LEMMA SynchronizedBatchedParts ==
  ASSUME ShapeOK, BusInv, NEW r \in Receivers, Parts(r), SemaphoreInv(r),
         kind[r] = "synchronized_batched", SynchronizedBatchedStep(r), UNCHANGED accepted
  PROVE  Parts(r)' /\ SemaphoreInv(r)'
<1>1. CASE CollectMessage(r)
  BY <1>1, CollectMessageParts
<1>2. CASE HandOver(r)
  BY <1>2, HandOverParts
<1>3. CASE Compete(r)
  BY <1>3, WaitParts DEF Compete, Actions
<1>4. CASE SyncWins(r)
  BY <1>4, WaitParts DEF SyncWins, mailVars
<1>5. CASE SyncUnlocks(r)
  BY <1>5, EmitParts DEF SyncUnlocks, Signals
<1>6. QED
  BY <1>1, <1>2, <1>3, <1>4, <1>5 DEF SynchronizedBatchedStep

---------------------------------------------------------------------------
(* What each step of a task leaves of it.                                  *)

\* The handler of a task starts, returns or panics: its batch moves as a whole.
LEMMA TaskMoves ==
  ASSUME ShapeOK, NEW r \in Receivers, Parts(r), NEW i \in DOMAIN batches[r],
         NEW old \in {"held", "running"}, NEW new \in {"running", "handled", "lost"},
         \A c \in Members(batches[r][i]) : at[r][c] = old,
         MoveAll(r, Members(batches[r][i]), new), new = "lost" => kind[r] # "synchronized",
         UNCHANGED <<queue, kind, poller, buffer, batches, accepted>>
  PROVE  /\ Parts(r)'
         /\ i \in Live(r)
         /\ Live(r)' = IF new = "running" THEN Live(r) ELSE Live(r) \ {i}
<1> DEFINE some == Members(batches[r][i])
<1>0. PollShapeOK /\ MailTypeOK /\ AcceptedOK
  BY ShapeParts DEF ShapeOK
<1>1. \A c \in Messages : at'[r][c] = IF c \in some THEN new ELSE at[r][c]
  BY <1>0, MoveAllAt DEF Place
<1>2. /\ some \subseteq Messages
      /\ batches[r][i][1] \in some
      /\ \A c \in some : c \notin Buffered(r)
  BY <1>0, BatchFirst DEF Parts, BatchInv
<1>3. Buffered(r)' = Buffered(r)
  BY DEF Buffered
<1>4. i \in Live(r)
  BY <1>2 DEF Live
<1>5. /\ BatchInv(r)'
      /\ Live(r)' = IF new \in {"held", "running"} THEN Live(r) \cup {i} ELSE Live(r) \ {i}
  <2>1. \A c \in some : at'[r][c] = new
    BY <1>1, <1>2
  <2>2. \A c \in Messages : c \notin some => CalmAt(r, c)
    BY <1>1 DEF CalmAt
  <2>3. new \in InTask /\ batches'[r] = batches[r] /\ Buffered(r)' \subseteq Buffered(r)
    BY <1>3 DEF InTask
  <2>4. BatchInv(r)
    BY DEF Parts
  <2> HIDE DEF some
  <2>5. QED
    BY <1>0, <2>1, <2>2, <2>3, <2>4, BatchMoves DEF some
<1>6. TaskInv(r)'
  BY <1>1 DEF Parts, TaskInv
<1>7. OrderInv(r)'
  BY <1>0, <1>1, OrderFrame DEF Parts, InTask
<1>8. InTurn(r)'
  <2>1. \A c \in Messages :
           \/ at'[r][c] = at[r][c]
           \/ /\ at[r][c] \notin {"queued", "lost"}
              /\ at[r][c] \in Reported => at'[r][c] \in Reported
    BY <1>1 DEF Reported
  <2>2. QED
    BY <1>0, <2>1, TurnFrame DEF Parts
<1>9. PollerInv(r)'
  <2>1. \A c \in Buffered(r) : at'[r][c] = "held"
    BY <1>0, <1>1, <1>2, BatchType DEF Parts, PollerInv
  <2>2. \A c \in Messages : at'[r][c] \in {"held", "running", "handled"} =>
          at[r][c] \in {"held", "running", "handled"}
    BY <1>1
  <2>3. QED
    BY <1>3, <2>1, <2>2 DEF Parts, PollerInv, Current
<1>10. QED
  BY <1>4, <1>5, <1>6, <1>7, <1>8, <1>9 DEF Parts

\* A task sends one Response, or dies of the attempt.
LEMMA RespondParts ==
  ASSUME ShapeOK, NEW r \in Receivers, Parts(r), NEW i \in DOMAIN batches[r],
         kind[r] # "synchronized", Respond(r, batches[r][i]), UNCHANGED accepted
  PROVE  Parts(r)' /\ Live(r)' = Live(r)
<1>0. PollShapeOK /\ MailTypeOK /\ AcceptedOK
  BY ShapeParts DEF ShapeOK
<1>1. UNCHANGED <<queue, kind, poller, buffer, batches>>
  BY DEF Respond, pollVars
<1>2. \A c \in Messages : at'[r][c] = at[r][c] \/
        (at[r][c] = "handled" /\ at'[r][c] \in {"answered", "lost"})
  <2>1. PICK b \in Seq(Messages) : b = batches[r][i]
    BY <1>0, BatchType
  <2>2. PICK j \in Unreported(r, b) :
          IF srx[r] THEN Move(r, b[j], "answered")
                    ELSE MoveAll(r, {b[k] : k \in Unreported(r, b)}, "lost")
    BY <2>1 DEF Respond
  <2>3. \A k \in Unreported(r, b) : b[k] \in Messages /\ at[r][b[k]] = "handled"
    BY <2>1 DEF Unreported
  <2>4. CASE srx[r]
    <3>1. PICK m \in Messages : m = b[j] /\ at[r][m] = "handled"
      BY <2>3
    <3>2. \A c \in Messages : at'[r][c] = IF c = m THEN "answered" ELSE at[r][c]
      BY <1>0, <2>2, <2>4, <3>1, MoveAt DEF Place
    <3>3. QED
      BY <3>1, <3>2
  <2>5. CASE ~srx[r]
    <3> DEFINE some == {b[k] : k \in Unreported(r, b)}
    <3>1. \A c \in some : at[r][c] = "handled"
      BY <2>3
    <3>2. MoveAll(r, some, "lost")
      BY <2>2, <2>5
    <3> HIDE DEF some
    <3>3. \A c \in Messages : at'[r][c] = IF c \in some THEN "lost" ELSE at[r][c]
      BY <1>0, <3>2, MoveAllAt DEF Place
    <3>4. QED
      BY <3>1, <3>3
  <2>6. QED
    BY <2>4, <2>5
<1>3. Calm(r)
  <2>1. \A j \in DOMAIN batches[r] : Members(batches[r][j]) \subseteq Messages
    BY <1>0, BatchType
  <2>2. QED
    BY <1>2, <2>1 DEF Calm, CalmAt, InTask
<1>4. Buffered(r)' = Buffered(r)
  BY <1>1 DEF Buffered
<1>5. BatchInv(r)' /\ Live(r)' = Live(r)
  BY <1>0, <1>1, <1>3, <1>4, BatchSteady DEF Parts
<1>6. TaskInv(r)'
  BY <1>1, <1>2, TaskFrame DEF Parts
<1>7. OrderInv(r)'
  BY <1>0, <1>1, <1>2, OrderFrame DEF Parts, InTask
<1>8. InTurn(r)'
  BY <1>1, TurnFree
<1>9. PollerInv(r)'
  <2>1. \A c \in Buffered(r) : at'[r][c] = "held"
    BY <1>0, <1>2, BatchType DEF Parts, PollerInv
  <2>2. QED
    BY <1>1, <1>4, <2>1 DEF Parts, PollerInv
<1>10. QED
  BY <1>5, <1>6, <1>7, <1>8, <1>9 DEF Parts

LEMMA MixedTaskParts ==
  ASSUME ShapeOK, NEW r \in Receivers, Parts(r), SemaphoreInv(r), NEW i \in DOMAIN batches[r],
         \/ HandlerStarts(r, batches[r][i]) \/ HandlerReturns(r, batches[r][i])
         \/ kind[r] # "synchronized" /\ Respond(r, batches[r][i])
         \/ kind[r] # "synchronized" /\ HandlerPanics(r, batches[r][i]),
         UNCHANGED accepted
  PROVE  Parts(r)' /\ SemaphoreInv(r)'
<1>0. PollShapeOK
  BY DEF ShapeOK
<1>1. CASE HandlerStarts(r, batches[r][i])
  <2>1. /\ \A c \in Members(batches[r][i]) : at[r][c] = "held"
        /\ MoveAll(r, Members(batches[r][i]), "running")
        /\ UNCHANGED <<queue, kind, poller, sem, buffer, batches>>
    BY <1>1 DEF HandlerStarts, pollVars
  <2>2. Parts(r)' /\ Live(r)' = Live(r)
    BY <2>1, TaskMoves
  <2>3. SemaphoreInv(r)'
    BY <2>1, <2>2, SemaphoreSame
  <2>4. QED
    BY <2>2, <2>3
<1>2. CASE HandlerReturns(r, batches[r][i])
  <2>1. /\ \A c \in Members(batches[r][i]) : at[r][c] = "running"
        /\ MoveAll(r, Members(batches[r][i]), "handled") /\ FreePermit(r)
        /\ UNCHANGED <<queue, kind, poller, buffer, batches>>
    BY <1>2 DEF HandlerReturns
  <2>2. Parts(r)' /\ i \in Live(r) /\ Live(r)' = Live(r) \ {i}
    BY <2>1, TaskMoves
  <2>3. SemaphoreInv(r)'
    BY <1>0, <2>1, <2>2, SemaphoreFrees
  <2>4. QED
    BY <2>2, <2>3
<1>3. CASE kind[r] # "synchronized" /\ HandlerPanics(r, batches[r][i])
  <2>1. /\ \A c \in Members(batches[r][i]) : at[r][c] = "running"
        /\ MoveAll(r, Members(batches[r][i]), "lost") /\ FreePermit(r)
        /\ UNCHANGED <<queue, kind, poller, buffer, batches>>
    BY <1>3 DEF HandlerPanics
  <2>2. Parts(r)' /\ i \in Live(r) /\ Live(r)' = Live(r) \ {i}
    BY <1>3, <2>1, TaskMoves
  <2>3. SemaphoreInv(r)'
    BY <1>0, <2>1, <2>2, SemaphoreFrees
  <2>4. QED
    BY <2>2, <2>3
<1>4. CASE kind[r] # "synchronized" /\ Respond(r, batches[r][i])
  <2>1. UNCHANGED <<kind, sem, poller>>
    BY <1>4 DEF Respond, pollVars
  <2>2. Parts(r)' /\ Live(r)' = Live(r)
    BY <1>4, RespondParts
  <2>3. SemaphoreInv(r)'
    BY <2>1, <2>2, SemaphoreSame
  <2>4. QED
    BY <2>2, <2>3
<1>5. QED
  BY <1>1, <1>2, <1>3, <1>4

---------------------------------------------------------------------------
(* The mutex of an object, and the receivers a step does not touch.        *)

\* A step at r leaves every other receiver as it is.
Elsewhere(r) ==
  \A s \in Receivers \ {r} :
    /\ at'[s] = at[s] /\ queue'[s] = queue[s] /\ poller'[s] = poller[s]
    /\ sem'[s] = sem[s] /\ buffer'[s] = buffer[s] /\ batches'[s] = batches[s]

\* At r neither a handler nor, behind a mutex, a sync handler starts.
NothingStarts(r) ==
  /\ poller'[r] = "syncing" => poller[r] = "syncing" \/ kind[r] \notin SerialKinds
  /\ \A c \in Messages : at'[r][c] = "running" => at[r][c] = "running"
  /\ \A i \in DOMAIN batches[r] :
       i \in DOMAIN batches'[r] /\ batches'[r][i] = batches[r][i]

LEMMA PanicsQuiet ==
  ASSUME ShapeOK, NEW r \in Receivers, NEW some, PollerPanics(r, some), UNCHANGED <<sem, batches>>
  PROVE  Elsewhere(r) /\ NothingStarts(r)
<1>1. /\ \A s \in Receivers \ {r} : at'[s] = at[s]
      /\ \A c \in Messages :
           at'[r][c] = IF c \in some \cup Waiting(r) \cup Buffered(r) THEN "lost" ELSE at[r][c]
  BY ShapeParts, MoveAllAt DEF PollerPanics, Place
<1>2. Elsewhere(r)
  BY <1>1 DEF PollerPanics, Elsewhere, ShapeOK, CommonTypeOK, MailTypeOK, PollShapeOK
<1>3. NothingStarts(r)
  BY <1>1 DEF PollerPanics, NothingStarts, ShapeOK, PollShapeOK
<1>4. QED
  BY <1>2, <1>3

LEMMA EmitsQuiet ==
  ASSUME ShapeOK, NEW r \in Receivers, NEW x, NEW rest, PollerEmits(r, x, rest),
         \A s \in Receivers \ {r} : sem'[s] = sem[s], UNCHANGED batches
  PROVE  Elsewhere(r) /\ NothingStarts(r)
<1>1. CASE srx[r]
  BY <1>1 DEF PollerEmits, Elsewhere, NothingStarts, ShapeOK, CommonTypeOK, MailTypeOK, PollShapeOK
<1>2. CASE ~srx[r]
  <2>1. /\ \A s \in Receivers \ {r} : at'[s] = at[s]
        /\ \A c \in Messages :
             at'[r][c] = IF c \in {} \cup Waiting(r) \cup Buffered(r) THEN "lost" ELSE at[r][c]
    BY <1>2, ShapeParts, MoveAllAt DEF PollerEmits, PollerPanics, Place
  <2>2. Elsewhere(r)
    BY <1>2, <2>1 DEF PollerEmits, PollerPanics, Elsewhere, ShapeOK, CommonTypeOK,
       MailTypeOK, PollShapeOK
  <2>3. NothingStarts(r)
    BY <1>2, <2>1 DEF PollerEmits, PollerPanics, NothingStarts, ShapeOK, PollShapeOK
  <2>4. QED
    BY <2>2, <2>3
<1>3. QED
  BY <1>1, <1>2

\* A poller that goes from one place to another, and receives what it may.
LEMMA WaitsQuiet ==
  ASSUME ShapeOK, NEW r \in Receivers, NEW from, NEW to, PollerGoes(r, from, to),
         to # "syncing", UNCHANGED <<at, sem, buffer, batches>>, Receive(r)
  PROVE  Elsewhere(r) /\ NothingStarts(r)
BY DEF PollerGoes, Receive, Elsewhere, NothingStarts, ShapeOK, CommonTypeOK, MailTypeOK, PollShapeOK

LEMMA CommonPollQuiet ==
  ASSUME ShapeOK, NEW r \in Receivers, PollInitAction(r) \/ PollClose(r) \/ EndPoller(r)
  PROVE  Elsewhere(r) /\ NothingStarts(r)
<1>1. CASE PollInitAction(r)
  BY <1>1, EmitsQuiet DEF PollInitAction
<1>2. CASE PollClose(r)
  BY <1>2 DEF PollClose, pollVars, Receive, Elsewhere, NothingStarts, ShapeOK, CommonTypeOK,
     MailTypeOK, PollShapeOK
<1>3. CASE EndPoller(r)
  <2>1. /\ \A s \in Receivers \ {r} : at'[s] = at[s]
        /\ \A c \in Messages : at'[r][c] = IF c \in Buffered(r) THEN "lost" ELSE at[r][c]
    BY <1>3, ShapeParts, MoveAllAt DEF EndPoller, Place
  <2>2. QED
    BY <1>3, <2>1 DEF EndPoller, PollerGoes, Elsewhere, NothingStarts, ShapeOK, PollShapeOK
<1>4. QED
  BY <1>1, <1>2, <1>3

\* A message is received and held.
LEMMA HoldsQuiet ==
  ASSUME ShapeOK, NEW r \in Receivers, NEW from, NEW to, PollerGoes(r, from, to),
         to # "syncing", Receive(r), Incoming(r) \in Messages, Move(r, Incoming(r), "held"),
         UNCHANGED sem,
         \A s \in Receivers \ {r} : buffer'[s] = buffer[s] /\ batches'[s] = batches[s],
         \A i \in DOMAIN batches[r] :
           i \in DOMAIN batches'[r] /\ batches'[r][i] = batches[r][i]
  PROVE  Elsewhere(r) /\ NothingStarts(r)
<1>1. /\ \A s \in Receivers \ {r} : at'[s] = at[s]
      /\ \A c \in Messages : at'[r][c] = IF c = Incoming(r) THEN "held" ELSE at[r][c]
  BY ShapeParts, MoveAt DEF Place
<1>2. Elsewhere(r)
  BY <1>1 DEF PollerGoes, Receive, Elsewhere, ShapeOK, CommonTypeOK, MailTypeOK, PollShapeOK
<1>3. NothingStarts(r)
  BY <1>1 DEF PollerGoes, NothingStarts, ShapeOK, PollShapeOK
<1>4. QED
  BY <1>2, <1>3

LEMMA SynchronizedQuiet ==
  ASSUME ShapeOK, NEW r \in Receivers, PollerInv(r), SynchronizedStep(r)
  PROVE  Elsewhere(r) /\ (NothingStarts(r) \/ SyncLocked(r))
<1>0. PollShapeOK
  BY DEF ShapeOK
<1>1. CASE TakeMessage(r)
  <2>1. /\ <<Incoming(r)>> \in Seq(Messages)
        /\ batches' = [batches EXCEPT ![r] = Append(@, <<Incoming(r)>>)]
    BY <1>1, OneFacts DEF TakeMessage
  <2>2. /\ \A i \in DOMAIN batches[r] :
             i \in DOMAIN batches'[r] /\ batches'[r][i] = batches[r][i]
        /\ \A s \in Receivers \ {r} : batches'[s] = batches[s]
    BY <1>0, <2>1, Longer, BatchesType
  <2>3. QED
    BY <1>1, <2>2, HoldsQuiet DEF TakeMessage
<1>2. CASE TaskEnds(r)
  <2>1. CASE srx[r]
    <3>1. batches[r] # <<>> /\ Len(Current(r)) = 1
      BY <1>0, <1>2, BatchType DEF TaskEnds, PollerInv, Current
    <3>2. PICK m \in Messages : m = Current(r)[1]
      BY <1>0, <3>1, BatchType, MembersFacts
    <3>3. /\ \A s \in Receivers \ {r} : at'[s] = at[s]
          /\ \A c \in Messages : at'[r][c] = IF c = m THEN "answered" ELSE at[r][c]
      BY <1>2, <2>1, <3>2, ShapeParts, MoveAt DEF TaskEnds, Place
    <3>4. QED
      BY <1>2, <2>1, <3>3 DEF TaskEnds, Elsewhere, NothingStarts, ShapeOK, PollShapeOK
  <2>2. CASE ~srx[r]
    BY <1>2, <2>2, PanicsQuiet DEF TaskEnds
  <2>3. QED
    BY <2>1, <2>2
<1>3. CASE FlushAtOnce(r)
  BY <1>3, EmitsQuiet DEF FlushAtOnce
<1>4. CASE AwaitMutex(r)
  BY <1>4, WaitsQuiet DEF AwaitMutex
<1>5. CASE SyncLocked(r)
  BY <1>0, <1>5 DEF SyncLocked, mailVars, PollerGoes, Elsewhere, PollShapeOK
<1>6. CASE SyncReturns(r)
  BY <1>6, EmitsQuiet DEF SyncReturns
<1>7. QED
  BY <1>1, <1>2, <1>3, <1>4, <1>5, <1>6 DEF SynchronizedStep

LEMMA UnorderedBatchedQuiet ==
  ASSUME ShapeOK, NEW r \in Receivers, kind[r] = "unordered_batched", UnorderedBatchedStep(r)
  PROVE  Elsewhere(r) /\ NothingStarts(r)
<1>0. PollShapeOK
  BY DEF ShapeOK
<1>1. CASE BufferMessage(r)
  <2>1. /\ \A s \in Receivers \ {r} : buffer'[s] = buffer[s] /\ batches'[s] = batches[s]
        /\ \A i \in DOMAIN batches[r] :
             i \in DOMAIN batches'[r] /\ batches'[r][i] = batches[r][i]
    BY <1>0, <1>1 DEF BufferMessage, Buffer, PollShapeOK
  <2>2. QED
    BY <1>1, <2>1, HoldsQuiet DEF BufferMessage, Buffer
<1>2. ASSUME NEW from, NEW to, to # "syncing", SpawnPermitted(r, from, to)
      PROVE  Elsewhere(r) /\ NothingStarts(r)
  <2>1. /\ buffer[r] \in Seq(Messages)
        /\ batches' = [batches EXCEPT ![r] = Append(@, buffer[r])]
    BY <1>0, <1>2, BatchType DEF SpawnPermitted, SpawnBatch
  <2>2. /\ \A i \in DOMAIN batches[r] :
             i \in DOMAIN batches'[r] /\ batches'[r][i] = batches[r][i]
        /\ \A s \in Receivers \ {r} : batches'[s] = batches[s]
    BY <1>0, <2>1, Longer, BatchesType
  <2>3. QED
    BY <1>0, <1>2, <2>2
       DEF SpawnPermitted, SpawnBatch, PollerGoes, mailVars, Elsewhere, NothingStarts, PollShapeOK
<1>3. CASE Drain(r)
  BY <1>3, WaitsQuiet DEF Drain
<1>4. CASE FlushAll(r)
  BY <1>4, EmitsQuiet DEF FlushAll
<1>5. CASE AwaitPermits(r)
  BY <1>5, WaitsQuiet DEF AwaitPermits
<1>6. CASE SyncPermitted(r)
  BY <1>0, <1>6
     DEF SyncPermitted, mailVars, PollerGoes, Elsewhere, NothingStarts, PollShapeOK, SerialKinds
<1>7. CASE SyncReleases(r)
  <2>1. \A s \in Receivers \ {r} : sem'[s] = sem[s]
    BY <1>0, <1>7 DEF SyncReleases, PollShapeOK
  <2>2. QED
    BY <1>7, <2>1, EmitsQuiet DEF SyncReleases
<1>8. QED
  BY <1>1, <1>2, <1>3, <1>4, <1>5, <1>6, <1>7 DEF UnorderedBatchedStep

LEMMA SynchronizedBatchedQuiet ==
  ASSUME ShapeOK, NEW r \in Receivers, SynchronizedBatchedStep(r)
  PROVE  Elsewhere(r) /\ (NothingStarts(r) \/ SyncWins(r))
<1>0. PollShapeOK
  BY DEF ShapeOK
<1>1. CASE CollectMessage(r)
  <2>1. /\ \A s \in Receivers \ {r} : buffer'[s] = buffer[s] /\ batches'[s] = batches[s]
        /\ \A i \in DOMAIN batches[r] :
             i \in DOMAIN batches'[r] /\ batches'[r][i] = batches[r][i]
    <3>1. CASE Len(buffer[r]) + 1 >= BatchSize[r]
      <4>1. PICK b \in Seq(Messages) : b = Append(buffer[r], Incoming(r))
        BY <1>0, <1>1, BatchType, AppendFacts DEF CollectMessage
      <4>2. batches' = [batches EXCEPT ![r] = Append(@, b)] /\ buffer' = [buffer EXCEPT ![r] = <<>>]
        BY <1>1, <3>1, <4>1 DEF CollectMessage, SpawnBatch
      <4>3. QED
        BY <1>0, <4>2, Longer, BatchesType DEF PollShapeOK
    <3>2. CASE ~(Len(buffer[r]) + 1 >= BatchSize[r])
      BY <1>0, <1>1, <3>2 DEF CollectMessage, PollShapeOK
    <3>3. QED
      BY <3>1, <3>2
  <2>2. QED
    BY <1>1, <2>1, HoldsQuiet DEF CollectMessage
<1>2. CASE HandOver(r)
  <2>1. /\ \A s \in Receivers \ {r} : buffer'[s] = buffer[s] /\ batches'[s] = batches[s]
        /\ \A i \in DOMAIN batches[r] :
             i \in DOMAIN batches'[r] /\ batches'[r][i] = batches[r][i]
    <3>1. CASE buffer[r] = <<>>
      BY <1>0, <1>2, <3>1 DEF HandOver, PollShapeOK
    <3>2. CASE buffer[r] # <<>>
      <4>1. /\ buffer[r] \in Seq(Messages)
            /\ batches' = [batches EXCEPT ![r] = Append(@, buffer[r])]
            /\ buffer' = [buffer EXCEPT ![r] = <<>>]
        BY <1>0, <1>2, <3>2, BatchType DEF HandOver
      <4>2. QED
        BY <1>0, <4>1, Longer, BatchesType DEF PollShapeOK
    <3>3. QED
      BY <3>1, <3>2
  <2>2. /\ \A s \in Receivers \ {r} :
             at'[s] = at[s] /\ queue'[s] = queue[s] /\ poller'[s] = poller[s]
        /\ poller'[r] # "syncing"
        /\ \A c \in Messages : at'[r][c] = "running" => at[r][c] = "running"
    <3>1. CASE srx[r]
      BY <1>2, <3>1 DEF HandOver, ShapeOK, CommonTypeOK, MailTypeOK, PollShapeOK
    <3>2. CASE ~srx[r]
      <4>1. /\ \A s \in Receivers \ {r} : at'[s] = at[s]
            /\ \A c \in Messages : at'[r][c] = IF c \in Waiting(r) THEN "lost" ELSE at[r][c]
        BY <1>2, <3>2, ShapeParts, MoveAllAt DEF HandOver, Place
      <4>2. QED
        BY <1>2, <3>2, <4>1 DEF HandOver, ShapeOK, CommonTypeOK, MailTypeOK, PollShapeOK
    <3>3. QED
      BY <3>1, <3>2
  <2>3. UNCHANGED sem
    BY <1>2 DEF HandOver
  <2>4. QED
    BY <2>1, <2>2, <2>3 DEF Elsewhere, NothingStarts
<1>3. CASE Compete(r)
  BY <1>3, WaitsQuiet DEF Compete
<1>4. CASE SyncWins(r)
  BY <1>0, <1>4 DEF SyncWins, mailVars, PollerGoes, Elsewhere, PollShapeOK
<1>5. CASE SyncUnlocks(r)
  BY <1>5, EmitsQuiet DEF SyncUnlocks
<1>6. QED
  BY <1>1, <1>2, <1>3, <1>4, <1>5 DEF SynchronizedBatchedStep

LEMMA TaskQuiet ==
  ASSUME ShapeOK, NEW r \in Receivers, NEW b \in Seq(Messages),
         HandlerReturns(r, b) \/ HandlerPanics(r, b) \/ Respond(r, b)
  PROVE  Elsewhere(r) /\ NothingStarts(r)
<1>0. PollShapeOK
  BY DEF ShapeOK
<1>1. CASE HandlerReturns(r, b)
  <2>1. /\ \A s \in Receivers \ {r} : at'[s] = at[s]
        /\ \A c \in Messages : at'[r][c] = IF c \in Members(b) THEN "handled" ELSE at[r][c]
    BY <1>1, ShapeParts, MoveAllAt DEF HandlerReturns, Place
  <2>2. QED
    BY <1>0, <1>1, <2>1 DEF HandlerReturns, FreePermit, Elsewhere, NothingStarts, PollShapeOK
<1>2. CASE HandlerPanics(r, b)
  <2>1. /\ \A s \in Receivers \ {r} : at'[s] = at[s]
        /\ \A c \in Messages : at'[r][c] = IF c \in Members(b) THEN "lost" ELSE at[r][c]
    BY <1>2, ShapeParts, MoveAllAt DEF HandlerPanics, Place
  <2>2. QED
    BY <1>0, <1>2, <2>1 DEF HandlerPanics, FreePermit, Elsewhere, NothingStarts, PollShapeOK
<1>3. CASE Respond(r, b)
  <2>1. PICK i \in DOMAIN b :
          /\ IF srx[r] THEN Move(r, b[i], "answered")
                       ELSE MoveAll(r, {b[j] : j \in Unreported(r, b)}, "lost")
          /\ UNCHANGED <<queue, rx, srx, pollVars>>
    BY <1>3 DEF Respond, Unreported
  <2>2. PICK m \in Messages : m = b[i]
    BY <2>1
  <2>3. /\ \A s \in Receivers \ {r} : at'[s] = at[s]
        /\ \A c \in Messages : at'[r][c] = "running" => at[r][c] = "running"
    <3>1. CASE srx[r]
      <4>1. /\ \A s \in Receivers \ {r} : at'[s] = at[s]
            /\ \A c \in Messages : at'[r][c] = IF c = m THEN "answered" ELSE at[r][c]
        BY <2>1, <2>2, <3>1, ShapeParts, MoveAt DEF Place
      <4>2. QED
        BY <4>1
    <3>2. CASE ~srx[r]
      <4> DEFINE some == {b[j] : j \in Unreported(r, b)}
      <4>1. MoveAll(r, some, "lost")
        BY <2>1, <3>2
      <4> HIDE DEF some
      <4>2. /\ \A s \in Receivers \ {r} : at'[s] = at[s]
            /\ \A c \in Messages : at'[r][c] = IF c \in some THEN "lost" ELSE at[r][c]
        BY <4>1, ShapeParts, MoveAllAt DEF Place
      <4>3. QED
        BY <4>2
    <3>3. QED
      BY <3>1, <3>2
  <2>4. QED
    BY <2>1, <2>3 DEF pollVars, Elsewhere, NothingStarts
<1>4. QED
  BY <1>1, <1>2, <1>3

\* A step that starts nothing leaves the mutexes as they are.
LEMMA MutexFrame ==
  ASSUME MutexInv, UNCHANGED kind, \A r \in Receivers : NothingStarts(r)
  PROVE  MutexInv'
<1>1. ASSUME NEW s \in Receivers
      PROVE  /\ poller'[s] = "syncing" => poller[s] = "syncing" \/ kind[s] \notin SerialKinds
             /\ \A c \in Messages : at'[s][c] = "running" => at[s][c] = "running"
             /\ \A i \in DOMAIN batches[s] :
                  i \in DOMAIN batches'[s] /\ batches'[s][i] = batches[s][i]
  BY DEF NothingStarts
<1>2. SUFFICES ASSUME NEW s \in Receivers, NEW t \in Receivers,
                      Owner[s] = Owner[t], kind[s] \in SerialKinds
               PROVE  /\ poller'[s] = "syncing" => ~Handling(t)'
                      /\ \A c, d \in Messages : at'[s][c] = "running" /\ at'[t][d] = "running" =>
                           /\ s = t
                           /\ \E i \in DOMAIN batches'[s] :
                                c \in Members(batches'[s][i]) /\ d \in Members(batches'[s][i])
  BY DEF MutexInv
<1>3. poller'[s] = "syncing" => ~Handling(t)'
  BY <1>1, <1>2 DEF MutexInv, Handling
<1>4. ASSUME NEW c \in Messages, NEW d \in Messages,
             at'[s][c] = "running", at'[t][d] = "running"
      PROVE  /\ s = t
             /\ \E i \in DOMAIN batches'[s] :
                  c \in Members(batches'[s][i]) /\ d \in Members(batches'[s][i])
  <2>1. at[s][c] = "running" /\ at[t][d] = "running"
    BY <1>1, <1>4
  <2>2. s = t
    BY <1>2, <2>1 DEF MutexInv
  <2>3. PICK i \in DOMAIN batches[s] :
          c \in Members(batches[s][i]) /\ d \in Members(batches[s][i])
    BY <1>2, <2>1 DEF MutexInv
  <2>4. i \in DOMAIN batches'[s] /\ batches'[s][i] = batches[s][i]
    BY <1>1
  <2>5. QED
    BY <2>2, <2>3, <2>4
<1>5. QED
  BY <1>3, <1>4

LEMMA MutexKept ==
  ASSUME MutexInv, NEW r \in Receivers, UNCHANGED kind, Elsewhere(r), NothingStarts(r)
  PROVE  MutexInv'
<1>1. \A s \in Receivers : NothingStarts(s)
  BY DEF Elsewhere, NothingStarts
<1>2. QED
  BY <1>1, MutexFrame

\* A sync handler starts, with the mutex.
LEMMA MutexSync ==
  ASSUME MutexInv, KindInv, NEW r \in Receivers, UNCHANGED <<kind, at, batches>>, Elsewhere(r),
         kind[r] \in SerialKinds, MutexFree(r)
  PROVE  MutexInv'
<1>1. SUFFICES ASSUME NEW s \in Receivers, NEW t \in Receivers,
                      Owner[s] = Owner[t], kind[s] \in SerialKinds, poller'[s] = "syncing"
               PROVE  ~Handling(t)
  BY DEF MutexInv, Handling
<1>2. CASE s = r
  BY <1>1, <1>2 DEF MutexFree
<1>3. CASE s # r
  BY <1>1, <1>3 DEF MutexInv, Elsewhere
<1>4. QED
  BY <1>2, <1>3

\* The handler of a batch starts, with the mutex if there is one.
LEMMA MutexStarts ==
  ASSUME ShapeOK, MutexInv, KindInv, NEW r \in Receivers, NEW i \in DOMAIN batches[r],
         HandlerStarts(r, batches[r][i])
  PROVE  Elsewhere(r) /\ MutexInv'
<1> DEFINE some == Members(batches[r][i])
<1>0. PollShapeOK
  BY DEF ShapeOK
<1>1. /\ UNCHANGED <<queue, kind, poller, sem, buffer, batches>>
      /\ kind[r] \in SerialKinds => MutexFree(r)
      /\ MoveAll(r, some, "running")
  BY DEF HandlerStarts, pollVars
<1> HIDE DEF some
<1>2. /\ \A s \in Receivers \ {r} : at'[s] = at[s]
      /\ \A c \in Messages : at'[r][c] = IF c \in some THEN "running" ELSE at[r][c]
  BY <1>1, ShapeParts, MoveAllAt DEF Place
<1>3. Elsewhere(r)
  BY <1>1, <1>2 DEF Elsewhere
<1>4. ASSUME NEW s \in Receivers, NEW t \in Receivers,
             Owner[s] = Owner[t], kind[s] \in SerialKinds
      PROVE  /\ poller[s] = "syncing" => ~Handling(t)'
             /\ \A c, d \in Messages : at'[s][c] = "running" /\ at'[t][d] = "running" =>
                  /\ s = t
                  /\ \E j \in DOMAIN batches[s] :
                       c \in Members(batches[s][j]) /\ d \in Members(batches[s][j])
  <2>1. CASE Owner[s] # Owner[r]
    <3>1. s # r /\ t # r
      BY <1>4, <2>1
    <3>2. at'[s] = at[s] /\ at'[t] = at[t]
      BY <1>2, <3>1
    <3>3. QED
      BY <1>4, <3>2 DEF MutexInv, Handling
  <2>2. CASE Owner[s] = Owner[r]
    <3>1. MutexFree(r)
      BY <1>1, <1>4, <2>2 DEF KindInv
    <3>2. /\ poller[s] # "syncing"
          /\ \A c \in Messages : at[s][c] # "running" /\ at[t][c] # "running"
      BY <1>4, <2>2, <3>1 DEF MutexFree, Handling
    <3>3. ASSUME NEW c \in Messages, NEW d \in Messages,
                 at'[s][c] = "running", at'[t][d] = "running"
          PROVE  s = r /\ t = r /\ c \in some /\ d \in some
      BY <1>2, <3>2, <3>3
    <3>4. QED
      BY <3>2, <3>3 DEF some
  <2>3. QED
    BY <2>1, <2>2
<1>5. MutexInv'
  BY <1>1, <1>4 DEF MutexInv
<1>6. QED
  BY <1>3, <1>5

---------------------------------------------------------------------------
(* The steps of the calls and of the event loops. *)

LEMMA OutsideParts ==
  ASSUME ShapeOK, NEW r \in Receivers, Parts(r), SemaphoreInv(r), Outside, UNCHANGED pollVars,
         OrderInv(r)', InTurn(r)'
  PROVE  Parts(r)' /\ SemaphoreInv(r)' /\ NothingStarts(r)
<1>0. PollShapeOK
  BY DEF ShapeOK
<1>1. UNCHANGED <<kind, poller, sem, buffer, batches>> /\ Buffered(r)' = Buffered(r)
  BY DEF pollVars, Buffered
<1>2. \A c \in Messages :
        \/ at'[r][c] = at[r][c]
        \/ /\ at[r][c] \notin {"held", "running", "handled"}
           /\ at'[r][c] \notin {"held", "running", "handled"}
           /\ at[r][c] \in InTask => at'[r][c] \in InTask
  BY DEF Outside, InTask
<1>3. Calm(r)
  <2>1. \A i \in DOMAIN batches[r] : Members(batches[r][i]) \subseteq Messages
    BY <1>0, BatchType
  <2>2. QED
    BY <1>2, <2>1 DEF Calm, CalmAt
<1>4. BatchInv(r)' /\ Live(r)' = Live(r)
  BY <1>0, <1>1, <1>3, BatchSteady DEF Parts
<1>5. TaskInv(r)'
  BY <1>1, <1>2, TaskFrame DEF Parts
<1>6. PollerInv(r)'
  <2>1. \A c \in Buffered(r) : at'[r][c] = "held"
    BY <1>0, <1>2, BatchType DEF Parts, PollerInv
  <2>2. \A c \in Messages : at'[r][c] \in {"held", "running", "handled"} =>
          at[r][c] \in {"held", "running", "handled"}
    BY <1>2
  <2>3. QED
    BY <1>1, <2>1, <2>2 DEF Parts, PollerInv, Current
<1>7. SemaphoreInv(r)'
  BY <1>1, <1>4, SemaphoreSame
<1>8. NothingStarts(r)
  BY <1>1, <1>2 DEF NothingStarts
<1>9. QED
  BY <1>4, <1>5, <1>6, <1>7, <1>8 DEF Parts

\* The queue takes no message.
LEMMA OutsideOrder ==
  ASSUME ShapeOK, NEW r \in Receivers, Parts(r), Outside, UNCHANGED kind,
         queue'[r] = queue[r], accepted'[r] = accepted[r],
         \A c \in Messages : at'[r][c] = "queued" => at[r][c] = "queued"
  PROVE  OrderInv(r)' /\ InTurn(r)'
<1>0. AcceptedOK
  BY DEF ShapeOK
<1>1. OrderInv(r)'
  <2>1. \A c \in Messages : at'[r][c] = at[r][c] \/
           (/\ at[r][c] # "queued" /\ at'[r][c] # "queued"
            /\ at[r][c] \in InTask => at'[r][c] \in InTask)
    BY DEF Outside, InTask
  <2>2. QED
    BY <1>0, <2>1, OrderFrame DEF Parts
<1>2. InTurn(r)'
  <2>1. \A c \in Messages :
           \/ at'[r][c] = at[r][c]
           \/ /\ at[r][c] \notin {"queued", "lost"}
              /\ at[r][c] \in Reported => at'[r][c] \in Reported
    BY DEF Outside, Reported
  <2>2. QED
    BY <1>0, <2>1, TurnFrame DEF Parts
<1>3. QED
  BY <1>1, <1>2

\* Everything but the types, with the parts of each receiver as above.
Rest ==
  /\ BusInv
  /\ KindInv
  /\ MutexInv
  /\ \A r \in Receivers : Parts(r) /\ SemaphoreInv(r)

LEMMA OutsideRest ==
  ASSUME ShapeOK, Rest, BusInv', Outside, UNCHANGED pollVars,
         \A r \in Receivers : OrderInv(r)' /\ InTurn(r)'
  PROVE  Rest'
<1>1. \A r \in Receivers : Parts(r)' /\ SemaphoreInv(r)' /\ NothingStarts(r)
  BY OutsideParts DEF Rest
<1>2. MutexInv'
  BY <1>1, MutexFrame DEF Rest, pollVars
<1>3. KindInv'
  BY DEF Rest, KindInv, pollVars
<1>4. QED
  BY <1>1, <1>2, <1>3 DEF Rest

\* Steps of the calls that leave the queues alone.
LEMMA QuietRest ==
  ASSUME ShapeOK, Rest, BusInv', Outside, UNCHANGED <<pollVars, queue, accepted>>,
         \A r \in Receivers, c \in Messages : at'[r][c] = "queued" => at[r][c] = "queued"
  PROVE  Rest'
<1>1. \A r \in Receivers : OrderInv(r)' /\ InTurn(r)'
  BY OutsideOrder DEF Rest, pollVars
<1>2. QED
  BY <1>1, OutsideRest

LEMMA SendRest ==
  ASSUME ShapeOK, Visiting, Rest, NEW c \in Messages, Send(c), Call(c)
  PROVE  Rest'
<1>0. CommonTypeOK /\ BusInv /\ AcceptedOK /\ UNCHANGED pollVars
  BY DEF ShapeOK, Rest, Call
<1>1. BusInv' /\ Outside
  BY <1>0, SendKeeps, MessageOutside DEF MessageStep
<1>2. PICK r \in Receivers : r = At(c)
  BY <1>0, AtReceiver DEF Calls
<1>3. at[r][c] = "permit" /\ pc[c] = "send"
  <2>1. Underway(c, pos[c]) /\ pc[c] = "send"
    BY <1>0 DEF BusInv, RouteInv, Visiting, Calls, Send, Step
  <2>2. QED
    BY <1>2, <2>1 DEF Underway, Copy, At
<1>4. CASE rx[r] = "open"
  <2>1. /\ queue' = [queue EXCEPT ![r] = Append(@, c)] /\ Move(r, c, "queued")
        /\ accepted' = [accepted EXCEPT ![r] = Append(@, c)]
    BY <1>2, <1>3, <1>4 DEF Send, SendMessage, Call
  <2>2. /\ queue'[r] = Append(queue[r], c) /\ accepted'[r] = Append(accepted[r], c)
        /\ \A s \in Receivers \ {r} :
             queue'[s] = queue[s] /\ accepted'[s] = accepted[s] /\ at'[s] = at[s]
        /\ at'[r][c] = "queued" /\ \A m \in Messages \ {c} : at'[r][m] = at[r][m]
    BY <1>0, <2>1 DEF CommonTypeOK, MailTypeOK, AcceptedOK, Move
  <2>3. OrderInv(r)' /\ InTurn(r)'
    <3>1. at[r][c] \notin InTask \cup {"queued"} /\ OrderInv(r) /\ InTurn(r) /\ UNCHANGED kind
      BY <1>0, <1>3 DEF InTask, Rest, Parts, pollVars
    <3>2. OrderInv(r)'
      BY <2>2, <3>1, OrderAccept
    <3>3. InTurn(r)'
      BY <1>0, <2>2, <3>1, TurnAccept
    <3>4. QED
      BY <3>2, <3>3
  <2>4. \A s \in Receivers \ {r} : OrderInv(s)' /\ InTurn(s)'
    BY <1>0, <1>1, <2>2, OutsideOrder DEF Rest, pollVars
  <2>5. QED
    BY <1>0, <1>1, <2>3, <2>4, OutsideRest
<1>5. CASE rx[r] # "open"
  <2>1. UNCHANGED <<queue, accepted>> /\ Move(r, c, "refused")
    BY <1>2, <1>3, <1>5 DEF Send, SendMessage, Call
  <2>2. \A s \in Receivers, m \in Messages : at'[s][m] = "queued" => at[s][m] = "queued"
    BY <1>0, <2>1 DEF CommonTypeOK, MailTypeOK, Move
  <2>3. QED
    BY <1>0, <1>1, <2>1, <2>2, QuietRest
<1>6. QED
  BY <1>4, <1>5

LEMMA MessageRest ==
  ASSUME ShapeOK, Visiting, Rest, NEW c \in Messages, UNCHANGED pollVars,
         \/ UNCHANGED accepted /\ (StartSend(c) \/ StartRequest(c) \/ Abandon(c))
         \/ Call(c) /\ MessageStep(c)
  PROVE  Rest'
<1>0. CommonTypeOK /\ BusInv /\ c \in Calls
  BY DEF ShapeOK, Rest, Calls
<1>1. BusInv' /\ Outside
  BY <1>0, StartKeeps, ReturnKeeps, MessageKeeps, MessageOutside
<1>2. CASE Call(c) /\ Send(c)
  BY <1>2, SendRest
<1>3. CASE ~Send(c)
  <2>1. UNCHANGED queue
    BY <1>3 DEF MessageStep, Reserve, PollReserve, TryReserve, DropPermit, Bump, Mark, Answered,
       StartSend, StartRequest, Abandon, mailVars
  <2>2. UNCHANGED accepted
    BY <1>3 DEF Call, MessageStep, Reserve, Reserving, PollReserve, TryReserve, DropPermit, Bump,
       Mark, Answered, Step
  <2>0. PICK r \in Receivers : r = At(c)
    BY <1>0, AtReceiver
  <2>3. UNCHANGED at \/ Move(r, c, "permit") \/ Move(r, c, "none")
    BY <1>3, <2>0 DEF MessageStep, Reserve, PollReserve, TryReserve, DropPermit, Bump, Mark, Answered,
       StartSend, StartRequest, Abandon, mailVars, TakeSlot, ForceSlot, DropSlot
  <2>4. \A s \in Receivers, m \in Messages : at'[s][m] = "queued" => at[s][m] = "queued"
    <3>1. ASSUME NEW p, p # "queued", Move(r, c, p)
          PROVE  \A s \in Receivers, m \in Messages : at'[s][m] = "queued" => at[s][m] = "queued"
      BY <1>0, <3>1 DEF Move, CommonTypeOK, MailTypeOK
    <3>2. QED
      BY <2>3, <3>1
  <2>5. QED
    BY <1>1, <2>1, <2>2, <2>4, QuietRest
<1>4. QED
  BY <1>2, <1>3 DEF Send, StartSend, StartRequest, Abandon, Step, MayStart

LEMMA ControlRest ==
  ASSUME ShapeOK, Visiting, Rest, NEW c \in Controls, UNCHANGED pollVars,
         \/ UNCHANGED accepted /\ (StartControl(c) \/ StartClose(c) \/ TimeOut(c))
         \/ Call(c) /\ ControlStep(c)
  PROVE  Rest'
<1>0. CommonTypeOK /\ BusInv /\ c \in Calls /\ UNCHANGED kind
  BY DEF ShapeOK, Rest, Calls, pollVars
<1>1. BusInv' /\ UNCHANGED at
  BY <1>0, ControlKeeps, ControlOutside
<1>2. Outside
  BY <1>1 DEF Outside
<1>3. UNCHANGED accepted
  BY DEF Call, ControlStep, Check, Register, Push, PushFails, PollFlushed, UnparkFlushed,
     CheckIdle, CheckReady, Awake, Step
<1>4. CASE Push(c)
  <2>1. PICK r \in Receivers : r = At(c)
    BY <1>0, AtReceiver
  <2>2. PICK a \in Actions : a = ActionOf(c)
    BY DEF ActionOf, Actions
  <2>3. queue' = [queue EXCEPT ![r] = Append(@, a)]
    BY <1>4, <2>1, <2>2 DEF Push, SendAction
  <2>4. queue'[r] = Append(queue[r], a) /\ \A s \in Receivers \ {r} : queue'[s] = queue[s]
    BY <1>0, <2>3 DEF CommonTypeOK, MailTypeOK
  <2>5. OrderInv(r)' /\ InTurn(r)'
    <3>1. OrderInv(r)'
      BY <1>1, <1>3, <2>4, OrderAction DEF Rest, Parts
    <3>2. InTurn(r)'
      BY <1>0, <1>1, <1>3 DEF Rest, Parts, InTurn
    <3>3. QED
      BY <3>1, <3>2
  <2>6. \A s \in Receivers \ {r} : OrderInv(s)' /\ InTurn(s)'
    BY <1>0, <1>1, <1>2, <1>3, <2>4, OutsideOrder DEF Rest
  <2>7. QED
    BY <1>1, <1>2, <2>5, <2>6, OutsideRest
<1>5. CASE ~Push(c)
  <2>1. UNCHANGED queue
    BY <1>5 DEF ControlStep, Check, Register, PushFails, PollFlushed, UnparkFlushed,
       CheckIdle, CheckReady, Awake, StartControl, StartClose, TimeOut, mailVars
  <2>2. QED
    BY <1>1, <1>2, <1>3, <2>1, QuietRest
<1>6. QED
  BY <1>4, <1>5

LEMMA LoopRest ==
  ASSUME ShapeOK, Visiting, Rest, NEW r \in Receivers, LoopStep(r),
         UNCHANGED <<pollVars, busVars, accepted>>
  PROVE  Rest'
<1>0. CommonTypeOK /\ BusInv
  BY DEF ShapeOK, Rest
<1>1. BusInv' /\ Outside
  BY <1>0, LoopKeeps, LoopOutside
<1>2. UNCHANGED queue
  BY DEF LoopStep, OnResponse, Deliver, DeliverPanics, NotifyIdle, NotifyResponse, OnFlushed,
     NotifyFlushed, OnReady, SetReady, OnSynchronized, EndLoop, TakeEvent, mailVars
<1>3. \A s \in Receivers, m \in Messages : at'[s][m] = "queued" => at[s][m] = "queued"
  <2>1. ASSUME NEW c \in Messages, NEW p, p # "queued", Move(r, c, p)
        PROVE  \A s \in Receivers, m \in Messages : at'[s][m] = "queued" => at[s][m] = "queued"
    BY <1>0, <2>1 DEF Move, CommonTypeOK, MailTypeOK
  <2>2. ASSUME NEW c \in Messages, DeliverPanics(r, c)
        PROVE  \A s \in Receivers, m \in Messages : at'[s][m] = "queued" => at[s][m] = "queued"
    BY <1>0, <2>2 DEF DeliverPanics, CommonTypeOK, MailTypeOK
  <2>3. CASE UNCHANGED at
    BY <2>3
  <2>4. \/ UNCHANGED at
        \/ \E c \in Messages : \/ Move(r, c, "answering")
                               \/ Move(r, c, "done")
                               \/ DeliverPanics(r, c)
    BY DEF LoopStep, OnResponse, Deliver, NotifyIdle, NotifyResponse, OnFlushed,
       NotifyFlushed, OnReady, SetReady, OnSynchronized, EndLoop, mailVars
  <2>5. QED
    BY <2>1, <2>2, <2>3, <2>4
<1>4. QED
  BY <1>1, <1>2, <1>3, QuietRest

---------------------------------------------------------------------------
(* The steps of the pollers and their tasks. *)

LEMMA CommonPollBus ==
  ASSUME ShapeOK, BusInv, NEW r \in Receivers, PollerInv(r),
         PollInitAction(r) \/ PollClose(r) \/ EndPoller(r), UNCHANGED <<processing, busVars>>
  PROVE  BusInv'
<1>1. CASE PollInitAction(r)
  BY <1>1, EmitsBus DEF PollInitAction, Upcoming, Signals
<1>2. CASE PollClose(r)
  BY <1>2, WaitsBus DEF PollClose
<1>3. CASE EndPoller(r)
  BY <1>3, MovesBus DEF EndPoller, PollerInv, Place, Slotted
<1>4. QED
  BY <1>1, <1>2, <1>3

LEMMA SynchronizedBus ==
  ASSUME ShapeOK, BusInv, NEW r \in Receivers, PollerInv(r), SynchronizedStep(r),
         UNCHANGED <<processing, busVars>>
  PROVE  BusInv'
<1>0. PollShapeOK
  BY DEF ShapeOK
<1>1. CASE TakeMessage(r)
  BY <1>1, HoldsBus DEF TakeMessage
<1>2. CASE TaskEnds(r)
  <2>1. batches[r] # <<>> /\ Len(Current(r)) = 1
    BY <1>0, <1>2, BatchType DEF TaskEnds, PollerInv, Current
  <2>2. PICK m \in Messages : Current(r) = <<m>> /\ Current(r)[1] = m
    BY <1>0, <2>1, BatchType, MembersFacts
  <2>3. at[r][m] = "handled"
    <3>1. DOMAIN Current(r) = {1}
      BY <2>2, OneFacts
    <3>2. QED
      BY <1>2, <2>2, <3>1 DEF TaskEnds, Unreported
  <2>4. CASE srx[r]
    BY <1>2, <2>2, <2>3, <2>4, AnswersBus DEF TaskEnds
  <2>5. CASE ~srx[r]
    <3>1. PollerPanics(r, Members(Current(r))) /\ UNCHANGED events
      BY <1>2, <2>5 DEF TaskEnds
    <3>2. Members(Current(r)) = {m}
      BY <2>2, MembersOne
    <3>3. \A c \in Messages : c \in Members(Current(r)) \cup Buffered(r) =>
            at[r][c] \in {"held", "running", "handled"}
      BY <2>3, <3>2 DEF PollerInv
    <3>4. QED
      BY <3>1, <3>3, PanicsBus
  <2>6. QED
    BY <2>4, <2>5
<1>3. CASE FlushAtOnce(r)
  BY <1>3, EmitsBus DEF FlushAtOnce, Upcoming, Signals
<1>4. CASE AwaitMutex(r)
  BY <1>4, WaitsBus DEF AwaitMutex
<1>5. CASE SyncLocked(r)
  BY <1>5, StillBus, ChannelFrame DEF SyncLocked, mailVars, BusInv
<1>6. CASE SyncReturns(r)
  BY <1>6, EmitsBus DEF SyncReturns, Signals
<1>7. QED
  BY <1>1, <1>2, <1>3, <1>4, <1>5, <1>6 DEF SynchronizedStep

LEMMA UnorderedBatchedBus ==
  ASSUME ShapeOK, BusInv, NEW r \in Receivers, PollerInv(r), UnorderedBatchedStep(r),
         UNCHANGED <<processing, busVars>>
  PROVE  BusInv'
<1>1. CASE BufferMessage(r)
  BY <1>1, HoldsBus DEF BufferMessage, Buffer
<1>2. CASE SpawnPermitted(r, "spawn", "recv") \/ SpawnPermitted(r, "drain", "flush")
  BY <1>2, StillBus, ChannelFrame DEF SpawnPermitted, mailVars, BusInv
<1>3. CASE Drain(r) \/ AwaitPermits(r)
  BY <1>3, WaitsBus DEF Drain, AwaitPermits
<1>4. CASE FlushAll(r)
  BY <1>4, EmitsBus DEF FlushAll, Signals
<1>5. CASE SyncPermitted(r)
  BY <1>5, StillBus, ChannelFrame DEF SyncPermitted, mailVars, BusInv
<1>6. CASE SyncReleases(r)
  BY <1>6, EmitsBus DEF SyncReleases, Signals
<1>7. QED
  BY <1>1, <1>2, <1>3, <1>4, <1>5, <1>6 DEF UnorderedBatchedStep

LEMMA SynchronizedBatchedBus ==
  ASSUME ShapeOK, BusInv, NEW r \in Receivers, PollerInv(r), SynchronizedBatchedStep(r),
         UNCHANGED <<processing, busVars>>
  PROVE  BusInv'
<1>1. CASE CollectMessage(r)
  BY <1>1, HoldsBus DEF CollectMessage
<1>2. CASE HandOver(r)
  <2>1. CASE srx[r]
    <3>1. Receive(r)
      BY <1>2, <2>1 DEF HandOver, Upcoming, Receive
    <3>2. UNCHANGED at /\ events' = [events EXCEPT ![r] = Append(@, "Flushed")]
      BY <1>2, <2>1 DEF HandOver
    <3>3. ChannelInv'
      BY <3>1, <3>2, SignalHolds DEF ShapeOK, BusInv, Signals
    <3>4. QED
      BY <3>2, <3>3, StillBus
  <2>2. CASE ~srx[r]
    <3>1. /\ MoveAll(r, Waiting(r), "lost") /\ queue' = [queue EXCEPT ![r] = <<>>]
          /\ UNCHANGED events
      BY <1>2, <2>2 DEF HandOver
    <3>2. /\ \A s \in Receivers \ {r} : at'[s] = at[s]
          /\ \A c \in Messages : at'[r][c] = IF c \in Waiting(r) THEN "lost" ELSE at[r][c]
      BY <3>1, ShapeParts, MoveAllAt DEF Place
    <3>3. \A c \in Messages : at[r][c] = "answered" => at'[r][c] = "answered"
      BY <3>2 DEF Waiting
    <3>4. ChannelInv'
      BY <3>1, <3>2, <3>3, ChannelDropped DEF ShapeOK, BusInv
    <3>5. QED
      BY <3>2, <3>4, InsideKeeps DEF ShapeOK, Slotted, Waiting
  <2>3. QED
    BY <2>1, <2>2
<1>3. CASE Compete(r)
  BY <1>3, WaitsBus DEF Compete
<1>4. CASE SyncWins(r)
  BY <1>4, StillBus, ChannelFrame DEF SyncWins, mailVars, BusInv
<1>5. CASE SyncUnlocks(r)
  BY <1>5, EmitsBus DEF SyncUnlocks, Signals
<1>6. QED
  BY <1>1, <1>2, <1>3, <1>4, <1>5 DEF SynchronizedBatchedStep

LEMMA MixedTaskBus ==
  ASSUME ShapeOK, BusInv, NEW r \in Receivers, NEW b \in Seq(Messages),
         \/ HandlerStarts(r, b) \/ HandlerReturns(r, b) \/ Respond(r, b)
         \/ HandlerPanics(r, b),
         UNCHANGED <<processing, busVars>>
  PROVE  BusInv'
<1>1. CASE HandlerStarts(r, b)
  BY <1>1, MovesBus DEF HandlerStarts, Place, Slotted
<1>2. CASE HandlerReturns(r, b)
  BY <1>2, MovesBus DEF HandlerReturns, Place, Slotted
<1>3. CASE HandlerPanics(r, b)
  BY <1>3, MovesBus DEF HandlerPanics, Place, Slotted
<1>4. CASE Respond(r, b)
  <2>1. PICK i \in Unreported(r, b) :
          /\ IF srx[r]
             THEN /\ events' = [events EXCEPT ![r] = Append(@, b[i])]
                  /\ Move(r, b[i], "answered")
             ELSE /\ MoveAll(r, {b[j] : j \in Unreported(r, b)}, "lost")
                  /\ UNCHANGED events
          /\ UNCHANGED <<queue, rx, srx, pollVars>>
    BY <1>4 DEF Respond
  <2>2. PICK m \in Messages : m = b[i] /\ at[r][m] = "handled"
    BY DEF Unreported
  <2>3. CASE srx[r]
    BY <2>1, <2>2, <2>3, AnswersBus
  <2>4. CASE ~srx[r]
    <3> DEFINE some == {b[j] : j \in Unreported(r, b)}
    <3>1. \A c \in some : at[r][c] = "handled"
      BY DEF Unreported
    <3>2. MoveAll(r, some, "lost") /\ UNCHANGED <<events, queue>>
      BY <2>1, <2>4
    <3> HIDE DEF some
    <3>3. QED
      BY <3>1, <3>2, MovesBus DEF Place, Slotted
  <2>5. QED
    BY <2>3, <2>4
<1>5. QED
  BY <1>1, <1>2, <1>3, <1>4

LEMMA InsideRest ==
  ASSUME ShapeOK, Rest, NEW r \in Receivers, UNCHANGED <<kind, accepted>>, Elsewhere(r),
         BusInv', Parts(r)', SemaphoreInv(r)', MutexInv'
  PROVE  Rest'
<1>1. ASSUME NEW s \in Receivers, s # r
      PROVE  Parts(s)' /\ SemaphoreInv(s)'
  <2>1. Parts(s) /\ SemaphoreInv(s)
    BY DEF Rest
  <2>2. /\ at'[s] = at[s] /\ queue'[s] = queue[s] /\ poller'[s] = poller[s]
        /\ sem'[s] = sem[s] /\ buffer'[s] = buffer[s] /\ batches'[s] = batches[s]
        /\ accepted'[s] = accepted[s]
    BY <1>1 DEF Elsewhere
  <2>3. QED
    BY <2>1, <2>2, ElsewhereParts
<1>2. KindInv'
  BY DEF Rest, KindInv
<1>3. QED
  BY <1>1, <1>2 DEF Rest

LEMMA PollerTypeRest ==
  ASSUME ShapeOK, Rest, NEW r \in Receivers, Poller(r)
  PROVE  MailTypeOK' /\ PollShapeOK' /\ Rest'
<1>0. /\ Parts(r) /\ SemaphoreInv(r) /\ PollerInv(r) /\ BusInv /\ MutexInv /\ KindInv
      /\ UNCHANGED <<processing, busVars, accepted>>
  BY DEF Rest, Parts, Poller, outsidePoller, wrapperVars, contextVars
<1>1. CASE PollInitAction(r) \/ PollClose(r) \/ EndPoller(r)
  <2>1. MailTypeOK' /\ PollShapeOK'
    BY <1>1, CommonPollType
  <2>2. Parts(r)' /\ SemaphoreInv(r)' /\ BusInv'
    BY <1>0, <1>1, CommonPollParts, CommonPollBus
  <2>3. UNCHANGED kind
    BY <1>1 DEF PollInitAction, PollClose, EndPoller, pollVars
  <2>4. Elsewhere(r) /\ MutexInv'
    BY <1>0, <1>1, <2>3, CommonPollQuiet, MutexKept
  <2>5. QED
    BY <1>0, <2>1, <2>2, <2>3, <2>4, InsideRest
<1>2. CASE kind[r] = "synchronized" /\ SynchronizedStep(r)
  <2>1. MailTypeOK' /\ PollShapeOK'
    BY <1>0, <1>2, SynchronizedType
  <2>2. Parts(r)' /\ SemaphoreInv(r)' /\ BusInv'
    BY <1>0, <1>2, SynchronizedParts, SynchronizedBus
  <2>3. UNCHANGED kind
    BY <1>2 DEF SynchronizedStep, TakeMessage, TaskEnds, FlushAtOnce, AwaitMutex, SyncLocked,
       SyncReturns
  <2>4. Elsewhere(r) /\ (NothingStarts(r) \/ SyncLocked(r))
    BY <1>0, <1>2, SynchronizedQuiet
  <2>5. SyncLocked(r) => UNCHANGED <<at, batches>> /\ MutexFree(r)
    BY DEF SyncLocked, mailVars
  <2>6. MutexInv'
    BY <1>0, <1>2, <2>3, <2>4, <2>5, MutexKept, MutexSync DEF SerialKinds
  <2>7. QED
    BY <1>0, <2>1, <2>2, <2>3, <2>4, <2>6, InsideRest
<1>3. CASE kind[r] = "unordered_batched" /\ UnorderedBatchedStep(r)
  <2>1. MailTypeOK' /\ PollShapeOK'
    BY <1>3, UnorderedBatchedType
  <2>2. Parts(r)' /\ SemaphoreInv(r)' /\ BusInv'
    BY <1>0, <1>3, UnorderedBatchedParts, UnorderedBatchedBus
  <2>3. UNCHANGED kind
    BY <1>3 DEF UnorderedBatchedStep, BufferMessage, SpawnPermitted, Drain, FlushAll,
       AwaitPermits, SyncPermitted, SyncReleases
  <2>4. Elsewhere(r) /\ MutexInv'
    BY <1>0, <1>3, <2>3, UnorderedBatchedQuiet, MutexKept
  <2>5. QED
    BY <1>0, <2>1, <2>2, <2>3, <2>4, InsideRest
<1>4. CASE kind[r] = "synchronized_batched" /\ SynchronizedBatchedStep(r)
  <2>1. MailTypeOK' /\ PollShapeOK'
    BY <1>4, SynchronizedBatchedType
  <2>2. Parts(r)' /\ SemaphoreInv(r)' /\ BusInv'
    BY <1>0, <1>4, SynchronizedBatchedParts, SynchronizedBatchedBus
  <2>3. UNCHANGED kind
    BY <1>4 DEF SynchronizedBatchedStep, CollectMessage, HandOver, Compete, SyncWins, SyncUnlocks
  <2>4. Elsewhere(r) /\ (NothingStarts(r) \/ SyncWins(r))
    BY <1>4, SynchronizedBatchedQuiet
  <2>5. SyncWins(r) => UNCHANGED <<at, batches>> /\ MutexFree(r)
    BY DEF SyncWins, mailVars
  <2>6. MutexInv'
    BY <1>0, <1>4, <2>3, <2>4, <2>5, MutexKept, MutexSync DEF SerialKinds
  <2>7. QED
    BY <1>0, <2>1, <2>2, <2>3, <2>4, <2>6, InsideRest
<1>5. QED
  BY <1>1, <1>2, <1>3, <1>4 DEF Poller

LEMMA TaskTypeRest ==
  ASSUME ShapeOK, Rest, NEW r \in Receivers, NEW i \in DOMAIN batches[r],
         Task(r, batches[r][i]) \/ Panic(r, batches[r][i])
  PROVE  MailTypeOK' /\ PollShapeOK' /\ Rest'
<1>0. /\ Parts(r) /\ SemaphoreInv(r) /\ PollerInv(r) /\ BusInv /\ MutexInv /\ KindInv
      /\ UNCHANGED <<processing, busVars, accepted>>
  BY DEF Rest, Parts, Task, Panic, outsidePoller, wrapperVars, contextVars
<1>1. PICK b \in Seq(Messages) : b = batches[r][i]
  BY BatchType DEF ShapeOK
<1>2. CASE \/ HandlerStarts(r, b) \/ HandlerReturns(r, b)
           \/ kind[r] # "synchronized" /\ Respond(r, b)
           \/ kind[r] # "synchronized" /\ HandlerPanics(r, b)
  <2>1. MailTypeOK' /\ PollShapeOK' /\ BusInv'
    BY <1>0, <1>2, MixedTaskType, MixedTaskBus
  <2>2. Parts(r)' /\ SemaphoreInv(r)'
    BY <1>0, <1>1, <1>2, MixedTaskParts
  <2>3. UNCHANGED kind
    BY <1>2 DEF HandlerStarts, HandlerReturns, Respond, HandlerPanics, pollVars
  <2>4. Elsewhere(r) /\ MutexInv'
    <3>1. CASE HandlerStarts(r, b)
      BY <1>0, <1>1, <3>1, MutexStarts
    <3>2. CASE ~HandlerStarts(r, b)
      BY <1>0, <1>2, <2>3, <3>2, TaskQuiet, MutexKept
    <3>3. QED
      BY <3>1, <3>2
  <2>5. QED
    BY <1>0, <2>1, <2>2, <2>3, <2>4, InsideRest
<1>3. CASE kind[r] = "synchronized" /\ TaskPanics(r)
  <2>1. MailTypeOK' /\ PollShapeOK'
    BY <1>3, TaskPanicsType
  <2>2. Parts(r)' /\ SemaphoreInv(r)'
    BY <1>0, <1>3, TaskPanicsParts
  <2>3. BusInv'
    <3>1. \A c \in Messages : c \in Members(Current(r)) \cup Buffered(r) =>
            at[r][c] \in {"held", "running", "handled"}
      BY <1>0, <1>3 DEF TaskPanics, PollerInv
    <3>2. QED
      BY <1>0, <1>3, <3>1, PanicsBus DEF TaskPanics
  <2>4. Elsewhere(r) /\ MutexInv' /\ UNCHANGED kind
    BY <1>0, <1>3, PanicsQuiet, MutexKept DEF TaskPanics
  <2>5. QED
    BY <1>0, <2>1, <2>2, <2>3, <2>4, InsideRest
<1>4. QED
  BY <1>1, <1>2, <1>3 DEF Task, Panic

---------------------------------------------------------------------------
(* The system. *)

\* IInv, with the bound on the semaphores left out: that follows.
Core == ShapeOK /\ Visiting /\ Rest

LEMMA CoreInv == Core => IInv
<1> SUFFICES ASSUME Core PROVE IInv
  OBVIOUS
<1>1. ShapeOK /\ Visiting /\ Rest
  BY DEF Core
<1>2. ASSUME NEW r \in Receivers
      PROVE  sem[r] <= MaxParallel[r]
  <2>1. /\ sem[r] \in Nat /\ MaxParallel[r] \in Nat /\ Cardinality(Live(r)) \in Nat
        /\ SemaphoreInv(r)
    BY <1>1, LiveFinite, PollersAssumption DEF Rest, ShapeOK, PollShapeOK
  <2>2. QED
    BY <2>1 DEF SemaphoreInv
<1>3. TypeOK
  BY <1>1, <1>2, ShapeParts
<1>4. OneByOne
  BY <1>1, TurnParts DEF Rest, Parts
<1>5. QED
  BY <1>1, <1>3, <1>4 DEF IInv, Rest, BusInv, Slots, Parts

LEMMA InitShape == Init => ShapeOK /\ Visiting
<1> SUFFICES ASSUME Init PROVE ShapeOK /\ Visiting
  OBVIOUS
<1>1. MailTypeOK
  BY DEF Init, MailInit, MailTypeOK, Place, Actions
<1>2. PollShapeOK /\ AcceptedOK
  <2>1. <<>> \in Seq(Messages) /\ <<>> \in Seq(Seq(Messages))
    BY EmptyFacts
  <2>2. MaxParallel \in [Receivers -> Nat]
    BY PollersAssumption
  <2>3. QED
    BY <2>1, <2>2 DEF Init, PollInit, PollShapeOK, AcceptedOK, PollerPlace
<1>3. WrapperTypeOK
  BY DEF Init, WrapperInit, WrapperTypeOK, NotifyState, Quiet, LoopPlace
<1>4. Visiting
  <2>1. \A c \in Calls : 1 \in DOMAIN Route[c]
    BY BusAssumption
  <2>2. QED
    BY <2>1 DEF Init, BusInit, Visiting
<1>5. BusTypeOK
  <2>1. 1 \in 1..Fuse /\ 1 \in Nat \ {0}
    BY BusAssumption
  <2>2. QED
    BY <2>1 DEF Init, BusInit, BusTypeOK, CallPlace, Outcome
<1>6. QED
  BY <1>1, <1>2, <1>3, <1>4, <1>5 DEF ShapeOK, CommonTypeOK

LEMMA InitCore == Init => Core
<1> SUFFICES ASSUME Init PROVE Core
  OBVIOUS
<1>1. /\ \A r \in Receivers, c \in Messages : at[r][c] = "none"
      /\ \A r \in Receivers : queue[r] = <<"Init">> /\ events[r] = <<>>
      /\ \A r \in Receivers : poller[r] = "recv" /\ sem[r] = MaxParallel[r]
      /\ \A r \in Receivers : buffer[r] = <<>> /\ batches[r] = <<>> /\ accepted[r] = <<>>
      /\ \A r \in Receivers : processing[r] = 0
      /\ \A c \in Calls : pc[c] = "start" /\ pos[c] = 1
  BY DEF Init, MailInit, PollInit, WrapperInit, BusInit
<1>2. ShapeOK /\ Visiting
  BY InitShape
<1>3. "Init" \notin Messages
  BY MailboxAssumption DEF Actions
<1>4. ChannelInv
  <2>1. SUFFICES ASSUME NEW r \in Receivers
                 PROVE  QueueOf(r) /\ EventsOf(r)
    BY ChannelSplit
  <2>2. HoldsIn(<<"Init">>, at[r], "queued") /\ HoldsIn(<<>>, at[r], "answered")
    BY <1>3 DEF HoldsIn
  <2>3. QED
    BY <1>1, <2>2 DEF QueueOf, EventsOf
<1>5. RouteInv
  <2>1. SUFFICES ASSUME NEW c \in Messages, NEW i \in DOMAIN Route[c]
                 PROVE  Underway(c, i)
    BY DEF RouteInv
  <2>2. c \in Calls /\ Route[c] \in Seq(Receivers)
    BY BusAssumption DEF Calls
  <2>3. Copy(c, i) = "none"
    BY <1>1, <2>2 DEF Copy
  <2>4. QED
    BY <1>1, <2>2, <2>3 DEF Underway
<1>6. Slots
  <2>1. \A r \in Receivers : Copies(r, Slotted) = {}
    BY <1>1 DEF Copies, Slotted
  <2>2. \A r \in Receivers : Limited(r) = {} /\ Limit[r] \in Nat
    BY <2>1, ReceiverAssumption DEF Limited
  <2>3. Backpressure
    BY <2>2, FS_EmptySet, SlotsLimited
  <2>4. Accounting
    BY <1>1, <2>1, FS_EmptySet DEF Accounting
  <2>5. QED
    BY <2>3, <2>4 DEF Slots
<1>7. KindInv
  BY DEF Init, PollInit, KindInv
<1>8. MutexInv
  BY <1>1 DEF MutexInv
<1>9. ASSUME NEW r \in Receivers
      PROVE  Parts(r) /\ SemaphoreInv(r)
  <2>1. DOMAIN batches[r] = {} /\ Buffered(r) = {} /\ DOMAIN accepted[r] = {}
    BY <1>1, EmptyFacts DEF Buffered
  <2>2. DOMAIN <<"Init">> = {1} /\ <<"Init">>[1] = "Init"
    BY OneFacts
  <2>3. PollerInv(r) /\ BatchInv(r) /\ TaskInv(r)
    BY <1>1, <2>1 DEF PollerInv, BatchInv, TaskInv
  <2>4. OrderInv(r) /\ InTurn(r)
    BY <1>1, <1>3, <2>1, <2>2 DEF OrderInv, InTurn
  <2>5. Live(r) = {} /\ MaxParallel[r] \in Nat
    BY <2>1, PollersAssumption DEF Live
  <2>6. Cardinality(Live(r)) = 0
    BY <2>5, FS_EmptySet
  <2>7. SemaphoreInv(r)
    BY <1>1, <2>5, <2>6 DEF SemaphoreInv
  <2>8. QED
    BY <2>3, <2>4, <2>7 DEF Parts
<1>10. QED
  BY <1>2, <1>4, <1>5, <1>6, <1>7, <1>8, <1>9 DEF Core, Rest, BusInv

\* A step keeps the types, and keeps every call at a receiver of its route.
LEMMA StepShape ==
  ASSUME Core, [Next]_vars
  PROVE  ShapeOK' /\ Visiting'
<1>0. /\ ShapeOK /\ CommonTypeOK /\ PollShapeOK /\ AcceptedOK /\ Visiting /\ Rest /\ RouteInv
      /\ LocalOK /\ SharedOK
  BY DEF Core, ShapeOK, CommonTypeOK, Rest, BusInv, Visiting, BusTypeOK, LocalOK, SharedOK
<1>a. ASSUME UNCHANGED busVars
      PROVE  BusTypeOK' /\ Visiting'
  BY <1>a, <1>0 DEF busVars, localVars, sharedVars, LocalOK, SharedOK, CommonTypeOK,
     BusTypeOK, Visiting
<1>b. ASSUME LocalOK', SharedOK'
      PROVE  BusTypeOK' /\ Visiting'
  BY <1>b DEF LocalOK, SharedOK, BusTypeOK
<1>c. ASSUME UNCHANGED pollVars
      PROVE  PollShapeOK'
  BY <1>c, <1>0 DEF pollVars, PollShapeOK
<1>d. ASSUME UNCHANGED <<wrapperVars, loop>>
      PROVE  WrapperTypeOK'
  BY <1>d, <1>0 DEF wrapperVars, contextVars, notifyVars, slabVars, CommonTypeOK,
     WrapperTypeOK
<1>e. ASSUME UNCHANGED sharedVars
      PROVE  SharedOK'
  BY <1>e, <1>0 DEF sharedVars, SharedOK
<1>f. ASSUME UNCHANGED accepted
      PROVE  AcceptedOK'
  BY <1>f, <1>0 DEF AcceptedOK
<1>g. ASSUME MailTypeOK', WrapperTypeOK', LocalOK', SharedOK', PollShapeOK', AcceptedOK'
      PROVE  ShapeOK' /\ Visiting'
  BY <1>b, <1>g DEF ShapeOK, CommonTypeOK
<1>h. ASSUME MailTypeOK', WrapperTypeOK', UNCHANGED busVars, PollShapeOK', AcceptedOK'
      PROVE  ShapeOK' /\ Visiting'
  BY <1>a, <1>h DEF ShapeOK, CommonTypeOK
<1>1. ASSUME NEW c \in Calls, Make(c)
      PROVE  ShapeOK' /\ Visiting'
  <2>0. PollShapeOK' /\ AcceptedOK' /\ UNCHANGED loop
    BY <1>1, <1>c, <1>f DEF Make
  <2>1. CASE c \in Messages /\ StartSend(c)
    <3>1. MailTypeOK' /\ WrapperTypeOK' /\ LocalOK' /\ SharedOK'
      BY <1>0, <2>0, <2>1, StartSendType DEF SharedOK
    <3>2. QED
      BY <1>g, <2>0, <3>1
  <2>2. CASE c \in Messages /\ StartRequest(c)
    BY <1>0, <1>e, <1>g, <2>0, <2>2, StartRequestType
  <2>3. CASE c \in Controls /\ (StartControl(c) \/ StartClose(c))
    BY <1>0, <1>g, <2>0, <2>3, ControlType
  <2>4. QED
    BY <1>1, <2>1, <2>2, <2>3 DEF Make
<1>2. ASSUME NEW c \in Calls, Call(c)
      PROVE  ShapeOK' /\ Visiting'
  <2>0. PollShapeOK' /\ UNCHANGED loop
    BY <1>2, <1>c DEF Call
  <2>1. AcceptedOK'
    <3>1. CASE UNCHANGED accepted
      BY <1>f, <3>1
    <3>2. CASE pc[c] = "send" /\ accepted' = [accepted EXCEPT ![At(c)] = Append(@, c)]
      <4>1. PICK r \in Receivers : r = At(c)
        BY <1>0, AtReceiver
      <4>2. c \in Messages
        BY <1>2, <3>2 DEF Call, ControlStep, Check, Register, Push, PushFails, PollFlushed,
           UnparkFlushed, CheckIdle, CheckReady, Awake, Step
      <4>3. Append(accepted[r], c) \in Seq(Messages)
        BY <1>0, <4>1, <4>2 DEF AcceptedOK
      <4>4. QED
        BY <1>0, <3>2, <4>1, <4>3 DEF AcceptedOK
    <3>3. QED
      BY <1>2, <3>1, <3>2 DEF Call
  <2>2. CASE c \in Messages /\ MessageStep(c)
    BY <1>0, <1>e, <1>g, <2>0, <2>1, <2>2, MessageType
  <2>3. CASE c \in Controls /\ ControlStep(c)
    BY <1>0, <1>g, <2>0, <2>1, <2>3, ControlType
  <2>4. QED
    BY <1>2, <2>2, <2>3 DEF Call
<1>3. ASSUME NEW c \in Calls, Drop(c)
      PROVE  ShapeOK' /\ Visiting'
  BY <1>0, <1>3, <1>c, <1>e, <1>f, <1>g, AbandonType DEF Drop
<1>4. ASSUME NEW c \in Calls, Timer(c)
      PROVE  ShapeOK' /\ Visiting'
  BY <1>0, <1>4, <1>c, <1>f, <1>g, ControlType DEF Timer
<1>5. ASSUME NEW r \in Receivers, EventLoop(r)
      PROVE  ShapeOK' /\ Visiting'
  BY <1>0, <1>5, <1>c, <1>f, <1>h, LoopType DEF EventLoop
<1>6. ASSUME NEW r \in Receivers, Poller(r)
      PROVE  ShapeOK' /\ Visiting'
  BY <1>0, <1>6, <1>d, <1>f, <1>h, PollerTypeRest DEF Poller, outsidePoller
<1>7. ASSUME NEW r \in Receivers, NEW i \in DOMAIN batches[r],
             Task(r, batches[r][i]) \/ Panic(r, batches[r][i])
      PROVE  ShapeOK' /\ Visiting'
  <2>1. MailTypeOK' /\ PollShapeOK'
    BY <1>0, <1>7, TaskTypeRest
  <2>2. UNCHANGED outsidePoller
    BY <1>7 DEF Task, Panic
  <2>3. QED
    BY <2>1, <2>2, <1>d, <1>f, <1>h DEF outsidePoller
<1>8. CASE UNCHANGED vars
  <2>1. MailTypeOK'
    BY <1>0, <1>8 DEF vars, mailVars, CommonTypeOK, MailTypeOK
  <2>2. QED
    BY <1>8, <1>c, <1>d, <1>f, <1>h, <2>1 DEF vars
<1>9. QED
  BY <1>1, <1>2, <1>3, <1>4, <1>5, <1>6, <1>7, <1>8 DEF Next, Finished

LEMMA StillRest ==
  ASSUME Core, UNCHANGED vars
  PROVE  Rest'
<1>0. ShapeOK /\ Rest /\ BusInv
  BY DEF Core, Rest
<1>1. UNCHANGED <<at, queue, events, processing, busVars, pollVars, accepted>>
  BY DEF vars, mailVars, wrapperVars, contextVars
<1>2. BusInv'
  BY <1>0, <1>1, StillBus, ChannelFrame DEF BusInv
<1>3. QED
  BY <1>0, <1>1, <1>2, QuietRest DEF Outside

LEMMA StepCore == Core /\ [Next]_vars => Core'
<1> SUFFICES ASSUME Core, [Next]_vars PROVE Core'
  OBVIOUS
<1>0. ShapeOK /\ Visiting /\ Rest
  BY DEF Core
<1>1. ShapeOK' /\ Visiting'
  BY StepShape
<1>2. Rest'
  <2>1. ASSUME NEW c \in Calls, Make(c)
        PROVE  Rest'
    BY <1>0, <2>1, MessageRest, ControlRest DEF Make
  <2>2. ASSUME NEW c \in Calls, Call(c)
        PROVE  Rest'
    <3>1. UNCHANGED pollVars
      BY <2>2 DEF Call
    <3>2. CASE c \in Messages /\ MessageStep(c)
      BY <1>0, <2>2, <3>1, <3>2, MessageRest
    <3>3. CASE c \in Controls /\ ControlStep(c)
      BY <1>0, <2>2, <3>1, <3>3, ControlRest
    <3>4. QED
      BY <2>2, <3>2, <3>3 DEF Call
  <2>3. ASSUME NEW c \in Calls, Drop(c)
        PROVE  Rest'
    BY <1>0, <2>3, MessageRest DEF Drop
  <2>4. ASSUME NEW c \in Calls, Timer(c)
        PROVE  Rest'
    BY <1>0, <2>4, ControlRest DEF Timer
  <2>5. ASSUME NEW r \in Receivers, EventLoop(r)
        PROVE  Rest'
    BY <1>0, <2>5, LoopRest DEF EventLoop
  <2>6. ASSUME NEW r \in Receivers, Poller(r)
        PROVE  Rest'
    BY <1>0, <2>6, PollerTypeRest
  <2>7. ASSUME NEW r \in Receivers, NEW i \in DOMAIN batches[r],
               Task(r, batches[r][i]) \/ Panic(r, batches[r][i])
        PROVE  Rest'
    BY <1>0, <2>7, TaskTypeRest
  <2>8. CASE UNCHANGED vars
    BY <2>8, StillRest
  <2>9. QED
    BY <2>1, <2>2, <2>3, <2>4, <2>5, <2>6, <2>7, <2>8 DEF Next, Finished
<1>3. QED
  BY <1>1, <1>2 DEF Core

\* IInv holds of every reachable state: it says in whose hands every copy is, and
\* what each of the three pollers has at each of its awaits.
THEOREM MixedInvariance == Spec => []IInv
<1>1. Init => Core
  BY InitCore
<1>2. Core /\ [Next]_vars => Core'
  BY StepCore
<1>3. Core => IInv
  BY CoreInv
<1>4. QED
  BY <1>1, <1>2, <1>3, PTL DEF Spec

\* Every variable keeps its type, whatever kinds the receivers are of; no
\* semaphore has more permits than max_parallel or fewer than none.
THEOREM MixedTypes == Spec => []TypeOK
<1>1. IInv => TypeOK
  BY DEF IInv
<1>2. QED
  BY <1>1, MixedInvariance, PTL

\* "processing" stays exact for batches: one that is full, one that a flush sent
\* off, one whose handler panics, one that dies with its poller.
THEOREM MixedAccounting == Spec => []Accounting
<1>1. IInv => Accounting
  BY DEF IInv
<1>2. QED
  BY <1>1, MixedInvariance, PTL

\* A handler that runs is that of a task which has not given its permit back.
LEMMA RunningLive ==
  ASSUME IInv, NEW r \in Receivers, NEW c \in Messages, at[r][c] = "running"
  PROVE  Live(r) # {}
<1>1. PollShapeOK /\ BatchInv(r) /\ TaskInv(r)
  BY DEF IInv, TypeOK, PollTypeOK, PollShapeOK
<1>2. PICK i \in DOMAIN batches[r] : c \in Members(batches[r][i])
  BY <1>1 DEF TaskInv
<1>3. at[r][batches[r][i][1]] = "running"
  BY <1>1, <1>2, BatchFirst DEF BatchInv
<1>4. QED
  BY <1>3 DEF Live

\* A sync handler runs alone, with the semaphore of its receiver or the mutex of
\* its object, which the handlers of batches take as well.
THEOREM MixedSyncAlone == Spec => []SyncExclusive
<1>1. IInv => SyncExclusive
  <2> SUFFICES ASSUME IInv, NEW r \in Receivers, NEW s \in Receivers, poller[r] = "syncing"
               PROVE  /\ ~Handling(r)
                      /\ kind[r] \in SerialKinds /\ Owner[s] = Owner[r] => ~Handling(s)
    BY DEF SyncExclusive
  <2>1. MutexInv /\ SemaphoreInv(r) /\ kind[r] \in Kinds
    BY DEF IInv, TypeOK, PollTypeOK
  <2>2. CASE kind[r] \in SerialKinds
    BY <2>1, <2>2 DEF MutexInv
  <2>3. CASE kind[r] \notin SerialKinds
    <3>1. Live(r) = {}
      BY <2>1, <2>3 DEF SemaphoreInv, Kinds
    <3>2. QED
      BY <2>3, <3>1, RunningLive DEF Handling
  <2>4. QED
    BY <2>2, <2>3
<1>2. QED
  BY <1>1, MixedInvariance, PTL

\* The handlers behind one mutex run one at a time, of whichever receiver and
\* task they are; without a mutex at most max_parallel batches run.
THEOREM ObjectsGuarded == Spec => []OneHandlerPerObject
<1>1. IInv => OneHandlerPerObject
  <2> SUFFICES ASSUME IInv PROVE OneHandlerPerObject
    OBVIOUS
  <2>0. PollShapeOK /\ MutexInv /\ \A r \in Receivers : BatchInv(r) /\ SemaphoreInv(r)
    BY DEF IInv, TypeOK, PollTypeOK, PollShapeOK
  <2>1. ASSUME NEW r \in Receivers, NEW s \in Receivers,
               NEW i \in DOMAIN batches[r], NEW j \in DOMAIN batches[s],
               kind[r] \in SerialKinds, Owner[r] = Owner[s],
               at[r][batches[r][i][1]] = "running", at[s][batches[s][j][1]] = "running"
        PROVE  r = s /\ i = j
    <3>1. PICK c \in Messages : c = batches[r][i][1] /\ c \in Members(batches[r][i])
      BY <2>0, BatchFirst
    <3>2. PICK d \in Messages : d = batches[s][j][1] /\ d \in Members(batches[s][j])
      BY <2>0, BatchFirst
    <3>3. /\ r = s
          /\ \E k \in DOMAIN batches[r] :
               c \in Members(batches[r][k]) /\ d \in Members(batches[r][k])
      BY <2>0, <2>1, <3>1, <3>2 DEF MutexInv
    <3>4. PICK k \in DOMAIN batches[r] :
            c \in Members(batches[r][k]) /\ d \in Members(batches[r][k])
      BY <3>3
    <3>5. k = i /\ k = j
      BY <2>0, <3>1, <3>2, <3>3, <3>4 DEF BatchInv
    <3>6. QED
      BY <3>3, <3>5
  <2>2. ASSUME NEW r \in Receivers, kind[r] = "unordered_batched"
        PROVE  Cardinality({i \in DOMAIN batches[r] : at[r][batches[r][i][1]] = "running"})
                 <= MaxParallel[r]
    <3> DEFINE running == {i \in DOMAIN batches[r] : at[r][batches[r][i][1]] = "running"}
    <3>1. running \subseteq Live(r)
      BY DEF Live
    <3>2. sem[r] \in Nat /\ MaxParallel[r] \in Nat
      BY <2>0, PollersAssumption DEF PollShapeOK
    <3>3. Cardinality(Live(r)) \in Nat /\ IsFiniteSet(Live(r))
      BY <2>0, LiveFinite
    <3> HIDE DEF running
    <3>4. Cardinality(running) <= Cardinality(Live(r)) /\ Cardinality(running) \in Nat
      BY <3>1, <3>3, FS_Subset, FS_CardinalityType
    <3>5. Cardinality(Live(r)) <= MaxParallel[r]
      <4>1. CASE poller[r] = "syncing"
        <5>1. Live(r) = {}
          BY <2>0, <2>2, <4>1 DEF SemaphoreInv
        <5>2. Cardinality(Live(r)) = 0
          BY <5>1, FS_EmptySet
        <5>3. QED
          BY <3>2, <5>2
      <4>2. CASE poller[r] # "syncing"
        BY <2>0, <2>2, <3>2, <3>3, <4>2 DEF SemaphoreInv
      <4>3. QED
        BY <4>1, <4>2
    <3>6. QED
      BY <3>2, <3>3, <3>4, <3>5 DEF running
  <2>3. QED
    BY <2>1, <2>2 DEF OneHandlerPerObject
<1>2. QED
  BY <1>1, MixedInvariance, PTL

\* A Synchronized receiver begins no message before the one it took before it is
\* answered or dead: the order of the queue is the order of the handlers.
THEOREM MessagesInTurn == Spec => []OneByOne
<1>1. IInv => OneByOne
  BY DEF IInv
<1>2. QED
  BY <1>1, MixedInvariance, PTL
---------------------------------------------------------------------------
(* Closing. *)

Panicked == {r \in Receivers : poller[r] = "panicked"}

\* The poller holds rx until it ends.
EndInv == \A r \in Receivers : rx[r] = "gone" <=> poller[r] \in {"ended", "panicked"}

DrainInv == FullInv /\ EndInv /\ CloseInv(Panicked)

\* What a step of the poller of r, or of a task, does to r; all else stays.
Here(r) ==
  \A s \in Receivers \ {r} :
    /\ at'[s] = at[s] /\ queue'[s] = queue[s] /\ events'[s] = events[s]
    /\ rx'[s] = rx[s] /\ poller'[s] = poller[s]

\* A poller or a task loses no track of a message that is queued or answered, and
\* closes its queue only when it is told to or panics.
Keeps(r) ==
  /\ Here(r)
  /\ FullInv => QueueFull(r)' /\ EventsFull(r)' /\ GoneInv(r)'
  /\ rx[r] # "gone" \/ poller'[r] = poller[r]
  /\ rx'[r] = "gone" <=> poller'[r] \in {"ended", "panicked"}
  /\ poller[r] = "panicked" => poller'[r] = "panicked"
  /\ rx[r] = "gone" => rx'[r] = "gone"
  /\ rx[r] = "gone" => \A m \in Messages : at'[r][m] \in InFlight => at[r][m] \in InFlight
  /\ Told(r)' => Told(r) \/ poller'[r] = "panicked"

LEMMA KeepsDrain ==
  ASSUME Visiting, DrainInv, NEW r \in Receivers, Keeps(r), UNCHANGED <<wrapperVars, busVars>>
  PROVE  DrainInv'
<1>1. FullInv'
  BY DEF DrainInv, FullInv, Keeps, Here, QueueFull, EventsFull, GoneInv
<1>2. EndInv'
  BY DEF DrainInv, EndInv, Keeps, Here
<1>3. CloseInv(Panicked)'
  <2>1. PICK dead : dead = Panicked
    OBVIOUS
  <2>2. PICK more : more = Panicked'
    OBVIOUS
  <2>3. CloseInv(dead)
    BY <2>1 DEF DrainInv
  <2>4. /\ \A s \in Receivers : s \in dead => s \in more
        /\ \A s \in Receivers : rx[s] = "gone" => rx'[s] = "gone"
        /\ \A s \in Receivers : rx[s] = "gone" =>
             \A m \in Messages : at'[s][m] \in InFlight => at[s][m] \in InFlight
    BY <2>1, <2>2 DEF Panicked, Keeps, Here
  <2>5. \A s \in Receivers : Told(s)' => Told(s) \/ Settled(dead, s) \/ s \in more
    BY <2>2 DEF Panicked, Keeps, Here, Told
  <2>6. CloseInv(more)'
    BY <2>3, <2>4, <2>5, InsideClose
  <2>7. QED
    BY <2>2, <2>6 DEF CloseInv, CloseCall, Settled
<1>4. QED
  BY <1>1, <1>2, <1>3 DEF DrainInv

\* The poller dies of a panic, or ends: nothing stays queued.
LEMMA EndKeeps ==
  ASSUME ShapeOK, NEW r \in Receivers, NEW some, MoveAll(r, some, "lost"),
         FullInv => \A m \in Messages : at[r][m] = "queued" => m \in some,
         NEW p \in {"ended", "panicked"}, poller' = [poller EXCEPT ![r] = p],
         rx' = [rx EXCEPT ![r] = "gone"], queue' = [queue EXCEPT ![r] = <<>>],
         UNCHANGED events, p = "ended" => Told(r), poller[r] # "panicked", rx[r] # "gone"
  PROVE  Keeps(r)
<1>0. CommonTypeOK /\ MailTypeOK /\ "lost" \in Place
      /\ rx \in [Receivers -> {"open", "closed", "gone"}]
      /\ queue \in [Receivers -> Seq(Messages \cup Actions)]
      /\ poller \in [Receivers -> PollerPlace]
  BY ShapeParts DEF ShapeOK, PollShapeOK, MailTypeOK, Place
<1>1. /\ \A s \in Receivers \ {r} : at'[s] = at[s]
      /\ \A m \in Messages : at'[r][m] = IF m \in some THEN "lost" ELSE at[r][m]
  BY <1>0, MoveAllAt
<1>2. queue'[r] = <<>> /\ rx'[r] = "gone" /\ poller'[r] = p
  BY <1>0
<1>3. Here(r)
  BY <1>0, <1>1 DEF Here
<1>4. FullInv => QueueFull(r)' /\ EventsFull(r)' /\ GoneInv(r)'
  BY <1>1, <1>2 DEF FullInv, QueueFull, EventsFull, GoneInv
<1>5. QED
  BY <1>2, <1>3, <1>4 DEF Keeps

LEMMA PanicKeeps ==
  ASSUME ShapeOK, NEW r \in Receivers, NEW some, PollerPanics(r, some), UNCHANGED events,
         poller[r] # "panicked", rx[r] # "gone"
  PROVE  Keeps(r)
<1>1. /\ MoveAll(r, some \cup Waiting(r) \cup Buffered(r), "lost")
      /\ poller' = [poller EXCEPT ![r] = "panicked"]
      /\ rx' = [rx EXCEPT ![r] = "gone"] /\ queue' = [queue EXCEPT ![r] = <<>>]
  BY DEF PollerPanics
<1>2. \A m \in Messages : at[r][m] = "queued" => m \in some \cup Waiting(r) \cup Buffered(r)
  BY DEF Waiting
<1>3. QED
  BY <1>1, <1>2, EndKeeps

\* The poller goes from one of its awaits to another, and takes an item or none,
\* and sends an event or none.
LEMMA GoesKeeps ==
  ASSUME ShapeOK, NEW r \in Receivers,
         NEW p \in PollerPlace \ {"ended", "panicked"}, poller' = [poller EXCEPT ![r] = p],
         poller[r] # "panicked", rx[r] # "gone", UNCHANGED rx,
         \A s \in Receivers \ {r} :
           at'[s] = at[s] /\ queue'[s] = queue[s] /\ events'[s] = events[s],
         \/ queue'[r] = queue[r]
         \/ /\ queue[r] # <<>> /\ queue'[r] = Tail(queue[r])
            /\ Incoming(r) \in Messages => at'[r][Incoming(r)] # "queued",
         \A m \in Messages : at'[r][m] = "queued" => at[r][m] = "queued",
         EventsFull(r) => EventsFull(r)'
  PROVE  Keeps(r)
<1>0. CommonTypeOK /\ poller \in [Receivers -> PollerPlace]
  BY DEF ShapeOK, PollShapeOK
<1>1. poller'[r] = p /\ Here(r)
  BY <1>0 DEF Here
<1>2. CASE queue'[r] = queue[r]
  BY <1>0, <1>1, <1>2 DEF Keeps, FullInv, QueueFull, GoneInv, Told
<1>3. CASE queue'[r] # queue[r]
  <2>1. FullInv => QueueFull(r)'
    BY <1>0, <1>3, TakenFull DEF FullInv
  <2>2. Told(r)' => Told(r)
    BY <1>0, <1>3, TakenTold
  <2>3. QED
    BY <1>1, <2>1, <2>2 DEF Keeps, FullInv, GoneInv
<1>4. QED
  BY <1>2, <1>3

\* The poller waits for something else, and may have spawned a task before.
LEMMA StillKeeps ==
  ASSUME ShapeOK, NEW r \in Receivers,
         NEW p \in PollerPlace \ {"ended", "panicked"}, poller' = [poller EXCEPT ![r] = p],
         poller[r] # "panicked", rx[r] # "gone", UNCHANGED mailVars
  PROVE  Keeps(r)
BY GoesKeeps DEF mailVars, EventsFull

\* The poller receives an action, or a message, which it holds.
LEMMA TakeKeeps ==
  ASSUME ShapeOK, NEW r \in Receivers,
         NEW p \in PollerPlace \ {"ended", "panicked"}, poller' = [poller EXCEPT ![r] = p],
         poller[r] # "panicked", rx[r] # "gone", Receive(r), UNCHANGED <<events, rx>>,
         \/ UNCHANGED at /\ Incoming(r) \notin Messages
         \/ Incoming(r) \in Messages /\ Move(r, Incoming(r), "held")
  PROVE  Keeps(r)
<1>0. /\ at \in [Receivers -> [Messages -> Place]]
      /\ queue \in [Receivers -> Seq(Messages \cup Actions)]
  BY DEF ShapeOK, CommonTypeOK, MailTypeOK
<1>1. /\ queue[r] # <<>> /\ queue'[r] = Tail(queue[r])
      /\ \A s \in Receivers \ {r} : queue'[s] = queue[s]
  BY <1>0 DEF Receive
<1>2. /\ \A s \in Receivers \ {r} : at'[s] = at[s]
      /\ \A m \in Messages : at'[r][m] = at[r][m] \/ at'[r][m] = "held"
      /\ Incoming(r) \in Messages => at'[r][Incoming(r)] # "queued"
  BY <1>0 DEF Move
<1>3. EventsFull(r) => EventsFull(r)'
  BY <1>2 DEF EventsFull
<1>4. QED
  BY <1>1, <1>2, <1>3, GoesKeeps

\* The poller sends a signal, or panics because the event loop is gone.
LEMMA EmitKeeps ==
  ASSUME ShapeOK, NEW r \in Receivers, NEW x \in Signals, NEW rest, PollerEmits(r, x, rest),
         poller[r] # "panicked", rx[r] # "gone",
         \/ rest = queue[r]
         \/ queue[r] # <<>> /\ rest = Tail(queue[r]) /\ Incoming(r) \notin Messages
  PROVE  Keeps(r)
<1>1. CASE ~srx[r]
  BY <1>1, PanicKeeps DEF PollerEmits
<1>2. CASE srx[r]
  <2>0. /\ CommonTypeOK /\ events \in [Receivers -> Seq(Messages \cup Signals)]
        /\ queue \in [Receivers -> Seq(Messages \cup Actions)]
        /\ Messages \cap Signals = {}
    BY MailboxAssumption DEF ShapeOK, CommonTypeOK, MailTypeOK
  <2>1. /\ poller' = [poller EXCEPT ![r] = "recv"]
        /\ events' = [events EXCEPT ![r] = Append(@, x)] /\ UNCHANGED <<at, rx>>
        /\ queue' = [queue EXCEPT ![r] = rest]
    BY <1>2 DEF PollerEmits
  <2>2. /\ events'[r] = Append(events[r], x) /\ queue'[r] = rest
        /\ \A s \in Receivers \ {r} : queue'[s] = queue[s] /\ events'[s] = events[s]
    BY <2>0, <2>1
  <2>3. EventsFull(r) => EventsFull(r)'
    BY <2>0, <2>1, <2>2, AddedFull
  <2>4. "recv" \in PollerPlace \ {"ended", "panicked"}
    BY DEF PollerPlace
  <2>5. QED
    BY <2>1, <2>2, <2>3, <2>4, GoesKeeps
<1>3. QED
  BY <1>1, <1>2

LEMMA CommonPollKeeps ==
  ASSUME ShapeOK, EndInv, NEW r \in Receivers,
         PollInitAction(r) \/ PollClose(r) \/ EndPoller(r)
  PROVE  Keeps(r)
<1>0. /\ CommonTypeOK /\ queue \in [Receivers -> Seq(Messages \cup Actions)]
      /\ rx \in [Receivers -> {"open", "closed", "gone"}]
      /\ Messages \cap Actions = {} /\ poller[r] = "recv" /\ rx[r] # "gone"
  BY MailboxAssumption
     DEF ShapeOK, CommonTypeOK, MailTypeOK, EndInv, PollInitAction, PollClose, EndPoller,
         PollerGoes
<1>1. CASE PollInitAction(r)
  <2>1. "Ready" \in Signals /\ Incoming(r) \notin Messages /\ queue[r] # <<>>
    BY <1>0, <1>1 DEF PollInitAction, Upcoming, Signals, Actions
  <2>2. QED
    BY <1>0, <1>1, <2>1, EmitKeeps DEF PollInitAction
<1>2. CASE PollClose(r)
  <2>1. /\ queue[r] # <<>> /\ queue'[r] = Tail(queue[r]) /\ Incoming(r) = "Close"
        /\ rx' = [rx EXCEPT ![r] = "closed"] /\ rx'[r] = "closed"
        /\ UNCHANGED <<at, events, poller>> /\ Incoming(r) \notin Messages
    BY <1>0, <1>2 DEF PollClose, Receive, pollVars, Actions
  <2>2. Here(r)
    BY <1>0, <1>2, <2>1 DEF PollClose, Receive, Here
  <2>3. FullInv => QueueFull(r)'
    BY <1>0, <2>1, TakenFull DEF FullInv
  <2>4. Told(r)
    <3>1. 1 \in DOMAIN queue[r] /\ queue[r][1] = "Close"
      BY <1>0, <2>1 DEF Incoming
    <3>2. QED
      BY <3>1 DEF Told, Carries
  <2>5. QED
    BY <1>0, <2>1, <2>2, <2>3, <2>4 DEF Keeps, FullInv, EventsFull, GoneInv
<1>3. CASE EndPoller(r)
  <2>1. /\ poller' = [poller EXCEPT ![r] = "ended"] /\ rx' = [rx EXCEPT ![r] = "gone"]
        /\ MoveAll(r, Buffered(r), "lost") /\ UNCHANGED <<queue, events>>
        /\ queue[r] = <<>> /\ rx[r] = "closed"
    BY <1>3 DEF EndPoller, PollerGoes
  <2>2. queue' = [queue EXCEPT ![r] = <<>>]
    BY <1>0, <2>1
  <2>3. FullInv => \A m \in Messages : at[r][m] # "queued"
    BY <2>1 DEF FullInv, QueueFull, Carries
  <2>4. QED
    BY <1>0, <2>1, <2>2, <2>3, EndKeeps DEF Told
<1>4. QED
  BY <1>1, <1>2, <1>3

LEMMA SynchronizedKeeps ==
  ASSUME ShapeOK, EndInv, NEW r \in Receivers, PollerInv(r), SynchronizedStep(r)
  PROVE  Keeps(r)
<1>0. /\ PollShapeOK /\ CommonTypeOK /\ MailTypeOK /\ Messages \cap Actions = {}
      /\ {"Init", "Flush", "Sync", "Close"} \subseteq Actions
      /\ {"Flushed", "Synchronized"} \subseteq Signals
      /\ {"recv", "await", "sync", "syncing"} \subseteq PollerPlace \ {"ended", "panicked"}
  BY ShapeParts, MailboxAssumption DEF ShapeOK, Actions, Signals, PollerPlace
<1>1. poller[r] \in {"recv", "await", "sync", "syncing"} /\ rx[r] # "gone"
  BY DEF SynchronizedStep, TakeMessage, TaskEnds, FlushAtOnce, AwaitMutex, SyncLocked,
     SyncReturns, PollerGoes, EndInv
<1>2. CASE TakeMessage(r) \/ AwaitMutex(r)
  BY <1>0, <1>1, <1>2, TakeKeeps DEF TakeMessage, AwaitMutex, PollerGoes
<1>3. CASE TaskEnds(r)
  <2>1. batches[r] # <<>> /\ Len(Current(r)) = 1
    BY <1>0, <1>3, BatchType DEF TaskEnds, PollerInv, Current
  <2>2. PICK m \in Messages : Current(r)[1] = m
    BY <1>0, <2>1, BatchType, MembersFacts
  <2>3. CASE srx[r]
    <3>1. /\ poller' = [poller EXCEPT ![r] = "recv"]
          /\ events' = [events EXCEPT ![r] = Append(@, m)]
          /\ Move(r, m, "answered") /\ UNCHANGED <<queue, rx>>
      BY <1>3, <2>2, <2>3 DEF TaskEnds
    <3>2. /\ events'[r] = Append(events[r], m)
          /\ \A s \in Receivers \ {r} : events'[s] = events[s] /\ at'[s] = at[s]
          /\ \A d \in Messages : at'[r][d] = IF d = m THEN "answered" ELSE at[r][d]
      BY <1>0, <3>1 DEF MailTypeOK, Move
    <3>3. EventsFull(r) => EventsFull(r)'
      BY <1>0, <3>2, AddedFull
    <3>4. QED
      BY <1>0, <1>1, <3>1, <3>2, <3>3, GoesKeeps
  <2>4. CASE ~srx[r]
    BY <1>1, <1>3, <2>4, PanicKeeps DEF TaskEnds
  <2>5. QED
    BY <2>3, <2>4
<1>4. CASE FlushAtOnce(r)
  BY <1>0, <1>1, <1>4, EmitKeeps DEF FlushAtOnce, Upcoming
<1>5. CASE SyncLocked(r)
  BY <1>0, <1>1, <1>5, StillKeeps DEF SyncLocked, PollerGoes
<1>6. CASE SyncReturns(r)
  BY <1>0, <1>1, <1>6, EmitKeeps DEF SyncReturns
<1>7. QED
  BY <1>2, <1>3, <1>4, <1>5, <1>6 DEF SynchronizedStep

LEMMA UnorderedBatchedKeeps ==
  ASSUME ShapeOK, EndInv, NEW r \in Receivers, UnorderedBatchedStep(r)
  PROVE  Keeps(r)
<1>0. /\ Messages \cap Actions = {} /\ {"Flush", "Sync"} \subseteq Actions
      /\ {"Flushed", "Synchronized"} \subseteq Signals
      /\ {"recv", "spawn", "drain", "flush", "sync", "syncing"}
           \subseteq PollerPlace \ {"ended", "panicked"}
  BY MailboxAssumption DEF Actions, Signals, PollerPlace
<1>1. /\ poller[r] \in {"recv", "spawn", "drain", "flush", "sync", "syncing"}
      /\ rx[r] # "gone"
  BY DEF UnorderedBatchedStep, BufferMessage, SpawnPermitted, Drain, FlushAll, AwaitPermits,
     SyncPermitted, SyncReleases, PollerGoes, EndInv
<1>2. CASE BufferMessage(r)
  <2>1. PICK p \in {"recv", "spawn"} : poller' = [poller EXCEPT ![r] = p]
    BY <1>2 DEF BufferMessage, PollerGoes
  <2>2. /\ Receive(r) /\ Incoming(r) \in Messages /\ Move(r, Incoming(r), "held")
        /\ UNCHANGED <<events, rx>>
    BY <1>2 DEF BufferMessage, Buffer
  <2>3. p \in PollerPlace \ {"ended", "panicked"}
    BY <1>0
  <2>4. QED
    BY <1>1, <2>1, <2>2, <2>3, TakeKeeps
<1>3. CASE Drain(r) \/ AwaitPermits(r)
  <2>1. PICK p \in {"drain", "flush", "sync"} : poller' = [poller EXCEPT ![r] = p]
    BY <1>3 DEF Drain, AwaitPermits, PollerGoes
  <2>2. /\ Receive(r) /\ Incoming(r) \notin Messages /\ UNCHANGED <<at, events, rx>>
    BY <1>0, <1>3 DEF Drain, AwaitPermits
  <2>3. p \in PollerPlace \ {"ended", "panicked"}
    BY <1>0
  <2>4. QED
    BY <1>1, <2>1, <2>2, <2>3, TakeKeeps
<1>4. CASE SpawnPermitted(r, "spawn", "recv") \/ SpawnPermitted(r, "drain", "flush")
           \/ SyncPermitted(r)
  <2>1. /\ \E p \in {"recv", "flush", "syncing"} : poller' = [poller EXCEPT ![r] = p]
        /\ UNCHANGED mailVars
    BY <1>4 DEF SpawnPermitted, SyncPermitted, PollerGoes
  <2>2. QED
    BY <1>0, <1>1, <2>1, StillKeeps
<1>5. CASE FlushAll(r) \/ SyncReleases(r)
  BY <1>0, <1>1, <1>5, EmitKeeps DEF FlushAll, SyncReleases
<1>6. QED
  BY <1>2, <1>3, <1>4, <1>5 DEF UnorderedBatchedStep

LEMMA SynchronizedBatchedKeeps ==
  ASSUME ShapeOK, EndInv, NEW r \in Receivers, SynchronizedBatchedStep(r)
  PROVE  Keeps(r)
<1>0. /\ CommonTypeOK /\ MailTypeOK
      /\ Messages \cap Actions = {} /\ {"Flush", "Sync"} \subseteq Actions
      /\ {"Flushed", "Synchronized"} \subseteq Signals
      /\ {"recv", "sync", "syncing"} \subseteq PollerPlace \ {"ended", "panicked"}
  BY ShapeParts, MailboxAssumption DEF ShapeOK, Actions, Signals, PollerPlace
<1>1. poller[r] \in {"recv", "sync", "syncing"} /\ rx[r] # "gone"
  BY DEF SynchronizedBatchedStep, CollectMessage, HandOver, Compete, SyncWins, SyncUnlocks,
     PollerGoes, EndInv
<1>2. CASE CollectMessage(r) \/ Compete(r)
  BY <1>0, <1>1, <1>2, TakeKeeps DEF CollectMessage, Compete, PollerGoes
<1>3. CASE HandOver(r) /\ srx[r]
  <2>1. /\ events' = [events EXCEPT ![r] = Append(@, "Flushed")]
        /\ queue' = [queue EXCEPT ![r] = Tail(@)] /\ UNCHANGED <<at, rx, poller>>
        /\ poller[r] = "recv" /\ queue[r] # <<>> /\ Incoming(r) \notin Messages
    BY <1>0, <1>3 DEF HandOver, Upcoming
  <2>2. /\ poller' = [poller EXCEPT ![r] = "recv"]
        /\ events'[r] = Append(events[r], "Flushed") /\ queue'[r] = Tail(queue[r])
        /\ \A s \in Receivers \ {r} : events'[s] = events[s] /\ queue'[s] = queue[s]
    BY <1>0, <2>1 DEF MailTypeOK, ShapeOK, PollShapeOK
  <2>3. EventsFull(r) => EventsFull(r)'
    BY <1>0, <2>1, <2>2, AddedFull
  <2>4. QED
    BY <1>0, <1>1, <2>1, <2>2, <2>3, GoesKeeps
<1>4. CASE HandOver(r) /\ ~srx[r]
  <2>1. /\ poller' = [poller EXCEPT ![r] = "panicked"]
        /\ rx' = [rx EXCEPT ![r] = "gone"] /\ queue' = [queue EXCEPT ![r] = <<>>]
        /\ MoveAll(r, Waiting(r), "lost") /\ UNCHANGED events
    BY <1>4 DEF HandOver
  <2>2. \A m \in Messages : at[r][m] = "queued" => m \in Waiting(r)
    BY DEF Waiting
  <2>3. QED
    BY <1>1, <2>1, <2>2, EndKeeps
<1>5. CASE SyncWins(r)
  BY <1>0, <1>1, <1>5, StillKeeps DEF SyncWins, PollerGoes
<1>6. CASE SyncUnlocks(r)
  BY <1>0, <1>1, <1>6, EmitKeeps DEF SyncUnlocks
<1>7. QED
  BY <1>2, <1>3, <1>4, <1>5, <1>6 DEF SynchronizedBatchedStep

\* What a task does, which is all there is left to do after its poller has ended.
LEMMA MixedTaskKeeps ==
  ASSUME ShapeOK, EndInv, NEW r \in Receivers, NEW b \in Seq(Messages),
         \/ HandlerStarts(r, b) \/ HandlerReturns(r, b) \/ Respond(r, b)
         \/ HandlerPanics(r, b)
  PROVE  Keeps(r)
<1>0. /\ CommonTypeOK /\ MailTypeOK /\ {"running", "handled", "lost", "answered"} \subseteq Place
      /\ events \in [Receivers -> Seq(Messages \cup Signals)]
  BY ShapeParts DEF ShapeOK, MailTypeOK, Place
<1>1. UNCHANGED <<queue, rx, poller>>
  BY DEF HandlerStarts, HandlerReturns, Respond, HandlerPanics, pollVars
<1>2. ASSUME \A s \in Receivers \ {r} : at'[s] = at[s] /\ events'[s] = events[s],
             \A m \in Messages : \/ at'[r][m] = at[r][m]
                                 \/ /\ at[r][m] \in {"held", "running", "handled"}
                                    /\ at'[r][m] \in {"running", "handled", "answered", "lost"},
             EventsFull(r) => EventsFull(r)'
      PROVE  Keeps(r)
  BY <1>1, <1>2 DEF Keeps, Here, FullInv, QueueFull, GoneInv, Told, EndInv, InFlight
<1>3. ASSUME NEW some, NEW p \in {"running", "handled", "lost"}, MoveAll(r, some, p),
             \A m \in Messages : m \in some => at[r][m] \in {"held", "running", "handled"},
             UNCHANGED events
      PROVE  Keeps(r)
  <2>1. /\ \A s \in Receivers \ {r} : at'[s] = at[s]
        /\ \A m \in Messages : at'[r][m] = IF m \in some THEN p ELSE at[r][m]
    BY <1>0, <1>3, MoveAllAt
  <2>2. EventsFull(r) => EventsFull(r)'
    BY <1>3, <2>1 DEF EventsFull
  <2>3. QED
    BY <1>2, <1>3, <2>1, <2>2
<1>4. CASE HandlerStarts(r, b)
  BY <1>3, <1>4 DEF HandlerStarts
<1>5. CASE HandlerReturns(r, b)
  BY <1>3, <1>5 DEF HandlerReturns
<1>6. CASE HandlerPanics(r, b)
  BY <1>3, <1>6 DEF HandlerPanics
<1>7. CASE Respond(r, b)
  <2>1. PICK i \in Unreported(r, b) :
          /\ IF srx[r]
             THEN /\ events' = [events EXCEPT ![r] = Append(@, b[i])]
                  /\ Move(r, b[i], "answered")
             ELSE /\ MoveAll(r, {b[j] : j \in Unreported(r, b)}, "lost")
                  /\ UNCHANGED events
    BY <1>7 DEF Respond
  <2>2. PICK m \in Messages : m = b[i] /\ at[r][m] = "handled"
    BY DEF Unreported
  <2>3. CASE srx[r]
    <3>1. events' = [events EXCEPT ![r] = Append(@, m)] /\ Move(r, m, "answered")
      BY <2>1, <2>2, <2>3
    <3>2. /\ events'[r] = Append(events[r], m)
          /\ \A s \in Receivers \ {r} : events'[s] = events[s] /\ at'[s] = at[s]
          /\ \A d \in Messages : at'[r][d] = IF d = m THEN "answered" ELSE at[r][d]
      BY <1>0, <3>1, MoveAt
    <3>3. EventsFull(r) => EventsFull(r)'
      BY <1>0, <3>2, AddedFull
    <3>4. QED
      BY <1>2, <2>2, <3>2, <3>3
  <2>4. CASE ~srx[r]
    <3> DEFINE some == {b[j] : j \in Unreported(r, b)}
    <3>1. \A c \in some : at[r][c] = "handled"
      BY DEF Unreported
    <3>2. MoveAll(r, some, "lost") /\ UNCHANGED events
      BY <2>1, <2>4
    <3> HIDE DEF some
    <3>3. QED
      BY <1>3, <3>1, <3>2
  <2>5. QED
    BY <2>3, <2>4
<1>8. QED
  BY <1>4, <1>5, <1>6, <1>7

LEMMA TaskPanicsKeeps ==
  ASSUME ShapeOK, EndInv, NEW r \in Receivers, TaskPanics(r)
  PROVE  Keeps(r)
<1>1. poller[r] # "panicked" /\ rx[r] # "gone"
  BY DEF TaskPanics, EndInv
<1>2. QED
  BY <1>1, PanicKeeps DEF TaskPanics

\* A step that is not of a poller or a task.
LEMMA OutsideDrain ==
  ASSUME DrainInv, FullInv', CloseInv(Panicked) => \A dead : dead = Panicked => CloseInv(dead)',
         UNCHANGED <<rx, poller>>
  PROVE  DrainInv'
<1>1. EndInv'
  BY DEF DrainInv, EndInv
<1>2. CloseInv(Panicked)'
  <2>1. PICK dead : dead = Panicked
    OBVIOUS
  <2>2. CloseInv(dead)' /\ Panicked' = dead
    BY <2>1 DEF DrainInv, Panicked
  <2>3. QED
    BY <2>2 DEF CloseInv, CloseCall, Settled
<1>3. QED
  BY <1>1, <1>2 DEF DrainInv

LEMMA StepDrain ==
  ASSUME Core, DrainInv, [Next]_vars
  PROVE  DrainInv'
<1>0. /\ ShapeOK /\ CommonTypeOK /\ Visiting /\ BusInv /\ FullInv /\ EndInv
      /\ PollShapeOK /\ \A r \in Receivers : PollerInv(r)
  BY DEF Core, ShapeOK, Rest, Parts, DrainInv
<1>1. ASSUME NEW c \in Calls, Make(c) \/ Call(c) \/ Drop(c) \/ Timer(c)
      PROVE  DrainInv'
  <2>1. UNCHANGED <<rx, poller>>
    <3>1. CASE c \in Messages
      BY <1>1, <3>1, ReceiverAssumption
         DEF Make, Call, Drop, Timer, pollVars, MessageStep, StartSend, StartRequest, Abandon,
         Reserve, PollReserve, TryReserve, DropPermit, Bump, Send, SendMessage, Mark, Answered,
         mailVars
    <3>2. CASE c \in Controls
      BY <1>1, <3>2, ReceiverAssumption
         DEF Make, Call, Drop, Timer, pollVars, ControlStep, StartControl, StartClose, TimeOut,
         Check, Register, Push, PushFails, PollFlushed, UnparkFlushed, CheckIdle, CheckReady,
         Awake, SendAction, mailVars
    <3>3. QED
      BY <3>1, <3>2 DEF Calls
  <2>2. CASE c \in Messages
    <3>1. StartSend(c) \/ StartRequest(c) \/ Abandon(c) \/ MessageStep(c)
      BY <1>1, <2>2, ReceiverAssumption DEF Make, Call, Drop, Timer
    <3>2. FullInv'
      BY <1>0, <2>2, <3>1, MessageFull
    <3>3. QED
      BY <1>0, <2>1, <2>2, <3>1, <3>2, MessageClose, OutsideDrain
  <2>3. CASE c \in Controls
    <3>1. StartControl(c) \/ StartClose(c) \/ TimeOut(c) \/ ControlStep(c)
      BY <1>1, <2>3, ReceiverAssumption DEF Make, Call, Drop, Timer
    <3>2. FullInv'
      BY <1>0, <2>3, <3>1, ControlFull
    <3>3. QED
      BY <1>0, <2>1, <2>3, <3>1, <3>2, ControlClose, OutsideDrain
  <2>4. QED
    BY <2>2, <2>3 DEF Calls
<1>2. ASSUME NEW r \in Receivers, EventLoop(r)
      PROVE  DrainInv'
  <2>1. UNCHANGED <<rx, poller>> /\ LoopStep(r) /\ UNCHANGED busVars
    BY <1>2 DEF EventLoop, pollVars, LoopStep, OnResponse, Deliver, DeliverPanics, NotifyIdle,
       NotifyResponse, OnFlushed, NotifyFlushed, OnReady, SetReady, OnSynchronized, EndLoop,
       TakeEvent, mailVars
  <2>2. FullInv'
    BY <1>0, <2>1, LoopFull
  <2>3. QED
    BY <1>0, <2>1, <2>2, LoopClose, OutsideDrain
<1>3. ASSUME NEW r \in Receivers, Poller(r)
      PROVE  DrainInv'
  <2>1. Keeps(r)
    BY <1>0, <1>3, CommonPollKeeps, SynchronizedKeeps, UnorderedBatchedKeeps,
       SynchronizedBatchedKeeps DEF Poller
  <2>2. QED
    BY <1>0, <1>3, <2>1, KeepsDrain DEF Poller, outsidePoller
<1>4. ASSUME NEW r \in Receivers, NEW i \in DOMAIN batches[r],
             Task(r, batches[r][i]) \/ Panic(r, batches[r][i])
      PROVE  DrainInv'
  <2>1. PICK b \in Seq(Messages) : b = batches[r][i]
    BY <1>0, BatchType
  <2>2. Keeps(r)
    BY <1>0, <1>4, <2>1, MixedTaskKeeps, TaskPanicsKeeps DEF Task, Panic
  <2>3. QED
    BY <1>0, <1>4, <2>2, KeepsDrain DEF Task, Panic, outsidePoller
<1>5. CASE UNCHANGED vars
  <2>1. FullInv'
    BY <1>0, <1>5 DEF FullInv, QueueFull, EventsFull, GoneInv, vars, mailVars
  <2>2. UNCHANGED <<at, queue, rx, poller, wrapperVars, busVars>>
    BY <1>5 DEF vars, mailVars, pollVars
  <2>3. ASSUME NEW dead, CloseInv(dead)
        PROVE  CloseInv(dead)'
    BY <1>0, <2>2, <2>3, InsideClose DEF Told
  <2>4. QED
    BY <2>1, <2>2, <2>3, OutsideDrain
<1>6. QED
  BY <1>1, <1>2, <1>3, <1>4, <1>5 DEF Next, Finished

LEMMA InitDrain == Init => DrainInv
<1>1. SUFFICES ASSUME Init
               PROVE  DrainInv
  OBVIOUS
<1>2. FullInv /\ CloseInv(Panicked)
  BY <1>1, InitClose DEF Init
<1>3. EndInv
  BY <1>1 DEF Init, MailInit, PollInit, EndInv
<1>4. QED
  BY <1>2, <1>3 DEF DrainInv

\* When close returns, every receiver it visited, of whatever kind and behind
\* whatever mutex, has ended with no message under way, not in a task that its
\* poller did not await either, or was given up after 20 seconds, or has panicked.
THEOREM MixedClose == Spec => []CloseDrains
<1>1. Init => Core /\ DrainInv
  BY InitCore, InitDrain
<1>2. Core /\ DrainInv /\ [Next]_vars => Core' /\ DrainInv'
  BY StepCore, StepDrain
<1>3. DrainInv => CloseDrains
  <2>1. SUFFICES ASSUME DrainInv, NEW c \in Controls, Op[c] = "close", pc[c] = "done",
                        NEW i \in DOMAIN Route[c], ~GivenUp(Route[c][i]),
                        poller[Route[c][i]] # "panicked"
                 PROVE  Copies(Route[c][i], InFlight) = {}
    BY DEF CloseDrains, InFlight
  <2>2. Settled(Panicked, Route[c][i])
    BY <2>1 DEF DrainInv, CloseInv, CloseCall
  <2>3. QED
    BY <2>1, <2>2 DEF Settled, Panicked, Drained
<1>4. QED
  BY <1>1, <1>2, <1>3, PTL DEF Spec
---------------------------------------------------------------------------
(* Flushes and syncs. *)

Flushing == {r \in Receivers : poller[r] \in {"drain", "flush"}}
Syncing == {r \in Receivers : poller[r] \in {"sync", "syncing"}}

\* What the control b promises of r: what FlushCovers and SyncCovers say.
Covered(b, r) ==
  IF Op[b] = "flush"
  THEN \A m \in before[b] :
         /\ at[r][m] # "queued"
         /\ m \notin Buffered(r)
         /\ kind[r] # "synchronized_batched" => at[r][m] \notin {"held", "running"}
  ELSE /\ \A m \in before[b] : at[r][m] # "queued"
       /\ kind[r] # "synchronized_batched" =>
            Cardinality(before[b] \cap Copies(r, {"held", "running"})) < BatchSize[r]

Clear == {p \in Controls \X Receivers : Covered(p[1], p[2])}

\* The poller of r has ended with nothing left of what a control waits for.
Over ==
  {r \in Receivers :
     /\ rx[r] = "gone"
     /\ buffer[r] = <<>>
     /\ \A m \in Messages : at[r][m] # "queued"
     /\ kind[r] # "synchronized_batched" =>
          \A m \in Messages : at[r][m] \notin {"held", "running"}}

\* What is held is in the buffer or in a task; a poller that receives or
\* synchronizes has less than a batch in its buffer, and one that flushes nothing.
RestInv(r) ==
  /\ \A m \in Messages : at[r][m] = "held" =>
       m \in Buffered(r) \/ \E i \in DOMAIN batches[r] : m \in Members(batches[r][i])
  /\ poller[r] = "flush" => buffer[r] = <<>>
  /\ poller[r] \in {"recv", "sync", "syncing"} => Len(buffer[r]) < BatchSize[r]

\* What a control is to cover is not queued any more when its Flush or Sync is
\* taken.
TakenInv ==
  \A r \in Receivers, b \in Controls :
    /\ Barrier(b, r) /\ Active(b)
    /\ \/ Op[b] = "flush" /\ r \in Flushing
       \/ Op[b] = "sync" /\ r \in Syncing
    => \A m \in before[b] : at[r][m] # "queued"

CoversInv ==
  /\ \A r \in Receivers : RestInv(r)
  /\ TakenInv
  /\ CoverInv(Flushing, Syncing, Clear, Over)

\* Only the buffer has what is not handled yet.
Rested(r) ==
  \A m \in Messages : at[r][m] \in {"held", "running"} =>
    kind[r] = "synchronized_batched" \/ m \in Buffered(r)

\* What a step of the poller of r or its tasks may do: the items it takes go to the
\* buffer or a task; it answers a Flush with an empty buffer and, unless tasks go on
\* without it, no task; a Sync with a buffer only.
Strides(r) ==
  /\ kind' = kind
  /\ \A m \in Messages :
       /\ at'[r][m] = "queued" => at[r][m] = "queued"
       /\ at'[r][m] \in {"held", "running"} =>
            \/ at[r][m] \in {"held", "running"}
            \/ at[r][m] = "queued" /\ Receive(r)
  /\ Buffered(r)' \subseteq Buffered(r) \cup Waiting(r)
  /\ queue'[r] = queue[r] \/ Receive(r) \/ queue'[r] = <<>>
  /\ r \in Flushing' => r \in Flushing \/ (Receive(r) /\ Incoming(r) = "Flush")
  /\ r \in Syncing' => r \in Syncing \/ (Receive(r) /\ Incoming(r) = "Sync")
  /\ \/ events'[r] = events[r]
     \/ \E x : /\ events'[r] = Append(events[r], x)
               /\ x = "Flushed" =>
                    /\ r \in Flushing \/ (Receive(r) /\ Incoming(r) = "Flush")
                    /\ Rested(r)' /\ buffer'[r] = <<>>
               /\ x = "Synchronized" =>
                    r \in Syncing /\ poller'[r] = "recv" /\ Rested(r)'
  /\ rx'[r] # "open" =>
       \/ rx[r] # "open"
       \/ Carries(queue[r], "Close")
       \/ r \in Over'

LEMMA PanicStrides ==
  ASSUME ShapeOK, NEW r \in Receivers, RestInv(r), NEW some, PollerPanics(r, some),
         UNCHANGED <<events, kind, batches>>,
         \A m \in Messages : at[r][m] \in {"held", "running"} =>
           kind[r] = "synchronized_batched" \/ m \in Buffered(r) \/ m \in some
  PROVE  Strides(r) /\ RestInv(r)'
<1>0. MailTypeOK /\ PollShapeOK /\ "lost" \in Place
  BY ShapeParts DEF ShapeOK, Place
<1>1. \A m \in Messages : at'[r][m] =
        IF m \in some \cup Waiting(r) \cup Buffered(r) THEN "lost" ELSE at[r][m]
  BY <1>0, MoveAllAt DEF PollerPanics
<1>2. /\ queue'[r] = <<>> /\ rx'[r] = "gone" /\ poller'[r] = "panicked" /\ buffer'[r] = <<>>
  BY <1>0 DEF PollerPanics, MailTypeOK, PollShapeOK
<1>3. Buffered(r)' = {}
  BY <1>2, EmptyFacts DEF Buffered
<1>4. \A m \in Messages : at'[r][m] # "queued"
  BY <1>1 DEF Waiting
<1>5. \A m \in Messages : at'[r][m] \in {"held", "running"} =>
        /\ at'[r][m] = at[r][m] /\ m \notin Buffered(r)
        /\ kind[r] = "synchronized_batched"
  BY <1>1
<1>6. RestInv(r)'
  BY <1>2, <1>5 DEF RestInv
<1>7. r \in Over'
  BY <1>2, <1>4, <1>5 DEF Over
<1>8. r \notin Flushing' /\ r \notin Syncing'
  BY <1>2 DEF Flushing, Syncing
<1>9. Strides(r)
  BY <1>2, <1>3, <1>4, <1>5, <1>7, <1>8 DEF Strides
<1>10. QED
  BY <1>6, <1>9

LEMMA EmitStrides ==
  ASSUME ShapeOK, NEW r \in Receivers, RestInv(r), NEW x \in Signals, NEW rest,
         PollerEmits(r, x, rest), UNCHANGED <<kind, batches>>, Rested(r),
         poller[r] \in {"recv", "flush", "syncing"},
         rest = queue[r] \/ (queue[r] # <<>> /\ rest = Tail(queue[r])),
         x = "Flushed" =>
           /\ buffer[r] = <<>>
           /\ poller[r] = "flush" \/ (rest = Tail(queue[r]) /\ Incoming(r) = "Flush"),
         x = "Flushed" /\ poller[r] # "flush" => queue[r] # <<>>,
         x = "Synchronized" => poller[r] = "syncing"
  PROVE  Strides(r) /\ RestInv(r)'
<1>1. CASE ~srx[r]
  BY <1>1, PanicStrides DEF PollerEmits, Rested
<1>2. CASE srx[r]
  <2>1. /\ poller'[r] = "recv" /\ events'[r] = Append(events[r], x)
        /\ queue' = [queue EXCEPT ![r] = rest] /\ UNCHANGED <<at, rx, buffer>>
    BY <1>2 DEF PollerEmits, ShapeOK, PollShapeOK, CommonTypeOK, MailTypeOK
  <2>2. queue'[r] = queue[r] \/ (Receive(r) /\ rest = Tail(queue[r]))
    <3>1. CASE rest = queue[r]
      BY <2>1, <3>1 DEF ShapeOK, CommonTypeOK, MailTypeOK
    <3>2. CASE queue[r] # <<>> /\ rest = Tail(queue[r])
      BY <2>1, <3>2 DEF Receive
    <3>3. QED
      BY <3>1, <3>2
  <2>3. Buffered(r)' = Buffered(r) /\ (Rested(r)' <=> Rested(r))
    BY <2>1 DEF Rested, Buffered
  <2>4. x = "Flushed" => r \in Flushing \/ (Receive(r) /\ Incoming(r) = "Flush")
    BY <2>1 DEF Flushing, Receive
  <2>5. r \notin Flushing' /\ r \notin Syncing'
    BY <2>1 DEF Flushing, Syncing
  <2>6. Strides(r)
    BY <2>1, <2>2, <2>3, <2>4, <2>5 DEF Strides, Syncing
  <2>7. Len(buffer[r]) < BatchSize[r]
    <3>1. poller[r] = "flush" => Len(buffer[r]) = 0
      BY EmptyFacts DEF RestInv
    <3>2. BatchSize[r] \in Nat \ {0}
      BY PollersAssumption
    <3>3. QED
      BY <3>1, <3>2 DEF RestInv
  <2>8. RestInv(r)'
    BY <2>1, <2>3, <2>7 DEF RestInv
  <2>9. QED
    BY <2>6, <2>8
<1>3. QED
  BY <1>1, <1>2

LEMMA CommonPollStrides ==
  ASSUME ShapeOK, NEW r \in Receivers, InitFirst(r), RestInv(r),
         PollInitAction(r) \/ PollClose(r) \/ EndPoller(r)
  PROVE  Strides(r) /\ RestInv(r)'
<1>0. /\ PollShapeOK /\ MailTypeOK /\ queue \in [Receivers -> Seq(Messages \cup Actions)]
  BY ShapeParts DEF ShapeOK, MailTypeOK
<1>1. queue[r] # <<>> => Carries(queue[r], Incoming(r))
  BY <1>0, TailFacts DEF Carries, Incoming
<1>2. CASE PollInitAction(r)
  <2>1. Rested(r)
    BY <1>1, <1>2 DEF PollInitAction, Upcoming, InitFirst, Rested
  <2>2. "Ready" \in Signals
    BY DEF Signals
  <2>3. QED
    BY <1>2, <2>1, <2>2, EmitStrides DEF PollInitAction, Upcoming
<1>3. CASE PollClose(r)
  <2>1. /\ Receive(r) /\ Carries(queue[r], "Close")
        /\ UNCHANGED <<at, events, kind, poller, buffer, batches>>
    BY <1>1, <1>3 DEF PollClose, pollVars, Receive
  <2>2. QED
    BY <2>1 DEF Strides, RestInv, Buffered, Flushing, Syncing
<1>4. CASE EndPoller(r)
  <2>1. /\ poller'[r] = "ended" /\ buffer'[r] = <<>> /\ rx[r] = "closed" /\ rx'[r] = "gone"
        /\ UNCHANGED <<queue, events, kind, batches>>
        /\ \A m \in Messages : at'[r][m] = IF m \in Buffered(r) THEN "lost" ELSE at[r][m]
    BY <1>0, <1>4, MoveAllAt DEF EndPoller, PollerGoes, MailTypeOK, PollShapeOK, Place
  <2>2. Buffered(r)' = {}
    BY <2>1, EmptyFacts DEF Buffered
  <2>3. RestInv(r)'
    BY <2>1 DEF RestInv
  <2>4. Strides(r)
    BY <2>1, <2>2 DEF Strides, Flushing, Syncing
  <2>5. QED
    BY <2>3, <2>4
<1>5. QED
  BY <1>2, <1>3, <1>4

\* A message is received and held, in the buffer or in a task.
LEMMA HoldStrides ==
  ASSUME ShapeOK, NEW r \in Receivers, RestInv(r), NEW c \in Messages, c = Incoming(r),
         Receive(r), Move(r, c, "held"), UNCHANGED <<rx, events, kind>>,
         poller[r] = "recv",
         poller'[r] \in {"recv", "await", "spawn"},
         poller'[r] = "recv" => Len(buffer'[r]) < BatchSize[r],
         \A m \in Messages : m \in Buffered(r) \/ m = c =>
           m \in Buffered(r)' \/ \E i \in DOMAIN batches'[r] : m \in Members(batches'[r][i]),
         Buffered(r)' \subseteq Buffered(r) \cup {c}, at[r][c] = "queued",
         \A i \in DOMAIN batches[r] :
           i \in DOMAIN batches'[r] /\ batches'[r][i] = batches[r][i]
  PROVE  Strides(r) /\ RestInv(r)'
<1>1. \A m \in Messages : at'[r][m] = IF m = c THEN "held" ELSE at[r][m]
  BY ShapeParts, MoveAt DEF Place
<1>2. RestInv(r)'
  <2>1. ASSUME NEW m \in Messages, at'[r][m] = "held"
        PROVE  m \in Buffered(r)' \/ \E i \in DOMAIN batches'[r] : m \in Members(batches'[r][i])
    BY <1>1, <2>1 DEF RestInv
  <2>2. QED
    BY <2>1 DEF RestInv
<1>3. Buffered(r)' \subseteq Buffered(r) \cup Waiting(r)
  BY DEF Waiting
<1>4. Strides(r)
  BY <1>1, <1>3 DEF Strides, Flushing, Syncing
<1>5. QED
  BY <1>2, <1>4

\* The poller receives an action, or none, and waits for something else.
LEMMA WaitStrides ==
  ASSUME ShapeOK, NEW r \in Receivers, RestInv(r),
         UNCHANGED <<at, rx, events, kind>>,
         UNCHANGED queue \/ Receive(r),
         r \in Flushing' => r \in Flushing \/ (Receive(r) /\ Incoming(r) = "Flush"),
         r \in Syncing' => r \in Syncing \/ (Receive(r) /\ Incoming(r) = "Sync"),
         poller'[r] \in PollerPlace,
         poller'[r] = "flush" => buffer'[r] = <<>>,
         poller'[r] \in {"recv", "sync", "syncing"} => Len(buffer'[r]) < BatchSize[r],
         Buffered(r)' \subseteq Buffered(r),
         \A m \in Buffered(r) :
           m \in Buffered(r)' \/ \E i \in DOMAIN batches'[r] : m \in Members(batches'[r][i]),
         \A i \in DOMAIN batches[r] :
           i \in DOMAIN batches'[r] /\ batches'[r][i] = batches[r][i]
  PROVE  Strides(r) /\ RestInv(r)'
<1>1. RestInv(r)'
  <2>1. ASSUME NEW m \in Messages, at'[r][m] = "held"
        PROVE  m \in Buffered(r)' \/ \E i \in DOMAIN batches'[r] : m \in Members(batches'[r][i])
    BY <2>1 DEF RestInv
  <2>2. QED
    BY <2>1 DEF RestInv
<1>2. Strides(r)
  BY DEF Strides
<1>3. QED
  BY <1>1, <1>2

LEMMA SynchronizedStrides ==
  ASSUME ShapeOK, BusInv, NEW r \in Receivers, Parts(r), RestInv(r), UNCHANGED accepted,
         kind[r] = "synchronized", SynchronizedStep(r)
  PROVE  Strides(r) /\ RestInv(r)'
<1>0. /\ PollShapeOK /\ MailTypeOK /\ PollerInv(r) /\ buffer[r] = <<>>
      /\ BatchSize[r] \in Nat \ {0} /\ Messages \cap Signals = {}
      /\ Len(buffer[r]) = 0
  BY ShapeParts, PollersAssumption, MailboxAssumption, EmptyFacts
     DEF ShapeOK, Parts, PollerInv
<1>1. \A m \in Messages : at[r][m] \in {"held", "running"} =>
        poller[r] = "await" /\ m \in Members(Current(r))
  BY <1>0, MembersOne DEF PollerInv
<1>2. poller[r] # "await" => Rested(r)
  BY <1>1 DEF Rested
<1>3. {"Flushed", "Synchronized"} \subseteq Signals
  BY DEF Signals
<1>4. CASE TakeMessage(r)
  <2>1. PICK c \in Messages : c = Incoming(r)
    BY <1>4 DEF TakeMessage
  <2>2. /\ Receive(r) /\ Move(r, c, "held") /\ UNCHANGED <<rx, events, kind, buffer>>
        /\ batches' = [batches EXCEPT ![r] = Append(@, <<c>>)]
        /\ poller[r] = "recv" /\ poller'[r] = "await"
    BY <1>0, <1>4, <2>1 DEF TakeMessage, PollerGoes, PollShapeOK
  <2>3. /\ \A i \in DOMAIN batches[r] :
             i \in DOMAIN batches'[r] /\ batches'[r][i] = batches[r][i]
        /\ \E i \in DOMAIN batches'[r] : c \in Members(batches'[r][i])
    <3>1. <<c>> \in Seq(Messages) /\ c \in Members(<<c>>)
      BY OneFacts, MembersOne
    <3>2. batches[r] \in Seq(Seq(Messages)) /\ batches'[r] = Append(batches[r], <<c>>)
      BY <1>0, <2>2, <3>1, BatchType, BatchesType
    <3>3. QED
      BY <3>1, <3>2, AppendFacts
  <2>4. Buffered(r)' = Buffered(r) /\ Buffered(r) = {}
    BY <1>0, <2>2, EmptyFacts DEF Buffered
  <2>5. at[r][c] = "queued"
    BY <2>1, <2>2, Taken
  <2>6. QED
    BY <2>1, <2>2, <2>3, <2>4, <2>5, HoldStrides
<1>5. CASE TaskEnds(r)
  <2>1. CASE ~srx[r]
    <3>1. PollerPanics(r, Members(Current(r))) /\ UNCHANGED <<events, kind, batches>>
      BY <1>5, <2>1 DEF TaskEnds
    <3>2. QED
      BY <1>1, <3>1, PanicStrides
  <2>2. CASE srx[r]
    <3>1. batches[r] # <<>> /\ Len(Current(r)) = 1
      BY <1>0, <1>5, BatchType DEF TaskEnds, PollerInv, Current
    <3>2. PICK c \in Messages : c = Current(r)[1]
      BY <1>0, <3>1, BatchType, MembersFacts
    <3>3. /\ \A m \in Messages : at'[r][m] = IF m = c THEN "answered" ELSE at[r][m]
          /\ events'[r] = Append(events[r], c) /\ c # "Flushed" /\ c # "Synchronized"
          /\ poller'[r] = "recv" /\ UNCHANGED <<queue, rx, buffer, kind, batches>>
      BY <1>0, <1>3, <1>5, <2>2, <3>2, MoveAt DEF TaskEnds, MailTypeOK, PollShapeOK, Place
    <3>4. Buffered(r)' = Buffered(r)
      BY <3>3 DEF Buffered
    <3>5. RestInv(r)'
      BY <1>0, <3>3, <3>4 DEF RestInv
    <3>6. Strides(r)
      BY <3>3, <3>4 DEF Strides, Flushing, Syncing
    <3>7. QED
      BY <3>5, <3>6
  <2>3. QED
    BY <2>1, <2>2
<1>6. CASE FlushAtOnce(r)
  BY <1>0, <1>2, <1>3, <1>6, EmitStrides DEF FlushAtOnce, Upcoming
<1>7. CASE AwaitMutex(r) \/ SyncLocked(r)
  <2>1. /\ UNCHANGED <<at, rx, events, kind, buffer, batches>>
        /\ \/ Receive(r) /\ Incoming(r) = "Sync" /\ poller'[r] = "sync"
           \/ UNCHANGED queue /\ poller[r] = "sync" /\ poller'[r] = "syncing"
    BY <1>0, <1>7 DEF AwaitMutex, SyncLocked, PollerGoes, PollShapeOK, mailVars
  <2>2. Buffered(r)' = Buffered(r) /\ Len(buffer'[r]) < BatchSize[r]
    BY <1>0, <2>1 DEF Buffered
  <2>3. QED
    BY <2>1, <2>2, WaitStrides DEF Flushing, Syncing, PollerPlace
<1>8. CASE SyncReturns(r)
  BY <1>0, <1>2, <1>3, <1>8, EmitStrides DEF SyncReturns
<1>9. QED
  BY <1>4, <1>5, <1>6, <1>7, <1>8 DEF SynchronizedStep

\* Without a task under way only the buffer has what is not handled yet.
LEMMA LiveRested ==
  ASSUME PollShapeOK, NEW r \in Receivers, BatchInv(r), TaskInv(r), RestInv(r), Live(r) = {}
  PROVE  Rested(r)
<1>1. ASSUME NEW m \in Messages, at[r][m] \in {"held", "running"},
             NEW i \in DOMAIN batches[r], m \in Members(batches[r][i])
      PROVE  FALSE
  <2>1. at[r][batches[r][i][1]] = at[r][m]
    BY <1>1, BatchFirst DEF BatchInv
  <2>2. QED
    BY <1>1, <2>1 DEF Live
<1>2. QED
  BY <1>1 DEF Rested, TaskInv, RestInv

LEMMA UnorderedBatchedStrides ==
  ASSUME ShapeOK, BusInv, NEW r \in Receivers, Parts(r), SemaphoreInv(r), RestInv(r),
         UNCHANGED accepted, kind[r] = "unordered_batched", UnorderedBatchedStep(r)
  PROVE  Strides(r) /\ RestInv(r)'
<1>0. /\ PollShapeOK /\ PollerInv(r) /\ BatchInv(r) /\ TaskInv(r)
      /\ BatchSize[r] \in Nat \ {0} /\ buffer[r] \in Seq(Messages) /\ Len(buffer[r]) \in Nat
      /\ Len(<<>>) = 0
  BY BatchType, PollersAssumption, EmptyFacts DEF ShapeOK, Parts
<1>1. {"Flushed", "Synchronized"} \subseteq Signals
  BY DEF Signals
<1>2. CASE BufferMessage(r)
  <2>1. PICK c \in Messages : c = Incoming(r)
    BY <1>2 DEF BufferMessage, Buffer
  <2>2. /\ Receive(r) /\ Move(r, c, "held") /\ UNCHANGED <<rx, events, kind, batches>>
        /\ buffer'[r] = Append(buffer[r], c) /\ poller[r] = "recv"
        /\ poller'[r] = IF Len(buffer[r]) + 1 >= BatchSize[r] THEN "spawn" ELSE "recv"
    BY <1>0, <1>2, <2>1 DEF BufferMessage, Buffer, PollerGoes, PollShapeOK
  <2>3. Buffered(r)' = Buffered(r) \cup {c} /\ Len(buffer'[r]) = Len(buffer[r]) + 1
    BY <1>0, <2>2, MembersAppend, AppendFacts DEF Buffered
  <2>4. at[r][c] = "queued"
    BY <2>1, <2>2, Taken
  <2>5. poller'[r] = "recv" => Len(buffer'[r]) < BatchSize[r]
    BY <1>0, <2>2, <2>3
  <2>6. poller'[r] \in {"recv", "await", "spawn"}
    BY <2>2
  <2>7. QED
    BY <2>1, <2>2, <2>3, <2>4, <2>5, <2>6, HoldStrides
<1>3. CASE SpawnPermitted(r, "spawn", "recv") \/ SpawnPermitted(r, "drain", "flush")
  <2>1. /\ UNCHANGED <<mailVars, kind>> /\ buffer'[r] = <<>>
        /\ batches' = [batches EXCEPT ![r] = Append(@, buffer[r])]
        /\ \/ poller[r] = "spawn" /\ poller'[r] = "recv"
           \/ poller[r] = "drain" /\ poller'[r] = "flush"
    BY <1>0, <1>3 DEF SpawnPermitted, SpawnBatch, PollerGoes, PollShapeOK
  <2>2. /\ \A i \in DOMAIN batches[r] :
             i \in DOMAIN batches'[r] /\ batches'[r][i] = batches[r][i]
        /\ \E i \in DOMAIN batches'[r] : batches'[r][i] = buffer[r]
    <3>1. batches[r] \in Seq(Seq(Messages)) /\ batches'[r] = Append(batches[r], buffer[r])
      BY <1>0, <2>1, BatchType, BatchesType
    <3>2. QED
      BY <1>0, <3>1, AppendFacts
  <2>3. Buffered(r)' = {}
    BY <2>1, EmptyFacts DEF Buffered
  <2>4. \A m \in Buffered(r) : \E i \in DOMAIN batches'[r] : m \in Members(batches'[r][i])
    BY <2>2 DEF Buffered
  <2>5. UNCHANGED <<at, rx, events, kind, queue>>
    BY <2>1 DEF mailVars
  <2>6. Len(buffer'[r]) < BatchSize[r]
    BY <1>0, <2>1
  <2>7. QED
    BY <2>1, <2>2, <2>3, <2>4, <2>5, <2>6, WaitStrides DEF Flushing, Syncing, PollerPlace
<1>4. CASE Drain(r) \/ AwaitPermits(r) \/ SyncPermitted(r)
  <2>1. /\ UNCHANGED <<at, rx, events, kind, buffer, batches>>
        /\ \/ /\ Receive(r) /\ Incoming(r) = "Flush"
              /\ poller'[r] = IF buffer[r] # <<>> THEN "drain" ELSE "flush"
           \/ Receive(r) /\ Incoming(r) = "Sync" /\ poller[r] = "recv" /\ poller'[r] = "sync"
           \/ UNCHANGED queue /\ poller[r] = "sync" /\ poller'[r] = "syncing"
    BY <1>0, <1>4 DEF Drain, AwaitPermits, SyncPermitted, PollerGoes, PollShapeOK, mailVars
  <2>2. Buffered(r)' = Buffered(r)
    BY <2>1 DEF Buffered
  <2>3. /\ r \in Flushing' => Receive(r) /\ Incoming(r) = "Flush"
        /\ r \in Syncing' => r \in Syncing \/ (Receive(r) /\ Incoming(r) = "Sync")
        /\ poller'[r] \in PollerPlace
        /\ poller'[r] = "flush" => buffer'[r] = <<>>
        /\ poller'[r] \in {"recv", "sync", "syncing"} => Len(buffer'[r]) < BatchSize[r]
    BY <2>1 DEF Flushing, Syncing, PollerPlace, RestInv
  <2>4. QED
    BY <2>1, <2>2, <2>3, WaitStrides
<1>5. CASE FlushAll(r)
  <2>1. Rested(r) /\ buffer[r] = <<>>
    BY <1>0, <1>5, AllPermits, LiveRested DEF FlushAll, RestInv
  <2>2. QED
    BY <1>1, <1>5, <2>1, EmitStrides DEF FlushAll
<1>6. CASE SyncReleases(r)
  <2>1. Rested(r)
    BY <1>0, <1>6, LiveRested DEF SyncReleases, SemaphoreInv
  <2>2. QED
    BY <1>1, <1>6, <2>1, EmitStrides DEF SyncReleases
<1>7. QED
  BY <1>2, <1>3, <1>4, <1>5, <1>6 DEF UnorderedBatchedStep

LEMMA SynchronizedBatchedStrides ==
  ASSUME ShapeOK, BusInv, NEW r \in Receivers, Parts(r), RestInv(r),
         UNCHANGED accepted, kind[r] = "synchronized_batched", SynchronizedBatchedStep(r)
  PROVE  Strides(r) /\ RestInv(r)'
<1>0. /\ PollShapeOK /\ MailTypeOK /\ PollerInv(r) /\ Rested(r)
      /\ BatchSize[r] \in Nat \ {0} /\ buffer[r] \in Seq(Messages) /\ Len(buffer[r]) \in Nat
      /\ Len(<<>>) = 0
  BY BatchType, PollersAssumption, EmptyFacts, ShapeParts DEF ShapeOK, Parts, Rested
<1>1. {"Flushed", "Synchronized"} \subseteq Signals
  BY DEF Signals
<1>2. CASE CollectMessage(r)
  <2>1. PICK c \in Messages : c = Incoming(r)
    BY <1>2 DEF CollectMessage
  <2>2. /\ Receive(r) /\ Move(r, c, "held") /\ UNCHANGED <<rx, events, kind>>
        /\ poller[r] = "recv" /\ poller'[r] = "recv"
    BY <1>0, <1>2, <2>1 DEF CollectMessage, PollerGoes, PollShapeOK
  <2>3. PICK b \in Seq(Messages) : b = Append(buffer[r], c)
    BY <1>0, AppendFacts
  <2>4. Members(b) = Buffered(r) \cup {c} /\ Len(b) = Len(buffer[r]) + 1
    BY <1>0, <2>3, MembersAppend, AppendFacts DEF Buffered
  <2>5. at[r][c] = "queued"
    BY <2>1, <2>2, Taken
  <2>6. CASE Len(buffer[r]) + 1 >= BatchSize[r]
    <3>1. batches' = [batches EXCEPT ![r] = Append(@, b)] /\ buffer'[r] = <<>>
      BY <1>0, <1>2, <2>1, <2>3, <2>6 DEF CollectMessage, SpawnBatch, PollShapeOK
    <3>2. /\ \A i \in DOMAIN batches[r] :
               i \in DOMAIN batches'[r] /\ batches'[r][i] = batches[r][i]
          /\ \E i \in DOMAIN batches'[r] : batches'[r][i] = b
      <4>1. batches[r] \in Seq(Seq(Messages)) /\ batches'[r] = Append(batches[r], b)
        BY <1>0, <3>1, BatchType, BatchesType
      <4>2. QED
        BY <4>1, AppendFacts
    <3>3. Buffered(r)' = {} /\ Len(buffer'[r]) < BatchSize[r]
      BY <1>0, <3>1, EmptyFacts DEF Buffered
    <3>4. \A m \in Messages : m \in Buffered(r) \/ m = c =>
            \E i \in DOMAIN batches'[r] : m \in Members(batches'[r][i])
      BY <2>4, <3>2
    <3>5. QED
      BY <2>1, <2>2, <2>5, <3>2, <3>3, <3>4, HoldStrides
  <2>7. CASE ~(Len(buffer[r]) + 1 >= BatchSize[r])
    <3>1. UNCHANGED batches /\ buffer'[r] = b
      BY <1>0, <1>2, <2>1, <2>3, <2>7 DEF CollectMessage, PollShapeOK
    <3>2. Buffered(r)' = Buffered(r) \cup {c} /\ Len(buffer'[r]) < BatchSize[r]
      BY <1>0, <2>4, <2>7, <3>1 DEF Buffered
    <3>3. QED
      BY <2>1, <2>2, <2>5, <3>1, <3>2, HoldStrides
  <2>8. QED
    BY <2>6, <2>7
<1>3. CASE HandOver(r)
  <2>1. /\ poller[r] = "recv" /\ queue[r] # <<>> /\ Incoming(r) = "Flush"
        /\ buffer'[r] = <<>> /\ UNCHANGED <<kind, sem>>
        /\ batches' = IF buffer[r] = <<>> THEN batches
                      ELSE [batches EXCEPT ![r] = Append(@, buffer[r])]
    BY <1>0, <1>3 DEF HandOver, Upcoming, PollShapeOK
  <2>2. /\ \A i \in DOMAIN batches[r] :
             i \in DOMAIN batches'[r] /\ batches'[r][i] = batches[r][i]
        /\ \A m \in Buffered(r) : \E i \in DOMAIN batches'[r] : m \in Members(batches'[r][i])
    <3>1. CASE buffer[r] = <<>>
      BY <2>1, <3>1, EmptyFacts DEF Buffered
    <3>2. CASE buffer[r] # <<>>
      <4>1. batches[r] \in Seq(Seq(Messages)) /\ batches'[r] = Append(batches[r], buffer[r])
        BY <1>0, <2>1, <3>2, BatchType, BatchesType
      <4>2. /\ \A i \in DOMAIN batches[r] :
                 i \in DOMAIN batches'[r] /\ batches'[r][i] = batches[r][i]
            /\ \E i \in DOMAIN batches'[r] : batches'[r][i] = buffer[r]
        BY <1>0, <4>1, AppendFacts
      <4>3. QED
        BY <4>2 DEF Buffered
    <3>3. QED
      BY <3>1, <3>2
  <2>3. Buffered(r)' = {}
    BY <2>1, EmptyFacts DEF Buffered
  <2>4. \A m \in Messages : at'[r][m] \in {"held", "running"} => at'[r][m] = at[r][m]
    <3>1. CASE srx[r]
      BY <1>3, <3>1 DEF HandOver
    <3>2. CASE ~srx[r]
      BY <1>0, <1>3, <3>2, MoveAllAt DEF HandOver, Place
    <3>3. QED
      BY <3>1, <3>2
  <2>5. poller'[r] \in {"recv", "panicked"}
    BY <1>0, <1>3, <2>1 DEF HandOver, PollShapeOK
  <2>6. RestInv(r)'
    <3>1. ASSUME NEW m \in Messages, at'[r][m] = "held"
          PROVE  \E i \in DOMAIN batches'[r] : m \in Members(batches'[r][i])
      BY <2>2, <2>4, <3>1 DEF RestInv
    <3>2. Len(buffer'[r]) < BatchSize[r]
      BY <1>0, <2>1
    <3>3. QED
      BY <2>1, <3>1, <3>2 DEF RestInv
  <2>7. Strides(r)
    <3>1. r \notin Flushing' /\ r \notin Syncing'
      BY <2>5 DEF Flushing, Syncing
    <3>2. CASE srx[r]
      <4>1. /\ events'[r] = Append(events[r], "Flushed") /\ Receive(r)
            /\ UNCHANGED <<at, rx>>
        BY <1>0, <1>3, <2>1, <3>2 DEF HandOver, Receive, MailTypeOK
      <4>2. Rested(r)'
        BY <2>1 DEF Rested
      <4>3. QED
        BY <2>1, <2>3, <3>1, <4>1, <4>2 DEF Strides
    <3>3. CASE ~srx[r]
      <4>1. /\ rx'[r] = "gone" /\ queue'[r] = <<>> /\ UNCHANGED events
            /\ \A m \in Messages : at'[r][m] = IF m \in Waiting(r) THEN "lost" ELSE at[r][m]
        BY <1>0, <1>3, <3>3, MoveAllAt DEF HandOver, MailTypeOK, Place
      <4>2. \A m \in Messages : at'[r][m] # "queued"
        BY <4>1 DEF Waiting
      <4>3. r \in Over'
        BY <2>1, <4>1, <4>2 DEF Over
      <4>4. QED
        BY <2>1, <2>3, <2>4, <3>1, <4>1, <4>2, <4>3 DEF Strides
    <3>4. QED
      BY <3>2, <3>3
  <2>8. QED
    BY <2>6, <2>7
<1>4. CASE Compete(r) \/ SyncWins(r)
  <2>1. /\ UNCHANGED <<at, rx, events, kind, buffer, batches>>
        /\ \/ Receive(r) /\ Incoming(r) = "Sync" /\ poller[r] = "recv" /\ poller'[r] = "sync"
           \/ UNCHANGED queue /\ poller[r] = "sync" /\ poller'[r] = "syncing"
    BY <1>0, <1>4 DEF Compete, SyncWins, PollerGoes, PollShapeOK, mailVars
  <2>2. Buffered(r)' = Buffered(r)
    BY <2>1 DEF Buffered
  <2>3. Len(buffer'[r]) < BatchSize[r]
    BY <2>1 DEF RestInv
  <2>4. QED
    BY <2>1, <2>2, <2>3, WaitStrides DEF Flushing, Syncing, PollerPlace
<1>5. CASE SyncUnlocks(r)
  BY <1>0, <1>1, <1>5, EmitStrides DEF SyncUnlocks
<1>6. QED
  BY <1>2, <1>3, <1>4, <1>5 DEF SynchronizedBatchedStep

LEMMA TaskStrides ==
  ASSUME ShapeOK, NEW r \in Receivers, RestInv(r), NEW b \in Seq(Messages),
         \/ HandlerStarts(r, b) \/ HandlerReturns(r, b) \/ Respond(r, b)
         \/ HandlerPanics(r, b)
  PROVE  Strides(r) /\ RestInv(r)' /\ UNCHANGED <<queue, rx, poller, buffer>>
<1>0. /\ MailTypeOK /\ {"running", "handled", "lost", "answered"} \subseteq Place
      /\ events \in [Receivers -> Seq(Messages \cup Signals)]
      /\ Messages \cap Signals = {}
  BY ShapeParts, MailboxAssumption DEF MailTypeOK, Place
<1>1. UNCHANGED <<queue, rx, kind, poller, buffer, batches>>
  BY DEF HandlerStarts, HandlerReturns, Respond, HandlerPanics, pollVars
<1>2. ASSUME \A m \in Messages : \/ at'[r][m] = at[r][m]
                                 \/ at'[r][m] = "running" /\ at[r][m] = "held"
                                 \/ at'[r][m] \in {"handled", "answered", "lost"},
             events'[r] = events[r] \/ \E m \in Messages : events'[r] = Append(events[r], m)
      PROVE  Strides(r) /\ RestInv(r)'
  <2>1. Buffered(r)' = Buffered(r)
    BY <1>1 DEF Buffered
  <2>2. \/ events'[r] = events[r]
        \/ \E x : events'[r] = Append(events[r], x) /\ x # "Flushed" /\ x # "Synchronized"
    BY <1>0, <1>2 DEF Signals
  <2>3. Strides(r)
    BY <1>1, <1>2, <2>1, <2>2 DEF Strides, Flushing, Syncing
  <2>4. RestInv(r)'
    BY <1>1, <1>2, <2>1 DEF RestInv
  <2>5. QED
    BY <2>3, <2>4
<1>3. ASSUME NEW some, NEW p \in {"running", "handled", "lost"}, MoveAll(r, some, p),
             p = "running" => \A m \in Messages : m \in some => at[r][m] = "held",
             UNCHANGED events
      PROVE  Strides(r) /\ RestInv(r)'
  <2>1. \A m \in Messages : at'[r][m] = IF m \in some THEN p ELSE at[r][m]
    BY <1>0, <1>3, MoveAllAt
  <2>2. QED
    BY <1>2, <1>3, <2>1
<1>4. CASE HandlerStarts(r, b)
  BY <1>1, <1>3, <1>4 DEF HandlerStarts
<1>5. CASE HandlerReturns(r, b)
  BY <1>1, <1>3, <1>5 DEF HandlerReturns
<1>6. CASE HandlerPanics(r, b)
  BY <1>1, <1>3, <1>6 DEF HandlerPanics
<1>7. CASE Respond(r, b)
  <2>1. PICK i \in Unreported(r, b) :
          /\ IF srx[r]
             THEN /\ events' = [events EXCEPT ![r] = Append(@, b[i])]
                  /\ Move(r, b[i], "answered")
             ELSE /\ MoveAll(r, {b[j] : j \in Unreported(r, b)}, "lost")
                  /\ UNCHANGED events
    BY <1>7 DEF Respond
  <2>2. PICK m \in Messages : m = b[i]
    BY DEF Unreported
  <2>3. CASE srx[r]
    <3>1. events' = [events EXCEPT ![r] = Append(@, m)] /\ Move(r, m, "answered")
      BY <2>1, <2>2, <2>3
    <3>2. /\ events'[r] = Append(events[r], m)
          /\ \A d \in Messages : at'[r][d] = IF d = m THEN "answered" ELSE at[r][d]
      BY <1>0, <3>1, MoveAt
    <3>3. QED
      BY <1>1, <1>2, <3>2
  <2>4. CASE ~srx[r]
    BY <1>1, <1>3, <2>1, <2>4
  <2>5. QED
    BY <2>3, <2>4
<1>8. QED
  BY <1>4, <1>5, <1>6, <1>7

LEMMA TaskPanicsStrides ==
  ASSUME ShapeOK, NEW r \in Receivers, RestInv(r), PollerInv(r), kind[r] = "synchronized",
         TaskPanics(r)
  PROVE  Strides(r) /\ RestInv(r)'
<1>1. /\ PollerPanics(r, Members(Current(r))) /\ UNCHANGED <<events, kind, batches>>
  BY DEF TaskPanics
<1>2. \A m \in Messages : at[r][m] \in {"held", "running"} => m \in Members(Current(r))
  BY MembersOne DEF PollerInv
<1>3. QED
  BY <1>1, <1>2, PanicStrides

\* A step of the poller of r or one of its tasks.
Turns(r) ==
  \/ Poller(r)
  \/ \E i \in DOMAIN batches[r] : Task(r, batches[r][i]) \/ Panic(r, batches[r][i])

LEMMA TurnStrides ==
  ASSUME Core, EndInv, CoversInv, NEW r \in Receivers, Turns(r)
  PROVE  /\ Strides(r) /\ Elsewhere(r) /\ Keeps(r) /\ UNCHANGED outsidePoller
         /\ \A s \in Receivers : RestInv(s)'
<1>0. /\ ShapeOK /\ PollShapeOK /\ BusInv /\ Parts(r) /\ SemaphoreInv(r) /\ PollerInv(r)
      /\ InitFirst(r) /\ \A s \in Receivers : RestInv(s)
  BY DEF Core, Rest, ShapeOK, Parts, CoversInv, CoverInv
<1>1. UNCHANGED outsidePoller /\ UNCHANGED accepted
  BY DEF Turns, Poller, Task, Panic, outsidePoller
<1>2. Strides(r) /\ RestInv(r)' /\ Elsewhere(r) /\ Keeps(r)
  <2>1. CASE PollInitAction(r) \/ PollClose(r) \/ EndPoller(r)
    BY <1>0, <2>1, CommonPollStrides, CommonPollQuiet, CommonPollKeeps
  <2>2. CASE kind[r] = "synchronized" /\ SynchronizedStep(r)
    BY <1>0, <1>1, <2>2, SynchronizedStrides, SynchronizedQuiet, SynchronizedKeeps
  <2>3. CASE kind[r] = "unordered_batched" /\ UnorderedBatchedStep(r)
    BY <1>0, <1>1, <2>3, UnorderedBatchedStrides, UnorderedBatchedQuiet, UnorderedBatchedKeeps
  <2>4. CASE kind[r] = "synchronized_batched" /\ SynchronizedBatchedStep(r)
    BY <1>0, <1>1, <2>4, SynchronizedBatchedStrides, SynchronizedBatchedQuiet,
       SynchronizedBatchedKeeps
  <2>5. ASSUME NEW i \in DOMAIN batches[r],
               Task(r, batches[r][i]) \/ Panic(r, batches[r][i])
        PROVE  Strides(r) /\ RestInv(r)' /\ Elsewhere(r) /\ Keeps(r)
    <3>1. PICK b \in Seq(Messages) : b = batches[r][i]
      BY <1>0, BatchType
    <3>2. Keeps(r)
      BY <1>0, <2>5, <3>1, MixedTaskKeeps, TaskPanicsKeeps DEF Task, Panic
    <3>3. CASE kind[r] = "synchronized" /\ TaskPanics(r)
      <4>1. PollerPanics(r, Members(Current(r))) /\ UNCHANGED <<sem, batches>>
        BY <3>3 DEF TaskPanics
      <4>2. QED
        BY <1>0, <3>2, <3>3, <4>1, TaskPanicsStrides, PanicsQuiet
    <3>4. CASE HandlerReturns(r, b) \/ HandlerPanics(r, b) \/ Respond(r, b)
      BY <1>0, <3>2, <3>4, TaskStrides, TaskQuiet
    <3>5. CASE HandlerStarts(r, b)
      <4>1. \A s \in Receivers \ {r} : at'[s] = at[s]
        BY <1>0, <3>5, ShapeParts, MoveAllAt DEF HandlerStarts, Place
      <4>2. Elsewhere(r)
        BY <3>5, <4>1 DEF HandlerStarts, Elsewhere, pollVars
      <4>3. QED
        BY <1>0, <3>2, <3>5, <4>2, TaskStrides
    <3>6. QED
      BY <2>5, <3>1, <3>3, <3>4, <3>5 DEF Task, Panic
  <2>6. QED
    BY <2>1, <2>2, <2>3, <2>4, <2>5 DEF Turns, Poller
<1>3. ASSUME NEW s \in Receivers, s # r
      PROVE  RestInv(s)'
  <2>1. /\ at'[s] = at[s] /\ buffer'[s] = buffer[s] /\ batches'[s] = batches[s]
        /\ poller'[s] = poller[s] /\ RestInv(s)
    BY <1>0, <1>2, <1>3 DEF Elsewhere
  <2>2. QED
    BY <2>1 DEF RestInv, Buffered
<1>4. QED
  BY <1>1, <1>2, <1>3

\* A batch has at most as many messages as it is long.
LEMMA MembersCount ==
  ASSUME NEW S, NEW b \in Seq(S)
  PROVE  IsFiniteSet(Members(b)) /\ Cardinality(Members(b)) <= Len(b)
<1>1. Len(b) \in Nat /\ DOMAIN b = 1..Len(b)
  OBVIOUS
<1>2. IsFiniteSet(DOMAIN b) /\ Cardinality(DOMAIN b) = Len(b)
  <2>1. IsFiniteSet(1..Len(b)) /\ Cardinality(1..Len(b)) = IF 1 > Len(b) THEN 0 ELSE Len(b) - 1 + 1
    BY <1>1, 1 \in Int, Len(b) \in Int, FS_Interval
  <2>2. QED
    BY <1>1, <2>1
<1>3. b \in Surjection(DOMAIN b, Members(b))
  <2>1. b \in [DOMAIN b -> Members(b)]
    BY DEF Members
  <2>2. \A x \in Members(b) : \E i \in DOMAIN b : b[i] = x
    BY DEF Members
  <2>3. QED
    BY <2>1, <2>2 DEF Surjection
<1>4. QED
  BY <1>2, <1>3, FS_Surjection

\* What a control is to cover is not queued any more when its Flush or Sync is
\* received: nothing of it gets behind that.
LEMMA TakenBefore ==
  ASSUME ShapeOK, DrainInv, CoversInv, NEW r \in Receivers, NEW x \in Actions, Receive(r),
         Incoming(r) = x, NEW b \in Controls, Barrier(b, r), Active(b), ActionOf(b) = x,
         NEW m \in before[b]
  PROVE  at[r][m] # "queued"
<1>0. /\ queue \in [Receivers -> Seq(Messages \cup Actions)]
      /\ before \in [Controls -> SUBSET Messages]
      /\ Messages \cap Actions = {}
  BY MailboxAssumption DEF ShapeOK, CommonTypeOK, MailTypeOK, BusTypeOK
<1>1. m \in Messages /\ m # x
  BY <1>0
<1>2. BarrierAt(Clear, Over, b, r)
  BY DEF CoversInv, CoverInv
<1>3. ~Ahead(queue[r], x, m)
  BY <1>2 DEF BarrierAt
<1>4. queue[r] \in Seq(Messages \cup Actions) /\ queue[r] # <<>> /\ Head(queue[r]) = x
  BY <1>0 DEF Receive, Incoming
<1>5. ~Carries(queue[r], m)
  BY <1>1, <1>3, <1>4, CarriesTail, AheadTail
<1>6. QED
  BY <1>1, <1>5 DEF DrainInv, FullInv, QueueFull

\* Such a step answers a Flush or a Sync only when it covers r.
LEMMA StridesWorks ==
  ASSUME ShapeOK, ShapeOK', DrainInv, CoversInv, NEW r \in Receivers, Strides(r), RestInv(r)',
         UNCHANGED before,
         NEW flushing, NEW taking, NEW syncing, NEW meeting, NEW more, NEW gone,
         flushing = Flushing, taking = Flushing', syncing = Syncing, meeting = Syncing',
         more = Clear', gone = Over'
  PROVE  Works(flushing, taking, syncing, meeting, more, gone, r)
<1>0. /\ queue \in [Receivers -> Seq(Messages \cup Actions)]
      /\ before \in [Controls -> SUBSET Messages]
      /\ kind' = kind /\ kind[r] \in Kinds
      /\ TakenInv
  BY DEF ShapeOK, CommonTypeOK, MailTypeOK, BusTypeOK, PollShapeOK, Strides, CoversInv
<1>1. Receive(r) => /\ queue[r] # <<>> /\ queue'[r] = Tail(queue[r])
                    /\ Head(queue[r]) = Incoming(r) /\ Carries(queue[r], Incoming(r))
  BY <1>0, TailFacts DEF Receive, Incoming, Carries
<1>2. /\ \/ queue'[r] = queue[r]
         \/ queue[r] # <<>> /\ queue'[r] = Tail(queue[r])
         \/ queue'[r] = <<>>
      /\ r \in taking => r \in flushing \/ Carries(queue[r], "Flush")
      /\ r \in meeting =>
           \/ r \in syncing
           \/ queue[r] # <<>> /\ Head(queue[r]) = "Sync" /\ queue'[r] = Tail(queue[r])
  BY <1>1 DEF Strides
<1>3. /\ \A m \in Messages :
           /\ at'[r][m] \in Unhandled => at[r][m] \in Unhandled
           /\ at'[r][m] \in {"held", "running"} =>
                \/ at[r][m] \in {"held", "running"}
                \/ queue[r] # <<>> /\ queue'[r] = Tail(queue[r])
      /\ rx'[r] # "open" => rx[r] # "open" \/ Carries(queue[r], "Close") \/ r \in gone
  BY <1>1 DEF Strides, Unhandled
<1>4. ASSUME Rested(r)', buffer'[r] = <<>>,
             r \in Flushing \/ (Receive(r) /\ Incoming(r) = "Flush")
      PROVE  /\ r \in flushing \/ Carries(queue[r], "Flush")
             /\ \A b \in Controls :
                  Barrier(b, r) /\ Op[b] = "flush" /\ Active(b) => <<b, r>> \in more
  <2>1. ASSUME NEW b \in Controls, Barrier(b, r), Op[b] = "flush", Active(b), NEW m \in before[b]
        PROVE  /\ at'[r][m] # "queued"
               /\ m \notin Buffered(r)'
               /\ kind[r] # "synchronized_batched" => at'[r][m] \notin {"held", "running"}
    <3>1. m \in Messages /\ ActionOf(b) = "Flush" /\ "Flush" \in Actions
      BY <1>0, <2>1 DEF ActionOf, Actions
    <3>2. at[r][m] # "queued"
      BY <1>0, <1>4, <2>1, <3>1, TakenBefore DEF TakenInv
    <3>3. Buffered(r)' = {}
      BY <1>4, EmptyFacts DEF Buffered
    <3>4. QED
      BY <1>0, <1>4, <3>1, <3>2, <3>3 DEF Strides, Rested
  <2>2. ASSUME NEW b \in Controls, Barrier(b, r), Op[b] = "flush", Active(b)
        PROVE  <<b, r>> \in more
    <3>1. Covered(b, r)'
      BY <1>0, <2>1, <2>2 DEF Covered
    <3>2. QED
      BY <3>1 DEF Clear
  <2>3. QED
    BY <1>1, <1>4, <2>2
<1>5. ASSUME r \in Syncing, poller'[r] = "recv", Rested(r)'
      PROVE  /\ r \in syncing /\ r \notin meeting
             /\ \A b \in Controls :
                  Barrier(b, r) /\ Op[b] = "sync" /\ Active(b) => <<b, r>> \in more
  <2>1. /\ buffer'[r] \in Seq(Messages) /\ Len(buffer'[r]) < BatchSize[r]
        /\ BatchSize[r] \in Nat /\ Len(buffer'[r]) \in Nat
    BY <1>5, PollersAssumption DEF RestInv, ShapeOK, PollShapeOK
  <2>2. /\ IsFiniteSet(Buffered(r)') /\ Cardinality(Buffered(r)') \in Nat
        /\ Cardinality(Buffered(r)') <= Len(buffer'[r])
    BY <2>1, MembersCount, FS_CardinalityType DEF Buffered
  <2>3. ASSUME NEW b \in Controls, Barrier(b, r), Op[b] = "sync", Active(b)
        PROVE  <<b, r>> \in more
    <3>1. \A m \in before[b] : at'[r][m] # "queued"
      BY <1>0, <1>5, <2>3 DEF TakenInv, Strides
    <3>2. ASSUME kind[r] # "synchronized_batched"
          PROVE  Cardinality(before[b] \cap Copies(r, {"held", "running"})') < BatchSize[r]
      <4>1. before[b] \cap Copies(r, {"held", "running"})' \in SUBSET (Buffered(r)')
        BY <1>0, <1>5, <3>2 DEF Rested, Copies
      <4>2. PICK n \in Nat : n = Cardinality(before[b] \cap Copies(r, {"held", "running"})')
                             /\ n <= Cardinality(Buffered(r)')
        BY <2>2, <4>1, FS_Subset, FS_CardinalityType
      <4>3. QED
        BY <2>1, <2>2, <4>2
    <3>3. Covered(b, r)'
      BY <1>0, <2>3, <3>1, <3>2 DEF Covered
    <3>4. QED
      BY <3>3 DEF Clear
  <2>4. QED
    BY <1>5, <2>3 DEF Syncing
<1>6. \/ events'[r] = events[r]
      \/ \E x : /\ events'[r] = Append(events[r], x)
                /\ x = "Flushed" =>
                     /\ r \in flushing \/ Carries(queue[r], "Flush")
                     /\ \A b \in Controls :
                          Barrier(b, r) /\ Op[b] = "flush" /\ Active(b) => <<b, r>> \in more
                /\ x = "Synchronized" =>
                     /\ r \in syncing /\ r \notin meeting
                     /\ \A b \in Controls :
                          Barrier(b, r) /\ Op[b] = "sync" /\ Active(b) => <<b, r>> \in more
  BY <1>4, <1>5 DEF Strides
<1>7. QED
  BY <1>2, <1>3, <1>6 DEF Works

\* Such a step, seen from the other receivers.
LEMMA ElsewhereWorks ==
  ASSUME NEW r \in Receivers, Keeps(r), NEW s \in Receivers, s # r,
         NEW flushing, NEW taking, NEW syncing, NEW meeting, NEW more, NEW gone,
         flushing = Flushing, taking = Flushing', syncing = Syncing, meeting = Syncing'
  PROVE  Works(flushing, taking, syncing, meeting, more, gone, s)
<1>1. /\ at'[s] = at[s] /\ queue'[s] = queue[s] /\ events'[s] = events[s]
      /\ rx'[s] = rx[s] /\ poller'[s] = poller[s]
  BY DEF Keeps, Here
<1>2. (s \in taking <=> s \in flushing) /\ (s \in meeting <=> s \in syncing)
  BY <1>1 DEF Flushing, Syncing
<1>3. QED
  BY <1>1, <1>2 DEF Works

\* What covers a receiver covers it for good: a message gets queued only while its
\* call goes on and the queue is open, and into a buffer only from the queue.
LEMMA CoverGrows ==
  ASSUME ShapeOK, ShapeOK', Progress, NEW clear, NEW more, NEW over, NEW gone,
         clear = Clear, more = Clear', over = Over, gone = Over', kind' = kind,
         \A r \in Receivers : PollerInv(r)',
         \A r \in Receivers, m \in Messages :
           /\ at'[r][m] = "queued" =>
                at[r][m] = "queued" \/ (pc[m] # "done" /\ rx[r] = "open")
           /\ at'[r][m] \in {"held", "running"} => at[r][m] \in Unhandled
           /\ m \in Buffered(r)' => m \in Buffered(r) \/ at[r][m] = "queued",
         \A r \in Receivers : rx[r] = "gone" => rx'[r] = "gone",
         \A b \in Controls : pc[b] # "start" => before'[b] = before[b]
  PROVE  Grows(clear, more, over, gone)
<1>1. /\ before \in [Controls -> SUBSET Messages] /\ before' \in [Controls -> SUBSET Messages]
      /\ IsFiniteSet(Messages)
  BY MailboxAssumption DEF ShapeOK, CommonTypeOK, BusTypeOK
<1>2. ASSUME NEW b \in Controls, NEW r \in Receivers
      PROVE  /\ <<b, r>> \in clear <=> Covered(b, r)
             /\ <<b, r>> \in more <=> Covered(b, r)'
  BY DEF Clear
<1>3. ASSUME NEW b \in Controls, NEW r \in Receivers, pc[b] # "start", Covered(b, r)
      PROVE  Covered(b, r)'
  <2>1. /\ before'[b] = before[b]
        /\ \A m \in before[b] : m \in Messages /\ pc[m] = "done" /\ at[r][m] # "queued"
    BY <1>1, <1>3 DEF Progress, Covered
  <2>2. \A m \in before[b] :
          /\ at'[r][m] # "queued"
          /\ m \in Buffered(r)' => m \in Buffered(r)
          /\ at'[r][m] \in {"held", "running"} => at[r][m] \in {"held", "running"}
    BY <2>1 DEF Unhandled
  <2>3. CASE Op[b] = "flush"
    BY <1>3, <2>1, <2>2, <2>3 DEF Covered
  <2>4. CASE Op[b] # "flush"
    <3>1. before[b] \cap Copies(r, {"held", "running"})'
            \in SUBSET (before[b] \cap Copies(r, {"held", "running"}))
      BY <2>1, <2>2 DEF Copies
    <3>2. IsFiniteSet(before[b] \cap Copies(r, {"held", "running"}))
      BY <1>1, FS_Subset
    <3>3. PICK n \in Nat, k \in Nat :
            /\ n = Cardinality(before[b] \cap Copies(r, {"held", "running"})')
            /\ k = Cardinality(before[b] \cap Copies(r, {"held", "running"}))
            /\ n <= k
      BY <3>1, <3>2, FS_Subset, FS_CardinalityType
    <3>4. BatchSize[r] \in Nat
      BY PollersAssumption
    <3>5. k < BatchSize[r] => n < BatchSize[r]
      BY <3>3, <3>4
    <3>6. QED
      BY <1>3, <2>1, <2>2, <2>4, <3>3, <3>5 DEF Covered
  <2>5. QED
    BY <2>3, <2>4
<1>4. ASSUME NEW b \in Controls, NEW r \in Receivers,
             \A m \in before'[b] : at'[r][m] # "queued" /\ m \notin Buffered(r)',
             kind[r] # "synchronized_batched" =>
               \A m \in before'[b] : at'[r][m] \notin {"held", "running"}
      PROVE  Covered(b, r)'
  <2>1. kind[r] # "synchronized_batched" =>
          Cardinality(before'[b] \cap Copies(r, {"held", "running"})') < BatchSize[r]
    <3>1. SUFFICES ASSUME kind[r] # "synchronized_batched"
                   PROVE  Cardinality(before'[b] \cap Copies(r, {"held", "running"})') < BatchSize[r]
      OBVIOUS
    <3>2. before'[b] \cap Copies(r, {"held", "running"})' = {}
      BY <1>4, <3>1 DEF Copies
    <3>3. Cardinality(before'[b] \cap Copies(r, {"held", "running"})') = 0
      BY <3>2, FS_EmptySet
    <3>4. BatchSize[r] \in Nat \ {0}
      BY PollersAssumption
    <3>5. QED
      BY <3>3, <3>4
  <2>2. QED
    BY <1>4, <2>1 DEF Covered
<1>5. ASSUME NEW b \in Controls, NEW r \in Receivers, \A m \in before'[b] : at'[r][m] \notin Unhandled
      PROVE  Covered(b, r)'
  <2>1. \A m \in before'[b] : m \notin Buffered(r)'
    BY <1>1, <1>5 DEF PollerInv, Unhandled
  <2>2. QED
    BY <1>4, <1>5, <2>1 DEF Unhandled
<1>6. ASSUME NEW b \in Controls, NEW r \in Receivers, r \in gone
      PROVE  Covered(b, r)'
  <2>1. /\ Buffered(r)' = {} /\ \A m \in Messages : at'[r][m] # "queued"
        /\ kind[r] # "synchronized_batched" =>
             \A m \in Messages : at'[r][m] \notin {"held", "running"}
    BY <1>6, EmptyFacts DEF Over, Buffered
  <2>2. QED
    BY <1>1, <1>4, <2>1
<1>7. ASSUME NEW r \in Receivers, r \in over
      PROVE  r \in gone
  <2>1. /\ rx[r] = "gone" /\ buffer[r] = <<>> /\ \A m \in Messages : at[r][m] # "queued"
        /\ kind[r] # "synchronized_batched" =>
             \A m \in Messages : at[r][m] \notin {"held", "running"}
    BY <1>7 DEF Over
  <2>2. /\ rx'[r] = "gone"
        /\ \A m \in Messages : at'[r][m] # "queued"
        /\ kind[r] # "synchronized_batched" =>
             \A m \in Messages : at'[r][m] \notin {"held", "running"}
    BY <2>1 DEF Unhandled
  <2>3. buffer'[r] = <<>>
    <3>1. Buffered(r) = {} /\ buffer'[r] \in Seq(Messages) /\ Buffered(r)' \subseteq Messages
      BY <2>1, EmptyFacts, MembersFacts DEF Buffered, ShapeOK, PollShapeOK
    <3>2. Buffered(r)' = {}
      BY <2>1, <3>1
    <3>3. QED
      BY <3>1, <3>2, MembersFacts DEF Buffered
  <2>4. QED
    BY <2>2, <2>3 DEF Over
<1>8. QED
  BY <1>2, <1>3, <1>5, <1>6, <1>7 DEF Grows

LEMMA InsideTaken ==
  ASSUME ShapeOK, DrainInv, CoversInv, NEW r \in Receivers, Strides(r), Elsewhere(r),
         UNCHANGED <<pc, before>>
  PROVE  TakenInv'
<1>0. /\ before \in [Controls -> SUBSET Messages] /\ TakenInv
      /\ {"Flush", "Sync"} \subseteq Actions
  BY DEF ShapeOK, CommonTypeOK, BusTypeOK, CoversInv, Actions
<1>1. SUFFICES ASSUME NEW s \in Receivers, NEW b \in Controls, Barrier(b, s), Active(b),
                      \/ Op[b] = "flush" /\ s \in Flushing'
                      \/ Op[b] = "sync" /\ s \in Syncing',
                      NEW m \in before[b], at'[s][m] = "queued"
               PROVE  FALSE
  BY DEF TakenInv, Active, Barrier, Visits
<1>2. CASE s # r
  BY <1>0, <1>1, <1>2 DEF Elsewhere, TakenInv, Flushing, Syncing
<1>3. CASE s = r
  <2>1. at[r][m] = "queued"
    BY <1>0, <1>1, <1>3 DEF Strides
  <2>2. /\ Op[b] = "flush" => r \notin Flushing
        /\ Op[b] = "sync" => r \notin Syncing
    BY <1>0, <1>1, <1>3, <2>1 DEF TakenInv
  <2>3. Receive(r) /\ Incoming(r) = ActionOf(b) /\ Incoming(r) \in Actions
    BY <1>0, <1>1, <1>3, <2>2 DEF Strides, ActionOf
  <2>4. QED
    BY <1>1, <1>3, <2>1, <2>3, TakenBefore
<1>4. QED
  BY <1>2, <1>3

\* A step of a call or an event loop: no control begins while a Flush or a Sync
\* that could be its own is taken.
LEMMA OutsideTaken ==
  ASSUME ShapeOK', TakenInv, Progress, UNCHANGED poller,
         \A r \in Receivers, m \in Messages :
           at'[r][m] = "queued" => at[r][m] = "queued" \/ pc[m] # "done",
         \A b \in Controls : Active(b)' =>
           \/ Active(b) /\ before'[b] = before[b]
           \/ \A r \in Receivers : Barrier(b, r) =>
                /\ Op[b] = "flush" => r \notin Flushing
                /\ Op[b] = "sync" => r \notin Syncing
  PROVE  TakenInv'
<1>0. before' \in [Controls -> SUBSET Messages]
  BY DEF ShapeOK, CommonTypeOK, BusTypeOK
<1>1. SUFFICES ASSUME NEW r \in Receivers, NEW b \in Controls, Barrier(b, r), Active(b)',
                      \/ Op[b] = "flush" /\ r \in Flushing
                      \/ Op[b] = "sync" /\ r \in Syncing,
                      NEW m \in before'[b]
               PROVE  at'[r][m] # "queued"
  BY DEF TakenInv, Flushing, Syncing, Barrier, Visits
<1>2. Active(b) /\ m \in before[b] /\ m \in Messages
  BY <1>0, <1>1
<1>3. pc[m] = "done" /\ at[r][m] # "queued"
  BY <1>1, <1>2 DEF Progress, TakenInv
<1>4. QED
  BY <1>2, <1>3

LEMMA CoversNow ==
  ASSUME NEW flushing, NEW syncing, NEW clear, NEW over,
         flushing = Flushing', syncing = Syncing', clear = Clear', over = Over',
         Progress',
         \A r \in Receivers : InitFirst(r)' /\ SyncTokens(syncing, r)',
         \A b \in Controls, r \in Receivers : Barrier(b, r) =>
           /\ BarrierAt(clear, over, b, r)'
           /\ Op[b] = "flush" => FlushAt(flushing, clear, b, r)'
           /\ Op[b] = "sync" => SyncAt(clear, b, r)'
  PROVE  CoverInv(Flushing, Syncing, Clear, Over)'
<1>1. \A r \in Receivers : SyncTokens(Syncing, r)'
  BY DEF SyncTokens, SyncSent
<1>2. \A b \in Controls, r \in Receivers : Barrier(b, r) =>
        /\ BarrierAt(Clear, Over, b, r)'
        /\ Op[b] = "flush" => FlushAt(Flushing, Clear, b, r)'
        /\ Op[b] = "sync" => SyncAt(Clear, b, r)'
  BY DEF BarrierAt, FlushAt, SyncAt
<1>3. QED
  BY <1>1, <1>2 DEF CoverInv, Barrier, Visits

\* The step of a poller or a task.
LEMMA InsideCovers ==
  ASSUME Core, Core', DrainInv, CoversInv, NEW r \in Receivers, Turns(r)
  PROVE  CoversInv'
<1>1. /\ Strides(r) /\ Elsewhere(r) /\ Keeps(r) /\ UNCHANGED outsidePoller
      /\ \A s \in Receivers : RestInv(s)'
  BY TurnStrides DEF DrainInv
<1>0. /\ ShapeOK /\ ShapeOK' /\ CommonTypeOK /\ Visiting /\ Progress
      /\ UNCHANGED <<wrapperVars, loop, busVars, pc, before>>
      /\ \A s \in Receivers : PollerInv(s)'
  BY <1>1 DEF Core, Rest, Parts, ShapeOK, CoversInv, CoverInv, outsidePoller, busVars, localVars
<1>2. TakenInv'
  BY <1>0, <1>1, InsideTaken
<1>3. PICK flushing, taking, syncing, meeting :
        flushing = Flushing /\ taking = Flushing' /\ syncing = Syncing /\ meeting = Syncing'
  OBVIOUS
<1>4. PICK clear, more, over, gone :
        clear = Clear /\ more = Clear' /\ over = Over /\ gone = Over'
  OBVIOUS
<1>5. \A s \in Receivers : Works(flushing, taking, syncing, meeting, more, gone, s)
  <2>1. Works(flushing, taking, syncing, meeting, more, gone, r)
    BY <1>0, <1>1, <1>3, <1>4, StridesWorks
  <2>2. QED
    BY <1>1, <1>3, <2>1, ElsewhereWorks
<1>6. Grows(clear, more, over, gone)
  <2>1. ASSUME NEW s \in Receivers, NEW m \in Messages
        PROVE  /\ at'[s][m] = "queued" => at[s][m] = "queued"
               /\ at'[s][m] \in {"held", "running"} => at[s][m] \in Unhandled
               /\ m \in Buffered(s)' => m \in Buffered(s) \/ at[s][m] = "queued"
    <3>1. CASE s = r
      BY <1>1, <3>1 DEF Strides, Waiting, Unhandled
    <3>2. CASE s # r
      BY <1>1, <3>2 DEF Elsewhere, Buffered, Unhandled
    <3>3. QED
      BY <3>1, <3>2
  <2>2. \A s \in Receivers : rx[s] = "gone" => rx'[s] = "gone"
    BY <1>1 DEF Keeps, Here
  <2>3. kind' = kind
    BY <1>1 DEF Strides
  <2>4. QED
    BY <1>0, <1>4, <2>1, <2>2, <2>3, CoverGrows
<1>7. CoverInv(flushing, syncing, clear, over)
  BY <1>3, <1>4 DEF CoversInv
<1>8. /\ Progress'
      /\ \A s \in Receivers : InitFirst(s)' /\ SyncTokens(meeting, s)'
      /\ \A b \in Controls, s \in Receivers : Barrier(b, s) =>
           /\ BarrierAt(more, gone, b, s)'
           /\ Op[b] = "flush" => FlushAt(taking, more, b, s)'
           /\ Op[b] = "sync" => SyncAt(more, b, s)'
  BY <1>0, <1>5, <1>6, <1>7, InsideCover
<1>9. CoverInv(Flushing, Syncing, Clear, Over)'
  BY <1>3, <1>4, <1>8, CoversNow
<1>10. QED
  BY <1>1, <1>2, <1>9 DEF CoversInv

\* A step of a call or an event loop.
LEMMA OutsideCovers ==
  ASSUME Core, Core', CoversInv, UNCHANGED <<rx, pollVars>>,
         \A r \in Receivers, m \in Messages :
           at'[r][m] \in Unhandled =>
             \/ at'[r][m] = at[r][m]
             \/ at'[r][m] = "queued" /\ pc[m] # "done" /\ rx[r] = "open",
         \A b \in Controls :
           /\ pc[b] # "start" => before'[b] = before[b]
           /\ Active(b)' =>
                \/ Active(b)
                \/ pc[b] = "start" /\ \A d \in After[b] : pc[d] = "done",
         BarriersApart,
         \A flushing, syncing, clear, more, over, gone :
           CoverInv(flushing, syncing, clear, over) /\ Grows(clear, more, over, gone) =>
             CoverInv(flushing, syncing, more, gone)'
  PROVE  CoversInv'
<1>0. /\ ShapeOK /\ ShapeOK' /\ CommonTypeOK /\ Visiting /\ Progress /\ TakenInv
      /\ UNCHANGED <<kind, poller, buffer, batches>>
      /\ \A r \in Receivers : PollerInv(r)' /\ RestInv(r)
  BY DEF Core, Rest, Parts, ShapeOK, CoversInv, CoverInv, pollVars
<1>1. PICK flushing, syncing : flushing = Flushing /\ syncing = Syncing
  OBVIOUS
<1>2. PICK clear, more, over, gone :
        clear = Clear /\ more = Clear' /\ over = Over /\ gone = Over'
  OBVIOUS
<1>3. CoverInv(flushing, syncing, clear, over)
  BY <1>1, <1>2 DEF CoversInv
<1>4. Grows(clear, more, over, gone)
  <2>1. \A r \in Receivers, m \in Messages :
          /\ at'[r][m] = "queued" =>
               at[r][m] = "queued" \/ (pc[m] # "done" /\ rx[r] = "open")
          /\ at'[r][m] \in {"held", "running"} => at[r][m] \in Unhandled
          /\ m \in Buffered(r)' => m \in Buffered(r)
    BY <1>0 DEF Unhandled, Buffered
  <2>2. QED
    BY <1>0, <1>2, <2>1, CoverGrows
<1>5. CoverInv(flushing, syncing, more, gone)'
  BY <1>3, <1>4
<1>6. flushing = Flushing' /\ syncing = Syncing'
  BY <1>0, <1>1 DEF Flushing, Syncing
<1>7. CoverInv(Flushing, Syncing, Clear, Over)'
  <2>1. /\ Progress'
        /\ \A s \in Receivers : InitFirst(s)' /\ SyncTokens(syncing, s)'
        /\ \A b \in Controls, s \in Receivers : Barrier(b, s) =>
             /\ BarrierAt(more, gone, b, s)'
             /\ Op[b] = "flush" => FlushAt(flushing, more, b, s)'
             /\ Op[b] = "sync" => SyncAt(more, b, s)'
    BY <1>5 DEF CoverInv, Barrier, Visits
  <2>2. QED
    BY <1>2, <1>6, <2>1, CoversNow
<1>8. \A b \in Controls : Active(b)' =>
        \/ Active(b) /\ before'[b] = before[b]
        \/ \A r \in Receivers : Barrier(b, r) =>
             /\ Op[b] = "flush" => r \notin Flushing
             /\ Op[b] = "sync" => r \notin Syncing
  <2>1. SUFFICES ASSUME NEW b \in Controls, pc[b] = "start", \A d \in After[b] : pc[d] = "done",
                        NEW r \in Receivers, Barrier(b, r)
                 PROVE  /\ Op[b] = "flush" => r \notin Flushing
                        /\ Op[b] = "sync" => r \notin Syncing
    BY DEF Active
  <2>2. Op[b] = "flush" => r \notin Flushing
    BY <1>1, <1>3, <2>1 DEF CoverInv, FlushAt
  <2>3. Op[b] = "sync" => ~SyncSent(syncing, r)
    BY <1>0, <1>3, <2>1, NoSyncSent DEF CoverInv, Barrier
  <2>4. QED
    BY <1>1, <2>2, <2>3 DEF SyncSent
<1>9. TakenInv'
  <2>1. \A r \in Receivers, m \in Messages :
          at'[r][m] = "queued" => at[r][m] = "queued" \/ pc[m] # "done"
    BY DEF Unhandled
  <2>2. QED
    BY <1>0, <1>8, <2>1, OutsideTaken
<1>10. \A r \in Receivers : RestInv(r)'
  <2>1. \A r \in Receivers, m \in Messages : at'[r][m] = "held" => at[r][m] = "held"
    BY DEF Unhandled
  <2>2. QED
    BY <1>0, <2>1 DEF RestInv, Buffered
<1>11. QED
  BY <1>7, <1>9, <1>10 DEF CoversInv

LEMMA StepCovers ==
  ASSUME BarriersApart, Core, DrainInv, CoversInv, [Next]_vars
  PROVE  CoversInv'
<1>0. /\ ShapeOK /\ CommonTypeOK /\ Visiting /\ BusInv /\ Progress /\ Core'
      /\ at \in [Receivers -> [Messages -> Place]]
  BY StepCore DEF Core, Rest, ShapeOK, CoversInv, CoverInv, CommonTypeOK, MailTypeOK
<1>1. ASSUME NEW c \in Messages, Make(c) \/ Call(c) \/ Drop(c) \/ Timer(c)
      PROVE  CoversInv'
  <2>1. /\ StartSend(c) \/ StartRequest(c) \/ Abandon(c) \/ MessageStep(c)
        /\ UNCHANGED <<pollVars, loop>>
    BY <1>1, ReceiverAssumption DEF Make, Call, Drop, Timer
  <2>2. /\ UNCHANGED <<rx, before>> /\ pc[c] # "done"
        /\ \A b \in Controls : pc'[b] = pc[b]
    BY <1>0, <2>1, MessageEffects, MessageProgress
  <2>3. \A r \in Receivers, m \in Messages :
          at'[r][m] \in Unhandled =>
            \/ at'[r][m] = at[r][m]
            \/ at'[r][m] = "queued" /\ pc[m] # "done" /\ rx[r] = "open"
    <3>1. SUFFICES ASSUME NEW r \in Receivers, NEW m \in Messages
                   PROVE  at'[r][m] \in Unhandled =>
                            \/ at'[r][m] = at[r][m]
                            \/ at'[r][m] = "queued" /\ pc[m] # "done" /\ rx[r] = "open"
      OBVIOUS
    <3>2. /\ m # c => at'[r][m] = at[r][m]
          /\ \/ at'[r][c] = at[r][c]
             \/ at'[r][c] \in {"none", "permit", "refused"}
             \/ at'[r][c] = "queued" /\ rx[r] = "open"
      BY <1>0, <2>1, MessageEffects
    <3>3. QED
      BY <2>2, <3>2 DEF Unhandled
  <2>4. ASSUME NEW flushing, NEW syncing, NEW clear, NEW more, NEW over, NEW gone,
               CoverInv(flushing, syncing, clear, over), Grows(clear, more, over, gone)
        PROVE  CoverInv(flushing, syncing, more, gone)'
    BY <1>0, <2>1, <2>4, MessageCover
  <2>5. QED
    BY <1>0, <2>1, <2>2, <2>3, <2>4, OutsideCovers DEF Active
<1>2. ASSUME NEW c \in Controls, Make(c) \/ Call(c) \/ Drop(c) \/ Timer(c)
      PROVE  CoversInv'
  <2>1. /\ StartControl(c) \/ StartClose(c) \/ TimeOut(c) \/ ControlStep(c)
        /\ UNCHANGED <<pollVars, loop>>
    BY <1>2, ReceiverAssumption DEF Make, Call, Drop, Timer
  <2>2. UNCHANGED <<at, rx>>
    BY <1>0, <2>1, ControlEffects
  <2>3. \A b \in Controls :
          /\ pc[b] # "start" => before'[b] = before[b]
          /\ Active(b)' =>
               \/ Active(b)
               \/ pc[b] = "start" /\ \A d \in After[b] : pc[d] = "done"
    <3>1. /\ \A b \in Controls : b # c => pc'[b] = pc[b]
          /\ \A b \in Controls : pc[c] # "start" \/ b # c => before'[b] = before[b]
          /\ pc[c] # "done"
          /\ pc[c] = "start" => StartControl(c) \/ StartClose(c)
      BY <1>0, <2>1, ControlLocal DEF Calls
    <3>2. pc[c] = "start" => \A d \in After[c] : pc[d] = "done"
      BY <3>1 DEF StartControl, StartClose, MayStart
    <3>3. QED
      BY <3>1, <3>2 DEF Active
  <2>4. ASSUME NEW flushing, NEW syncing, NEW clear, NEW more, NEW over, NEW gone,
               CoverInv(flushing, syncing, clear, over), Grows(clear, more, over, gone)
        PROVE  CoverInv(flushing, syncing, more, gone)'
    BY <1>0, <2>1, <2>4, ControlCover
  <2>5. QED
    BY <1>0, <2>1, <2>2, <2>3, <2>4, OutsideCovers
<1>3. ASSUME NEW r \in Receivers, EventLoop(r)
      PROVE  CoversInv'
  <2>1. LoopStep(r) /\ UNCHANGED <<pollVars, busVars, pc, before>>
    BY <1>3 DEF EventLoop, busVars, localVars
  <2>2. UNCHANGED rx
    BY <1>0, <2>1, LoopEffects
  <2>3. \A s \in Receivers, m \in Messages : at'[s][m] \in Unhandled => at'[s][m] = at[s][m]
    BY <1>0, <2>1, LoopCopies DEF Unhandled
  <2>4. ASSUME NEW flushing, NEW syncing, NEW clear, NEW more, NEW over, NEW gone,
               CoverInv(flushing, syncing, clear, over), Grows(clear, more, over, gone)
        PROVE  CoverInv(flushing, syncing, more, gone)'
    BY <1>0, <2>1, <2>4, LoopCover
  <2>5. QED
    BY <1>0, <2>1, <2>2, <2>3, <2>4, OutsideCovers DEF Active
<1>4. ASSUME NEW r \in Receivers, Turns(r)
      PROVE  CoversInv'
  BY <1>0, <1>4, InsideCovers
<1>5. CASE UNCHANGED vars
  <2>1. UNCHANGED <<at, queue, rx, events, kind, poller, buffer, batches, pc, pos, outcome,
                    before, again, needFlush, notify, listening, loop>>
    BY <1>5 DEF vars, mailVars, pollVars, wrapperVars, contextVars, notifyVars, busVars, localVars
  <2>2. CoverInv(Flushing, Syncing, Clear, Over)'
    <3>1. Flushing' = Flushing /\ Syncing' = Syncing
      BY <2>1 DEF Flushing, Syncing
    <3>2. Clear' = Clear /\ Over' = Over
      BY <2>1 DEF Clear, Over, Covered, Copies, Buffered
    <3>3. QED
      BY <2>1, <3>1, <3>2 DEF CoversInv, CoverInv, Progress, InitFirst, SyncTokens, SyncSent,
         SyncWaits, BarrierAt, FlushAt, SyncAt, FlushDue, Barrier, Visits, Active, At
  <2>3. TakenInv'
    BY <2>1 DEF CoversInv, TakenInv, Active, Flushing, Syncing, Barrier, Visits
  <2>4. \A r \in Receivers : RestInv(r)'
    BY <2>1 DEF CoversInv, RestInv, Buffered
  <2>5. QED
    BY <2>2, <2>3, <2>4 DEF CoversInv
<1>6. QED
  BY <1>1, <1>2, <1>3, <1>4, <1>5 DEF Next, Finished, Calls, Turns

LEMMA InitCovers == Init => CoversInv
<1>1. SUFFICES ASSUME Init
               PROVE  CoversInv
  OBVIOUS
<1>2. Flushing = {} /\ Syncing = {}
  BY <1>1 DEF Init, PollInit, Flushing, Syncing
<1>3. PICK clear, over : clear = Clear /\ over = Over
  OBVIOUS
<1>4. CoverInv({}, {}, clear, over)
  BY <1>1, InitCover DEF Init
<1>5. CoverInv(Flushing, Syncing, Clear, Over)
  BY <1>2, <1>3, <1>4
<1>6. TakenInv
  BY <1>2 DEF TakenInv
<1>7. ASSUME NEW r \in Receivers
      PROVE  RestInv(r)
  <2>1. buffer[r] = <<>> /\ \A m \in Messages : at[r][m] = "none"
    BY <1>1 DEF Init, MailInit, PollInit
  <2>2. BatchSize[r] \in Nat \ {0}
    BY PollersAssumption
  <2>3. Len(buffer[r]) < BatchSize[r]
    BY <2>1, <2>2, EmptyFacts
  <2>4. QED
    BY <2>1, <2>3 DEF RestInv
<1>8. QED
  BY <1>5, <1>6, <1>7 DEF CoversInv

\* A flush or a sync that has returned "ok" covers every receiver it went to.
LEMMA CoversAll ==
  ASSUME CoversInv, NEW b \in Controls, Op[b] \in {"flush", "sync"}, outcome[b] = "ok",
         NEW i \in DOMAIN Route[b]
  PROVE  Covered(b, Route[b][i])
<1>1. PICK r \in Receivers : r = Route[b][i]
  BY BusAssumption DEF Calls
<1>2. Barrier(b, r)
  BY <1>1 DEF Barrier, Visits
<1>3. pc[b] = "done" /\ BarrierAt(Clear, Over, b, r)
  BY <1>2 DEF CoversInv, CoverInv, Progress, Calls
<1>4. <<b, r>> \in Clear
  BY <1>3 DEF BarrierAt
<1>5. QED
  BY <1>1, <1>4 DEF Clear

LEMMA CoversAlways ==
  ASSUME BarriersApart
  PROVE  Spec => []CoversInv
<1>1. Init => Core /\ DrainInv /\ CoversInv
  BY InitCore, InitDrain, InitCovers
<1>2. Core /\ DrainInv /\ CoversInv /\ [Next]_vars => Core' /\ DrainInv' /\ CoversInv'
  BY StepCore, StepDrain, StepCovers
<1>3. QED
  BY <1>1, <1>2, PTL DEF Spec

\* When flush returns, what was sent before it has been handed to a task, and has
\* been handled by a receiver that awaits its tasks, be the receivers of whatever
\* kinds, provided that the flushes of a receiver keep out of each other's way.
THEOREM MixedFlushes ==
  ASSUME BarriersApart
  PROVE  Spec => []FlushCovers
<1>1. CoversInv => FlushCovers
  BY CoversAll DEF FlushCovers, Covered
<1>2. QED
  BY <1>1, CoversAlways, PTL

\* When sync returns, all that was sent before it has been handled but what is in a
\* batch that was not full, provided that the syncs of a receiver are made one
\* after another.
THEOREM MixedSyncs ==
  ASSUME BarriersApart
  PROVE  Spec => []SyncCovers
<1>1. CoversInv => SyncCovers
  BY CoversAll DEF SyncCovers, Covered
<1>2. QED
  BY <1>1, CoversAlways, PTL
=============================================================================
