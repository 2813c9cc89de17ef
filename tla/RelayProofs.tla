---------------------------- MODULE RelayProofs ----------------------------
(***************************************************************************)
(* What the counters of RelayWrapper count: type correctness, Accounting   *)
(* and Backpressure of Relay, for any number of types, calls and losses.   *)
(***************************************************************************)
EXTENDS Relay, FiniteSetTheorems, TLAPS

NotifyState == [permit : BOOLEAN, waiting : Seq(Calls)]
Context == [processing : 0..(Wrap - 1), response : NotifyState]

\* What a call is answered with, and the other events of a relay.
EventKind(c) == IF Op[c] \in {"send", "try_send", "force_send"} THEN "send" ELSE Op[c]
Answers == {e \in [kind : MessageOps \cup ControlOps, call : Calls, ok : BOOLEAN] :
              e.kind = EventKind(e.call)}
Notes == [kind : {"ready", "failed", "pause", "close"}]

MessagePlace == {"unmade", "start", "insert", "reserve", "wait", "parked", "send", "refused",
                 "mark", "await", "done", "full", "failed"}
ControlPlace == {"unmade", "start", "poll", "parked", "registered", "listen", "done", "failed"}
LoopPlace == {"next", "ready", "failed", "flushed", "free", "notify", "ended"}

Shape ==
  /\ contexts \in [Types -> Seq(Context)]
  /\ needFlush \in BOOLEAN /\ readyFlag \in BOOLEAN
  /\ freeing \in Types /\ loop \in LoopPlace
  /\ events \in Seq(Answers \cup Notes)
  /\ inner \subseteq Calls /\ lost \subseteq Calls
  /\ waiters \subseteq Messages /\ replied \subseteq Messages
  /\ pc \in [Calls -> MessagePlace \cup ControlPlace]
  /\ held \in [Messages -> Nat]

\* Where a message is when the relay has it or has had it.
Sent == {"mark", "await", "done"}

\* How far a call with a message is: what it holds, and that the relay has it, has
\* lost it or has answered it, one of them, and only once it was sent.
CallOk(c) ==
  /\ pc[c] \in MessagePlace
  /\ held[c] <= Len(contexts[TypeOf[c]])
  /\ pc[c] \in {"insert", "reserve", "wait", "parked"} => Op[c] # "force_send"
  /\ pc[c] \in {"reserve", "wait", "parked"} => contexts[TypeOf[c]] # <<>>
  /\ pc[c] \in Sent \cup {"send", "refused", "failed"} /\ Op[c] # "force_send" => held[c] # 0
  /\ pc[c] = "await" => Op[c] = "request"
  /\ c \in waiters => c \notin replied
  /\ c \in waiters \cup replied => pc[c] \notin {"unmade", "start"}
  /\ c \in inner \cup lost \cup Eventful => pc[c] \in Sent
  /\ c \in inner => c \notin lost \cup Eventful
  /\ c \in lost => c \notin Eventful

IsAnswer(e) == "call" \in DOMAIN e

\* A message is answered once.
AnsweredOnce(es) ==
  \A i, j \in DOMAIN es :
    IsAnswer(es[i]) /\ IsAnswer(es[j]) /\ es[i].call = es[j].call /\ es[i].call \in Messages
      => i = j

\* A slot is freed in a context that exists, and for a request that was made.
LoopOk ==
  /\ loop \in {"free", "notify"} => contexts[freeing] # <<>>
  /\ loop = "free" => \E q \in DOMAIN ResponseOf : ResponseOf[q] = freeing /\ pc[q] # "unmade"

\* Accounting and, with the slots that are kept in place of the messages in the
\* relay, Backpressure.
Unforced(t) == {c \in KeptSlots(t) : Op[c] # "force_send"}
SlotOk(t) ==
  Plain(t) =>
    /\ Newest(t).processing = Cardinality(KeptSlots(t))
    /\ Cardinality(Unforced(t)) <= RelayLimit

CallsOk == \A c \in Messages : CallOk(c)
SlotsOk == \A t \in Types : SlotOk(t)
RelayInv == Shape /\ CallsOk /\ AnsweredOnce(events) /\ LoopOk /\ SlotsOk

---------------------------------------------------------------------------
(* The contexts. *)

LEMMA Constants ==
  /\ Messages \subseteq Calls /\ IsFiniteSet(Messages)
  /\ \A c \in Messages : TypeOf[c] \in Types /\ Op[c] \in MessageOps
  /\ DOMAIN ResponseOf = {c \in Messages : Op[c] = "request"}
  /\ \A q \in DOMAIN ResponseOf : ResponseOf[q] \in Types
  /\ Wrap \in Nat /\ RelayLimit \in Nat /\ RelayLimit < Wrap
  /\ Cardinality(Messages) \in Nat /\ Cardinality(Messages) < Wrap
BY RelayAssumption, FS_CardinalityType DEF Messages

\* One field of one context changes: the others, and how many there are, stay.
LEMMA ContextEdit ==
  ASSUME Shape, NEW t \in Types, NEW i \in DOMAIN contexts[t], NEW x \in Context,
         contexts' = [contexts EXCEPT ![t][i] = x]
  PROVE  /\ contexts' \in [Types -> Seq(Context)]
         /\ \A s \in Types \ {t} : contexts'[s] = contexts[s]
         /\ \A s \in Types : Len(contexts'[s]) = Len(contexts[s])
         /\ contexts'[t][i] = x
<1>1. /\ contexts \in [Types -> Seq(Context)] /\ contexts[t] \in Seq(Context)
      /\ contexts'[t] = [contexts[t] EXCEPT ![i] = x]
      /\ \A s \in Types \ {t} : contexts'[s] = contexts[s]
  BY DEF Shape
<1>2. /\ contexts'[t] \in Seq(Context) /\ Len(contexts'[t]) = Len(contexts[t])
      /\ contexts'[t][i] = x
  BY <1>1
<1>3. contexts' \in [Types -> Seq(Context)]
  BY <1>1, <1>2
<1>4. QED
  BY <1>1, <1>2, <1>3

LEMMA AddContext ==
  ASSUME Shape, NEW t \in Types, contexts[t] # <<>>, NEW i \in 1..Len(contexts[t]),
         NEW n \in {-1, 1}, Add(t, i, n)
  PROVE  /\ contexts' \in [Types -> Seq(Context)]
         /\ \A s \in Types \ {t} : contexts'[s] = contexts[s]
         /\ \A s \in Types : Len(contexts'[s]) = Len(contexts[s])
         /\ contexts'[t][i].processing = (contexts[t][i].processing + n) % Wrap
<1> DEFINE x == [contexts[t][i] EXCEPT !.processing = (@ + n) % Wrap]
<1>1. i \in DOMAIN contexts[t] /\ contexts[t][i] \in Context
  BY DEF Shape
<1>2. contexts' = [contexts EXCEPT ![t][i] = x]
  BY <1>1 DEF Add, Shape
<1>3. Wrap \in Nat /\ Wrap > 0
  BY Constants
<1>4. contexts[t][i].processing \in Int
  BY <1>1 DEF Context
<1>5. (contexts[t][i].processing + n) % Wrap \in 0..(Wrap - 1)
  BY <1>3, <1>4
<1>6. x \in Context /\ x.processing = (contexts[t][i].processing + n) % Wrap
  BY <1>1, <1>5 DEF Context
<1> HIDE DEF x
<1>7. QED
  BY <1>1, <1>2, <1>6, ContextEdit

\* The Notify of a context changes: what it counts does not.
LEMMA NotifyContext ==
  ASSUME Shape, NEW t \in Types, NEW i \in DOMAIN contexts[t], NEW n \in NotifyState,
         contexts' = [contexts EXCEPT ![t][i].response = n]
  PROVE  /\ contexts' \in [Types -> Seq(Context)]
         /\ \A s \in Types : Len(contexts'[s]) = Len(contexts[s])
         /\ \A s \in Types : \A j \in DOMAIN contexts[s] :
              contexts'[s][j].processing = contexts[s][j].processing
<1> DEFINE x == [contexts[t][i] EXCEPT !.response = n]
<1>0. contexts' = [contexts EXCEPT ![t][i] = x]
  BY DEF Shape
<1>1. /\ contexts[t][i] \in Context /\ contexts[t] \in Seq(Context)
      /\ \A j \in DOMAIN contexts[t] : j # i => contexts'[t][j] = contexts[t][j]
  BY DEF Shape
<1>2. x \in Context /\ x.processing = contexts[t][i].processing
  BY <1>1 DEF Context
<1> HIDE DEF x
<1>3. /\ contexts' \in [Types -> Seq(Context)]
      /\ \A s \in Types : Len(contexts'[s]) = Len(contexts[s])
      /\ \A s \in Types \ {t} : contexts'[s] = contexts[s]
      /\ contexts'[t][i] = x
  <2>1. \A y \in Context : contexts' = [contexts EXCEPT ![t][i] = y] =>
          /\ contexts' \in [Types -> Seq(Context)]
          /\ \A s \in Types : Len(contexts'[s]) = Len(contexts[s])
          /\ \A s \in Types \ {t} : contexts'[s] = contexts[s]
          /\ contexts'[t][i] = y
    BY ContextEdit
  <2>2. QED
    BY <1>0, <1>2, <2>1
<1>4. \A j \in DOMAIN contexts[t] :
        contexts'[t][j].processing = contexts[t][j].processing
  BY <1>1, <1>2, <1>3
<1>5. QED
  BY <1>3, <1>4

---------------------------------------------------------------------------
(* The slots. *)

LEMMA KeptFinite ==
  ASSUME NEW t
  PROVE  /\ IsFiniteSet(KeptSlots(t)) /\ IsFiniteSet(Unforced(t))
         /\ Cardinality(KeptSlots(t)) \in Nat /\ Cardinality(Unforced(t)) \in Nat
         /\ Cardinality(KeptSlots(t)) < Wrap
         /\ Cardinality(Unforced(t)) <= Cardinality(KeptSlots(t))
<1>1. KeptSlots(t) \subseteq Messages /\ Unforced(t) \subseteq KeptSlots(t)
  BY DEF KeptSlots, Unforced
<1>2. /\ IsFiniteSet(KeptSlots(t)) /\ Cardinality(KeptSlots(t)) <= Cardinality(Messages)
  BY <1>1, Constants, FS_Subset
<1>3. /\ IsFiniteSet(Unforced(t)) /\ Cardinality(Unforced(t)) <= Cardinality(KeptSlots(t))
  BY <1>1, <1>2, FS_Subset
<1>4. QED
  BY <1>2, <1>3, Constants, FS_CardinalityType

\* A plain type has one context, and is plain for good reasons: what makes it not
\* plain does not go away.
LEMMA PlainKept ==
  ASSUME NEW t \in Types, Len(contexts'[t]) = Len(contexts[t]),
         \A c \in Messages : pc'[c] = "unmade" => pc[c] = "unmade",
         \A c \in Messages : TypeOf[c] = t /\ Op[c] = "force_send" =>
           (held'[c] # 0 \/ pc'[c] \in {"unmade", "start"}
              => held[c] # 0 \/ pc[c] \in {"unmade", "start"}),
         Plain(t)'
  PROVE  Plain(t)
BY Constants DEF Plain

LEMMA SlotKept ==
  ASSUME NEW t \in Types, SlotOk(t), Plain(t)' => Plain(t),
         Plain(t) => Newest(t).processing' = Newest(t).processing,
         \A c \in Messages : TypeOf[c] = t => (KeepsSlot(c)' <=> KeepsSlot(c))
  PROVE  SlotOk(t)'
<1>1. KeptSlots(t)' = KeptSlots(t) /\ Unforced(t)' = Unforced(t)
  BY DEF KeptSlots, Unforced
<1>2. QED
  BY <1>1 DEF SlotOk

LEMMA SlotTaken ==
  ASSUME NEW t \in Types, SlotOk(t), Plain(t)' => Plain(t), NEW c \in Messages, TypeOf[c] = t,
         Plain(t) => Newest(t).processing' = (Newest(t).processing + 1) % Wrap,
         Op[c] # "force_send" => ~Full(t),
         ~KeepsSlot(c), KeepsSlot(c)',
         \A m \in Messages \ {c} : KeepsSlot(m)' <=> KeepsSlot(m)
  PROVE  SlotOk(t)'
<1>1. SUFFICES ASSUME Plain(t)
               PROVE  /\ Newest(t).processing' = Cardinality(KeptSlots(t)')
                      /\ Cardinality(Unforced(t)') <= RelayLimit
  BY DEF SlotOk, Plain
<1>2. KeptSlots(t)' = KeptSlots(t) \cup {c} /\ c \notin KeptSlots(t)
  BY DEF KeptSlots
<1>3. Unforced(t)' = IF Op[c] = "force_send" THEN Unforced(t) ELSE Unforced(t) \cup {c}
  BY <1>2 DEF Unforced, KeptSlots
<1>4. Cardinality(KeptSlots(t)') = Cardinality(KeptSlots(t)) + 1
  BY <1>2, KeptFinite, FS_AddElement
<1>5. Cardinality(KeptSlots(t)') < Wrap
  <2>1. KeptSlots(t)' \subseteq Messages
    BY DEF KeptSlots
  <2>2. QED
    BY <2>1, Constants, FS_Subset, FS_CardinalityType, <1>4, KeptFinite
<1>6. /\ Newest(t).processing = Cardinality(KeptSlots(t))
      /\ Cardinality(Unforced(t)) <= RelayLimit
  BY <1>1 DEF SlotOk
<1>7. Newest(t).processing' = Cardinality(KeptSlots(t)')
  BY <1>1, <1>4, <1>5, <1>6, KeptFinite, Constants
<1>8. Cardinality(Unforced(t)') <= RelayLimit
  <2>1. CASE Op[c] = "force_send"
    BY <1>3, <1>6, <2>1
  <2>2. CASE Op[c] # "force_send"
    <3>1. c \notin Unforced(t) /\ Unforced(t)' = Unforced(t) \cup {c}
      BY <1>2, <1>3, <2>2 DEF Unforced
    <3>2. Cardinality(Unforced(t)') = Cardinality(Unforced(t)) + 1
      BY <3>1, KeptFinite, FS_AddElement
    <3>3. Cardinality(KeptSlots(t)) < RelayLimit
      BY <1>6, <2>2, KeptFinite, Constants DEF Full
    <3>4. QED
      BY <3>2, <3>3, KeptFinite, Constants
  <2>3. QED
    BY <2>1, <2>2
<1>9. QED
  BY <1>7, <1>8

LEMMA SlotFreed ==
  ASSUME NEW t \in Types, SlotOk(t), Plain(t)' => Plain(t), NEW c \in Messages, TypeOf[c] = t,
         Plain(t) => /\ Newest(t).processing' = (Newest(t).processing + (-1)) % Wrap
                     /\ KeepsSlot(c),
         ~KeepsSlot(c)',
         \A m \in Messages \ {c} : KeepsSlot(m)' <=> KeepsSlot(m)
  PROVE  SlotOk(t)'
<1>1. SUFFICES ASSUME Plain(t)
               PROVE  /\ Newest(t).processing' = Cardinality(KeptSlots(t)')
                      /\ Cardinality(Unforced(t)') <= RelayLimit
  BY DEF SlotOk, Plain
<1>2. KeptSlots(t)' = KeptSlots(t) \ {c} /\ c \in KeptSlots(t)
  BY <1>1 DEF KeptSlots
<1>3. Unforced(t)' \subseteq Unforced(t)
  BY <1>2 DEF Unforced, KeptSlots
<1>4. Cardinality(KeptSlots(t)') = Cardinality(KeptSlots(t)) - 1
  BY <1>2, KeptFinite, FS_RemoveElement
<1>5. /\ Newest(t).processing = Cardinality(KeptSlots(t))
      /\ Cardinality(Unforced(t)) <= RelayLimit
  BY <1>1 DEF SlotOk
<1>6. Cardinality(KeptSlots(t)) >= 1
  <2>1. KeptSlots(t) # {}
    BY <1>2
  <2>2. QED
    BY <2>1, KeptFinite, FS_EmptySet
<1>7. Newest(t).processing' = Cardinality(KeptSlots(t)')
  BY <1>1, <1>4, <1>5, <1>6, KeptFinite, Constants
<1>8. /\ IsFiniteSet(Unforced(t)') /\ Cardinality(Unforced(t)') \in Nat
      /\ Cardinality(Unforced(t)') <= Cardinality(Unforced(t))
  BY <1>3, KeptFinite, FS_Subset, FS_CardinalityType
<1>9. QED
  BY <1>5, <1>7, <1>8, KeptFinite, Constants

---------------------------------------------------------------------------
(* What a step leaves alone. *)

Same(c) ==
  /\ pc'[c] = pc[c] /\ held'[c] = held[c]
  /\ c \in waiters' <=> c \in waiters
  /\ c \in replied' <=> c \in replied
  /\ c \in inner' <=> c \in inner
  /\ c \in lost' <=> c \in lost
  /\ c \in Eventful' <=> c \in Eventful

NoFewer == \A t \in Types : Len(contexts'[t]) >= Len(contexts[t])

LEMMA SameCall ==
  ASSUME Shape, Shape', NoFewer, NEW c \in Messages, Same(c), CallOk(c)
  PROVE  CallOk(c)' /\ (KeepsSlot(c)' <=> KeepsSlot(c))
<1>1. /\ contexts[TypeOf[c]] \in Seq(Context) /\ contexts'[TypeOf[c]] \in Seq(Context)
      /\ Len(contexts'[TypeOf[c]]) >= Len(contexts[TypeOf[c]]) /\ held[c] \in Nat
  BY Constants DEF Shape, NoFewer
<1>2. contexts[TypeOf[c]] # <<>> => contexts'[TypeOf[c]] # <<>>
  BY <1>1
<1>3. held'[c] <= Len(contexts'[TypeOf[c]])
  BY <1>1 DEF Same, CallOk
<1>4. CallOk(c)'
  BY <1>2, <1>3 DEF Same, CallOk
<1>5. KeepsSlot(c)' <=> KeepsSlot(c)
  BY DEF Same, KeepsSlot
<1>6. QED
  BY <1>4, <1>5

\* A step that is no business of any message.
LEMMA QuietStep ==
  ASSUME RelayInv, Shape', UNCHANGED contexts, \A c \in Messages : Same(c),
         AnsweredOnce(events'),
         loop' \in {"free", "notify"} => loop' = loop /\ freeing' = freeing
  PROVE  RelayInv'
<1>1. NoFewer
  BY DEF NoFewer, RelayInv, Shape
<1>2. \A c \in Messages : CallOk(c)' /\ (KeepsSlot(c)' <=> KeepsSlot(c))
  BY <1>1, SameCall DEF RelayInv, CallsOk
<1>3. LoopOk'
  BY Constants DEF RelayInv, LoopOk, Same
<1>4. ASSUME NEW t \in Types
      PROVE  SlotOk(t)'
  <2>1. Plain(t)' => Plain(t)
    BY PlainKept DEF Same
  <2>2. Newest(t).processing' = Newest(t).processing
    BY DEF Newest
  <2>3. QED
    BY <1>2, <2>1, <2>2, SlotKept DEF RelayInv, SlotsOk
<1>5. QED
  BY <1>2, <1>3, <1>4 DEF RelayInv, CallsOk, SlotsOk

\* A step of one message: what is left to show concerns it and its type.
LEMMA OneStep ==
  ASSUME RelayInv, Shape', NEW c \in Messages, \A m \in Messages \ {c} : Same(m),
         \A t \in Types \ {TypeOf[c]} : contexts'[t] = contexts[t],
         Len(contexts'[TypeOf[c]]) >= Len(contexts[TypeOf[c]]),
         AnsweredOnce(events'), LoopOk', CallOk(c)', pc'[c] = "unmade" => pc[c] = "unmade",
         SlotOk(TypeOf[c])'
  PROVE  RelayInv'
<1>1. NoFewer
  <2>1. \A t \in Types : Len(contexts[t]) \in Nat
    BY DEF RelayInv, Shape
  <2>2. QED
    BY <2>1 DEF NoFewer
<1>2. \A m \in Messages \ {c} : CallOk(m)' /\ (KeepsSlot(m)' <=> KeepsSlot(m))
  BY <1>1, SameCall DEF RelayInv, CallsOk
<1>3. ASSUME NEW t \in Types, t # TypeOf[c]
      PROVE  SlotOk(t)'
  <2>1. contexts'[t] = contexts[t]
    BY <1>3
  <2>2. \A m \in Messages : pc'[m] = "unmade" => pc[m] = "unmade"
    BY DEF Same
  <2>3. \A m \in Messages : TypeOf[m] = t => m # c
    BY <1>3
  <2>4. Plain(t)' => Plain(t)
    BY <2>1, <2>2, <2>3, PlainKept DEF Same
  <2>5. Newest(t).processing' = Newest(t).processing
    BY <2>1 DEF Newest
  <2>6. QED
    BY <1>2, <2>3, <2>4, <2>5, SlotKept DEF RelayInv, SlotsOk
<1>4. QED
  BY <1>2, <1>3 DEF RelayInv, CallsOk, SlotsOk

\* The loop rests, or does with a context what it was about to do.
LEMMA LoopFrame ==
  ASSUME RelayInv, Shape', NoFewer, UNCHANGED <<loop, freeing>>,
         \A m \in Messages : pc'[m] = "unmade" => pc[m] = "unmade"
  PROVE  LoopOk'
<1>1. contexts[freeing] # <<>> => contexts'[freeing] # <<>>
  <2>1. /\ contexts[freeing] \in Seq(Context) /\ contexts'[freeing] \in Seq(Context)
        /\ Len(contexts'[freeing]) >= Len(contexts[freeing])
    BY DEF RelayInv, Shape, NoFewer
  <2>2. QED
    BY <2>1
<1>2. QED
  BY <1>1, Constants DEF RelayInv, LoopOk

---------------------------------------------------------------------------
(* The events. *)

LEMMA EventfulIs ==
  ASSUME NEW c
  PROVE  c \in Eventful <=> \E i \in DOMAIN events : IsAnswer(events[i]) /\ events[i].call = c
BY DEF Eventful, IsAnswer

LEMMA EventKinds ==
  ASSUME NEW e \in Answers \cup Notes
  PROVE  /\ IsAnswer(e) <=> e \in Answers
         /\ e \in Notes => e.kind \in {"ready", "failed", "pause", "close"}
         /\ e \in Answers => /\ e.call \in Calls /\ e.kind = EventKind(e.call)
                             /\ e.ok \in BOOLEAN
<1>1. CASE e \in Answers
  BY <1>1 DEF Answers, Notes, IsAnswer
<1>2. CASE e \in Notes
  BY <1>2 DEF Answers, Notes, IsAnswer
<1>3. QED
  BY <1>1, <1>2

\* The loop takes the first event.
LEMMA TakeFirst ==
  ASSUME RelayInv, NEW kind, TakeEvent(kind)
  PROVE  /\ Head(events) \in Answers \cup Notes /\ Head(events).kind = kind
         /\ events' \in Seq(Answers \cup Notes) /\ AnsweredOnce(events')
         /\ \A c \in Messages :
              c \in Eventful' <=>
                c \in Eventful /\ ~(IsAnswer(Head(events)) /\ Head(events).call = c)
         /\ IsAnswer(Head(events)) => Head(events).call \in Eventful
<1> DEFINE es == events
<1>1. /\ es \in Seq(Answers \cup Notes) /\ es # <<>> /\ events' = Tail(es)
      /\ Head(es).kind = kind
  BY DEF TakeEvent, RelayInv, Shape
<1> PICK q \in Seq(Answers \cup Notes) : q = es
  BY <1>1
<1> HIDE DEF es
<1>2. /\ Len(q) \in Nat /\ Len(q) >= 1 /\ DOMAIN q = 1..Len(q) /\ Head(q) = q[1]
      /\ Head(q) \in Answers \cup Notes
      /\ Tail(q) \in Seq(Answers \cup Notes) /\ DOMAIN Tail(q) = 1..(Len(q) - 1)
      /\ \A i \in DOMAIN Tail(q) : Tail(q)[i] = q[i + 1]
  BY <1>1
<1>3. \A i \in DOMAIN Tail(q) : i + 1 \in DOMAIN q /\ i + 1 # 1 /\ i \in Nat
  BY <1>2
<1>4. \A i \in DOMAIN q : i # 1 => i - 1 \in DOMAIN Tail(q) /\ Tail(q)[i - 1] = q[i]
  <2>1. SUFFICES ASSUME NEW i \in DOMAIN q, i # 1
                 PROVE  i - 1 \in DOMAIN Tail(q) /\ Tail(q)[i - 1] = q[i]
    OBVIOUS
  <2>2. i - 1 \in DOMAIN Tail(q) /\ (i - 1) + 1 = i
    BY <1>2, <2>1
  <2>3. QED
    BY <1>2, <2>2
<1>5. AnsweredOnce(q)
  BY DEF RelayInv, es
<1>6. ASSUME NEW i \in DOMAIN Tail(q), NEW j \in DOMAIN Tail(q),
             IsAnswer(Tail(q)[i]), IsAnswer(Tail(q)[j]), Tail(q)[i].call = Tail(q)[j].call,
             Tail(q)[i].call \in Messages
      PROVE  i = j
  <2>1. i + 1 = j + 1
    BY <1>2, <1>3, <1>5, <1>6 DEF AnsweredOnce
  <2>2. QED
    BY <1>3, <2>1
<1>7. AnsweredOnce(Tail(q))
  BY <1>6 DEF AnsweredOnce
<1>8. ASSUME NEW c \in Messages
      PROVE  (\E i \in DOMAIN Tail(q) : IsAnswer(Tail(q)[i]) /\ Tail(q)[i].call = c) <=>
             /\ \E i \in DOMAIN q : IsAnswer(q[i]) /\ q[i].call = c
             /\ ~(IsAnswer(Head(q)) /\ Head(q).call = c)
  <2>1. ASSUME NEW i \in DOMAIN Tail(q), IsAnswer(Tail(q)[i]), Tail(q)[i].call = c,
               IsAnswer(Head(q)), Head(q).call = c
        PROVE  FALSE
    <3>1. i + 1 \in DOMAIN q /\ 1 \in DOMAIN q /\ q[i + 1] = Tail(q)[i] /\ i + 1 # 1
      BY <1>2, <1>3
    <3>2. QED
      BY <1>2, <1>5, <2>1, <3>1 DEF AnsweredOnce
  <2>2. ASSUME NEW i \in DOMAIN Tail(q), IsAnswer(Tail(q)[i]), Tail(q)[i].call = c
        PROVE  i + 1 \in DOMAIN q /\ IsAnswer(q[i + 1]) /\ q[i + 1].call = c
    BY <1>2, <1>3, <2>2
  <2>3. ASSUME NEW i \in DOMAIN q, IsAnswer(q[i]), q[i].call = c,
               ~(IsAnswer(Head(q)) /\ Head(q).call = c)
        PROVE  /\ i - 1 \in DOMAIN Tail(q) /\ IsAnswer(Tail(q)[i - 1])
               /\ Tail(q)[i - 1].call = c
    <3>1. i # 1
      BY <1>2, <2>3
    <3>2. QED
      BY <1>4, <2>3, <3>1
  <2>4. QED
    BY <2>1, <2>2, <2>3
<1>9. /\ \A c : c \in Eventful <=> \E i \in DOMAIN q : IsAnswer(q[i]) /\ q[i].call = c
      /\ \A c : c \in Eventful' <=>
           \E i \in DOMAIN Tail(q) : IsAnswer(Tail(q)[i]) /\ Tail(q)[i].call = c
  BY <1>1 DEF Eventful, IsAnswer, es
<1>10. 1 \in DOMAIN q
  BY <1>2
<1>11. QED
  BY <1>1, <1>2, <1>7, <1>8, <1>9, <1>10 DEF es

\* The relay sends an event.
LEMMA EmitLast ==
  ASSUME RelayInv, NEW e \in Answers \cup Notes, Emits(e),
         IsAnswer(e) => e.call \notin Eventful \cap Messages
  PROVE  /\ events' \in Seq(Answers \cup Notes) /\ AnsweredOnce(events')
         /\ \A c : c \in Eventful' <=> c \in Eventful \/ (IsAnswer(e) /\ e.call = c)
<1> PICK q \in Seq(Answers \cup Notes) : q = events
  BY DEF RelayInv, Shape
<1>1. /\ events' = Append(q, e) /\ Append(q, e) \in Seq(Answers \cup Notes)
      /\ Len(q) \in Nat /\ DOMAIN q = 1..Len(q)
      /\ DOMAIN Append(q, e) = 1..(Len(q) + 1)
      /\ \A i \in DOMAIN Append(q, e) : Append(q, e)[i] = IF i = Len(q) + 1 THEN e ELSE q[i]
  BY DEF Emits
<1>2. /\ \A i \in DOMAIN Append(q, e) : i = Len(q) + 1 \/ i \in DOMAIN q
      /\ \A i \in DOMAIN q : i \in DOMAIN Append(q, e) /\ i # Len(q) + 1
      /\ Len(q) + 1 \in DOMAIN Append(q, e)
  BY <1>1
<1>3. \A c : c \in Eventful <=> \E i \in DOMAIN q : IsAnswer(q[i]) /\ q[i].call = c
  BY DEF Eventful, IsAnswer
<1>4. \A c : c \in Eventful' <=>
        \E i \in DOMAIN Append(q, e) : IsAnswer(Append(q, e)[i]) /\ Append(q, e)[i].call = c
  BY <1>1 DEF Eventful, IsAnswer
<1>5. AnsweredOnce(q)
  BY DEF RelayInv
<1>6. ASSUME NEW i \in DOMAIN q, IsAnswer(e), IsAnswer(q[i]), q[i].call = e.call
      PROVE  e.call \notin Messages
  BY <1>3, <1>6
<1>7. AnsweredOnce(Append(q, e))
  <2>1. SUFFICES ASSUME NEW i \in DOMAIN Append(q, e), NEW j \in DOMAIN Append(q, e),
                        IsAnswer(Append(q, e)[i]), IsAnswer(Append(q, e)[j]),
                        Append(q, e)[i].call = Append(q, e)[j].call,
                        Append(q, e)[i].call \in Messages
                 PROVE  i = j
    BY DEF AnsweredOnce
  <2>2. CASE i \in DOMAIN q /\ j \in DOMAIN q
    BY <1>1, <1>2, <1>5, <2>1, <2>2 DEF AnsweredOnce
  <2>3. CASE i = Len(q) + 1 \/ j = Len(q) + 1
    BY <1>1, <1>2, <1>6, <2>1, <2>3
  <2>4. QED
    BY <1>2, <2>2, <2>3
<1>8. \A c : c \in Eventful' <=> c \in Eventful \/ (IsAnswer(e) /\ e.call = c)
  BY <1>1, <1>2, <1>3, <1>4
<1>9. QED
  BY <1>1, <1>7, <1>8

---------------------------------------------------------------------------
(* The steps of a message. *)

\* A step of c to a place, with the index of its context.
Moves(c, to, h) ==
  /\ pc' = [pc EXCEPT ![c] = to] /\ held' = [held EXCEPT ![c] = h]
  /\ UNCHANGED <<readyFlag, replied, loopVars, lost>>
  /\ needFlush' \in BOOLEAN
  /\ waiters' = waiters \/ waiters' = waiters \cup {c}
  /\ inner' = inner \/ inner' = inner \cup {c}
  /\ contexts' \in [Types -> Seq(Context)]

LEMMA MoveValues ==
  ASSUME RelayInv, NEW c \in Messages, NEW to, NEW h, Moves(c, to, h)
  PROVE  /\ pc'[c] = to /\ held'[c] = h /\ Eventful' = Eventful
         /\ \A m \in Messages \ {c} : Same(m) /\ (KeepsSlot(m)' <=> KeepsSlot(m))
<1>1. /\ pc'[c] = to /\ held'[c] = h
      /\ \A m \in Messages \ {c} : pc'[m] = pc[m] /\ held'[m] = held[m]
  BY Constants DEF Moves, RelayInv, Shape
<1>2. Eventful' = Eventful
  BY DEF Moves, loopVars, Eventful
<1>3. \A m \in Messages \ {c} : Same(m)
  BY <1>1, <1>2 DEF Moves, Same
<1>4. \A m \in Messages \ {c} : KeepsSlot(m)' <=> KeepsSlot(m)
  BY <1>3 DEF Same, KeepsSlot
<1>5. QED
  BY <1>1, <1>2, <1>3, <1>4

LEMMA MoveStep ==
  ASSUME RelayInv, NEW c \in Messages, NEW to \in MessagePlace \ {"unmade"}, NEW h \in Nat,
         Moves(c, to, h), \A t \in Types \ {TypeOf[c]} : contexts'[t] = contexts[t],
         Len(contexts'[TypeOf[c]]) >= Len(contexts[TypeOf[c]]),
         CallOk(c)', SlotOk(TypeOf[c])'
  PROVE  RelayInv'
<1>1. Shape'
  BY Constants DEF Moves, RelayInv, Shape, loopVars
<1>2. NoFewer
  <2>1. \A t \in Types : Len(contexts[t]) \in Nat
    BY DEF RelayInv, Shape
  <2>2. QED
    BY <2>1 DEF NoFewer
<1>3. LoopOk'
  BY <1>1, <1>2, LoopFrame, MoveValues DEF Moves, loopVars, Same
<1>4. AnsweredOnce(events')
  BY DEF Moves, loopVars, RelayInv
<1>5. QED
  BY <1>1, <1>3, <1>4, MoveValues, OneStep

\* c does not stop a type from being plain, unless by a force_send.
LEMMA MovePlain ==
  ASSUME RelayInv, NEW c \in Messages, NEW to \in MessagePlace \ {"unmade"}, NEW h,
         Moves(c, to, h), Len(contexts'[TypeOf[c]]) = Len(contexts[TypeOf[c]]),
         Op[c] = "force_send" =>
           (h # 0 \/ to = "start" => held[c] # 0 \/ pc[c] \in {"unmade", "start"})
  PROVE  Plain(TypeOf[c])' => Plain(TypeOf[c])
<1>1. TypeOf[c] \in Types
  BY Constants
<1>2. \A m \in Messages : pc'[m] = "unmade" => pc[m] = "unmade"
  BY MoveValues DEF Same
<1>3. \A m \in Messages : TypeOf[m] = TypeOf[c] /\ Op[m] = "force_send" =>
        (held'[m] # 0 \/ pc'[m] \in {"unmade", "start"}
           => held[m] # 0 \/ pc[m] \in {"unmade", "start"})
  BY MoveValues DEF Same
<1>4. QED
  BY <1>1, <1>2, <1>3, PlainKept

\* A step that neither takes nor frees a slot.
LEMMA MoveFree ==
  ASSUME RelayInv, NEW c \in Messages, NEW to \in MessagePlace \ {"unmade"}, NEW h \in Nat,
         Moves(c, to, h), \A t \in Types : Len(contexts'[t]) = Len(contexts[t]),
         \A t \in Types \ {TypeOf[c]} : contexts'[t] = contexts[t],
         Plain(TypeOf[c]) => Newest(TypeOf[c]).processing' = Newest(TypeOf[c]).processing,
         Op[c] = "force_send" =>
           (h # 0 \/ to = "start" => held[c] # 0 \/ pc[c] \in {"unmade", "start"}),
         CallOk(c)', KeepsSlot(c)' <=> KeepsSlot(c)
  PROVE  RelayInv'
<1>1. TypeOf[c] \in Types /\ Len(contexts'[TypeOf[c]]) = Len(contexts[TypeOf[c]])
  BY Constants
<1>2. Plain(TypeOf[c])' => Plain(TypeOf[c])
  BY <1>1, MovePlain
<1>3. \A m \in Messages : KeepsSlot(m)' <=> KeepsSlot(m)
  BY MoveValues
<1>4. SlotOk(TypeOf[c])
  BY <1>1 DEF RelayInv, SlotsOk
<1>5. SlotOk(TypeOf[c])'
  BY <1>1, <1>2, <1>3, <1>4, SlotKept
<1>6. Len(contexts'[TypeOf[c]]) >= Len(contexts[TypeOf[c]])
  BY <1>1 DEF RelayInv, Shape
<1>7. QED
  BY <1>5, <1>6, MoveStep

LEMMA LookInv ==
  ASSUME RelayInv, NEW c \in Messages, Look(c)
  PROVE  RelayInv'
<1> DEFINE to == IF contexts[TypeOf[c]] = <<>> THEN "insert" ELSE "reserve"
<1>0. /\ pc[c] = "start" /\ CallOk(c) /\ TypeOf[c] \in Types
      /\ held \in [Messages -> Nat] /\ contexts \in [Types -> Seq(Context)]
  BY Constants DEF Look, Step, RelayInv, CallsOk, Shape
<1>1. PICK p \in {"insert", "reserve"} : p = to
  OBVIOUS
<1>2. Moves(c, p, held[c]) /\ UNCHANGED <<contexts, inner>>
  BY <1>0, <1>1 DEF Look, Step, Goes, Moves, loopVars, innerVars, RelayInv, Shape
<1>3. pc'[c] = p /\ held'[c] = held[c] /\ Eventful' = Eventful
  BY <1>2, MoveValues
<1>4. CallOk(c)'
  BY <1>0, <1>1, <1>2, <1>3 DEF CallOk, Look, MessagePlace, Sent, Moves
<1>5. KeepsSlot(c)' <=> KeepsSlot(c)
  BY <1>0, <1>2, <1>3 DEF KeepsSlot, CallOk, Sent, Moves
<1>6. QED
  BY <1>0, <1>2, <1>4, <1>5, MoveFree DEF Look, MessagePlace, Newest

LEMMA InsertInv ==
  ASSUME RelayInv, NEW c \in Messages, Insert(c)
  PROVE  RelayInv'
<1> PICK t \in Types : t = TypeOf[c]
  BY Constants
<1>0. /\ pc[c] = "insert" /\ CallOk(c)
      /\ held \in [Messages -> Nat] /\ contexts \in [Types -> Seq(Context)]
      /\ contexts[t] \in Seq(Context)
  BY Constants DEF Insert, Step, RelayInv, CallsOk, Shape
<1>1. Fresh \in Context
  <2>1. 0 \in 0..(Wrap - 1)
    BY Constants
  <2>2. <<>> \in Seq(Calls)
    OBVIOUS
  <2>3. QED
    BY <2>1, <2>2 DEF Fresh, Quiet, Context, NotifyState
<1>2. /\ contexts'[t] = Append(contexts[t], Fresh) /\ contexts'[t] \in Seq(Context)
      /\ \A s \in Types \ {t} : contexts'[s] = contexts[s]
      /\ contexts' \in [Types -> Seq(Context)]
  BY <1>0, <1>1 DEF Insert
<1>3. Moves(c, "reserve", held[c]) /\ UNCHANGED inner
  BY <1>0, <1>2 DEF Insert, Step, Goes, Moves, loopVars, innerVars, RelayInv, Shape
<1>4. /\ pc'[c] = "reserve" /\ held'[c] = held[c] /\ Eventful' = Eventful
      /\ \A m \in Messages \ {c} : KeepsSlot(m)' <=> KeepsSlot(m)
  BY <1>3, MoveValues
<1>5. Len(contexts[t]) \in Nat /\ Len(contexts'[t]) = Len(contexts[t]) + 1
  BY <1>0, <1>2
<1>6. CallOk(c)'
  <2>1. held[c] \in Nat /\ held[c] <= Len(contexts[t])
    BY <1>0 DEF CallOk
  <2>2. held[c] <= Len(contexts[t]) + 1
    BY <1>5, <2>1
  <2>3. contexts'[t] # <<>> /\ held[c] <= Len(contexts'[t])
    BY <1>2, <1>5, <2>2
  <2>4. QED
    BY <1>0, <1>3, <1>4, <2>3 DEF CallOk, Insert, MessagePlace, Sent, Moves
<1>7. KeepsSlot(c)' <=> KeepsSlot(c)
  BY <1>0, <1>3, <1>4 DEF KeepsSlot, CallOk, Sent, Moves
<1>8. SlotOk(t)'
  <2>1. SUFFICES ASSUME Plain(t)'
                 PROVE  /\ Newest(t).processing' = Cardinality(KeptSlots(t)')
                        /\ Cardinality(Unforced(t)') <= RelayLimit
    BY DEF SlotOk
  <2>2. Len(contexts[t]) = 0
    <3>1. Len(contexts'[t]) = 1
      BY <2>1 DEF Plain
    <3>2. \A n \in Nat : n + 1 = 1 => n = 0
      OBVIOUS
    <3>3. QED
      BY <1>5, <3>1, <3>2
  <2>3. \A m \in Messages : TypeOf[m] = t => held[m] = 0
    BY <1>0, <2>2 DEF RelayInv, CallsOk, CallOk
  <2>4. \A m \in Messages : TypeOf[m] = t => ~KeepsSlot(m)'
    BY <1>4, <1>7, <2>3 DEF KeepsSlot
  <2>5. KeptSlots(t)' = {} /\ Unforced(t)' = {}
    BY <2>4 DEF KeptSlots, Unforced
  <2>6. Newest(t).processing' = 0
    BY <1>0, <1>2, <1>5, <2>2 DEF Newest, Fresh
  <2>7. QED
    BY <2>5, <2>6, FS_EmptySet, Constants
<1>9. QED
  BY <1>0, <1>2, <1>3, <1>5, <1>6, <1>8, MoveStep DEF MessagePlace

\* A slot is counted in the newest context, which is then the one that is held.
LEMMA ReserveInv ==
  ASSUME RelayInv, NEW c \in Messages, Reserve(c)
  PROVE  RelayInv'
<1> PICK t \in Types : t = TypeOf[c]
  BY Constants
<1>0. /\ pc[c] \in {"reserve", "parked"} /\ CallOk(c) /\ Op[c] # "force_send"
      /\ held \in [Messages -> Nat] /\ contexts \in [Types -> Seq(Context)]
      /\ contexts[t] \in Seq(Context) /\ contexts[t] # <<>> /\ SlotOk(t) /\ Shape
  BY Constants DEF Reserve, Reserving, RelayInv, CallsOk, CallOk, Shape, SlotsOk
<1>1. Len(contexts[t]) \in 1..Len(contexts[t]) /\ Len(contexts[t]) \in Nat
  BY <1>0
<1>2. CASE Full(t)
  <2>1. PICK p \in {"full", "wait"} : p = IF Op[c] = "try_send" THEN "full" ELSE "wait"
    OBVIOUS
  <2>2. Moves(c, p, 0) /\ UNCHANGED <<contexts, inner>>
    BY <1>0, <1>2, <2>1 DEF Reserve, Goes, Moves, loopVars, innerVars, RelayInv, Shape
  <2>3. pc'[c] = p /\ held'[c] = 0 /\ Eventful' = Eventful
    BY <2>2, MoveValues
  <2>4. CallOk(c)'
    BY <1>0, <1>1, <2>1, <2>2, <2>3 DEF CallOk, Reserve, MessagePlace, Sent, Moves
  <2>5. KeepsSlot(c)' <=> KeepsSlot(c)
    BY <1>0, <2>2, <2>3 DEF KeepsSlot, CallOk, Sent, Moves
  <2>6. QED
    BY <1>0, <2>1, <2>2, <2>4, <2>5, MoveFree DEF MessagePlace, Newest
<1>3. CASE ~Full(t)
  <2>1. PICK n \in 1..Len(contexts[t]) : n = Len(contexts[t])
    BY <1>1
  <2>2. Add(t, n, 1)
    BY <1>3, <2>1 DEF Reserve
  <2>3. /\ contexts' \in [Types -> Seq(Context)]
        /\ \A s \in Types \ {t} : contexts'[s] = contexts[s]
        /\ \A s \in Types : Len(contexts'[s]) = Len(contexts[s])
        /\ contexts'[t][n].processing = (contexts[t][n].processing + 1) % Wrap
    BY <1>0, <2>2, AddContext
  <2>4. Moves(c, "send", n) /\ UNCHANGED inner
    BY <1>3, <2>1, <2>3 DEF Reserve, Goes, Moves, loopVars, innerVars, RelayInv, Shape
  <2>5. /\ pc'[c] = "send" /\ held'[c] = n /\ Eventful' = Eventful /\ n # 0
        /\ \A m \in Messages \ {c} : KeepsSlot(m)' <=> KeepsSlot(m)
    BY <2>4, MoveValues
  <2>6. CallOk(c)'
    <3>1. held'[c] <= Len(contexts'[TypeOf[c]]) /\ held'[c] # 0
      BY <1>1, <2>1, <2>3, <2>5
    <3>2. QED
      BY <1>0, <2>3, <2>4, <2>5, <3>1 DEF CallOk, Reserve, MessagePlace, Sent, Moves
  <2>7. ~KeepsSlot(c) /\ KeepsSlot(c)'
    BY <1>0, <2>4, <2>5 DEF KeepsSlot, CallOk, Sent, Moves
  <2>8. Newest(t).processing' = (Newest(t).processing + 1) % Wrap
    BY <2>1, <2>3 DEF Newest
  <2>9. Plain(t)' => Plain(t)
    BY <1>0, <2>3, <2>4, MovePlain DEF MessagePlace
  <2>10. SlotOk(t)'
    BY <1>0, <1>3, <2>5, <2>7, <2>8, <2>9, SlotTaken
  <2>11. Len(contexts'[t]) >= Len(contexts[t])
    BY <1>1, <2>3
  <2>12. QED
    BY <2>3, <2>4, <2>6, <2>10, <2>11, MoveStep DEF MessagePlace
<1>4. QED
  BY <1>2, <1>3

LEMMA PollState ==
  ASSUME NEW n \in NotifyState
  PROVE  /\ \A c \in Calls : PollNotified(n, c) \in NotifyState
         /\ NotifyOne(n) \in NotifyState
<1>1. n.permit \in BOOLEAN /\ n.waiting \in Seq(Calls)
  BY DEF NotifyState
<1>2. <<>> \in Seq(Calls) /\ \A c \in Calls : Append(n.waiting, c) \in Seq(Calls)
  BY <1>1
<1>3. n.waiting # <<>> => Tail(n.waiting) \in Seq(Calls)
  BY <1>1
<1>4. \A c \in Calls : PollNotified(n, c) \in NotifyState
  BY <1>1, <1>2 DEF PollNotified, NotifyState
<1>5. CASE n.waiting = <<>>
  BY <1>1, <1>2, <1>4, <1>5 DEF NotifyOne, NotifyState
<1>6. CASE n.waiting # <<>>
  BY <1>1, <1>3, <1>4, <1>6 DEF NotifyOne, NotifyState
<1>7. QED
  BY <1>5, <1>6

LEMMA WaitInv ==
  ASSUME RelayInv, NEW c \in Messages, Wait(c)
  PROVE  RelayInv'
<1> PICK t \in Types : t = TypeOf[c]
  BY Constants
<1>0. /\ pc[c] = "wait" /\ CallOk(c) /\ Op[c] # "force_send" /\ c \in Calls
      /\ held \in [Messages -> Nat] /\ contexts \in [Types -> Seq(Context)]
      /\ contexts[t] \in Seq(Context) /\ contexts[t] # <<>> /\ Shape
  BY Constants DEF Wait, Step, RelayInv, CallsOk, CallOk, Shape
<1>1. PICK i \in DOMAIN contexts[t] : i = Len(contexts[t]) /\ i # 0
  <2>1. /\ Len(contexts[t]) \in Nat /\ Len(contexts[t]) # 0
        /\ DOMAIN contexts[t] = 1..Len(contexts[t])
    BY <1>0
  <2>2. QED
    BY <2>1
<1>2. PICK p \in {"reserve", "parked"} :
        p = IF Newest(t).response.permit THEN "reserve" ELSE "parked"
  OBVIOUS
<1>3. PICK n \in NotifyState : n = PollNotified(contexts[t][i].response, c)
  <2>1. contexts[t][i] \in Context
    BY <1>0
  <2>2. contexts[t][i].response \in NotifyState
    BY <2>1 DEF Context
  <2>3. QED
    BY <1>0, <2>2, PollState
<1>4. contexts' = [contexts EXCEPT ![t][i].response = n]
  BY <1>0, <1>1, <1>3 DEF Wait
<1>5. /\ contexts' \in [Types -> Seq(Context)]
      /\ \A s \in Types : Len(contexts'[s]) = Len(contexts[s])
      /\ contexts'[t][i].processing = contexts[t][i].processing
      /\ \A s \in Types \ {t} : contexts'[s] = contexts[s]
  BY <1>0, <1>4, NotifyContext
<1>6. Moves(c, p, i) /\ UNCHANGED <<inner, waiters>>
  BY <1>1, <1>2, <1>5 DEF Wait, Step, Goes, Moves, loopVars, innerVars, RelayInv, Shape
<1>7. pc'[c] = p /\ held'[c] = i /\ Eventful' = Eventful
  BY <1>6, MoveValues
<1>8. CallOk(c)'
  <2>1. /\ contexts[t] # <<>> /\ contexts'[t] \in Seq(Context)
        /\ Len(contexts'[t]) = Len(contexts[t]) /\ Len(contexts[t]) \in Nat
    BY <1>0, <1>5
  <2>2. contexts'[t] # <<>> /\ held'[c] <= Len(contexts'[TypeOf[c]]) /\ held'[c] # 0
    BY <1>1, <1>7, <2>1
  <2>3. QED
    BY <1>0, <1>2, <1>6, <1>7, <2>2 DEF CallOk, MessagePlace, Sent, Moves
<1>9. KeepsSlot(c)' <=> KeepsSlot(c)
  BY <1>0, <1>2, <1>6, <1>7 DEF KeepsSlot, CallOk, Sent, Moves
<1>10. Newest(t).processing' = Newest(t).processing
  BY <1>1, <1>5 DEF Newest
<1>11. i \in Nat
  BY <1>0, <1>1
<1>12. QED
  BY <1>0, <1>2, <1>5, <1>6, <1>8, <1>9, <1>10, <1>11, MoveFree DEF MessagePlace

LEMMA DropPermitInv ==
  ASSUME RelayInv, NEW c \in Messages, DropPermit(c)
  PROVE  RelayInv'
<1> PICK t \in Types : t = TypeOf[c]
  BY Constants
<1>0. /\ pc[c] = "send" /\ CallOk(c) /\ Op[c] # "force_send" /\ held[c] # 0
      /\ held \in [Messages -> Nat] /\ contexts \in [Types -> Seq(Context)]
      /\ contexts[t] \in Seq(Context) /\ SlotOk(t) /\ Shape
      /\ held[c] <= Len(contexts[t]) /\ Len(contexts[t]) \in Nat
  BY Constants DEF DropPermit, Step, RelayInv, CallsOk, CallOk, Shape, SlotsOk
<1>1. PICK i \in 1..Len(contexts[t]) : i = held[c]
  BY <1>0
<1>2. Add(t, i, -1) /\ contexts[t] # <<>>
  BY <1>0, <1>1 DEF DropPermit
<1>3. /\ contexts' \in [Types -> Seq(Context)]
      /\ \A s \in Types \ {t} : contexts'[s] = contexts[s]
      /\ \A s \in Types : Len(contexts'[s]) = Len(contexts[s])
      /\ contexts'[t][i].processing = (contexts[t][i].processing + (-1)) % Wrap
  BY <1>0, <1>2, AddContext
<1>4. Moves(c, "full", 0) /\ UNCHANGED <<inner, waiters>>
  BY <1>3 DEF DropPermit, Step, Goes, Moves, loopVars, innerVars, RelayInv, Shape
<1>5. /\ pc'[c] = "full" /\ held'[c] = 0 /\ Eventful' = Eventful
      /\ \A m \in Messages \ {c} : KeepsSlot(m)' <=> KeepsSlot(m)
  BY <1>4, MoveValues
<1>6. CallOk(c)'
  <2>1. held'[c] <= Len(contexts'[TypeOf[c]])
    BY <1>0, <1>3, <1>5
  <2>2. QED
    BY <1>0, <1>4, <1>5, <2>1 DEF CallOk, MessagePlace, Sent, Moves
<1>7. KeepsSlot(c) /\ ~KeepsSlot(c)'
  BY <1>0, <1>5 DEF KeepsSlot
<1>8. Plain(t) => Newest(t).processing' = (Newest(t).processing + (-1)) % Wrap
  <2>1. SUFFICES ASSUME Len(contexts[t]) = 1
                 PROVE  Newest(t).processing' = (Newest(t).processing + (-1)) % Wrap
    BY DEF Plain
  <2>2. i = 1
    BY <1>1, <2>1
  <2>3. QED
    BY <1>3, <2>1, <2>2 DEF Newest
<1>9. Plain(t)' => Plain(t)
  BY <1>0, <1>3, <1>4, MovePlain DEF MessagePlace
<1>10. SlotOk(t)'
  BY <1>0, <1>5, <1>7, <1>8, <1>9, SlotFreed
<1>11. Len(contexts'[t]) >= Len(contexts[t])
  BY <1>0, <1>3
<1>12. QED
  BY <1>3, <1>4, <1>6, <1>10, <1>11, MoveStep DEF MessagePlace

LEMMA BumpInv ==
  ASSUME RelayInv, NEW c \in Messages, Bump(c)
  PROVE  RelayInv'
<1> PICK t \in Types : t = TypeOf[c]
  BY Constants
<1>0. /\ pc[c] = "start" /\ CallOk(c) /\ Op[c] = "force_send"
      /\ held \in [Messages -> Nat] /\ contexts \in [Types -> Seq(Context)]
      /\ contexts[t] \in Seq(Context) /\ SlotOk(t) /\ Shape
      /\ Len(contexts[t]) \in Nat
  BY Constants DEF Bump, Step, RelayInv, CallsOk, CallOk, Shape, SlotsOk
<1>1. PICK n \in 0..Len(contexts[t]) : n = Len(contexts[t])
  BY <1>0
<1>2. ASSUME contexts' \in [Types -> Seq(Context)],
             \A s \in Types : Len(contexts'[s]) = Len(contexts[s])
      PROVE  /\ Moves(c, "send", n) /\ UNCHANGED <<inner, waiters>>
             /\ pc'[c] = "send" /\ held'[c] = n /\ Eventful' = Eventful
             /\ \A m \in Messages \ {c} : KeepsSlot(m)' <=> KeepsSlot(m)
             /\ CallOk(c)' /\ ~KeepsSlot(c) /\ (n # 0 => KeepsSlot(c)')
             /\ Plain(t)' => Plain(t)
             /\ Len(contexts'[t]) >= Len(contexts[t])
  <2>1. Moves(c, "send", n) /\ UNCHANGED <<inner, waiters>>
    BY <1>1, <1>2 DEF Bump, Step, Goes, Moves, loopVars, innerVars, RelayInv, Shape
  <2>2. /\ pc'[c] = "send" /\ held'[c] = n /\ Eventful' = Eventful
        /\ \A m \in Messages \ {c} : KeepsSlot(m)' <=> KeepsSlot(m)
    BY <2>1, MoveValues
  <2>3. held'[c] <= Len(contexts'[TypeOf[c]])
    BY <1>1, <1>2, <2>2
  <2>4. CallOk(c)'
    BY <1>0, <2>1, <2>2, <2>3 DEF CallOk, MessagePlace, Sent, Moves
  <2>5. ~KeepsSlot(c) /\ (n # 0 => KeepsSlot(c)')
    BY <1>0, <2>1, <2>2 DEF KeepsSlot, CallOk, Sent, Moves
  <2>6. Plain(t)' => Plain(t)
    BY <1>0, <1>2, <2>1, MovePlain DEF MessagePlace
  <2>7. QED
    BY <1>0, <1>2, <2>1, <2>2, <2>4, <2>5, <2>6
<1>3. CASE contexts[t] = <<>>
  <2>1. UNCHANGED contexts /\ n = 0
    BY <1>1, <1>3 DEF Bump
  <2>2. ~Plain(t)
    BY <1>1, <2>1 DEF Plain
  <2>3. contexts' \in [Types -> Seq(Context)] /\ \A s \in Types : Len(contexts'[s]) = Len(contexts[s])
    BY <1>0, <2>1
  <2>4. SlotOk(t)'
    BY <1>2, <2>2, <2>3 DEF SlotOk
  <2>5. n \in Nat
    BY <2>1
  <2>6. QED
    BY <1>2, <2>1, <2>3, <2>4, <2>5, MoveStep DEF MessagePlace
<1>4. CASE contexts[t] # <<>>
  <2>1. n \in 1..Len(contexts[t])
    BY <1>0, <1>1, <1>4
  <2>2. Add(t, n, 1)
    BY <1>1, <1>4 DEF Bump
  <2>3. /\ contexts' \in [Types -> Seq(Context)]
        /\ \A s \in Types \ {t} : contexts'[s] = contexts[s]
        /\ \A s \in Types : Len(contexts'[s]) = Len(contexts[s])
        /\ contexts'[t][n].processing = (contexts[t][n].processing + 1) % Wrap
    BY <1>0, <1>4, <2>1, <2>2, AddContext
  <2>4. Newest(t).processing' = (Newest(t).processing + 1) % Wrap
    BY <1>1, <2>3 DEF Newest
  <2>5. SlotOk(t)'
    BY <1>0, <1>2, <2>1, <2>3, <2>4, SlotTaken
  <2>6. n \in Nat
    BY <2>1
  <2>7. QED
    BY <1>2, <2>3, <2>5, <2>6, MoveStep DEF MessagePlace
<1>5. QED
  BY <1>3, <1>4

LEMMA SendInv ==
  ASSUME RelayInv, NEW c \in Messages, Send(c)
  PROVE  RelayInv'
<1>0. /\ pc[c] = "send" /\ CallOk(c) /\ held \in [Messages -> Nat]
      /\ contexts \in [Types -> Seq(Context)]
  BY DEF Send, Step, RelayInv, CallsOk, Shape
<1>1. PICK p \in {"mark", "refused"} : p = IF accepting THEN "mark" ELSE "refused"
  OBVIOUS
<1>2. Moves(c, p, held[c]) /\ UNCHANGED <<contexts, waiters>>
  BY <1>0, <1>1 DEF Send, Step, Goes, Moves, wrapperVars, RelayInv, Shape
<1>3. pc'[c] = p /\ held'[c] = held[c] /\ Eventful' = Eventful
  BY <1>2, MoveValues
<1>4. p = "mark" => inner' = inner \cup {c}
  BY <1>1 DEF Send
<1>5. p = "refused" => inner' = inner
  BY <1>1 DEF Send
<1>6. CallOk(c)'
  BY <1>0, <1>1, <1>2, <1>3, <1>5 DEF CallOk, MessagePlace, Sent, Moves
<1>7. KeepsSlot(c)' <=> KeepsSlot(c)
  BY <1>0, <1>1, <1>2, <1>3, <1>4, <1>5 DEF KeepsSlot, CallOk, Sent, Moves
<1>8. QED
  BY <1>0, <1>1, <1>2, <1>6, <1>7, MoveFree DEF MessagePlace, Newest

LEMMA MarkInv ==
  ASSUME RelayInv, NEW c \in Messages, Mark(c) \/ Answered(c)
  PROVE  RelayInv'
<1>0. /\ pc[c] \in {"mark", "refused", "await"} /\ CallOk(c) /\ held \in [Messages -> Nat]
      /\ contexts \in [Types -> Seq(Context)]
  BY DEF Mark, Answered, Step, RelayInv, CallsOk, Shape
<1>1. PICK p \in {"failed", "await", "done"} :
        p = IF pc[c] = "refused" THEN "failed"
            ELSE IF pc[c] = "mark" /\ Op[c] = "request" THEN "await" ELSE "done"
  OBVIOUS
<1>2. Moves(c, p, held[c]) /\ UNCHANGED <<contexts, inner, waiters>>
  BY <1>0, <1>1
     DEF Mark, Answered, Step, Goes, Moves, loopVars, innerVars, wrapperVars, RelayInv, Shape
<1>3. pc'[c] = p /\ held'[c] = held[c] /\ Eventful' = Eventful
  BY <1>2, MoveValues
<1>4. CallOk(c)'
  BY <1>0, <1>1, <1>2, <1>3 DEF CallOk, MessagePlace, Sent, Moves
<1>5. KeepsSlot(c)' <=> KeepsSlot(c)
  BY <1>0, <1>1, <1>2, <1>3 DEF KeepsSlot, CallOk, Sent, Moves
<1>6. QED
  BY <1>0, <1>1, <1>2, <1>4, <1>5, MoveFree DEF MessagePlace, Newest

LEMMA MessageInv ==
  ASSUME RelayInv, NEW c \in Calls, MessageStep(c)
  PROVE  RelayInv'
BY LookInv, InsertInv, ReserveInv, WaitInv, DropPermitInv, BumpInv, SendInv, MarkInv
   DEF MessageStep

---------------------------------------------------------------------------
(* The steps of a control. *)

LEMMA ControlInv ==
  ASSUME RelayInv, NEW c \in Calls, ControlStep(c) \/ TimeOut(c)
  PROVE  RelayInv'
<1>0. /\ Shape /\ \A m \in Messages : pc[m] \in MessagePlace /\ Op[m] \in MessageOps
      /\ pc \in [Calls -> MessagePlace \cup ControlPlace] /\ Messages \subseteq Calls
  BY Constants DEF RelayInv, CallsOk, CallOk, Shape
<1>1. c \notin Messages
  BY <1>0 DEF ControlStep, TimeOut, Flush, PollFlushed, UnparkFlushed, Register, Act, Awake,
     Step, MessagePlace, MessageOps, ControlOps
<1>2. \E to \in ControlPlace : pc' = [pc EXCEPT ![c] = to]
  BY DEF ControlStep, TimeOut, Flush, PollFlushed, UnparkFlushed, Register, Act, Awake, Step,
     Goes, ControlPlace
<1>3. /\ UNCHANGED <<contexts, needFlush, readyFlag, waiters, replied, held, loop, freeing,
                     events, lost>>
      /\ inner' \in {inner, inner \cup {c}}
  BY DEF ControlStep, TimeOut, Flush, PollFlushed, UnparkFlushed, Register, Act, Awake,
     loopVars, innerVars, wrapperVars
<1>4. \A m \in Messages : pc'[m] = pc[m]
  BY <1>0, <1>1, <1>2
<1>5. Eventful' = Eventful
  BY <1>3 DEF Eventful
<1>6. \A m \in Messages : Same(m)
  BY <1>1, <1>3, <1>4, <1>5 DEF Same
<1>7. Shape'
  BY <1>0, <1>2, <1>3 DEF Shape
<1>8. AnsweredOnce(events')
  BY <1>3 DEF RelayInv
<1>9. QED
  BY <1>3, <1>6, <1>7, <1>8, QuietStep

---------------------------------------------------------------------------
(* The steps of the event loop. *)

\* An event that is not about a message.
LEMMA NoteTaken ==
  ASSUME RelayInv, NEW kind \in {"ready", "failed", "pause", "flush", "sync", "close"},
         TakeEvent(kind)
  PROVE  \A m \in Messages : m \in Eventful' <=> m \in Eventful
<1>1. /\ Head(events) \in Answers \cup Notes /\ Head(events).kind = kind
      /\ \A m \in Messages :
           m \in Eventful' <=> m \in Eventful /\ ~(IsAnswer(Head(events)) /\ Head(events).call = m)
  BY TakeFirst
<1>2. ASSUME NEW m \in Messages, IsAnswer(Head(events)), Head(events).call = m
      PROVE  FALSE
  <2>1. kind = EventKind(m)
    BY <1>1, <1>2, EventKinds
  <2>2. QED
    BY <2>1, Constants DEF EventKind, MessageOps
<1>3. QED
  BY <1>1, <1>2

LEMMA LoopQuiet ==
  ASSUME RelayInv,
         \/ OnInit("ready") \/ OnInit("failed") \/ StoreReady \/ OnPause
         \/ OnFlushed \/ NotifyFlushed \/ OnSynchronized \/ EndLoop
  PROVE  RelayInv'
<1>1. /\ UNCHANGED <<contexts, waiters, replied, freeing, inner, lost, pc, held>>
      /\ needFlush' \in {FALSE, needFlush} /\ readyFlag' \in BOOLEAN
      /\ loop' \in {"next", "ready", "failed", "flushed", "ended"}
  BY DEF OnInit, StoreReady, OnPause, OnFlushed, NotifyFlushed, OnSynchronized, EndLoop,
     TakeEvent, Wake, innerVars, callVars, RelayInv, Shape
<1>2. /\ events' \in Seq(Answers \cup Notes) /\ AnsweredOnce(events')
      /\ \A m \in Messages : m \in Eventful' <=> m \in Eventful
  <2>1. CASE UNCHANGED events
    BY <2>1 DEF RelayInv, Shape, Eventful
  <2>2. CASE \E kind \in {"ready", "failed", "pause", "flush", "sync", "close"} : TakeEvent(kind)
    BY <2>2, TakeFirst, NoteTaken
  <2>3. QED
    BY <2>1, <2>2 DEF OnInit, StoreReady, OnPause, OnFlushed, NotifyFlushed, OnSynchronized,
       EndLoop
<1>3. Shape'
  BY <1>1, <1>2 DEF RelayInv, Shape, LoopPlace
<1>4. \A m \in Messages : Same(m)
  BY <1>1, <1>2 DEF Same
<1>5. QED
  BY <1>1, <1>2, <1>3, <1>4, QuietStep

\* What the loop does to a context does not touch the calls.
LEMMA LoopContext ==
  ASSUME RelayInv, NEW t \in Types, contexts' \in [Types -> Seq(Context)],
         \A s \in Types : Len(contexts'[s]) = Len(contexts[s]), LoopOk',
         freeing' = freeing, loop' \in LoopPlace,
         UNCHANGED <<needFlush, readyFlag, waiters, replied, events, innerVars, callVars>>,
         \A s \in Types : Plain(s) => Newest(s).processing' = Newest(s).processing
  PROVE  RelayInv'
<1>1. Shape'
  BY DEF RelayInv, Shape, innerVars, callVars
<1>2. NoFewer
  BY DEF NoFewer, RelayInv, Shape
<1>3. \A m \in Messages : Same(m)
  BY DEF Same, innerVars, callVars, Eventful
<1>4. \A m \in Messages : CallOk(m)' /\ (KeepsSlot(m)' <=> KeepsSlot(m))
  BY <1>1, <1>2, <1>3, SameCall DEF RelayInv, CallsOk
<1>5. ASSUME NEW s \in Types
      PROVE  SlotOk(s)'
  <2>1. Plain(s)' => Plain(s)
    BY <1>3, PlainKept DEF Same
  <2>2. QED
    BY <1>4, <2>1, SlotKept DEF RelayInv, SlotsOk
<1>6. AnsweredOnce(events')
  BY DEF RelayInv
<1>7. QED
  BY <1>1, <1>4, <1>5, <1>6 DEF RelayInv, CallsOk, SlotsOk

\* A response frees a slot of the type of the response, which is not plain then.
LEMMA FreeSlotInv ==
  ASSUME RelayInv, FreeSlot
  PROVE  RelayInv'
<1> PICK t \in Types : t = freeing
  BY DEF RelayInv, Shape
<1>1. /\ contexts[t] \in Seq(Context) /\ contexts[t] # <<>> /\ ~Plain(t)
      /\ Shape
  BY DEF RelayInv, Shape, LoopOk, FreeSlot, Plain
<1>2. PICK n \in 1..Len(contexts[t]) : n = Len(contexts[t])
  BY <1>1
<1>3. Add(t, n, -1)
  BY <1>2 DEF FreeSlot
<1>4. /\ contexts' \in [Types -> Seq(Context)]
      /\ \A s \in Types \ {t} : contexts'[s] = contexts[s]
      /\ \A s \in Types : Len(contexts'[s]) = Len(contexts[s])
  BY <1>1, <1>3, AddContext
<1>5. \A s \in Types : Plain(s) => Newest(s).processing' = Newest(s).processing
  BY <1>1, <1>4 DEF Newest
<1>6. contexts'[t] # <<>>
  BY <1>1, <1>4
<1>7. LoopOk'
  BY <1>6 DEF LoopOk, FreeSlot
<1>8. QED
  BY <1>4, <1>5, <1>7, LoopContext DEF FreeSlot, LoopPlace

LEMMA NotifyInv ==
  ASSUME RelayInv, NotifyResponse
  PROVE  RelayInv'
<1> PICK t \in Types : t = freeing
  BY DEF RelayInv, Shape
<1>1. /\ contexts[t] \in Seq(Context) /\ contexts[t] # <<>> /\ Shape
  BY DEF RelayInv, Shape, LoopOk, NotifyResponse
<1>2. PICK i \in DOMAIN contexts[t] : i = Len(contexts[t])
  BY <1>1
<1>3. PICK n \in NotifyState : n = NotifyOne(contexts[t][i].response)
  <2>1. contexts[t][i] \in Context
    BY <1>1
  <2>2. contexts[t][i].response \in NotifyState
    BY <2>1 DEF Context
  <2>3. NotifyOne(contexts[t][i].response) \in NotifyState
    BY <2>2, PollState
  <2>4. QED
    BY <2>3
<1>4. contexts' = [contexts EXCEPT ![t][i].response = n]
  BY <1>1, <1>2, <1>3 DEF NotifyResponse, Shape
<1>5. /\ contexts' \in [Types -> Seq(Context)]
      /\ \A s \in Types : Len(contexts'[s]) = Len(contexts[s])
      /\ \A s \in Types : \A j \in DOMAIN contexts[s] :
           contexts'[s][j].processing = contexts[s][j].processing
  BY <1>1, <1>4, NotifyContext
<1>6. ASSUME NEW s \in Types, Plain(s)
      PROVE  Newest(s).processing' = Newest(s).processing
  <2>1. Len(contexts[s]) \in DOMAIN contexts[s] /\ Len(contexts'[s]) = Len(contexts[s])
    BY <1>1, <1>5, <1>6 DEF Plain, Shape
  <2>2. QED
    BY <1>5, <2>1 DEF Newest
<1>7. LoopOk' /\ loop' \in LoopPlace
  BY DEF LoopOk, NotifyResponse, LoopPlace
<1>8. QED
  BY <1>5, <1>6, <1>7, LoopContext DEF NotifyResponse

\* The loop takes the answer of a message.
LEMMA AnswerTaken ==
  ASSUME RelayInv, NEW kind \in {"send", "request"}, TakeEvent(kind)
  PROVE  \E q \in Messages :
           /\ IsAnswer(Head(events)) /\ Head(events).call = q /\ EventKind(q) = kind
           /\ q \in Eventful /\ q \notin Eventful' /\ CallOk(q) /\ pc[q] \in Sent
           /\ \A m \in Messages \ {q} : m \in Eventful' <=> m \in Eventful
<1>1. /\ Head(events) \in Answers \cup Notes /\ Head(events).kind = kind
      /\ \A m \in Messages :
           m \in Eventful' <=> m \in Eventful /\ ~(IsAnswer(Head(events)) /\ Head(events).call = m)
      /\ IsAnswer(Head(events)) => Head(events).call \in Eventful
  BY TakeFirst
<1>2. /\ IsAnswer(Head(events)) /\ Head(events).call \in Calls
      /\ EventKind(Head(events).call) = kind
  BY <1>1, EventKinds
<1>3. Head(events).call \in Messages
  BY <1>2 DEF EventKind, Messages, MessageOps
<1>4. CallOk(Head(events).call)
  BY <1>3 DEF RelayInv, CallsOk
<1>5. pc[Head(events).call] \in Sent
  BY <1>1, <1>2, <1>4 DEF CallOk
<1>6. QED
  BY <1>1, <1>2, <1>3, <1>4, <1>5

LEMMA ResponseInv ==
  ASSUME RelayInv, OnResponse
  PROVE  RelayInv'
<1>1. PICK q \in Messages :
           /\ IsAnswer(Head(events)) /\ Head(events).call = q /\ EventKind(q) = "request"
           /\ q \in Eventful /\ q \notin Eventful' /\ CallOk(q) /\ pc[q] \in Sent
           /\ \A m \in Messages \ {q} : m \in Eventful' <=> m \in Eventful
  BY AnswerTaken DEF OnResponse
<1>2. Op[q] = "request" /\ q \in DOMAIN ResponseOf /\ ResponseOf[q] \in Types
  BY <1>1, Constants DEF EventKind
<1>3. /\ waiters' = waiters \ {q} /\ replied' = replied \cup ({q} \cap waiters)
      /\ freeing' = ResponseOf[q] /\ loop' \in {"free", "next"}
      /\ loop' = "free" => contexts[ResponseOf[q]] # <<>>
      /\ UNCHANGED <<contexts, needFlush, readyFlag, inner, lost, pc, held>>
  BY <1>1 DEF OnResponse, innerVars, callVars
<1>4. events' \in Seq(Answers \cup Notes) /\ AnsweredOnce(events')
  BY TakeFirst DEF OnResponse
<1>5. Shape'
  BY <1>2, <1>3, <1>4 DEF RelayInv, Shape, LoopPlace
<1>6. \A m \in Messages \ {q} : Same(m)
  BY <1>1, <1>3 DEF Same
<1>7. LoopOk'
  BY <1>1, <1>2, <1>3 DEF LoopOk, Sent
<1>8. CallOk(q)'
  BY <1>1, <1>3 DEF CallOk, Sent
<1>9. \A m \in Messages : KeepsSlot(m)' <=> KeepsSlot(m)
  <2>1. \A m \in Messages \ {q} : KeepsSlot(m)' <=> KeepsSlot(m)
    BY <1>6 DEF KeepsSlot, Same
  <2>2. KeepsSlot(q)' <=> KeepsSlot(q)
    BY <1>1, <1>2, <1>3 DEF KeepsSlot, Sent
  <2>3. QED
    BY <2>1, <2>2
<1>10. TypeOf[q] \in Types /\ SlotOk(TypeOf[q])
  BY Constants DEF RelayInv, SlotsOk
<1>11. SlotOk(TypeOf[q])'
  <2>1. Plain(TypeOf[q])' => Plain(TypeOf[q])
    BY <1>3 DEF Plain
  <2>2. Newest(TypeOf[q]).processing' = Newest(TypeOf[q]).processing
    BY <1>3 DEF Newest
  <2>3. QED
    BY <1>9, <1>10, <2>1, <2>2, SlotKept
<1>12. Len(contexts'[TypeOf[q]]) >= Len(contexts[TypeOf[q]])
  BY <1>3, <1>10 DEF RelayInv, Shape
<1>13. QED
  BY <1>3, <1>4, <1>5, <1>6, <1>7, <1>8, <1>11, <1>12, OneStep

\* The slot of a plain send is freed once its BatchComplete is taken.
LEMMA BatchInv ==
  ASSUME RelayInv, OnBatchComplete
  PROVE  RelayInv'
<1>1. PICK q \in Messages :
           /\ IsAnswer(Head(events)) /\ Head(events).call = q /\ EventKind(q) = "send"
           /\ q \in Eventful /\ q \notin Eventful' /\ CallOk(q) /\ pc[q] \in Sent
           /\ \A m \in Messages \ {q} : m \in Eventful' <=> m \in Eventful
  BY AnswerTaken DEF OnBatchComplete
<1> PICK t \in Types : t = TypeOf[q]
  BY Constants
<1>2. Op[q] # "request" /\ SlotOk(t) /\ Shape /\ contexts[t] \in Seq(Context)
  BY <1>1, Constants DEF EventKind, RelayInv, SlotsOk, Shape
<1>3. /\ freeing' = t /\ UNCHANGED <<needFlush, readyFlag, inner, lost, pc, held, waiters, replied>>
      /\ loop' = IF contexts[t] # <<>> THEN "notify" ELSE "next"
      /\ IF contexts[t] # <<>> THEN Add(t, Len(contexts[t]), -1) ELSE UNCHANGED contexts
  BY <1>1 DEF OnBatchComplete, innerVars, callVars
<1>4. events' \in Seq(Answers \cup Notes) /\ AnsweredOnce(events')
  BY TakeFirst DEF OnBatchComplete
<1>5. \A m \in Messages \ {q} : Same(m) /\ (KeepsSlot(m)' <=> KeepsSlot(m))
  BY <1>1, <1>3 DEF Same, KeepsSlot
<1>6. ~KeepsSlot(q)'
  BY <1>1, <1>2, <1>3 DEF KeepsSlot, CallOk, Sent
<1>7. held[q] # 0 => KeepsSlot(q)
  BY <1>1 DEF KeepsSlot
<1>8. ASSUME contexts' \in [Types -> Seq(Context)],
             \A s \in Types \ {t} : contexts'[s] = contexts[s],
             Len(contexts'[t]) = Len(contexts[t]), SlotOk(t)'
      PROVE  RelayInv'
  <2>1. Shape'
    BY <1>3, <1>4, <1>8 DEF RelayInv, Shape, LoopPlace
  <2>2. LoopOk'
    <3>1. contexts'[t] \in Seq(Context) /\ (contexts[t] # <<>> => contexts'[t] # <<>>)
      BY <1>2, <1>8
    <3>2. QED
      BY <1>3, <3>1 DEF LoopOk
  <2>3. CallOk(q)'
    BY <1>1, <1>3, <1>8 DEF CallOk, Sent
  <2>4. Len(contexts'[t]) >= Len(contexts[t])
    BY <1>2, <1>8
  <2>5. QED
    BY <1>1, <1>3, <1>4, <1>5, <1>8, <2>1, <2>2, <2>3, <2>4, OneStep DEF Sent
<1>9. CASE contexts[t] = <<>>
  <2>1. UNCHANGED contexts
    BY <1>3, <1>9
  <2>2. Len(contexts'[t]) = 0
    BY <1>9, <2>1
  <2>3. SlotOk(t)'
    BY <2>2 DEF SlotOk, Plain
  <2>4. QED
    BY <1>2, <1>8, <2>1, <2>3 DEF Shape
<1>10. CASE contexts[t] # <<>>
  <2>1. PICK n \in 1..Len(contexts[t]) : n = Len(contexts[t])
    BY <1>2, <1>10
  <2>2. Add(t, n, -1)
    BY <1>3, <1>10, <2>1
  <2>3. /\ contexts' \in [Types -> Seq(Context)]
        /\ \A s \in Types \ {t} : contexts'[s] = contexts[s]
        /\ \A s \in Types : Len(contexts'[s]) = Len(contexts[s])
        /\ contexts'[t][n].processing = (contexts[t][n].processing + (-1)) % Wrap
    BY <1>2, <1>10, <2>2, AddContext
  <2>4. Newest(t).processing' = (Newest(t).processing + (-1)) % Wrap
    BY <2>1, <2>3 DEF Newest
  <2>5. Plain(t) => KeepsSlot(q)
    <3>1. Op[q] = "force_send" /\ Plain(t) => held[q] # 0
      BY <1>1 DEF Plain, Sent
    <3>2. Op[q] # "force_send" => held[q] # 0
      BY <1>1 DEF CallOk
    <3>3. QED
      BY <1>7, <3>1, <3>2
  <2>6. Plain(t)' => Plain(t)
    BY <1>3, <2>3 DEF Plain
  <2>7. SlotOk(t)'
    BY <1>2, <1>5, <1>6, <2>4, <2>5, <2>6, SlotFreed
  <2>8. QED
    BY <1>8, <2>3, <2>7
<1>11. QED
  BY <1>9, <1>10

---------------------------------------------------------------------------
(* The steps of the relay. *)

\* A message goes from the relay to the events, or is lost: its slot is kept.
LEMMA RelayMoves ==
  ASSUME RelayInv, Shape', NEW c \in Messages, \A m \in Messages \ {c} : Same(m),
         UNCHANGED <<contexts, loop, freeing, pc, held>>, AnsweredOnce(events'),
         CallOk(c)', \A m \in Messages : KeepsSlot(m)' <=> KeepsSlot(m)
  PROVE  RelayInv'
<1>1. NoFewer /\ \A t \in Types : Len(contexts[t]) \in Nat
  BY DEF NoFewer, RelayInv, Shape
<1>2. LoopOk'
  BY <1>1, LoopFrame
<1>3. TypeOf[c] \in Types /\ SlotOk(TypeOf[c])
  BY Constants DEF RelayInv, SlotsOk
<1>4. Newest(TypeOf[c]).processing' = Newest(TypeOf[c]).processing
  BY DEF Newest
<1>5. Plain(TypeOf[c])' => Plain(TypeOf[c])
  BY DEF Plain
<1>6. SlotOk(TypeOf[c])'
  BY <1>3, <1>4, <1>5, SlotKept
<1>7. Len(contexts'[TypeOf[c]]) >= Len(contexts[TypeOf[c]])
  BY <1>1, <1>3
<1>8. QED
  BY <1>2, <1>6, <1>7, OneStep

LEMMA AnswerInv ==
  ASSUME RelayInv, NEW c \in Calls, Answer(c)
  PROVE  RelayInv'
<1>1. PICK ok \in BOOLEAN :
        Emits([kind |-> IF Op[c] \in {"try_send", "force_send"} THEN "send" ELSE Op[c],
               call |-> c, ok |-> ok])
  BY DEF Answer
<1>2. PICK e \in Answers : e.call = c /\ Emits(e)
  <2> DEFINE e == [kind |-> IF Op[c] \in {"try_send", "force_send"} THEN "send" ELSE Op[c],
                   call |-> c, ok |-> ok]
  <2>1. /\ e.kind = EventKind(c) /\ e.call = c
        /\ e \in [kind : MessageOps \cup ControlOps, call : Calls, ok : BOOLEAN]
    BY RelayAssumption DEF EventKind, MessageOps, ControlOps
  <2>2. e \in Answers
    BY <2>1 DEF Answers
  <2>3. QED
    BY <1>1, <2>1, <2>2
<1>3. /\ c \in inner /\ inner' = inner \ {c}
      /\ UNCHANGED <<wrapperVars, loop, freeing, lost, pc, held>>
  BY DEF Answer, callVars
<1>4. c \in Messages => c \notin Eventful
  BY <1>3 DEF RelayInv, CallsOk, CallOk
<1>5. /\ events' \in Seq(Answers \cup Notes) /\ AnsweredOnce(events')
      /\ \A m : m \in Eventful' <=> m \in Eventful \/ c = m
  BY <1>2, <1>4, EmitLast, EventKinds
<1>6. Shape'
  BY <1>3, <1>5 DEF RelayInv, Shape, wrapperVars
<1>7. \A m \in Messages \ {c} : Same(m)
  BY <1>3, <1>5 DEF Same, wrapperVars
<1>8. CASE c \notin Messages
  BY <1>3, <1>5, <1>6, <1>7, <1>8, QuietStep DEF wrapperVars
<1>9. CASE c \in Messages
  <2>1. CallOk(c) /\ pc[c] \in Sent
    BY <1>3, <1>9 DEF RelayInv, CallsOk, CallOk
  <2>2. CallOk(c)'
    BY <1>3, <1>5, <2>1 DEF CallOk, wrapperVars
  <2>3. \A m \in Messages : KeepsSlot(m)' <=> KeepsSlot(m)
    BY <1>3, <1>5 DEF KeepsSlot
  <2>4. QED
    BY <1>3, <1>5, <1>6, <1>7, <1>9, <2>1, <2>2, <2>3, RelayMoves DEF wrapperVars, Sent
<1>10. QED
  BY <1>8, <1>9

LEMMA LoseInv ==
  ASSUME RelayInv, NEW c \in Calls, Lose(c)
  PROVE  RelayInv'
<1>1. /\ c \in inner /\ inner' = inner \ {c} /\ lost' = lost \cup {c}
      /\ UNCHANGED <<wrapperVars, loop, freeing, events, pc, held>>
  BY DEF Lose, callVars, loopVars
<1>2. Eventful' = Eventful /\ AnsweredOnce(events')
  BY <1>1 DEF Eventful, RelayInv
<1>3. Shape'
  BY <1>1 DEF RelayInv, Shape, wrapperVars
<1>4. \A m \in Messages \ {c} : Same(m)
  BY <1>1, <1>2 DEF Same, wrapperVars
<1>5. CASE c \notin Messages
  BY <1>1, <1>2, <1>3, <1>4, <1>5, QuietStep DEF wrapperVars
<1>6. CASE c \in Messages
  <2>1. CallOk(c) /\ pc[c] \in Sent
    BY <1>1, <1>6 DEF RelayInv, CallsOk, CallOk
  <2>2. CallOk(c)'
    BY <1>1, <1>2, <2>1 DEF CallOk, wrapperVars
  <2>3. \A m \in Messages : KeepsSlot(m)' <=> KeepsSlot(m)
    BY <1>1, <1>2 DEF KeepsSlot
  <2>4. QED
    BY <1>1, <1>2, <1>3, <1>4, <1>6, <2>1, <2>2, <2>3, RelayMoves DEF wrapperVars, Sent
<1>7. QED
  BY <1>5, <1>6

\* Its connection comes and goes, or its stream ends.
LEMMA LinkInv ==
  ASSUME RelayInv, Exit \/ Connect \/ Disconnect
  PROVE  RelayInv'
<1>1. PICK e \in Notes : Emits(e)
  <2>1. \A kind \in {"ready", "failed", "pause", "close"} : [kind |-> kind] \in Notes
    BY DEF Notes
  <2>2. QED
    BY <2>1 DEF Exit, Connect, Disconnect
<1>2. UNCHANGED <<wrapperVars, loop, freeing, inner, lost, pc, held>>
  BY DEF Exit, Connect, Disconnect, callVars
<1>3. /\ events' \in Seq(Answers \cup Notes) /\ AnsweredOnce(events')
      /\ \A m : m \in Eventful' <=> m \in Eventful
  <2>1. ~IsAnswer(e)
    BY DEF Notes, IsAnswer
  <2>2. QED
    BY <1>1, <2>1, EmitLast
<1>4. Shape' /\ \A m \in Messages : Same(m)
  BY <1>2, <1>3 DEF RelayInv, Shape, Same, wrapperVars
<1>5. QED
  BY <1>2, <1>3, <1>4, QuietStep DEF wrapperVars

---------------------------------------------------------------------------
(* The system. *)

LEMMA RelayInit == Init => RelayInv
<1> SUFFICES ASSUME Init PROVE RelayInv
  OBVIOUS
<1>1. /\ contexts = [t \in Types |-> <<>>] /\ freeing \in Types
      /\ needFlush \in BOOLEAN /\ readyFlag \in BOOLEAN /\ loop = "next"
      /\ events = <<>> /\ inner = {} /\ lost = {} /\ waiters = {} /\ replied = {}
      /\ pc \in [Calls -> {"unmade", "start"}] /\ held = [c \in Messages |-> 0]
  BY RelayAssumption DEF Init
<1>2. Shape
  BY <1>1 DEF Shape, MessagePlace, ControlPlace, LoopPlace
<1>3. Eventful = {} /\ AnsweredOnce(events) /\ LoopOk
  BY <1>1 DEF Eventful, AnsweredOnce, LoopOk
<1>4. ASSUME NEW c \in Messages
      PROVE  CallOk(c)
  <2>1. held[c] = 0 /\ contexts[TypeOf[c]] = <<>> /\ pc[c] \in {"unmade", "start"}
    BY <1>1, Constants
  <2>2. QED
    BY <1>1, <1>3, <2>1 DEF CallOk, MessagePlace, Sent
<1>5. ASSUME NEW t \in Types
      PROVE  SlotOk(t)
  BY <1>1 DEF SlotOk, Plain
<1>6. QED
  BY <1>2, <1>3, <1>4, <1>5 DEF RelayInv, CallsOk, SlotsOk

LEMMA RelayStep == RelayInv /\ [Next]_vars => RelayInv'
<1> SUFFICES ASSUME RelayInv, [Next]_vars PROVE RelayInv'
  OBVIOUS
<1>1. ASSUME NEW c \in Calls, MessageStep(c)
      PROVE  RelayInv'
  BY <1>1, MessageInv
<1>2. ASSUME NEW c \in Calls, ControlStep(c) \/ TimeOut(c)
      PROVE  RelayInv'
  BY <1>2, ControlInv
<1>3. ASSUME NEW c \in Calls, Answer(c) \/ Lose(c)
      PROVE  RelayInv'
  BY <1>3, AnswerInv, LoseInv
<1>4. CASE LoopStep
  BY <1>4, LoopQuiet, FreeSlotInv, NotifyInv, ResponseInv, BatchInv DEF LoopStep
<1>5. CASE Exit \/ Connect \/ Disconnect
  BY <1>5, LinkInv
<1>6. CASE UNCHANGED vars
  <2>1. /\ UNCHANGED <<wrapperVars, loop, freeing, events, inner, lost, pc, held>>
    BY <1>6 DEF vars, loopVars, innerVars, callVars
  <2>2. Shape' /\ (\A m \in Messages : Same(m)) /\ AnsweredOnce(events')
    BY <2>1 DEF RelayInv, Shape, Same, wrapperVars, Eventful
  <2>3. QED
    BY <2>1, <2>2, QuietStep DEF wrapperVars
<1>7. QED
  BY <1>1, <1>2, <1>3, <1>4, <1>5, <1>6 DEF Next, Finished

\* RelayInv says where the slots of a relay are: in no reachable state does a call
\* hold a slot of a context that is not there, or the relay a message twice.
THEOREM RelayInvariance == Spec => []RelayInv
<1>1. Init => RelayInv
  BY RelayInit
<1>2. RelayInv /\ [Next]_vars => RelayInv'
  BY RelayStep
<1>3. QED
  BY <1>1, <1>2, PTL DEF Spec

\* Every variable has its type: no counter leaves the width of its AtomicU64, no
\* call names a context that was not made, and the event loop never frees a slot of
\* a type without one.
THEOREM RelayTypes == Spec => []TypeOK
<1>1. ASSUME RelayInv
      PROVE  TypeOK
  <2>1. \A t \in Types : \A i \in DOMAIN contexts[t] : contexts[t][i].processing \in 0..(Wrap - 1)
    <3>1. SUFFICES ASSUME NEW t \in Types, NEW i \in DOMAIN contexts[t]
                   PROVE  contexts[t][i].processing \in 0..(Wrap - 1)
      OBVIOUS
    <3>2. contexts[t] \in Seq(Context)
      BY <1>1 DEF RelayInv, Shape
    <3>3. contexts[t][i] \in Context
      BY <3>2
    <3>4. QED
      BY <3>3 DEF Context
  <2>2. \A c \in Messages : held[c] \in 0..Len(contexts[TypeOf[c]])
    <3>1. SUFFICES ASSUME NEW c \in Messages
                   PROVE  held[c] \in 0..Len(contexts[TypeOf[c]])
      OBVIOUS
    <3>2. /\ held[c] \in Nat /\ held[c] <= Len(contexts[TypeOf[c]])
          /\ contexts[TypeOf[c]] \in Seq(Context)
      BY <1>1, Constants DEF RelayInv, Shape, CallsOk, CallOk
    <3>3. Len(contexts[TypeOf[c]]) \in Nat
      BY <3>2
    <3>4. QED
      BY <3>2, <3>3
  <2>3. waiters \subseteq Messages \ replied
    BY <1>1 DEF RelayInv, Shape, CallsOk, CallOk
  <2>4. QED
    BY <1>1, <2>1, <2>2, <2>3 DEF RelayInv, Shape, LoopOk, TypeOK
<1>2. QED
  BY <1>1, RelayInvariance, PTL

\* The counter of a type that has one context, that no force_send got by and no
\* response frees, counts its Permits, its unanswered messages and its requests,
\* under every order of calls, answers and losses.
THEOREM RelayAccounting == Spec => []Accounting
<1>1. RelayInv => Accounting
  BY DEF RelayInv, SlotsOk, SlotOk, Accounting
<1>2. QED
  BY <1>1, RelayInvariance, PTL

\* The sends that RelayReceiverContext let through and the relay has not answered
\* are never more than its limit.
THEOREM RelayBackpressure == Spec => []Backpressure
<1>1. ASSUME RelayInv
      PROVE  Backpressure
  <2>1. SUFFICES ASSUME NEW t \in Types, Plain(t)
                 PROVE  Cardinality({c \in inner \cap Messages :
                                       TypeOf[c] = t /\ Op[c] # "force_send"}) <= RelayLimit
    BY DEF Backpressure
  <2> DEFINE S == {c \in inner \cap Messages : TypeOf[c] = t /\ Op[c] # "force_send"}
  <2>2. S \subseteq Unforced(t)
    <3>1. SUFFICES ASSUME NEW c \in S
                   PROVE  c \in Unforced(t)
      OBVIOUS
    <3>2. CallOk(c) /\ c \in Messages /\ c \in inner
      BY <1>1 DEF RelayInv, CallsOk
    <3>3. held[c] # 0
      BY <3>2 DEF CallOk
    <3>4. QED
      BY <3>2, <3>3 DEF Unforced, KeptSlots, KeepsSlot
  <2>3. /\ Cardinality(S) <= Cardinality(Unforced(t)) /\ Cardinality(S) \in Nat
        /\ Cardinality(Unforced(t)) \in Nat
    BY <2>2, KeptFinite, FS_Subset, FS_CardinalityType
  <2>4. Cardinality(Unforced(t)) <= RelayLimit
    BY <1>1, <2>1 DEF RelayInv, SlotsOk, SlotOk
  <2>5. QED
    BY <2>3, <2>4, Constants
<1>2. QED
  BY <1>1, RelayInvariance, PTL
=============================================================================
