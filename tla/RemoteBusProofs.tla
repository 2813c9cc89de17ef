-------------------------- MODULE RemoteBusProofs --------------------------
(***************************************************************************)
(* What two buses joined by a remote relay keep, for any calls, number of  *)
(* connections and breaks: the protocol loses nothing, a message the relay *)
(* took is never just gone, ready says what it is meant to say, a flush    *)
(* returns when what was sent before it has arrived, and messages are read *)
(* in the order in which they were sent.                                   *)
(***************************************************************************)
EXTENDS RemoteBus, FiniteSetTheorems, SequenceTheorems, TLAPS

\* The items that the relay of a side queues.
Sending(c) == Item("Send", c, Op[c] = "request", Message(c))
Travelling(s) ==
  {Sending(c) : c \in {m \in Messages : From[m] = s}}
  \cup {Reply(c, Message(Answer)) : c \in Messages}
  \cup {Completes(1, "type")}
  \cup {Plain(w) : w \in {"Flush", "Synchronize", "Flushed"}}

\* The packets they become.
Travels(s) == {Serialize(x) : x \in Travelling(s)}

TaskPlace == {"next", "serve", "finish", "ended", "panicked"}
Notices == {"Ready", "Pause", "Exited"}

QueueShape ==
  /\ DOMAIN items = Sides /\ \A s \in Sides : items[s] \in Seq(Travelling(s) \cup {Closing})
  /\ DOMAIN item = Sides
  /\ \A s \in Sides : item[s] \in Seq(Travelling(s)) /\ Len(item[s]) <= 1

TaskShape ==
  /\ transport \in {"tcp", "quic"}
  /\ task \in [Sides -> TaskPlace]
  /\ link \in [Sides -> 0..MaxConnections]
  /\ \A s \in Sides : task[s] \in {"serve", "finish"} => link[s] \in Connections
  /\ intake \in [Sides -> Seq(Connections)]
  /\ notices \in [Sides -> Seq(Notices)]
  /\ stream \in [Sides -> BOOLEAN]
  /\ backlog \in Seq(Connections) /\ opened \in 0..MaxConnections

WireShape ==
  /\ DOMAIN wire = Sides
  /\ \A s \in Sides : wire[s] \in [Connections -> Seq(Travels(s))]

BusShape ==
  /\ pc \in [Calls -> {"unmade", "start", "wait", "again", "done", "failed"}]
  /\ need \in [Sides -> BOOLEAN]
  /\ slots \in [Sides -> Int] /\ ready \in [Sides -> BOOLEAN]
  /\ reading \in [Sides -> {"recv", "flush", "sync", "blocked"}]
  /\ arrived \in [Sides -> Seq(Messages)] /\ submitted \in [Sides -> Seq(Messages)]
  /\ DOMAIN working = Sides
  /\ \A s \in Sides : working[s] \subseteq (DOMAIN arrived[s]) \X BOOLEAN
  /\ \A s \in Sides : \A i \in DOMAIN submitted[s] : From[submitted[s][i]] = s

Shape == QueueShape /\ TaskShape /\ WireShape /\ BusShape

\* The notices the wrapper has not seen tell whether there is a connection.
Connected(s) == task[s] \in {"serve", "finish"}
Told(s) ==
  \/ \E i \in DOMAIN notices[s] : notices[s][i] = "Exited"
  \/ IF notices[s] = <<>> THEN ready[s] <=> Connected(s)
     ELSE notices[s][Len(notices[s])] = "Ready" <=> Connected(s)
NoticeInv == \A s \in Sides : stream[s] => Told(s)

---------------------------------------------------------------------------
(* The protocol. *)

LEMMA FlagsOf ==
  ASSUME NEW x
  PROVE  /\ "TYPE_TAG" \in Flags(x) <=> x.load.is # "none"
         /\ "BODY" \in Flags(x) <=> x.load.is \in {"msg", "err"}
         /\ "ERROR" \in Flags(x) <=> x.load.is = "err"
         /\ "ARGUMENT" \in Flags(x) <=> x.what \in {"Response", "BatchComplete"} \/ x.req
BY DEF Flags

\* An item without a load.
LEMMA PlainSurvives ==
  ASSUME NEW w \in PlainActions \cup PlainEvents, NEW side \in Sides
  PROVE  Deserialize(Serialize(Plain(w)), side) = Survives(Plain(w), side)
<1> DEFINE x == Plain(w)
           p == Serialize(x)
<1>1. /\ x.what = w /\ x.num = 0 /\ x.load = Nothing
      /\ x.load.is = "none"
  BY DEF Plain, Item, Nothing
<1>2. p.kind = w /\ p.load = Nothing /\ p.flags = Flags(x) /\ p.argument = 0
  BY <1>1 DEF Serialize, PlainActions, PlainEvents
<1>3. Body(p, side) = Nothing
  BY <1>1, <1>2, FlagsOf DEF Body
<1>4. Deserialize(p, side) = Plain(w)
  <2>1. CASE w = "Synchronized"
    BY <1>2, <1>3, <2>1 DEF Deserialize, Nothing, Plain
  <2>2. CASE w # "Synchronized"
    BY <1>2, <1>3, <2>2 DEF Deserialize, PlainActions, PlainEvents
  <2>3. QED  BY <2>1, <2>2
<1>5. Survives(x, side) = x
  BY <1>1 DEF Survives, PlainActions, PlainEvents
<1>6. QED  BY <1>4, <1>5

\* An item with a message.
LEMMA MessageSurvives ==
  ASSUME NEW m \in Bodies, NEW side \in Sides, NEW n, NEW req \in BOOLEAN
  PROVE  /\ LET x == Item("Send", n, req, Message(m))
            IN  /\ Deserialize(Serialize(x), side)
                     = IF side \in KnownTo[m] THEN x ELSE Rejected
                /\ Survives(x, side) = Deserialize(Serialize(x), side)
         /\ LET x == Item("Response", n, FALSE, Message(m))
                y == Item("Response", n, FALSE, Failure(GenericError))
            IN  /\ Deserialize(Serialize(x), side)
                     = IF side \in KnownTo[m] THEN x ELSE y
                /\ Survives(x, side) = Deserialize(Serialize(x), side)
<1>1. ASSUME NEW x, NEW w \in {"Send", "Response"}, NEW r \in BOOLEAN,
             x = Item(w, n, r, Message(m))
      PROVE  /\ x.what = w /\ x.num = n /\ x.req = r /\ x.load = Message(m)
             /\ x.load.is = "msg" /\ x.load.body = m
             /\ Body(Serialize(x), side)
                  = IF side \in KnownTo[m] THEN Message(m) ELSE Failure(GenericError)
             /\ "ARGUMENT" \in Serialize(x).flags <=> w = "Response" \/ r
             /\ Serialize(x).kind = w /\ Serialize(x).argument = n
             /\ Serialize(x).load = Message(m)
  <2>1. /\ x.what = w /\ x.num = n /\ x.req = r /\ x.load = Message(m)
        /\ x.load.is = "msg" /\ x.load.body = m
    BY <1>1 DEF Item, Message
  <2>2. /\ Serialize(x).kind = w /\ Serialize(x).argument = n
        /\ Serialize(x).load = Message(m) /\ Serialize(x).flags = Flags(x)
    BY <2>1 DEF Serialize
  <2>3. /\ "ERROR" \notin Flags(x) /\ {"TYPE_TAG", "BODY"} \subseteq Flags(x)
        /\ "ARGUMENT" \in Flags(x) <=> w = "Response" \/ r
    BY <2>1, FlagsOf
  <2>4. Body(Serialize(x), side)
          = IF side \in KnownTo[m] THEN Message(m) ELSE Failure(GenericError)
    BY <2>2, <2>3, <2>1 DEF Body, Message
  <2>5. QED  BY <2>1, <2>2, <2>3, <2>4
<1>2. /\ Message(m).is = "msg" /\ Failure(GenericError).is = "err" /\ Nothing.is = "none"
      /\ Message(m) # Nothing /\ Failure(GenericError) # Nothing
  BY DEF Message, Failure, Nothing
<1>3. ASSUME NEW x, x = Item("Send", n, req, Message(m))
      PROVE  /\ Deserialize(Serialize(x), side)
                  = IF side \in KnownTo[m] THEN x ELSE Rejected
             /\ Survives(x, side) = Deserialize(Serialize(x), side)
  <2>1. /\ x.what = "Send" /\ x.load.is = "msg" /\ x.load.body = m
        /\ Serialize(x).kind = "Send" /\ Serialize(x).argument = n
        /\ "ARGUMENT" \in Serialize(x).flags <=> req
        /\ Body(Serialize(x), side)
             = IF side \in KnownTo[m] THEN Message(m) ELSE Failure(GenericError)
    BY <1>1, <1>3
  <2>2. ("ARGUMENT" \in Serialize(x).flags) = req
    BY <2>1
  <2>3. Deserialize(Serialize(x), side) = IF side \in KnownTo[m] THEN x ELSE Rejected
    BY <2>1, <2>2, <1>2, <1>3 DEF Deserialize
  <2>4. Survives(x, side) = IF side \in KnownTo[m] THEN x ELSE Rejected
    BY <2>1 DEF Survives
  <2>5. QED  BY <2>3, <2>4
<1>4. ASSUME NEW x, NEW y, x = Item("Response", n, FALSE, Message(m)),
             y = Item("Response", n, FALSE, Failure(GenericError))
      PROVE  /\ Deserialize(Serialize(x), side) = IF side \in KnownTo[m] THEN x ELSE y
             /\ Survives(x, side) = Deserialize(Serialize(x), side)
  <2>1. /\ x.what = "Response" /\ x.load.is = "msg" /\ x.load.body = m
        /\ Serialize(x).kind = "Response" /\ Serialize(x).argument = n
        /\ "ARGUMENT" \in Serialize(x).flags
        /\ Body(Serialize(x), side)
             = IF side \in KnownTo[m] THEN Message(m) ELSE Failure(GenericError)
    BY <1>1, <1>4
  <2>2. Deserialize(Serialize(x), side) = IF side \in KnownTo[m] THEN x ELSE y
    BY <2>1, <1>2, <1>4 DEF Deserialize
  <2>3. [x EXCEPT !.load = Failure(GenericError)] = y
    <3>1. PICK r : r = FALSE
      OBVIOUS
    <3>2. [Item("Response", n, r, Message(m)) EXCEPT !.load = Failure(GenericError)]
            = Item("Response", n, r, Failure(GenericError))
      BY DEF Item
    <3>3. QED  BY <3>1, <3>2, <1>4, Zenon
  <2>4. Survives(x, side) = IF side \in KnownTo[m] THEN x ELSE y
    BY <2>1, <2>3 DEF Survives
  <2>5. QED  BY <2>2, <2>4
<1>5. QED  BY <1>3, <1>4

\* An item with an error.
LEMMA FailureSurvives ==
  ASSUME NEW tag, NEW side \in Sides, NEW n
  PROVE  /\ LET x == Item("Response", n, FALSE, Failure(tag))
            IN  Deserialize(Serialize(x), side) = Survives(x, side)
         /\ \A w \in {"Error", "Synchronized", "InitFailed"} :
              LET x == Item(w, 0, FALSE, Failure(tag))
              IN  Deserialize(Serialize(x), side) = Survives(x, side)
<1>1. /\ Failure(tag).is = "err" /\ Failure(GenericError).is = "err"
      /\ Failure(GenericError) # Nothing
  BY DEF Failure, Nothing
<1>2. ASSUME NEW x, NEW w \in {"Response", "Error", "Synchronized", "InitFailed"}, NEW k,
             x = Item(w, k, FALSE, Failure(tag)), w # "Response" => k = 0
      PROVE  Deserialize(Serialize(x), side) = Survives(x, side)
  <2>1. x.what = w /\ x.num = k /\ x.load = Failure(tag) /\ x.load.is = "err"
    BY <1>1, <1>2 DEF Item
  <2>2. /\ Serialize(x).kind = IF w = "InitFailed" THEN "Ready" ELSE w
        /\ Serialize(x).argument = k /\ Serialize(x).flags = Flags(x)
        /\ Serialize(x).load = Failure(GenericError)
    BY <2>1 DEF Serialize
  <2>3. "ERROR" \in Flags(x) /\ ("ARGUMENT" \in Flags(x) <=> w = "Response" \/ x.req)
    BY <2>1, FlagsOf
  <2>4. Body(Serialize(x), side) = Failure(GenericError)
    BY <2>2, <2>3 DEF Body
  <2>5. [x EXCEPT !.load = Failure(GenericError)] = Item(w, k, FALSE, Failure(GenericError))
    <3>1. PICK r : r = FALSE
      OBVIOUS
    <3>2. [Item(w, k, r, Failure(tag)) EXCEPT !.load = Failure(GenericError)]
            = Item(w, k, r, Failure(GenericError))
      BY DEF Item
    <3>3. QED  BY <3>1, <3>2, <1>2, Zenon
  <2>6. CASE w = "InitFailed"
    <3>1. Serialize(x).kind = "Ready"
      BY <2>2, <2>6
    <3>2. Deserialize(Serialize(x), side) = Plain("Ready")
      BY <3>1 DEF Deserialize
    <3>3. Survives(x, side) = Plain("Ready")
      BY <2>1, <2>6 DEF Survives
    <3>4. QED  BY <3>2, <3>3
  <2>7. CASE w # "InitFailed"
    <3>1. Survives(x, side) = Item(w, k, FALSE, Failure(GenericError))
      BY <2>1, <2>5, <2>7 DEF Survives
    <3>2. Deserialize(Serialize(x), side) = Item(w, k, FALSE, Failure(GenericError))
      BY <1>1, <1>2, <2>2, <2>3, <2>4, <2>7 DEF Deserialize
    <3>3. QED  BY <3>1, <3>2
  <2>8. QED  BY <2>6, <2>7
<1>3. QED  BY <1>2

\* The two kinds that are left.
LEMMA OthersSurvive ==
  ASSUME NEW tag, NEW side \in Sides, NEW n
  PROVE  /\ LET x == Item("BatchComplete", n, FALSE, Tag(tag))
            IN  /\ Deserialize(Serialize(x), side) = x
                /\ Survives(x, side) = x
         /\ LET x == Item("Init", n, FALSE, Nothing)
            IN  Deserialize(Serialize(x), side) = Survives(x, side)
<1>1. ASSUME NEW x, x = Item("BatchComplete", n, FALSE, Tag(tag))
      PROVE  Deserialize(Serialize(x), side) = x /\ Survives(x, side) = x
  <2>1. x.what = "BatchComplete" /\ x.num = n /\ x.load = Tag(tag) /\ x.load.is = "tag"
    BY <1>1 DEF Item, Tag
  <2>2. /\ Serialize(x).kind = "BatchComplete" /\ Serialize(x).argument = n
        /\ Serialize(x).load = Tag(tag)
    BY <2>1 DEF Serialize
  <2>3. QED  BY <1>1, <2>1, <2>2 DEF Deserialize, Survives
<1>2. ASSUME NEW x, x = Item("Init", n, FALSE, Nothing)
      PROVE  Deserialize(Serialize(x), side) = Survives(x, side)
  <2>1. x.what = "Init" /\ x.load.is = "none"
    BY <1>2 DEF Item, Nothing
  <2>2. Serialize(x).kind = "Init" /\ Serialize(x).argument = 0
    BY <2>1 DEF Serialize
  <2>3. QED  BY <2>1, <2>2 DEF Deserialize, Survives
<1>3. QED  BY <1>1, <1>2

LEMMA EverythingSurvives == AllSurvive
<1> SUFFICES ASSUME NEW x \in AllItems, NEW side \in Sides
             PROVE  Deserialize(Serialize(x), side) = Survives(x, side)
  BY DEF AllSurvive
<1>1. CASE \E w \in PlainActions \cup PlainEvents : x = Plain(w)
  BY <1>1, PlainSurvives
<1>2. CASE \E n \in {0, 7} : \E req \in BOOLEAN : \E m \in Bodies :
             x = Item("Send", n, req, Message(m))
  <2>1. PICK n \in {0, 7}, req \in BOOLEAN, m \in Bodies : x = Item("Send", n, req, Message(m))
    BY <1>2
  <2>2. Survives(Item("Send", n, req, Message(m)), side)
          = Deserialize(Serialize(Item("Send", n, req, Message(m))), side)
    BY MessageSurvives
  <2>3. QED  BY <2>1, <2>2
<1>3. CASE \E n \in {0, 7} : \E m \in Bodies : x = Item("Response", n, FALSE, Message(m))
  <2>1. PICK n \in {0, 7}, m \in Bodies : x = Item("Response", n, FALSE, Message(m))
    BY <1>3
  <2>2. Survives(Item("Response", n, FALSE, Message(m)), side)
          = Deserialize(Serialize(Item("Response", n, FALSE, Message(m))), side)
    BY MessageSurvives
  <2>3. QED  BY <2>1, <2>2
<1>4. CASE \E n \in {0, 7} : x = Item("Response", n, FALSE, Failure("e"))
  BY <1>4, FailureSurvives
<1>5. CASE \E w \in {"Error", "Synchronized", "InitFailed"} : x = Item(w, 0, FALSE, Failure("e"))
  BY <1>5, FailureSurvives
<1>6. CASE \E n \in {1, 7} : x = Item("BatchComplete", n, FALSE, Tag("t"))
  BY <1>6, OthersSurvive
<1>7. CASE x = Item("Init", 7, FALSE, Nothing)
  BY <1>7, OthersSurvive
<1>8. \/ \E w \in PlainActions \cup PlainEvents : x = Plain(w)
      \/ \E n \in {0, 7} : \E req \in BOOLEAN : \E m \in Bodies :
           x = Item("Send", n, req, Message(m))
      \/ \E n \in {0, 7} : \E m \in Bodies : x = Item("Response", n, FALSE, Message(m))
      \/ \E n \in {0, 7} : x = Item("Response", n, FALSE, Failure("e"))
      \/ \E w \in {"Error", "Synchronized", "InitFailed"} : x = Item(w, 0, FALSE, Failure("e"))
      \/ \E n \in {1, 7} : x = Item("BatchComplete", n, FALSE, Tag("t"))
      \/ x = Item("Init", 7, FALSE, Nothing)
  <2>1. \A l \in Loads : \E m \in Bodies : l = Message(m)
    BY DEF Loads
  <2>2. \/ \E w \in PlainActions \cup PlainEvents : x = Plain(w)
        \/ \E n \in {0, 7} : \E req \in BOOLEAN : \E l \in Loads : x = Item("Send", n, req, l)
        \/ \E n \in {0, 7} : \E l \in Loads \cup {Failure("e")} : x = Reply(n, l)
        \/ \E w \in {"Error", "Synchronized", "InitFailed"} : x = Fails(w)
        \/ \E n \in {1, 7} : x = Completes(n, "t")
        \/ x = Starts(7)
    BY DEF AllItems
  <2>3. ASSUME NEW n \in {0, 7}, NEW l \in Loads \cup {Failure("e")}, x = Reply(n, l)
        PROVE  \/ \E m \in Bodies : x = Item("Response", n, FALSE, Message(m))
               \/ x = Item("Response", n, FALSE, Failure("e"))
    BY <2>1, <2>3 DEF Reply
  <2>4. ASSUME NEW n \in {0, 7}, NEW req \in BOOLEAN, NEW l \in Loads,
               x = Item("Send", n, req, l)
        PROVE  \E m \in Bodies : x = Item("Send", n, req, Message(m))
    BY <2>1, <2>4
  <2>5. \A n : Completes(n, "t") = Item("BatchComplete", n, FALSE, Tag("t"))
    BY DEF Completes
  <2>6. \A w : Fails(w) = Item(w, 0, FALSE, Failure("e"))
    BY DEF Fails
  <2>7. Starts(7) = Item("Init", 7, FALSE, Nothing)
    BY DEF Starts
  <2>8. QED  BY <2>2, <2>3, <2>4, <2>5, <2>6, <2>7
<1>9. QED  BY <1>1, <1>2, <1>3, <1>4, <1>5, <1>6, <1>7, <1>8

---------------------------------------------------------------------------
(* What the relays queue, and what the other side reads. *)

LEMMA Kinds ==
  ASSUME NEW s, NEW x \in Travelling(s)
  PROVE  \/ \E c \in Messages : From[c] = s /\ x = Sending(c)
         \/ \E c \in Messages : x = Reply(c, Message(Answer))
         \/ x = Completes(1, "type")
         \/ \E w \in {"Flush", "Synchronize", "Flushed"} : x = Plain(w)
BY DEF Travelling

LEMMA Fields ==
  /\ \A c : /\ Sending(c).what = "Send" /\ Sending(c).num = c
            /\ Sending(c).req = (Op[c] = "request") /\ Sending(c).load = Message(c)
  /\ \A c, l : Reply(c, l).what = "Response" /\ Reply(c, l).num = c /\ Reply(c, l).load = l
  /\ \A n, tag : Completes(n, tag).what = "BatchComplete" /\ Completes(n, tag).num = n
  /\ \A w : Plain(w).what = w /\ Plain(w).num = 0
BY DEF Sending, Reply, Completes, Plain, Item

LEMMA Traveller ==
  ASSUME NEW s, NEW x \in Travelling(s)
  PROVE  /\ x # Closing /\ Label(x) = <<x.what, x.num>>
         /\ x.what \in {"Send", "Response", "BatchComplete", "Flush", "Synchronize", "Flushed"}
         /\ x.what = "Send" => x.num \in Messages /\ From[x.num] = s /\ x = Sending(x.num)
         /\ Serialize(x).kind = x.what /\ Serialize(x).argument = x.num
<1>1. /\ x.what \in {"Send", "Response", "BatchComplete", "Flush", "Synchronize", "Flushed"}
      /\ x.what = "Send" => x.num \in Messages /\ From[x.num] = s /\ x = Sending(x.num)
  BY Kinds, Fields
<1>2. x # Closing
  BY <1>1 DEF Closing
<1>3. Serialize(x).kind = x.what /\ Serialize(x).argument = x.num
  BY <1>1 DEF Serialize
<1>4. QED  BY <1>1, <1>2, <1>3 DEF Label

LEMMA TravellerSurvives ==
  ASSUME NEW s, NEW x \in Travelling(s), NEW side \in Sides
  PROVE  Deserialize(Serialize(x), side) = Survives(x, side)
<1>1. Messages \subseteq Bodies /\ Answer \in Bodies
  BY RemoteBusAssumption
<1>2. CASE \E c \in Messages : From[c] = s /\ x = Sending(c)
  <2>1. PICK c \in Messages : x = Sending(c)
    BY <1>2
  <2>2. PICK r \in BOOLEAN : r = (Op[c] = "request")
    OBVIOUS
  <2>3. x = Item("Send", c, r, Message(c))
    BY <2>1, <2>2 DEF Sending
  <2>4. c \in Bodies
    BY <1>1, <2>1
  <2>5. r \in BOOLEAN
    BY <2>2
  <2>6. Survives(Item("Send", c, r, Message(c)), side)
          = Deserialize(Serialize(Item("Send", c, r, Message(c))), side)
    BY <2>5, <2>4, MessageSurvives
  <2>7. QED  BY <2>3, <2>6
<1>3. CASE \E c \in Messages : x = Reply(c, Message(Answer))
  <2>1. PICK c \in Messages : x = Item("Response", c, FALSE, Message(Answer))
    BY <1>3 DEF Reply
  <2>2. QED  BY <1>1, <2>1, MessageSurvives
<1>4. CASE x = Completes(1, "type")
  BY <1>4, OthersSurvive DEF Completes
<1>5. CASE \E w \in {"Flush", "Synchronize", "Flushed"} : x = Plain(w)
  BY <1>5, PlainSurvives DEF PlainActions, PlainEvents
<1>6. QED  BY <1>2, <1>3, <1>4, <1>5, Kinds

\* A packet of a side, read at a side: a message that is known there comes out,
\* one that is not is rejected, and a completion frees one slot.
LEMMA Reading ==
  ASSUME NEW s, NEW p \in Travels(s), NEW side \in Sides
  PROVE  LET y == Deserialize(p, side)
         IN  /\ y.what \in {"Send", "Response", "BatchComplete", "Flush", "Synchronize",
                            "Flushed", "rejected"}
             /\ y.what = "Send" => /\ p.kind = "Send" /\ y.load.body = p.argument
                                   /\ y.req \in BOOLEAN
             /\ y.what = "BatchComplete" => y.num = 1 /\ p.argument = 1
             /\ p.kind = "Send" => /\ p.argument \in Messages /\ From[p.argument] = s
                                   /\ side \in KnownTo[p.argument] => y.what = "Send"
             /\ y.what = "rejected" \/ y.what = p.kind
             /\ y.what \in {"Flush", "Flushed"} => p.argument = 0
             /\ y.what = "Send" => y.req = (Op[p.argument] = "request")
<1> DEFINE y == Deserialize(p, side)
<1>1. PICK x \in Travelling(s) : p = Serialize(x)
  BY DEF Travels
<1>2. p.kind = x.what /\ p.argument = x.num
  BY <1>1, Traveller
<1>3. y = Survives(x, side)
  BY <1>1, TravellerSurvives
<1>4. CASE \E c \in Messages : From[c] = s /\ x = Sending(c)
  <2>1. PICK c \in Messages : From[c] = s /\ x = Sending(c)
    BY <1>4
  <2>2. c \in Bodies
    BY RemoteBusAssumption
  <2>3. PICK r \in BOOLEAN : r = (Op[c] = "request")
    OBVIOUS
  <2>4. x = Item("Send", c, r, Message(c))
    BY <2>1, <2>3 DEF Sending
  <2>5. y = IF side \in KnownTo[c] THEN x ELSE Rejected
    BY <1>1, <2>2, <2>4, MessageSurvives
  <2>6. x.what = "Send" /\ x.num = c /\ x.req = r /\ x.load.body = c
    BY <2>4 DEF Item, Message
  <2>7. Rejected.what = "rejected"
    BY DEF Rejected
  <2>8. QED  BY <1>2, <2>1, <2>3, <2>5, <2>6, <2>7
<1>5. CASE \E c \in Messages : x = Reply(c, Message(Answer))
  <2>1. PICK c \in Messages : x = Item("Response", c, FALSE, Message(Answer))
    BY <1>5 DEF Reply
  <2>2. Answer \in Bodies
    BY RemoteBusAssumption
  <2>3. \/ y = x
        \/ y = Item("Response", c, FALSE, Failure(GenericError))
    BY <1>1, <2>1, <2>2, MessageSurvives
  <2>4. y.what = "Response" /\ x.what = "Response"
    BY <2>1, <2>3 DEF Item
  <2>5. QED  BY <1>2, <2>4
<1>6. CASE x = Completes(1, "type")
  <2>1. y = x
    BY <1>1, <1>6, OthersSurvive DEF Completes
  <2>2. QED  BY <1>2, <1>6, <2>1, Fields
<1>7. CASE \E w \in {"Flush", "Synchronize", "Flushed"} : x = Plain(w)
  <2>1. PICK w \in {"Flush", "Synchronize", "Flushed"} : x = Plain(w)
    BY <1>7
  <2>2. x.what = w /\ x.load.is = "none"
    BY <2>1 DEF Plain, Item, Nothing
  <2>3. y = x
    BY <1>3, <2>2 DEF Survives
  <2>4. x.num = 0
    BY <2>1, Fields
  <2>5. QED  BY <1>2, <2>2, <2>3, <2>4
<1>8. QED  BY <1>4, <1>5, <1>6, <1>7, Kinds

---------------------------------------------------------------------------
(* Types. *)

LEMMA TheSides ==
  /\ Client \in Sides /\ Server \in Sides
  /\ \A s \in Sides : Other(s) \in Sides /\ Other(s) # s /\ Other(Other(s)) = s
  /\ \A s, t \in Sides : t = s \/ t = Other(s)
BY LinkAssumption DEF Other

LEMMA QueueAppend ==
  ASSUME QueueShape, NEW s \in Sides, NEW x \in Travelling(s) \cup {Closing},
         items' = [items EXCEPT ![s] = Append(@, x)], UNCHANGED item
  PROVE  QueueShape'
<1>1. items[s] \in Seq(Travelling(s) \cup {Closing})
  BY DEF QueueShape
<1>2. Append(items[s], x) \in Seq(Travelling(s) \cup {Closing})
  BY <1>1
<1>3. DOMAIN items' = Sides
      /\ \A t \in Sides : items'[t] = IF t = s THEN Append(items[s], x) ELSE items[t]
  BY DEF QueueShape
<1>4. \A t \in Sides : items'[t] \in Seq(Travelling(t) \cup {Closing})
  BY <1>2, <1>3 DEF QueueShape
<1>5. QED  BY <1>3, <1>4 DEF QueueShape

LEMMA QueuedShape ==
  ASSUME QueueShape, NEW s \in Sides, NEW x \in Travelling(s), Queued(s, x), UNCHANGED item
  PROVE  QueueShape'
<1>1. CASE TaskGone(s)
  BY <1>1 DEF Queued, QueueShape
<1>2. CASE ~TaskGone(s)
  BY <1>2, QueueAppend DEF Queued
<1>3. QED  BY <1>1, <1>2

LEMMA DiesShape ==
  ASSUME QueueShape, NEW s \in Sides, NEW how, Dies(s, how)
  PROVE  QueueShape'
BY DEF QueueShape, Dies

\* What the task goes on with is what it held or the head of the queue.
LEMMA NextItem ==
  ASSUME QueueShape, NEW s \in Sides, HasItem(s)
  PROVE  /\ Upcoming(s) \in Travelling(s) \cup {Closing}
         /\ Rest(s) \in Seq(Travelling(s) \cup {Closing})
         /\ item[s] # <<>> => Upcoming(s) \in Travelling(s) /\ Upcoming(s) # Closing
                              /\ item[s] = <<Upcoming(s)>> /\ Rest(s) = items[s]
         /\ item[s] = <<>> => items[s] # <<>> /\ Upcoming(s) = Head(items[s])
                              /\ Rest(s) = Tail(items[s])
<1>1. /\ items[s] \in Seq(Travelling(s) \cup {Closing})
      /\ item[s] \in Seq(Travelling(s)) /\ Len(item[s]) <= 1
  BY DEF QueueShape
<1>2. \A x \in Travelling(s) : x # Closing
  BY Traveller
<1>3. CASE item[s] # <<>>
  <2>1. Len(item[s]) = 1 /\ Head(item[s]) = item[s][1] /\ item[s][1] \in Travelling(s)
    <3>1. \A T : \A q \in Seq(T) :
            q # <<>> => Len(q) \in Nat /\ Len(q) # 0 /\ Head(q) = q[1] /\ q[1] \in T
      OBVIOUS
    <3>2. Len(item[s]) \in Nat /\ Len(item[s]) # 0 /\ Head(item[s]) = item[s][1]
          /\ item[s][1] \in Travelling(s)
      BY <1>1, <1>3, <3>1
    <3>3. \A n \in Nat : n # 0 /\ n <= 1 => n = 1
      OBVIOUS
    <3>4. QED  BY <1>1, <3>2, <3>3
  <2>2. item[s] = <<Head(item[s])>>
    BY <1>1, <2>1
  <2>3. Upcoming(s) = Head(item[s]) /\ Rest(s) = items[s]
    BY <1>3 DEF Upcoming, Rest
  <2>4. QED  BY <1>1, <1>2, <1>3, <2>1, <2>2, <2>3
<1>4. CASE item[s] = <<>>
  <2>1. items[s] # <<>>
    BY <1>4 DEF HasItem
  <2>2. /\ Head(items[s]) \in Travelling(s) \cup {Closing}
        /\ Tail(items[s]) \in Seq(Travelling(s) \cup {Closing})
    BY <1>1, <2>1
  <2>3. QED  BY <1>4, <2>1, <2>2 DEF Upcoming, Rest
<1>5. QED  BY <1>3, <1>4

LEMMA QueueRest ==
  ASSUME QueueShape, NEW s \in Sides, NEW kept, NEW rest,
         kept \in Seq(Travelling(s)), Len(kept) <= 1,
         rest \in Seq(Travelling(s) \cup {Closing}),
         item' = [item EXCEPT ![s] = kept], items' = [items EXCEPT ![s] = rest]
  PROVE  QueueShape'
BY DEF QueueShape

LEMMA LeavesShape ==
  ASSUME QueueShape, TaskShape, NEW s \in Sides, NEW kept, NEW rest, Leaves(s, kept, rest),
         kept \in Seq(Travelling(s)), Len(kept) <= 1,
         rest \in Seq(Travelling(s) \cup {Closing})
  PROVE  QueueShape' /\ TaskShape'
<1>1. CASE stream[s]
  <2>1. QueueShape'
    BY <1>1, QueueRest DEF Leaves
  <2>2. TaskShape'
    <3>1. /\ task' = [task EXCEPT ![s] = "next"]
          /\ notices' = [notices EXCEPT ![s] = Append(@, "Pause")]
          /\ UNCHANGED <<transport, link, intake, stream, backlog, opened>>
      BY <1>1 DEF Leaves
    <3>2. \A q \in Seq(Notices) : Append(q, "Pause") \in Seq(Notices)
      BY DEF Notices
    <3>3. notices' \in [Sides -> Seq(Notices)]
      BY <3>1, <3>2 DEF TaskShape
    <3>4. task' \in [Sides -> TaskPlace]
      BY <3>1 DEF TaskShape, TaskPlace
    <3>5. QED  BY <3>1, <3>3, <3>4 DEF TaskShape
  <2>3. QED  BY <2>1, <2>2
<1>2. CASE ~stream[s]
  <2>1. Dies(s, "panicked")
    BY <1>2 DEF Leaves
  <2>2. TaskShape'
    BY <1>2 DEF Leaves, Dies, TaskShape, TaskPlace
  <2>3. QED  BY <2>1, <2>2, DiesShape
<1>3. QED  BY <1>1, <1>2

LEMMA EstablishedShape ==
  ASSUME QueueShape, TaskShape, NEW s \in Sides, NEW n \in Connections, Established(s, n),
         backlog' \in Seq(Connections), opened' \in 0..MaxConnections
  PROVE  QueueShape' /\ TaskShape'
<1>1. CASE stream[s]
  <2>1. QueueShape'
    BY <1>1 DEF Established, QueueShape
  <2>2. TaskShape'
    <3>1. /\ task' = [task EXCEPT ![s] = "serve"]
          /\ link' = [link EXCEPT ![s] = n]
          /\ intake' = [intake EXCEPT ![s] = Append(@, n)]
          /\ notices' = [notices EXCEPT ![s] = Append(@, "Ready")]
          /\ UNCHANGED <<transport, stream>>
      BY <1>1 DEF Established
    <3>2. \A q \in Seq(Notices) : Append(q, "Ready") \in Seq(Notices)
      BY DEF Notices
    <3>3. notices' \in [Sides -> Seq(Notices)]
      BY <3>1, <3>2 DEF TaskShape
    <3>4. task' \in [Sides -> TaskPlace]
      BY <3>1 DEF TaskShape, TaskPlace
    <3>5. intake' \in [Sides -> Seq(Connections)]
      BY <3>1 DEF TaskShape
    <3>6. /\ link' \in [Sides -> 0..MaxConnections]
          /\ \A t \in Sides : task'[t] \in {"serve", "finish"} => link'[t] \in Connections
      BY <3>1 DEF TaskShape, Connections
    <3>7. QED  BY <3>1, <3>3, <3>4, <3>5, <3>6 DEF TaskShape
  <2>3. QED  BY <2>1, <2>2
<1>2. CASE ~stream[s]
  <2>1. Dies(s, "panicked")
    BY <1>2 DEF Established
  <2>2. TaskShape'
    BY <1>2 DEF Established, Dies, TaskShape, TaskPlace
  <2>3. QED  BY <2>1, <2>2, DiesShape
<1>3. QED  BY <1>1, <1>2

LEMMA WrittenShape ==
  ASSUME QueueShape, TaskShape, WireShape, NEW s \in Sides, HasItem(s), Upcoming(s) # Closing,
         NEW kept, kept \in {<<>>, <<Upcoming(s)>>},
         Vanishes(s, kept) \/ (~Failing(s) /\ Written(s, kept))
  PROVE  QueueShape' /\ WireShape'
<1>1. /\ Upcoming(s) \in Travelling(s) /\ Rest(s) \in Seq(Travelling(s) \cup {Closing})
  BY NextItem
<1>2. kept \in Seq(Travelling(s)) /\ Len(kept) <= 1
  <2>1. <<Upcoming(s)>> \in Seq(Travelling(s)) /\ Len(<<Upcoming(s)>>) <= 1
    BY <1>1
  <2>2. <<>> \in Seq(Travelling(s)) /\ Len(<<>>) <= 1
    OBVIOUS
  <2>3. QED  BY <2>1, <2>2
<1>3. item' = [item EXCEPT ![s] = kept] /\ items' = [items EXCEPT ![s] = Rest(s)]
  BY DEF Vanishes, Written
<1>4. QueueShape'
  BY <1>1, <1>2, <1>3, QueueRest
<1>5. link[s] \in Connections
  BY DEF TaskShape, HasItem
<1>6. CASE Vanishes(s, kept)
  BY <1>4, <1>6 DEF Vanishes, WireShape
<1>7. CASE Written(s, kept)
  <2>1. Serialize(Upcoming(s)) \in Travels(s)
    BY <1>1 DEF Travels
  <2>2. wire' = [wire EXCEPT ![s][link[s]] = Append(@, Serialize(Upcoming(s)))]
    BY <1>7 DEF Written
  <2>3. wire[s][link[s]] \in Seq(Travels(s))
    BY <1>5 DEF WireShape
  <2>4. Append(wire[s][link[s]], Serialize(Upcoming(s))) \in Seq(Travels(s))
    BY <2>1, <2>3
  <2>5. WireShape'
    BY <1>5, <2>2, <2>4 DEF WireShape
  <2>6. QED  BY <1>4, <2>5
<1>8. QED  BY <1>6, <1>7

LEMMA TaskStepShape ==
  ASSUME Shape, NEW s \in Sides, TaskStep(s), UNCHANGED busVars
  PROVE  Shape'
<1> USE DEF Shape
<1>1. BusShape'
  BY DEF BusShape, busVars
<1>2. CASE s = Client /\ Connect
  <2>1. opened + 1 \in Connections
    BY <1>2, LinkAssumption DEF Connect, TaskShape, Connections
  <2>2. backlog' \in Seq(Connections) /\ opened' \in 0..MaxConnections
    BY <1>2, <2>1 DEF Connect, TaskShape, Connections
  <2>3. QueueShape' /\ TaskShape'
    BY <1>2, <2>1, <2>2, EstablishedShape DEF Connect
  <2>4. WireShape'
    BY <1>2 DEF Connect, Established, WireShape
  <2>5. QED  BY <1>1, <2>3, <2>4
<1>3. CASE s = Server /\ Accept
  <2>1. backlog \in Seq(Connections) /\ backlog # <<>>
    BY <1>3 DEF Accept, TaskShape
  <2>2. Head(backlog) \in Connections /\ backlog' \in Seq(Connections)
    BY <1>3, <2>1 DEF Accept
  <2>3. opened' \in 0..MaxConnections
    BY <1>3 DEF Accept, TaskShape
  <2>4. QueueShape' /\ TaskShape'
    BY <1>3, <2>2, <2>3, EstablishedShape DEF Accept
  <2>5. WireShape'
    BY <1>3 DEF Accept, Established, WireShape
  <2>6. QED  BY <1>1, <2>4, <2>5
<1>4. CASE Close(s)
  <2>1. Rest(s) \in Seq(Travelling(s) \cup {Closing})
    BY <1>4, NextItem DEF Close
  <2>2. QueueShape' /\ TaskShape'
    <3>1. <<>> \in Seq(Travelling(s)) /\ Len(<<>>) <= 1
      OBVIOUS
    <3>2. QED  BY <1>4, <2>1, <3>1, LeavesShape DEF Close
  <2>3. WireShape'
    BY <1>4 DEF Close, Leaves, WireShape
  <2>4. QED  BY <1>1, <2>2, <2>3
<1>5. CASE WriteTcp(s)
  <2>1. QueueShape' /\ WireShape'
    BY <1>5, WrittenShape DEF WriteTcp
  <2>2. TaskShape'
    BY <1>5 DEF WriteTcp, TaskShape
  <2>3. QED  BY <1>1, <2>1, <2>2
<1>6. CASE WriteQuic(s)
  <2>1. QueueShape' /\ WireShape'
    BY <1>6, WrittenShape DEF WriteQuic
  <2>2. TaskShape'
    BY <1>6 DEF WriteQuic, HasItem, TaskShape, TaskPlace
  <2>3. QED  BY <1>1, <2>1, <2>2
<1>7. CASE WriteFails(s)
  <2>1. /\ Upcoming(s) \in Travelling(s) /\ Rest(s) \in Seq(Travelling(s) \cup {Closing})
    BY <1>7, NextItem DEF WriteFails
  <2>2. <<Upcoming(s)>> \in Seq(Travelling(s)) /\ Len(<<Upcoming(s)>>) <= 1
    BY <2>1
  <2>3. QueueShape' /\ TaskShape'
    BY <1>7, <2>1, <2>2, LeavesShape DEF WriteFails
  <2>4. WireShape'
    BY <1>7 DEF WriteFails, Leaves, WireShape
  <2>5. QED  BY <1>1, <2>3, <2>4
<1>8. CASE OpenFails(s)
  <2>1. /\ Upcoming(s) \in Travelling(s) /\ Rest(s) \in Seq(Travelling(s) \cup {Closing})
    BY <1>8, NextItem DEF OpenFails
  <2>2. WireShape'
    BY <1>8 DEF OpenFails, WireShape
  <2>3. CASE stream[s]
    <3>1. /\ task' = [task EXCEPT ![s] = "next"]
          /\ notices' = [notices EXCEPT ![s] = Append(@, "Pause")]
          /\ item' = [item EXCEPT ![s] = <<>>]
          /\ items' = [items EXCEPT ![s] = Rest(s)]
          /\ UNCHANGED <<transport, link, intake, stream, backlog, opened>>
      BY <1>8, <2>3 DEF OpenFails
    <3>2. <<>> \in Seq(Travelling(s)) /\ Len(<<>>) <= 1
      OBVIOUS
    <3>3. QueueShape'
      BY <2>1, <3>1, <3>2, QueueRest
    <3>4. \A q \in Seq(Notices) : Append(q, "Pause") \in Seq(Notices)
      BY DEF Notices
    <3>5. notices' \in [Sides -> Seq(Notices)] /\ task' \in [Sides -> TaskPlace]
      BY <3>1, <3>4 DEF TaskShape, TaskPlace
    <3>6. TaskShape'
      BY <3>1, <3>5 DEF TaskShape
    <3>7. QED  BY <1>1, <2>2, <3>3, <3>6
  <2>4. CASE ~stream[s]
    <3>1. Dies(s, "panicked")
      BY <1>8, <2>4 DEF OpenFails
    <3>2. TaskShape'
      BY <1>8, <2>4 DEF OpenFails, Dies, TaskShape, TaskPlace
    <3>3. QED  BY <1>1, <2>2, <3>1, <3>2, DiesShape
  <2>5. QED  BY <2>3, <2>4 DEF TaskShape
<1>9. CASE Finish(s)
  <2>1. QueueShape'
    BY <1>9 DEF Finish, QueueShape
  <2>2. TaskShape'
    BY <1>9 DEF Finish, TaskShape, TaskPlace
  <2>3. QED  BY <1>1, <1>9, <2>1, <2>2 DEF Finish, WireShape
<1>10. CASE FinishFails(s)
  <2>1. /\ item[s] \in Seq(Travelling(s)) /\ Len(item[s]) <= 1
        /\ items[s] \in Seq(Travelling(s) \cup {Closing})
    BY DEF QueueShape
  <2>2. QueueShape' /\ TaskShape'
    BY <1>10, <2>1, LeavesShape DEF FinishFails
  <2>3. QED  BY <1>1, <1>10, <2>2 DEF FinishFails, Leaves, WireShape
<1>11. QED  BY <1>2, <1>3, <1>4, <1>5, <1>6, <1>7, <1>8, <1>9, <1>10 DEF TaskStep

LEMMA TroubleShape ==
  ASSUME Shape, Trouble
  PROVE  Shape'
<1> USE DEF Shape
<1>1. BusShape'
  BY DEF BusShape, busVars, Trouble
<1>2. ASSUME NEW s \in Sides, EndOfConnections(s)
      PROVE  Shape'
  <2>1. QueueShape'
    BY <1>2, DiesShape DEF EndOfConnections
  <2>2. TaskShape'
    BY <1>2 DEF EndOfConnections, Dies, TaskShape, TaskPlace
  <2>3. QED  BY <1>1, <1>2, <2>1, <2>2 DEF EndOfConnections, WireShape
<1>3. ASSUME NEW n \in Connections, Break(n)
      PROVE  Shape'
  <2>1. QueueShape' /\ TaskShape'
    BY <1>3 DEF Break, QueueShape, TaskShape
  <2>2. PICK left \in [Sides -> 0..Len(wire[Client][n]) + Len(wire[Server][n])] :
          /\ \A s \in Sides : left[s] <= Len(wire[s][n])
          /\ wire' = [s \in Sides |-> [wire[s] EXCEPT ![n] = SubSeq(@, 1, left[s])]]
    BY <1>3 DEF Break
  <2>3. WireShape'
    <3>1. \A P : \A q \in Seq(P) : \A k \in Int :
            k <= Len(q) => SubSeq(q, 1, k) \in Seq(P)
      OBVIOUS
    <3>2. \A s \in Sides : left[s] \in Int
      <4>1. Len(wire[Client][n]) \in Nat /\ Len(wire[Server][n]) \in Nat
        BY TheSides DEF WireShape
      <4>2. \A i, j \in Nat : \A k \in 0..i + j : k \in Int
        OBVIOUS
      <4>3. \A s \in Sides : left[s] \in 0..Len(wire[Client][n]) + Len(wire[Server][n])
        OBVIOUS
      <4>4. QED  BY <4>1, <4>2, <4>3
    <3>3. ASSUME NEW s \in Sides
          PROVE  wire'[s] \in [Connections -> Seq(Travels(s))]
      <4>1. wire[s] \in [Connections -> Seq(Travels(s))]
        BY DEF WireShape
      <4>2. SubSeq(wire[s][n], 1, left[s]) \in Seq(Travels(s))
        BY <2>2, <3>1, <3>2, <4>1
      <4>3. QED  BY <2>2, <4>1, <4>2
    <3>4. QED  BY <2>2, <3>3 DEF WireShape
  <2>4. QED  BY <1>1, <2>1, <2>3
<1>4. QED  BY <1>2, <1>3 DEF Trouble

LEMMA Queueable ==
  ASSUME NEW s \in Sides
  PROVE  /\ \A w \in {"Flush", "Synchronize", "Flushed"} : Plain(w) \in Travelling(s)
         /\ \A c \in Messages : From[c] = s => Sending(c) \in Travelling(s)
         /\ \A c \in Messages : Reply(c, Message(Answer)) \in Travelling(s)
         /\ Completes(1, "type") \in Travelling(s)
BY DEF Travelling

LEMMA CallTypes ==
  /\ \A c \in Calls : From[c] \in Sides
  /\ Messages \subseteq Calls
BY RemoteBusAssumption DEF Messages

LEMMA SubmitShape ==
  ASSUME Shape, NEW c \in Calls, Submit(c)
  PROVE  Shape'
<1> USE DEF Shape
<1> DEFINE s == From[c]
<1>1. s \in Sides /\ c \in Messages
  BY CallTypes DEF Submit
<1>2. /\ UNCHANGED linkRest
      /\ UNCHANGED <<closed, ready, reading, arrived, working>>
  BY DEF Submit
<1>3. TaskShape' /\ WireShape'
  BY <1>2 DEF TaskShape, WireShape, linkRest
<1>4. CASE closed[s] /\ Op[c] = "send"
  <2>1. /\ UNCHANGED <<items, lost, need, slots, submitted>>
        /\ pc' = [pc EXCEPT ![c] = "failed"]
    BY <1>4 DEF Submit, Goes
  <2>2. QueueShape'
    BY <1>2, <2>1 DEF QueueShape, linkRest
  <2>3. BusShape'
    BY <1>2, <2>1 DEF BusShape
  <2>4. QED  BY <1>3, <2>2, <2>3
<1>5. CASE ~(closed[s] /\ Op[c] = "send")
  <2>1. /\ Queued(s, Sending(c))
        /\ need' = [need EXCEPT ![s] = TRUE]
        /\ slots' = IF Op[c] = "send" THEN [slots EXCEPT ![s] = @ + 1] ELSE slots
        /\ submitted' = IF TaskGone(s) THEN submitted
                        ELSE [submitted EXCEPT ![s] = Append(@, c)]
        /\ Goes(c, IF TaskGone(s) THEN "failed"
                   ELSE IF Op[c] = "send" THEN "done" ELSE "wait")
    BY <1>5 DEF Submit, Sending
  <2>2. QueueShape'
    BY <1>1, <1>2, <2>1, Queueable, QueuedShape DEF linkRest
  <2>3. /\ need' \in [Sides -> BOOLEAN] /\ slots' \in [Sides -> Int]
        /\ pc' \in [Calls -> {"unmade", "start", "wait", "again", "done", "failed"}]
    BY <1>1, <2>1 DEF BusShape, Goes
  <2>4. /\ submitted' \in [Sides -> Seq(Messages)]
        /\ \A t \in Sides : \A i \in DOMAIN submitted'[t] : From[submitted'[t][i]] = t
    <3>1. CASE TaskGone(s)
      BY <2>1, <3>1 DEF BusShape
    <3>2. CASE ~TaskGone(s)
      <4>1. /\ submitted' = [submitted EXCEPT ![s] = Append(@, c)]
            /\ submitted \in [Sides -> Seq(Messages)] /\ c \in Messages /\ From[c] = s
            /\ \A t \in Sides : \A i \in DOMAIN submitted[t] : From[submitted[t][i]] = t
        BY <1>1, <2>1, <3>2 DEF BusShape
      <4>2. submitted' = [t \in Sides |-> IF t = s THEN Append(submitted[s], c)
                                                   ELSE submitted[t]]
        BY <1>1, <4>1
      <4>3. /\ Append(submitted[s], c) \in Seq(Messages)
            /\ \A i \in DOMAIN Append(submitted[s], c) :
                 From[Append(submitted[s], c)[i]] = s
        <5>1. /\ submitted[s] \in Seq(Messages)
              /\ \A i \in 1..Len(submitted[s]) : From[submitted[s][i]] = s
          BY <1>1, <4>1
        <5>2. QED  BY <4>1, <5>1
      <4>4. QED  BY <4>1, <4>2, <4>3
    <3>3. QED  BY <3>1, <3>2
  <2>5. BusShape'
    BY <1>2, <2>3, <2>4 DEF BusShape
  <2>6. QED  BY <1>3, <2>2, <2>5
<1>6. QED  BY <1>4, <1>5

LEMMA FlushShape ==
  ASSUME Shape, NEW c \in Calls, Flush(c)
  PROVE  Shape'
<1> USE DEF Shape
<1>1. From[c] \in Sides
  BY CallTypes
<1>2. TaskShape' /\ WireShape'
  BY DEF Flush, TaskShape, WireShape, linkRest
<1>3. QueueShape'
  <2>1. CASE need[From[c]]
    BY <1>1, <2>1, Queueable, QueuedShape DEF Flush, linkRest
  <2>2. CASE ~need[From[c]]
    BY <2>2 DEF Flush, QueueShape, linkRest
  <2>3. QED  BY <2>1, <2>2
<1>4. BusShape'
  BY DEF Flush, Goes, BusShape
<1>5. QED  BY <1>2, <1>3, <1>4

LEMMA SyncShape ==
  ASSUME Shape, NEW c \in Calls, Sync(c)
  PROVE  Shape'
<1> USE DEF Shape
<1>1. From[c] \in Sides
  BY CallTypes
<1>2. TaskShape' /\ WireShape'
  BY DEF Sync, TaskShape, WireShape, linkRest
<1>3. QueueShape'
  BY <1>1, Queueable, QueuedShape DEF Sync, linkRest
<1>4. BusShape'
  BY DEF Sync, Goes, BusShape
<1>5. QED  BY <1>2, <1>3, <1>4

LEMMA CloseBusShape ==
  ASSUME Shape, NEW c \in Calls, CloseBus(c)
  PROVE  Shape'
<1> USE DEF Shape
<1> DEFINE s == From[c]
<1>1. s \in Sides
  BY CallTypes
<1>2. WireShape'
  BY DEF CloseBus, WireShape
<1>3. BusShape'
  BY DEF CloseBus, Goes, BusShape
<1>4. UNCHANGED <<transport, item, task, link, intake, stream, backlog, opened>>
  BY DEF CloseBus
<1>5. QueueShape'
  <2>1. CASE TaskGone(s)
    <3>1. UNCHANGED items
      BY <2>1 DEF CloseBus
    <3>2. QED  BY <1>4, <3>1 DEF QueueShape
  <2>2. CASE ~TaskGone(s)
    <3>1. items' = [items EXCEPT ![s] = Append(@, Closing)]
      BY <2>2 DEF CloseBus
    <3>2. QED  BY <1>1, <1>4, <3>1, QueueAppend
  <2>3. QED  BY <2>1, <2>2
<1>6. notices' \in [Sides -> Seq(Notices)]
  <2>1. CASE TaskGone(s) \/ ~stream[s]
    BY <2>1 DEF CloseBus, TaskShape
  <2>2. CASE ~(TaskGone(s) \/ ~stream[s])
    <3>1. notices' = [notices EXCEPT ![s] = Append(@, "Exited")]
      BY <2>2 DEF CloseBus
    <3>2. \A q \in Seq(Notices) : Append(q, "Exited") \in Seq(Notices)
      BY DEF Notices
    <3>3. QED  BY <1>1, <3>1, <3>2 DEF TaskShape
  <2>3. QED  BY <2>1, <2>2
<1>7. TaskShape'
  BY <1>4, <1>6 DEF TaskShape
<1>8. QED  BY <1>2, <1>3, <1>5, <1>7

---------------------------------------------------------------------------
(* Types, in the steps of the event stream. *)

LEMMA StreamEndsShape ==
  ASSUME TaskShape, BusShape, NEW s \in Sides, StreamEnds(s)
  PROVE  /\ stream' \in [Sides -> BOOLEAN] /\ intake' \in [Sides -> Seq(Connections)]
         /\ notices' \in [Sides -> Seq(Notices)]
         /\ reading' \in [Sides -> {"recv", "flush", "sync", "blocked"}]
<1>1. <<>> \in Seq(Connections) /\ <<>> \in Seq(Notices)
  OBVIOUS
<1>2. intake' \in [Sides -> Seq(Connections)] /\ notices' \in [Sides -> Seq(Notices)]
  BY <1>1 DEF TaskShape, StreamEnds
<1>3. QED  BY <1>2 DEF TaskShape, BusShape, StreamEnds

LEMMA NoticeShape ==
  ASSUME Shape, NEW s \in Sides, Notice(s)
  PROVE  Shape'
<1> USE DEF Shape
<1>1. QueueShape' /\ WireShape'
  BY DEF Notice, QueueShape, WireShape
<1>2. notices[s] \in Seq(Notices) /\ Tail(notices[s]) \in Seq(Notices)
  BY DEF Notice, TaskShape
<1>3. TaskShape'
  <2>1. CASE Head(notices[s]) = "Exited"
    BY <2>1, StreamEndsShape DEF Notice, TaskShape
  <2>2. CASE Head(notices[s]) # "Exited"
    BY <1>2, <2>2 DEF Notice, TaskShape
  <2>3. QED  BY <2>1, <2>2
<1>4. BusShape'
  <2>1. CASE Head(notices[s]) = "Exited"
    BY <2>1, StreamEndsShape DEF Notice, BusShape
  <2>2. CASE Head(notices[s]) # "Exited"
    BY <2>2 DEF Notice, BusShape
  <2>3. QED  BY <2>1, <2>2
<1>5. QED  BY <1>1, <1>3, <1>4

LEMMA ReplyShape ==
  ASSUME Shape, NEW s \in Sides, NEW x \in Travelling(s), ReplyInStream(s, x)
  PROVE  Shape'
<1> USE DEF Shape
<1>1. QueueShape'
  BY QueuedShape DEF ReplyInStream
<1>2. WireShape'
  BY DEF ReplyInStream, WireShape
<1>3. TaskShape' /\ BusShape'
  <2>1. CASE TaskGone(s)
    BY <2>1, StreamEndsShape DEF ReplyInStream, TaskShape, BusShape
  <2>2. CASE ~TaskGone(s)
    BY <2>2 DEF ReplyInStream, TaskShape, BusShape
  <2>3. QED  BY <2>1, <2>2
<1>4. QED  BY <1>1, <1>2, <1>3

LEMMA AwaitsShape ==
  ASSUME Shape, NEW s \in Sides, AwaitsItself(s)
  PROVE  Shape'
<1> USE DEF Shape
<1>1. QueueShape'
  BY Queueable, QueuedShape DEF AwaitsItself
<1>2. WireShape'
  BY DEF AwaitsItself, WireShape
<1>3. TaskShape' /\ BusShape'
  <2>1. CASE TaskGone(s)
    BY <2>1, StreamEndsShape DEF AwaitsItself, TaskShape, BusShape
  <2>2. CASE ~TaskGone(s)
    BY <2>2 DEF AwaitsItself, TaskShape, BusShape
  <2>3. QED  BY <2>1, <2>2
<1>4. QED  BY <1>1, <1>2, <1>3

LEMMA RespondShape ==
  ASSUME Shape, NEW s \in Sides, NEW t \in working[s], Respond(s, t[1], t[2])
  PROVE  Shape'
<1> USE DEF Shape
<1>1. t[1] \in DOMAIN arrived[s] /\ arrived[s][t[1]] \in Messages
  BY DEF BusShape
<1>2. QueueShape'
  <2>1. CASE t[2]
    <3>1. Queued(s, Reply(arrived[s][t[1]], Message(Answer)))
      BY <2>1 DEF Respond, Reply
    <3>2. QED  BY <1>1, <3>1, Queueable, QueuedShape DEF Respond, linkRest
  <2>2. CASE ~t[2]
    <3>1. Queued(s, Completes(1, "type"))
      BY <2>2 DEF Respond, Completes
    <3>2. QED  BY <1>1, <3>1, Queueable, QueuedShape DEF Respond, linkRest
  <2>3. QED  BY <2>1, <2>2
<1>3. TaskShape' /\ WireShape'
  BY DEF Respond, TaskShape, WireShape, linkRest
<1>4. BusShape'
  BY DEF Respond, BusShape
<1>5. QED  BY <1>2, <1>3, <1>4

\* What a stream reads.
LEMMA TheRead ==
  ASSUME TaskShape, WireShape, NEW s \in Sides, Readable(s), Packets(s) # <<>>
  PROVE  /\ Head(intake[s]) \in Connections
         /\ Packets(s) \in Seq(Travels(Other(s)))
         /\ Head(Packets(s)) \in Travels(Other(s))
         /\ Tail(Packets(s)) \in Seq(Travels(Other(s)))
<1>1. Head(intake[s]) \in Connections
  BY DEF Readable, TaskShape
<1>2. Packets(s) \in Seq(Travels(Other(s)))
  BY <1>1, TheSides DEF Packets, WireShape
<1>3. QED  BY <1>1, <1>2

\* The effect of a packet by what it is.
LEMMA ReadCases ==
  ASSUME Shape, NEW s \in Sides, Read(s)
  PROVE  LET p == Head(Packets(s))
             x == Deserialize(p, s)
         IN  \/ x.what = "Send" /\ OnSend(s, x)
             \/ x.what = "Flush" /\ OnAction(s, "flush")
             \/ x.what = "Synchronize" /\ OnAction(s, "sync")
             \/ x.what = "rejected" /\ UNCHANGED <<pc, need, slots, reading, arrived, working>>
             \/ x.what \in {"Response", "BatchComplete", "Flushed"} /\ OnEvent(s, x)
<1> DEFINE p == Head(Packets(s))
           x == Deserialize(p, s)
<1>1. Head(Packets(s)) \in Travels(Other(s))
  BY TheRead DEF Shape, Read
<1>2. x.what \in {"Send", "Response", "BatchComplete", "Flush", "Synchronize", "Flushed",
                  "rejected"}
  BY <1>1, Reading
<1>3. (CASE x.what = "Send"        -> OnSend(s, x)
        [] x.what = "Flush"       -> OnAction(s, "flush")
        [] x.what = "Synchronize" -> OnAction(s, "sync")
        [] x.what = "rejected"    -> UNCHANGED <<pc, need, slots, reading, arrived, working>>
        [] OTHER                  -> OnEvent(s, x))
  BY DEF Read
<1> HIDE DEF x
<1>4. \/ x.what = "Send" /\ OnSend(s, x)
      \/ x.what = "Flush" /\ OnAction(s, "flush")
      \/ x.what = "Synchronize" /\ OnAction(s, "sync")
      \/ x.what = "rejected" /\ UNCHANGED <<pc, need, slots, reading, arrived, working>>
      \/ x.what \in {"Response", "BatchComplete", "Flushed"} /\ OnEvent(s, x)
  <2>1. CASE x.what = "Send"
    BY <1>3, <2>1
  <2>2. CASE x.what = "Flush"
    BY <1>3, <2>2
  <2>3. CASE x.what = "Synchronize"
    BY <1>3, <2>3
  <2>4. CASE x.what = "rejected"
    BY <1>3, <2>4
  <2>5. CASE x.what \in {"Response", "BatchComplete", "Flushed"}
    BY <1>3, <2>5
  <2>6. QED  BY <1>2, <2>1, <2>2, <2>3, <2>4, <2>5
<1>5. QED  BY <1>4 DEF x

LEMMA ReadShape ==
  ASSUME Shape, NEW s \in Sides, Read(s)
  PROVE  Shape'
<1> USE DEF Shape
<1> DEFINE p == Head(Packets(s))
           x == Deserialize(p, s)
<1>1. /\ Head(intake[s]) \in Connections /\ Packets(s) \in Seq(Travels(Other(s)))
      /\ p \in Travels(Other(s)) /\ Tail(Packets(s)) \in Seq(Travels(Other(s)))
  BY TheRead DEF Read
<1>2. /\ UNCHANGED <<transport, items, item, task, link, intake, notices, stream,
                     backlog, opened, broken, shut, lost, closed, ready, submitted>>
      /\ wire' = [wire EXCEPT ![Other(s)][Head(intake[s])] = Tail(Packets(s))]
  BY DEF Read, Packets
<1>3. QueueShape' /\ TaskShape'
  BY <1>2 DEF QueueShape, TaskShape
<1>4. WireShape'
  BY <1>1, <1>2, TheSides DEF WireShape
<1>5. BusShape'
  <2>1. CASE x.what = "Send" /\ OnSend(s, x)
    <3>1. x.load.body \in Messages /\ x.req \in BOOLEAN
      BY <1>1, <2>1, Reading
    <3> HIDE DEF x
    <3>2. /\ arrived' = [arrived EXCEPT ![s] = Append(@, x.load.body)]
          /\ working' = [working EXCEPT ![s] = @ \cup {<<Len(arrived[s]) + 1, x.req>>}]
          /\ UNCHANGED <<pc, need, slots, reading>>
      BY <2>1 DEF OnSend
    <3>3. arrived[s] \in Seq(Messages)
      BY DEF BusShape
    <3>4. /\ Append(arrived[s], x.load.body) \in Seq(Messages)
          /\ DOMAIN Append(arrived[s], x.load.body) = DOMAIN arrived[s] \cup {Len(arrived[s]) + 1}
      BY <3>1, <3>3
    <3>5. arrived' \in [Sides -> Seq(Messages)]
      BY <3>2, <3>4 DEF BusShape
    <3>6. \A t \in Sides : working'[t] \subseteq (DOMAIN arrived'[t]) \X BOOLEAN
      BY <3>1, <3>2, <3>4 DEF BusShape
    <3>7. QED  BY <1>2, <3>2, <3>5, <3>6 DEF BusShape
  <2>2. CASE x.what \in {"Flush", "Synchronize"}
             /\ (OnAction(s, "flush") \/ OnAction(s, "sync"))
    <3> HIDE DEF x
    <3>1. QED  BY <1>2, <2>2 DEF OnAction, BusShape
  <2>3. CASE x.what = "rejected" /\ UNCHANGED <<pc, need, slots, reading, arrived, working>>
    BY <1>2, <2>3 DEF BusShape
  <2>4. CASE x.what \in {"Response", "BatchComplete", "Flushed"} /\ OnEvent(s, x)
    <3>1. x.what = "BatchComplete" => x.num = 1
      BY <1>1, Reading
    <3> HIDE DEF x
    <3>2. slots' \in [Sides -> Int]
      BY <2>4, <3>1 DEF OnEvent, BusShape
    <3>3. need' \in [Sides -> BOOLEAN]
      BY <2>4 DEF OnEvent, BusShape
    <3>4. pc' \in [Calls -> {"unmade", "start", "wait", "again", "done", "failed"}]
      BY <2>4 DEF OnEvent, BusShape
    <3>5. UNCHANGED <<reading, arrived, working>>
      BY <2>4 DEF OnEvent
    <3>6. QED  BY <1>2, <3>2, <3>3, <3>4, <3>5 DEF BusShape
  <2>5. QED  BY <2>1, <2>2, <2>3, <2>4, ReadCases
<1>6. QED  BY <1>3, <1>4, <1>5

LEMMA ReadEndsShape ==
  ASSUME Shape, NEW s \in Sides, ReadEnds(s)
  PROVE  Shape'
<1> USE DEF Shape
<1>1. Tail(intake[s]) \in Seq(Connections)
  BY DEF ReadEnds, Readable, TaskShape
<1>2. QED  BY <1>1 DEF ReadEnds, QueueShape, TaskShape, WireShape, BusShape, busVars

LEMMA InitShape == Init => Shape
<1> SUFFICES ASSUME Init PROVE Shape
  OBVIOUS
<1>1. \A T : <<>> \in Seq(T) /\ Len(<<>>) <= 1 /\ DOMAIN <<>> = {}
  OBVIOUS
<1>2. QueueShape
  BY <1>1 DEF Init, LinkInit, QueueShape
<1>3. TaskShape
  BY <1>1, LinkAssumption DEF Init, LinkInit, TaskShape, TaskPlace
<1>4. WireShape
  BY <1>1 DEF Init, LinkInit, WireShape
<1>5. BusShape
  <2>1. pc \in [Calls -> {"unmade", "start", "wait", "again", "done", "failed"}]
    BY DEF Init
  <2>2. QED  BY <1>1, <2>1 DEF Init, BusShape
<1>6. QED  BY <1>2, <1>3, <1>4, <1>5 DEF Shape

LEMMA EventStreamShape ==
  ASSUME Shape, NEW s \in Sides, EventStream(s)
  PROVE  Shape'
<1>1. CASE FlushReplies(s)
  BY <1>1, Queueable, ReplyShape DEF FlushReplies
<1>2. QED  BY <1>1, NoticeShape, ReadShape, ReadEndsShape, AwaitsShape DEF EventStream

\* A step, by who takes it.
LEMMA Steps ==
  ASSUME [Next]_vars
  PROVE  \/ \E c \in Calls : Submit(c) \/ Flush(c) \/ Sync(c) \/ CloseBus(c)
         \/ \E s \in Sides : \/ TaskStep(s) /\ UNCHANGED busVars
                             \/ EventStream(s)
                             \/ \E t \in working[s] : Respond(s, t[1], t[2])
         \/ Trouble
         \/ UNCHANGED vars
BY DEF Next, Runtime, Make, Again

LEMMA ShapeStep == Shape /\ [Next]_vars => Shape'
<1> SUFFICES ASSUME Shape, [Next]_vars PROVE Shape'
  OBVIOUS
<1>1. CASE UNCHANGED vars
  BY <1>1 DEF Shape, QueueShape, TaskShape, WireShape, BusShape, vars, linkVars, busVars
<1>2. QED
  BY <1>1, Steps, SubmitShape, FlushShape, SyncShape, CloseBusShape, TaskStepShape,
     EventStreamShape, RespondShape, TroubleShape

LEMMA ShapeAlways == Spec => []Shape
BY InitShape, ShapeStep, PTL DEF Spec

LEMMA ShapeIsTypeOK == Shape => TypeOK
BY DEF Shape, QueueShape, TaskShape, BusShape, TaskPlace, TypeOK

LEMMA ShapeRoundTrips == Shape => RoundTrip
<1> SUFFICES ASSUME Shape, NEW s \in Sides, item[s] # <<>>
             PROVE  Deserialize(Serialize(Head(item[s])), Other(s))
                      = Survives(Head(item[s]), Other(s))
  BY EverythingSurvives DEF RoundTrip
<1>1. Head(item[s]) \in Travelling(s)
  BY DEF Shape, QueueShape
<1>2. QED  BY <1>1, TheSides, TravellerSurvives

\* Every variable keeps its type, whatever calls are made and whatever breaks.
THEOREM RemoteTypes == Spec => []TypeOK
BY ShapeAlways, ShapeIsTypeOK, PTL

\* What one side serializes the other deserializes to the same item, but for the
\* type tags of errors, the id of Init and the types it does not know.
THEOREM ProtocolRoundTrip == Spec => []RoundTrip
BY ShapeAlways, ShapeRoundTrips, PTL

---------------------------------------------------------------------------
(* Ready and Pause. *)

LEMMA AppendTold ==
  ASSUME NEW q \in Seq(Notices), NEW x \in Notices
  PROVE  /\ Append(q, x) # <<>>
         /\ Append(q, x)[Len(Append(q, x))] = x
         /\ x = "Exited" => \E i \in DOMAIN Append(q, x) : Append(q, x)[i] = "Exited"
         /\ \A i \in DOMAIN q : i \in DOMAIN Append(q, x) /\ Append(q, x)[i] = q[i]
OBVIOUS

\* Nothing that concerns the notices of a side, except that the task may go from
\* serving to the end of a write and back, or from having no connection to its end.
LEMMA ToldStays ==
  ASSUME NEW s \in Sides, stream[s] => Told(s), stream'[s] = stream[s],
         notices'[s] = notices[s], ready'[s] = ready[s], Connected(s)' <=> Connected(s)
  PROVE  stream'[s] => Told(s)'
BY DEF Told

\* A notice that is sent with the change it tells of.
LEMMA ToldNow ==
  ASSUME TaskShape, NEW s \in Sides, NEW x \in Notices,
         notices'[s] = Append(notices[s], x),
         x = "Exited" \/ (x = "Ready" <=> Connected(s)')
  PROVE  Told(s)'
<1>1. notices[s] \in Seq(Notices)
  BY DEF TaskShape
<1>2. QED  BY <1>1, AppendTold DEF Told

\* A notice that is taken.
LEMMA ToldNext ==
  ASSUME Shape, NEW s \in Sides, stream[s] => Told(s), Notice(s)
  PROVE  stream'[s] => Told(s)'
<1> USE DEF Shape
<1>1. notices[s] \in Seq(Notices) /\ notices[s] # <<>> /\ stream[s]
  BY DEF TaskShape, Notice
<1>2. CASE Head(notices[s]) = "Exited"
  BY <1>2 DEF Notice, StreamEnds, TaskShape
<1>3. CASE Head(notices[s]) # "Exited"
  <2>1. /\ notices' = [notices EXCEPT ![s] = Tail(@)]
        /\ ready' = [ready EXCEPT ![s] = Head(notices[s]) = "Ready"]
        /\ UNCHANGED task
    BY <1>3 DEF Notice
  <2>2. notices'[s] = Tail(notices[s]) /\ ready'[s] = (Head(notices[s]) = "Ready")
    BY <2>1 DEF TaskShape, BusShape
  <2>3. Connected(s)' <=> Connected(s)
    BY <2>1 DEF Connected
  <2> DEFINE q == notices[s]
  <2>4. q \in Seq(Notices) /\ q # <<>>
    BY <1>1
  <2>5. /\ \/ \E i \in DOMAIN q : q[i] = "Exited"
           \/ q[Len(q)] = "Ready" <=> Connected(s)
    BY <1>1 DEF Told
  <2> HIDE DEF q
  <2>6. Head(q) # "Exited" /\ notices'[s] = Tail(q) /\ ready'[s] = (Head(q) = "Ready")
    BY <1>3, <2>2 DEF q
  <2>7. /\ Head(q) = q[1] /\ Len(q) \in Nat \ {0} /\ Len(Tail(q)) = Len(q) - 1
        /\ Tail(q) \in Seq(Notices)
        /\ \A i \in DOMAIN q : i # 1 => i - 1 \in DOMAIN Tail(q) /\ Tail(q)[i - 1] = q[i]
        /\ Tail(q) = <<>> => Len(q) = 1
    <3>1. Len(q) \in Nat \ {0} /\ Len(Tail(q)) = Len(q) - 1 /\ Tail(q) \in Seq(Notices)
      BY <2>4, HeadTailProperties, EmptySeq
    <3>2. \A i \in DOMAIN q : i # 1 => i - 1 \in DOMAIN Tail(q) /\ Tail(q)[i - 1] = q[i]
      BY <2>4, <3>1
    <3>3. QED  BY <2>4, <3>1, <3>2
  <2>8. CASE \E i \in DOMAIN q : q[i] = "Exited"
    <3>1. PICK i \in DOMAIN q : q[i] = "Exited"
      BY <2>8
    <3>2. i # 1 /\ i - 1 \in DOMAIN Tail(q) /\ Tail(q)[i - 1] = "Exited"
      BY <2>6, <2>7, <3>1
    <3>3. QED  BY <2>6, <3>2 DEF Told
  <2>9. CASE q[Len(q)] = "Ready" <=> Connected(s)
    <3>1. CASE Tail(q) = <<>>
      BY <2>3, <2>4, <2>6, <2>7, <2>9, <3>1 DEF Told
    <3>2. CASE Tail(q) # <<>>
      <4>1. Len(Tail(q)) = Len(q) - 1 /\ Len(q) \in Nat \ {0} /\ Tail(q) \in Seq(Notices)
        BY <2>4, <2>7
      <4>2. Len(q) # 1
        <5>1. \A r \in Seq(Notices) : Len(r) = 0 => r = <<>>
          BY EmptySeq
        <5>2. QED  BY <3>2, <4>1, <5>1
      <4>3. Tail(q)[Len(Tail(q))] = q[Len(q)]
        <5>1. Len(q) \in DOMAIN q
          BY <2>4, <4>1
        <5>2. QED  BY <2>4, <2>7, <4>1, <4>2, <5>1
      <4>4. QED  BY <2>3, <2>6, <2>9, <3>2, <4>3 DEF Told
    <3>3. QED  BY <3>1, <3>2
  <2>10. QED  BY <2>5, <2>8, <2>9
<1>4. QED  BY <1>2, <1>3

LEMMA LeavesTold ==
  ASSUME TaskShape, NoticeInv, NEW s \in Sides, NEW kept, NEW rest, Leaves(s, kept, rest),
         UNCHANGED ready
  PROVE  NoticeInv'
<1>1. UNCHANGED stream
  BY DEF Leaves
<1>2. CASE stream[s]
  <2>1. task' = [task EXCEPT ![s] = "next"] /\ notices' = [notices EXCEPT ![s] = Append(@, "Pause")]
    BY <1>2 DEF Leaves
  <2>2. Told(s)'
    BY <2>1, ToldNow DEF Connected, Notices, TaskShape
  <2>3. \A t \in Sides \ {s} : stream'[t] => Told(t)'
    BY <1>1, <2>1, ToldStays DEF NoticeInv, Connected, TaskShape
  <2>4. QED  BY <2>2, <2>3 DEF NoticeInv
<1>3. CASE ~stream[s]
  <2>1. task' = [task EXCEPT ![s] = "panicked"] /\ UNCHANGED notices
    BY <1>3 DEF Leaves, Dies
  <2>2. \A t \in Sides \ {s} : stream'[t] => Told(t)'
    BY <1>1, <2>1, ToldStays DEF NoticeInv, Connected, TaskShape
  <2>3. QED  BY <1>1, <1>3, <2>2 DEF NoticeInv
<1>4. QED  BY <1>2, <1>3

LEMMA EstablishedTold ==
  ASSUME TaskShape, NoticeInv, NEW s \in Sides, NEW n, Established(s, n), UNCHANGED ready
  PROVE  NoticeInv'
<1>1. UNCHANGED stream
  BY DEF Established
<1>2. CASE stream[s]
  <2>1. task' = [task EXCEPT ![s] = "serve"] /\ notices' = [notices EXCEPT ![s] = Append(@, "Ready")]
    BY <1>2 DEF Established
  <2>2. Told(s)'
    BY <2>1, ToldNow DEF Connected, Notices, TaskShape
  <2>3. \A t \in Sides \ {s} : stream'[t] => Told(t)'
    BY <1>1, <2>1, ToldStays DEF NoticeInv, Connected, TaskShape
  <2>4. QED  BY <2>2, <2>3 DEF NoticeInv
<1>3. CASE ~stream[s]
  <2>1. task' = [task EXCEPT ![s] = "panicked"] /\ UNCHANGED notices
    BY <1>3 DEF Established, Dies
  <2>2. \A t \in Sides \ {s} : stream'[t] => Told(t)'
    BY <1>1, <2>1, ToldStays DEF NoticeInv, Connected, TaskShape
  <2>3. QED  BY <1>1, <1>3, <2>2 DEF NoticeInv
<1>4. QED  BY <1>2, <1>3

\* A task that goes on, or goes on to its end, without a word.
LEMMA SilentTold ==
  ASSUME TaskShape, NoticeInv, UNCHANGED <<stream, notices, ready>>,
         NEW s \in Sides, NEW to, task' = [task EXCEPT ![s] = to],
         to \in {"serve", "finish"} <=> task[s] \in {"serve", "finish"}
  PROVE  NoticeInv'
BY ToldStays DEF NoticeInv, Connected, TaskShape

LEMMA OpenFailsTold ==
  ASSUME TaskShape, NoticeInv, NEW s \in Sides, OpenFails(s), UNCHANGED ready
  PROVE  NoticeInv'
<1>1. UNCHANGED stream
  BY DEF OpenFails
<1>2. CASE stream[s]
  <2>1. task' = [task EXCEPT ![s] = "next"] /\ notices' = [notices EXCEPT ![s] = Append(@, "Pause")]
    BY <1>2 DEF OpenFails
  <2>2. Told(s)'
    BY <2>1, ToldNow DEF Connected, Notices, TaskShape
  <2>3. \A t \in Sides \ {s} : stream'[t] => Told(t)'
    BY <1>1, <2>1, ToldStays DEF NoticeInv, Connected, TaskShape
  <2>4. QED  BY <2>2, <2>3 DEF NoticeInv
<1>3. CASE ~stream[s]
  <2>1. task' = [task EXCEPT ![s] = "panicked"] /\ UNCHANGED notices
    BY <1>3 DEF OpenFails, Dies
  <2>2. \A t \in Sides \ {s} : stream'[t] => Told(t)'
    BY <1>1, <2>1, ToldStays DEF NoticeInv, Connected, TaskShape
  <2>3. QED  BY <1>1, <1>3, <2>2 DEF NoticeInv
<1>4. QED  BY <1>2, <1>3

LEMMA TaskStepTold ==
  ASSUME TaskShape, NoticeInv, NEW s \in Sides, TaskStep(s), UNCHANGED busVars
  PROVE  NoticeInv'
<1>1. UNCHANGED ready
  BY DEF busVars
<1>2. CASE Connect \/ Accept
  BY <1>1, <1>2, TheSides, EstablishedTold DEF Connect, Accept
<1>3. CASE Close(s) \/ WriteFails(s) \/ FinishFails(s)
  BY <1>1, <1>3, LeavesTold DEF Close, WriteFails, FinishFails
<1>4. CASE WriteTcp(s)
  BY <1>1, <1>4, ToldStays DEF WriteTcp, NoticeInv, Connected
<1>5. CASE WriteQuic(s)
  <2>1. task[s] = "serve" /\ task' = [task EXCEPT ![s] = "finish"]
        /\ UNCHANGED <<stream, notices>>
    BY <1>5 DEF WriteQuic, HasItem
  <2>2. QED  BY <1>1, <2>1, SilentTold
<1>6. CASE OpenFails(s)
  BY <1>1, <1>6, OpenFailsTold
<1>7. CASE Finish(s)
  <2>1. task[s] = "finish" /\ task' = [task EXCEPT ![s] = "serve"]
        /\ UNCHANGED <<stream, notices>>
    BY <1>7 DEF Finish
  <2>2. QED  BY <1>1, <2>1, SilentTold
<1>8. QED  BY <1>2, <1>3, <1>4, <1>5, <1>6, <1>7 DEF TaskStep

LEMMA CloseBusTold ==
  ASSUME TaskShape, NoticeInv, NEW c \in Calls, CloseBus(c)
  PROVE  NoticeInv'
<1> DEFINE s == From[c]
<1>1. s \in Sides /\ UNCHANGED <<task, ready, stream>>
  BY CallTypes DEF CloseBus
<1>2. CASE TaskGone(s) \/ ~stream[s]
  <2>1. UNCHANGED notices
    BY <1>2 DEF CloseBus
  <2>2. QED  BY <1>1, <2>1, ToldStays DEF NoticeInv, Connected
<1>3. CASE ~(TaskGone(s) \/ ~stream[s])
  <2>1. notices' = [notices EXCEPT ![s] = Append(@, "Exited")]
    BY <1>3 DEF CloseBus
  <2>2. Told(s)'
    BY <1>1, <2>1, ToldNow DEF Notices, TaskShape
  <2>3. \A t \in Sides \ {s} : stream'[t] => Told(t)'
    BY <1>1, <2>1, ToldStays DEF NoticeInv, Connected, TaskShape
  <2>4. QED  BY <2>2, <2>3 DEF NoticeInv
<1>4. QED  BY <1>2, <1>3

\* The event stream ends, or goes on with other things than notices.
LEMMA StreamTold ==
  ASSUME TaskShape, NoticeInv, NEW s \in Sides, UNCHANGED <<task, ready>>,
         StreamEnds(s) \/ UNCHANGED <<stream, notices>>
  PROVE  NoticeInv'
<1>1. CASE StreamEnds(s)
  BY <1>1, ToldStays DEF StreamEnds, NoticeInv, Connected, TaskShape
<1>2. CASE UNCHANGED <<stream, notices>>
  BY <1>2, ToldStays DEF NoticeInv, Connected
<1>3. QED  BY <1>1, <1>2

LEMMA NoticeTold ==
  ASSUME Shape, NoticeInv, NEW s \in Sides, Notice(s)
  PROVE  NoticeInv'
<1>1. stream'[s] => Told(s)'
  BY ToldNext DEF NoticeInv
<1>2. ASSUME NEW t \in Sides \ {s}
      PROVE  stream'[t] => Told(t)'
  <2>1. stream'[t] = stream[t] /\ notices'[t] = notices[t] /\ ready'[t] = ready[t]
        /\ UNCHANGED task
    BY DEF Notice, StreamEnds, Shape, TaskShape, BusShape
  <2>2. QED  BY <2>1, ToldStays DEF NoticeInv, Connected
<1>3. QED  BY <1>1, <1>2 DEF NoticeInv

LEMMA TroubleTold ==
  ASSUME TaskShape, NoticeInv, Trouble
  PROVE  NoticeInv'
<1>1. UNCHANGED ready
  BY DEF Trouble, busVars
<1>2. ASSUME NEW s \in Sides, EndOfConnections(s)
      PROVE  NoticeInv'
  <2>1. task[s] = "next" /\ task' = [task EXCEPT ![s] = "ended"] /\ UNCHANGED <<stream, notices>>
    BY <1>2 DEF EndOfConnections, Dies
  <2>2. QED  BY <1>1, <2>1, SilentTold
<1>3. ASSUME NEW n \in Connections, Break(n)
      PROVE  NoticeInv'
  BY <1>1, <1>3, ToldStays DEF Break, NoticeInv, Connected
<1>4. QED  BY <1>2, <1>3 DEF Trouble

LEMMA NoticeStep == Shape /\ NoticeInv /\ [Next]_vars => NoticeInv'
<1> SUFFICES ASSUME Shape, NoticeInv, [Next]_vars PROVE NoticeInv'
  OBVIOUS
<1>1. TaskShape
  BY DEF Shape
<1>2. ASSUME NEW c \in Calls, Submit(c) \/ Flush(c) \/ Sync(c)
      PROVE  NoticeInv'
  BY <1>2, ToldStays DEF Submit, Flush, Sync, linkRest, NoticeInv, Connected
<1>3. ASSUME NEW s \in Sides, EventStream(s)
      PROVE  NoticeInv'
  <2>1. CASE Notice(s)
    BY <2>1, NoticeTold
  <2>2. CASE Read(s) \/ ReadEnds(s)
    BY <2>2, <1>1, StreamTold DEF Read, ReadEnds, busVars
  <2>3. CASE FlushReplies(s)
    BY <2>3, <1>1, StreamTold DEF FlushReplies, ReplyInStream
  <2>4. CASE AwaitsItself(s)
    BY <2>4, <1>1, StreamTold DEF AwaitsItself
  <2>5. QED  BY <1>3, <2>1, <2>2, <2>3, <2>4 DEF EventStream
<1>4. ASSUME NEW s \in Sides, NEW t \in working[s], Respond(s, t[1], t[2])
      PROVE  NoticeInv'
  BY <1>4, ToldStays DEF Respond, linkRest, NoticeInv, Connected
<1>5. CASE UNCHANGED vars
  BY <1>5, ToldStays DEF vars, linkVars, busVars, NoticeInv, Connected
<1>6. QED
  BY <1>1, <1>2, <1>3, <1>4, <1>5, Steps, CloseBusTold, TaskStepTold, TroubleTold

LEMMA NoticeInit == Init => NoticeInv
BY DEF Init, LinkInit, NoticeInv, Told, Connected

\* Once the wrapper has seen every notice, its flag says whether the task has a
\* connection: no order of breaks, ends and closing leaves it with an old one.
THEOREM ReadyTellsTheTruth == Spec => []ReadyIsConnected
<1>1. Shape /\ NoticeInv => ReadyIsConnected
  <2> SUFFICES ASSUME NoticeInv, NEW s \in Sides, stream[s], notices[s] = <<>>
               PROVE  ready[s] <=> Connected(s)
    BY DEF ReadyIsConnected, Connected
  <2>1. Told(s)
    BY DEF NoticeInv
  <2>2. DOMAIN notices[s] = {}
    OBVIOUS
  <2>3. QED  BY <2>1, <2>2 DEF Told
<1>2. Spec => [](Shape /\ NoticeInv)
  BY InitShape, NoticeInit, ShapeStep, NoticeStep, PTL DEF Spec
<1>3. QED  BY <1>1, <1>2, PTL

---------------------------------------------------------------------------
(* Where a message of a side is. *)

Queues(s, c) == \E i \in DOMAIN items[s] : Label(items[s][i]) = <<"Send", c>>
Holds(s, c) == \E i \in DOMAIN item[s] : Label(item[s][i]) = <<"Send", c>>
Kept(s, c) == Queues(s, c) \/ Holds(s, c)
OnWire(s, c) == \E n \in Connections : \E i \in DOMAIN wire[s][n] :
                  wire[s][n][i].kind = "Send" /\ wire[s][n][i].argument = c
Arrived(s, c) == \E j \in DOMAIN arrived[Other(s)] : arrived[Other(s)][j] = c

\* It has left the relay, for good.
Passed(s, c) == OnWire(s, c) \/ Arrived(s, c) \/ <<"Send", c>> \in lost \/ ~Known(c)

\* A side with a link has opened it, and what was lost went down with one that broke
\* or was shut, or with a task.
Excuse == broken # {} \/ shut # {} \/ \E s \in Sides : TaskGone(s)

\* While a write is being finished the item has been written or never will be to
\* this connection, so that to drop it then loses nothing.
Finishing(s) ==
  task[s] = "finish" =>
    /\ transport = "quic"
    /\ Failing(s) \/ \A c \in Messages : Holds(s, c) => Passed(s, c)

ConservedInv ==
  /\ \A s \in Sides : \A i \in DOMAIN submitted[s] :
       Kept(s, submitted[s][i]) \/ Passed(s, submitted[s][i])
  /\ \A s \in Sides : Finishing(s)
  /\ lost # {} => Excuse

\* What a step does with the messages of a side.
PassedStay(s) == \A c \in Messages : Passed(s, c) => Passed(s, c)'
KeptStay(s) == \A c \in Messages : Kept(s, c) => Kept(s, c)' \/ Passed(s, c)'

LEMMA PassedSame ==
  ASSUME NEW s \in Sides, wire'[s] = wire[s], arrived'[Other(s)] = arrived[Other(s)],
         lost \subseteq lost'
  PROVE  PassedStay(s)
BY DEF PassedStay, Passed, OnWire, Arrived

LEMMA KeptSame ==
  ASSUME NEW s \in Sides, items'[s] = items[s], item'[s] = item[s]
  PROVE  KeptStay(s)
BY DEF KeptStay, Kept, Queues, Holds

LEMMA AppendKeeps ==
  ASSUME NEW T, NEW q \in Seq(T), NEW x \in T
  PROVE  /\ \A i \in DOMAIN q : i \in DOMAIN Append(q, x) /\ Append(q, x)[i] = q[i]
         /\ \E i \in DOMAIN Append(q, x) : Append(q, x)[i] = x
<1>1. Len(q) + 1 \in DOMAIN Append(q, x) /\ Append(q, x)[Len(q) + 1] = x
  OBVIOUS
<1>2. \A i \in DOMAIN q : i \in DOMAIN Append(q, x) /\ Append(q, x)[i] = q[i]
  OBVIOUS
<1>3. QED  BY <1>1, <1>2

LEMMA TailKeeps ==
  ASSUME NEW T, NEW q \in Seq(T), q # <<>>, NEW i \in DOMAIN q, i # 1
  PROVE  i - 1 \in DOMAIN Tail(q) /\ Tail(q)[i - 1] = q[i]
OBVIOUS

LEMMA KeptAppend ==
  ASSUME QueueShape, NEW s \in Sides, NEW x \in Travelling(s) \cup {Closing},
         items' = [items EXCEPT ![s] = Append(@, x)], UNCHANGED item
  PROVE  /\ \A t \in Sides : KeptStay(t)
         /\ \A c : Label(x) = <<"Send", c>> => Kept(s, c)'
<1>1. items'[s] = Append(items[s], x) /\ \A t \in Sides \ {s} : items'[t] = items[t]
  BY DEF QueueShape
<1>2. /\ \A i \in DOMAIN items[s] : i \in DOMAIN items'[s] /\ items'[s][i] = items[s][i]
      /\ \E i \in DOMAIN items'[s] : items'[s][i] = x
  <2>1. items[s] \in Seq(Travelling(s) \cup {Closing})
    BY DEF QueueShape
  <2>2. QED  BY <1>1, <2>1, AppendKeeps
<1>3. KeptStay(s)
  BY <1>2 DEF KeptStay, Kept, Queues, Holds
<1>4. \A t \in Sides \ {s} : KeptStay(t)
  BY <1>1, KeptSame
<1>5. QED  BY <1>2, <1>3, <1>4 DEF Kept, Queues

LEMMA KeptQueued ==
  ASSUME QueueShape, NEW s \in Sides, NEW x \in Travelling(s), Queued(s, x), UNCHANGED item
  PROVE  /\ \A t \in Sides : KeptStay(t)
         /\ lost \subseteq lost'
         /\ lost' # lost => TaskGone(s)
         /\ \A c : Label(x) = <<"Send", c>> => Kept(s, c)' \/ <<"Send", c>> \in lost'
<1>1. CASE TaskGone(s)
  BY <1>1, KeptSame DEF Queued
<1>2. CASE ~TaskGone(s)
  BY <1>2, KeptAppend DEF Queued
<1>3. QED  BY <1>1, <1>2

\* A task that ends takes what it kept with it.
LEMMA KeptDies ==
  ASSUME QueueShape, NEW s \in Sides, NEW how, Dies(s, how)
  PROVE  /\ \A t \in Sides : KeptStay(t)
         /\ lost \subseteq lost'
<1>1. /\ lost' = lost \cup Labels(items[s]) \cup Labels(item[s])
      /\ items' = [items EXCEPT ![s] = <<>>] /\ item' = [item EXCEPT ![s] = <<>>]
  BY DEF Dies
<1>2. \A t \in Sides \ {s} : KeptStay(t)
  BY <1>1, KeptSame DEF QueueShape
<1>3. \A c : Kept(s, c) => <<"Send", c>> \in lost'
  BY <1>1 DEF Kept, Queues, Holds, Labels
<1>4. KeptStay(s)
  BY <1>3 DEF KeptStay, Passed
<1>5. QED  BY <1>1, <1>2, <1>4

\* A message that is kept is the next one to be written or one of the rest.
LEMMA KeptNext ==
  ASSUME QueueShape, NEW s \in Sides, HasItem(s), NEW c, Kept(s, c)
  PROVE  \/ Label(Upcoming(s)) = <<"Send", c>>
         \/ \E i \in DOMAIN Rest(s) : Label(Rest(s)[i]) = <<"Send", c>>
<1>1. CASE item[s] # <<>>
  <2>1. item[s] = <<Upcoming(s)>> /\ Rest(s) = items[s]
    BY <1>1, NextItem
  <2>2. \A x : DOMAIN <<x>> = {1} /\ <<x>>[1] = x
    OBVIOUS
  <2>3. CASE Queues(s, c)
    BY <2>1, <2>3 DEF Queues
  <2>4. CASE Holds(s, c)
    BY <2>1, <2>2, <2>4 DEF Holds
  <2>5. QED  BY <2>3, <2>4 DEF Kept
<1>2. CASE item[s] = <<>>
  <2>1. items[s] # <<>> /\ Upcoming(s) = Head(items[s]) /\ Rest(s) = Tail(items[s])
    BY <1>2, NextItem
  <2>2. ~Holds(s, c)
    BY <1>2 DEF Holds
  <2>3. PICK i \in DOMAIN items[s] : Label(items[s][i]) = <<"Send", c>>
    BY <2>2 DEF Kept, Queues
  <2>4. items[s] \in Seq(Travelling(s) \cup {Closing})
    BY DEF QueueShape
  <2>5. /\ Head(items[s]) = items[s][1]
        /\ i # 1 => i - 1 \in DOMAIN Tail(items[s]) /\ Tail(items[s])[i - 1] = items[s][i]
    BY <2>1, <2>4
  <2>6. QED  BY <2>1, <2>3, <2>5
<1>3. QED  BY <1>1, <1>2

\* The task goes on with the rest, and keeps the item it had or not.
LEMMA KeptRest ==
  ASSUME QueueShape, NEW s \in Sides, HasItem(s), NEW kept,
         item' = [item EXCEPT ![s] = kept], items' = [items EXCEPT ![s] = Rest(s)],
         \/ kept = <<Upcoming(s)>>
         \/ \A c \in Messages : Label(Upcoming(s)) = <<"Send", c>> => Passed(s, c)'
  PROVE  \A t \in Sides : KeptStay(t)
<1>1. items'[s] = Rest(s) /\ item'[s] = kept
  BY DEF QueueShape
<1>2. \A t \in Sides \ {s} : KeptStay(t)
  BY KeptSame DEF QueueShape
<1>3. ASSUME NEW c \in Messages, Kept(s, c)
      PROVE  Kept(s, c)' \/ Passed(s, c)'
  <2>1. CASE \E i \in DOMAIN Rest(s) : Label(Rest(s)[i]) = <<"Send", c>>
    BY <1>1, <2>1 DEF Kept, Queues
  <2>2. CASE Label(Upcoming(s)) = <<"Send", c>>
    <3>1. \A x : 1 \in DOMAIN <<x>> /\ <<x>>[1] = x
      OBVIOUS
    <3>2. CASE kept = <<Upcoming(s)>>
      BY <1>1, <2>2, <3>1, <3>2 DEF Kept, Holds
    <3>3. QED  BY <2>2, <3>2
  <2>3. QED  BY <1>3, <2>1, <2>2, KeptNext
<1>4. QED  BY <1>2, <1>3 DEF KeptStay

LEMMA LeavesKeeps ==
  ASSUME QueueShape, NEW s \in Sides, HasItem(s), NEW kept, Leaves(s, kept, Rest(s)),
         \/ kept = <<Upcoming(s)>>
         \/ \A c \in Messages : Label(Upcoming(s)) = <<"Send", c>> => Passed(s, c)'
  PROVE  /\ \A t \in Sides : KeptStay(t)
         /\ lost \subseteq lost'
<1>1. CASE stream[s]
  BY <1>1, KeptRest DEF Leaves
<1>2. CASE ~stream[s]
  BY <1>2, KeptDies DEF Leaves
<1>3. QED  BY <1>1, <1>2

LEMMA OpenFailsKeeps ==
  ASSUME QueueShape, NEW s \in Sides, OpenFails(s)
  PROVE  /\ \A t \in Sides : KeptStay(t)
         /\ lost \subseteq lost'
<1>1. CASE stream[s]
  <2>1. /\ item' = [item EXCEPT ![s] = <<>>] /\ items' = [items EXCEPT ![s] = Rest(s)]
        /\ lost' = lost \cup {Label(Upcoming(s))} /\ HasItem(s)
    BY <1>1 DEF OpenFails
  <2>2. \A c \in Messages : Label(Upcoming(s)) = <<"Send", c>> => Passed(s, c)'
    BY <2>1 DEF Passed
  <2>3. QED  BY <2>1, <2>2, KeptRest
<1>2. CASE ~stream[s]
  BY <1>2, KeptDies DEF OpenFails
<1>3. QED  BY <1>1, <1>2

\* A packet that is written goes behind those on the wire.
LEMMA WrittenPassed ==
  ASSUME WireShape, NEW s \in Sides, NEW n \in Connections, NEW p \in Travels(s),
         wire' = [wire EXCEPT ![s][n] = Append(@, p)], UNCHANGED arrived, lost \subseteq lost'
  PROVE  /\ \A t \in Sides : PassedStay(t)
         /\ \A c : p.kind = "Send" /\ p.argument = c => Passed(s, c)'
<1>1. /\ wire'[s][n] = Append(wire[s][n], p)
      /\ \A m \in Connections \ {n} : wire'[s][m] = wire[s][m]
      /\ \A t \in Sides \ {s} : wire'[t] = wire[t]
  BY DEF WireShape
<1>2. wire[s][n] \in Seq(Travels(s))
  BY DEF WireShape
<1>3. /\ \A i \in DOMAIN wire[s][n] : i \in DOMAIN wire'[s][n] /\ wire'[s][n][i] = wire[s][n][i]
      /\ \E i \in DOMAIN wire'[s][n] : wire'[s][n][i] = p
  BY <1>1, <1>2, AppendKeeps
<1>4. \A c : OnWire(s, c) => OnWire(s, c)'
  BY <1>1, <1>3 DEF OnWire
<1>5. \A c : p.kind = "Send" /\ p.argument = c => OnWire(s, c)'
  BY <1>3 DEF OnWire
<1>6. PassedStay(s)
  BY <1>4 DEF PassedStay, Passed, Arrived
<1>7. \A t \in Sides \ {s} : PassedStay(t)
  BY <1>1, PassedSame
<1>8. QED  BY <1>5, <1>6, <1>7 DEF Passed

LEMMA WritingKeeps ==
  ASSUME QueueShape, TaskShape, WireShape, NEW s \in Sides, HasItem(s), Upcoming(s) # Closing,
         NEW kept, kept \in {<<>>, <<Upcoming(s)>>}, UNCHANGED arrived,
         Vanishes(s, kept) \/ (~Failing(s) /\ Written(s, kept))
  PROVE  /\ \A t \in Sides : KeptStay(t) /\ PassedStay(t)
         /\ lost \subseteq lost'
         /\ lost' # lost => Failing(s)
         /\ Failing(s) \/ \A c \in Messages : Label(Upcoming(s)) = <<"Send", c>> => Passed(s, c)'
<1>1. item' = [item EXCEPT ![s] = kept] /\ items' = [items EXCEPT ![s] = Rest(s)]
  BY DEF Vanishes, Written
<1>2. CASE Vanishes(s, kept)
  <2>1. UNCHANGED wire /\ lost \subseteq lost' /\ Failing(s)
        /\ (kept = <<>> => Label(Upcoming(s)) \in lost')
    BY <1>2 DEF Vanishes
  <2>2. \A t \in Sides : PassedStay(t)
    BY <2>1, PassedSame
  <2>3. \/ kept = <<Upcoming(s)>>
        \/ \A c \in Messages : Label(Upcoming(s)) = <<"Send", c>> => Passed(s, c)'
    BY <2>1 DEF Passed
  <2>4. QED  BY <1>1, <2>1, <2>2, <2>3, KeptRest
<1>3. CASE ~Failing(s) /\ Written(s, kept)
  <2> DEFINE p == Serialize(Upcoming(s))
  <2>1. wire' = [wire EXCEPT ![s][link[s]] = Append(@, p)] /\ UNCHANGED lost
    BY <1>3 DEF Written
  <2>2. Upcoming(s) \in Travelling(s)
    BY NextItem
  <2>3. p \in Travels(s) /\ link[s] \in Connections
    BY <2>2 DEF Travels, TaskShape, HasItem
  <2>4. /\ Label(Upcoming(s)) = <<Upcoming(s).what, Upcoming(s).num>>
        /\ p.kind = Upcoming(s).what /\ p.argument = Upcoming(s).num
    BY <2>2, Traveller
  <2> HIDE DEF p
  <2>5. PICK n \in Connections : n = link[s]
    BY <2>3
  <2>6. /\ \A t \in Sides : PassedStay(t)
        /\ \A c : p.kind = "Send" /\ p.argument = c => Passed(s, c)'
    BY <2>1, <2>3, <2>5, WrittenPassed
  <2>7. \A c \in Messages : Label(Upcoming(s)) = <<"Send", c>> => Passed(s, c)'
    BY <2>4, <2>6
  <2>8. QED  BY <1>1, <2>1, <2>6, <2>7, KeptRest
<1>4. QED  BY <1>2, <1>3

\* What is read has arrived, or is not known where it was read.
LEMMA ReadPassed ==
  ASSUME Shape, NEW s \in Sides, Read(s)
  PROVE  \A t \in Sides : PassedStay(t)
<1> DEFINE o == Other(s)
           n == Head(intake[s])
           q == Packets(s)
           x == Deserialize(Head(q), s)
<1>1. o \in Sides /\ o # s /\ Other(o) = s
  BY TheSides
<1>2. n \in Connections /\ q \in Seq(Travels(o)) /\ Head(q) \in Travels(o) /\ q # <<>>
      /\ q = wire[o][n]
  BY TheRead DEF Shape, Read, Packets
<1>3. UNCHANGED lost /\ wire' = [wire EXCEPT ![o][n] = Tail(q)]
  BY DEF Read, Packets
<1>4. /\ wire'[o][n] = Tail(q) /\ \A m \in Connections \ {n} : wire'[o][m] = wire[o][m]
      /\ wire'[s] = wire[s]
  BY <1>1, <1>2, <1>3 DEF Shape, WireShape
<1>5. /\ arrived'[o] = arrived[o]
      /\ \A i \in DOMAIN arrived[s] : i \in DOMAIN arrived'[s] /\ arrived'[s][i] = arrived[s][i]
      /\ x.what = "Send" => \E i \in DOMAIN arrived'[s] : arrived'[s][i] = Head(q).argument
  <2>1. CASE x.what = "Send" /\ OnSend(s, x)
    <3>1. x.load.body = Head(q).argument /\ Head(q).argument \in Messages
      BY <1>2, <2>1, Reading
    <3>2. arrived' = [arrived EXCEPT ![s] = Append(@, x.load.body)]
      BY <2>1 DEF OnSend
    <3> HIDE DEF x
    <3>3. arrived'[s] = Append(arrived[s], Head(q).argument) /\ arrived'[o] = arrived[o]
          /\ arrived[s] \in Seq(Messages)
      BY <1>1, <3>1, <3>2 DEF Shape, BusShape
    <3>4. QED  BY <3>1, <3>3, AppendKeeps
  <2>2. CASE x.what # "Send" /\ UNCHANGED arrived
    BY <2>2
  <2>3. x.what # "Send" => UNCHANGED arrived
    BY ReadCases DEF OnAction, OnEvent
  <2>4. QED  BY <2>1, <2>2, <2>3, ReadCases
<1>6. PassedStay(s)
  BY <1>1, <1>3, <1>4, <1>5, PassedSame
<1>7. ASSUME NEW c \in Messages, Passed(o, c)
      PROVE  Passed(o, c)'
  <2>1. CASE Arrived(o, c)
    BY <1>1, <1>5, <2>1 DEF Arrived, Passed
  <2>2. CASE <<"Send", c>> \in lost \/ ~Known(c)
    BY <1>3, <2>2 DEF Passed, Known
  <2>3. CASE OnWire(o, c)
    <3>1. PICK m \in Connections :
            \E i \in DOMAIN wire[o][m] : wire[o][m][i].kind = "Send" /\ wire[o][m][i].argument = c
      BY <2>3 DEF OnWire
    <3>2. PICK i \in DOMAIN wire[o][m] : wire[o][m][i].kind = "Send" /\ wire[o][m][i].argument = c
      BY <3>1
    <3>3. CASE m # n
      BY <1>4, <3>2, <3>3 DEF Passed, OnWire
    <3>4. CASE m = n /\ i # 1
      <4>1. i - 1 \in DOMAIN Tail(q) /\ Tail(q)[i - 1] = q[i]
        <5>1. q \in Seq(Travels(o)) /\ q # <<>> /\ i \in DOMAIN q /\ i # 1
          BY <1>2, <3>2, <3>4
        <5> HIDE DEF q
        <5>2. QED  BY <5>1, TailKeeps
      <4>2. QED  BY <1>2, <1>4, <3>2, <3>4, <4>1 DEF Passed, OnWire
    <3>5. CASE m = n /\ i = 1
      <4>1. Head(q) = q[1]
        BY <1>2
      <4>2. Head(q).kind = "Send" /\ Head(q).argument = c
        BY <1>2, <3>2, <3>5, <4>1
      <4>3. From[c] = o
        BY <1>1, <1>2, <4>2, Reading
      <4>4. CASE s \in KnownTo[c]
        <5>1. x.what = "Send"
          BY <1>1, <1>2, <4>2, <4>4, Reading
        <5>2. QED  BY <1>1, <1>5, <4>2, <5>1 DEF Passed, Arrived
      <4>5. CASE s \notin KnownTo[c]
        BY <1>1, <4>3, <4>5 DEF Passed, Known
      <4>6. QED  BY <4>4, <4>5
    <3>6. QED  BY <3>3, <3>4, <3>5
  <2>4. QED  BY <1>7, <2>1, <2>2, <2>3 DEF Passed
<1>8. PassedStay(o)
  BY <1>7 DEF PassedStay
<1>9. QED  BY <1>1, <1>6, <1>8, TheSides

\* What was on a connection that breaks is on it still, or lost.
LEMMA BreakPassed ==
  ASSUME WireShape, NEW n \in Connections, Break(n), UNCHANGED arrived
  PROVE  /\ \A t \in Sides : PassedStay(t)
         /\ lost \subseteq lost'
<1>1. PICK left \in [Sides -> 0..Len(wire[Client][n]) + Len(wire[Server][n])] :
        /\ \A s \in Sides : left[s] <= Len(wire[s][n])
        /\ wire' = [s \in Sides |-> [wire[s] EXCEPT ![n] = SubSeq(@, 1, left[s])]]
        /\ lost' = lost \cup UNION
             {{<<wire[s][n][i].kind, wire[s][n][i].argument>> :
                 i \in left[s] + 1 .. Len(wire[s][n])} : s \in Sides}
  BY DEF Break
<1>2. \A s \in Sides : left[s] \in Nat
  <2>1. Len(wire[Client][n]) \in Nat /\ Len(wire[Server][n]) \in Nat
    BY TheSides DEF WireShape
  <2>2. \A i, j \in Nat : \A k \in 0..i + j : k \in Nat
    OBVIOUS
  <2>3. \A s \in Sides : left[s] \in 0..Len(wire[Client][n]) + Len(wire[Server][n])
    OBVIOUS
  <2>4. QED  BY <2>1, <2>2, <2>3
<1>3. lost \subseteq lost'
  BY <1>1
<1>4. ASSUME NEW t \in Sides, NEW c, OnWire(t, c)
      PROVE  OnWire(t, c)' \/ <<"Send", c>> \in lost'
  <2>1. PICK m \in Connections :
          \E i \in DOMAIN wire[t][m] : wire[t][m][i].kind = "Send" /\ wire[t][m][i].argument = c
    BY <1>4 DEF OnWire
  <2>2. PICK i \in DOMAIN wire[t][m] : wire[t][m][i].kind = "Send" /\ wire[t][m][i].argument = c
    BY <2>1
  <2>3. wire[t][m] \in Seq(Travels(t)) /\ wire[t] \in [Connections -> Seq(Travels(t))]
    BY DEF WireShape
  <2>4. i \in 1..Len(wire[t][m])
    BY <2>2, <2>3
  <2>5. CASE m # n
    <3>1. wire'[t][m] = wire[t][m]
      BY <1>1, <2>3, <2>5
    <3>2. QED  BY <2>2, <3>1 DEF OnWire
  <2>6. CASE m = n /\ i <= left[t]
    <3>1. wire'[t][n] = SubSeq(wire[t][n], 1, left[t])
      BY <1>1, <2>3
    <3>2. i \in DOMAIN SubSeq(wire[t][n], 1, left[t])
          /\ SubSeq(wire[t][n], 1, left[t])[i] = wire[t][n][i]
      BY <1>1, <1>2, <2>3, <2>4, <2>6
    <3>3. QED  BY <2>2, <2>6, <3>1, <3>2 DEF OnWire
  <2>7. CASE m = n /\ ~(i <= left[t])
    <3>1. i \in left[t] + 1 .. Len(wire[t][n])
      BY <1>2, <2>4, <2>7
    <3>2. <<wire[t][n][i].kind, wire[t][n][i].argument>> \in lost'
      BY <1>1, <3>1
    <3>3. QED  BY <2>2, <2>7, <3>2
  <2>8. QED  BY <2>5, <2>6, <2>7
<1>5. QED  BY <1>3, <1>4 DEF PassedStay, Passed, Arrived

---------------------------------------------------------------------------
(* A message the relay took is never just gone. *)

LEMMA FinishingStays ==
  ASSUME NEW t \in Sides, Finishing(t), PassedStay(t), UNCHANGED transport,
         task'[t] = task[t], link'[t] = link[t], item'[t] = item[t],
         broken \subseteq broken', shut \subseteq shut'
  PROVE  Finishing(t)'
<1> SUFFICES ASSUME task[t] = "finish"
             PROVE  transport = "quic"
                    /\ (Failing(t)' \/ \A c \in Messages : Holds(t, c)' => Passed(t, c)')
  BY DEF Finishing
<1>1. transport = "quic"
      /\ (Failing(t) \/ \A c \in Messages : Holds(t, c) => Passed(t, c))
  BY DEF Finishing
<1>2. Failing(t) => Failing(t)'
  BY <1>1 DEF Failing
<1>3. \A c \in Messages : Holds(t, c)' => Holds(t, c)
  BY DEF Holds
<1>4. QED  BY <1>1, <1>2, <1>3 DEF PassedStay

\* What a step never does to a message.
Safely ==
  /\ \A t \in Sides : KeptStay(t) /\ PassedStay(t) /\ Finishing(t)'
  /\ Excuse => Excuse'
  /\ lost' # lost => Excuse'

LEMMA ExcuseStays ==
  ASSUME broken \subseteq broken', shut \subseteq shut',
         \A s \in Sides : TaskGone(s) => TaskGone(s)'
  PROVE  Excuse => Excuse'
BY DEF Excuse

\* A step of one task leaves the other side alone.
LEMMA OtherSide ==
  ASSUME TaskShape, QueueShape, \A t \in Sides : Finishing(t) /\ PassedStay(t), UNCHANGED transport,
         broken \subseteq broken', shut \subseteq shut', NEW s \in Sides,
         \A t \in Sides \ {s} : task'[t] = task[t] /\ link'[t] = link[t] /\ item'[t] = item[t]
  PROVE  \A t \in Sides \ {s} : Finishing(t)' /\ (TaskGone(t) => TaskGone(t)')
BY FinishingStays DEF TaskGone

LEMMA LeavesSafe ==
  ASSUME Shape, \A t \in Sides : Finishing(t), NEW s \in Sides, NEW kept, NEW rest,
         Leaves(s, kept, rest), UNCHANGED arrived,
         \A t \in Sides : KeptStay(t), lost \subseteq lost'
  PROVE  Safely
<1> USE DEF Shape
<1>1. UNCHANGED <<wire, link, transport, broken>> /\ shut' = shut \cup {<<s, link[s]>>}
  BY DEF Leaves
<1>2. \A t \in Sides : PassedStay(t)
  BY <1>1, PassedSame
<1>3. \E to \in {"next", "panicked"} : task' = [task EXCEPT ![s] = to]
      /\ \A t \in Sides \ {s} : item'[t] = item[t]
  BY DEF Leaves, Dies, QueueShape
<1>4. task'[s] # "finish" /\ \A t \in Sides \ {s} : task'[t] = task[t] /\ item'[t] = item[t]
  BY <1>3 DEF TaskShape
<1>5. \A t \in Sides \ {s} : Finishing(t)' /\ (TaskGone(t) => TaskGone(t)')
  BY <1>1, <1>2, <1>4, OtherSide
<1>6. Excuse'
  BY <1>1 DEF Excuse
<1>7. QED  BY <1>2, <1>4, <1>5, <1>6 DEF Safely, Finishing

LEMMA EstablishedSafe ==
  ASSUME Shape, \A t \in Sides : Finishing(t), NEW s \in Sides, NEW n, Established(s, n),
         UNCHANGED arrived, task[s] = "next"
  PROVE  Safely
<1> USE DEF Shape
<1>1. UNCHANGED <<wire, transport, broken>> /\ shut \subseteq shut'
  BY DEF Established
<1>2. (\A t \in Sides : KeptStay(t)) /\ lost \subseteq lost'
  <2>1. CASE stream[s]
    BY <2>1, KeptSame DEF Established
  <2>2. CASE ~stream[s]
    BY <2>2, KeptDies DEF Established
  <2>3. QED  BY <2>1, <2>2
<1>3. \A t \in Sides : PassedStay(t)
  BY <1>1, <1>2, PassedSame
<1>4. /\ task'[s] \in {"serve", "panicked"}
      /\ \A t \in Sides \ {s} : task'[t] = task[t] /\ item'[t] = item[t] /\ link'[t] = link[t]
  BY DEF Established, Dies, QueueShape, TaskShape
<1>5. \A t \in Sides \ {s} : Finishing(t)' /\ (TaskGone(t) => TaskGone(t)')
  BY <1>1, <1>3, <1>4, OtherSide
<1>6. Excuse => Excuse'
  <2>1. \A t \in Sides : TaskGone(t) => TaskGone(t)'
    BY <1>5 DEF TaskGone
  <2>2. QED  BY <1>1, <2>1, ExcuseStays
<1>7. lost' # lost => Excuse'
  BY DEF Established, Dies, Excuse
<1>8. QED  BY <1>2, <1>3, <1>4, <1>5, <1>6, <1>7 DEF Safely, Finishing

\* The two write loops.
LEMMA WriteSafe ==
  ASSUME Shape, \A t \in Sides : Finishing(t), NEW s \in Sides,
         WriteTcp(s) \/ WriteQuic(s), UNCHANGED arrived
  PROVE  Safely
<1> USE DEF Shape
<1>1. PICK kept \in {<<>>, <<Upcoming(s)>>} :
        /\ HasItem(s) /\ Upcoming(s) # Closing
        /\ Vanishes(s, kept) \/ (~Failing(s) /\ Written(s, kept))
        /\ WriteTcp(s) => kept = <<>>
        /\ WriteQuic(s) => kept = <<Upcoming(s)>>
  <2>1. CASE WriteTcp(s)
    <3>1. ~WriteQuic(s)
      BY <2>1 DEF WriteTcp, WriteQuic
    <3>2. QED  BY <2>1, <3>1 DEF WriteTcp
  <2>2. CASE WriteQuic(s)
    <3>1. ~WriteTcp(s)
      BY <2>2 DEF WriteTcp, WriteQuic
    <3>2. QED  BY <2>2, <3>1 DEF WriteQuic
  <2>3. QED  BY <2>1, <2>2
<1>2. /\ \A t \in Sides : KeptStay(t) /\ PassedStay(t)
      /\ lost \subseteq lost'
      /\ lost' # lost => Failing(s)
      /\ Failing(s) \/ \A c \in Messages : Label(Upcoming(s)) = <<"Send", c>> => Passed(s, c)'
  BY <1>1, WritingKeeps
<1>3. UNCHANGED <<transport, link, intake, broken, shut>>
  BY DEF WriteTcp, WriteQuic
<1>4. item' = [item EXCEPT ![s] = kept]
  BY <1>1 DEF Vanishes, Written
<1>5. \E to : task' = [task EXCEPT ![s] = to]
      /\ (WriteQuic(s) => to = "finish") /\ (~WriteQuic(s) => to = "serve")
  <2>1. task[s] = "serve"
    BY <1>1 DEF HasItem
  <2>2. CASE WriteQuic(s)
    BY <2>2 DEF WriteQuic
  <2>3. CASE ~WriteQuic(s)
    <3>1. UNCHANGED task
      BY <2>3 DEF WriteTcp
    <3>2. task' = [task EXCEPT ![s] = "serve"]
      BY <2>1, <3>1 DEF TaskShape
    <3>3. QED  BY <2>3, <3>2
  <2>4. QED  BY <2>2, <2>3
<1>6. /\ \A t \in Sides \ {s} : task'[t] = task[t] /\ item'[t] = item[t] /\ link'[t] = link[t]
      /\ ~TaskGone(s) /\ (~WriteQuic(s) => task'[s] = "serve")
  BY <1>1, <1>3, <1>4, <1>5 DEF TaskShape, QueueShape, TaskGone, HasItem
<1>7. \A t \in Sides \ {s} : Finishing(t)' /\ (TaskGone(t) => TaskGone(t)')
  BY <1>2, <1>3, <1>6, OtherSide
<1>8. Finishing(s)'
  <2>1. CASE WriteQuic(s)
    <3>1. transport' = "quic"
      BY <2>1, <1>3 DEF WriteQuic
    <3>2. Failing(s) => Failing(s)'
      BY <1>3 DEF Failing
    <3>3. item'[s] = <<Upcoming(s)>>
      BY <1>1, <1>4, <2>1 DEF QueueShape
    <3>4. \A x : DOMAIN <<x>> = {1} /\ <<x>>[1] = x
      OBVIOUS
    <3>5. \A c \in Messages : Holds(s, c)' => Label(Upcoming(s)) = <<"Send", c>>
      BY <3>3, <3>4 DEF Holds
    <3>6. QED  BY <1>2, <3>1, <3>2, <3>5 DEF Finishing
  <2>2. CASE ~WriteQuic(s)
    BY <1>6, <2>2 DEF Finishing
  <2>3. QED  BY <2>1, <2>2
<1>9. Excuse => Excuse'
  BY <1>3, <1>6, <1>7, ExcuseStays
<1>10. lost' # lost => Excuse'
  BY <1>2, <1>3 DEF Failing, Excuse
<1>11. QED  BY <1>2, <1>7, <1>8, <1>9, <1>10 DEF Safely

LEMMA OpenFailsSafe ==
  ASSUME Shape, \A t \in Sides : Finishing(t), NEW s \in Sides, OpenFails(s), UNCHANGED arrived
  PROVE  Safely
<1> USE DEF Shape
<1>1. UNCHANGED <<wire, link, transport, broken>> /\ shut' = shut \cup {<<s, link[s]>>}
  BY DEF OpenFails
<1>2. (\A t \in Sides : KeptStay(t)) /\ lost \subseteq lost'
  BY OpenFailsKeeps
<1>3. \A t \in Sides : PassedStay(t)
  BY <1>1, <1>2, PassedSame
<1>4. \E to \in {"next", "panicked"} : task' = [task EXCEPT ![s] = to]
      /\ \A t \in Sides \ {s} : item'[t] = item[t]
  <2>1. CASE stream[s]
    BY <2>1 DEF OpenFails, QueueShape
  <2>2. CASE ~stream[s]
    BY <2>2 DEF OpenFails, Dies, QueueShape
  <2>3. QED  BY <2>1, <2>2
<1>5. task'[s] # "finish" /\ \A t \in Sides \ {s} : task'[t] = task[t] /\ item'[t] = item[t]
  BY <1>4 DEF TaskShape
<1>6. \A t \in Sides \ {s} : Finishing(t)' /\ (TaskGone(t) => TaskGone(t)')
  BY <1>1, <1>3, <1>5, OtherSide
<1>7. Excuse'
  BY <1>1 DEF Excuse
<1>8. QED  BY <1>2, <1>3, <1>5, <1>6, <1>7 DEF Safely, Finishing

\* The item is dropped once its stream is finished: it had been written.
LEMMA FinishSafe ==
  ASSUME Shape, \A t \in Sides : Finishing(t), NEW s \in Sides, Finish(s), UNCHANGED arrived
  PROVE  Safely
<1> USE DEF Shape
<1>1. /\ task[s] = "finish" /\ ~Failing(s)
      /\ task' = [task EXCEPT ![s] = "serve"] /\ item' = [item EXCEPT ![s] = <<>>]
      /\ UNCHANGED <<transport, items, link, broken, shut, wire, lost>>
  BY DEF Finish
<1>2. \A t \in Sides : PassedStay(t)
  BY <1>1, PassedSame
<1>3. \A c \in Messages : Holds(s, c) => Passed(s, c)
  BY <1>1 DEF Finishing
<1>4. KeptStay(s)
  BY <1>1, <1>2, <1>3 DEF KeptStay, PassedStay, Kept, Queues
<1>5. /\ task'[s] = "serve" /\ ~TaskGone(s)
      /\ \A t \in Sides \ {s} : task'[t] = task[t] /\ item'[t] = item[t] /\ link'[t] = link[t]
  BY <1>1 DEF TaskShape, QueueShape, TaskGone
<1>6. \A t \in Sides \ {s} : KeptStay(t)
  BY <1>1, <1>5, KeptSame
<1>7. \A t \in Sides \ {s} : Finishing(t)' /\ (TaskGone(t) => TaskGone(t)')
  BY <1>1, <1>2, <1>5, OtherSide
<1>8. Excuse => Excuse'
  BY <1>1, <1>5, <1>7, ExcuseStays
<1>9. QED  BY <1>1, <1>2, <1>4, <1>5, <1>6, <1>7, <1>8 DEF Safely, Finishing

LEMMA TaskStepSafe ==
  ASSUME Shape, \A t \in Sides : Finishing(t), NEW s \in Sides, TaskStep(s), UNCHANGED busVars
  PROVE  Safely
<1> USE DEF Shape
<1>1. UNCHANGED arrived
  BY DEF busVars
<1>2. CASE s = Client /\ Connect
  BY <1>1, <1>2, EstablishedSafe DEF Connect
<1>3. CASE s = Server /\ Accept
  BY <1>1, <1>3, EstablishedSafe DEF Accept
<1>4. CASE Close(s)
  <2>1. HasItem(s) /\ Upcoming(s) = Closing /\ Leaves(s, <<>>, Rest(s))
    BY <1>4 DEF Close
  <2>2. Label(Upcoming(s)) = <<>>
    BY <2>1 DEF Label
  <2>3. \A c \in Messages : Label(Upcoming(s)) # <<"Send", c>>
    BY <2>2
  <2>4. (\A t \in Sides : KeptStay(t)) /\ lost \subseteq lost'
    BY <2>1, <2>3, LeavesKeeps
  <2>5. QED  BY <1>1, <2>1, <2>4, LeavesSafe
<1>5. CASE WriteTcp(s) \/ WriteQuic(s)
  BY <1>1, <1>5, WriteSafe
<1>6. CASE WriteFails(s)
  <2>1. HasItem(s) /\ Leaves(s, <<Upcoming(s)>>, Rest(s))
    BY <1>6 DEF WriteFails
  <2>2. (\A t \in Sides : KeptStay(t)) /\ lost \subseteq lost'
    BY <2>1, LeavesKeeps
  <2>3. QED  BY <1>1, <2>1, <2>2, LeavesSafe
<1>7. CASE OpenFails(s)
  BY <1>1, <1>7, OpenFailsSafe
<1>8. CASE Finish(s)
  BY <1>1, <1>8, FinishSafe
<1>9. CASE FinishFails(s)
  <2>1. Leaves(s, item[s], items[s])
    BY <1>9 DEF FinishFails
  <2>2. (\A t \in Sides : KeptStay(t)) /\ lost \subseteq lost'
    <3>1. CASE stream[s]
      <4>1. \A t \in Sides : items'[t] = items[t] /\ item'[t] = item[t]
        BY <2>1, <3>1 DEF Leaves, QueueShape
      <4>2. QED  BY <2>1, <3>1, <4>1, KeptSame DEF Leaves
    <3>2. CASE ~stream[s]
      BY <2>1, <3>2, KeptDies DEF Leaves
    <3>3. QED  BY <3>1, <3>2
  <2>3. QED  BY <1>1, <2>1, <2>2, LeavesSafe
<1>10. QED
  BY <1>2, <1>3, <1>4, <1>5, <1>6, <1>7, <1>8, <1>9 DEF TaskStep

LEMMA TroubleSafe ==
  ASSUME Shape, \A t \in Sides : Finishing(t), Trouble
  PROVE  Safely
<1> USE DEF Shape
<1>1. UNCHANGED arrived
  BY DEF Trouble, busVars
<1>2. ASSUME NEW s \in Sides, EndOfConnections(s)
      PROVE  Safely
  <2>1. Dies(s, "ended") /\ UNCHANGED <<transport, link, broken, shut, wire>>
    BY <1>2 DEF EndOfConnections
  <2>2. (\A t \in Sides : KeptStay(t)) /\ lost \subseteq lost'
    BY <2>1, KeptDies
  <2>3. \A t \in Sides : PassedStay(t)
    BY <1>1, <2>1, <2>2, PassedSame
  <2>4. /\ task'[s] = "ended"
        /\ \A t \in Sides \ {s} : task'[t] = task[t] /\ item'[t] = item[t]
    BY <2>1 DEF Dies, TaskShape, QueueShape
  <2>5. \A t \in Sides \ {s} : Finishing(t)'
    BY <2>1, <2>3, <2>4, OtherSide
  <2>6. Excuse'
    BY <2>4 DEF Excuse, TaskGone
  <2>7. QED  BY <2>2, <2>3, <2>4, <2>5, <2>6 DEF Safely, Finishing
<1>3. ASSUME NEW n \in Connections, Break(n)
      PROVE  Safely
  <2>1. UNCHANGED <<transport, items, item, task, link, shut>> /\ broken' = broken \cup {n}
    BY <1>3 DEF Break
  <2>2. (\A t \in Sides : PassedStay(t)) /\ lost \subseteq lost'
    BY <1>1, <1>3, BreakPassed
  <2>3. \A t \in Sides : KeptStay(t)
    BY <2>1, KeptSame
  <2>4. \A t \in Sides : Finishing(t)'
    BY <2>1, <2>2, FinishingStays
  <2>5. Excuse'
    BY <2>1 DEF Excuse
  <2>6. QED  BY <2>2, <2>3, <2>4, <2>5 DEF Safely
<1>4. QED  BY <1>2, <1>3 DEF Trouble

\* A step that queues an item, or none, and leaves the link alone otherwise.
LEMMA QueuedSafe ==
  ASSUME Shape, \A t \in Sides : Finishing(t), UNCHANGED arrived,
         UNCHANGED <<transport, item, task, link, broken, shut, wire>>,
         \A t \in Sides : KeptStay(t), lost \subseteq lost',
         lost' # lost => \E s \in Sides : TaskGone(s)
  PROVE  Safely
<1>1. \A t \in Sides : PassedStay(t)
  BY PassedSame
<1>2. \A t \in Sides : Finishing(t)'
  BY <1>1, FinishingStays
<1>3. \A t \in Sides : TaskGone(t) => TaskGone(t)'
  BY DEF TaskGone
<1>4. Excuse => Excuse'
  BY <1>3, ExcuseStays
<1>5. QED  BY <1>1, <1>2, <1>3, <1>4 DEF Safely, Excuse

LEMMA QueuesSafe ==
  ASSUME Shape, \A t \in Sides : Finishing(t), NEW s \in Sides, NEW x \in Travelling(s),
         Queued(s, x), UNCHANGED arrived,
         UNCHANGED <<transport, item, task, link, broken, shut, wire>>
  PROVE  /\ Safely
         /\ \A c : Label(x) = <<"Send", c>> => Kept(s, c)' \/ <<"Send", c>> \in lost'
BY KeptQueued, QueuedSafe DEF Shape

LEMMA CallSafe ==
  ASSUME Shape, \A t \in Sides : Finishing(t), NEW c \in Calls,
         Flush(c) \/ Sync(c) \/ CloseBus(c)
  PROVE  Safely
<1> USE DEF Shape
<1>1. From[c] \in Sides
  BY CallTypes
<1>2. UNCHANGED <<transport, item, task, link, broken, shut, wire, arrived>>
  BY DEF Flush, Sync, CloseBus, linkRest
<1>3. CASE Queued(From[c], Plain("Flush")) \/ Queued(From[c], Plain("Synchronize"))
  BY <1>1, <1>2, <1>3, Queueable, QueuesSafe
<1>4. CASE UNCHANGED <<items, lost>>
  BY <1>2, <1>4, KeptSame, QueuedSafe
<1>5. CASE CloseBus(c) /\ UNCHANGED lost
           /\ items' = [items EXCEPT ![From[c]] = Append(@, Closing)]
  BY <1>1, <1>2, <1>5, KeptAppend, QueuedSafe
<1>6. QED
  <2>1. CASE Flush(c)
    BY <1>3, <1>4, <2>1 DEF Flush
  <2>2. CASE Sync(c)
    BY <1>3, <2>2 DEF Sync
  <2>3. CASE CloseBus(c)
    BY <1>4, <1>5, <2>3 DEF CloseBus
  <2>4. QED  BY <2>1, <2>2, <2>3

LEMMA EventStreamSafe ==
  ASSUME Shape, \A t \in Sides : Finishing(t), NEW s \in Sides, EventStream(s)
  PROVE  Safely
<1> USE DEF Shape
<1>1. UNCHANGED <<transport, item, task, link, broken, shut>>
  BY DEF EventStream, Notice, Read, ReadEnds, FlushReplies, ReplyInStream, AwaitsItself
<1>2. CASE Notice(s) \/ ReadEnds(s)
  <2>1. UNCHANGED <<items, lost, wire, arrived>>
    BY <1>2 DEF Notice, ReadEnds, busVars
  <2>2. QED  BY <1>1, <2>1, KeptSame, QueuedSafe
<1>3. CASE Read(s)
  <2>1. UNCHANGED <<items, lost>>
    BY <1>3 DEF Read
  <2>2. \A t \in Sides : PassedStay(t)
    BY <1>3, ReadPassed
  <2>3. \A t \in Sides : KeptStay(t) /\ Finishing(t)' /\ (TaskGone(t) => TaskGone(t)')
    BY <1>1, <2>1, <2>2, KeptSame, FinishingStays DEF TaskGone
  <2>4. QED  BY <1>1, <2>1, <2>2, <2>3, ExcuseStays DEF Safely
<1>4. CASE FlushReplies(s) \/ AwaitsItself(s)
  <2>1. UNCHANGED <<wire, arrived>>
    BY <1>4 DEF FlushReplies, ReplyInStream, AwaitsItself
  <2>2. \E w \in {"Flush", "Synchronize", "Flushed"} : Queued(s, Plain(w))
    BY <1>4 DEF FlushReplies, ReplyInStream, AwaitsItself
  <2>3. QED  BY <1>1, <2>1, <2>2, Queueable, QueuesSafe
<1>5. QED  BY <1>2, <1>3, <1>4 DEF EventStream

LEMMA RespondSafe ==
  ASSUME Shape, \A t \in Sides : Finishing(t), NEW s \in Sides, NEW t \in working[s],
         Respond(s, t[1], t[2])
  PROVE  Safely
<1> USE DEF Shape
<1>1. UNCHANGED <<transport, item, task, link, broken, shut, wire, arrived>>
  BY DEF Respond, linkRest
<1>2. arrived[s][t[1]] \in Messages
  BY DEF BusShape
<1>3. \E x \in Travelling(s) : Queued(s, x)
  BY <1>2, Queueable DEF Respond, Reply, Completes
<1>4. QED  BY <1>1, <1>3, QueuesSafe

\* A message that is submitted is queued, or the task is gone and it fails.
LEMMA SubmitSafe ==
  ASSUME Shape, \A t \in Sides : Finishing(t), NEW c \in Calls, Submit(c)
  PROVE  /\ Safely
         /\ \/ UNCHANGED submitted
            \/ submitted' = [submitted EXCEPT ![From[c]] = Append(@, c)] /\ Kept(From[c], c)'
<1> USE DEF Shape
<1> DEFINE s == From[c]
<1>1. s \in Sides /\ c \in Messages
  BY CallTypes DEF Submit
<1>2. UNCHANGED <<transport, item, task, link, broken, shut, wire, arrived>>
  BY DEF Submit, linkRest
<1>3. CASE UNCHANGED <<items, lost, submitted>>
  BY <1>2, <1>3, KeptSame, QueuedSafe
<1>4. CASE /\ Queued(s, Sending(c))
           /\ submitted' = IF TaskGone(s) THEN submitted
                           ELSE [submitted EXCEPT ![s] = Append(@, c)]
  <2>1. Sending(c) \in Travelling(s)
    BY <1>1, Queueable
  <2>2. Label(Sending(c)) = <<"Send", c>>
    BY <2>1, Traveller, Fields
  <2>3. Safely
    BY <1>1, <1>2, <1>4, <2>1, QueuesSafe
  <2>4. CASE TaskGone(s)
    BY <1>4, <2>3, <2>4
  <2>5. CASE ~TaskGone(s)
    <3>1. items' = [items EXCEPT ![s] = Append(@, Sending(c))]
      BY <1>4, <2>5 DEF Queued
    <3>2. Kept(s, c)'
      BY <1>1, <1>2, <2>1, <2>2, <3>1, KeptAppend
    <3>3. QED  BY <1>4, <2>3, <2>5, <3>2
  <2>6. QED  BY <2>4, <2>5
<1>5. QED  BY <1>3, <1>4 DEF Submit, Sending

LEMMA ConservedStep == Shape /\ ConservedInv /\ [Next]_vars => ConservedInv'
<1> SUFFICES ASSUME Shape, ConservedInv, [Next]_vars PROVE ConservedInv'
  OBVIOUS
<1>1. \A t \in Sides : Finishing(t)
  BY DEF ConservedInv
<1>2. Safely /\ (UNCHANGED submitted
                 \/ \E c \in Messages :
                      /\ submitted' = [submitted EXCEPT ![From[c]] = Append(@, c)]
                      /\ Kept(From[c], c)')
  <2>1. ASSUME NEW c \in Calls, Submit(c)
        PROVE  Safely /\ (UNCHANGED submitted
                           \/ \E m \in Messages :
                                /\ submitted' = [submitted EXCEPT ![From[m]] = Append(@, m)]
                                /\ Kept(From[m], m)')
    BY <1>1, <2>1, SubmitSafe DEF Submit
  <2>2. ASSUME NEW c \in Calls, Flush(c) \/ Sync(c) \/ CloseBus(c)
        PROVE  Safely /\ UNCHANGED submitted
    BY <1>1, <2>2, CallSafe DEF Flush, Sync, CloseBus
  <2>3. ASSUME NEW s \in Sides, EventStream(s)
        PROVE  Safely /\ UNCHANGED submitted
    <3>1. UNCHANGED submitted
      BY <2>3 DEF EventStream, Notice, Read, ReadEnds, FlushReplies, ReplyInStream, AwaitsItself,
                  busVars
    <3>2. QED  BY <1>1, <2>3, <3>1, EventStreamSafe
  <2>4. ASSUME NEW s \in Sides, NEW t \in working[s], Respond(s, t[1], t[2])
        PROVE  Safely /\ UNCHANGED submitted
    BY <1>1, <2>4, RespondSafe DEF Respond
  <2>5. ASSUME NEW s \in Sides, TaskStep(s), UNCHANGED busVars
        PROVE  Safely /\ UNCHANGED submitted
    BY <1>1, <2>5, TaskStepSafe DEF busVars
  <2>6. CASE Trouble
    BY <1>1, <2>6, TroubleSafe DEF Trouble, busVars
  <2>7. CASE UNCHANGED vars
    BY <1>1, <2>7, KeptSame, QueuedSafe DEF vars, linkVars, busVars
  <2>8. QED  BY <2>1, <2>2, <2>3, <2>4, <2>5, <2>6, <2>7, Steps
<1>3. ASSUME NEW s \in Sides, NEW c \in Messages, Kept(s, c) \/ Passed(s, c)
      PROVE  Kept(s, c)' \/ Passed(s, c)'
  BY <1>2, <1>3 DEF Safely, KeptStay, PassedStay
<1>4. \A s \in Sides : submitted[s] \in Seq(Messages)
  BY DEF Shape, BusShape
<1>5. ASSUME NEW s \in Sides, NEW i \in DOMAIN submitted'[s]
      PROVE  (Kept(s, submitted[s][i]) \/ Passed(s, submitted[s][i]))'
  <2>1. CASE i \in DOMAIN submitted[s] /\ submitted'[s][i] = submitted[s][i]
    <3>1. PICK c \in Messages : c = submitted[s][i]
      BY <1>4, <2>1
    <3>2. Kept(s, c) \/ Passed(s, c)
      BY <2>1, <3>1 DEF ConservedInv
    <3>3. Kept(s, c)' \/ Passed(s, c)'
      BY <1>3, <3>2
    <3>4. c = submitted'[s][i]
      BY <2>1, <3>1
    <3>5. QED  BY <3>3, <3>4
  <2>2. CASE UNCHANGED submitted
    BY <2>1, <2>2
  <2>3. ASSUME NEW c \in Messages, Kept(From[c], c)',
               submitted' = [submitted EXCEPT ![From[c]] = Append(@, c)]
        PROVE  (Kept(s, submitted[s][i]) \/ Passed(s, submitted[s][i]))'
    <3>1. submitted'[s] = IF s = From[c] THEN Append(submitted[s], c) ELSE submitted[s]
      BY <2>3 DEF Shape, BusShape
    <3>2. CASE s # From[c]
      BY <2>1, <3>1, <3>2
    <3>3. CASE s = From[c]
      <4>1. \/ i \in DOMAIN submitted[s] /\ submitted'[s][i] = submitted[s][i]
            \/ submitted'[s][i] = c
        BY <1>4, <3>1, <3>3
      <4>2. QED  BY <2>1, <2>3, <3>3, <4>1
    <3>4. QED  BY <3>2, <3>3
  <2>4. QED  BY <1>2, <2>2, <2>3
<1>6. lost' # {} => Excuse'
  BY <1>2 DEF Safely, ConservedInv
<1>7. QED  BY <1>2, <1>5, <1>6 DEF ConservedInv, Safely

LEMMA ConservedInit == Init => ConservedInv
<1>1. \A i \in DOMAIN <<>> : FALSE
  OBVIOUS
<1>2. QED  BY <1>1 DEF Init, LinkInit, ConservedInv, Finishing

\* A message that a relay took is in its queue, in its task, on a connection or was
\* read by the other side, unless it was lost with a connection or a task, which had
\* to break, close or end first: write errors, retries and reconnections lose none.
THEOREM NothingIsJustGone == Spec => []Conserved
<1>1. Shape /\ ConservedInv => Conserved
  <2> SUFFICES ASSUME Shape, ConservedInv PROVE Conserved
    OBVIOUS
  <2>1. ASSUME NEW s \in Sides, NEW i \in DOMAIN submitted[s]
        PROVE  LET c == submitted[s][i]
               IN  \/ InTransit(s, c)
                   \/ \E j \in DOMAIN arrived[Other(s)] : arrived[Other(s)][j] = c
                   \/ <<"Send", c>> \in lost
                   \/ ~Known(c)
    BY DEF ConservedInv, Kept, Queues, Holds, Passed, OnWire, Arrived, InTransit
  <2>2. QED  BY <2>1 DEF Conserved, ConservedInv, Excuse
<1>2. Spec => [](Shape /\ ConservedInv)
  BY InitShape, ConservedInit, ShapeStep, ConservedStep, PTL DEF Spec
<1>3. QED  BY <1>1, <1>2, PTL

---------------------------------------------------------------------------
(* What is on the way, in order.  A sequence is looked at through the       *)
(* labels of its elements.                                                  *)

Marks(q, label) == {label[q[i]] : i \in DOMAIN q}
Sorted(q, label, F) ==
  \A i, j \in DOMAIN q : i < j => <<label[q[i]], label[q[j]]>> \notin F
Apart(F, X, Y) == \A x \in X : \A y \in Y : <<x, y>> \notin F

LEMMA Nothings ==
  ASSUME NEW label, NEW F
  PROVE  Marks(<<>>, label) = {} /\ Sorted(<<>>, label, F)
BY DEF Marks, Sorted

LEMMA MarksOne ==
  ASSUME NEW label, NEW x
  PROVE  Marks(<<x>>, label) = {label[x]}
<1>1. DOMAIN <<x>> = {1} /\ <<x>>[1] = x
  OBVIOUS
<1>2. QED  BY <1>1 DEF Marks

LEMMA OneMore ==
  ASSUME NEW T, NEW label, NEW F, NEW q \in Seq(T), NEW x \in T
  PROVE  /\ Marks(Append(q, x), label) = Marks(q, label) \cup {label[x]}
         /\ Sorted(q, label, F) /\ Apart(F, Marks(q, label), {label[x]})
              => Sorted(Append(q, x), label, F)
<1> DEFINE n == Len(q) + 1
           p == Append(q, x)
<1>1. /\ Len(q) \in Nat /\ DOMAIN q = 1..Len(q) /\ DOMAIN p = 1..n
      /\ \A i \in DOMAIN q : p[i] = q[i]
      /\ p[n] = x
  OBVIOUS
<1> HIDE DEF p
<1>2. \A i \in DOMAIN p : i \in DOMAIN q \/ i = n
  BY <1>1
<1>3. DOMAIN q \subseteq DOMAIN p /\ n \in DOMAIN p
  BY <1>1
<1>4. Marks(p, label) = Marks(q, label) \cup {label[x]}
  BY <1>1, <1>2, <1>3 DEF Marks
<1>5. ASSUME Sorted(q, label, F), Apart(F, Marks(q, label), {label[x]}),
             NEW i \in DOMAIN p, NEW j \in DOMAIN p, i < j
      PROVE  <<label[p[i]], label[p[j]]>> \notin F
  <2>1. i \in DOMAIN q
    BY <1>1, <1>5
  <2>2. CASE j \in DOMAIN q
    BY <1>1, <1>5, <2>1, <2>2 DEF Sorted
  <2>3. CASE j = n
    <3>1. label[q[i]] \in Marks(q, label)
      BY <2>1 DEF Marks
    <3>2. QED  BY <1>1, <1>5, <2>1, <2>3, <3>1 DEF Apart
  <2>4. QED  BY <1>2, <2>2, <2>3
<1>6. Sorted(q, label, F) /\ Apart(F, Marks(q, label), {label[x]}) => Sorted(p, label, F)
  BY <1>5 DEF Sorted
<1>7. QED  BY <1>4, <1>6 DEF p

LEMMA OneLess ==
  ASSUME NEW T, NEW label, NEW F, NEW q \in Seq(T), q # <<>>
  PROVE  /\ Marks(q, label) = {label[Head(q)]} \cup Marks(Tail(q), label)
         /\ Sorted(q, label, F) => /\ Sorted(Tail(q), label, F)
                                   /\ Apart(F, {label[Head(q)]}, Marks(Tail(q), label))
<1> DEFINE p == Tail(q)
<1>1. /\ Len(q) \in Nat \ {0} /\ DOMAIN q = 1..Len(q) /\ DOMAIN p = 1..(Len(q) - 1)
      /\ Head(q) = q[1]
  OBVIOUS
<1>2. \A i \in DOMAIN p : i + 1 \in DOMAIN q /\ p[i] = q[i + 1]
  OBVIOUS
<1>3. \A i \in DOMAIN q : i = 1 \/ (i - 1 \in DOMAIN p /\ p[i - 1] = q[i])
  OBVIOUS
<1> HIDE DEF p
<1>4. 1 \in DOMAIN q
  BY <1>1
<1>5. Marks(q, label) = {label[q[1]]} \cup Marks(p, label)
  <2>1. ASSUME NEW m \in Marks(q, label)
        PROVE  m = label[q[1]] \/ m \in Marks(p, label)
    <3>1. PICK i \in DOMAIN q : m = label[q[i]]
      BY DEF Marks
    <3>2. QED  BY <1>3, <3>1 DEF Marks
  <2>2. ASSUME NEW m \in Marks(p, label)
        PROVE  m \in Marks(q, label)
    <3>1. PICK i \in DOMAIN p : m = label[p[i]]
      BY DEF Marks
    <3>2. QED  BY <1>2, <3>1 DEF Marks
  <2>3. label[q[1]] \in Marks(q, label)
    BY <1>4 DEF Marks
  <2>4. QED  BY <2>1, <2>2, <2>3
<1>6. ASSUME Sorted(q, label, F)
      PROVE  Sorted(p, label, F) /\ Apart(F, {label[q[1]]}, Marks(p, label))
  <2>1. ASSUME NEW i \in DOMAIN p, NEW j \in DOMAIN p, i < j
        PROVE  <<label[p[i]], label[p[j]]>> \notin F
    <3>1. /\ i + 1 \in DOMAIN q /\ j + 1 \in DOMAIN q /\ i + 1 < j + 1
          /\ p[i] = q[i + 1] /\ p[j] = q[j + 1]
      BY <1>1, <1>2, <2>1
    <3>2. <<label[q[i + 1]], label[q[j + 1]]>> \notin F
      BY <1>6, <3>1 DEF Sorted
    <3>3. QED  BY <3>1, <3>2
  <2>2. ASSUME NEW m \in Marks(p, label)
        PROVE  <<label[q[1]], m>> \notin F
    <3>1. PICK j \in DOMAIN p : m = label[p[j]]
      BY DEF Marks
    <3>2. j + 1 \in DOMAIN q /\ 1 < j + 1 /\ p[j] = q[j + 1]
      BY <1>1, <1>2
    <3>3. <<label[q[1]], label[q[j + 1]]>> \notin F
      BY <1>4, <1>6, <3>2 DEF Sorted
    <3>4. QED  BY <3>1, <3>2, <3>3
  <2>3. QED  BY <2>1, <2>2 DEF Sorted, Apart
<1>7. QED  BY <1>1, <1>5, <1>6 DEF p

LEMMA TheFirst ==
  ASSUME NEW T, NEW label, NEW F, NEW q \in Seq(T), NEW k \in Nat, k <= Len(q)
  PROVE  /\ Marks(SubSeq(q, 1, k), label) \subseteq Marks(q, label)
         /\ Sorted(q, label, F) => Sorted(SubSeq(q, 1, k), label, F)
<1> DEFINE p == SubSeq(q, 1, k)
<1>1. DOMAIN p \subseteq DOMAIN q /\ \A i \in DOMAIN p : p[i] = q[i]
  OBVIOUS
<1> HIDE DEF p
<1>2. QED  BY <1>1 DEF p, Marks, Sorted

---------------------------------------------------------------------------
(* Connections are opened, accepted, written to and read in one order.      *)

LinkInv ==
  /\ \A s \in Sides : link[s] <= opened
  /\ ~TaskGone(Client) => link[Client] = opened
  /\ ~TaskGone(Server) => /\ Len(backlog) = opened - link[Server]
                          /\ \A i \in DOMAIN backlog : backlog[i] = link[Server] + i

\* A side has written nothing to later connections, and has shut none of them.
FreshInv(s) ==
  /\ \A n \in Connections : n > link[s] => wire[s][n] = <<>>
  /\ ~TaskGone(s) => \A n \in Connections : n > link[s] => <<s, n>> \notin shut
  /\ Connected(s) => <<s, link[s]>> \notin shut

\* An item the task holds is one it has tried to write: to the current connection, or
\* while it serves the next one, to one before.
RetryInv(s) ==
  item[s] # <<>> =>
    /\ ~TaskGone(s)
    /\ link[s] \in Connections
    /\ task[s] = "serve" => link[s] > 1

IntakeInv(s) ==
  /\ \A i, j \in DOMAIN intake[s] : i < j => intake[s][i] < intake[s][j]
  /\ \A i \in DOMAIN intake[s] : intake[s][i] <= link[s]

\* No write to n can succeed any more.
Ended(s, n) ==
  \/ n \in broken
  \/ <<Other(s), n>> \in shut
  \/ transport = "quic" /\ <<s, n>> \in shut

\* What a side has had and does not read any more it has read to the end.
InIntake(s, n) == \E i \in DOMAIN intake[s] : intake[s][i] = n
ReadInv(s) ==
  stream[s] => \A n \in Connections : n <= link[s] /\ ~InIntake(s, n) =>
                 wire[Other(s)][n] = <<>> /\ Ended(s, n)

ConnInv ==
  /\ LinkInv
  /\ \A s \in Sides : FreshInv(s) /\ RetryInv(s) /\ IntakeInv(s) /\ ReadInv(s)

LEMMA ReadStays ==
  ASSUME NEW s \in Sides, ReadInv(s), UNCHANGED transport, link'[s] = link[s],
         intake'[s] = intake[s], stream'[s] = stream[s],
         broken \subseteq broken', shut \subseteq shut',
         \A n \in Connections : wire[Other(s)][n] = <<>> /\ Ended(s, n) =>
                                  wire'[Other(s)][n] = <<>>
  PROVE  ReadInv(s)'
<1>1. \A n \in Connections : Ended(s, n) => Ended(s, n)'
  BY DEF Ended
<1>2. \A n \in Connections : InIntake(s, n)' <=> InIntake(s, n)
  BY DEF InIntake
<1>3. QED  BY <1>1, <1>2 DEF ReadInv

LEMMA LinkStays ==
  ASSUME LinkInv, UNCHANGED <<link, opened, backlog>>,
         \A s \in Sides : TaskGone(s) => TaskGone(s)'
  PROVE  LinkInv'
BY TheSides DEF LinkInv

LEMMA ConnSame ==
  ASSUME ConnInv, UNCHANGED <<transport, item, task, link, intake, stream, backlog,
                              opened, broken, shut, wire>>
  PROVE  ConnInv'
<1>1. LinkInv'
  BY LinkStays DEF ConnInv, TaskGone
<1>2. ASSUME NEW s \in Sides
      PROVE  FreshInv(s)' /\ RetryInv(s)' /\ IntakeInv(s)' /\ ReadInv(s)'
  <2>1. ReadInv(s)'
    BY ReadStays DEF ConnInv
  <2>2. FreshInv(s)' /\ RetryInv(s)' /\ IntakeInv(s)'
    BY DEF ConnInv, FreshInv, RetryInv, IntakeInv, TaskGone, Connected
  <2>3. QED  BY <2>1, <2>2
<1>3. QED  BY <1>1, <1>2 DEF ConnInv

LEMMA ConnStreamEnds ==
  ASSUME Shape, ConnInv, NEW s \in Sides, StreamEnds(s),
         UNCHANGED <<transport, item, task, link, backlog, opened, broken, shut, wire>>
  PROVE  ConnInv'
<1> USE DEF Shape
<1>1. LinkInv'
  BY LinkStays DEF ConnInv, TaskGone
<1>2. /\ ~stream'[s] /\ intake'[s] = <<>>
      /\ \A t \in Sides \ {s} : stream'[t] = stream[t] /\ intake'[t] = intake[t]
  BY DEF StreamEnds, TaskShape
<1>3. \A t \in Sides : FreshInv(t)' /\ RetryInv(t)'
  BY DEF ConnInv, FreshInv, RetryInv, TaskGone, Connected
<1>4. IntakeInv(s)' /\ ReadInv(s)'
  <2>1. DOMAIN intake'[s] = {}
    BY <1>2
  <2>2. QED  BY <1>2, <2>1 DEF IntakeInv, ReadInv
<1>5. ASSUME NEW t \in Sides \ {s}
      PROVE  IntakeInv(t)' /\ ReadInv(t)'
  <2>1. ReadInv(t)'
    BY <1>2, ReadStays DEF ConnInv
  <2>2. QED  BY <1>2, <2>1 DEF ConnInv, IntakeInv
<1>6. QED  BY <1>1, <1>3, <1>4, <1>5 DEF ConnInv

\* A step of the task of s that takes no connection, and writes to its own at most.
LEMMA ConnTask ==
  ASSUME Shape, ConnInv, NEW s \in Sides, NEW to, task' = [task EXCEPT ![s] = to],
         UNCHANGED <<transport, link, intake, stream, backlog, opened, broken>>,
         \A t \in Sides, n \in Connections :
           wire'[t][n] = wire[t][n] \/ (t = s /\ n = link[s] /\ ~Ended(Other(s), n)),
         \A t \in Sides \ {s} : item'[t] = item[t],
         shut' = shut \/ shut' = shut \cup {<<s, link[s]>>},
         to \in {"serve", "finish"} => Connected(s) /\ shut' = shut,
         TaskGone(s) => to \in {"ended", "panicked"},
         item'[s] # <<>> => /\ to \notin {"ended", "panicked"} /\ link[s] \in Connections
                            /\ to = "serve" => link[s] > 1
  PROVE  ConnInv'
<1> USE DEF Shape
<1>1. task'[s] = to /\ \A t \in Sides \ {s} : task'[t] = task[t]
  BY DEF TaskShape
<1>2. /\ LinkInv /\ LinkInv'
  BY <1>1, LinkStays DEF ConnInv, TaskGone
<1>3. RetryInv(s)'
  BY <1>1 DEF RetryInv, TaskGone
<1>4. \A t \in Sides \ {s} : RetryInv(t)'
  BY <1>1 DEF ConnInv, RetryInv, TaskGone
<1>5. link[s] \in Nat
  BY LinkAssumption DEF TaskShape
<1>6. FreshInv(s)'
  <2>1. \A n \in Connections : n > link[s] => <<s, n>> # <<s, link[s]>>
    BY <1>5 DEF Connections
  <2>2. FreshInv(s)
    BY DEF ConnInv
  <2>3. TaskGone(s) => TaskGone(s)'
    BY <1>1 DEF TaskGone
  <2>4. Connected(s)' => Connected(s) /\ shut' = shut
    BY <1>1 DEF Connected
  <2>5. \A n \in Connections : n > link[s] => wire'[s][n] = wire[s][n]
    BY <1>5 DEF Connections
  <2>6. QED  BY <2>1, <2>2, <2>3, <2>4, <2>5 DEF FreshInv
<1>7. ASSUME NEW t \in Sides \ {s}
      PROVE  FreshInv(t)'
  <2>1. \A n : <<t, n>> \in shut' <=> <<t, n>> \in shut
    <3>1. \A n : <<t, n>> # <<s, link[s]>>
      OBVIOUS
    <3>2. QED  BY <3>1
  <2>2. FreshInv(t)
    BY DEF ConnInv
  <2>3. QED  BY <1>1, <2>1, <2>2 DEF FreshInv, TaskGone, Connected
<1>8. \A t \in Sides : IntakeInv(t)' /\ ReadInv(t)'
  <2>1. ASSUME NEW t \in Sides
        PROVE  ReadInv(t)'
    <3>1. \A n \in Connections : wire[Other(t)][n] = <<>> /\ Ended(t, n) =>
                                   wire'[Other(t)][n] = <<>>
      BY TheSides
    <3>2. QED  BY <3>1, ReadStays DEF ConnInv
  <2>2. QED  BY <2>1 DEF ConnInv, IntakeInv
<1>9. QED  BY <1>2, <1>3, <1>4, <1>6, <1>7, <1>8 DEF ConnInv

LEMMA LinkEstablished ==
  ASSUME Shape, LinkInv, NEW s \in Sides, ~TaskGone(s),
         \/ s = Client /\ opened' = opened + 1 /\ backlog' = Append(backlog, opened + 1)
         \/ s = Server /\ opened' = opened /\ backlog # <<>> /\ backlog' = Tail(backlog),
         \A t \in Sides \ {s} : task'[t] = task[t] /\ link'[t] = link[t],
         \/ TaskGone(s)' /\ link'[s] = link[s]
         \/ ~TaskGone(s)' /\ link'[s] = link[s] + 1
  PROVE  LinkInv'
<1> USE DEF Shape
<1>1. /\ link[Client] \in Nat /\ link[Server] \in Nat /\ opened \in Nat
      /\ backlog \in Seq(Connections) /\ Len(backlog) \in Nat
  BY TheSides, LinkAssumption DEF TaskShape
<1>2. /\ Client \in Sides /\ Server \in Sides /\ Client # Server
      /\ \A t \in Sides : t = Client \/ t = Server
  BY LinkAssumption
<1>3. CASE s = Client /\ opened' = opened + 1 /\ backlog' = Append(backlog, opened + 1)
  <2>1. link[Client] = opened /\ link[Server] <= opened
    BY <1>2, <1>3 DEF LinkInv
  <2>2. link'[Server] = link[Server] /\ (TaskGone(Server)' <=> TaskGone(Server))
    BY <1>2, <1>3 DEF TaskGone
  <2>3. link'[Client] <= opened' /\ link'[Server] <= opened'
    BY <1>1, <1>3, <2>1, <2>2
  <2>4. ~TaskGone(Client)' => link'[Client] = opened'
    BY <1>3, <2>1
  <2>5. ASSUME ~TaskGone(Server)'
        PROVE  /\ Len(backlog') = opened' - link'[Server]
               /\ \A i \in DOMAIN backlog' : backlog'[i] = link'[Server] + i
    <3>1. Len(backlog) = opened - link[Server]
          /\ \A i \in DOMAIN backlog : backlog[i] = link[Server] + i
      BY <2>2, <2>5 DEF LinkInv
    <3>2. /\ DOMAIN backlog = 1..Len(backlog) /\ DOMAIN backlog' = 1..(Len(backlog) + 1)
          /\ Len(backlog') = Len(backlog) + 1
          /\ \A i \in DOMAIN backlog : backlog'[i] = backlog[i]
          /\ backlog'[Len(backlog) + 1] = opened + 1
      BY <1>1, <1>3
    <3>3. QED  BY <1>1, <1>3, <2>2, <3>1, <3>2
  <2>6. QED  BY <1>2, <2>3, <2>4, <2>5 DEF LinkInv
<1>4. CASE s = Server /\ opened' = opened /\ backlog # <<>> /\ backlog' = Tail(backlog)
  <2>1. /\ Len(backlog) = opened - link[Server]
        /\ \A i \in DOMAIN backlog : backlog[i] = link[Server] + i
    BY <1>4 DEF LinkInv
  <2>2. /\ DOMAIN backlog = 1..Len(backlog) /\ DOMAIN backlog' = 1..(Len(backlog) - 1)
        /\ Len(backlog') = Len(backlog) - 1 /\ Len(backlog) > 0
        /\ \A i \in DOMAIN backlog' : backlog'[i] = backlog[i + 1]
    BY <1>1, <1>4
  <2>3. link'[Client] = link[Client] /\ (TaskGone(Client)' <=> TaskGone(Client))
    BY <1>2, <1>4 DEF TaskGone
  <2>4. link[Client] <= opened /\ (~TaskGone(Client) => link[Client] = opened)
    BY <1>2 DEF LinkInv
  <2>5. link'[Server] <= opened
    BY <1>1, <1>4, <2>1, <2>2
  <2>6. ASSUME ~TaskGone(Server)'
        PROVE  /\ Len(backlog') = opened' - link'[Server]
               /\ \A i \in DOMAIN backlog' : backlog'[i] = link'[Server] + i
    <3>1. link'[Server] = link[Server] + 1
      BY <1>4, <2>6
    <3>2. \A i \in DOMAIN backlog' : i \in Int /\ i + 1 \in DOMAIN backlog
      <4>1. \A k \in Nat : \A i \in 1..(k - 1) : i \in Int /\ i + 1 \in 1..k
        OBVIOUS
      <4>2. QED  BY <1>1, <2>2, <4>1
    <3>3. Len(backlog') = opened' - link'[Server]
      BY <1>1, <1>4, <2>1, <2>2, <3>1
    <3>4. ASSUME NEW i \in DOMAIN backlog'
          PROVE  backlog'[i] = link'[Server] + i
      <4>1. backlog'[i] = link[Server] + (i + 1)
        BY <2>1, <2>2, <3>2
      <4>2. QED  BY <1>1, <3>1, <3>2, <4>1
    <3>5. QED  BY <3>3, <3>4
  <2>7. QED  BY <1>2, <1>4, <2>3, <2>4, <2>5, <2>6 DEF LinkInv
<1>5. QED  BY <1>3, <1>4

LEMMA ConnEstablished ==
  ASSUME Shape, ConnInv, NEW s \in Sides, NEW n \in Connections, Established(s, n),
         n = link[s] + 1, task[s] = "next", LinkInv', UNCHANGED broken
  PROVE  ConnInv'
<1> USE DEF Shape
<1>1. link[s] \in Nat /\ n \in Nat
  BY LinkAssumption DEF TaskShape, Connections
<1>2. FreshInv(s) /\ RetryInv(s) /\ IntakeInv(s) /\ ReadInv(s) /\ ~TaskGone(s)
  BY DEF ConnInv, TaskGone
<1>3. UNCHANGED <<transport, stream, wire>> /\ shut \subseteq shut'
  BY DEF Established
<1>4. /\ \A t \in Sides \ {s} : /\ link'[t] = link[t] /\ intake'[t] = intake[t]
                                /\ task'[t] = task[t] /\ item'[t] = item[t]
      /\ \A t \in Sides \ {s}, m \in Connections : <<t, m>> \in shut' <=> <<t, m>> \in shut
  <2>1. CASE stream[s]
    BY <2>1 DEF Established, TaskShape
  <2>2. CASE ~stream[s]
    <3>1. shut' = shut \cup {<<s, n>>} /\ UNCHANGED <<link, intake>>
      BY <2>2 DEF Established
    <3>2. \A t \in Sides \ {s} : task'[t] = task[t] /\ item'[t] = item[t]
      BY <2>2 DEF Established, Dies, TaskShape, QueueShape
    <3>3. \A t \in Sides \ {s}, m \in Connections : <<t, m>> # <<s, n>>
      OBVIOUS
    <3>4. QED  BY <3>1, <3>2, <3>3
  <2>3. QED  BY <2>1, <2>2
<1>5. ASSUME NEW t \in Sides \ {s}
      PROVE  FreshInv(t)' /\ RetryInv(t)' /\ IntakeInv(t)' /\ ReadInv(t)'
  <2>1. FreshInv(t) /\ RetryInv(t) /\ IntakeInv(t) /\ ReadInv(t)
    BY DEF ConnInv
  <2>2. ReadInv(t)'
    BY <1>3, <1>4, <2>1, ReadStays
  <2>3. Connected(t) => link[t] \in Connections
    BY DEF Connected, TaskShape
  <2>4. FreshInv(t)'
    BY <1>3, <1>4, <2>1, <2>3 DEF FreshInv, TaskGone, Connected
  <2>5. RetryInv(t)' /\ IntakeInv(t)'
    BY <1>4, <2>1 DEF RetryInv, IntakeInv, TaskGone
  <2>6. QED  BY <2>2, <2>4, <2>5
<1>6. CASE stream[s]
  <2>1. /\ task'[s] = "serve" /\ link'[s] = n /\ intake'[s] = Append(intake[s], n)
        /\ UNCHANGED <<item, shut>>
    BY <1>6 DEF Established, TaskShape
  <2>2. FreshInv(s)'
    <3>1. \A m \in Connections : m \in Nat
      BY DEF Connections
    <3>2. QED  BY <1>1, <1>2, <1>3, <2>1, <3>1 DEF FreshInv, TaskGone
  <2>3. RetryInv(s)'
    BY <1>1, <1>2, <2>1 DEF RetryInv, TaskGone, Connections
  <2>4. /\ intake[s] \in Seq(Connections) /\ Len(intake[s]) \in Nat
        /\ DOMAIN intake[s] = 1..Len(intake[s]) /\ DOMAIN intake'[s] = 1..(Len(intake[s]) + 1)
        /\ \A i \in DOMAIN intake[s] : intake'[s][i] = intake[s][i] /\ intake[s][i] \in Nat
        /\ intake'[s][Len(intake[s]) + 1] = n
    <3>1. intake[s] \in Seq(Connections) /\ Connections \subseteq Nat
      BY DEF TaskShape, Connections
    <3>2. \A q \in Seq(Nat) : /\ Len(q) \in Nat /\ DOMAIN q = 1..Len(q)
                              /\ DOMAIN Append(q, n) = 1..(Len(q) + 1)
                              /\ \A i \in DOMAIN q : Append(q, n)[i] = q[i] /\ q[i] \in Nat
                              /\ Append(q, n)[Len(q) + 1] = n
      OBVIOUS
    <3>3. intake[s] \in Seq(Nat)
      BY <3>1, SeqMonotonic
    <3>4. QED  BY <2>1, <3>1, <3>2, <3>3
  <2>5. IntakeInv(s)'
    <3>1. \A i \in DOMAIN intake'[s] : i \in DOMAIN intake[s] \/ i = Len(intake[s]) + 1
      BY <2>4
    <3>2. \A i \in DOMAIN intake[s] : intake[s][i] <= link[s]
      BY <1>2 DEF IntakeInv
    <3>3. \A i \in DOMAIN intake[s] : intake'[s][i] < n
      BY <1>1, <2>4, <3>2
    <3>4. \A i \in DOMAIN intake'[s] : intake'[s][i] <= n
      BY <1>1, <2>4, <3>1, <3>3
    <3>5. ASSUME NEW i \in DOMAIN intake'[s], NEW j \in DOMAIN intake'[s], i < j
          PROVE  intake'[s][i] < intake'[s][j]
      <4>1. i \in DOMAIN intake[s]
        BY <2>4, <3>5
      <4>2. QED  BY <1>2, <2>4, <3>1, <3>3, <3>5, <4>1 DEF IntakeInv
    <3>6. QED  BY <2>1, <3>4, <3>5 DEF IntakeInv
  <2>6. ReadInv(s)'
    <3>1. ASSUME NEW m \in Connections, m <= n, ~InIntake(s, m)'
          PROVE  wire'[Other(s)][m] = <<>> /\ Ended(s, m)'
      <4>1. Len(intake[s]) + 1 \in DOMAIN intake'[s] /\ DOMAIN intake[s] \subseteq DOMAIN intake'[s]
        BY <2>4
      <4>2. m # n /\ ~InIntake(s, m)
        BY <2>4, <3>1, <4>1 DEF InIntake
      <4>3. m <= link[s]
        BY <1>1, <3>1, <4>2 DEF Connections
      <4>4. wire[Other(s)][m] = <<>> /\ Ended(s, m)
        BY <1>2, <1>6, <4>2, <4>3 DEF ReadInv
      <4>5. QED  BY <1>3, <2>1, <4>4 DEF Ended
    <3>2. QED  BY <2>1, <3>1 DEF ReadInv
  <2>7. QED  BY <1>5, <2>2, <2>3, <2>5, <2>6 DEF ConnInv
<1>7. CASE ~stream[s]
  <2>1. /\ task'[s] = "panicked" /\ item'[s] = <<>> /\ UNCHANGED <<link, intake>>
    BY <1>7 DEF Established, Dies, TaskShape, QueueShape
  <2>2. FreshInv(s)'
    BY <1>2, <1>3, <2>1 DEF FreshInv, TaskGone, Connected
  <2>3. RetryInv(s)' /\ IntakeInv(s)' /\ ReadInv(s)'
    BY <1>2, <1>3, <1>7, <2>1 DEF RetryInv, IntakeInv, ReadInv
  <2>4. QED  BY <1>5, <2>2, <2>3 DEF ConnInv
<1>8. QED  BY <1>6, <1>7

LEMMA ConnWrite ==
  ASSUME Shape, ConnInv, NEW s \in Sides, WriteTcp(s) \/ WriteQuic(s)
  PROVE  ConnInv'
<1> USE DEF Shape
<1>1. /\ task[s] = "serve" /\ link[s] \in Connections /\ Connected(s)
      /\ UNCHANGED <<transport, link, intake, stream, backlog, opened, broken, shut>>
  BY DEF WriteTcp, WriteQuic, HasItem, TaskShape, Connected
<1>2. PICK kept : /\ Vanishes(s, kept) \/ (~Failing(s) /\ Written(s, kept))
                  /\ \/ kept = <<>> /\ task' = [task EXCEPT ![s] = "serve"]
                     \/ task' = [task EXCEPT ![s] = "finish"]
  <2>1. CASE WriteTcp(s)
    <3>1. task = [task EXCEPT ![s] = "serve"]
      BY <1>1 DEF TaskShape
    <3>2. QED  BY <2>1, <3>1 DEF WriteTcp
  <2>2. CASE WriteQuic(s)
    BY <2>2 DEF WriteQuic
  <2>3. QED  BY <2>1, <2>2
<1>3. item'[s] = kept /\ \A t \in Sides \ {s} : item'[t] = item[t]
  BY <1>2 DEF Vanishes, Written, QueueShape
<1>4. ASSUME NEW t \in Sides, NEW n \in Connections
      PROVE  wire'[t][n] = wire[t][n] \/ (t = s /\ n = link[s] /\ ~Ended(Other(s), n))
  <2>1. CASE UNCHANGED wire
    BY <2>1
  <2>2. CASE ~Failing(s) /\ Written(s, kept)
    <3>1. ~Ended(Other(s), link[s])
      <4>1. <<s, link[s]>> \notin shut
        BY <1>1 DEF ConnInv, FreshInv
      <4>2. transport \in {"tcp", "quic"}
        BY DEF TaskShape
      <4>3. Other(Other(s)) = s
        BY TheSides
      <4>4. QED  BY <2>2, <4>1, <4>2, <4>3 DEF Failing, Ended
    <3>2. wire' = [wire EXCEPT ![s][link[s]] = Append(@, Serialize(Upcoming(s)))]
      BY <2>2 DEF Written
    <3>3. (t = s /\ n = link[s]) \/ wire'[t][n] = wire[t][n]
      BY <1>1, <3>2 DEF WireShape
    <3>4. QED  BY <3>1, <3>3
  <2>3. QED  BY <1>2, <2>1, <2>2 DEF Vanishes
<1>5. ~TaskGone(s)
  BY <1>1 DEF TaskGone
<1>6. QED
  <2>1. CASE kept = <<>> /\ task' = [task EXCEPT ![s] = "serve"]
    BY <1>1, <1>3, <1>4, <1>5, <2>1, ConnTask
  <2>2. CASE task' = [task EXCEPT ![s] = "finish"]
    BY <1>1, <1>3, <1>4, <1>5, <2>2, ConnTask
  <2>3. QED  BY <1>2, <2>1, <2>2

LEMMA ConnLeaves ==
  ASSUME Shape, ConnInv, NEW s \in Sides, NEW kept, NEW rest, Leaves(s, kept, rest), Connected(s)
  PROVE  ConnInv'
<1> USE DEF Shape
<1>1. link[s] \in Connections /\ ~TaskGone(s)
  BY DEF Connected, TaskShape, TaskGone
<1>2. /\ UNCHANGED <<transport, link, intake, stream, backlog, opened, broken, wire>>
      /\ shut' = shut \cup {<<s, link[s]>>}
  BY DEF Leaves
<1>3. CASE stream[s]
  <2>1. task' = [task EXCEPT ![s] = "next"] /\ \A t \in Sides \ {s} : item'[t] = item[t]
    BY <1>3 DEF Leaves, QueueShape
  <2>2. QED  BY <1>1, <1>2, <2>1, ConnTask
<1>4. CASE ~stream[s]
  <2>1. /\ task' = [task EXCEPT ![s] = "panicked"] /\ item'[s] = <<>>
        /\ \A t \in Sides \ {s} : item'[t] = item[t]
    BY <1>4 DEF Leaves, Dies, QueueShape
  <2>2. QED  BY <1>1, <1>2, <2>1, ConnTask
<1>5. QED  BY <1>3, <1>4

LEMMA ConnOpenFails ==
  ASSUME Shape, ConnInv, NEW s \in Sides, OpenFails(s)
  PROVE  ConnInv'
<1> USE DEF Shape
<1>1. Connected(s) /\ ~TaskGone(s) /\ \A t \in Sides \ {s} : item'[t] = item[t]
  <2>1. task[s] = "serve"
    BY DEF OpenFails, HasItem
  <2>2. \A t \in Sides \ {s} : item'[t] = item[t]
    <3>1. \E q : item' = [item EXCEPT ![s] = q]
      BY DEF OpenFails, Dies
    <3>2. QED  BY <3>1 DEF QueueShape
  <2>3. QED  BY <2>1, <2>2 DEF Connected, TaskGone
<1>2. /\ UNCHANGED <<transport, link, intake, stream, backlog, opened, broken, wire>>
      /\ shut' = shut \cup {<<s, link[s]>>}
  BY DEF OpenFails
<1>3. item'[s] = <<>> /\ \E to \in {"next", "panicked"} : task' = [task EXCEPT ![s] = to]
  BY DEF OpenFails, Dies, QueueShape
<1>4. PICK to \in {"next", "panicked"} : task' = [task EXCEPT ![s] = to]
  BY <1>3
<1>5. QED  BY <1>1, <1>2, <1>3, <1>4, ConnTask

LEMMA ConnTaskStep ==
  ASSUME Shape, ConnInv, NEW s \in Sides, TaskStep(s)
  PROVE  ConnInv'
<1> USE DEF Shape
<1>1. ASSUME s = Client, Connect
      PROVE  ConnInv'
  <2>1. /\ task[s] = "next" /\ Established(s, opened + 1)
        /\ opened' = opened + 1 /\ backlog' = Append(backlog, opened + 1)
        /\ opened < MaxConnections
    BY <1>1 DEF Connect
  <2>2. opened \in Nat /\ link[s] = opened
    BY <1>1, <2>1, LinkAssumption DEF ConnInv, LinkInv, TaskGone, TaskShape
  <2>3. opened + 1 \in Connections
    BY <2>1, <2>2, LinkAssumption DEF Connections
  <2>4. LinkInv'
    <3>1. \/ TaskGone(s)' /\ link'[s] = link[s]
          \/ ~TaskGone(s)' /\ link'[s] = link[s] + 1
      <4>1. CASE stream[s]
        BY <2>1, <2>2, <4>1 DEF Established, TaskShape, TaskGone
      <4>2. CASE ~stream[s]
        BY <2>1, <4>2 DEF Established, Dies, TaskShape, TaskGone
      <4>3. QED  BY <4>1, <4>2
    <3>2. \A t \in Sides \ {s} : task'[t] = task[t] /\ link'[t] = link[t]
      BY <2>1 DEF Established, Dies, TaskShape
    <3>3. QED  BY <1>1, <2>1, <3>1, <3>2, LinkEstablished DEF ConnInv, TaskGone
  <2>5. QED  BY <2>1, <2>2, <2>3, <2>4, ConnEstablished DEF Established
<1>2. ASSUME s = Server, Accept
      PROVE  ConnInv'
  <2>1. /\ task[s] = "next" /\ Established(s, Head(backlog)) /\ backlog # <<>>
        /\ opened' = opened /\ backlog' = Tail(backlog)
    BY <1>2 DEF Accept
  <2>2. Head(backlog) \in Connections /\ Head(backlog) = link[s] + 1
    <3>1. backlog \in Seq(Connections)
      BY DEF TaskShape
    <3>2. /\ 1 \in DOMAIN backlog /\ Head(backlog) = backlog[1] /\ Head(backlog) \in Connections
      BY <2>1, <3>1
    <3>3. \A i \in DOMAIN backlog : backlog[i] = link[Server] + i
      BY <1>2, <2>1 DEF ConnInv, LinkInv, TaskGone
    <3>4. QED  BY <1>2, <3>2, <3>3
  <2>3. LinkInv'
    <3>1. \/ TaskGone(s)' /\ link'[s] = link[s]
          \/ ~TaskGone(s)' /\ link'[s] = link[s] + 1
      <4>1. CASE stream[s]
        BY <2>1, <2>2, <4>1 DEF Established, TaskShape, TaskGone
      <4>2. CASE ~stream[s]
        BY <2>1, <4>2 DEF Established, Dies, TaskShape, TaskGone
      <4>3. QED  BY <4>1, <4>2
    <3>2. \A t \in Sides \ {s} : task'[t] = task[t] /\ link'[t] = link[t]
      BY <2>1 DEF Established, Dies, TaskShape
    <3>3. QED  BY <1>2, <2>1, <3>1, <3>2, LinkEstablished DEF ConnInv, TaskGone
  <2>4. QED  BY <2>1, <2>2, <2>3, ConnEstablished DEF Established
<1>3. CASE Close(s) \/ WriteFails(s) \/ FinishFails(s)
  BY <1>3, ConnLeaves DEF Close, WriteFails, FinishFails, HasItem, Connected
<1>4. CASE Finish(s)
  <2>1. /\ task[s] = "finish" /\ task' = [task EXCEPT ![s] = "serve"] /\ item'[s] = <<>>
        /\ \A t \in Sides \ {s} : item'[t] = item[t]
        /\ UNCHANGED <<transport, link, intake, stream, backlog, opened, broken, wire, shut>>
    BY <1>4 DEF Finish, QueueShape
  <2>2. Connected(s) /\ ~TaskGone(s)
    BY <2>1 DEF Connected, TaskGone
  <2>3. QED  BY <2>1, <2>2, ConnTask
<1>5. QED  BY <1>1, <1>2, <1>3, <1>4, ConnWrite, ConnOpenFails DEF TaskStep

LEMMA ConnTrouble ==
  ASSUME Shape, ConnInv, Trouble
  PROVE  ConnInv'
<1> USE DEF Shape
<1>1. ASSUME NEW s \in Sides, EndOfConnections(s)
      PROVE  ConnInv'
  <2>1. /\ task[s] = "next" /\ task' = [task EXCEPT ![s] = "ended"] /\ item'[s] = <<>>
        /\ \A t \in Sides \ {s} : item'[t] = item[t]
        /\ UNCHANGED <<transport, link, intake, stream, backlog, opened, broken, wire, shut>>
    BY <1>1 DEF EndOfConnections, Dies, QueueShape
  <2>2. QED  BY <2>1, ConnTask
<1>2. ASSUME NEW n \in Connections, Break(n)
      PROVE  ConnInv'
  <2>1. /\ UNCHANGED <<transport, item, task, link, intake, stream, backlog, opened, shut>>
        /\ broken' = broken \cup {n}
    BY <1>2 DEF Break
  <2>2. \A s \in Sides, m \in Connections : wire[s][m] = <<>> => wire'[s][m] = <<>>
    <3>1. PICK left \in [Sides -> 0..Len(wire[Client][n]) + Len(wire[Server][n])] :
            /\ \A s \in Sides : left[s] <= Len(wire[s][n])
            /\ wire' = [s \in Sides |-> [wire[s] EXCEPT ![n] = SubSeq(@, 1, left[s])]]
      BY <1>2 DEF Break
    <3>2. \A s \in Sides, m \in Connections :
            wire'[s][m] = IF m = n THEN SubSeq(wire[s][n], 1, left[s]) ELSE wire[s][m]
      BY <3>1 DEF WireShape
    <3>3. ASSUME NEW s \in Sides, wire[s][n] = <<>>
          PROVE  SubSeq(wire[s][n], 1, left[s]) = <<>>
      <4>1. left[s] <= 0
        BY <3>1, <3>3
      <4>2. left[s] \in Int
        <5>1. Len(wire[Client][n]) \in Nat /\ Len(wire[Server][n]) \in Nat
          BY TheSides DEF WireShape
        <5>2. \A i, j \in Nat : \A k \in 0..i + j : k \in Int
          OBVIOUS
        <5>3. left[s] \in 0..Len(wire[Client][n]) + Len(wire[Server][n])
          OBVIOUS
        <5>4. QED  BY <5>1, <5>2, <5>3
      <4>3. \A k \in Int : k <= 0 => SubSeq(<<>>, 1, k) = <<>>
        OBVIOUS
      <4>4. QED  BY <3>3, <4>1, <4>2, <4>3
    <3>4. QED  BY <3>2, <3>3
  <2>3. LinkInv'
    BY <2>1, LinkStays DEF ConnInv, TaskGone
  <2>4. ASSUME NEW s \in Sides
        PROVE  FreshInv(s)' /\ RetryInv(s)' /\ IntakeInv(s)' /\ ReadInv(s)'
    <3>1. \A m \in Connections : wire[Other(s)][m] = <<>> /\ Ended(s, m) =>
                                   wire'[Other(s)][m] = <<>>
      BY <2>2, TheSides
    <3>2. ReadInv(s)'
      BY <2>1, <3>1, ReadStays DEF ConnInv
    <3>3. FreshInv(s)' /\ RetryInv(s)' /\ IntakeInv(s)'
      BY <2>1, <2>2 DEF ConnInv, FreshInv, RetryInv, IntakeInv, TaskGone, Connected
    <3>4. QED  BY <3>2, <3>3
  <2>5. QED  BY <2>3, <2>4 DEF ConnInv
<1>3. QED  BY <1>1, <1>2 DEF Trouble

LEMMA ConnRead ==
  ASSUME Shape, ConnInv, NEW s \in Sides, Read(s)
  PROVE  ConnInv'
<1> USE DEF Shape
<1> DEFINE h == Head(intake[s])
<1>1. /\ UNCHANGED <<transport, item, task, link, intake, stream, backlog, opened, broken, shut>>
      /\ wire' = [wire EXCEPT ![Other(s)][h] = Tail(Packets(s))]
      /\ Packets(s) = wire[Other(s)][h] /\ Packets(s) # <<>>
      /\ h \in Connections
  BY TheRead DEF Read, Packets
<1>2. \A t \in Sides, n \in Connections : wire[t][n] = <<>> => wire'[t][n] = <<>>
  <2>1. PICK o \in Sides : o = Other(s)
    BY TheSides
  <2>2. PICK k \in Connections : k = h
    BY <1>1
  <2>3. wire' = [wire EXCEPT ![o][k] = Tail(Packets(s))] /\ wire[o][k] # <<>>
    BY <1>1, <2>1, <2>2
  <2>4. \A t \in Sides, n \in Connections : wire'[t][n] = wire[t][n] \/ (t = o /\ n = k)
    BY <2>3 DEF WireShape
  <2>5. QED  BY <2>3, <2>4
<1>3. LinkInv'
  BY <1>1, LinkStays DEF ConnInv, TaskGone
<1>4. ASSUME NEW t \in Sides
      PROVE  FreshInv(t)' /\ RetryInv(t)' /\ IntakeInv(t)' /\ ReadInv(t)'
  <2>1. \A n \in Connections : wire[Other(t)][n] = <<>> /\ Ended(t, n) =>
                                 wire'[Other(t)][n] = <<>>
    BY <1>2, TheSides
  <2>2. ReadInv(t)'
    BY <1>1, <2>1, ReadStays DEF ConnInv
  <2>3. FreshInv(t)' /\ RetryInv(t)' /\ IntakeInv(t)'
    BY <1>1, <1>2 DEF ConnInv, FreshInv, RetryInv, IntakeInv, TaskGone, Connected
  <2>4. QED  BY <2>2, <2>3
<1>5. QED  BY <1>3, <1>4 DEF ConnInv

LEMMA ConnReadEnds ==
  ASSUME Shape, ConnInv, NEW s \in Sides, ReadEnds(s)
  PROVE  ConnInv'
<1> USE DEF Shape
<1>1. /\ UNCHANGED <<transport, item, task, link, stream, backlog, opened, broken, shut, wire>>
      /\ intake' = [intake EXCEPT ![s] = Tail(@)]
      /\ wire[Other(s)][Head(intake[s])] = <<>> /\ Ended(s, Head(intake[s]))
      /\ intake[s] # <<>>
  BY DEF ReadEnds, Packets, Readable, Ended
<1>2. LinkInv'
  BY <1>1, LinkStays DEF ConnInv, TaskGone
<1>3. \A t \in Sides : FreshInv(t)' /\ RetryInv(t)'
  BY <1>1 DEF ConnInv, FreshInv, RetryInv, TaskGone, Connected
<1>4. intake'[s] = Tail(intake[s]) /\ \A t \in Sides \ {s} : intake'[t] = intake[t]
  BY <1>1 DEF TaskShape
<1>5. ASSUME NEW t \in Sides \ {s}
      PROVE  IntakeInv(t)' /\ ReadInv(t)'
  <2>1. ReadInv(t)'
    BY <1>1, <1>4, ReadStays DEF ConnInv
  <2>2. QED  BY <1>1, <1>4, <2>1 DEF ConnInv, IntakeInv
<1>6. IntakeInv(s)' /\ ReadInv(s)'
  <2> DEFINE q == intake[s]
  <2>1. q \in Seq(Connections)
    BY DEF TaskShape
  <2>2. IntakeInv(s) /\ ReadInv(s)
    BY DEF ConnInv
  <2>3. /\ \A i \in DOMAIN Tail(q) : i \in Int /\ i + 1 \in DOMAIN q /\ Tail(q)[i] = q[i + 1]
        /\ \A i \in DOMAIN q : i # 1 => i - 1 \in DOMAIN Tail(q) /\ Tail(q)[i - 1] = q[i]
        /\ Head(q) = q[1]
    BY <1>1, <2>1
  <2>4. IntakeInv(s)'
    <3>1. ASSUME NEW i \in DOMAIN Tail(q), NEW j \in DOMAIN Tail(q), i < j
          PROVE  Tail(q)[i] < Tail(q)[j]
      <4>1. i + 1 < j + 1
        BY <2>3, <3>1
      <4>2. QED  BY <2>2, <2>3, <4>1 DEF IntakeInv
    <3>2. \A i \in DOMAIN Tail(q) : Tail(q)[i] <= link[s]
      BY <2>2, <2>3 DEF IntakeInv
    <3>3. QED  BY <1>1, <1>4, <3>1, <3>2 DEF IntakeInv
  <2>5. ReadInv(s)'
    <3>1. \A n \in Connections : InIntake(s, n) => n = Head(q) \/ InIntake(s, n)'
      BY <1>4, <2>3 DEF InIntake
    <3>2. \A n \in Connections : Ended(s, n) => Ended(s, n)'
      BY <1>1 DEF Ended
    <3>3. QED  BY <1>1, <2>2, <3>1, <3>2 DEF ReadInv
  <2>6. QED  BY <2>4, <2>5
<1>7. QED  BY <1>2, <1>3, <1>5, <1>6 DEF ConnInv

LEMMA ConnStep == Shape /\ ConnInv /\ [Next]_vars => ConnInv'
<1> SUFFICES ASSUME Shape, ConnInv, [Next]_vars PROVE ConnInv'
  OBVIOUS
<1>1. ASSUME NEW c \in Calls, Submit(c) \/ Flush(c) \/ Sync(c) \/ CloseBus(c)
      PROVE  ConnInv'
  BY <1>1, ConnSame DEF Submit, Flush, Sync, CloseBus, linkRest
<1>2. ASSUME NEW s \in Sides, EventStream(s)
      PROVE  ConnInv'
  <2>1. ASSUME UNCHANGED <<transport, item, task, link, backlog, opened, broken, shut, wire>>,
               StreamEnds(s) \/ UNCHANGED <<stream, intake>>
        PROVE  ConnInv'
    BY <2>1, ConnSame, ConnStreamEnds
  <2>2. CASE Notice(s)
    BY <2>1, <2>2 DEF Notice
  <2>3. CASE FlushReplies(s)
    BY <2>1, <2>3 DEF FlushReplies, ReplyInStream
  <2>4. CASE AwaitsItself(s)
    BY <2>1, <2>4 DEF AwaitsItself
  <2>5. QED  BY <1>2, <2>2, <2>3, <2>4, ConnRead, ConnReadEnds DEF EventStream
<1>3. ASSUME NEW s \in Sides, NEW t \in working[s], Respond(s, t[1], t[2])
      PROVE  ConnInv'
  BY <1>3, ConnSame DEF Respond, linkRest
<1>4. CASE UNCHANGED vars
  BY <1>4, ConnSame DEF vars, linkVars
<1>5. QED  BY <1>1, <1>2, <1>3, <1>4, Steps, ConnTaskStep, ConnTrouble

LEMMA ConnInit == Init => ConnInv
<1> SUFFICES ASSUME Init PROVE ConnInv
  OBVIOUS
<1>1. Len(<<>>) = 0 /\ DOMAIN <<>> = {}
  OBVIOUS
<1>2. LinkInv
  BY <1>1, TheSides DEF Init, LinkInit, LinkInv
<1>3. \A s \in Sides : FreshInv(s) /\ RetryInv(s) /\ IntakeInv(s)
  BY <1>1 DEF Init, LinkInit, FreshInv, RetryInv, IntakeInv, Connected
<1>4. \A s \in Sides : ReadInv(s)
  <2>1. \A n \in Connections : n > 0
    BY DEF Connections
  <2>2. QED  BY <2>1 DEF Init, LinkInit, ReadInv, Connections
<1>5. QED  BY <1>2, <1>3, <1>4 DEF ConnInv

---------------------------------------------------------------------------
(* The way of what a side sends: from the queue of its relay to its task, over the     *)
(* connections, to what the other side has read.                                       *)

Named(s) == [x \in Travelling(s) \cup {Closing} |-> Label(x)]
Titled(s) == [p \in Travels(s) |-> <<p.kind, p.argument>>]
Called == [c \in Messages |-> <<"Send", c>>]

Came(s) == Marks(arrived[Other(s)], Called)
OnLink(s, n) == Marks(wire[s][n], Titled(s))
InTask(s) == Marks(item[s], Named(s))
InQueue(s) == Marks(items[s], Named(s))
Gone(s) == Came(s) \cup UNION {OnLink(s, n) : n \in Connections}
OnPath(s) == Gone(s) \cup InTask(s) \cup InQueue(s)

\* Only QUIC may write an item to two connections.
Doubles == transport = "quic" /\ opened > 1

\* No two labels on the way stand to each other as F forbids: the first ahead, the second
\* behind it.  The item a QUIC task holds may be its own forerunner.
Lined(s, F) ==
  /\ Sorted(arrived[Other(s)], Called, F)
  /\ \A n \in Connections : Sorted(wire[s][n], Titled(s), F)
  /\ Sorted(items[s], Named(s), F)
  /\ \A n \in Connections : Apart(F, Came(s), OnLink(s, n))
  /\ \A m, n \in Connections : m < n => Apart(F, OnLink(s, m), OnLink(s, n))
  /\ \A x \in Gone(s) : \A y \in InTask(s) :
       <<x, y>> \notin F \/ (x = y /\ transport = "quic")
  /\ Apart(F, Gone(s) \cup InTask(s), InQueue(s))

LEMMA LabelsOf ==
  ASSUME NEW s \in Sides
  PROVE  /\ \A x \in Travelling(s) \cup {Closing} : Named(s)[x] = Label(x)
         /\ \A x \in Travelling(s) : /\ Serialize(x) \in Travels(s)
                                     /\ Titled(s)[Serialize(x)] = Label(x)
         /\ \A c \in Messages : Called[c] = <<"Send", c>>
<1>1. ASSUME NEW x \in Travelling(s)
      PROVE  Serialize(x) \in Travels(s) /\ Titled(s)[Serialize(x)] = Label(x)
  <2>1. Serialize(x) \in Travels(s)
    BY DEF Travels
  <2>2. Titled(s)[Serialize(x)] = <<Serialize(x).kind, Serialize(x).argument>>
    BY <2>1 DEF Titled
  <2>3. QED  BY <2>1, <2>2, Traveller
<1>2. QED  BY <1>1 DEF Named, Called

LEMMA LinedSame ==
  ASSUME NEW s \in Sides, NEW F, Lined(s, F), UNCHANGED transport,
         items'[s] = items[s], item'[s] = item[s], wire'[s] = wire[s],
         arrived'[Other(s)] = arrived[Other(s)]
  PROVE  Lined(s, F)' /\ OnPath(s)' = OnPath(s)
<1>1. /\ Came(s)' = Came(s) /\ InTask(s)' = InTask(s) /\ InQueue(s)' = InQueue(s)
      /\ \A n : OnLink(s, n)' = OnLink(s, n)
  BY DEF Came, InTask, InQueue, OnLink
<1>2. Gone(s)' = Gone(s)
  BY <1>1 DEF Gone
<1>3. OnPath(s)' = OnPath(s)
  BY <1>1, <1>2 DEF OnPath
<1>4. Lined(s, F)'
  BY <1>1, <1>2 DEF Lined
<1>5. QED  BY <1>3, <1>4

LEMMA LinedAppend ==
  ASSUME QueueShape, NEW s \in Sides, NEW F, Lined(s, F), UNCHANGED transport,
         NEW x \in Travelling(s) \cup {Closing}, items'[s] = Append(items[s], x),
         item'[s] = item[s], wire'[s] = wire[s], arrived'[Other(s)] = arrived[Other(s)],
         \A y \in OnPath(s) : <<y, Label(x)>> \notin F
  PROVE  Lined(s, F)' /\ OnPath(s)' = OnPath(s) \cup {Label(x)}
<1>1. /\ Came(s)' = Came(s) /\ InTask(s)' = InTask(s)
      /\ \A n : OnLink(s, n)' = OnLink(s, n)
  BY DEF Came, InTask, OnLink
<1>2. Gone(s)' = Gone(s)
  BY <1>1 DEF Gone
<1>3. Named(s)[x] = Label(x)
  BY LabelsOf
<1>4. items[s] \in Seq(Travelling(s) \cup {Closing})
  BY DEF QueueShape
<1>5. Apart(F, InQueue(s), {Label(x)})
  BY DEF Apart, OnPath
<1>6. /\ InQueue(s)' = InQueue(s) \cup {Label(x)}
      /\ Sorted(items'[s], Named(s), F)
  <2>1. Sorted(items[s], Named(s), F)
    BY DEF Lined
  <2>2. QED  BY <1>3, <1>4, <1>5, <2>1, OneMore DEF InQueue
<1>7. OnPath(s)' = OnPath(s) \cup {Label(x)}
  BY <1>1, <1>2, <1>6 DEF OnPath
<1>8. Apart(F, Gone(s) \cup InTask(s), InQueue(s)')
  <2>1. Apart(F, Gone(s) \cup InTask(s), InQueue(s))
    BY DEF Lined
  <2>2. QED  BY <1>6, <2>1 DEF Apart, OnPath
<1>9. Lined(s, F)'
  BY <1>1, <1>2, <1>6, <1>8 DEF Lined
<1>10. QED  BY <1>7, <1>9

\* What stands next, and what stands behind it.
LEMMA LinedNext ==
  ASSUME QueueShape, NEW s \in Sides, NEW F, Lined(s, F), HasItem(s)
  PROVE  LET u == Named(s)[Upcoming(s)]
             r == Marks(Rest(s), Named(s))
         IN  /\ InTask(s) \cup InQueue(s) = {u} \cup r
             /\ Sorted(Rest(s), Named(s), F)
             /\ Apart(F, Gone(s) \cup {u}, r)
             /\ \A x \in Gone(s) :
                  <<x, u>> \notin F \/ (x = u /\ transport = "quic" /\ item[s] # <<>>)
<1> DEFINE u == Named(s)[Upcoming(s)]
           r == Marks(Rest(s), Named(s))
<1>1. items[s] \in Seq(Travelling(s) \cup {Closing}) /\ Sorted(items[s], Named(s), F)
  BY DEF QueueShape, Lined
<1>2. /\ Apart(F, Gone(s) \cup InTask(s), InQueue(s))
      /\ \A x \in Gone(s) : \A y \in InTask(s) :
           <<x, y>> \notin F \/ (x = y /\ transport = "quic")
  BY DEF Lined
<1>3. CASE item[s] # <<>>
  <2>1. item[s] = <<Upcoming(s)>> /\ Rest(s) = items[s]
    BY <1>3, NextItem
  <2>2. InTask(s) = {u} /\ r = InQueue(s)
    BY <2>1, MarksOne DEF InTask, InQueue
  <2>3. QED  BY <1>1, <1>2, <1>3, <2>1, <2>2
<1>4. CASE item[s] = <<>>
  <2>1. items[s] # <<>> /\ Upcoming(s) = Head(items[s]) /\ Rest(s) = Tail(items[s])
    BY <1>4, NextItem
  <2>2. InTask(s) = {}
    BY <1>4, Nothings DEF InTask
  <2>3. /\ InQueue(s) = {u} \cup r /\ Sorted(Rest(s), Named(s), F) /\ Apart(F, {u}, r)
    <3>1. /\ Marks(items[s], Named(s))
               = {Named(s)[Head(items[s])]} \cup Marks(Tail(items[s]), Named(s))
          /\ Sorted(Tail(items[s]), Named(s), F)
          /\ Apart(F, {Named(s)[Head(items[s])]}, Marks(Tail(items[s]), Named(s)))
      BY <1>1, <2>1, OneLess
    <3>2. QED  BY <2>1, <3>1 DEF InQueue
  <2> HIDE DEF u, r
  <2>4. QED  BY <1>2, <1>4, <2>2, <2>3 DEF Apart, u, r
<1>5. QED  BY <1>3, <1>4

\* The task goes on with the rest, and keeps the item it had or not.
LEMMA LinedRest ==
  ASSUME QueueShape, NEW s \in Sides, NEW F, Lined(s, F), HasItem(s),
         UNCHANGED <<transport, wire, arrived>>,
         items'[s] = Rest(s), item'[s] \in {<<>>, <<Upcoming(s)>>}
  PROVE  Lined(s, F)' /\ OnPath(s)' \subseteq OnPath(s)
<1> DEFINE u == Named(s)[Upcoming(s)]
           r == Marks(Rest(s), Named(s))
<1>1. /\ InTask(s) \cup InQueue(s) = {u} \cup r
      /\ Sorted(Rest(s), Named(s), F)
      /\ Apart(F, Gone(s) \cup {u}, r)
      /\ \A x \in Gone(s) :
           <<x, u>> \notin F \/ (x = u /\ transport = "quic" /\ item[s] # <<>>)
  BY LinedNext
<1>2. /\ Came(s)' = Came(s) /\ \A n : OnLink(s, n)' = OnLink(s, n)
      /\ Gone(s)' = Gone(s) /\ InQueue(s)' = r
  BY DEF Came, OnLink, Gone, InQueue
<1>3. InTask(s)' \subseteq {u}
  BY MarksOne, Nothings DEF InTask
<1> HIDE DEF u, r
<1>4. Apart(F, Gone(s)' \cup InTask(s)', InQueue(s)')
  BY <1>1, <1>2, <1>3 DEF Apart
<1>5. \A x \in Gone(s)' : \A y \in InTask(s)' :
        <<x, y>> \notin F \/ (x = y /\ transport' = "quic")
  BY <1>1, <1>2, <1>3
<1>6. Lined(s, F)'
  BY <1>1, <1>2, <1>4, <1>5 DEF Lined
<1>7. QED  BY <1>1, <1>2, <1>3, <1>6 DEF OnPath

\* The task drops what it holds, and perhaps the queue with it.
LEMMA LinedDrops ==
  ASSUME NEW s \in Sides, NEW F, Lined(s, F), UNCHANGED <<transport, wire, arrived>>,
         item'[s] = <<>>, items'[s] \in {<<>>, items[s]}
  PROVE  Lined(s, F)' /\ OnPath(s)' \subseteq OnPath(s)
<1>1. /\ Came(s)' = Came(s) /\ \A n : OnLink(s, n)' = OnLink(s, n)
      /\ Gone(s)' = Gone(s)
  BY DEF Came, OnLink, Gone
<1>2. InTask(s)' = {} /\ InQueue(s)' \subseteq InQueue(s) /\ Sorted(items'[s], Named(s), F)
  BY Nothings DEF InTask, InQueue, Lined
<1>3. Apart(F, Gone(s)' \cup InTask(s)', InQueue(s)')
  BY <1>1, <1>2 DEF Lined, Apart
<1>4. Lined(s, F)'
  BY <1>1, <1>2, <1>3 DEF Lined
<1>5. QED  BY <1>1, <1>2, <1>4 DEF OnPath

\* The task writes to its connection, behind all it has written before.
LEMMA LinedWrites ==
  ASSUME Shape, ConnInv, NEW s \in Sides, NEW F, Lined(s, F), HasItem(s), Upcoming(s) # Closing,
         Doubles => \A x : <<x, x>> \notin F,
         UNCHANGED <<transport, arrived>>, items'[s] = Rest(s),
         \/ item'[s] = <<>>
         \/ item'[s] = <<Upcoming(s)>> /\ transport = "quic",
         wire' = [wire EXCEPT ![s][link[s]] = Append(@, Serialize(Upcoming(s)))]
  PROVE  Lined(s, F)' /\ OnPath(s)' \subseteq OnPath(s)
<1> DEFINE u == Named(s)[Upcoming(s)]
           r == Marks(Rest(s), Named(s))
<1>1. /\ InTask(s) \cup InQueue(s) = {u} \cup r
      /\ Sorted(Rest(s), Named(s), F)
      /\ Apart(F, Gone(s) \cup {u}, r)
      /\ \A x \in Gone(s) :
           <<x, u>> \notin F \/ (x = u /\ transport = "quic" /\ item[s] # <<>>)
  BY LinedNext DEF Shape
<1>2. link[s] \in Connections /\ task[s] = "serve"
  BY DEF Shape, TaskShape, HasItem
<1>3. \A x \in Gone(s) : <<x, u>> \notin F
  <2>1. transport = "quic" /\ item[s] # <<>> => Doubles
    <3>1. item[s] # <<>> => link[s] > 1 /\ link[s] <= opened
      BY <1>2 DEF ConnInv, RetryInv, LinkInv
    <3>2. link[s] \in Int /\ opened \in Int
      BY <1>2, LinkAssumption DEF Shape, TaskShape, Connections
    <3>3. QED  BY <3>1, <3>2 DEF Doubles
  <2>2. QED  BY <1>1, <2>1
<1>4. PICK k \in Connections : k = link[s]
  BY <1>2
<1>5. Upcoming(s) \in Travelling(s)
  BY NextItem DEF Shape
<1>6. Serialize(Upcoming(s)) \in Travels(s) /\ Titled(s)[Serialize(Upcoming(s))] = u
  BY <1>5, LabelsOf
<1>7. /\ wire'[s][k] = Append(wire[s][k], Serialize(Upcoming(s)))
      /\ \A n \in Connections \ {k} : wire'[s][n] = wire[s][n]
      /\ wire[s][k] \in Seq(Travels(s))
  BY <1>4 DEF Shape, WireShape
<1>8. Came(s)' = Came(s) /\ InQueue(s)' = r /\ InTask(s)' \subseteq {u}
      /\ (InTask(s)' # {} => transport = "quic")
  BY MarksOne, Nothings DEF Came, InQueue, InTask
<1> HIDE DEF u, r
<1>9. /\ OnLink(s, k)' = OnLink(s, k) \cup {u}
      /\ Sorted(wire'[s][k], Titled(s), F)
  <2>1. Apart(F, OnLink(s, k), {u})
    BY <1>3 DEF Apart, Gone
  <2>2. Sorted(wire[s][k], Titled(s), F)
    BY DEF Lined
  <2>3. QED  BY <1>6, <1>7, <2>1, <2>2, OneMore DEF OnLink
<1>10. \A n \in Connections \ {k} : OnLink(s, n)' = OnLink(s, n)
  BY <1>7 DEF OnLink
<1>11. Gone(s)' = Gone(s) \cup {u}
  BY <1>8, <1>9, <1>10 DEF Gone
<1>12. \A n \in Connections : Apart(F, Came(s)', OnLink(s, n)')
  BY <1>3, <1>8, <1>9, <1>10 DEF Lined, Apart, Gone
<1>13. ASSUME NEW m \in Connections, NEW n \in Connections, m < n
       PROVE  Apart(F, OnLink(s, m)', OnLink(s, n)')
  <2>1. Apart(F, OnLink(s, m), OnLink(s, n))
    BY <1>13 DEF Lined
  <2>2. CASE m # k
    BY <1>3, <1>9, <1>10, <2>1, <2>2 DEF Apart, Gone
  <2>3. CASE m = k
    <3>1. wire[s][n] = <<>> /\ n # k
      <4>1. n > link[s] /\ n # k
        BY <1>4, <1>13, <2>3 DEF Connections
      <4>2. FreshInv(s)
        BY DEF ConnInv
      <4>3. QED  BY <4>1, <4>2 DEF FreshInv
    <3>2. OnLink(s, n)' = {}
      BY <1>10, <3>1, Nothings DEF OnLink
    <3>3. QED  BY <3>2 DEF Apart
  <2>4. QED  BY <2>2, <2>3
<1>14. \A n \in Connections : Sorted(wire'[s][n], Titled(s), F)
  BY <1>7, <1>9 DEF Lined
<1>15. \A x \in Gone(s)' : \A y \in InTask(s)' :
         <<x, y>> \notin F \/ (x = y /\ transport' = "quic")
  BY <1>3, <1>8, <1>11
<1>16. Apart(F, Gone(s)' \cup InTask(s)', InQueue(s)')
  BY <1>1, <1>8, <1>11 DEF Apart
<1>17. Lined(s, F)'
  BY <1>1, <1>12, <1>13, <1>14, <1>15, <1>16 DEF Lined
<1>18. QED  BY <1>1, <1>8, <1>11, <1>17 DEF OnPath

\* A side reads its connections in the order in which the other side wrote to them.
LEMMA ReadsFirst ==
  ASSUME Shape, ConnInv, NEW s \in Sides, Readable(s), NEW n \in Connections, n < Head(intake[s])
  PROVE  wire[Other(s)][n] = <<>>
<1> DEFINE q == intake[s]
<1>1. q \in Seq(Connections) /\ q # <<>> /\ link[s] \in Int /\ stream[s]
  BY LinkAssumption DEF Shape, TaskShape, Readable
<1>2. IntakeInv(s) /\ ReadInv(s)
  BY DEF ConnInv
<1>3. /\ 1 \in DOMAIN q /\ Head(q) = q[1] /\ q[1] \in Connections
      /\ \A i \in DOMAIN q : (i = 1 \/ 1 < i) /\ q[i] \in Connections
  BY <1>1
<1>4. \A i \in DOMAIN q : q[1] <= q[i]
  BY <1>2, <1>3 DEF IntakeInv, Connections
<1>5. ~InIntake(s, n)
  BY <1>3, <1>4 DEF InIntake, Connections
<1>6. n <= link[s]
  <2>1. q[1] <= link[s]
    BY <1>2, <1>3 DEF IntakeInv
  <2>2. QED  BY <1>1, <1>3, <2>1 DEF Connections
<1>7. QED  BY <1>1, <1>2, <1>5, <1>6 DEF ReadInv

LEMMA LinedReads ==
  ASSUME Shape, ConnInv, NEW s \in Sides, Read(s), NEW F, Lined(Other(s), F)
  PROVE  Lined(Other(s), F)' /\ OnPath(Other(s))' \subseteq OnPath(Other(s))
<1> DEFINE o == Other(s)
           p == Head(Packets(s))
           u == Titled(o)[p]
           x == Deserialize(p, s)
<1>1. o \in Sides /\ o # s /\ Other(o) = s
  BY TheSides
<1>2. PICK k \in Connections : k = Head(intake[s])
  BY TheRead DEF Shape, Read
<1>3. /\ wire[o][k] \in Seq(Travels(o)) /\ wire[o][k] # <<>> /\ p = Head(wire[o][k])
      /\ p \in Travels(o)
  BY <1>2, TheRead DEF Shape, Read, Packets
<1>4. wire' = [wire EXCEPT ![o][k] = Tail(@)] /\ UNCHANGED <<transport, items, item>>
  BY <1>2 DEF Read
<1>5. /\ wire'[o][k] = Tail(wire[o][k])
      /\ \A n \in Connections \ {k} : wire'[o][n] = wire[o][n]
  BY <1>1, <1>4 DEF Shape, WireShape
<1>6. u = <<p.kind, p.argument>>
  BY <1>3 DEF Titled
<1>7. arrived'[s] = arrived[s] \/ \E c \in Messages :
        arrived'[s] = Append(arrived[s], c) /\ Called[c] = u
  <2>1. CASE x.what = "Send" /\ OnSend(s, x)
    <3>1. /\ x.load.body = p.argument /\ p.kind = "Send" /\ p.argument \in Messages
      BY <1>3, <2>1, Reading
    <3>2. arrived'[s] = Append(arrived[s], x.load.body)
      <4>1. arrived' = [arrived EXCEPT ![s] = Append(@, x.load.body)]
        BY <2>1 DEF OnSend
      <4> HIDE DEF x
      <4>2. QED  BY <4>1 DEF Shape, BusShape
    <3> HIDE DEF x, p
    <3>3. Called[p.argument] = u
      BY <1>6, <3>1 DEF Called
    <3>4. QED  BY <3>1, <3>2, <3>3
  <2>2. CASE UNCHANGED arrived
    BY <2>2
  <2>3. QED  BY <2>1, <2>2, ReadCases DEF OnAction, OnEvent
<1> HIDE DEF u, p, x
<1>8. /\ OnLink(o, k) = {u} \cup OnLink(o, k)'
      /\ Sorted(wire'[o][k], Titled(o), F)
      /\ Apart(F, {u}, OnLink(o, k)')
  <2>1. Sorted(wire[o][k], Titled(o), F)
    BY DEF Lined
  <2>2. /\ Marks(wire[o][k], Titled(o))
             = {Titled(o)[Head(wire[o][k])]} \cup Marks(Tail(wire[o][k]), Titled(o))
        /\ Sorted(Tail(wire[o][k]), Titled(o), F)
        /\ Apart(F, {Titled(o)[Head(wire[o][k])]}, Marks(Tail(wire[o][k]), Titled(o)))
    BY <1>3, <2>1, OneLess
  <2>3. u = Titled(o)[Head(wire[o][k])]
    BY <1>3 DEF u
  <2>4. QED  BY <1>5, <2>2, <2>3 DEF OnLink
<1>9. \A n \in Connections \ {k} : OnLink(o, n)' = OnLink(o, n)
  BY <1>5 DEF OnLink
<1>10. InTask(o)' = InTask(o) /\ InQueue(o)' = InQueue(o)
  BY <1>4 DEF InTask, InQueue
<1>11. /\ Came(o) \subseteq Came(o)' /\ Came(o)' \subseteq Came(o) \cup {u}
       /\ Sorted(arrived'[s], Called, F)
  <2>1. Sorted(arrived[s], Called, F) /\ Apart(F, Came(o), OnLink(o, k))
    BY <1>1 DEF Lined
  <2>2. CASE arrived'[s] = arrived[s]
    BY <1>1, <2>1, <2>2 DEF Came
  <2>3. ASSUME NEW c \in Messages, arrived'[s] = Append(arrived[s], c), Called[c] = u
        PROVE  Came(o)' = Came(o) \cup {u} /\ Sorted(arrived'[s], Called, F)
    <3>1. Apart(F, Came(o), {u})
      BY <1>8, <2>1 DEF Apart
    <3>2. arrived[s] \in Seq(Messages)
      BY DEF Shape, BusShape
    <3>3. QED  BY <1>1, <2>1, <2>3, <3>1, <3>2, OneMore DEF Came
  <2>4. QED  BY <1>7, <2>2, <2>3
<1>12. Gone(o)' \subseteq Gone(o)
  <2>1. \A n \in Connections : OnLink(o, n)' \subseteq OnLink(o, n)
    BY <1>8, <1>9
  <2>2. u \in OnLink(o, k)
    BY <1>8
  <2>3. QED  BY <1>11, <2>1, <2>2 DEF Gone
<1>13. ASSUME NEW n \in Connections
       PROVE  Apart(F, Came(o)', OnLink(o, n)')
  <2>1. Apart(F, Came(o), OnLink(o, n)')
    BY <1>8, <1>9 DEF Lined, Apart
  <2>2. Apart(F, {u}, OnLink(o, n)')
    <3>1. CASE n = k
      BY <1>8, <3>1
    <3>2. CASE k < n
      <4>1. Apart(F, OnLink(o, k), OnLink(o, n)) /\ n # k
        BY <3>2 DEF Lined, Connections
      <4>2. QED  BY <1>8, <1>9, <4>1 DEF Apart
    <3>3. CASE n < k
      <4>1. wire[o][n] = <<>> /\ n # k
        BY <1>2, <3>3, ReadsFirst DEF Read, Connections
      <4>2. OnLink(o, n)' = {}
        BY <1>9, <4>1, Nothings DEF OnLink
      <4>3. QED  BY <4>2 DEF Apart
    <3>4. QED  BY <3>1, <3>2, <3>3 DEF Connections
  <2>3. QED  BY <1>11, <2>1, <2>2 DEF Apart
<1>14. ASSUME NEW m \in Connections, NEW n \in Connections, m < n
       PROVE  Apart(F, OnLink(o, m)', OnLink(o, n)')
  BY <1>8, <1>9, <1>14 DEF Lined, Apart
<1>15. \A n \in Connections : Sorted(wire'[o][n], Titled(o), F)
  BY <1>5, <1>8 DEF Lined
<1>16. /\ \A y \in Gone(o)' : \A z \in InTask(o)' :
            <<y, z>> \notin F \/ (y = z /\ transport' = "quic")
       /\ Apart(F, Gone(o)' \cup InTask(o)', InQueue(o)')
       /\ Sorted(items'[o], Named(o), F)
  BY <1>4, <1>10, <1>12 DEF Lined, Apart
<1>17. Lined(o, F)'
  BY <1>1, <1>11, <1>13, <1>14, <1>15, <1>16 DEF Lined
<1>18. QED  BY <1>10, <1>12, <1>17 DEF OnPath

\* Of what was on a connection that breaks, the first packets stay.
LEMMA LinedBreaks ==
  ASSUME Shape, NEW s \in Sides, NEW F, Lined(s, F), NEW k \in Connections, Break(k),
         UNCHANGED arrived
  PROVE  Lined(s, F)' /\ OnPath(s)' \subseteq OnPath(s)
<1>1. UNCHANGED <<transport, items, item>>
  BY DEF Break
<1>2. PICK left \in [Sides -> 0..Len(wire[Client][k]) + Len(wire[Server][k])] :
        /\ \A t \in Sides : left[t] <= Len(wire[t][k])
        /\ wire' = [t \in Sides |-> [wire[t] EXCEPT ![k] = SubSeq(@, 1, left[t])]]
  BY DEF Break
<1>3. left[s] \in Nat /\ left[s] <= Len(wire[s][k])
  <2>1. Len(wire[Client][k]) \in Nat /\ Len(wire[Server][k]) \in Nat
    BY TheSides DEF Shape, WireShape
  <2>2. \A i, j \in Nat : \A l \in 0..i + j : l \in Nat
    OBVIOUS
  <2>3. left[s] \in 0..Len(wire[Client][k]) + Len(wire[Server][k])
    OBVIOUS
  <2>4. QED  BY <1>2, <2>1, <2>2, <2>3
<1>4. /\ wire'[s][k] = SubSeq(wire[s][k], 1, left[s])
      /\ \A n \in Connections \ {k} : wire'[s][n] = wire[s][n]
      /\ wire[s][k] \in Seq(Travels(s))
  BY <1>2 DEF Shape, WireShape
<1>5. /\ Came(s)' = Came(s) /\ InTask(s)' = InTask(s) /\ InQueue(s)' = InQueue(s)
  BY <1>1 DEF Came, InTask, InQueue
<1>6. \A n \in Connections : /\ OnLink(s, n)' \subseteq OnLink(s, n)
                             /\ Sorted(wire'[s][n], Titled(s), F)
  <2>1. /\ OnLink(s, k)' \subseteq OnLink(s, k)
        /\ Sorted(wire'[s][k], Titled(s), F)
    BY <1>3, <1>4, TheFirst DEF OnLink, Lined
  <2>2. \A n \in Connections \ {k} : /\ OnLink(s, n)' = OnLink(s, n)
                                     /\ Sorted(wire'[s][n], Titled(s), F)
    BY <1>4 DEF OnLink, Lined
  <2>3. QED  BY <2>1, <2>2
<1>7. Gone(s)' \subseteq Gone(s)
  BY <1>5, <1>6 DEF Gone
<1>8. /\ \A n \in Connections : Apart(F, Came(s)', OnLink(s, n)')
      /\ \A m, n \in Connections : m < n => Apart(F, OnLink(s, m)', OnLink(s, n)')
  BY <1>5, <1>6 DEF Lined, Apart
<1>9. /\ \A x \in Gone(s)' : \A y \in InTask(s)' :
           <<x, y>> \notin F \/ (x = y /\ transport' = "quic")
      /\ Apart(F, Gone(s)' \cup InTask(s)', InQueue(s)')
  BY <1>1, <1>5, <1>7 DEF Lined, Apart
<1>10. Lined(s, F)'
  BY <1>1, <1>5, <1>6, <1>8, <1>9 DEF Lined
<1>11. QED  BY <1>5, <1>7, <1>10 DEF OnPath

\* The steps that queue nothing.
Moves ==
  \/ \E s \in Sides : TaskStep(s) /\ UNCHANGED busVars
  \/ \E s \in Sides : Notice(s) \/ Read(s) \/ ReadEnds(s)
  \/ Trouble
  \/ UNCHANGED vars

LEMMA LinedTask ==
  ASSUME Shape, ConnInv, NEW t \in Sides, TaskStep(t), UNCHANGED busVars, NEW s \in Sides,
         NEW F, Lined(s, F), Doubles => \A x : <<x, x>> \notin F
  PROVE  Lined(s, F)' /\ OnPath(s)' \subseteq OnPath(s)
<1> USE DEF Shape
<1>1. UNCHANGED arrived
  BY DEF busVars
<1>2. ASSUME UNCHANGED <<transport, wire>>, item' = [item EXCEPT ![t] = <<>>],
             items' = [items EXCEPT ![t] = <<>>] \/ items' = items
      PROVE  Lined(s, F)' /\ OnPath(s)' \subseteq OnPath(s)
  <2>1. CASE s = t
    <3>1. item'[s] = <<>> /\ items'[s] \in {<<>>, items[s]}
      BY <1>2, <2>1 DEF QueueShape
    <3>2. QED  BY <1>1, <1>2, <3>1, LinedDrops
  <2>2. CASE s # t
    <3>1. item'[s] = item[s] /\ items'[s] = items[s] /\ wire'[s] = wire[s]
      BY <1>2, <2>2 DEF QueueShape
    <3>2. QED  BY <1>1, <1>2, <3>1, LinedSame
  <2>3. QED  BY <2>1, <2>2
<1>3. ASSUME HasItem(t), UNCHANGED <<transport, wire>>, NEW kept \in {<<>>, <<Upcoming(t)>>},
             item' = [item EXCEPT ![t] = kept], items' = [items EXCEPT ![t] = Rest(t)]
      PROVE  Lined(s, F)' /\ OnPath(s)' \subseteq OnPath(s)
  <2>1. CASE s = t
    <3>1. HasItem(s) /\ item'[s] \in {<<>>, <<Upcoming(s)>>} /\ items'[s] = Rest(s)
      BY <1>3, <2>1 DEF QueueShape
    <3>2. QED  BY <1>1, <1>3, <3>1, LinedRest
  <2>2. CASE s # t
    <3>1. item'[s] = item[s] /\ items'[s] = items[s] /\ wire'[s] = wire[s]
      BY <1>3, <2>2 DEF QueueShape
    <3>2. QED  BY <1>1, <1>3, <3>1, LinedSame
  <2>3. QED  BY <2>1, <2>2
<1>4. ASSUME UNCHANGED <<transport, wire, items, item>>
      PROVE  Lined(s, F)' /\ OnPath(s)' \subseteq OnPath(s)
  BY <1>1, <1>4, LinedSame
<1>5. ASSUME NEW n, Established(t, n)
      PROVE  Lined(s, F)' /\ OnPath(s)' \subseteq OnPath(s)
  <2>1. CASE stream[t]
    BY <1>4, <1>5, <2>1 DEF Established
  <2>2. CASE ~stream[t]
    BY <1>2, <1>5, <2>2 DEF Established, Dies
  <2>3. QED  BY <2>1, <2>2
<1>6. ASSUME HasItem(t), NEW kept \in {<<>>, <<Upcoming(t)>>}, Leaves(t, kept, Rest(t))
      PROVE  Lined(s, F)' /\ OnPath(s)' \subseteq OnPath(s)
  <2>1. CASE stream[t]
    BY <1>3, <1>6, <2>1 DEF Leaves
  <2>2. CASE ~stream[t]
    BY <1>2, <1>6, <2>2 DEF Leaves, Dies
  <2>3. QED  BY <2>1, <2>2
<1>7. ASSUME HasItem(t), Upcoming(t) # Closing, UNCHANGED transport,
             NEW kept \in {<<>>, <<Upcoming(t)>>}, kept = <<>> \/ transport = "quic",
             Vanishes(t, kept) \/ (~Failing(t) /\ Written(t, kept))
      PROVE  Lined(s, F)' /\ OnPath(s)' \subseteq OnPath(s)
  <2>1. CASE Vanishes(t, kept)
    BY <1>3, <1>7, <2>1 DEF Vanishes
  <2>2. CASE Written(t, kept)
    <3>1. /\ wire' = [wire EXCEPT ![t][link[t]] = Append(@, Serialize(Upcoming(t)))]
          /\ item' = [item EXCEPT ![t] = kept] /\ items' = [items EXCEPT ![t] = Rest(t)]
      BY <2>2 DEF Written
    <3>2. CASE s = t
      <4>1. /\ HasItem(s) /\ item'[s] = kept /\ items'[s] = Rest(s) /\ Upcoming(s) # Closing
            /\ wire' = [wire EXCEPT ![s][link[s]] = Append(@, Serialize(Upcoming(s)))]
        BY <1>7, <3>1, <3>2 DEF QueueShape
      <4>2. kept = <<>> \/ (kept = <<Upcoming(s)>> /\ transport = "quic")
        BY <1>7, <3>2
      <4>3. QED  BY <1>1, <1>7, <4>1, <4>2, LinedWrites
    <3>3. CASE s # t
      <4>1. item'[s] = item[s] /\ items'[s] = items[s] /\ wire'[s] = wire[s]
        BY <3>1, <3>3 DEF QueueShape, WireShape
      <4>2. QED  BY <1>1, <1>7, <4>1, LinedSame
    <3>4. QED  BY <3>2, <3>3
  <2>3. QED  BY <1>7, <2>1, <2>2
<1>8. CASE (t = Client /\ Connect) \/ (t = Server /\ Accept)
  BY <1>5, <1>8 DEF Connect, Accept
<1>9. CASE Close(t)
  BY <1>6, <1>9 DEF Close
<1>10. CASE WriteTcp(t)
  BY <1>7, <1>10 DEF WriteTcp
<1>11. CASE WriteQuic(t)
  BY <1>7, <1>11 DEF WriteQuic
<1>12. CASE WriteFails(t)
  BY <1>6, <1>12 DEF WriteFails
<1>13. CASE OpenFails(t)
  <2>1. CASE stream[t]
    BY <1>3, <1>13, <2>1 DEF OpenFails
  <2>2. CASE ~stream[t]
    BY <1>2, <1>13, <2>2 DEF OpenFails, Dies
  <2>3. QED  BY <2>1, <2>2
<1>14. CASE Finish(t)
  BY <1>2, <1>14 DEF Finish
<1>15. CASE FinishFails(t)
  <2>1. CASE stream[t]
    <3>1. /\ item' = [item EXCEPT ![t] = item[t]] /\ items' = [items EXCEPT ![t] = items[t]]
          /\ UNCHANGED <<transport, wire>>
      BY <1>15, <2>1 DEF FinishFails, Leaves
    <3>2. item'[s] = item[s] /\ items'[s] = items[s]
      BY <3>1 DEF QueueShape
    <3>3. QED  BY <1>1, <3>1, <3>2, LinedSame
  <2>2. CASE ~stream[t]
    BY <1>2, <1>15, <2>2 DEF FinishFails, Leaves, Dies
  <2>3. QED  BY <2>1, <2>2
<1>16. QED  BY <1>8, <1>9, <1>10, <1>11, <1>12, <1>13, <1>14, <1>15 DEF TaskStep

LEMMA LinedMoves ==
  ASSUME Shape, ConnInv, Moves, NEW s \in Sides, NEW F, Lined(s, F),
         Doubles => \A x : <<x, x>> \notin F
  PROVE  Lined(s, F)' /\ OnPath(s)' \subseteq OnPath(s)
<1>1. ASSUME UNCHANGED <<transport, items, item, wire, arrived>>
      PROVE  Lined(s, F)' /\ OnPath(s)' \subseteq OnPath(s)
  BY <1>1, LinedSame
<1>2. ASSUME NEW t \in Sides, Notice(t) \/ ReadEnds(t)
      PROVE  Lined(s, F)' /\ OnPath(s)' \subseteq OnPath(s)
  BY <1>1, <1>2 DEF Notice, ReadEnds, busVars
<1>3. ASSUME NEW t \in Sides, Read(t)
      PROVE  Lined(s, F)' /\ OnPath(s)' \subseteq OnPath(s)
  <2>1. CASE s = Other(t)
    BY <1>3, <2>1, LinedReads
  <2>2. CASE s = t
    <3>1. Other(s) # s /\ Other(s) \in Sides
      BY TheSides
    <3>2. /\ UNCHANGED <<transport, items, item>>
          /\ wire' = [wire EXCEPT ![Other(t)][Head(intake[t])] = Tail(@)]
      BY <1>3 DEF Read
    <3>3. wire'[s] = wire[s]
      BY <2>2, <3>1, <3>2 DEF Shape, WireShape
    <3>4. arrived'[Other(s)] = arrived[Other(s)]
      <4>1. UNCHANGED arrived \/ \E m : arrived' = [arrived EXCEPT ![t] = Append(@, m)]
        BY <1>3, ReadCases DEF OnSend, OnAction, OnEvent
      <4>2. QED  BY <2>2, <3>1, <4>1 DEF Shape, BusShape
    <3>5. QED  BY <3>2, <3>3, <3>4, LinedSame
  <2>3. QED  BY <2>1, <2>2, TheSides
<1>4. CASE Trouble
  <2>1. UNCHANGED arrived
    BY <1>4 DEF Trouble, busVars
  <2>2. ASSUME NEW t \in Sides, EndOfConnections(t)
        PROVE  Lined(s, F)' /\ OnPath(s)' \subseteq OnPath(s)
    <3>1. /\ item' = [item EXCEPT ![t] = <<>>] /\ items' = [items EXCEPT ![t] = <<>>]
          /\ UNCHANGED <<transport, wire>>
      BY <2>2 DEF EndOfConnections, Dies
    <3>2. CASE s = t
      <4>1. item'[s] = <<>> /\ items'[s] = <<>>
        BY <3>1, <3>2 DEF Shape, QueueShape
      <4>2. QED  BY <2>1, <3>1, <4>1, LinedDrops
    <3>3. CASE s # t
      <4>1. item'[s] = item[s] /\ items'[s] = items[s] /\ wire'[s] = wire[s]
        BY <3>1, <3>3 DEF Shape, QueueShape
      <4>2. QED  BY <2>1, <3>1, <4>1, LinedSame
    <3>4. QED  BY <3>2, <3>3
  <2>3. QED  BY <1>4, <2>1, <2>2, LinedBreaks DEF Trouble
<1>5. CASE UNCHANGED vars
  BY <1>1, <1>5 DEF vars, linkVars, busVars
<1>6. QED  BY <1>2, <1>3, <1>4, <1>5, LinedTask DEF Moves

\* A step that queues something: x at the relay of s, if its task is there.
Puts(s, x) ==
  /\ UNCHANGED <<transport, item, wire, arrived>>
  /\ items' = items \/ items' = [items EXCEPT ![s] = Append(@, x)]

LEMMA LinedPuts ==
  ASSUME Shape, NEW t \in Sides, NEW x \in Travelling(t) \cup {Closing}, Puts(t, x),
         NEW s \in Sides, NEW F, Lined(s, F),
         s = t => \A y \in OnPath(s) : <<y, Label(x)>> \notin F
  PROVE  Lined(s, F)' /\ OnPath(s)' \subseteq OnPath(s) \cup {y \in {Label(x)} : s = t}
<1>1. CASE items'[s] = items[s]
  BY <1>1, LinedSame DEF Puts
<1>2. CASE s = t /\ items'[s] = Append(items[s], x)
  BY <1>2, LinedAppend DEF Puts, Shape
<1>3. QED  BY <1>1, <1>2 DEF Puts, Shape, QueueShape

LEMMA LinedApart ==
  ASSUME NEW s \in Sides, NEW x, NEW y, x \notin OnPath(s) \/ y \notin OnPath(s)
  PROVE  Lined(s, {<<x, y>>})
<1> DEFINE F == {<<x, y>>}
<1>1. \A X, Y : X \subseteq OnPath(s) /\ Y \subseteq OnPath(s) => Apart(F, X, Y)
  BY DEF Apart
<1>2. \A v, w : v \in OnPath(s) /\ w \in OnPath(s) => <<v, w>> \notin F
  OBVIOUS
<1>3. /\ Gone(s) \subseteq OnPath(s) /\ InTask(s) \subseteq OnPath(s)
      /\ InQueue(s) \subseteq OnPath(s) /\ Came(s) \subseteq OnPath(s)
      /\ \A n \in Connections : OnLink(s, n) \subseteq OnPath(s)
  BY DEF OnPath, Gone
<1> HIDE DEF F
<1>4. ASSUME NEW q, NEW label, Marks(q, label) \subseteq OnPath(s)
      PROVE  Sorted(q, label, F)
  BY <1>2, <1>4 DEF Sorted, Marks
<1>5. /\ Sorted(arrived[Other(s)], Called, F)
      /\ \A n \in Connections : Sorted(wire[s][n], Titled(s), F)
      /\ Sorted(items[s], Named(s), F)
  BY <1>3, <1>4 DEF Came, OnLink, InQueue
<1>6. Gone(s) \cup InTask(s) \subseteq OnPath(s)
  BY <1>3
<1>7. Lined(s, F)
  BY <1>1, <1>2, <1>3, <1>5, <1>6 DEF Lined
<1>8. QED  BY <1>7 DEF F

\* What each of the other steps queues, and where.
LEMMA QueuedPuts ==
  ASSUME NEW s, NEW x, Queued(s, x), UNCHANGED <<transport, item, wire, arrived>>
  PROVE  Puts(s, x)
BY DEF Queued, Puts

LEMMA SubmitPuts ==
  ASSUME NEW c, Submit(c)
  PROVE  \/ UNCHANGED <<transport, items, item, wire, arrived, submitted>>
         \/ /\ Puts(From[c], Sending(c)) /\ UNCHANGED transport
            /\ submitted' = [submitted EXCEPT ![From[c]] = Append(@, c)]
<1>1. UNCHANGED <<transport, item, wire, arrived>>
  BY DEF Submit, linkRest
<1>2. CASE Queued(From[c], Sending(c)) /\ ~TaskGone(From[c])
  <2>1. submitted' = [submitted EXCEPT ![From[c]] = Append(@, c)]
        \/ UNCHANGED <<items, submitted>>
    BY <1>2 DEF Submit
  <2>2. QED  BY <1>1, <1>2, <2>1, QueuedPuts
<1>3. QED  BY <1>1, <1>2 DEF Submit, Sending, Queued

LEMMA CallPuts ==
  ASSUME NEW c
  PROVE  /\ Flush(c) => Puts(From[c], Plain("Flush"))
         /\ Sync(c) => Puts(From[c], Plain("Synchronize"))
         /\ CloseBus(c) => Puts(From[c], Closing)
<1>1. ASSUME Flush(c)
      PROVE  Puts(From[c], Plain("Flush"))
  BY <1>1, QueuedPuts DEF Flush, linkRest, Puts
<1>2. ASSUME Sync(c)
      PROVE  Puts(From[c], Plain("Synchronize"))
  BY <1>2, QueuedPuts DEF Sync, linkRest
<1>3. QED  BY <1>1, <1>2 DEF CloseBus, Puts

LEMMA StreamPuts ==
  ASSUME NEW s
  PROVE  /\ FlushReplies(s) => Puts(s, Plain("Flushed"))
         /\ AwaitsItself(s) => \/ Puts(s, Plain("Flush")) /\ reading[s] = "flush" /\ need[s]
                               \/ Puts(s, Plain("Synchronize"))
<1>1. ASSUME FlushReplies(s)
      PROVE  Puts(s, Plain("Flushed"))
  BY <1>1, QueuedPuts DEF FlushReplies, ReplyInStream
<1>2. ASSUME AwaitsItself(s)
      PROVE  \/ Puts(s, Plain("Flush")) /\ reading[s] = "flush" /\ need[s]
             \/ Puts(s, Plain("Synchronize"))
  BY <1>2, QueuedPuts DEF AwaitsItself
<1>3. QED  BY <1>1, <1>2

LEMMA RespondPuts ==
  ASSUME Shape, NEW s \in Sides, NEW t \in working[s], Respond(s, t[1], t[2])
  PROVE  \/ t[2] /\ \E c \in Messages : Puts(s, Reply(c, Message(Answer)))
         \/ ~t[2] /\ Puts(s, Completes(1, "type"))
<1>1. arrived[s][t[1]] \in Messages
  BY DEF Shape, BusShape
<1>2. UNCHANGED <<transport, item, wire, arrived>>
  BY DEF Respond, linkRest
<1>3. Queued(s, IF t[2] THEN Reply(arrived[s][t[1]], Message(Answer)) ELSE Completes(1, "type"))
  BY DEF Respond, Reply, Completes
<1>4. CASE t[2]
  BY <1>1, <1>2, <1>3, <1>4, QueuedPuts
<1>5. CASE ~t[2]
  BY <1>2, <1>3, <1>5, QueuedPuts
<1>6. QED  BY <1>4, <1>5

\* Everything a side sends but its messages.
Apiece(s) ==
  {Reply(c, Message(Answer)) : c \in Messages} \cup {Completes(1, "type"), Closing}
  \cup {Plain(w) : w \in {"Flush", "Synchronize", "Flushed"}}

LEMMA ApieceLabel ==
  ASSUME NEW s \in Sides, NEW x \in Apiece(s)
  PROVE  x \in Travelling(s) \cup {Closing} /\ \A c : Label(x) # <<"Send", c>>
<1>1. x \in Travelling(s) \cup {Closing}
  BY DEF Apiece, Travelling
<1>2. CASE x = Closing
  <2>1. Label(x) = <<>>
    BY <1>2 DEF Label
  <2>2. \A c : <<>> # <<"Send", c>>
    OBVIOUS
  <2>3. QED  BY <1>1, <2>1, <2>2
<1>3. CASE x # Closing
  <2>1. x \in Travelling(s) /\ x.what # "Send"
    BY <1>1, <1>3, Fields DEF Apiece
  <2>2. Label(x) = <<x.what, x.num>>
    BY <2>1, Traveller
  <2>3. QED  BY <1>1, <2>1, <2>2
<1>4. QED  BY <1>2, <1>3

LEMMA WhatHappens ==
  ASSUME Shape, [Next]_vars
  PROVE  \/ Moves
         \/ \E c \in Messages : Submit(c)
         \/ \E s \in Sides : \E x \in Apiece(s) : Puts(s, x) /\ UNCHANGED submitted
<1>1. ASSUME NEW c \in Calls, Flush(c) \/ Sync(c) \/ CloseBus(c)
      PROVE  \E s \in Sides : \E x \in Apiece(s) : Puts(s, x) /\ UNCHANGED submitted
  <2>1. From[c] \in Sides /\ UNCHANGED submitted
    BY <1>1, CallTypes DEF Flush, Sync, CloseBus
  <2>2. QED  BY <1>1, <2>1, CallPuts DEF Apiece
<1>2. ASSUME NEW s \in Sides, EventStream(s)
      PROVE  Moves \/ \E x \in Apiece(s) : Puts(s, x) /\ UNCHANGED submitted
  <2>1. CASE FlushReplies(s) \/ AwaitsItself(s)
    <3>1. UNCHANGED submitted
      BY <2>1 DEF FlushReplies, AwaitsItself, ReplyInStream
    <3>2. QED  BY <2>1, <3>1, StreamPuts DEF Apiece
  <2>2. QED  BY <1>2, <2>1 DEF EventStream, Moves
<1>3. ASSUME NEW s \in Sides, NEW t \in working[s], Respond(s, t[1], t[2])
      PROVE  \E x \in Apiece(s) : Puts(s, x) /\ UNCHANGED submitted
  <2>1. UNCHANGED submitted
    BY <1>3 DEF Respond
  <2>2. QED  BY <1>3, <2>1, RespondPuts DEF Apiece
<1>4. ASSUME NEW c \in Calls, Submit(c)
      PROVE  c \in Messages
  BY <1>4 DEF Submit
<1>5. QED  BY <1>1, <1>2, <1>3, <1>4, Steps DEF Moves

\* The connections are counted up, and a call that was made stays made.
LEMMA DoublesStays ==
  ASSUME Shape, [Next]_vars
  PROVE  transport' = transport /\ (Doubles => Doubles')
<1>1. opened \in Int
  BY LinkAssumption DEF Shape, TaskShape
<1>2. transport' = transport /\ (opened' = opened \/ opened' = opened + 1)
  <2>1. ASSUME NEW c \in Calls, Submit(c) \/ Flush(c) \/ Sync(c) \/ CloseBus(c)
        PROVE  UNCHANGED <<transport, opened>>
    BY <2>1 DEF Submit, Flush, Sync, CloseBus, linkRest
  <2>2. ASSUME NEW s \in Sides, EventStream(s)
        PROVE  UNCHANGED <<transport, opened>>
    BY <2>2 DEF EventStream, Notice, Read, ReadEnds, FlushReplies, AwaitsItself, ReplyInStream
  <2>3. ASSUME NEW s \in Sides, NEW t \in working[s], Respond(s, t[1], t[2])
        PROVE  UNCHANGED <<transport, opened>>
    BY <2>3 DEF Respond, linkRest
  <2>4. ASSUME NEW s \in Sides, TaskStep(s)
        PROVE  transport' = transport /\ (opened' = opened \/ opened' = opened + 1)
    <3>1. CASE Connect \/ Accept
      BY <3>1 DEF Connect, Accept, Established
    <3>2. CASE Close(s) \/ WriteTcp(s) \/ WriteQuic(s) \/ WriteFails(s) \/ OpenFails(s)
               \/ Finish(s) \/ FinishFails(s)
      BY <3>2 DEF Close, WriteTcp, WriteQuic, WriteFails, OpenFails, Finish, FinishFails, Leaves
    <3>3. QED  BY <2>4, <3>1, <3>2 DEF TaskStep
  <2>5. CASE Trouble
    BY <2>5 DEF Trouble, EndOfConnections, Break
  <2>6. CASE UNCHANGED vars
    BY <2>6 DEF vars, linkVars
  <2>7. QED  BY <2>1, <2>2, <2>3, <2>4, <2>5, <2>6, Steps
<1>3. QED  BY <1>1, <1>2 DEF Doubles

Made(c) == pc[c] \notin {"start", "unmade"}
LEMMA MadeStays ==
  ASSUME Shape, [Next]_vars, NEW d \in Calls, Made(d)
  PROVE  Made(d)'
<1>1. ASSUME NEW c, NEW to, to \notin {"start", "unmade"}, Goes(c, to)
      PROVE  Made(d)'
  BY <1>1 DEF Goes, Made, Shape, BusShape
<1>2. ASSUME UNCHANGED pc
      PROVE  Made(d)'
  BY <1>2 DEF Made
<1>3. ASSUME NEW c \in Calls, Submit(c) \/ Flush(c) \/ Sync(c) \/ CloseBus(c)
      PROVE  Made(d)'
  <2>1. \E to \in {"failed", "done", "wait"} : Goes(c, to)
    BY <1>3 DEF Submit, Flush, Sync, CloseBus
  <2>2. QED  BY <1>1, <2>1
<1>4. ASSUME NEW s \in Sides, EventStream(s)
      PROVE  Made(d)'
  <2>1. CASE Notice(s)
    BY <2>1 DEF Notice, Made
  <2>2. CASE Read(s)
    BY <2>2, ReadCases DEF OnSend, OnAction, OnEvent, Made
  <2>3. CASE ReadEnds(s) \/ FlushReplies(s) \/ AwaitsItself(s)
    BY <1>2, <2>3 DEF ReadEnds, FlushReplies, ReplyInStream, AwaitsItself, busVars
  <2>4. QED  BY <1>4, <2>1, <2>2, <2>3 DEF EventStream
<1>5. ASSUME NEW s \in Sides, NEW t \in working[s], Respond(s, t[1], t[2])
      PROVE  Made(d)'
  BY <1>2, <1>5 DEF Respond
<1>6. QED
  BY <1>2, <1>3, <1>4, <1>5, Steps DEF Trouble, vars, busVars

---------------------------------------------------------------------------
(* Messages are on their way in the order in which the relay took them.     *)

Sent(c) == <<"Send", c>>
Taken(s, c) == \E i \in DOMAIN submitted[s] : submitted[s][i] = c
Before(s, c, d) == \E i, j \in DOMAIN submitted[s] :
                     i < j /\ submitted[s][i] = c /\ submitted[s][j] = d

\* d is behind c only if it was taken later, and no message is behind itself.
Wrong(s, c, d) == IF c = d THEN ~Doubles ELSE Before(s, d, c)

OrderInv == \A s \in Sides :
  /\ \A c, d \in Messages : Wrong(s, c, d) => Lined(s, {<<Sent(c), Sent(d)>>})
  /\ \A c \in Messages : Sent(c) \in OnPath(s) => Taken(s, c)
  /\ \A c \in Messages : Taken(s, c) => Made(c)

LEMMA PairOf ==
  ASSUME NEW c, NEW d
  PROVE  /\ \A x : <<x, x>> \in {<<Sent(c), Sent(d)>>} => c = d
         /\ \A x, y : <<x, y>> \in {<<Sent(c), Sent(d)>>} => x = Sent(c) /\ y = Sent(d)
BY DEF Sent

\* A step that submits nothing, for each side.
LEMMA OrderQuiet ==
  ASSUME Shape, ConnInv, OrderInv, [Next]_vars, UNCHANGED submitted,
         NEW s \in Sides,
         Moves \/ \E t \in Sides : \E x \in Apiece(t) : Puts(t, x)
  PROVE  /\ \A c, d \in Messages : Wrong(s, c, d)' => Lined(s, {<<Sent(c), Sent(d)>>})'
         /\ \A c \in Messages : Sent(c) \in OnPath(s)' => Taken(s, c)'
<1>1. /\ \A c, d \in Messages : Wrong(s, c, d)' => Wrong(s, c, d)
      /\ \A c \in Messages : Taken(s, c)' <=> Taken(s, c)
  BY DoublesStays DEF Wrong, Before, Taken
<1>2. ASSUME NEW c \in Messages, NEW d \in Messages, Wrong(s, c, d)
      PROVE  /\ Lined(s, {<<Sent(c), Sent(d)>>})'
             /\ \A m : Sent(m) \in OnPath(s)' => Sent(m) \in OnPath(s)
  <2>1. Lined(s, {<<Sent(c), Sent(d)>>})
    BY <1>2 DEF OrderInv
  <2>2. Doubles => \A x : <<x, x>> \notin {<<Sent(c), Sent(d)>>}
    BY <1>2, PairOf DEF Wrong
  <2>3. CASE Moves
    BY <2>1, <2>2, <2>3, LinedMoves
  <2>4. ASSUME NEW t \in Sides, NEW x \in Apiece(t), Puts(t, x)
        PROVE  /\ Lined(s, {<<Sent(c), Sent(d)>>})'
               /\ \A m : Sent(m) \in OnPath(s)' => Sent(m) \in OnPath(s)
    <3>1. x \in Travelling(t) \cup {Closing} /\ \A m : Label(x) # Sent(m)
      BY <2>4, ApieceLabel DEF Sent
    <3>2. \A y \in OnPath(s) : <<y, Label(x)>> \notin {<<Sent(c), Sent(d)>>}
      BY <3>1, PairOf
    <3>3. QED  BY <2>1, <2>4, <3>1, <3>2, LinedPuts
  <2>5. QED  BY <2>3, <2>4
<1>3. ASSUME NEW c \in Messages
      PROVE  Sent(c) \in OnPath(s)' => Sent(c) \in OnPath(s)
  <2>1. Lined(s, {})' /\ (Sent(c) \in OnPath(s)' => Sent(c) \in OnPath(s))
    <3>1. Lined(s, {})
      BY DEF Lined, Sorted, Apart
    <3>2. CASE Moves
      BY <3>1, <3>2, LinedMoves
    <3>3. ASSUME NEW t \in Sides, NEW x \in Apiece(t), Puts(t, x)
          PROVE  Lined(s, {})' /\ (Sent(c) \in OnPath(s)' => Sent(c) \in OnPath(s))
      <4>1. x \in Travelling(t) \cup {Closing} /\ Label(x) # Sent(c)
        BY <3>3, ApieceLabel DEF Sent
      <4>2. QED  BY <3>1, <3>3, <4>1, LinedPuts
    <3>4. QED  BY <3>2, <3>3
  <2>2. QED  BY <2>1
<1>4. QED  BY <1>1, <1>2, <1>3 DEF OrderInv

\* A message that is taken goes behind all the others.
LEMMA OrderSubmit ==
  ASSUME Shape, ConnInv, OrderInv, [Next]_vars, NEW c \in Messages, Submit(c), NEW s \in Sides
  PROVE  /\ \A a, b \in Messages : Wrong(s, a, b)' => Lined(s, {<<Sent(a), Sent(b)>>})'
         /\ \A a \in Messages : Sent(a) \in OnPath(s)' => Taken(s, a)'
<1>1. c \in Calls /\ From[c] \in Sides /\ ~Made(c)
  BY CallTypes DEF Submit, MayStart, Made
<1>2. CASE UNCHANGED <<transport, items, item, wire, arrived, submitted>>
  <2>1. ASSUME NEW F, Lined(s, F)
        PROVE  Lined(s, F)' /\ OnPath(s)' = OnPath(s)
    BY <1>2, <2>1, LinedSame
  <2>2. /\ \A a, b \in Messages : Wrong(s, a, b)' => Wrong(s, a, b)
        /\ \A a \in Messages : Taken(s, a)' <=> Taken(s, a)
    BY <1>2, DoublesStays DEF Wrong, Before, Taken
  <2>3. OnPath(s)' = OnPath(s)
    <3>1. Lined(s, {})
      BY DEF Lined, Sorted, Apart
    <3>2. QED  BY <2>1, <3>1
  <2>4. QED  BY <2>1, <2>2, <2>3 DEF OrderInv
<1>3. ASSUME Puts(From[c], Sending(c)), UNCHANGED transport,
             submitted' = [submitted EXCEPT ![From[c]] = Append(@, c)]
      PROVE  /\ \A a, b \in Messages : Wrong(s, a, b)' => Lined(s, {<<Sent(a), Sent(b)>>})'
             /\ \A a \in Messages : Sent(a) \in OnPath(s)' => Taken(s, a)'
  <2> DEFINE q == submitted[From[c]]
             l == Len(q) + 1
  <2>1. ~Taken(From[c], c) /\ Sent(c) \notin OnPath(From[c])
    BY <1>1 DEF OrderInv
  <2>2. /\ q \in Seq(Messages) /\ submitted'[From[c]] = Append(q, c)
        /\ \A t \in Sides \ {From[c]} : submitted'[t] = submitted[t]
    BY <1>1, <1>3 DEF Shape, BusShape
  <2>3. /\ \A i \in DOMAIN Append(q, c) : i \in DOMAIN q \/ i = l
        /\ \A i \in DOMAIN q : i \in Int /\ i < l /\ i \in DOMAIN Append(q, c)
                               /\ Append(q, c)[i] = q[i]
        /\ l \in DOMAIN Append(q, c) /\ Append(q, c)[l] = c
    BY <2>2
  <2>4. \A a \in Messages : (Taken(s, a) \/ (a = c /\ s = From[c])) => Taken(s, a)'
    BY <2>2, <2>3 DEF Taken
  <2>5. ASSUME NEW a, NEW b, Before(s, b, a)'
        PROVE  Before(s, b, a) \/ (s = From[c] /\ a = c)
    <3>1. CASE s # From[c]
      BY <2>2, <2>5, <3>1 DEF Before
    <3>2. CASE s = From[c]
      <4>1. PICK i \in DOMAIN Append(q, c), j \in DOMAIN Append(q, c) :
              i < j /\ Append(q, c)[i] = b /\ Append(q, c)[j] = a
        BY <2>2, <2>5, <3>2 DEF Before
      <4>2. CASE j = l
        BY <2>3, <3>2, <4>1, <4>2
      <4>3. CASE j \in DOMAIN q
        <5>1. i \in DOMAIN q
          BY <2>3, <4>1, <4>3
        <5>2. QED  BY <2>3, <3>2, <4>1, <4>3, <5>1 DEF Before
      <4>4. QED  BY <2>3, <4>1, <4>2, <4>3
    <3>3. QED  BY <3>1, <3>2
  <2>6. Label(Sending(c)) = Sent(c) /\ Sending(c) \in Travelling(From[c]) \cup {Closing}
    <3>1. Sending(c) \in Travelling(From[c])
      BY <1>1, Queueable
    <3>2. QED  BY <3>1, Fields, Traveller DEF Sent
  <2>7. ASSUME NEW F, Lined(s, F), s = From[c] => \A y \in OnPath(s) : <<y, Sent(c)>> \notin F
        PROVE  Lined(s, F)' /\ OnPath(s)' \subseteq OnPath(s) \cup {y \in {Sent(c)} : s = From[c]}
    <3>1. PICK t \in Sides : t = From[c]
      BY <1>1
    <3>2. PICK x \in Travelling(t) \cup {Closing} : x = Sending(c)
      BY <2>6, <3>1
    <3>3. Puts(t, x) /\ Label(x) = Sent(c)
      BY <1>3, <2>6, <3>1, <3>2
    <3>4. QED  BY <2>7, <3>1, <3>3, LinedPuts
  <2>8. ASSUME NEW a \in Messages, NEW b \in Messages, Wrong(s, a, b)'
        PROVE  Lined(s, {<<Sent(a), Sent(b)>>})'
    <3>1. Wrong(s, a, b) \/ (s = From[c] /\ a = c)
      BY <2>5, <2>8, DoublesStays DEF Wrong
    <3>2. Lined(s, {<<Sent(a), Sent(b)>>})
      BY <2>1, <3>1, LinedApart DEF OrderInv
    <3>3. ASSUME s = From[c], NEW y \in OnPath(s)
          PROVE  <<y, Sent(c)>> \notin {<<Sent(a), Sent(b)>>}
      <4>1. SUFFICES ASSUME y = Sent(a), c = b
                     PROVE  FALSE
        BY PairOf DEF Sent
      <4>2. a # c
        BY <2>1, <3>3, <4>1
      <4>3. Before(s, c, a)
        BY <3>1, <4>1, <4>2 DEF Wrong
      <4>4. QED  BY <2>1, <3>3, <4>3 DEF Before, Taken
    <3>4. QED  BY <2>7, <3>2, <3>3
  <2>9. ASSUME NEW a \in Messages, Sent(a) \in OnPath(s)'
        PROVE  Taken(s, a)'
    <3>1. Lined(s, {})
      BY DEF Lined, Sorted, Apart
    <3>2. Sent(a) \in OnPath(s) \/ (s = From[c] /\ Sent(a) = Sent(c))
      BY <2>7, <2>9, <3>1
    <3>3. QED  BY <2>4, <3>2 DEF OrderInv, Sent
  <2>10. QED  BY <2>8, <2>9
<1>4. QED  BY <1>2, <1>3, SubmitPuts

LEMMA OrderStep == Shape /\ ConnInv /\ OrderInv /\ [Next]_vars => OrderInv'
<1> SUFFICES ASSUME Shape, ConnInv, OrderInv, [Next]_vars PROVE OrderInv'
  OBVIOUS
<1>1. UNCHANGED submitted \/ \E c \in Messages : Submit(c)
  <2>1. ASSUME NEW c \in Calls, Submit(c) \/ Flush(c) \/ Sync(c) \/ CloseBus(c)
        PROVE  UNCHANGED submitted \/ (Submit(c) /\ c \in Messages)
    <3>1. CASE Submit(c)
      BY <3>1 DEF Submit
    <3>2. CASE Flush(c) \/ Sync(c) \/ CloseBus(c)
      BY <3>2 DEF Flush, Sync, CloseBus
    <3>3. QED  BY <2>1, <3>1, <3>2
  <2>2. ASSUME NEW s \in Sides, EventStream(s)
        PROVE  UNCHANGED submitted
    BY <2>2 DEF EventStream, Notice, Read, ReadEnds, FlushReplies, ReplyInStream, AwaitsItself,
                busVars
  <2>3. ASSUME NEW s \in Sides, NEW t \in working[s], Respond(s, t[1], t[2])
        PROVE  UNCHANGED submitted
    BY <2>3 DEF Respond
  <2>4. QED  BY <2>1, <2>2, <2>3, Steps DEF Trouble, busVars, vars
<1>2. ASSUME NEW s \in Sides
      PROVE  /\ \A c, d \in Messages : Wrong(s, c, d)' => Lined(s, {<<Sent(c), Sent(d)>>})'
             /\ \A c \in Messages : Sent(c) \in OnPath(s)' => Taken(s, c)'
  <2>1. CASE \E c \in Messages : Submit(c)
    BY <2>1, OrderSubmit
  <2>2. CASE UNCHANGED submitted /\ ~(\E c \in Messages : Submit(c))
    BY <2>2, WhatHappens, OrderQuiet
  <2>3. QED  BY <1>1, <2>1, <2>2
<1>3. ASSUME NEW s \in Sides, NEW c \in Messages, Taken(s, c)'
      PROVE  Made(c)'
  <2>1. CASE Taken(s, c)
    <3>1. Made(c)
      BY <2>1 DEF OrderInv
    <3>2. QED  BY <3>1, CallTypes, MadeStays
  <2>2. CASE ~Taken(s, c)
    <3>1. PICK d \in Messages : Submit(d)
      BY <1>1, <1>3, <2>2 DEF Taken
    <3>2. d \in Calls /\ From[d] \in Sides
      BY CallTypes
    <3>3. submitted' = [submitted EXCEPT ![From[d]] = Append(@, d)]
      BY <1>3, <2>2, <3>1, SubmitPuts DEF Taken
    <3>4. c = d
      <4>1. submitted[From[d]] \in Seq(Messages)
        BY <3>2 DEF Shape, BusShape
      <4>2. \A q \in Seq(Messages) : \A i \in DOMAIN Append(q, d) :
              (i \in DOMAIN q /\ Append(q, d)[i] = q[i]) \/ Append(q, d)[i] = d
        OBVIOUS
      <4>3. submitted'[s] = submitted[s] \/ (s = From[d] /\ submitted'[s] = Append(submitted[s], d))
        BY <3>2, <3>3 DEF Shape, BusShape
      <4>4. QED  BY <1>3, <2>2, <4>1, <4>2, <4>3 DEF Taken
    <3>5. \E to \in {"failed", "done", "wait"} : Goes(d, to)
      BY <3>1 DEF Submit
    <3>6. QED  BY <3>2, <3>4, <3>5 DEF Goes, Made, Shape, BusShape
  <2>3. QED  BY <2>1, <2>2
<1>4. QED  BY <1>2, <1>3 DEF OrderInv

LEMMA OrderInit == Init => OrderInv
<1> SUFFICES ASSUME Init, NEW s \in Sides
             PROVE  /\ OnPath(s) = {}
                    /\ \A c : ~Taken(s, c)
  BY LinedApart DEF OrderInv
<1>1. /\ arrived[Other(s)] = <<>> /\ submitted[s] = <<>> /\ items[s] = <<>> /\ item[s] = <<>>
      /\ \A n \in Connections : wire[s][n] = <<>>
  BY TheSides DEF Init, LinkInit
<1>2. OnPath(s) = {}
  BY <1>1, Nothings DEF OnPath, Gone, Came, OnLink, InTask, InQueue
<1>3. QED  BY <1>1, <1>2 DEF Taken

---------------------------------------------------------------------------
(* What a flush waits for. *)

FlushLabel == <<"Flush", 0>>
FlushedLabel == <<"Flushed", 0>>

Flushes(s) == {f \in Calls : Op[f] = "flush" /\ From[f] = s}
Started(s) == \E f \in Flushes(s) : Made(f)

\* The stream of a side may still read; one that waits for itself never does again.
Listening(s) == stream[s] /\ reading[s] # "blocked"

\* The messages whose calls returned before f was made.
Msgs(f) == {c \in After[f] \cap Messages : From[c] = From[f]}
DoneWith(c) ==
  \/ \E j \in DOMAIN arrived[Other(From[c])] : arrived[Other(From[c])][j] = c
  \/ Sent(c) \in lost
  \/ ~Known(c)
AllDone(f) == \A c \in Msgs(f) : pc[c] = "done" => DoneWith(c)

\* Before the flush of a side is made nothing of a flush is under way, and need_flush tells
\* of every message.  Once it is made no message of before can get behind it, so that when
\* the other side reads it, and when it answers, and when the answer has come, these are
\* read or never will be.
FlushInv == \A s \in Sides :
  /\ \A c \in Messages : From[c] = s /\ pc[c] \in {"wait", "again", "done"} => Taken(s, c)
  /\ ~Started(s) /\ Listening(s) =>
       /\ FlushLabel \notin OnPath(s) /\ FlushedLabel \notin OnPath(Other(s))
       /\ reading[Other(s)] # "flush"
  /\ ~Started(s) /\ submitted[s] # <<>> => need[s]
  /\ \A f \in Flushes(s) :
       /\ Listening(s) => \A c \in Msgs(f) : Lined(s, {<<FlushLabel, Sent(c)>>})
       /\ Made(f) /\ Listening(s)
            /\ (reading[Other(s)] = "flush" \/ FlushedLabel \in OnPath(Other(s))) => AllDone(f)
       /\ pc[f] \in {"again", "done"} => AllDone(f)
       /\ Made(f) => \A d \in After[f] : Returned(d)

LEMMA ReturnedStays ==
  ASSUME Shape, [Next]_vars, NEW d \in Calls, Returned(d)
  PROVE  pc'[d] = pc[d] /\ Returned(d)'
<1>1. ASSUME NEW c \in Calls, NEW to, Goes(c, to), c # d
      PROVE  pc'[d] = pc[d]
  BY <1>1 DEF Goes, Shape, BusShape
<1>2. ASSUME NEW c \in Calls, Submit(c) \/ Flush(c) \/ Sync(c) \/ CloseBus(c)
      PROVE  pc'[d] = pc[d]
  <2>1. c # d
    BY <1>2 DEF Submit, Flush, Sync, CloseBus, MayStart, Returned
  <2>2. \E to : Goes(c, to)
    BY <1>2 DEF Submit, Flush, Sync, CloseBus
  <2>3. QED  BY <1>1, <2>1, <2>2
<1>3. ASSUME NEW s \in Sides, EventStream(s)
      PROVE  pc'[d] = pc[d]
  <2>1. CASE Notice(s)
    BY <2>1 DEF Notice, Returned
  <2>2. CASE Read(s)
    BY <2>2, ReadCases DEF OnSend, OnAction, OnEvent, Woken, Returned
  <2>3. CASE ReadEnds(s) \/ FlushReplies(s) \/ AwaitsItself(s)
    BY <2>3 DEF ReadEnds, FlushReplies, ReplyInStream, AwaitsItself, busVars
  <2>4. QED  BY <1>3, <2>1, <2>2, <2>3 DEF EventStream
<1>4. ASSUME NEW s \in Sides, NEW t \in working[s], Respond(s, t[1], t[2])
      PROVE  pc'[d] = pc[d]
  BY <1>4 DEF Respond
<1>5. pc'[d] = pc[d]
  BY <1>2, <1>3, <1>4, Steps DEF Trouble, vars, busVars
<1>6. QED  BY <1>5 DEF Returned

LEMMA ListeningStays ==
  ASSUME Shape, [Next]_vars, NEW s \in Sides, Listening(s)'
  PROVE  Listening(s)
<1>1. ASSUME UNCHANGED <<stream, reading>>
      PROVE  Listening(s)
  BY <1>1 DEF Listening
<1>2. ASSUME NEW t \in Sides, StreamEnds(t)
      PROVE  Listening(s)
  BY <1>2 DEF StreamEnds, Listening, Shape, TaskShape, BusShape
<1>3. ASSUME NEW t \in Sides, NEW to, reading[t] # "blocked", UNCHANGED stream,
             reading' = [reading EXCEPT ![t] = to]
      PROVE  Listening(s)
  BY <1>3 DEF Listening, Shape, BusShape
<1>4. ASSUME NEW t \in Sides, EventStream(t)
      PROVE  Listening(s)
  <2>1. CASE Notice(t)
    BY <1>1, <1>2, <2>1 DEF Notice
  <2>2. CASE Read(t)
    <3>1. UNCHANGED stream /\ reading[t] # "blocked"
      BY <2>2 DEF Read, Readable
    <3>2. UNCHANGED reading \/ \E to : reading' = [reading EXCEPT ![t] = to]
      BY <2>2, ReadCases DEF OnSend, OnAction, OnEvent
    <3>3. QED  BY <1>1, <1>3, <3>1, <3>2
  <2>3. CASE ReadEnds(t)
    BY <1>1, <2>3 DEF ReadEnds, busVars
  <2>4. CASE FlushReplies(t)
    <3>1. reading[t] # "blocked"
      BY <2>4 DEF FlushReplies
    <3>2. StreamEnds(t) \/ (UNCHANGED stream /\ reading' = [reading EXCEPT ![t] = "recv"])
      BY <2>4 DEF FlushReplies, ReplyInStream
    <3>3. QED  BY <1>2, <1>3, <3>1, <3>2
  <2>5. CASE AwaitsItself(t)
    <3>1. reading[t] # "blocked"
      BY <2>5 DEF AwaitsItself
    <3>2. StreamEnds(t) \/ (UNCHANGED stream /\ reading' = [reading EXCEPT ![t] = "blocked"])
      BY <2>5 DEF AwaitsItself
    <3>3. QED  BY <1>2, <1>3, <3>1, <3>2
  <2>6. QED  BY <1>4, <2>1, <2>2, <2>3, <2>4, <2>5 DEF EventStream
<1>5. ASSUME NEW c \in Calls, Submit(c) \/ Flush(c) \/ Sync(c) \/ CloseBus(c)
      PROVE  UNCHANGED <<stream, reading>>
  BY <1>5 DEF Submit, Flush, Sync, CloseBus, linkRest
<1>6. ASSUME NEW t \in Sides, TaskStep(t), UNCHANGED busVars
      PROVE  UNCHANGED <<stream, reading>>
  BY <1>6 DEF TaskStep, Connect, Accept, Established, Close, WriteTcp, WriteQuic, WriteFails,
              OpenFails, Finish, FinishFails, Leaves, busVars
<1>7. CASE Trouble
  BY <1>1, <1>7 DEF Trouble, EndOfConnections, Break, busVars
<1>8. ASSUME NEW t \in Sides, NEW e \in working[t], Respond(t, e[1], e[2])
      PROVE  UNCHANGED <<stream, reading>>
  BY <1>8 DEF Respond, linkRest
<1>9. CASE UNCHANGED vars
  BY <1>1, <1>9 DEF vars, linkVars, busVars
<1>10. QED  BY <1>1, <1>4, <1>5, <1>6, <1>7, <1>8, <1>9, Steps

\* What was read stays read, and what was lost stays lost.
LEMMA LostStays ==
  ASSUME [Next]_vars
  PROVE  lost \subseteq lost'
<1>1. ASSUME NEW s, NEW x, Queued(s, x)
      PROVE  lost \subseteq lost'
  BY <1>1 DEF Queued
<1>2. ASSUME NEW s, NEW how, Dies(s, how)
      PROVE  lost \subseteq lost'
  BY <1>2 DEF Dies
<1>3. ASSUME NEW c \in Calls, Submit(c) \/ Flush(c) \/ Sync(c) \/ CloseBus(c)
      PROVE  lost \subseteq lost'
  BY <1>1, <1>3 DEF Submit, Flush, Sync, CloseBus
<1>4. ASSUME NEW s \in Sides, EventStream(s)
      PROVE  lost \subseteq lost'
  BY <1>1, <1>4 DEF EventStream, Notice, Read, ReadEnds, FlushReplies, ReplyInStream, AwaitsItself
<1>5. ASSUME NEW s \in Sides, NEW t \in working[s], Respond(s, t[1], t[2])
      PROVE  lost \subseteq lost'
  BY <1>1, <1>5 DEF Respond
<1>6. ASSUME NEW s \in Sides, NEW kept, NEW rest, Leaves(s, kept, rest)
      PROVE  lost \subseteq lost'
  BY <1>2, <1>6 DEF Leaves
<1>7. ASSUME NEW s \in Sides, NEW n, Established(s, n)
      PROVE  lost \subseteq lost'
  BY <1>2, <1>7 DEF Established
<1>8. ASSUME NEW s \in Sides, TaskStep(s)
      PROVE  lost \subseteq lost'
  <2>1. CASE WriteTcp(s) \/ WriteQuic(s)
    BY <2>1 DEF WriteTcp, WriteQuic, Vanishes, Written
  <2>2. CASE OpenFails(s)
    BY <1>2, <2>2 DEF OpenFails
  <2>3. CASE Close(s) \/ WriteFails(s) \/ FinishFails(s)
    BY <1>6, <2>3 DEF Close, WriteFails, FinishFails
  <2>4. QED  BY <1>7, <1>8, <2>1, <2>2, <2>3 DEF TaskStep, Connect, Accept, Finish
<1>9. CASE Trouble
  BY <1>2, <1>9 DEF Trouble, EndOfConnections, Break
<1>10. QED  BY <1>3, <1>4, <1>5, <1>8, <1>9, Steps DEF vars, linkVars

LEMMA ArrivedStays ==
  ASSUME Shape, [Next]_vars, NEW s \in Sides
  PROVE  \A j \in DOMAIN arrived[s] : j \in DOMAIN arrived'[s] /\ arrived'[s][j] = arrived[s][j]
<1>1. ASSUME UNCHANGED arrived
      PROVE  \A j \in DOMAIN arrived[s] : j \in DOMAIN arrived'[s] /\ arrived'[s][j] = arrived[s][j]
  BY <1>1
<1>2. ASSUME NEW t \in Sides, Read(t)
      PROVE  \A j \in DOMAIN arrived[s] : j \in DOMAIN arrived'[s] /\ arrived'[s][j] = arrived[s][j]
  <2>1. UNCHANGED arrived \/ \E m : arrived' = [arrived EXCEPT ![t] = Append(@, m)]
    BY <1>2, ReadCases DEF OnSend, OnAction, OnEvent
  <2>2. arrived'[s] = arrived[s] \/ \E m : arrived'[s] = Append(arrived[s], m)
    <3>1. ASSUME NEW m, arrived' = [arrived EXCEPT ![t] = Append(@, m)]
          PROVE  arrived'[s] = arrived[s] \/ arrived'[s] = Append(arrived[s], m)
      BY <3>1 DEF Shape, BusShape
    <3>2. QED  BY <2>1, <3>1
  <2>3. arrived[s] \in Seq(Messages)
    BY DEF Shape, BusShape
  <2>4. \A q \in Seq(Messages) : \A m : \A j \in DOMAIN q :
          j \in DOMAIN Append(q, m) /\ Append(q, m)[j] = q[j]
    OBVIOUS
  <2>5. QED  BY <2>2, <2>3, <2>4
<1>3. ASSUME NEW c \in Calls, Submit(c) \/ Flush(c) \/ Sync(c) \/ CloseBus(c)
      PROVE  UNCHANGED arrived
  BY <1>3 DEF Submit, Flush, Sync, CloseBus
<1>4. ASSUME NEW t \in Sides, EventStream(t)
      PROVE  UNCHANGED arrived \/ Read(t)
  BY <1>4 DEF EventStream, Notice, ReadEnds, FlushReplies, ReplyInStream, AwaitsItself, busVars
<1>5. ASSUME NEW t \in Sides, NEW e \in working[t], Respond(t, e[1], e[2])
      PROVE  UNCHANGED arrived
  BY <1>5 DEF Respond
<1>6. QED  BY <1>1, <1>2, <1>3, <1>4, <1>5, Steps DEF Trouble, busVars, vars

LEMMA DoneWithStays ==
  ASSUME Shape, [Next]_vars, NEW c \in Messages, DoneWith(c)
  PROVE  DoneWith(c)'
<1>1. Other(From[c]) \in Sides
  BY CallTypes, TheSides
<1>2. QED  BY <1>1, LostStays, ArrivedStays DEF DoneWith, Known

LEMMA AllDoneStays ==
  ASSUME Shape, [Next]_vars, NEW f, \A d \in After[f] : Returned(d), After[f] \subseteq Calls, AllDone(f)
  PROVE  AllDone(f)'
<1>1. ASSUME NEW c \in Msgs(f), pc'[c] = "done"
      PROVE  DoneWith(c)'
  <2>1. c \in Calls /\ c \in Messages /\ Returned(c)
    BY <1>1 DEF Msgs
  <2>2. pc[c] = "done"
    BY <1>1, <2>1, ReturnedStays
  <2>3. QED  BY <1>1, <2>1, <2>2, DoneWithStays DEF AllDone
<1>2. QED  BY <1>1 DEF AllDone, Msgs

\* The label of the packet that a side reads next.
Ahead(s) == Titled(Other(s))[Head(Packets(s))]

LEMMA ReadAhead ==
  ASSUME Shape, NEW s \in Sides, Read(s)
  PROVE  LET x == Deserialize(Head(Packets(s)), s)
         IN  /\ Ahead(s) \in OnPath(Other(s))
             /\ x.what \in {"Flush", "Flushed"} => Ahead(s) = <<x.what, 0>>
<1> DEFINE o == Other(s)
           p == Head(Packets(s))
           x == Deserialize(p, s)
<1>1. PICK k \in Connections : k = Head(intake[s])
  BY TheRead DEF Shape, Read
<1>2. /\ wire[o][k] \in Seq(Travels(o)) /\ wire[o][k] # <<>> /\ p = Head(wire[o][k])
      /\ p \in Travels(o)
  BY <1>1, TheRead DEF Shape, Read, Packets
<1>3. Ahead(s) = <<p.kind, p.argument>>
  BY <1>2 DEF Ahead, Titled
<1>4. Ahead(s) \in OnLink(o, k)
  <2>1. 1 \in DOMAIN wire[o][k] /\ wire[o][k][1] = p
    BY <1>2
  <2>2. Titled(o)[p] = Ahead(s)
    BY DEF Ahead
  <2> HIDE DEF p, o
  <2>3. QED  BY <2>1, <2>2 DEF OnLink, Marks
<1>5. x.what \in {"Flush", "Flushed"} => Ahead(s) = <<x.what, 0>>
  <2>1. x.what \in {"Flush", "Flushed"} => x.what = p.kind /\ p.argument = 0
    BY <1>2, Reading
  <2>2. QED  BY <1>3, <2>1
<1>6. QED  BY <1>4, <1>5 DEF OnPath, Gone

\* What must not be behind the packet read next has been read, or is not on its way.
LEMMA AheadOf ==
  ASSUME Shape, ConnInv, NEW s \in Sides, Read(s), NEW v, v # Ahead(s),
         Lined(Other(s), {<<Ahead(s), v>>}), v \in OnPath(Other(s))
  PROVE  v \in Came(Other(s))
<1> DEFINE o == Other(s)
           u == Ahead(s)
           F == {<<u, v>>}
<1>1. o \in Sides
  BY TheSides
<1>2. PICK k \in Connections : k = Head(intake[s])
  BY TheRead DEF Shape, Read
<1>3. /\ wire[o][k] \in Seq(Travels(o)) /\ wire[o][k] # <<>>
      /\ Head(Packets(s)) = Head(wire[o][k])
  BY <1>2, TheRead DEF Shape, Read, Packets
<1>4. u = Titled(o)[Head(wire[o][k])]
  BY <1>3 DEF Ahead
<1>5. Lined(o, F) /\ v \in OnPath(o) /\ <<u, v>> \in F /\ v # u
  OBVIOUS
<1> HIDE DEF F, u, o
<1>6. /\ OnLink(o, k) = {u} \cup Marks(Tail(wire[o][k]), Titled(o))
      /\ Apart(F, {u}, Marks(Tail(wire[o][k]), Titled(o)))
  <2>1. Sorted(wire[o][k], Titled(o), F)
    BY <1>5 DEF Lined
  <2>2. /\ Marks(wire[o][k], Titled(o))
             = {Titled(o)[Head(wire[o][k])]} \cup Marks(Tail(wire[o][k]), Titled(o))
        /\ Apart(F, {Titled(o)[Head(wire[o][k])]}, Marks(Tail(wire[o][k]), Titled(o)))
    BY <1>3, <2>1, OneLess
  <2>3. QED  BY <1>4, <2>2 DEF OnLink
<1>7. v \notin OnLink(o, k)
  BY <1>5, <1>6 DEF Apart
<1>8. u \in Gone(o)
  BY <1>6 DEF Gone
<1>9. v \notin InTask(o) /\ v \notin InQueue(o)
  BY <1>5, <1>8 DEF Lined, Apart
<1>10. ASSUME NEW n \in Connections
       PROVE  v \notin OnLink(o, n)
  <2>1. CASE n < k
    <3>1. wire[o][n] = <<>>
      BY <1>2, <2>1, ReadsFirst DEF Read, o
    <3>2. QED  BY <3>1, Nothings DEF OnLink
  <2>2. CASE k < n
    <3>1. Apart(F, OnLink(o, k), OnLink(o, n))
      BY <1>5, <2>2 DEF Lined
    <3>2. u \in OnLink(o, k)
      BY <1>6
    <3>3. QED  BY <1>5, <3>1, <3>2 DEF Apart
  <2>3. QED  BY <1>7, <2>1, <2>2 DEF Connections
<1>11. v \in Came(o)
  BY <1>5, <1>9, <1>10 DEF OnPath, Gone
<1>12. QED  BY <1>11 DEF o

LEMMA LinedFree ==
  ASSUME NEW s
  PROVE  Lined(s, {})
BY DEF Lined, Sorted, Apart

\* A message gets behind the flush of a side only if it is submitted then.
LEMMA FlushLine ==
  ASSUME Shape, ConnInv, [Next]_vars, NEW s \in Sides, NEW c \in Messages,
         Lined(s, {<<FlushLabel, Sent(c)>>}),
         Submit(c) /\ From[c] = s => FlushLabel \notin OnPath(s)
  PROVE  Lined(s, {<<FlushLabel, Sent(c)>>})'
<1>1. PICK F : /\ F = {<<FlushLabel, Sent(c)>>}
               /\ \A x : <<x, x>> \notin F
               /\ \A x, y : <<x, y>> \in F => x = FlushLabel /\ y = Sent(c)
               /\ Lined(s, F)
  <2>1. FlushLabel # Sent(c)
    BY DEF FlushLabel, Sent
  <2>2. QED  BY <2>1
<1>2. ASSUME Moves
      PROVE  Lined(s, F)'
  BY <1>1, <1>2, LinedMoves
<1>3. ASSUME NEW t \in Sides, NEW x \in Apiece(t), Puts(t, x)
      PROVE  Lined(s, F)'
  <2>1. x \in Travelling(t) \cup {Closing} /\ Label(x) # Sent(c)
    BY <1>3, ApieceLabel DEF Sent
  <2>2. QED  BY <1>1, <1>3, <2>1, LinedPuts
<1>4. ASSUME NEW d \in Messages, Submit(d)
      PROVE  Lined(s, F)'
  <2>1. CASE UNCHANGED <<transport, items, item, wire, arrived>>
    BY <1>1, <2>1, LinedSame
  <2>2. CASE Puts(From[d], Sending(d))
    <3>1. PICK t \in Sides : t = From[d]
      BY CallTypes
    <3>2. Sending(d) \in Travelling(t) \cup {Closing} /\ Label(Sending(d)) = Sent(d)
      <4>1. Sending(d) \in Travelling(t)
        BY <3>1, Queueable
      <4>2. QED  BY <4>1, Fields, Traveller DEF Sent
    <3>3. PICK x \in Travelling(t) \cup {Closing} : x = Sending(d)
      BY <3>2
    <3>4. Puts(t, x) /\ Label(x) = Sent(d)
      BY <2>2, <3>1, <3>2, <3>3
    <3>5. s = t => \A y \in OnPath(s) : <<y, Label(x)>> \notin F
      <4>1. Sent(d) = Sent(c) => d = c
        BY DEF Sent
      <4>2. QED  BY <1>1, <1>4, <3>1, <3>4, <4>1
    <3>6. QED  BY <1>1, <3>4, <3>5, LinedPuts
  <2>3. QED  BY <1>4, <2>1, <2>2, SubmitPuts
<1>5. Lined(s, F)'
  BY <1>2, <1>3, <1>4, WhatHappens
<1>6. QED  BY <1>1, <1>5

\* Who sends Flush, and who answers it.
LEMMA FlushPath ==
  ASSUME Shape, ConnInv, [Next]_vars, NEW s \in Sides
  PROVE  /\ FlushLabel \in OnPath(s)' =>
              \/ FlushLabel \in OnPath(s)
              \/ \E c \in Calls : Flush(c) /\ From[c] = s
              \/ AwaitsItself(s) /\ reading[s] = "flush"
         /\ FlushedLabel \in OnPath(s)' => FlushedLabel \in OnPath(s) \/ FlushReplies(s)
<1>1. CASE Moves
  BY <1>1, LinedFree, LinedMoves
<1>2. ASSUME NEW t \in Sides, NEW x \in Travelling(t) \cup {Closing}, Puts(t, x)
      PROVE  OnPath(s)' \subseteq OnPath(s) \cup {y \in {Label(x)} : s = t}
  BY <1>2, LinedFree, LinedPuts
<1>3. /\ \A c, l : Label(Reply(c, l)) = <<"Response", c>>
      /\ Label(Completes(1, "type")) = <<"BatchComplete", 1>>
      /\ \A w \in {"Flush", "Synchronize", "Flushed"} : Label(Plain(w)) = <<w, 0>>
      /\ Label(Closing) = <<>>
      /\ \A c : Label(Sending(c)) = <<"Send", c>>
  <2>1. Closing.what = "closing"
    BY DEF Closing
  <2>2. /\ \A x : x.what # "closing" => x # Closing
    BY <2>1
  <2>3. /\ \A w \in {"Flush", "Synchronize", "Flushed"} : Label(Plain(w)) = <<w, 0>>
    BY Fields, <2>2 DEF Label
  <2>4. Label(Closing) = <<>>
    BY DEF Label
  <2>5. Label(Completes(1, "type")) = <<"BatchComplete", 1>>
    BY <2>2, Fields DEF Label
  <2>6. /\ \A c, l : Label(Reply(c, l)) = <<"Response", c>>
        /\ \A c : Label(Sending(c)) = <<"Send", c>>
    BY <2>2, Fields DEF Label
  <2>7. QED  BY <2>3, <2>4, <2>5, <2>6
<1>4. /\ \A c : FlushLabel # <<"Response", c>> /\ FlushedLabel # <<"Response", c>>
      /\ \A c : FlushLabel # <<"Send", c>> /\ FlushedLabel # <<"Send", c>>
      /\ FlushLabel # <<>> /\ FlushedLabel # <<>>
      /\ FlushLabel # <<"BatchComplete", 1>> /\ FlushedLabel # <<"BatchComplete", 1>>
      /\ FlushLabel # <<"Synchronize", 0>> /\ FlushedLabel # <<"Synchronize", 0>>
      /\ FlushLabel # FlushedLabel
  BY DEF FlushLabel, FlushedLabel
<1>5. ASSUME NEW c \in Calls, Submit(c) \/ Flush(c) \/ Sync(c) \/ CloseBus(c)
      PROVE  /\ FlushLabel \in OnPath(s)' =>
                  FlushLabel \in OnPath(s) \/ (Flush(c) /\ From[c] = s)
             /\ FlushedLabel \in OnPath(s)' => FlushedLabel \in OnPath(s)
  <2>1. PICK t \in Sides : t = From[c]
    BY CallTypes
  <2>2. CASE Submit(c)
    <3>1. CASE UNCHANGED <<transport, items, item, wire, arrived>>
      BY <3>1, LinedFree, LinedSame
    <3>2. CASE Puts(From[c], Sending(c))
      <4>1. c \in Messages
        BY <2>2 DEF Submit
      <4>2. Sending(c) \in Travelling(t)
        BY <2>1, <4>1, Queueable
      <4>3. PICK x \in Travelling(t) : x = Sending(c)
        BY <4>2
      <4>4. OnPath(s)' \subseteq OnPath(s) \cup {y \in {Label(x)} : s = t}
        BY <1>2, <2>1, <3>2, <4>3
      <4>5. QED  BY <1>3, <1>4, <4>3, <4>4
    <3>3. QED  BY <2>2, <3>1, <3>2, SubmitPuts
  <2>3. CASE Flush(c)
    <3>1. Plain("Flush") \in Travelling(t) /\ Puts(t, Plain("Flush"))
      BY <2>1, <2>3, CallPuts, Queueable
    <3>2. OnPath(s)' \subseteq OnPath(s) \cup {y \in {Label(Plain("Flush"))} : s = t}
      BY <1>2, <3>1
    <3>3. QED  BY <1>3, <1>4, <2>1, <2>3, <3>2 DEF FlushLabel
  <2>4. CASE Sync(c)
    <3>1. Plain("Synchronize") \in Travelling(t) /\ Puts(t, Plain("Synchronize"))
      BY <2>1, <2>4, CallPuts, Queueable
    <3>2. OnPath(s)' \subseteq OnPath(s) \cup {y \in {Label(Plain("Synchronize"))} : s = t}
      BY <1>2, <3>1
    <3>3. QED  BY <1>3, <1>4, <3>2
  <2>5. CASE CloseBus(c)
    <3>1. Closing \in Travelling(t) \cup {Closing} /\ Puts(t, Closing)
      BY <2>1, <2>5, CallPuts
    <3>2. OnPath(s)' \subseteq OnPath(s) \cup {y \in {Label(Closing)} : s = t}
      BY <1>2, <3>1
    <3>3. QED  BY <1>3, <1>4, <3>2
  <2>6. QED  BY <1>5, <2>2, <2>3, <2>4, <2>5
<1>6. ASSUME NEW t \in Sides, FlushReplies(t) \/ AwaitsItself(t)
      PROVE  /\ FlushLabel \in OnPath(s)' =>
                  FlushLabel \in OnPath(s) \/ (AwaitsItself(t) /\ reading[t] = "flush" /\ t = s)
             /\ FlushedLabel \in OnPath(s)' =>
                  FlushedLabel \in OnPath(s) \/ (FlushReplies(t) /\ t = s)
  <2>1. \A w \in {"Flush", "Synchronize", "Flushed"} :
          Puts(t, Plain(w)) => OnPath(s)' \subseteq OnPath(s) \cup {y \in {<<w, 0>>} : s = t}
    <3>1. ASSUME NEW w \in {"Flush", "Synchronize", "Flushed"}, Puts(t, Plain(w))
          PROVE  OnPath(s)' \subseteq OnPath(s) \cup {y \in {<<w, 0>>} : s = t}
      <4>1. Plain(w) \in Travelling(t)
        BY Queueable
      <4>2. QED  BY <1>2, <1>3, <3>1, <4>1
    <3>2. QED  BY <3>1
  <2>2. CASE Puts(t, Plain("Flushed")) /\ FlushReplies(t)
    BY <1>4, <2>1, <2>2 DEF FlushedLabel
  <2>3. CASE Puts(t, Plain("Flush")) /\ AwaitsItself(t) /\ reading[t] = "flush"
    BY <1>4, <2>1, <2>3 DEF FlushLabel
  <2>4. CASE Puts(t, Plain("Synchronize"))
    BY <1>4, <2>1, <2>4
  <2>5. QED  BY <1>6, <2>2, <2>3, <2>4, StreamPuts
<1>7. ASSUME NEW t \in Sides, NEW e \in working[t], Respond(t, e[1], e[2])
      PROVE  /\ FlushLabel \in OnPath(s)' => FlushLabel \in OnPath(s)
             /\ FlushedLabel \in OnPath(s)' => FlushedLabel \in OnPath(s)
  <2>1. CASE \E c \in Messages : Puts(t, Reply(c, Message(Answer)))
    <3>1. PICK c \in Messages : Puts(t, Reply(c, Message(Answer)))
      BY <2>1
    <3>2. Reply(c, Message(Answer)) \in Travelling(t)
      BY Queueable
    <3>3. OnPath(s)' \subseteq OnPath(s) \cup {y \in {Label(Reply(c, Message(Answer)))} : s = t}
      BY <1>2, <3>1, <3>2
    <3>4. QED  BY <1>3, <1>4, <3>3
  <2>2. CASE Puts(t, Completes(1, "type"))
    <3>1. Completes(1, "type") \in Travelling(t)
      BY Queueable
    <3>2. OnPath(s)' \subseteq OnPath(s) \cup {y \in {Label(Completes(1, "type"))} : s = t}
      BY <1>2, <2>2, <3>1
    <3>3. QED  BY <1>3, <1>4, <3>2
  <2>3. QED  BY <1>7, <2>1, <2>2, RespondPuts
<1>8. ASSUME NEW t \in Sides, EventStream(t)
      PROVE  Moves \/ FlushReplies(t) \/ AwaitsItself(t)
  BY <1>8 DEF EventStream, Moves
<1>9. QED  BY <1>1, <1>5, <1>6, <1>7, <1>8, Steps DEF Moves

\* What the steps do to the state a flush looks at.
LEMMA ReadingFrom ==
  ASSUME Shape, [Next]_vars, NEW s \in Sides, reading'[s] = "flush", reading[s] # "flush"
  PROVE  Read(s) /\ Ahead(s) = FlushLabel
<1>1. ASSUME NEW t \in Sides, NEW to \in {"recv", "blocked", "sync"},
             reading' = [reading EXCEPT ![t] = to]
      PROVE  FALSE
  BY <1>1 DEF Shape, BusShape
<1>2. ASSUME NEW t \in Sides, Read(t)
      PROVE  Read(s) /\ Ahead(s) = FlushLabel
  <2> DEFINE x == Deserialize(Head(Packets(t)), t)
  <2>1. \/ UNCHANGED reading
        \/ reading' = [reading EXCEPT ![t] = "sync"]
        \/ reading' = [reading EXCEPT ![t] = "flush"] /\ x.what = "Flush"
    BY <1>2, ReadCases DEF OnSend, OnAction, OnEvent
  <2>2. x.what = "Flush" => Ahead(t) = FlushLabel
    BY <1>2, ReadAhead DEF FlushLabel
  <2> HIDE DEF x
  <2>3. reading' = [reading EXCEPT ![t] = "flush"] => t = s
    BY DEF Shape, BusShape
  <2>4. QED  BY <1>1, <1>2, <2>1, <2>2, <2>3
<1>3. ASSUME NEW c \in Calls, Submit(c) \/ Flush(c) \/ Sync(c) \/ CloseBus(c)
      PROVE  UNCHANGED reading
  BY <1>3 DEF Submit, Flush, Sync, CloseBus
<1>4. ASSUME NEW t \in Sides, EventStream(t)
      PROVE  UNCHANGED reading \/ Read(t) \/ \E to \in {"recv", "blocked", "sync"} :
                                               reading' = [reading EXCEPT ![t] = to]
  BY <1>4 DEF EventStream, Notice, ReadEnds, FlushReplies, ReplyInStream, AwaitsItself, StreamEnds,
              busVars
<1>5. ASSUME NEW t \in Sides, NEW e \in working[t], Respond(t, e[1], e[2])
      PROVE  UNCHANGED reading
  BY <1>5 DEF Respond
<1>6. QED  BY <1>1, <1>2, <1>3, <1>4, <1>5, Steps DEF Trouble, busVars, vars

LEMMA NeedFrom ==
  ASSUME Shape, [Next]_vars, NEW s \in Sides, need[s], ~need'[s]
  PROVE  Read(s) /\ Ahead(s) = FlushedLabel
<1>1. ASSUME NEW t \in Sides, Read(t)
      PROVE  Read(s) /\ Ahead(s) = FlushedLabel
  <2> DEFINE x == Deserialize(Head(Packets(t)), t)
  <2>1. \/ UNCHANGED need
        \/ need' = [need EXCEPT ![t] = FALSE] /\ x.what = "Flushed"
    BY <1>1, ReadCases DEF OnSend, OnAction, OnEvent
  <2>2. x.what = "Flushed" => Ahead(t) = FlushedLabel
    BY <1>1, ReadAhead DEF FlushedLabel
  <2> HIDE DEF x
  <2>3. need' = [need EXCEPT ![t] = FALSE] => t = s
    BY DEF Shape, BusShape
  <2>4. QED  BY <1>1, <2>1, <2>2, <2>3
<1>2. ASSUME NEW c \in Calls, Submit(c) \/ Flush(c) \/ Sync(c) \/ CloseBus(c)
      PROVE  need'[s]
  <2>1. UNCHANGED need \/ \E t : need' = [need EXCEPT ![t] = TRUE]
    BY <1>2 DEF Submit, Flush, Sync, CloseBus
  <2>2. QED  BY <2>1 DEF Shape, BusShape
<1>3. ASSUME NEW t \in Sides, EventStream(t)
      PROVE  UNCHANGED need \/ Read(t)
  BY <1>3 DEF EventStream, Notice, ReadEnds, FlushReplies, ReplyInStream, AwaitsItself, busVars
<1>4. ASSUME NEW t \in Sides, NEW e \in working[t], Respond(t, e[1], e[2])
      PROVE  UNCHANGED need
  BY <1>4 DEF Respond
<1>5. QED  BY <1>1, <1>2, <1>3, <1>4, Steps DEF Trouble, busVars, vars

\* How a flush gets on.
LEMMA FlushFrom ==
  ASSUME Shape, [Next]_vars, NEW f \in Calls, Op[f] = "flush", pc'[f] # pc[f]
  PROVE  \/ Flush(f) /\ pc'[f] # "again" /\ (pc'[f] = "done" => ~need[From[f]])
         \/ /\ pc[f] = "wait" /\ pc'[f] = "again"
            /\ Read(From[f]) /\ Ahead(From[f]) = FlushedLabel
<1>1. f \notin Messages
  BY DEF Messages
<1>2. ASSUME NEW c \in Calls, Submit(c) \/ Flush(c) \/ Sync(c) \/ CloseBus(c)
      PROVE  Flush(f) /\ pc'[f] # "again" /\ (pc'[f] = "done" => ~need[From[f]])
  <2>1. \E to : Goes(c, to)
    BY <1>2 DEF Submit, Flush, Sync, CloseBus
  <2>2. c = f
    BY <2>1 DEF Goes, Shape, BusShape
  <2>3. Flush(f)
    BY <1>1, <1>2, <2>2 DEF Submit, Sync, CloseBus
  <2>4. pc'[f] # "again" /\ (pc'[f] = "done" => ~need[From[f]])
    BY <2>3 DEF Flush, Goes, Shape, BusShape
  <2>5. QED  BY <2>3, <2>4
<1>3. ASSUME NEW t \in Sides, EventStream(t)
      PROVE  /\ pc[f] = "wait" /\ pc'[f] = "again"
             /\ Read(From[f]) /\ Ahead(From[f]) = FlushedLabel
  <2>1. CASE Notice(t)
    BY <2>1 DEF Notice
  <2>2. CASE Read(t)
    <3> DEFINE x == Deserialize(Head(Packets(t)), t)
    <3>1. pc'[f] = "again" /\ pc[f] = "wait" /\ From[f] = t /\ x.what = "Flushed"
      BY <2>2, ReadCases DEF OnSend, OnAction, OnEvent, Woken
    <3>2. Ahead(t) = FlushedLabel
      BY <2>2, <3>1, ReadAhead DEF FlushedLabel
    <3>3. QED  BY <2>2, <3>1, <3>2
  <2>3. CASE ReadEnds(t) \/ FlushReplies(t) \/ AwaitsItself(t)
    BY <2>3 DEF ReadEnds, FlushReplies, ReplyInStream, AwaitsItself, busVars
  <2>4. QED  BY <1>3, <2>1, <2>2, <2>3 DEF EventStream
<1>4. ASSUME NEW t \in Sides, NEW e \in working[t], Respond(t, e[1], e[2])
      PROVE  FALSE
  BY <1>4 DEF Respond
<1>5. QED  BY <1>2, <1>3, <1>4, Steps DEF Trouble, busVars, vars

LEMMA FlushMade ==
  ASSUME Shape, NEW f \in Calls, Flush(f)
  PROVE  /\ Op[f] = "flush" /\ Made(f)'
         /\ MayStart(f) \/ pc[f] = "again"
BY DEF Flush, Goes, Made, Shape, BusShape

LEMMA TakenStays ==
  ASSUME Shape, [Next]_vars, NEW s \in Sides, NEW c \in Messages, From[c] = s,
         pc[c] \in {"wait", "again", "done"} => Taken(s, c)
  PROVE  pc'[c] \in {"wait", "again", "done"} => Taken(s, c)'
<1>1. UNCHANGED submitted \/ \E d \in Messages :
        Submit(d) /\ submitted' = [submitted EXCEPT ![From[d]] = Append(@, d)]
  <2>1. ASSUME NEW d \in Calls, Submit(d) \/ Flush(d) \/ Sync(d) \/ CloseBus(d)
        PROVE  \/ UNCHANGED submitted
               \/ /\ d \in Messages /\ Submit(d)
                  /\ submitted' = [submitted EXCEPT ![From[d]] = Append(@, d)]
    <3>1. CASE Submit(d)
      BY <3>1, SubmitPuts DEF Submit
    <3>2. CASE Flush(d) \/ Sync(d) \/ CloseBus(d)
      BY <3>2 DEF Flush, Sync, CloseBus
    <3>3. QED  BY <2>1, <3>1, <3>2
  <2>2. ASSUME NEW t \in Sides, EventStream(t)
        PROVE  UNCHANGED submitted
    BY <2>2 DEF EventStream, Notice, Read, ReadEnds, FlushReplies, ReplyInStream, AwaitsItself,
                busVars
  <2>3. ASSUME NEW t \in Sides, NEW e \in working[t], Respond(t, e[1], e[2])
        PROVE  UNCHANGED submitted
    BY <2>3 DEF Respond
  <2>4. QED  BY <2>1, <2>2, <2>3, Steps DEF Trouble, busVars, vars
<1>2. Taken(s, c) => Taken(s, c)'
  <2>1. ASSUME NEW d \in Messages, submitted' = [submitted EXCEPT ![From[d]] = Append(@, d)]
        PROVE  Taken(s, c) => Taken(s, c)'
    <3>1. submitted'[s] = submitted[s] \/ submitted'[s] = Append(submitted[s], d)
      BY <2>1 DEF Shape, BusShape
    <3>2. submitted[s] \in Seq(Messages)
      BY DEF Shape, BusShape
    <3>3. \A q \in Seq(Messages) : \A i \in DOMAIN q :
            i \in DOMAIN Append(q, d) /\ Append(q, d)[i] = q[i]
      OBVIOUS
    <3>4. QED  BY <3>1, <3>2, <3>3 DEF Taken
  <2>2. QED  BY <1>1, <2>1 DEF Taken
<1>3. ASSUME pc[c] \notin {"wait", "again", "done"}, pc'[c] \in {"wait", "again", "done"}
      PROVE  Taken(s, c)'
  <2>1. Submit(c)
    <3>1. ASSUME NEW d \in Calls, Submit(d) \/ Flush(d) \/ Sync(d) \/ CloseBus(d)
          PROVE  Submit(c)
      <4>1. \E to : Goes(d, to)
        BY <3>1 DEF Submit, Flush, Sync, CloseBus
      <4>2. d = c
        BY <1>3, <4>1, CallTypes DEF Goes, Shape, BusShape
      <4>3. QED  BY <3>1, <4>2 DEF Flush, Sync, CloseBus, Messages
    <3>2. ASSUME NEW t \in Sides, EventStream(t)
          PROVE  FALSE
      <4>1. CASE Notice(t)
        BY <1>3, <4>1, CallTypes DEF Notice
      <4>2. CASE Read(t)
        BY <1>3, <4>2, CallTypes, ReadCases DEF OnSend, OnAction, OnEvent, Woken
      <4>3. CASE ReadEnds(t) \/ FlushReplies(t) \/ AwaitsItself(t)
        BY <1>3, <4>3 DEF ReadEnds, FlushReplies, ReplyInStream, AwaitsItself, busVars
      <4>4. QED  BY <3>2, <4>1, <4>2, <4>3 DEF EventStream
    <3>3. ASSUME NEW t \in Sides, NEW e \in working[t], Respond(t, e[1], e[2])
          PROVE  FALSE
      BY <1>3, <3>3 DEF Respond
    <3>4. QED  BY <1>3, <3>1, <3>2, <3>3, Steps DEF Trouble, busVars, vars
  <2>2. ~TaskGone(s) /\ submitted' = [submitted EXCEPT ![s] = Append(@, c)]
    <3>1. pc'[c] # "failed" => ~(closed[s] /\ Op[c] = "send") /\ ~TaskGone(s)
      BY <2>1, CallTypes DEF Submit, Goes, Shape, BusShape
    <3>2. QED  BY <1>3, <2>1, <3>1 DEF Submit
  <2>3. submitted[s] \in Seq(Messages) /\ submitted'[s] = Append(submitted[s], c)
    BY <2>2 DEF Shape, BusShape
  <2>4. \A q \in Seq(Messages) : Len(q) + 1 \in DOMAIN Append(q, c) /\ Append(q, c)[Len(q) + 1] = c
    OBVIOUS
  <2>5. QED  BY <2>3, <2>4 DEF Taken
<1>4. QED  BY <1>2, <1>3

LEMMA KeptOnPath ==
  ASSUME Shape, NEW s \in Sides, NEW c \in Messages
  PROVE  /\ Kept(s, c) \/ OnWire(s, c) => Sent(c) \in OnPath(s)
         /\ Sent(c) \in Came(s) => Arrived(s, c)
<1>1. ASSUME Queues(s, c)
      PROVE  Sent(c) \in OnPath(s)
  <2>1. PICK i \in DOMAIN items[s] : Label(items[s][i]) = Sent(c)
    BY <1>1 DEF Queues, Sent
  <2>2. items[s][i] \in Travelling(s) \cup {Closing}
    <3>1. items[s] \in Seq(Travelling(s) \cup {Closing})
      BY DEF Shape, QueueShape
    <3>2. \A T : \A q \in Seq(T) : \A j \in DOMAIN q : q[j] \in T
      OBVIOUS
    <3>3. QED  BY <2>1, <3>1, <3>2
  <2>3. Named(s)[items[s][i]] = Sent(c)
    BY <2>1, <2>2, LabelsOf
  <2>4. QED  BY <2>3 DEF OnPath, InQueue, Marks
<1>2. ASSUME Holds(s, c)
      PROVE  Sent(c) \in OnPath(s)
  <2>1. PICK i \in DOMAIN item[s] : Label(item[s][i]) = Sent(c)
    BY <1>2 DEF Holds, Sent
  <2>2. item[s][i] \in Travelling(s) \cup {Closing}
    BY <2>1 DEF Shape, QueueShape
  <2>3. Named(s)[item[s][i]] = Sent(c)
    BY <2>1, <2>2, LabelsOf
  <2>4. QED  BY <2>3 DEF OnPath, InTask, Marks
<1>3. ASSUME OnWire(s, c)
      PROVE  Sent(c) \in OnPath(s)
  <2>1. PICK n \in Connections : \E i \in DOMAIN wire[s][n] :
          wire[s][n][i].kind = "Send" /\ wire[s][n][i].argument = c
    BY <1>3 DEF OnWire
  <2>2. PICK i \in DOMAIN wire[s][n] : wire[s][n][i].kind = "Send" /\ wire[s][n][i].argument = c
    BY <2>1
  <2>3. wire[s][n][i] \in Travels(s)
    BY <2>2 DEF Shape, WireShape
  <2>4. Titled(s)[wire[s][n][i]] = Sent(c)
    BY <2>2, <2>3 DEF Titled, Sent
  <2>5. QED  BY <2>4 DEF OnPath, Gone, OnLink, Marks
<1>4. ASSUME Sent(c) \in Came(s)
      PROVE  Arrived(s, c)
  <2>1. PICK i \in DOMAIN arrived[Other(s)] : Called[arrived[Other(s)][i]] = Sent(c)
    BY <1>4 DEF Came, Marks
  <2>2. arrived[Other(s)][i] \in Messages
    BY <2>1, TheSides DEF Shape, BusShape
  <2>3. arrived[Other(s)][i] = c
    BY <2>1, <2>2 DEF Called, Sent
  <2>4. QED  BY <2>3 DEF Arrived
<1>5. QED  BY <1>1, <1>2, <1>3, <1>4 DEF Kept

\* When the other side reads the flush of s.
LEMMA FlushIsRead ==
  ASSUME Shape, ConnInv, ConservedInv, FlushInv, NEW s \in Sides, NEW f \in Flushes(s),
         Listening(s), Read(Other(s)), Ahead(Other(s)) = FlushLabel
  PROVE  AllDone(f)
<1>1. Other(s) \in Sides /\ Other(Other(s)) = s
  BY TheSides
<1>2. ASSUME NEW c \in Msgs(f), pc[c] = "done"
      PROVE  DoneWith(c)
  <2>1. c \in Messages /\ From[c] = s
    BY DEF Msgs, Flushes
  <2>2. Taken(s, c)
    BY <1>2, <2>1 DEF FlushInv
  <2>3. Kept(s, c) \/ Passed(s, c)
    BY <2>2 DEF ConservedInv, Taken
  <2>4. CASE Kept(s, c) \/ OnWire(s, c)
    <3>1. Sent(c) \in OnPath(s)
      BY <2>1, <2>4, KeptOnPath
    <3>2. Lined(s, {<<FlushLabel, Sent(c)>>}) /\ Sent(c) # FlushLabel
      BY DEF FlushInv, Sent, FlushLabel
    <3>3. PICK o \in Sides : o = Other(s)
      BY <1>1
    <3>4. Sent(c) \in Came(Other(o))
      BY <1>1, <3>1, <3>2, <3>3, AheadOf
    <3>5. Arrived(s, c)
      BY <1>1, <2>1, <3>3, <3>4, KeptOnPath
    <3>6. QED  BY <2>1, <3>5 DEF DoneWith, Arrived
  <2>5. CASE Arrived(s, c) \/ <<"Send", c>> \in lost \/ ~Known(c)
    BY <2>1, <2>5 DEF DoneWith, Arrived, Sent
  <2>6. QED  BY <2>3, <2>4, <2>5 DEF Passed
<1>3. QED  BY <1>2 DEF AllDone

LEMMA OneFlush ==
  ASSUME NEW s, NEW f \in Flushes(s)
  PROVE  /\ Started(s) <=> Made(f)
         /\ f \in Calls /\ Op[f] = "flush" /\ From[f] = s /\ After[f] \subseteq Calls
<1>1. f \in Calls /\ Op[f] = "flush" /\ From[f] = s /\ After[f] \subseteq Calls
  BY RemoteBusAssumption DEF Flushes
<1>2. \A g \in Flushes(s) : g = f
  BY <1>1, RemoteBusAssumption DEF Flushes
<1>3. QED  BY <1>1, <1>2 DEF Started

\* Before the flush of a side is made.
LEMMA FlushNotMade ==
  ASSUME Shape, ConnInv, FlushInv, [Next]_vars, NEW s \in Sides, ~Started(s)'
  PROVE  /\ Listening(s)' =>
              /\ FlushLabel \notin OnPath(s)' /\ FlushedLabel \notin OnPath(Other(s))'
              /\ reading'[Other(s)] # "flush"
         /\ submitted'[s] # <<>> => need'[s]
<1>1. ~Started(s)
  <2>1. ASSUME NEW f \in Flushes(s), Made(f)
        PROVE  Started(s)'
    BY <2>1, MadeStays DEF Started, Flushes
  <2>2. QED  BY <2>1 DEF Started
<1>2. Other(s) \in Sides /\ Other(Other(s)) = s
  BY TheSides
<1>3. Listening(s) => /\ FlushLabel \notin OnPath(s) /\ FlushedLabel \notin OnPath(Other(s))
                      /\ reading[Other(s)] # "flush"
  BY <1>1 DEF FlushInv
<1>4. ASSUME Listening(s)'
      PROVE  /\ FlushLabel \notin OnPath(s)' /\ FlushedLabel \notin OnPath(Other(s))'
             /\ reading'[Other(s)] # "flush"
  <2>1. Listening(s)
    BY <1>4, ListeningStays
  <2>2. FlushLabel \notin OnPath(s)'
    <3>1. ASSUME NEW c \in Calls, Flush(c), From[c] = s
          PROVE  FALSE
      BY <3>1, FlushMade DEF Started, Flushes
    <3>2. ASSUME AwaitsItself(s)
          PROVE  FALSE
      BY <1>4, <3>2 DEF AwaitsItself, StreamEnds, Listening, Shape, BusShape, TaskShape
    <3>3. QED  BY <1>3, <2>1, <3>1, <3>2, FlushPath
  <2>3. FlushedLabel \notin OnPath(Other(s))'
    BY <1>2, <1>3, <2>1, FlushPath DEF FlushReplies
  <2>4. reading'[Other(s)] # "flush"
    <3>1. ASSUME reading'[Other(s)] = "flush"
          PROVE  FALSE
      <4>1. Read(Other(s)) /\ Ahead(Other(s)) = FlushLabel
        BY <1>2, <1>3, <2>1, <3>1, ReadingFrom
      <4>2. FlushLabel \in OnPath(s)
        BY <1>2, <4>1, ReadAhead
      <4>3. QED  BY <1>3, <2>1, <4>2
    <3>2. QED  BY <3>1
  <2>5. QED  BY <2>2, <2>3, <2>4
<1>5. ASSUME submitted'[s] # <<>>
      PROVE  need'[s]
  <2>1. CASE submitted[s] # <<>>
    <3>1. need[s]
      BY <1>1, <2>1 DEF FlushInv
    <3>2. ASSUME ~need'[s]
          PROVE  FALSE
      <4>1. Read(s) /\ Ahead(s) = FlushedLabel
        BY <3>1, <3>2, NeedFrom
      <4>2. FlushedLabel \in OnPath(Other(s))
        BY <4>1, ReadAhead
      <4>3. Listening(s)
        BY <4>1 DEF Read, Readable, Listening
      <4>4. QED  BY <1>3, <4>2, <4>3
    <3>3. QED  BY <3>2
  <2>2. CASE submitted[s] = <<>>
    <3>1. ~(UNCHANGED submitted)
      BY <1>5, <2>2
    <3>2. PICK c \in Calls : Submit(c)
      <4>1. ASSUME NEW c \in Calls, Flush(c) \/ Sync(c) \/ CloseBus(c)
            PROVE  FALSE
        BY <3>1, <4>1 DEF Flush, Sync, CloseBus
      <4>2. ASSUME NEW t \in Sides, EventStream(t)
            PROVE  FALSE
        BY <3>1, <4>2 DEF EventStream, Notice, Read, ReadEnds, FlushReplies, ReplyInStream,
                          AwaitsItself, busVars
      <4>3. ASSUME NEW t \in Sides, NEW e \in working[t], Respond(t, e[1], e[2])
            PROVE  FALSE
        BY <3>1, <4>3 DEF Respond
      <4>4. QED  BY <3>1, <4>1, <4>2, <4>3, Steps DEF Trouble, busVars, vars
    <3>3. /\ submitted' = [submitted EXCEPT ![From[c]] = Append(@, c)]
          /\ need' = [need EXCEPT ![From[c]] = TRUE]
      BY <3>1, <3>2 DEF Submit
    <3>4. From[c] = s
      BY <1>5, <2>2, <3>3 DEF Shape, BusShape
    <3>5. QED  BY <3>3, <3>4 DEF Shape, BusShape
  <2>3. QED  BY <2>1, <2>2
<1>6. QED  BY <1>4, <1>5

LEMMA FlushGoesOn ==
  ASSUME Shape, ConnInv, ConservedInv, FlushInv, [Next]_vars, NEW s \in Sides,
         NEW f \in Flushes(s)
  PROVE  /\ Listening(s)' => \A c \in Msgs(f) : Lined(s, {<<FlushLabel, Sent(c)>>})'
         /\ Made(f)' /\ Listening(s)'
              /\ (reading'[Other(s)] = "flush" \/ FlushedLabel \in OnPath(Other(s))')
              => AllDone(f)'
         /\ pc'[f] \in {"again", "done"} => AllDone(f)'
         /\ Made(f)' => \A d \in After[f] : Returned(d)'
<1>1. Other(s) \in Sides /\ Other(Other(s)) = s
  BY TheSides
<1>2. /\ f \in Calls /\ Op[f] = "flush" /\ From[f] = s /\ After[f] \subseteq Calls
      /\ Started(s) <=> Made(f)
  BY OneFlush
<1>3. /\ Made(f) => \A d \in After[f] : Returned(d)
      /\ pc[f] \in {"again", "done"} => AllDone(f)
      /\ Made(f) /\ Listening(s)
           /\ (reading[Other(s)] = "flush" \/ FlushedLabel \in OnPath(Other(s))) => AllDone(f)
      /\ ~Made(f) /\ Listening(s) =>
           /\ FlushLabel \notin OnPath(s) /\ FlushedLabel \notin OnPath(Other(s))
           /\ reading[Other(s)] # "flush"
      /\ ~Made(f) /\ submitted[s] # <<>> => need[s]
  BY <1>2 DEF FlushInv
<1>4. (\A d \in After[f] : Returned(d)) /\ AllDone(f) => AllDone(f)'
  BY <1>2, AllDoneStays
\* The step that makes it.
<1>5. ~Made(f) /\ Made(f)' => Flush(f) /\ MayStart(f)
  <2>1. ASSUME ~Made(f), Made(f)'
        PROVE  Flush(f) /\ MayStart(f)
    <3>1. Flush(f)
      BY <1>2, <2>1, FlushFrom DEF Made
    <3>2. QED  BY <1>2, <2>1, <3>1, FlushMade DEF Made
  <2>2. QED  BY <2>1
<1>6. MayStart(f) => \A d \in After[f] : Returned(d)
  BY DEF MayStart
<1>7. ASSUME Listening(s)', NEW c \in Msgs(f)
      PROVE  Lined(s, {<<FlushLabel, Sent(c)>>})'
  <2>1. Listening(s)
    BY <1>7, ListeningStays
  <2>2. c \in Messages /\ c \in After[f] /\ Lined(s, {<<FlushLabel, Sent(c)>>})
    BY <2>1 DEF FlushInv, Msgs
  <2>3. ASSUME Submit(c), FlushLabel \in OnPath(s)
        PROVE  FALSE
    <3>1. Made(f)
      BY <1>3, <2>1, <2>3
    <3>2. Returned(c)
      BY <1>3, <2>2, <3>1
    <3>3. QED  BY <2>3, <3>2 DEF Submit, MayStart, Returned
  <2>4. QED  BY <2>2, <2>3, FlushLine
<1>8. ASSUME Made(f)', Listening(s)',
             reading'[Other(s)] = "flush" \/ FlushedLabel \in OnPath(Other(s))'
      PROVE  AllDone(f)'
  <2>1. Listening(s)
    BY <1>8, ListeningStays
  <2>2. reading'[Other(s)] = "flush" =>
          reading[Other(s)] = "flush" \/ (Read(Other(s)) /\ Ahead(Other(s)) = FlushLabel)
    BY <1>1, ReadingFrom
  <2>3. FlushedLabel \in OnPath(Other(s))' =>
          FlushedLabel \in OnPath(Other(s)) \/ reading[Other(s)] = "flush"
    BY <1>1, FlushPath DEF FlushReplies
  <2>4. CASE Made(f)
    <3>1. AllDone(f)
      BY <1>3, <1>8, <2>1, <2>2, <2>3, <2>4, FlushIsRead
    <3>2. QED  BY <1>3, <1>4, <2>4, <3>1
  <2>5. CASE ~Made(f)
    <3>1. Read(Other(s)) /\ Ahead(Other(s)) = FlushLabel
      BY <1>3, <1>8, <2>1, <2>2, <2>3, <2>5
    <3>2. FlushLabel \in OnPath(s)
      BY <1>1, <3>1, ReadAhead
    <3>3. QED  BY <1>3, <2>1, <2>5, <3>2
  <2>6. QED  BY <2>4, <2>5
<1>9. ASSUME pc'[f] \in {"again", "done"}
      PROVE  AllDone(f)'
  <2>1. CASE pc[f] \in {"again", "done"}
    BY <1>3, <1>4, <2>1 DEF Made
  <2>2. CASE pc[f] \notin {"again", "done"}
    <3>1. CASE Flush(f) /\ pc'[f] # "again" /\ (pc'[f] = "done" => ~need[From[f]])
      <4>1. MayStart(f) /\ ~need[s]
        BY <1>2, <1>9, <2>2, <3>1, FlushMade
      <4>2. submitted[s] = <<>>
        BY <1>3, <4>1 DEF MayStart, Made
      <4>3. AllDone(f)
        <5>1. ASSUME NEW c \in Msgs(f), pc[c] = "done"
              PROVE  FALSE
          <6>1. Taken(s, c)
            BY <1>2, <5>1 DEF FlushInv, Msgs
          <6>2. QED  BY <4>2, <6>1 DEF Taken
        <5>2. QED  BY <5>1 DEF AllDone
      <4>4. QED  BY <1>4, <1>6, <4>1, <4>3
    <3>2. CASE /\ pc[f] = "wait" /\ pc'[f] = "again"
               /\ Read(From[f]) /\ Ahead(From[f]) = FlushedLabel
      <4>1. FlushedLabel \in OnPath(Other(s)) /\ Listening(s) /\ Made(f)
        BY <1>2, <3>2, ReadAhead DEF Read, Readable, Listening, Made
      <4>2. QED  BY <1>3, <1>4, <4>1
    <3>3. QED  BY <1>2, <1>9, <2>2, <3>1, <3>2, FlushFrom
  <2>3. QED  BY <2>1, <2>2
<1>10. ASSUME Made(f)', NEW d \in After[f]
       PROVE  Returned(d)'
  <2>1. Returned(d)
    BY <1>3, <1>5, <1>6, <1>10
  <2>2. QED  BY <1>2, <2>1, ReturnedStays
<1>11. QED  BY <1>7, <1>8, <1>9, <1>10

LEMMA FlushStep ==
  Shape /\ ConnInv /\ ConservedInv /\ FlushInv /\ [Next]_vars => FlushInv'
<1> SUFFICES ASSUME Shape, ConnInv, ConservedInv, FlushInv, [Next]_vars PROVE FlushInv'
  OBVIOUS
<1>1. ASSUME NEW s \in Sides, NEW c \in Messages, From[c] = s
      PROVE  pc'[c] \in {"wait", "again", "done"} => Taken(s, c)'
  BY <1>1, TakenStays DEF FlushInv
<1>2. QED  BY <1>1, FlushNotMade, FlushGoesOn DEF FlushInv

LEMMA NothingOnPath == Init => \A s \in Sides : OnPath(s) = {}
<1> SUFFICES ASSUME Init, NEW s \in Sides PROVE OnPath(s) = {}
  OBVIOUS
<1>1. /\ arrived[Other(s)] = <<>> /\ items[s] = <<>> /\ item[s] = <<>>
      /\ \A n \in Connections : wire[s][n] = <<>>
  BY TheSides DEF Init, LinkInit
<1>2. QED  BY <1>1, Nothings DEF OnPath, Gone, Came, OnLink, InTask, InQueue

LEMMA FlushInit == Init => FlushInv
<1> SUFFICES ASSUME Init PROVE FlushInv
  OBVIOUS
<1>1. ASSUME NEW s \in Sides
      PROVE  /\ OnPath(s) = {} /\ OnPath(Other(s)) = {}
             /\ submitted[s] = <<>> /\ reading[Other(s)] # "flush"
  BY NothingOnPath, TheSides DEF Init
<1>2. ASSUME NEW c \in Calls
      PROVE  ~Made(c) /\ pc[c] \notin {"wait", "again", "done"}
  BY DEF Init, Made
<1>3. ASSUME NEW s \in Sides, NEW f \in Flushes(s)
      PROVE  f \in Calls /\ \A c : Lined(s, {<<FlushLabel, Sent(c)>>})
  BY <1>1, LinedApart DEF Flushes
<1>4. QED  BY <1>1, <1>2, <1>3, CallTypes DEF FlushInv

\* When a flush returns, what its client sent before has been read by the other side or never
\* will be: flush_all asks the relay and waits for its answer, and the stream of the other
\* side answers in the order in which it reads.
THEOREM FlushGetsThere == Spec => []FlushArrives
<1>1. FlushInv => FlushArrives
  <2>1. ASSUME FlushInv, NEW f \in Calls, Op[f] = "flush", pc[f] = "done"
        PROVE  AllDone(f)
    <3>1. From[f] \in Sides /\ f \in Flushes(From[f])
      BY <2>1, CallTypes DEF Flushes
    <3>2. QED  BY <2>1, <3>1 DEF FlushInv
  <2>2. QED  BY <2>1 DEF FlushArrives, AllDone, Msgs, DoneWith, Sent
<1>2. Spec => [](Shape /\ ConservedInv /\ ConnInv /\ FlushInv)
  BY InitShape, ConservedInit, ConnInit, FlushInit, ShapeStep, ConservedStep, ConnStep, FlushStep,
     PTL DEF Spec
<1>3. QED  BY <1>1, <1>2, PTL

---------------------------------------------------------------------------
(* The slots of a relay.  Places with one label are counted. *)

Spots(q, label, v) == {i \in DOMAIN q : label[q[i]] = v}
Amount(q, label, v) == Cardinality(Spots(q, label, v))
One(p) == IF p THEN 1 ELSE 0

LEMMA SpotsFinite ==
  ASSUME NEW T, NEW label, NEW v, NEW q \in Seq(T)
  PROVE  IsFiniteSet(Spots(q, label, v)) /\ Amount(q, label, v) \in Nat
<1>1. Len(q) \in Int /\ DOMAIN q = 1..Len(q)
  OBVIOUS
<1>2. IsFiniteSet(1..Len(q))
  BY <1>1, FS_Interval
<1>3. Spots(q, label, v) \in SUBSET (1..Len(q))
  BY <1>1 DEF Spots
<1>4. IsFiniteSet(Spots(q, label, v))
  BY <1>2, <1>3, FS_Subset
<1>5. QED  BY <1>4, FS_CardinalityType DEF Amount

LEMMA AmountNone ==
  ASSUME NEW label, NEW v
  PROVE  Amount(<<>>, label, v) = 0
<1>1. Spots(<<>>, label, v) = {}
  BY DEF Spots
<1>2. QED  BY <1>1, FS_EmptySet DEF Amount

LEMMA AmountAppend ==
  ASSUME NEW T, NEW label, NEW v, NEW q \in Seq(T), NEW x \in T
  PROVE  Amount(Append(q, x), label, v) = Amount(q, label, v) + One(label[x] = v)
<1> DEFINE n == Len(q) + 1
           p == Append(q, x)
<1>1. /\ Len(q) \in Nat /\ DOMAIN q = 1..Len(q) /\ DOMAIN p = 1..n
      /\ \A i \in DOMAIN q : p[i] = q[i]
      /\ p[n] = x
  OBVIOUS
<1>2. n \notin DOMAIN q /\ DOMAIN p = DOMAIN q \cup {n}
  BY <1>1
<1>3. IsFiniteSet(Spots(q, label, v)) /\ Amount(q, label, v) \in Nat
  BY SpotsFinite
<1> HIDE DEF p, n
<1>4. CASE label[x] = v
  <2>1. Spots(p, label, v) = Spots(q, label, v) \cup {n}
    BY <1>1, <1>2, <1>4 DEF Spots
  <2>2. n \notin Spots(q, label, v)
    BY <1>2 DEF Spots
  <2>3. Cardinality(Spots(p, label, v)) = Cardinality(Spots(q, label, v)) + 1
    BY <1>3, <2>1, <2>2, FS_AddElement
  <2>4. QED  BY <1>4, <2>3 DEF Amount, One, p
<1>5. CASE label[x] # v
  <2>1. Spots(p, label, v) = Spots(q, label, v)
    BY <1>1, <1>2, <1>5 DEF Spots
  <2>2. QED  BY <1>3, <1>5, <2>1 DEF Amount, One, p
<1>6. QED  BY <1>4, <1>5

LEMMA AmountTail ==
  ASSUME NEW T, NEW label, NEW v, NEW q \in Seq(T), q # <<>>
  PROVE  Amount(q, label, v) = Amount(Tail(q), label, v) + One(label[Head(q)] = v)
<1> DEFINE p == Tail(q)
           S == Spots(p, label, v)
           U == Spots(q, label, v) \ {1}
<1>1. /\ DOMAIN q \subseteq Nat /\ 1 \in DOMAIN q /\ Head(q) = q[1]
      /\ p \in Seq(T) /\ DOMAIN p \subseteq Nat \ {0}
  OBVIOUS
<1>2. \A i \in DOMAIN p : i + 1 \in DOMAIN q /\ p[i] = q[i + 1]
  OBVIOUS
<1>3. \A i \in DOMAIN q : i = 1 \/ (i - 1 \in DOMAIN p /\ p[i - 1] = q[i])
  OBVIOUS
<1>4. IsFiniteSet(Spots(q, label, v)) /\ IsFiniteSet(S)
      /\ Amount(q, label, v) \in Nat /\ Amount(p, label, v) \in Nat
  BY <1>1, SpotsFinite
<1> HIDE DEF p
<1> DEFINE f == [i \in S |-> i + 1]
<1>5. f \in Bijection(S, U)
  <2>1. \A i \in S : i \in Nat \ {0} /\ i + 1 \in U
    BY <1>1, <1>2 DEF Spots
  <2>2. \A j \in U : j - 1 \in S /\ (j - 1) + 1 = j
    BY <1>1, <1>3 DEF Spots
  <2> HIDE DEF S, U
  <2>3. f \in [S -> U]
    BY <2>1
  <2>4. \A i, j \in S : f[i] = f[j] => i = j
    BY <2>1
  <2>5. \A j \in U : \E i \in S : f[i] = j
    BY <2>2
  <2> HIDE DEF f
  <2>6. QED  BY <2>3, <2>4, <2>5 DEF Bijection, Injection, Surjection, IsInjective
<1>6. Cardinality(U) = Cardinality(S)
  BY <1>4, <1>5, FS_Bijection DEF ExistsBijection
<1>7. CASE label[q[1]] = v
  <2>1. 1 \in Spots(q, label, v)
    BY <1>1, <1>7 DEF Spots
  <2>2. Cardinality(U) = Cardinality(Spots(q, label, v)) - 1
    BY <1>4, <2>1, FS_RemoveElement
  <2>3. QED  BY <1>1, <1>4, <1>6, <1>7, <2>2 DEF Amount, One, p
<1>8. CASE label[q[1]] # v
  <2>1. Spots(q, label, v) = U
    BY <1>8 DEF Spots
  <2>2. Cardinality(Spots(q, label, v)) = Cardinality(S)
    BY <1>6, <2>1
  <2>3. QED  BY <1>1, <1>4, <1>8, <2>2 DEF Amount, One, p
<1>9. QED  BY <1>7, <1>8

LEMMA AmountFirst ==
  ASSUME NEW T, NEW label, NEW v, NEW q \in Seq(T), NEW k \in Nat, k <= Len(q)
  PROVE  Amount(SubSeq(q, 1, k), label, v) <= Amount(q, label, v)
<1> DEFINE p == SubSeq(q, 1, k)
<1>1. DOMAIN p \subseteq DOMAIN q /\ \A i \in DOMAIN p : p[i] = q[i]
  OBVIOUS
<1> HIDE DEF p
<1>2. Spots(p, label, v) \in SUBSET Spots(q, label, v)
  BY <1>1 DEF Spots
<1>3. QED  BY <1>2, SpotsFinite, FS_Subset DEF Amount, p

\* The same over all connections, of which a step changes one.
OnLines(T) == [Connections -> Seq(T)]
AllSpots(w, label, v) ==
  {p \in Connections \X Nat : p[2] \in Spots(w[p[1]], label, v)}
Total(w, label, v) == Cardinality(AllSpots(w, label, v))
Elsewhere(w, label, v, k) == {p \in AllSpots(w, label, v) : p[1] # k}

LEMMA SpotsSplit ==
  ASSUME NEW T, NEW label, NEW v, NEW w \in OnLines(T), NEW k \in Connections,
         IsFiniteSet(AllSpots(w, label, v))
  PROVE  /\ Cardinality(Elsewhere(w, label, v, k)) \in Nat
         /\ Total(w, label, v)
              = Cardinality(Elsewhere(w, label, v, k)) + Amount(w[k], label, v)
<1> DEFINE A == AllSpots(w, label, v)
           rest == Elsewhere(w, label, v, k)
           here == {p \in A : p[1] = k}
           S == Spots(w[k], label, v)
           f == [i \in S |-> <<k, i>>]
<1>1. IsFiniteSet(S) /\ Amount(w[k], label, v) \in Nat
  BY SpotsFinite DEF OnLines
<1>2. S \subseteq Nat
  <2>1. w[k] \in Seq(T)
    BY DEF OnLines
  <2>2. \A q \in Seq(T) : DOMAIN q \subseteq Nat
    OBVIOUS
  <2>3. QED  BY <2>1, <2>2 DEF Spots
<1>3. \A i \in S : <<k, i>> \in here
  BY <1>2 DEF AllSpots
<1>4. \A p \in here : p[2] \in S /\ p = <<k, p[2]>>
  BY DEF AllSpots
<1>5. A = rest \cup here /\ rest \cap here = {} /\ rest \in SUBSET A /\ here \in SUBSET A
  BY DEF Elsewhere
<1> HIDE DEF A, rest, here, S
<1>6. f \in Bijection(S, here)
  <2>1. f \in [S -> here]
    BY <1>3
  <2>2. \A i, j \in S : f[i] = f[j] => i = j
    OBVIOUS
  <2>3. \A p \in here : \E i \in S : f[i] = p
    BY <1>4
  <2> HIDE DEF f
  <2>4. QED  BY <2>1, <2>2, <2>3 DEF Bijection, Injection, Surjection, IsInjective
<1>7. IsFiniteSet(here) /\ Cardinality(here) = Cardinality(S)
  BY <1>1, <1>6, FS_Bijection DEF ExistsBijection
<1>8. IsFiniteSet(A)
  BY DEF A
<1>9. IsFiniteSet(rest)
  BY <1>5, <1>8, FS_Subset
<1>10. Cardinality(rest) \in Nat /\ Cardinality(here) \in Nat
  BY <1>7, <1>9, FS_CardinalityType
<1>11. Cardinality(A) = Cardinality(rest) + Cardinality(here) - Cardinality({})
  BY <1>5, <1>7, <1>9, FS_Union
<1>12. Cardinality(A) = Cardinality(rest) + Cardinality(S)
  BY <1>7, <1>10, <1>11, FS_EmptySet
<1>13. Total(w, label, v) = Cardinality(rest) + Amount(w[k], label, v)
  BY <1>12 DEF A, S, Total, Amount
<1>14. QED  BY <1>10, <1>13 DEF rest

LEMMA AllSpotsFinite ==
  ASSUME NEW T, NEW label, NEW v, NEW w \in OnLines(T)
  PROVE  IsFiniteSet(AllSpots(w, label, v)) /\ Total(w, label, v) \in Nat
<1> DEFINE At(n) == {n} \X Spots(w[n], label, v)
           F == {At(n) : n \in Connections}
           g == [n \in Connections |-> At(n)]
<1>1. IsFiniteSet(Connections)
  BY LinkAssumption, FS_Interval DEF Connections
<1>2. \A S \in F : IsFiniteSet(S)
  <2>1. ASSUME NEW n \in Connections
        PROVE  IsFiniteSet(At(n))
    <3>1. IsFiniteSet(Spots(w[n], label, v)) /\ IsFiniteSet({n})
      BY SpotsFinite, FS_Singleton DEF OnLines
    <3>2. QED  BY <3>1, FS_Product
  <2>2. QED  BY <2>1
<1>3. g \in Surjection(Connections, F)
  BY DEF Surjection
<1>4. IsFiniteSet(F)
  BY <1>1, <1>3, FS_Surjection
<1>5. IsFiniteSet(UNION F)
  BY <1>2, <1>4, FS_UNION
<1>6. AllSpots(w, label, v) \in SUBSET UNION F
  <2>1. ASSUME NEW p \in AllSpots(w, label, v)
        PROVE  p \in At(p[1]) /\ p[1] \in Connections
    BY <2>1 DEF AllSpots
  <2>2. QED  BY <2>1
<1>7. IsFiniteSet(AllSpots(w, label, v))
  BY <1>5, <1>6, FS_Subset
<1>8. QED  BY <1>7, FS_CardinalityType DEF Total

LEMMA TotalChange ==
  ASSUME NEW T, NEW label, NEW v, NEW w \in OnLines(T), NEW k \in Connections,
         NEW u \in OnLines(T), \A n \in Connections : n # k => u[n] = w[n]
  PROVE  Total(u, label, v) + Amount(w[k], label, v) = Total(w, label, v) + Amount(u[k], label, v)
<1> DEFINE A == Elsewhere(w, label, v, k)
           B == Elsewhere(u, label, v, k)
<1>1. A = B
  <2>1. ASSUME NEW p \in Connections \X Nat, p[1] # k
        PROVE  p[2] \in Spots(w[p[1]], label, v) <=> p[2] \in Spots(u[p[1]], label, v)
    BY <2>1
  <2>2. QED  BY <2>1 DEF AllSpots, Elsewhere
<1>2. /\ Total(w, label, v) = Cardinality(A) + Amount(w[k], label, v)
      /\ Cardinality(A) \in Nat
  <2>1. IsFiniteSet(AllSpots(w, label, v))
    BY AllSpotsFinite
  <2>2. QED  BY <2>1, SpotsSplit
<1>3. Total(u, label, v) = Cardinality(B) + Amount(u[k], label, v)
  <2>1. IsFiniteSet(AllSpots(u, label, v))
    BY AllSpotsFinite
  <2>2. QED  BY <2>1, SpotsSplit
<1>4. Amount(w[k], label, v) \in Nat /\ Amount(u[k], label, v) \in Nat
  BY SpotsFinite DEF OnLines
<1> HIDE DEF A, B
<1>5. QED  BY <1>1, <1>2, <1>3, <1>4

LEMMA AmountOne ==
  ASSUME NEW label, NEW v, NEW x
  PROVE  Amount(<<x>>, label, v) = One(label[x] = v)
<1>1. DOMAIN <<x>> = {1} /\ <<x>>[1] = x
  OBVIOUS
<1>2. Spots(<<x>>, label, v) = IF label[x] = v THEN {1} ELSE {}
  BY <1>1 DEF Spots
<1>3. QED  BY <1>2, FS_EmptySet, FS_Singleton DEF Amount, One

\* One packet more on the connection, one less, or no more than some of the first.
LEMMA TotalMoves ==
  ASSUME NEW T, NEW label, NEW v, NEW w \in OnLines(T), NEW k \in Connections,
         NEW u \in OnLines(T), \A n \in Connections : n # k => u[n] = w[n]
  PROVE  /\ \A x \in T : u[k] = Append(w[k], x) =>
              Total(u, label, v) = Total(w, label, v) + One(label[x] = v)
         /\ w[k] # <<>> /\ u[k] = Tail(w[k]) =>
              Total(w, label, v) = Total(u, label, v) + One(label[Head(w[k])] = v)
         /\ \A n \in Nat : n <= Len(w[k]) /\ u[k] = SubSeq(w[k], 1, n) =>
              Total(u, label, v) <= Total(w, label, v)
<1>1. Total(u, label, v) + Amount(w[k], label, v) = Total(w, label, v) + Amount(u[k], label, v)
  BY TotalChange
<1>2. /\ Total(u, label, v) \in Nat /\ Total(w, label, v) \in Nat
      /\ Amount(u[k], label, v) \in Nat /\ Amount(w[k], label, v) \in Nat
  <2>1. w[k] \in Seq(T) /\ u[k] \in Seq(T)
    BY DEF OnLines
  <2>2. QED  BY <2>1, SpotsFinite, AllSpotsFinite
<1>3. w[k] \in Seq(T)
  BY DEF OnLines
<1>4. \A p : One(p) \in {0, 1}
  BY DEF One
<1>5. ASSUME NEW x \in T, u[k] = Append(w[k], x)
      PROVE  Total(u, label, v) = Total(w, label, v) + One(label[x] = v)
  <2>1. Amount(u[k], label, v) = Amount(w[k], label, v) + One(label[x] = v)
    BY <1>3, <1>5, AmountAppend
  <2>2. QED  BY <1>1, <1>2, <1>4, <2>1
<1>6. ASSUME w[k] # <<>>, u[k] = Tail(w[k])
      PROVE  Total(w, label, v) = Total(u, label, v) + One(label[Head(w[k])] = v)
  <2>1. Amount(w[k], label, v) = Amount(u[k], label, v) + One(label[Head(w[k])] = v)
    BY <1>3, <1>6, AmountTail
  <2>2. QED  BY <1>1, <1>2, <1>4, <2>1
<1>7. ASSUME NEW n \in Nat, n <= Len(w[k]), u[k] = SubSeq(w[k], 1, n)
      PROVE  Total(u, label, v) <= Total(w, label, v)
  <2>1. Amount(u[k], label, v) <= Amount(w[k], label, v)
    BY <1>3, <1>7, AmountFirst
  <2>2. QED  BY <1>1, <1>2, <2>1
<1>8. QED  BY <1>5, <1>6, <1>7

\* The BatchCompletes that a side has queued, has in its task or has written.  QUIC has
\* written the one in its task, or is not going to.
BatchLabel == <<"BatchComplete", 1>>
AcksIn(s, tr, q, h, w) ==
  Amount(q, Named(s), BatchLabel)
  + (IF tr = "tcp" THEN Amount(h, Named(s), BatchLabel) ELSE 0)
  + Total(w, Titled(s), BatchLabel)
Acks(s) == AcksIn(s, transport, items[s], item[s], wire[s])

LEMMA AcksOnLine ==
  ASSUME NEW s, NEW w \in OnLines(Travels(s)), NEW k \in Connections,
         NEW u \in OnLines(Travels(s)),
         \A n \in Connections : n # k => u[n] = w[n]
  PROVE  /\ \A x \in Travels(s) : u[k] = Append(w[k], x) =>
              Total(u, Titled(s), BatchLabel)
                = Total(w, Titled(s), BatchLabel) + One(Titled(s)[x] = BatchLabel)
         /\ w[k] # <<>> /\ u[k] = Tail(w[k]) =>
              Total(w, Titled(s), BatchLabel)
                = Total(u, Titled(s), BatchLabel) + One(Titled(s)[Head(w[k])] = BatchLabel)
         /\ \A n \in Nat : n <= Len(w[k]) /\ u[k] = SubSeq(w[k], 1, n) =>
              Total(u, Titled(s), BatchLabel) <= Total(w, Titled(s), BatchLabel)
BY TotalMoves

LEMMA AcksInType ==
  ASSUME NEW s, NEW tr, NEW q \in Seq(Travelling(s) \cup {Closing}),
         NEW h \in Seq(Travelling(s)), NEW w \in OnLines(Travels(s))
  PROVE  /\ Amount(q, Named(s), BatchLabel) \in Nat /\ Amount(h, Named(s), BatchLabel) \in Nat
         /\ Total(w, Titled(s), BatchLabel) \in Nat
         /\ AcksIn(s, tr, q, h, w) \in Nat
<1>1. /\ Amount(q, Named(s), BatchLabel) \in Nat
      /\ Amount(h, Named(s), BatchLabel) \in Nat
      /\ Total(w, Titled(s), BatchLabel) \in Nat
  BY SpotsFinite, AllSpotsFinite
<1>2. QED  BY <1>1 DEF AcksIn

LEMMA AcksType ==
  ASSUME Shape, NEW s \in Sides
  PROVE  /\ Amount(items[s], Named(s), BatchLabel) \in Nat
         /\ Amount(item[s], Named(s), BatchLabel) \in Nat
         /\ Total(wire[s], Titled(s), BatchLabel) \in Nat
         /\ Acks(s) \in Nat
<1>1. /\ items[s] \in Seq(Travelling(s) \cup {Closing}) /\ item[s] \in Seq(Travelling(s))
      /\ wire[s] \in OnLines(Travels(s))
  BY DEF Shape, QueueShape, WireShape, OnLines
<1>2. QED  BY <1>1, AcksInType DEF Acks

LEMMA AcksNext ==
  ASSUME Shape, Shape', NEW s \in Sides
  PROVE  /\ Amount(items'[s], Named(s), BatchLabel) \in Nat
         /\ Amount(item'[s], Named(s), BatchLabel) \in Nat
         /\ Total(wire'[s], Titled(s), BatchLabel) \in Nat
         /\ Acks(s)' \in Nat
<1>1. /\ items'[s] \in Seq(Travelling(s) \cup {Closing}) /\ item'[s] \in Seq(Travelling(s))
      /\ wire'[s] \in OnLines(Travels(s))
  BY DEF Shape, QueueShape, WireShape, OnLines
<1>2. QED  BY <1>1, AcksInType DEF Acks

LEMMA AcksSame ==
  ASSUME NEW s \in Sides, UNCHANGED transport, items'[s] = items[s], item'[s] = item[s],
         wire'[s] = wire[s]
  PROVE  Acks(s)' = Acks(s)
BY DEF Acks

\* A queue and a task that have no more than before.
LEMMA AcksFewer ==
  ASSUME Shape, Shape', NEW s \in Sides, UNCHANGED transport, wire'[s] = wire[s],
         Amount(items'[s], Named(s), BatchLabel) <= Amount(items[s], Named(s), BatchLabel),
         Amount(items'[s], Named(s), BatchLabel) + Amount(item'[s], Named(s), BatchLabel)
           <= Amount(items[s], Named(s), BatchLabel) + Amount(item[s], Named(s), BatchLabel)
  PROVE  Acks(s)' <= Acks(s)
<1>1. /\ Amount(items[s], Named(s), BatchLabel) \in Nat
      /\ Amount(item[s], Named(s), BatchLabel) \in Nat
      /\ Total(wire[s], Titled(s), BatchLabel) \in Nat
      /\ Amount(items'[s], Named(s), BatchLabel) \in Nat
      /\ Amount(item'[s], Named(s), BatchLabel) \in Nat
  BY AcksType, AcksNext
<1>2. QED  BY <1>1 DEF Acks, AcksIn

LEMMA RestAmount ==
  ASSUME Shape, NEW s \in Sides, HasItem(s)
  PROVE  /\ Amount(Rest(s), Named(s), BatchLabel) + One(Named(s)[Upcoming(s)] = BatchLabel)
              = Amount(items[s], Named(s), BatchLabel) + Amount(item[s], Named(s), BatchLabel)
         /\ Amount(Rest(s), Named(s), BatchLabel) <= Amount(items[s], Named(s), BatchLabel)
         /\ Amount(Rest(s), Named(s), BatchLabel) \in Nat
         /\ Amount(<<Upcoming(s)>>, Named(s), BatchLabel)
              = One(Named(s)[Upcoming(s)] = BatchLabel)
<1> DEFINE T == Travelling(s) \cup {Closing}
           u == Upcoming(s)
           L == Named(s)
<1>1. /\ u \in T /\ Rest(s) \in Seq(T)
      /\ item[s] # <<>> => item[s] = <<u>> /\ Rest(s) = items[s]
      /\ item[s] = <<>> => items[s] # <<>> /\ u = Head(items[s]) /\ Rest(s) = Tail(items[s])
  BY NextItem DEF Shape
<1>2. items[s] \in Seq(T)
  BY DEF Shape, QueueShape
<1>3. Amount(Rest(s), L, BatchLabel) \in Nat /\ Amount(items[s], L, BatchLabel) \in Nat
  BY <1>1, <1>2, SpotsFinite
<1>4. One(L[u] = BatchLabel) \in {0, 1}
  BY DEF One
<1> HIDE DEF T, L, u
<1>5. Amount(<<u>>, L, BatchLabel) = One(L[u] = BatchLabel)
  BY AmountOne
<1>6. CASE item[s] # <<>>
  <2>1. item[s] = <<u>> /\ Rest(s) = items[s]
    BY <1>1, <1>6
  <2>2. /\ Amount(Rest(s), L, BatchLabel) = Amount(items[s], L, BatchLabel)
        /\ Amount(item[s], L, BatchLabel) = One(L[u] = BatchLabel)
    BY <1>5, <2>1
  <2>3. QED  BY <1>3, <1>5, <2>2 DEF L, u
<1>7. CASE item[s] = <<>>
  <2>1. items[s] # <<>> /\ u = Head(items[s]) /\ Rest(s) = Tail(items[s])
    BY <1>1, <1>7
  <2>2. Amount(items[s], L, BatchLabel)
          = Amount(Tail(items[s]), L, BatchLabel) + One(L[Head(items[s])] = BatchLabel)
    BY <1>2, <2>1, AmountTail
  <2>3. Amount(items[s], L, BatchLabel)
          = Amount(Rest(s), L, BatchLabel) + One(L[u] = BatchLabel)
    BY <2>1, <2>2
  <2>4. Amount(item[s], L, BatchLabel) = 0
    BY <1>7, AmountNone
  <2>5. QED  BY <1>3, <1>4, <1>5, <2>3, <2>4 DEF L, u
<1>8. QED  BY <1>6, <1>7

\* A successful write takes what the queue and the task had to the connection.
LEMMA AcksWritten ==
  ASSUME Shape, Shape', ConnInv, ~Doubles, NEW s \in Sides, HasItem(s),
         Upcoming(s) # Closing, UNCHANGED transport,
         NEW kept \in {<<>>, <<Upcoming(s)>>}, kept = <<>> \/ transport = "quic",
         items'[s] = Rest(s), item'[s] = kept,
         wire' = [wire EXCEPT ![s][link[s]] = Append(@, Serialize(Upcoming(s)))]
  PROVE  Acks(s)' <= Acks(s)
<1> DEFINE u == Upcoming(s)
           L == Named(s)
           T == Titled(s)
<1>1. /\ u \in Travelling(s) /\ Serialize(u) \in Travels(s) /\ T[Serialize(u)] = L[u]
  <2>1. u \in Travelling(s)
    BY NextItem DEF Shape
  <2>2. QED  BY <2>1, LabelsOf
<1>2. PICK k \in Connections : k = link[s]
  BY DEF HasItem, Shape, TaskShape
<1>3. /\ wire[s] \in OnLines(Travels(s)) /\ wire[s][k] \in Seq(Travels(s))
      /\ wire'[s] = [wire[s] EXCEPT ![k] = Append(wire[s][k], Serialize(u))]
  BY <1>2 DEF Shape, WireShape, OnLines
<1>4. Append(wire[s][k], Serialize(u)) \in Seq(Travels(s))
  BY <1>1, <1>3
<1> HIDE DEF u, L, T
<1>5. Total(wire'[s], T, BatchLabel) = Total(wire[s], T, BatchLabel) + One(L[u] = BatchLabel)
  <2>1. /\ wire'[s] \in OnLines(Travels(s))
        /\ wire'[s][k] = Append(wire[s][k], Serialize(u))
        /\ \A n \in Connections : n # k => wire'[s][n] = wire[s][n]
    BY <1>3, <1>4 DEF OnLines
  <2>2. PICK w, z \in OnLines(Travels(s)) : w = wire[s] /\ z = wire'[s]
    BY <1>3, <2>1
  <2>3. z[k] = Append(w[k], Serialize(u)) /\ \A n \in Connections : n # k => z[n] = w[n]
    BY <2>1, <2>2
  <2>4. Serialize(u) \in Travels(s)
    BY <1>1
  <2>5. Total(z, Titled(s), BatchLabel)
          = Total(w, Titled(s), BatchLabel) + One(Titled(s)[Serialize(u)] = BatchLabel)
    <3>1. /\ w \in OnLines(Travels(s)) /\ z \in OnLines(Travels(s)) /\ k \in Connections
          /\ \A n \in Connections : n # k => z[n] = w[n]
      BY <1>2, <2>2, <2>3
    <3>2. \A x \in Travels(s) : z[k] = Append(w[k], x) =>
            Total(z, Titled(s), BatchLabel)
              = Total(w, Titled(s), BatchLabel) + One(Titled(s)[x] = BatchLabel)
      BY <3>1, AcksOnLine
    <3>3. QED  BY <2>3, <2>4, <3>2
  <2>6. QED  BY <1>1, <2>2, <2>5 DEF T
<1>6. /\ Amount(Rest(s), L, BatchLabel) + One(L[u] = BatchLabel)
           = Amount(items[s], L, BatchLabel) + Amount(item[s], L, BatchLabel)
      /\ Amount(Rest(s), L, BatchLabel) \in Nat
  BY RestAmount DEF L, u
<1>7. /\ Amount(items[s], L, BatchLabel) \in Nat /\ Amount(item[s], L, BatchLabel) \in Nat
      /\ Total(wire[s], T, BatchLabel) \in Nat
  BY AcksType DEF L, T
<1>8. One(L[u] = BatchLabel) \in {0, 1}
  BY DEF One
<1>9. CASE transport = "tcp"
  <2>1. Amount(item'[s], L, BatchLabel) = 0
    BY <1>9, AmountNone
  <2>2. /\ Acks(s) = Amount(items[s], L, BatchLabel) + Amount(item[s], L, BatchLabel)
                     + Total(wire[s], T, BatchLabel)
        /\ Acks(s)' = Amount(Rest(s), L, BatchLabel) + Amount(item'[s], L, BatchLabel)
                      + Total(wire'[s], T, BatchLabel)
    BY <1>9 DEF Acks, AcksIn, L, T
  <2>3. QED  BY <1>5, <1>6, <1>7, <1>8, <2>1, <2>2
<1>10. CASE transport # "tcp"
  <2>1. item[s] = <<>>
    <3>1. transport = "quic" /\ link[s] \in Int /\ opened \in Int
      BY <1>2, <1>10, LinkAssumption DEF Shape, TaskShape, Connections
    <3>2. item[s] # <<>> => link[s] > 1 /\ link[s] <= opened
      BY DEF ConnInv, RetryInv, LinkInv, HasItem
    <3>3. ~(opened > 1)
      BY <3>1 DEF Doubles
    <3>4. QED  BY <3>1, <3>2, <3>3
  <2>2. Amount(item[s], L, BatchLabel) = 0
    BY <2>1, AmountNone
  <2>3. /\ Acks(s) = Amount(items[s], L, BatchLabel) + 0 + Total(wire[s], T, BatchLabel)
        /\ Acks(s)' = Amount(Rest(s), L, BatchLabel) + 0 + Total(wire'[s], T, BatchLabel)
    BY <1>10 DEF Acks, AcksIn, L, T
  <2>4. QED  BY <1>5, <1>6, <1>7, <1>8, <2>2, <2>3
<1>11. QED  BY <1>9, <1>10

LEMMA AcksTask ==
  ASSUME Shape, Shape', ConnInv, ~Doubles, NEW t \in Sides, TaskStep(t), NEW s \in Sides
  PROVE  Acks(s)' <= Acks(s)
<1>1. /\ Amount(items[s], Named(s), BatchLabel) \in Nat
      /\ Amount(item[s], Named(s), BatchLabel) \in Nat
      /\ Acks(s) \in Nat
  BY AcksType
<1>2. ASSUME UNCHANGED transport, items'[s] = items[s], item'[s] = item[s], wire'[s] = wire[s]
      PROVE  Acks(s)' <= Acks(s)
  BY <1>1, <1>2, AcksSame
<1>3. ASSUME UNCHANGED <<transport, wire>>, item' = [item EXCEPT ![t] = <<>>],
             items' = [items EXCEPT ![t] = <<>>] \/ items' = items
      PROVE  Acks(s)' <= Acks(s)
  <2>1. CASE s = t
    <3>1. item'[s] = <<>> /\ items'[s] \in {<<>>, items[s]}
      BY <1>3, <2>1 DEF Shape, QueueShape
    <3>2. /\ Amount(item'[s], Named(s), BatchLabel) = 0
          /\ Amount(items'[s], Named(s), BatchLabel)
               \in {0, Amount(items[s], Named(s), BatchLabel)}
      BY <3>1, AmountNone
    <3>3. QED  BY <1>1, <1>3, <3>2, AcksFewer
  <2>2. CASE s # t
    BY <1>2, <1>3, <2>2 DEF Shape, QueueShape
  <2>3. QED  BY <2>1, <2>2
<1>4. ASSUME HasItem(t), UNCHANGED <<transport, wire>>, NEW kept \in {<<>>, <<Upcoming(t)>>},
             item' = [item EXCEPT ![t] = kept], items' = [items EXCEPT ![t] = Rest(t)]
      PROVE  Acks(s)' <= Acks(s)
  <2>1. CASE s = t
    <3>1. HasItem(s) /\ item'[s] \in {<<>>, <<Upcoming(s)>>} /\ items'[s] = Rest(s)
      BY <1>4, <2>1 DEF Shape, QueueShape
    <3>2. One(Named(s)[Upcoming(s)] = BatchLabel) \in {0, 1}
      BY DEF One
    <3>3. Amount(item'[s], Named(s), BatchLabel)
            \in {0, One(Named(s)[Upcoming(s)] = BatchLabel)}
      BY <3>1, AmountNone, RestAmount
    <3>4. /\ Amount(items'[s], Named(s), BatchLabel)
                + One(Named(s)[Upcoming(s)] = BatchLabel)
                = Amount(items[s], Named(s), BatchLabel) + Amount(item[s], Named(s), BatchLabel)
          /\ Amount(items'[s], Named(s), BatchLabel) <= Amount(items[s], Named(s), BatchLabel)
          /\ Amount(items'[s], Named(s), BatchLabel) \in Nat
      BY <3>1, RestAmount
    <3>5. Amount(items'[s], Named(s), BatchLabel) + Amount(item'[s], Named(s), BatchLabel)
            <= Amount(items[s], Named(s), BatchLabel) + Amount(item[s], Named(s), BatchLabel)
      BY <1>1, <3>2, <3>3, <3>4
    <3>6. QED  BY <1>4, <3>4, <3>5, AcksFewer
  <2>2. CASE s # t
    BY <1>2, <1>4, <2>2 DEF Shape, QueueShape
  <2>3. QED  BY <2>1, <2>2
<1>5. ASSUME NEW n, Established(t, n)
      PROVE  Acks(s)' <= Acks(s)
  <2>1. CASE stream[t]
    BY <1>2, <1>5, <2>1 DEF Established
  <2>2. CASE ~stream[t]
    BY <1>3, <1>5, <2>2 DEF Established, Dies
  <2>3. QED  BY <2>1, <2>2
<1>6. ASSUME HasItem(t), NEW kept \in {<<>>, <<Upcoming(t)>>}, Leaves(t, kept, Rest(t))
      PROVE  Acks(s)' <= Acks(s)
  <2>1. CASE stream[t]
    BY <1>4, <1>6, <2>1 DEF Leaves
  <2>2. CASE ~stream[t]
    BY <1>3, <1>6, <2>2 DEF Leaves, Dies
  <2>3. QED  BY <2>1, <2>2
<1>7. ASSUME HasItem(t), Upcoming(t) # Closing, UNCHANGED transport,
             NEW kept \in {<<>>, <<Upcoming(t)>>}, kept = <<>> \/ transport = "quic",
             Vanishes(t, kept) \/ (~Failing(t) /\ Written(t, kept))
      PROVE  Acks(s)' <= Acks(s)
  <2>1. CASE Vanishes(t, kept)
    BY <1>4, <1>7, <2>1 DEF Vanishes
  <2>2. CASE Written(t, kept)
    <3>1. /\ wire' = [wire EXCEPT ![t][link[t]] = Append(@, Serialize(Upcoming(t)))]
          /\ item' = [item EXCEPT ![t] = kept] /\ items' = [items EXCEPT ![t] = Rest(t)]
      BY <2>2 DEF Written
    <3>2. CASE s = t
      <4>1. /\ HasItem(s) /\ item'[s] = kept /\ items'[s] = Rest(s) /\ Upcoming(s) # Closing
            /\ wire' = [wire EXCEPT ![s][link[s]] = Append(@, Serialize(Upcoming(s)))]
            /\ kept \in {<<>>, <<Upcoming(s)>>}
        BY <1>7, <3>1, <3>2 DEF Shape, QueueShape
      <4>2. QED  BY <1>7, <4>1, AcksWritten
    <3>3. CASE s # t
      BY <1>2, <1>7, <3>1, <3>3 DEF Shape, QueueShape, WireShape
    <3>4. QED  BY <3>2, <3>3
  <2>3. QED  BY <1>7, <2>1, <2>2
<1>8. CASE (t = Client /\ Connect) \/ (t = Server /\ Accept)
  BY <1>5, <1>8 DEF Connect, Accept
<1>9. CASE Close(t)
  BY <1>6, <1>9 DEF Close
<1>10. CASE WriteTcp(t)
  BY <1>7, <1>10 DEF WriteTcp
<1>11. CASE WriteQuic(t)
  BY <1>7, <1>11 DEF WriteQuic
<1>12. CASE WriteFails(t)
  BY <1>6, <1>12 DEF WriteFails
<1>13. CASE OpenFails(t)
  <2>1. CASE stream[t]
    BY <1>4, <1>13, <2>1 DEF OpenFails
  <2>2. CASE ~stream[t]
    BY <1>3, <1>13, <2>2 DEF OpenFails, Dies
  <2>3. QED  BY <2>1, <2>2
<1>14. CASE Finish(t)
  BY <1>3, <1>14 DEF Finish
<1>15. CASE FinishFails(t)
  <2>1. CASE stream[t]
    <3>1. /\ item' = [item EXCEPT ![t] = item[t]] /\ items' = [items EXCEPT ![t] = items[t]]
          /\ UNCHANGED <<transport, wire>>
      BY <1>15, <2>1 DEF FinishFails, Leaves
    <3>2. item'[s] = item[s] /\ items'[s] = items[s]
      BY <3>1 DEF Shape, QueueShape
    <3>3. QED  BY <1>2, <3>1, <3>2
  <2>2. CASE ~stream[t]
    BY <1>3, <1>15, <2>2 DEF FinishFails, Leaves, Dies
  <2>3. QED  BY <2>1, <2>2
<1>16. QED  BY <1>8, <1>9, <1>10, <1>11, <1>12, <1>13, <1>14, <1>15 DEF TaskStep

LEMMA AcksTrouble ==
  ASSUME Shape, Shape', Trouble, NEW s \in Sides
  PROVE  Acks(s)' <= Acks(s)
<1>1. /\ Amount(items[s], Named(s), BatchLabel) \in Nat
      /\ Amount(item[s], Named(s), BatchLabel) \in Nat
      /\ Total(wire[s], Titled(s), BatchLabel) \in Nat
      /\ Acks(s) \in Nat
  BY AcksType
<1>2. ASSUME NEW t \in Sides, EndOfConnections(t)
      PROVE  Acks(s)' <= Acks(s)
  <2>1. /\ item' = [item EXCEPT ![t] = <<>>] /\ items' = [items EXCEPT ![t] = <<>>]
        /\ UNCHANGED <<transport, wire>>
    BY <1>2 DEF EndOfConnections, Dies
  <2>2. CASE s = t
    <3>1. item'[s] = <<>> /\ items'[s] = <<>>
      BY <2>1, <2>2 DEF Shape, QueueShape
    <3>2. /\ Amount(item'[s], Named(s), BatchLabel) = 0
          /\ Amount(items'[s], Named(s), BatchLabel) = 0
      BY <3>1, AmountNone
    <3>3. QED  BY <1>1, <2>1, <3>2, AcksFewer
  <2>3. CASE s # t
    <3>1. item'[s] = item[s] /\ items'[s] = items[s] /\ wire'[s] = wire[s]
      BY <2>1, <2>3 DEF Shape, QueueShape
    <3>2. QED  BY <1>1, <2>1, <3>1, AcksSame
  <2>4. QED  BY <2>2, <2>3
<1>3. ASSUME NEW k \in Connections, Break(k)
      PROVE  Acks(s)' <= Acks(s)
  <2>1. UNCHANGED <<transport, items, item>>
    BY <1>3 DEF Break
  <2>2. PICK left \in [Sides -> 0..Len(wire[Client][k]) + Len(wire[Server][k])] :
          /\ \A t \in Sides : left[t] <= Len(wire[t][k])
          /\ wire' = [t \in Sides |-> [wire[t] EXCEPT ![k] = SubSeq(@, 1, left[t])]]
    BY <1>3 DEF Break
  <2>3. left[s] \in Nat /\ left[s] <= Len(wire[s][k])
    <3>1. Len(wire[Client][k]) \in Nat /\ Len(wire[Server][k]) \in Nat
      BY <1>3, TheSides DEF Shape, WireShape
    <3>2. left[s] \in 0..Len(wire[Client][k]) + Len(wire[Server][k])
      BY <2>2
    <3>3. QED  BY <2>2, <3>1, <3>2
  <2>4. wire'[s] = [wire[s] EXCEPT ![k] = SubSeq(wire[s][k], 1, left[s])]
    BY <2>2
  <2>5. wire[s] \in OnLines(Travels(s)) /\ wire'[s] \in OnLines(Travels(s))
    BY DEF Shape, WireShape, OnLines
  <2>6. wire'[s][k] = SubSeq(wire[s][k], 1, left[s])
        /\ \A n \in Connections : n # k => wire'[s][n] = wire[s][n]
    BY <2>4 DEF Shape, WireShape
  <2>7. PICK w, z \in OnLines(Travels(s)) : w = wire[s] /\ z = wire'[s]
    BY <2>5
  <2>8. PICK n \in Nat : n = left[s]
    BY <2>3
  <2>9. /\ n <= Len(w[k]) /\ z[k] = SubSeq(w[k], 1, n)
        /\ \A m \in Connections : m # k => z[m] = w[m]
    BY <2>3, <2>6, <2>7, <2>8
  <2>10. Total(z, Titled(s), BatchLabel) <= Total(w, Titled(s), BatchLabel)
    BY <1>3, <2>7, <2>8, <2>9, AcksOnLine
  <2>11. Total(wire'[s], Titled(s), BatchLabel) <= Total(wire[s], Titled(s), BatchLabel)
    BY <2>7, <2>10
  <2>12. Total(wire'[s], Titled(s), BatchLabel) \in Nat
    BY AcksNext
  <2>13. QED  BY <1>1, <2>1, <2>11, <2>12 DEF Acks, AcksIn
<1>4. QED  BY <1>2, <1>3 DEF Trouble

\* A read takes the packet ahead from the line of the other side.
LEMMA AcksRead ==
  ASSUME Shape, Shape', NEW t \in Sides, Read(t)
  PROVE  /\ Acks(t)' = Acks(t)
         /\ Acks(Other(t)) = Acks(Other(t))' + One(Ahead(t) = BatchLabel)
<1>1. PICK s \in Sides : s = Other(t)
  BY TheSides
<1>2. s # t
  BY <1>1, TheSides
<1>3. PICK k \in Connections : k = Head(intake[t])
  BY TheRead DEF Shape, Read
<1>4. /\ UNCHANGED <<transport, items, item>>
      /\ wire' = [wire EXCEPT ![s][k] = Tail(@)]
  BY <1>1, <1>3 DEF Read
<1>5. Acks(t)' = Acks(t)
  <2>1. wire'[t] = wire[t]
    BY <1>1, <1>2, <1>4 DEF Shape, WireShape
  <2>2. QED  BY <1>4, <2>1, AcksSame
<1>6. /\ wire[s][k] # <<>> /\ Ahead(t) = Titled(s)[Head(wire[s][k])]
  BY <1>1, <1>3 DEF Read, Packets, Ahead
<1>7. wire[s] \in OnLines(Travels(s)) /\ wire'[s] \in OnLines(Travels(s))
  BY <1>1 DEF Shape, WireShape, OnLines
<1>8. wire'[s][k] = Tail(wire[s][k])
      /\ \A n \in Connections : n # k => wire'[s][n] = wire[s][n]
  BY <1>1, <1>3, <1>4 DEF Shape, WireShape
<1>9. PICK w, z \in OnLines(Travels(s)) : w = wire[s] /\ z = wire'[s]
  BY <1>7
<1>10. /\ w[k] # <<>> /\ z[k] = Tail(w[k]) /\ Ahead(t) = Titled(s)[Head(w[k])]
       /\ \A m \in Connections : m # k => z[m] = w[m]
  BY <1>6, <1>8, <1>9
<1>11. Total(w, Titled(s), BatchLabel)
         = Total(z, Titled(s), BatchLabel) + One(Titled(s)[Head(w[k])] = BatchLabel)
  BY <1>3, <1>9, <1>10, AcksOnLine
<1>12. Total(wire[s], Titled(s), BatchLabel)
         = Total(wire'[s], Titled(s), BatchLabel) + One(Ahead(t) = BatchLabel)
  BY <1>9, <1>10, <1>11
<1>13. /\ Amount(items[s], Named(s), BatchLabel) \in Nat
       /\ Amount(item[s], Named(s), BatchLabel) \in Nat
       /\ Total(wire[s], Titled(s), BatchLabel) \in Nat
       /\ Total(wire'[s], Titled(s), BatchLabel) \in Nat
  BY <1>1, AcksType, AcksNext
<1>14. One(Ahead(t) = BatchLabel) \in {0, 1}
  BY DEF One
<1>15. Acks(s) = Acks(s)' + One(Ahead(t) = BatchLabel)
  <2>1. items'[s] = items[s] /\ item'[s] = item[s] /\ transport' = transport
    BY <1>4
  <2>2. QED  BY <1>12, <1>13, <1>14, <2>1 DEF Acks, AcksIn
<1>16. QED  BY <1>1, <1>5, <1>15

LEMMA AcksPuts ==
  ASSUME Shape, Shape', NEW t \in Sides, NEW x \in Travelling(t) \cup {Closing}, Puts(t, x),
         NEW s \in Sides
  PROVE  Acks(s)' <= Acks(s) + One(s = t /\ Label(x) = BatchLabel)
<1>1. /\ Amount(items[s], Named(s), BatchLabel) \in Nat
      /\ Amount(item[s], Named(s), BatchLabel) \in Nat
      /\ Total(wire[s], Titled(s), BatchLabel) \in Nat
      /\ Acks(s) \in Nat
  BY AcksType
<1>2. One(s = t /\ Label(x) = BatchLabel) \in {0, 1}
  BY DEF One
<1>3. item'[s] = item[s] /\ wire'[s] = wire[s] /\ UNCHANGED transport
  BY DEF Puts
<1>4. CASE items'[s] = items[s]
  <2>1. Acks(s)' = Acks(s)
    BY <1>3, <1>4, AcksSame
  <2>2. QED  BY <1>1, <1>2, <2>1
<1>5. CASE s = t /\ items'[s] = Append(items[s], x)
  <2>1. items[s] \in Seq(Travelling(s) \cup {Closing}) /\ x \in Travelling(s) \cup {Closing}
    BY <1>5 DEF Shape, QueueShape
  <2>2. Amount(Append(items[s], x), Named(s), BatchLabel)
          = Amount(items[s], Named(s), BatchLabel) + One(Named(s)[x] = BatchLabel)
    BY <2>1, AmountAppend
  <2>3. Named(s)[x] = Label(x)
    BY <2>1, LabelsOf
  <2>4. Amount(items'[s], Named(s), BatchLabel)
          = Amount(items[s], Named(s), BatchLabel) + One(s = t /\ Label(x) = BatchLabel)
    BY <1>5, <2>2, <2>3
  <2>5. QED  BY <1>1, <1>2, <1>3, <2>4 DEF Acks, AcksIn
<1>6. QED  BY <1>4, <1>5 DEF Puts, Shape, QueueShape

\* The plain sends that the other side has not read, and the tasks it has for those it has.
Waiting(s) == {c \in Messages : Op[c] = "send" /\ Taken(s, c) /\ ~Arrived(s, c)}
Busy(s) == {e \in working[s] : ~e[2]}
Covered(s) ==
  slots[s] >= Cardinality(Waiting(s)) + Cardinality(Busy(Other(s))) + Acks(Other(s))

\* The slots of a relay cover what was sent through it and not acknowledged, unless QUIC
\* may write an acknowledgement twice.
SlotsInv == \A s \in Sides : Doubles \/ Covered(s)

LEMMA ElementsFinite ==
  ASSUME NEW T, NEW q \in Seq(T), NEW S, \A x \in S : \E i \in DOMAIN q : q[i] = x
  PROVE  IsFiniteSet(S) /\ Cardinality(S) \in Nat
<1> DEFINE U == {q[i] : i \in DOMAIN q}
           f == [i \in DOMAIN q |-> q[i]]
<1>1. IsFiniteSet(DOMAIN q)
  <2>1. DOMAIN q = 1..Len(q) /\ Len(q) \in Int
    OBVIOUS
  <2>2. QED  BY <2>1, FS_Interval
<1>2. f \in Surjection(DOMAIN q, U)
  BY DEF Surjection
<1>3. IsFiniteSet(U)
  BY <1>1, <1>2, FS_Surjection
<1>4. S \in SUBSET U
  OBVIOUS
<1>5. QED  BY <1>3, <1>4, FS_Subset, FS_CardinalityType

LEMMA PlacesFinite ==
  ASSUME NEW T, NEW q \in Seq(T), NEW S, S \subseteq (DOMAIN q) \X BOOLEAN
  PROVE  IsFiniteSet(S) /\ Cardinality(S) \in Nat
<1>1. IsFiniteSet(DOMAIN q)
  <2>1. DOMAIN q = 1..Len(q) /\ Len(q) \in Int
    OBVIOUS
  <2>2. QED  BY <2>1, FS_Interval
<1>2. IsFiniteSet(BOOLEAN)
  <2>1. IsFiniteSet({TRUE} \cup {FALSE})
    BY FS_Singleton, FS_Union
  <2>2. BOOLEAN = {TRUE} \cup {FALSE}
    OBVIOUS
  <2>3. QED  BY <2>1, <2>2
<1>3. IsFiniteSet((DOMAIN q) \X BOOLEAN)
  BY <1>1, <1>2, FS_Product
<1>4. QED  BY <1>3, FS_Subset, FS_CardinalityType

LEMMA CoveredTypes ==
  ASSUME Shape, NEW s \in Sides
  PROVE  /\ IsFiniteSet(Waiting(s)) /\ Cardinality(Waiting(s)) \in Nat
         /\ IsFiniteSet(Busy(s)) /\ Cardinality(Busy(s)) \in Nat
         /\ slots[s] \in Int
<1>1. submitted[s] \in Seq(Messages) /\ arrived[s] \in Seq(Messages)
      /\ Busy(s) \subseteq (DOMAIN arrived[s]) \X BOOLEAN /\ slots[s] \in Int
  BY DEF Shape, BusShape, Busy
<1>2. \A c \in Waiting(s) : \E i \in DOMAIN submitted[s] : submitted[s][i] = c
  BY DEF Waiting, Taken
<1>3. QED  BY <1>1, <1>2, ElementsFinite, PlacesFinite

LEMMA CoveredNext ==
  ASSUME Shape', NEW s \in Sides
  PROVE  /\ IsFiniteSet(Waiting(s)') /\ Cardinality(Waiting(s)') \in Nat
         /\ IsFiniteSet(Busy(s)') /\ Cardinality(Busy(s)') \in Nat
         /\ slots'[s] \in Int
<1>1. submitted'[s] \in Seq(Messages) /\ arrived'[s] \in Seq(Messages)
      /\ Busy(s)' \subseteq (DOMAIN arrived'[s]) \X BOOLEAN /\ slots'[s] \in Int
  BY DEF Shape, BusShape, Busy
<1>2. \A c \in Waiting(s)' : \E i \in DOMAIN submitted'[s] : submitted'[s][i] = c
  BY DEF Waiting, Taken
<1>3. QED  BY <1>1, <1>2, ElementsFinite, PlacesFinite

\* What is left of a set, with or without one element more.
LEMMA Subsets ==
  ASSUME NEW S, IsFiniteSet(S), NEW U
  PROVE  /\ U \subseteq S => Cardinality(U) <= Cardinality(S)
         /\ \A x : U \subseteq S \cup {x} => Cardinality(U) <= Cardinality(S) + 1
         /\ \A x \in S : U \subseteq S \ {x} => Cardinality(U) <= Cardinality(S) - 1
<1>1. Cardinality(S) \in Nat
  BY FS_CardinalityType
<1>2. U \subseteq S => Cardinality(U) <= Cardinality(S)
  BY FS_Subset
<1>3. ASSUME NEW x, U \subseteq S \cup {x}
      PROVE  Cardinality(U) <= Cardinality(S) + 1
  <2>1. IsFiniteSet(S \cup {x}) /\ Cardinality(S \cup {x}) \in {Cardinality(S), Cardinality(S) + 1}
    BY FS_AddElement
  <2>2. Cardinality(U) <= Cardinality(S \cup {x}) /\ IsFiniteSet(U)
    BY <1>3, <2>1, FS_Subset
  <2>3. Cardinality(U) \in Nat
    BY <2>2, FS_CardinalityType
  <2>4. QED  BY <1>1, <2>1, <2>2, <2>3
<1>4. ASSUME NEW x \in S, U \subseteq S \ {x}
      PROVE  Cardinality(U) <= Cardinality(S) - 1
  <2>1. IsFiniteSet(S \ {x}) /\ Cardinality(S \ {x}) = Cardinality(S) - 1
    BY FS_RemoveElement
  <2>2. Cardinality(U) <= Cardinality(S \ {x})
    BY <1>4, <2>1, FS_Subset
  <2>3. QED  BY <2>1, <2>2
<1>5. QED  BY <1>2, <1>3, <1>4

LEMMA CoveredSame ==
  ASSUME Shape, Shape', NEW s \in Sides, Covered(s), slots'[s] = slots[s],
         Waiting(s)' = Waiting(s), Busy(Other(s))' = Busy(Other(s)),
         Acks(Other(s))' <= Acks(Other(s))
  PROVE  Covered(s)'
<1>1. PICK t \in Sides : t = Other(s)
  BY TheSides
<1>2. /\ Cardinality(Waiting(s)) \in Nat /\ Cardinality(Busy(t)) \in Nat /\ Acks(t) \in Nat
      /\ Acks(t)' \in Nat /\ slots[s] \in Int
  BY CoveredTypes, AcksType, AcksNext
<1>3. /\ slots[s] >= Cardinality(Waiting(s)) + Cardinality(Busy(t)) + Acks(t)
      /\ Acks(t)' <= Acks(t) /\ Busy(t)' = Busy(t)
  BY <1>1 DEF Covered
<1>4. slots'[s] >= Cardinality(Waiting(s)') + Cardinality(Busy(t)') + Acks(t)'
  BY <1>2, <1>3
<1>5. QED  BY <1>1, <1>4 DEF Covered

LEMMA CountsSame ==
  ASSUME NEW s \in Sides
  PROVE  /\ submitted'[s] = submitted[s] /\ arrived'[Other(s)] = arrived[Other(s)]
              => Waiting(s)' = Waiting(s)
         /\ working'[s] = working[s] => Busy(s)' = Busy(s)
BY DEF Waiting, Busy, Taken, Arrived

LEMMA NotReadBefore ==
  ASSUME Shape, OrderInv, ~Doubles, NEW t \in Sides, NEW s \in Sides, t = Other(s), Read(t),
         NEW c \in Messages, Ahead(t) = Sent(c)
  PROVE  ~Arrived(s, c)
<1>1. PICK F : F = {<<Sent(c), Sent(c)>>}
  OBVIOUS
<1>2. Lined(s, F)
  BY <1>1 DEF OrderInv, Wrong
<1>3. PICK k \in Connections : k = Head(intake[t])
  BY TheRead DEF Shape, Read
<1>4. s = Other(t)
  BY TheSides
<1>5. /\ wire[s][k] \in Seq(Travels(s)) /\ wire[s][k] # <<>>
      /\ Sent(c) = Titled(s)[Head(wire[s][k])]
  BY <1>3, <1>4, TheRead DEF Shape, Read, Packets, Ahead
<1>6. Sent(c) \in OnLink(s, k)
  <2>1. 1 \in DOMAIN wire[s][k] /\ wire[s][k][1] = Head(wire[s][k])
    BY <1>5
  <2>2. QED  BY <1>5, <2>1 DEF OnLink, Marks
<1>7. ASSUME Arrived(s, c)
      PROVE  FALSE
  <2>1. PICK j \in DOMAIN arrived[Other(s)] : arrived[Other(s)][j] = c
    BY <1>7 DEF Arrived
  <2>2. Called[c] = Sent(c)
    BY DEF Called, Sent
  <2>3. Sent(c) \in Came(s)
    BY <2>1, <2>2 DEF Came, Marks
  <2>4. Apart(F, Came(s), OnLink(s, k))
    BY <1>2, <1>3 DEF Lined
  <2>5. QED  BY <1>1, <1>6, <2>3, <2>4 DEF Apart
<1>8. QED  BY <1>7

LEMMA SlotsSubmit ==
  ASSUME Shape, Shape', NEW c \in Messages, Submit(c), NEW s \in Sides, Covered(s)
  PROVE  Covered(s)'
<1>1. PICK t \in Sides : t = Other(s)
  BY TheSides
<1>2. c \in Calls /\ From[c] \in Sides
  BY CallTypes
<1>3. UNCHANGED <<arrived, working, transport, item, wire>>
  BY DEF Submit, linkRest
<1>4. Busy(t)' = Busy(t)
  BY <1>3, CountsSame
<1>5. Acks(t)' <= Acks(t)
  <2>1. CASE items' = items
    <3>1. Acks(t)' = Acks(t)
      BY <1>3, <2>1, AcksSame
    <3>2. QED  BY <3>1, AcksType
  <2>2. CASE Puts(From[c], Sending(c))
    <3>1. Sending(c) \in Travelling(From[c])
      BY DEF Travelling
    <3>2. Label(Sending(c)) # BatchLabel
      BY <3>1, Traveller, Fields DEF BatchLabel
    <3>3. Acks(t)' <= Acks(t) + One(t = From[c] /\ Label(Sending(c)) = BatchLabel)
      BY <1>2, <2>2, <3>1, AcksPuts
    <3>4. QED  BY <3>2, <3>3, AcksType DEF One
  <2>3. QED  BY <2>1, <2>2, SubmitPuts
<1>6. CASE s # From[c]
  <2>1. submitted'[s] = submitted[s] /\ slots'[s] = slots[s]
    BY <1>2, <1>6 DEF Submit, Shape, BusShape
  <2>2. Waiting(s)' = Waiting(s)
    BY <1>3, <2>1, CountsSame
  <2>3. QED  BY <1>1, <1>4, <1>5, <2>1, <2>2, CoveredSame
<1>7. CASE s = From[c] /\ submitted'[s] = submitted[s]
  <2>1. slots'[s] = slots[s] \/ slots'[s] = slots[s] + 1
    BY <1>7 DEF Submit, Shape, BusShape
  <2>2. Waiting(s)' = Waiting(s)
    BY <1>3, <1>7, CountsSame
  <2>3. /\ Cardinality(Waiting(s)) \in Nat /\ Cardinality(Busy(t)) \in Nat /\ Acks(t) \in Nat
        /\ Acks(t)' \in Nat /\ slots[s] \in Int
    BY CoveredTypes, AcksType, AcksNext
  <2>4. slots[s] >= Cardinality(Waiting(s)) + Cardinality(Busy(t)) + Acks(t)
    BY <1>1 DEF Covered
  <2>5. slots'[s] >= Cardinality(Waiting(s)') + Cardinality(Busy(t)') + Acks(t)'
    BY <1>4, <1>5, <2>1, <2>2, <2>3, <2>4
  <2>6. QED  BY <1>1, <2>5 DEF Covered
<1>8. CASE s = From[c] /\ submitted'[s] # submitted[s]
  <2>1. submitted'[s] = Append(submitted[s], c)
    BY <1>2, <1>8, SubmitPuts DEF Shape, BusShape
  <2>2. slots'[s] = IF Op[c] = "send" THEN slots[s] + 1 ELSE slots[s]
    <3>1. ~(closed[s] /\ Op[c] = "send")
      BY <1>8 DEF Submit
    <3>2. slots' = IF Op[c] = "send" THEN [slots EXCEPT ![s] = @ + 1] ELSE slots
      BY <1>8, <3>1 DEF Submit
    <3>3. QED  BY <3>2 DEF Shape, BusShape
  <2>3. \A d : Taken(s, d)' => Taken(s, d) \/ d = c
    <3>1. submitted[s] \in Seq(Messages)
      BY DEF Shape, BusShape
    <3>2. \A q \in Seq(Messages) : \A i \in DOMAIN Append(q, c) :
            (i \in DOMAIN q /\ Append(q, c)[i] = q[i]) \/ Append(q, c)[i] = c
      OBVIOUS
    <3>3. QED  BY <2>1, <3>1, <3>2 DEF Taken
  <2>4. \A d : Arrived(s, d)' <=> Arrived(s, d)
    BY <1>3 DEF Arrived
  <2>5. /\ Op[c] = "send" => Waiting(s)' \subseteq Waiting(s) \cup {c}
        /\ Op[c] # "send" => Waiting(s)' \subseteq Waiting(s)
    BY <2>3, <2>4 DEF Waiting
  <2>6. /\ IsFiniteSet(Waiting(s)) /\ Cardinality(Waiting(s)) \in Nat
        /\ Cardinality(Busy(t)) \in Nat /\ Acks(t) \in Nat
        /\ Acks(t)' \in Nat /\ slots[s] \in Int /\ Cardinality(Waiting(s)') \in Nat
    BY CoveredTypes, CoveredNext, AcksType, AcksNext
  <2>7. slots[s] >= Cardinality(Waiting(s)) + Cardinality(Busy(t)) + Acks(t)
    BY <1>1 DEF Covered
  <2>8. PICK W : W = Waiting(s)'
    OBVIOUS
  <2>9. /\ Op[c] = "send" => Cardinality(W) <= Cardinality(Waiting(s)) + 1
        /\ Op[c] # "send" => Cardinality(W) <= Cardinality(Waiting(s))
    BY <2>5, <2>6, <2>8, Subsets
  <2>10. slots'[s] >= Cardinality(W) + Cardinality(Busy(t)') + Acks(t)'
    BY <1>4, <1>5, <2>2, <2>6, <2>7, <2>8, <2>9
  <2>11. QED  BY <1>1, <2>8, <2>10 DEF Covered
<1>9. QED  BY <1>6, <1>7, <1>8

LEMMA SlotsRespond ==
  ASSUME Shape, Shape', NEW u \in Sides, NEW e \in working[u], Respond(u, e[1], e[2]),
         NEW s \in Sides, Covered(s)
  PROVE  Covered(s)'
<1>1. PICK t \in Sides : t = Other(s)
  BY TheSides
<1>2. /\ UNCHANGED <<slots, arrived, submitted>>
      /\ working' = [working EXCEPT ![u] = @ \ {<<e[1], e[2]>>}]
  BY DEF Respond
<1>3. e = <<e[1], e[2]>> /\ e[2] \in BOOLEAN
  <2>1. e \in (DOMAIN arrived[u]) \X BOOLEAN
    BY DEF Shape, BusShape
  <2>2. QED  BY <2>1
<1>4. Waiting(s)' = Waiting(s) /\ slots'[s] = slots[s]
  BY <1>2, CountsSame
<1>5. /\ IsFiniteSet(Busy(t)) /\ Cardinality(Busy(t)) \in Nat /\ Acks(t) \in Nat
      /\ Acks(t)' \in Nat /\ slots[s] \in Int /\ Cardinality(Waiting(s)) \in Nat
      /\ Cardinality(Busy(t)') \in Nat
  BY CoveredTypes, CoveredNext, AcksType, AcksNext
<1>6. slots[s] >= Cardinality(Waiting(s)) + Cardinality(Busy(t)) + Acks(t)
  BY <1>1 DEF Covered
<1>7. PICK B : B = Busy(t)'
  OBVIOUS
<1>8. Cardinality(B) + Acks(t)' <= Cardinality(Busy(t)) + Acks(t)
  <2>1. CASE t = u /\ ~e[2]
    <3>1. e \in Busy(t) /\ B \subseteq Busy(t) \ {e}
      BY <1>2, <1>3, <1>7, <2>1 DEF Busy, Shape, BusShape
    <3>2. Cardinality(B) <= Cardinality(Busy(t)) - 1
      BY <1>5, <3>1, Subsets
    <3>3. Puts(t, Completes(1, "type"))
      BY <2>1, RespondPuts
    <3>4. Completes(1, "type") \in Travelling(t) \cup {Closing}
      BY DEF Travelling
    <3>5. Acks(t)' <= Acks(t) + One(t = t /\ Label(Completes(1, "type")) = BatchLabel)
      BY <3>3, <3>4, AcksPuts
    <3>6. Acks(t)' <= Acks(t) + 1
      BY <1>5, <3>5 DEF One
    <3>7. QED  BY <1>5, <1>7, <3>2, <3>6
  <2>2. CASE t # u \/ e[2]
    <3>1. B \subseteq Busy(t)
      BY <1>2, <1>7 DEF Busy, Shape, BusShape
    <3>2. Cardinality(B) <= Cardinality(Busy(t))
      BY <1>5, <3>1, Subsets
    <3>3. Acks(t)' <= Acks(t)
      <4>1. PICK x \in Travelling(u) : Puts(u, x) /\ (t # u \/ Label(x) # BatchLabel)
        <5>1. CASE e[2]
          <6>1. PICK c \in Messages : Puts(u, Reply(c, Message(Answer)))
            BY <5>1, RespondPuts
          <6>2. Reply(c, Message(Answer)) \in Travelling(u)
            BY DEF Travelling
          <6>3. Label(Reply(c, Message(Answer))) # BatchLabel
            BY <6>2, Traveller, Fields DEF BatchLabel
          <6>4. QED  BY <6>1, <6>2, <6>3
        <5>2. CASE ~e[2]
          <6>1. Puts(u, Completes(1, "type")) /\ t # u
            BY <2>2, <5>2, RespondPuts
          <6>2. Completes(1, "type") \in Travelling(u)
            BY DEF Travelling
          <6>3. QED  BY <6>1, <6>2
        <5>3. QED  BY <1>3, <5>1, <5>2
      <4>2. Acks(t)' <= Acks(t) + One(t = u /\ Label(x) = BatchLabel)
        BY <4>1, AcksPuts
      <4>3. One(t = u /\ Label(x) = BatchLabel) = 0
        BY <4>1 DEF One
      <4>4. QED  BY <1>5, <4>2, <4>3
    <3>4. QED  BY <1>5, <1>7, <3>2, <3>3
  <2>3. QED  BY <1>3, <2>1, <2>2
<1>9. slots'[s] >= Cardinality(Waiting(s)') + Cardinality(B) + Acks(t)'
  BY <1>4, <1>5, <1>6, <1>7, <1>8
<1>10. QED  BY <1>1, <1>7, <1>9 DEF Covered

\* The side reads: an acknowledgement frees a slot.
LEMMA SlotsReadHere ==
  ASSUME Shape, Shape', NEW s \in Sides, Read(s), Covered(s)
  PROVE  Covered(s)'
<1>1. PICK t \in Sides : t = Other(s) /\ s = Other(t) /\ t # s
  BY TheSides
<1>2. PICK p \in Travels(t) : p = Head(Packets(s))
  BY <1>1, TheRead DEF Shape, Read
<1>3. PICK x : x = Deserialize(p, s)
  OBVIOUS
<1>4. Acks(t) = Acks(t)' + One(Ahead(s) = BatchLabel)
  BY <1>1, AcksRead
<1>5. /\ Cardinality(Waiting(s)) \in Nat /\ Cardinality(Busy(t)) \in Nat /\ Acks(t) \in Nat
      /\ Acks(t)' \in Nat /\ slots[s] \in Int
  BY CoveredTypes, AcksType, AcksNext
<1>6. slots[s] >= Cardinality(Waiting(s)) + Cardinality(Busy(t)) + Acks(t)
  BY <1>1 DEF Covered
<1>7. arrived'[t] = arrived[t] /\ working'[t] = working[t] /\ UNCHANGED submitted
  <2>1. \/ UNCHANGED <<arrived, working>>
        \/ \E m, e : /\ arrived' = [arrived EXCEPT ![s] = Append(@, m)]
                     /\ working' = [working EXCEPT ![s] = @ \cup {e}]
    BY ReadCases DEF OnSend, OnAction, OnEvent
  <2>2. QED  BY <1>1, <2>1 DEF Read, Shape, BusShape
<1>8. Waiting(s)' = Waiting(s) /\ Busy(t)' = Busy(t)
  BY <1>1, <1>7, CountsSame
<1>9. slots'[s] = slots[s] \/ (slots'[s] = slots[s] - 1 /\ Ahead(s) = BatchLabel)
  <2>1. CASE x.what # "BatchComplete"
    <3>1. UNCHANGED slots
      BY <1>2, <1>3, <2>1, ReadCases DEF OnSend, OnAction, OnEvent
    <3>2. QED  BY <3>1
  <2>2. CASE x.what = "BatchComplete"
    <3>1. x.num = 1 /\ p.argument = 1 /\ p.kind = "BatchComplete"
      BY <1>3, <2>2, Reading
    <3>2. slots' = [slots EXCEPT ![s] = @ - x.num]
      BY <1>2, <1>3, <2>2, ReadCases DEF OnEvent
    <3>3. Ahead(s) = BatchLabel
      BY <1>1, <1>2, <3>1 DEF Ahead, Titled, BatchLabel
    <3>4. QED  BY <3>1, <3>2, <3>3 DEF Shape, BusShape
  <2>3. QED  BY <2>1, <2>2
<1>10. slots'[s] >= Cardinality(Waiting(s)') + Cardinality(Busy(t)') + Acks(t)'
  <2>1. /\ One(Ahead(s) = BatchLabel) \in {0, 1}
        /\ Ahead(s) = BatchLabel => One(Ahead(s) = BatchLabel) = 1
    BY DEF One
  <2>2. QED  BY <1>4, <1>5, <1>6, <1>8, <1>9, <2>1
<1>11. QED  BY <1>1, <1>10 DEF Covered

\* The other side reads: a plain send gets its task, and had none.
LEMMA SlotsReadThere ==
  ASSUME Shape, Shape', OrderInv, ~Doubles, NEW t \in Sides, NEW s \in Sides, t = Other(s),
         Read(t), Covered(s)
  PROVE  Covered(s)'
<1>1. s = Other(t) /\ t # s
  BY TheSides
<1>2. PICK p \in Travels(s) : p = Head(Packets(t))
  BY <1>1, TheRead DEF Shape, Read
<1>3. PICK x : x = Deserialize(p, t)
  OBVIOUS
<1>4. Acks(t)' = Acks(t)
  BY AcksRead
<1>5. /\ IsFiniteSet(Waiting(s)) /\ Cardinality(Waiting(s)) \in Nat
      /\ IsFiniteSet(Busy(t)) /\ Cardinality(Busy(t)) \in Nat /\ Acks(t) \in Nat
      /\ slots[s] \in Int /\ Cardinality(Waiting(s)') \in Nat /\ Cardinality(Busy(t)') \in Nat
  BY CoveredTypes, CoveredNext, AcksType
<1>6. slots[s] >= Cardinality(Waiting(s)) + Cardinality(Busy(t)) + Acks(t)
  BY DEF Covered
<1>7. slots'[s] = slots[s] /\ UNCHANGED submitted
  <2>1. UNCHANGED slots \/ \E v : slots' = [slots EXCEPT ![t] = v]
    BY ReadCases DEF OnSend, OnAction, OnEvent
  <2>2. QED  BY <1>1, <2>1 DEF Read, Shape, BusShape
<1>8. CASE x.what # "Send"
  <2>1. UNCHANGED <<arrived, working>>
    BY <1>2, <1>3, <1>8, ReadCases DEF OnAction, OnEvent
  <2>2. Waiting(s)' = Waiting(s) /\ Busy(t)' = Busy(t)
    BY <1>7, <2>1, CountsSame
  <2>3. QED  BY <1>4, <1>5, <1>7, <2>2, CoveredSame
<1>9. CASE x.what = "Send"
  <2>1. /\ p.kind = "Send" /\ x.load.body = p.argument /\ p.argument \in Messages
        /\ x.req = (Op[p.argument] = "request")
    BY <1>3, <1>9, Reading
  <2>2. PICK c \in Messages : c = p.argument
    BY <2>1
  <2>3. /\ arrived' = [arrived EXCEPT ![t] = Append(@, c)]
        /\ working' = [working EXCEPT ![t] = @ \cup {<<Len(arrived[t]) + 1, x.req>>}]
    BY <1>2, <1>3, <1>9, <2>1, <2>2, ReadCases DEF OnSend
  <2>4. PICK e : e = <<Len(arrived[t]) + 1, x.req>>
    OBVIOUS
  <2>5. e[2] = (Op[c] = "request")
    BY <2>1, <2>2, <2>4
  <2>6. arrived'[t] = Append(arrived[t], c) /\ working'[t] = working[t] \cup {e}
    BY <2>3, <2>4 DEF Shape, BusShape
  <2>7. \A d : Arrived(s, d)' <=> Arrived(s, d) \/ d = c
    <3>1. arrived[t] \in Seq(Messages)
      BY DEF Shape, BusShape
    <3>2. \A q \in Seq(Messages) :
            /\ \A i \in DOMAIN q : i \in DOMAIN Append(q, c) /\ Append(q, c)[i] = q[i]
            /\ \A i \in DOMAIN Append(q, c) :
                 (i \in DOMAIN q /\ Append(q, c)[i] = q[i]) \/ Append(q, c)[i] = c
            /\ Len(q) + 1 \in DOMAIN Append(q, c) /\ Append(q, c)[Len(q) + 1] = c
      OBVIOUS
    <3>3. QED  BY <2>6, <3>1, <3>2 DEF Arrived
  <2>8. PICK W, B : W = Waiting(s)' /\ B = Busy(t)'
    OBVIOUS
  <2>9. W \subseteq Waiting(s) \ {c}
    BY <1>7, <2>7, <2>8 DEF Waiting, Taken
  <2>10. CASE Op[c] = "request"
    <3>1. B \subseteq Busy(t)
      BY <2>5, <2>6, <2>8, <2>10 DEF Busy
    <3>2. Cardinality(W) <= Cardinality(Waiting(s)) /\ Cardinality(B) <= Cardinality(Busy(t))
      BY <1>5, <2>9, <3>1, Subsets
    <3>3. slots'[s] >= Cardinality(W) + Cardinality(B) + Acks(t)'
      BY <1>4, <1>5, <1>6, <1>7, <2>8, <3>2
    <3>4. QED  BY <2>8, <3>3 DEF Covered
  <2>11. CASE Op[c] = "send"
    <3>1. c \in Waiting(s)
      <4>1. Ahead(t) = Sent(c)
        BY <1>1, <1>2, <2>1, <2>2 DEF Ahead, Titled, Sent
      <4>2. Sent(c) \in OnPath(s)
        BY <1>1, <4>1, ReadAhead
      <4>3. Taken(s, c)
        BY <4>2 DEF OrderInv
      <4>4. ~Arrived(s, c)
        BY <4>1, NotReadBefore
      <4>5. QED  BY <2>11, <4>3, <4>4 DEF Waiting
    <3>2. B \subseteq Busy(t) \cup {e}
      BY <2>6, <2>8 DEF Busy
    <3>3. /\ Cardinality(W) <= Cardinality(Waiting(s)) - 1
          /\ Cardinality(B) <= Cardinality(Busy(t)) + 1
      BY <1>5, <2>9, <3>1, <3>2, Subsets
    <3>4. slots'[s] >= Cardinality(W) + Cardinality(B) + Acks(t)'
      BY <1>4, <1>5, <1>6, <1>7, <2>8, <3>3
    <3>5. QED  BY <2>8, <3>4 DEF Covered
  <2>12. QED  BY <2>10, <2>11 DEF Messages
<1>10. QED  BY <1>8, <1>9

LEMMA SlotsStep ==
  Shape /\ ConnInv /\ OrderInv /\ SlotsInv /\ [Next]_vars => SlotsInv'
<1> SUFFICES ASSUME Shape, ConnInv, OrderInv, SlotsInv, [Next]_vars, ~Doubles',
                    NEW s \in Sides
             PROVE  Covered(s)'
  BY DEF SlotsInv
<1>1. Shape'
  BY ShapeStep
<1>2. ~Doubles
  BY DoublesStays
<1>3. Covered(s)
  BY <1>2 DEF SlotsInv
<1>4. PICK t \in Sides : t = Other(s)
  BY TheSides
<1>5. ASSUME UNCHANGED <<slots, submitted, arrived, working>>, Acks(t)' <= Acks(t)
      PROVE  Covered(s)'
  <2>1. Waiting(s)' = Waiting(s) /\ Busy(t)' = Busy(t) /\ slots'[s] = slots[s]
    BY <1>5, CountsSame
  <2>2. QED  BY <1>1, <1>3, <1>4, <1>5, <2>1, CoveredSame
<1>6. ASSUME UNCHANGED <<slots, submitted, arrived, working>>, NEW u \in Sides,
             NEW x \in Travelling(u) \cup {Closing}, Label(x) # BatchLabel, Puts(u, x)
      PROVE  Covered(s)'
  <2>1. Acks(t)' <= Acks(t) + One(t = u /\ Label(x) = BatchLabel)
    BY <1>1, <1>6, AcksPuts
  <2>2. Acks(t) \in Nat /\ One(t = u /\ Label(x) = BatchLabel) = 0
    BY <1>6, AcksType DEF One
  <2>3. QED  BY <1>5, <1>6, <2>1, <2>2
<1>7. ASSUME UNCHANGED <<slots, submitted, arrived, working, transport, items, item, wire>>
      PROVE  Covered(s)'
  <2>1. Acks(t)' = Acks(t)
    BY <1>7, AcksSame
  <2>2. QED  BY <1>5, <1>7, <2>1, AcksType
<1>8. \A u \in Sides : \A w \in {"Flush", "Synchronize", "Flushed"} :
        Plain(w) \in Travelling(u) \cup {Closing} /\ Label(Plain(w)) # BatchLabel
  <2>1. ASSUME NEW u \in Sides, NEW w \in {"Flush", "Synchronize", "Flushed"}
        PROVE  Plain(w) \in Travelling(u) /\ Label(Plain(w)) # BatchLabel
    <3>1. Plain(w) \in Travelling(u)
      BY DEF Travelling
    <3>2. QED  BY <3>1, Traveller, Fields DEF BatchLabel
  <2>2. QED  BY <2>1
<1>9. ASSUME NEW c \in Calls, Submit(c)
      PROVE  Covered(s)'
  <2>1. c \in Messages
    BY <1>9 DEF Submit
  <2>2. QED  BY <1>1, <1>3, <1>9, <2>1, SlotsSubmit
<1>10. ASSUME NEW c \in Calls, Flush(c) \/ Sync(c) \/ CloseBus(c)
       PROVE  Covered(s)'
  <2>1. UNCHANGED <<slots, submitted, arrived, working>> /\ From[c] \in Sides
    BY <1>10, CallTypes DEF Flush, Sync, CloseBus
  <2>2. CASE CloseBus(c)
    <3>1. Puts(From[c], Closing) /\ Label(Closing) # BatchLabel
      BY <2>2, CallPuts DEF Label, BatchLabel
    <3>2. QED  BY <1>6, <2>1, <3>1
  <2>3. CASE Flush(c) \/ Sync(c)
    <3>1. \E w \in {"Flush", "Synchronize"} : Puts(From[c], Plain(w))
      BY <2>3, CallPuts
    <3>2. QED  BY <1>6, <1>8, <2>1, <3>1
  <2>4. QED  BY <1>10, <2>2, <2>3
<1>11. ASSUME NEW u \in Sides, EventStream(u)
       PROVE  Covered(s)'
  <2>1. CASE Notice(u) \/ ReadEnds(u)
    BY <1>7, <2>1 DEF Notice, ReadEnds, busVars
  <2>2. CASE Read(u)
    <3>1. CASE u = s
      BY <1>1, <1>3, <2>2, <3>1, SlotsReadHere
    <3>2. CASE u = t
      BY <1>1, <1>2, <1>3, <1>4, <2>2, <3>2, SlotsReadThere
    <3>3. QED  BY <1>4, <3>1, <3>2, TheSides
  <2>3. CASE FlushReplies(u) \/ AwaitsItself(u)
    <3>1. UNCHANGED <<slots, submitted, arrived, working>>
      BY <2>3 DEF FlushReplies, ReplyInStream, AwaitsItself
    <3>2. \E w \in {"Flush", "Synchronize", "Flushed"} : Puts(u, Plain(w))
      BY <2>3, StreamPuts
    <3>3. QED  BY <1>6, <1>8, <3>1, <3>2
  <2>4. QED  BY <1>11, <2>1, <2>2, <2>3 DEF EventStream
<1>12. ASSUME NEW u \in Sides, NEW e \in working[u], Respond(u, e[1], e[2])
       PROVE  Covered(s)'
  BY <1>1, <1>3, <1>12, SlotsRespond
<1>13. ASSUME NEW u \in Sides, TaskStep(u), UNCHANGED busVars
       PROVE  Covered(s)'
  <2>1. Acks(t)' <= Acks(t)
    BY <1>1, <1>2, <1>13, AcksTask
  <2>2. QED  BY <1>5, <1>13, <2>1 DEF busVars
<1>14. CASE Trouble
  <2>1. Acks(t)' <= Acks(t)
    BY <1>1, <1>14, AcksTrouble
  <2>2. QED  BY <1>5, <1>14, <2>1 DEF Trouble, busVars
<1>15. CASE UNCHANGED vars
  BY <1>7, <1>15 DEF vars, linkVars, busVars
<1>16. QED  BY <1>9, <1>10, <1>11, <1>12, <1>13, <1>14, <1>15, Steps

LEMMA SlotsInit == Init => SlotsInv
<1> SUFFICES ASSUME Init, NEW s \in Sides PROVE Covered(s)
  BY DEF SlotsInv
<1>1. PICK t \in Sides : t = Other(s)
  BY TheSides
<1>2. slots[s] = 0
  BY DEF Init
<1>3. Waiting(s) = {} /\ Busy(t) = {}
  BY DEF Init, Waiting, Taken, Busy
<1>4. items[t] = <<>> /\ item[t] = <<>> /\ wire[t] = [n \in Connections |-> <<>>]
  BY DEF Init, LinkInit
<1>5. Acks(t) = 0
  <2>1. /\ Amount(items[t], Named(t), BatchLabel) = 0
        /\ Amount(item[t], Named(t), BatchLabel) = 0
    BY <1>4, AmountNone
  <2>2. AllSpots(wire[t], Titled(t), BatchLabel) = {}
    BY <1>4 DEF AllSpots, Spots
  <2>3. Total(wire[t], Titled(t), BatchLabel) = 0
    BY <2>2, FS_EmptySet DEF Total
  <2>4. QED  BY <2>1, <2>3 DEF Acks, AcksIn
<1>6. QED  BY <1>1, <1>2, <1>3, <1>5, FS_EmptySet DEF Covered

LEMMA ReadInOrder ==
  ASSUME Shape, OrderInv, NEW s \in Sides, NEW i \in DOMAIN arrived[s],
         NEW j \in DOMAIN arrived[s], i < j
  PROVE  LET first == Position(Other(s), arrived[s][i])
             second == Position(Other(s), arrived[s][j])
         IN  first < second \/ (first = second /\ Doubles)
<1>1. PICK o \in Sides : o = Other(s) /\ s = Other(o)
  BY TheSides
<1>2. PICK a, b \in Messages : a = arrived[s][i] /\ b = arrived[s][j]
  BY DEF Shape, BusShape
<1>3. Taken(o, a) /\ Taken(o, b)
  <2>1. Called[a] = Sent(a) /\ Called[b] = Sent(b)
    BY <1>2 DEF Called, Sent
  <2>2. Sent(a) \in Came(o) /\ Sent(b) \in Came(o)
    BY <1>1, <1>2, <2>1 DEF Came, Marks
  <2>3. QED  BY <1>1, <1>2, <2>2 DEF OrderInv, OnPath, Gone
<1>4. ~Wrong(o, a, b)
  <2>1. ASSUME Wrong(o, a, b)
        PROVE  FALSE
    <3>1. Sorted(arrived[s], Called, {<<Sent(a), Sent(b)>>})
      BY <1>1, <1>2, <2>1 DEF OrderInv, Lined
    <3>2. <<Called[arrived[s][i]], Called[arrived[s][j]]>> = <<Sent(a), Sent(b)>>
      BY <1>2 DEF Called, Sent
    <3>3. <<Called[arrived[s][i]], Called[arrived[s][j]]>> \notin {<<Sent(a), Sent(b)>>}
      BY <3>1 DEF Sorted
    <3>4. QED  BY <3>2, <3>3
  <2>2. QED  BY <2>1
<1>5. PICK p, q : p = Position(o, a) /\ q = Position(o, b)
  OBVIOUS
<1>6. /\ p \in DOMAIN submitted[o] /\ submitted[o][p] = a
      /\ q \in DOMAIN submitted[o] /\ submitted[o][q] = b
      /\ p \in Nat /\ q \in Nat
  <2>1. p \in DOMAIN submitted[o] /\ submitted[o][p] = a
    BY <1>3, <1>5 DEF Position, Taken
  <2>2. q \in DOMAIN submitted[o] /\ submitted[o][q] = b
    BY <1>3, <1>5 DEF Position, Taken
  <2>3. submitted[o] \in Seq(Messages)
    BY DEF Shape, BusShape
  <2>4. QED  BY <2>1, <2>2, <2>3
<1>7. CASE a = b
  <2>1. p = q /\ Doubles
    BY <1>4, <1>5, <1>7 DEF Wrong
  <2>2. QED  BY <1>1, <1>2, <1>5, <2>1
<1>8. CASE a # b
  <2>1. p # q
    BY <1>6, <1>8
  <2>2. ~(q < p)
    BY <1>4, <1>6, <1>8 DEF Wrong, Before
  <2>3. p < q
    BY <1>6, <2>1, <2>2
  <2>4. QED  BY <1>1, <1>2, <1>5, <2>3
<1>9. QED  BY <1>7, <1>8

\* What a relay was given is read in that order and, unless QUIC has opened a second
\* connection, once; and no acknowledgement is counted that nothing was sent for.  For any
\* calls, number of connections and breaks.
THEOREM MessagesInOrder == Spec => []InOrder
<1>1. ASSUME Shape, OrderInv, SlotsInv
      PROVE  InOrder
  <2>1. ASSUME NEW s \in Sides, slots[s] < 0
        PROVE  Doubles
    <3>1. Other(s) \in Sides
      BY TheSides
    <3>2. /\ Cardinality(Waiting(s)) \in Nat /\ Cardinality(Busy(Other(s))) \in Nat
          /\ Acks(Other(s)) \in Nat /\ slots[s] \in Int
      BY <1>1, <3>1, CoveredTypes, AcksType
    <3>3. ~Covered(s)
      BY <2>1, <3>2 DEF Covered
    <3>4. QED  BY <1>1, <3>3 DEF SlotsInv
  <2>2. QED  BY <1>1, <2>1, ReadInOrder DEF InOrder, Doubles
<1>2. Shape /\ OrderInv /\ SlotsInv => InOrder
  BY <1>1
<1>3. QED
  BY <1>2, InitShape, ConnInit, OrderInit, SlotsInit, ShapeStep, ConnStep, OrderStep, SlotsStep,
     PTL DEF Spec
=============================================================================
