------------------------------- MODULE RemoteBus -------------------------------
(***************************************************************************)
(* Two buses joined by a remote relay: the calls that reach the relay of   *)
(* either bus, the event stream that reads what the other side wrote, the  *)
(* calls it makes on the bus of its own side, and their answers.  What the *)
(* other receivers of a bus do is the subject of UnorderedBus and MixedBus *)
(* and is left open here: a task that was spawned for a message ends some  *)
(* time.                                                                   *)
(***************************************************************************)
EXTENDS Link

CONSTANTS Calls,     \* the calls
          Op,        \* what each is: send, request, flush, sync or close
          From,      \* the side it is made on
          After,     \* the calls its client awaits before making it
          Scripts,   \* for each transport, the sets of calls that are made
          Answer     \* the message every request is answered with

Messages == {c \in Calls : Op[c] \in {"send", "request"}}

ASSUME RemoteBusAssumption ==
  /\ Op \in [Calls -> {"send", "request", "flush", "sync", "close"}]
  /\ From \in [Calls -> Sides]
  /\ After \in [Calls -> SUBSET Calls]
  /\ Scripts \in [{"tcp", "quic"} -> SUBSET SUBSET Calls]
  /\ Bodies = Messages \cup {Answer}
  /\ \A c, d \in Calls : Op[c] = "flush" /\ Op[d] = "flush" /\ From[c] = From[d] => c = d

VARIABLES pc,        \* where a call is
          closed,    \* inner.closed of the bus of a side
          need,      \* need_flush of its relay
          slots,     \* processing of the type of the plain sends at its relay
          ready,     \* ready_flag of its relay
          reading,   \* what the event stream of the side does
          arrived,   \* history: the messages it has read, in that order
          working,   \* the tasks spawned for them that have not ended, each with
                     \* the index of its message and whether it came as a request
          submitted  \* history: the messages its relay took, in that order

busVars == <<pc, closed, need, slots, ready, reading, arrived, working, submitted>>
vars == <<linkVars, busVars>>

Init ==
  /\ LinkInit
  /\ \E made \in Scripts[transport] :
       pc = [c \in Calls |-> IF c \in made THEN "start" ELSE "unmade"]
  /\ closed = [s \in Sides |-> FALSE]
  /\ need = [s \in Sides |-> FALSE]
  /\ slots = [s \in Sides |-> 0]
  /\ ready = [s \in Sides |-> FALSE]
  /\ reading = [s \in Sides |-> "recv"]
  /\ arrived = [s \in Sides |-> <<>>]
  /\ working = [s \in Sides |-> {}]
  /\ submitted = [s \in Sides |-> <<>>]

Goes(c, to) == pc' = [pc EXCEPT ![c] = to]
Returned(c) == pc[c] \in {"unmade", "done", "failed"}
MayStart(c) == pc[c] = "start" /\ \A d \in After[c] : Returned(d)

linkRest == <<transport, item, task, link, intake, notices, stream, backlog, opened,
              broken, shut, wire>>

---------------------------------------------------------------------------
(* The calls. *)

\* TcpRelay::send_msg with a slot of its type: the item is queued, or handed back
\* as TryAgain once the task is gone.  Receiver::send sets need_flush either way
\* and keeps the slot.  A plain send does not wait for anything else.
Submit(c) ==
  LET s == From[c] IN
  /\ MayStart(c)
  /\ c \in Messages
  /\ IF closed[s] /\ Op[c] = "send"
     THEN Goes(c, "failed") /\ UNCHANGED <<items, lost, need, slots, submitted>>
     ELSE /\ Queued(s, Item("Send", c, Op[c] = "request", Message(c)))
          /\ need' = [need EXCEPT ![s] = TRUE]
          /\ slots' = IF Op[c] = "send" THEN [slots EXCEPT ![s] = @ + 1] ELSE slots
          /\ submitted' = IF TaskGone(s) THEN submitted
                          ELSE [submitted EXCEPT ![s] = Append(@, c)]
          /\ Goes(c, IF TaskGone(s) THEN "failed"
                     ELSE IF Op[c] = "send" THEN "done" ELSE "wait")
  /\ UNCHANGED <<linkRest, closed, ready, reading, arrived, working>>

\* flush_all, as far as the relay is concerned: rounds until need_flush is clear.
Flush(c) ==
  LET s == From[c] IN
  /\ Op[c] = "flush"
  /\ MayStart(c) \/ pc[c] = "again"
  /\ IF need[s]
     THEN Queued(s, Plain("Flush")) /\ Goes(c, IF TaskGone(s) THEN "failed" ELSE "wait")
     ELSE Goes(c, "done") /\ UNCHANGED <<items, lost>>
  /\ UNCHANGED <<linkRest, closed, need, slots, ready, reading, arrived, working,
                 submitted>>

Sync(c) ==
  /\ MayStart(c)
  /\ Op[c] = "sync"
  /\ Queued(From[c], Plain("Synchronize"))
  /\ Goes(c, IF TaskGone(From[c]) THEN "failed" ELSE "wait")
  /\ UNCHANGED <<linkRest, closed, need, slots, ready, reading, arrived, working,
                 submitted>>

\* Action::Close: the end of the items is queued behind them, unless the task has
\* dropped the queue, and Exited in the event stream, where it passes them all.  The
\* unwrap of either panics in the caller when nobody is left to receive.
CloseBus(c) ==
  LET s == From[c] IN
  /\ MayStart(c)
  /\ Op[c] = "close"
  /\ closed' = [closed EXCEPT ![s] = TRUE]
  /\ items' = IF TaskGone(s) THEN items ELSE [items EXCEPT ![s] = Append(@, Closing)]
  /\ IF TaskGone(s) \/ ~stream[s]
     THEN Goes(c, "failed") /\ UNCHANGED notices
     ELSE Goes(c, "wait") /\ notices' = [notices EXCEPT ![s] = Append(@, "Exited")]
  /\ UNCHANGED <<transport, item, task, link, intake, stream, backlog, opened,
                 broken, shut, wire, lost, need, slots, ready, reading, arrived,
                 working, submitted>>

---------------------------------------------------------------------------
(* The event stream of a side, and the wrapper behind it.                  *)

\* The event stream is dropped, with what it was doing and its read halves.
StreamEnds(s) ==
  /\ stream' = [stream EXCEPT ![s] = FALSE]
  /\ intake' = [intake EXCEPT ![s] = <<>>]
  /\ notices' = [notices EXCEPT ![s] = <<>>]
  /\ reading' = [reading EXCEPT ![s] = "recv"]

\* Ready and Pause of the own task set the flag of the wrapper; Exited ends the
\* stream, and the wrapper notifies closed.
Notice(s) ==
  /\ stream[s]
  /\ notices[s] # <<>>
  /\ IF Head(notices[s]) = "Exited"
     THEN /\ StreamEnds(s)
          /\ pc' = [c \in Calls |-> IF pc[c] = "wait" /\ Op[c] = "close" /\ From[c] = s
                                    THEN "done" ELSE pc[c]]
          /\ UNCHANGED ready
     ELSE /\ notices' = [notices EXCEPT ![s] = Tail(@)]
          /\ ready' = [ready EXCEPT ![s] = Head(notices[s]) = "Ready"]
          /\ UNCHANGED <<stream, intake, reading, pc>>
  /\ UNCHANGED <<transport, items, item, task, link, backlog, opened, broken, shut,
                 wire, lost, closed, need, slots, arrived, working, submitted>>

Readable(s) ==
  /\ stream[s]
  /\ reading[s] = "recv"
  /\ intake[s] # <<>>
Packets(s) == wire[Other(s)][Head(intake[s])]

\* Whom an event of the other side wakes: the request with that id, one flush,
\* every sync.  A flush whose round is over looks at need_flush again.
Woken(s, x) ==
  {c \in Calls : /\ pc[c] = "wait"
                 /\ From[c] = s
                 /\ \/ x.what = "Response" /\ Op[c] = "request" /\ x.num = c
                    \/ x.what = "Flushed" /\ Op[c] = "flush"
                    \/ x.what = "Synchronized" /\ Op[c] = "sync"}

\* An event goes to the wrapper.
OnEvent(s, x) ==
  /\ pc' = [c \in Calls |-> IF c \notin Woken(s, x) THEN pc[c]
                            ELSE IF Op[c] = "flush" THEN "again" ELSE "done"]
  /\ need' = IF x.what = "Flushed" THEN [need EXCEPT ![s] = FALSE] ELSE need
  /\ slots' = IF x.what = "BatchComplete" THEN [slots EXCEPT ![s] = @ - x.num] ELSE slots
  /\ UNCHANGED <<reading, arrived, working>>

\* MUTANT: the task is spawned for the message that comes next.
OnSendAhead(s, x) ==
  /\ arrived' = [arrived EXCEPT ![s] = Append(@, x.load.body)]
  /\ working' = [working EXCEPT ![s] = @ \cup {<<Len(arrived[s]) + 2, x.req>>}]
  /\ UNCHANGED <<pc, need, slots, reading>>

\* A message gets a task of its own.
OnSend(s, x) ==
  /\ arrived' = [arrived EXCEPT ![s] = Append(@, x.load.body)]
  /\ working' = [working EXCEPT ![s] = @ \cup {<<Len(arrived[s]) + 1, x.req>>}]
  /\ UNCHANGED <<pc, need, slots, reading>>

\* Flush and Sync are answered in place: the stream reads nothing meanwhile.
OnAction(s, to) ==
  /\ reading' = [reading EXCEPT ![s] = to]
  /\ UNCHANGED <<pc, need, slots, arrived, working>>

\* The stream reads a packet; one it cannot make sense of is skipped.
Read(s) ==
  /\ Readable(s)
  /\ Packets(s) # <<>>
  /\ wire' = [wire EXCEPT ![Other(s)][Head(intake[s])] = Tail(@)]
  /\ LET x == Deserialize(Head(Packets(s)), s)
     IN  CASE x.what = "Send"        -> OnSend(s, x)
           [] x.what = "Flush"       -> OnAction(s, "flush")
           [] x.what = "Synchronize" -> OnAction(s, "sync")
           [] x.what = "rejected"    -> UNCHANGED <<pc, need, slots, reading, arrived, working>>
           [] OTHER                  -> OnEvent(s, x)
  /\ UNCHANGED <<transport, items, item, task, link, intake, notices, stream,
                 backlog, opened, broken, shut, lost, closed, ready, submitted>>

\* A connection is read to its end: the next one in line is read.
ReadEnds(s) ==
  /\ Readable(s)
  /\ Packets(s) = <<>>
  /\ LET n == Head(intake[s])
     IN  \/ n \in broken
         \/ <<Other(s), n>> \in shut
         \/ transport = "quic" /\ <<s, n>> \in shut
  /\ intake' = [intake EXCEPT ![s] = Tail(@)]
  /\ UNCHANGED <<transport, items, item, task, link, notices, stream, backlog, opened,
                 broken, shut, wire, lost, busVars>>

\* The reply is queued with an unwrap, in the stream itself: it panics when the
\* task is gone, and takes the polling of the relay with it.
ReplyInStream(s, x) ==
  /\ Queued(s, x)
  /\ IF TaskGone(s) THEN StreamEnds(s)
     ELSE /\ reading' = [reading EXCEPT ![s] = "recv"]
          /\ UNCHANGED <<stream, intake, notices>>
  /\ UNCHANGED <<transport, item, task, link, backlog, opened, broken, shut, wire,
                 pc, closed, need, slots, ready, arrived, working, submitted>>

\* bus.flush_all() of this side comes to its end: its own relay needs no flush.
FlushReplies(s) ==
  /\ reading[s] = "flush"
  /\ ~need[s]
  /\ ReplyInStream(s, Plain("Flushed"))

\* bus.flush_all() flushes the own relay too, and awaits an event that only this
\* stream could read; so does bus.sync_all(), in every case.
AwaitsItself(s) ==
  /\ \/ reading[s] = "flush" /\ need[s] /\ Queued(s, Plain("Flush"))
     \/ reading[s] = "sync" /\ Queued(s, Plain("Synchronize"))
  /\ IF TaskGone(s) THEN StreamEnds(s)
     ELSE /\ reading' = [reading EXCEPT ![s] = "blocked"]
          /\ UNCHANGED <<stream, intake, notices>>
  /\ UNCHANGED <<transport, item, task, link, backlog, opened, broken, shut, wire,
                 pc, closed, need, slots, ready, arrived, working, submitted>>

\* A task spawned for a message ends and queues Response or BatchComplete, the
\* result of bus.send_boxed() not looked at.
Respond(s, i, req) ==
  /\ working' = [working EXCEPT ![s] = @ \ {<<i, req>>}]
  /\ Queued(s, IF req THEN Item("Response", arrived[s][i], FALSE, Message(Answer))
                      ELSE Item("BatchComplete", 1, FALSE, Tag("type")))
  /\ UNCHANGED <<linkRest, pc, closed, need, slots, ready, reading, arrived, submitted>>

---------------------------------------------------------------------------
(* The specification. *)

Make(c) == Submit(c) \/ (pc[c] = "start" /\ Flush(c)) \/ Sync(c) \/ CloseBus(c)
Again(c) == pc[c] = "again" /\ Flush(c)

EventStream(s) ==
  Notice(s) \/ Read(s) \/ ReadEnds(s) \/ FlushReplies(s) \/ AwaitsItself(s)

\* What goes wrong outside the two programs.
Trouble ==
  /\ \/ \E s \in Sides : EndOfConnections(s)
     \/ \E n \in Connections : Break(n)
  /\ UNCHANGED busVars

\* What the two runtimes do by themselves.
Runtime ==
  \/ \E s \in Sides : \/ TaskStep(s) /\ UNCHANGED busVars
                      \/ EventStream(s)
                      \/ \E t \in working[s] : Respond(s, t[1], t[2])
  \/ \E c \in Calls : Again(c)

Next ==
  \/ \E c \in Calls : Make(c)
  \/ Runtime
  \/ Trouble

\* The runtimes go on while they can; connections need not break or end, and a
\* client need not make its calls.
Spec == Init /\ [][Next]_vars /\ WF_vars(Runtime)

---------------------------------------------------------------------------
(* Properties. *)

\* Every variable holds a value of its type.
TypeOK ==
  /\ task \in [Sides -> {"next", "serve", "finish", "ended", "panicked"}]
  /\ reading \in [Sides -> {"recv", "flush", "sync", "blocked"}]
  /\ pc \in [Calls -> {"unmade", "start", "wait", "again", "done", "failed"}]
  /\ link \in [Sides -> 0..MaxConnections]
  /\ slots \in [Sides -> Int]
  /\ arrived \in [Sides -> Seq(Messages)]
  /\ submitted \in [Sides -> Seq(Messages)]
  /\ \A s \in Sides : working[s] \subseteq (DOMAIN arrived[s]) \X BOOLEAN
  /\ \A s \in Sides : Len(item[s]) <= 1

\* What serialize and deserialize make of an item at a side that knows the type
\* it carries, or does not.
Survives(x, side) ==
  CASE x.what = "InitFailed" -> Plain("Ready")
    [] x.what = "Init"       -> Item("Init", 0, FALSE, Nothing)
    [] x.what # "InitFailed" /\ x.load.is = "err" -> [x EXCEPT !.load = Failure(GenericError)]
    [] x.load.is = "msg" /\ side \notin KnownTo[x.load.body] ->
         IF x.what = "Send" THEN Rejected ELSE [x EXCEPT !.load = Failure(GenericError)]
    [] OTHER -> x

Reply(n, load) == Item("Response", n, FALSE, load)
Completes(n, tag) == Item("BatchComplete", n, FALSE, Tag(tag))
Starts(id) == Item("Init", id, FALSE, Nothing)
Fails(w) == Item(w, 0, FALSE, Failure("e"))
Loads == {Message(m) : m \in Bodies}
AllItems ==
  {Plain(w) : w \in PlainActions \cup PlainEvents}
  \cup {Item("Send", n, req, x) : n \in {0, 7}, req \in BOOLEAN, x \in Loads}
  \cup {Reply(n, x) : n \in {0, 7}, x \in Loads \cup {Failure("e")}}
  \cup {Fails(w) : w \in {"Error", "Synchronized", "InitFailed"}}
  \cup {Completes(n, "t") : n \in {1, 7}}
  \cup {Starts(7)}

\* Encoding and decoding lose nothing the other side acts on, except that a
\* failed Init arrives as Ready, its id as 0, and an error without its type.
AllSurvive ==
  \A x \in AllItems, s \in Sides : Deserialize(Serialize(x), s) = Survives(x, s)

\* So it is for an item of every kind, and for what a task holds.
RoundTrip ==
  /\ AllSurvive
  /\ \A s \in Sides : item[s] # <<>> =>
       LET x == Head(item[s])
       IN  Deserialize(Serialize(x), Other(s)) = Survives(x, Other(s))

Position(s, c) == CHOOSE i \in DOMAIN submitted[s] : submitted[s][i] = c

\* Messages are read in the order the relay took them, over a reconnection too,
\* and once, so that no slot is freed twice; only QUIC may write one to two
\* connections, and then the counter of slots in the code wraps.
InOrder ==
  /\ \A s \in Sides : \A i, j \in DOMAIN arrived[s] : i < j =>
       LET first == Position(Other(s), arrived[s][i])
           second == Position(Other(s), arrived[s][j])
       IN  first < second \/ (first = second /\ transport = "quic" /\ opened > 1)
  /\ \A s \in Sides : slots[s] < 0 => transport = "quic" /\ opened > 1

InTransit(s, c) ==
  \/ \E i \in DOMAIN items[s] : Label(items[s][i]) = <<"Send", c>>
  \/ \E i \in DOMAIN item[s] : Label(item[s][i]) = <<"Send", c>>
  \/ \E n \in Connections : \E i \in DOMAIN wire[s][n] :
       wire[s][n][i].kind = "Send" /\ wire[s][n][i].argument = c

Known(c) == Other(From[c]) \in KnownTo[c]

\* A message the relay took is on its way, was read, was of a type the other side
\* does not know, or was lost: with a connection that broke or was closed, or
\* with the task.  A retry loses none.
Conserved ==
  /\ \A s \in Sides : \A i \in DOMAIN submitted[s] :
       LET c == submitted[s][i]
       IN  \/ InTransit(s, c)
           \/ \E j \in DOMAIN arrived[Other(s)] : arrived[Other(s)][j] = c
           \/ <<"Send", c>> \in lost
           \/ ~Known(c)
  /\ lost # {} => \/ broken # {} \/ shut # {}
                  \/ \E s \in Sides : TaskGone(s)

\* When a flush returns, what its client sent through the relay before has been
\* read by the other side, or never will be; its task need not have begun.
FlushArrives ==
  \A f \in Calls : Op[f] = "flush" /\ pc[f] = "done" =>
    \A c \in After[f] \cap Messages : From[c] = From[f] /\ pc[c] = "done" =>
      \/ \E j \in DOMAIN arrived[Other(From[c])] : arrived[Other(From[c])][j] = c
      \/ <<"Send", c>> \in lost
      \/ ~Known(c)

\* Once the wrapper has seen all notices, ready says whether there is a connection.
ReadyIsConnected ==
  \A s \in Sides : stream[s] /\ notices[s] = <<>> =>
    (ready[s] <=> task[s] \in {"serve", "finish"})

\* The task waits for something to write to a connection that is gone: it notices
\* only when it writes, and until then it takes no other connection.
WaitsAtDeadLink(s) ==
  task[s] = "serve" /\ Failing(s) /\ item[s] = <<>> /\ items[s] = <<>>

\* What may leave a call waiting.
Excused(c) ==
  \/ \E what \in {"Send", "Response"} : <<what, c>> \in lost
  \/ Op[c] \in {"flush", "sync"} /\ lost # {}
  \/ c \in Messages /\ ~Known(c)
  \/ \E s \in Sides : \/ reading[s] = "blocked"
                      \/ TaskGone(s) \/ ~stream[s]
                      \/ WaitsAtDeadLink(s)
                      \/ task[s] = "next"

\* Every call returns, unless an event stream waits for itself, the other side or
\* the connection is gone, or its item or the answer was lost.
CallsSettle == <>[](\A c \in Calls : pc[c] \in {"wait", "again"} => Excused(c))
=============================================================================
