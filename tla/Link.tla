--------------------------------- MODULE Link ---------------------------------
(***************************************************************************)
(* The two ends of a remote relay, TcpRelay or QuicRelay: the task that    *)
(* Action::Init spawns takes connections one after the other and writes    *)
(* the queued items to the current one.  The client connects, the server   *)
(* takes what waits in its backlog.  A connection may break; what is on it *)
(* and was not read may be lost.                                           *)
(***************************************************************************)
EXTENDS Wire, Integers, Sequences, FiniteSets

CONSTANTS Client, Server,    \* the two Sides, by their server_mode
          MaxConnections,    \* bound: connections the client opens
          MaxBreaks          \* bound: connections that break

ASSUME LinkAssumption ==
  /\ Sides = {Client, Server} /\ Client # Server
  /\ MaxConnections \in Nat \ {0} /\ MaxBreaks \in Nat

VARIABLES transport,  \* "tcp" or "quic"
          items,      \* item_sender/item_receiver: what the task has not taken
          item,       \* the item it holds: to be retried, or being written
          task,       \* where the task is
          link,       \* the connection it writes to
          intake,     \* the connections whose read half the event stream was
                      \* given and has not read to the end; it reads the first
          notices,    \* event_sender/event_receiver
          stream,     \* whether the event stream of the side is still polled
          backlog,    \* connections the server has not accepted
          opened,     \* connections opened so far
          broken,     \* connections that broke
          shut,       \* <<side, connection>>: that write half was dropped
          wire,       \* packets written by a side to a connection, not yet read
          lost        \* history: labels of the items that went down with a task,
                      \* with a connection or by a failed open_bi

linkVars == <<transport, items, item, task, link, intake, notices, stream,
              backlog, opened, broken, shut, wire, lost>>

Connections == 1..MaxConnections
Other(s) == IF s = Client THEN Server ELSE Client
Closing == [what |-> "closing"]      \* the None in the channel of items

LinkInit ==
  /\ transport \in {"tcp", "quic"}
  /\ items = [s \in Sides |-> <<>>]
  /\ item = [s \in Sides |-> <<>>]
  /\ task = [s \in Sides |-> "next"]
  /\ link = [s \in Sides |-> 0]
  /\ intake = [s \in Sides |-> <<>>]
  /\ notices = [s \in Sides |-> <<>>]
  /\ stream = [s \in Sides |-> TRUE]
  /\ backlog = <<>>
  /\ opened = 0
  /\ broken = {}
  /\ shut = {}
  /\ wire = [s \in Sides |-> [n \in Connections |-> <<>>]]
  /\ lost = {}

\* What tells items apart: their kind and number.
Label(x) == IF x = Closing THEN <<>> ELSE <<x.what, x.num>>

TaskGone(s) == task[s] \in {"ended", "panicked"}

\* MUTANT: an action overtakes the messages queued before it.
QueuedFirst(s, x) ==
  IF TaskGone(s)
  THEN lost' = lost \cup {Label(x)} /\ UNCHANGED items
  ELSE /\ items' = [items EXCEPT ![s] = IF x.what = "Flush" THEN <<x>> \o @ ELSE Append(@, x)]
       /\ UNCHANGED lost

\* item_receiver is dropped with the task; an item queued then is lost, and the
\* unwrap of the send panics in whoever queues it.
Queued(s, x) ==
  IF TaskGone(s)
  THEN lost' = lost \cup {Label(x)} /\ UNCHANGED items
  ELSE items' = [items EXCEPT ![s] = Append(@, x)] /\ UNCHANGED lost

Labels(queue) == {Label(queue[i]) : i \in DOMAIN queue}

\* The task ends, or panics, with everything it has not written.
Dies(s, how) ==
  /\ task' = [task EXCEPT ![s] = how]
  /\ lost' = lost \cup Labels(items[s]) \cup Labels(item[s])
  /\ items' = [items EXCEPT ![s] = <<>>]
  /\ item' = [item EXCEPT ![s] = <<>>]

\* incoming.next() has a connection: its read half goes to the event stream, and
\* Ready after it.  Both sends are unwrapped: without an event stream they panic.
Established(s, n) ==
  /\ IF stream[s]
     THEN /\ task' = [task EXCEPT ![s] = "serve"]
          /\ link' = [link EXCEPT ![s] = n]
          /\ intake' = [intake EXCEPT ![s] = Append(@, n)]
          /\ notices' = [notices EXCEPT ![s] = Append(@, "Ready")]
          /\ UNCHANGED <<items, item, lost, shut>>
     ELSE /\ Dies(s, "panicked")
          /\ shut' = shut \cup {<<s, n>>}
          /\ UNCHANGED <<link, intake, notices>>
  /\ UNCHANGED <<transport, stream, broken, wire>>

Connect ==
  /\ task[Client] = "next"
  /\ opened < MaxConnections
  /\ opened' = opened + 1
  /\ backlog' = Append(backlog, opened + 1)
  /\ Established(Client, opened + 1)

Accept ==
  /\ task[Server] = "next"
  /\ backlog # <<>>
  /\ backlog' = Tail(backlog)
  /\ Established(Server, Head(backlog))
  /\ UNCHANGED opened

\* incoming ends: bind fails on a TCP server, or the QUIC endpoint is gone.  "No
\* more connections", and the item to be retried is lost with the queue.
EndOfConnections(s) ==
  /\ task[s] = "next"
  /\ s = Server \/ transport = "quic"
  /\ Dies(s, "ended")
  /\ UNCHANGED <<transport, link, intake, notices, stream, backlog, opened, broken,
                 shut, wire>>

\* MUTANT: the event stream is not told.
LeavesSilent(s, kept, rest) ==
  /\ shut' = shut \cup {<<s, link[s]>>}
  /\ task' = [task EXCEPT ![s] = "next"]
  /\ item' = [item EXCEPT ![s] = kept]
  /\ items' = [items EXCEPT ![s] = rest]
  /\ UNCHANGED <<transport, link, intake, notices, stream, backlog, opened, broken,
                 wire, lost>>

\* The write half goes out of scope, Pause is sent (unwrapped), and the task goes
\* for the next connection with "kept", also when it was told to close.
Leaves(s, kept, rest) ==
  /\ shut' = shut \cup {<<s, link[s]>>}
  /\ IF stream[s]
     THEN /\ task' = [task EXCEPT ![s] = "next"]
          /\ notices' = [notices EXCEPT ![s] = Append(@, "Pause")]
          /\ item' = [item EXCEPT ![s] = kept]
          /\ items' = [items EXCEPT ![s] = rest]
          /\ UNCHANGED lost
     ELSE /\ Dies(s, "panicked")
          /\ UNCHANGED notices
  /\ UNCHANGED <<transport, link, intake, stream, backlog, opened, broken, wire>>

\* What the task writes next: the item to be retried, or what rx.recv() yields.
HasItem(s) == task[s] = "serve" /\ (item[s] # <<>> \/ items[s] # <<>>)
Upcoming(s) == IF item[s] # <<>> THEN Head(item[s]) ELSE Head(items[s])
Rest(s) == IF item[s] # <<>> THEN items[s] ELSE Tail(items[s])

Close(s) ==
  /\ HasItem(s)
  /\ Upcoming(s) = Closing
  /\ Leaves(s, <<>>, Rest(s))

\* Writes may fail: the connection broke, the other end closed it (QUIC) or has
\* dropped both its halves (TCP).
Failing(s) ==
  LET n == link[s]
  IN  \/ n \in broken
      \/ /\ <<Other(s), n>> \in shut
         /\ transport = "tcp" =>
              \A i \in DOMAIN intake[Other(s)] : intake[Other(s)][i] # n

\* MUTANT: the item is put back in front of the channel, and written all the same.
WriteTwice(s, kept) ==
  /\ wire' = [wire EXCEPT ![s][link[s]] = Append(@, Serialize(Upcoming(s)))]
  /\ item' = [item EXCEPT ![s] = IF Upcoming(s).what = "Send" /\ item[s] = <<>>
                                 THEN <<Upcoming(s)>> ELSE kept]
  /\ items' = [items EXCEPT ![s] = Rest(s)]
  /\ UNCHANGED lost

\* write_all succeeds: the packet is on its way.
Written(s, kept) ==
  /\ wire' = [wire EXCEPT ![s][link[s]] = Append(@, Serialize(Upcoming(s)))]
  /\ item' = [item EXCEPT ![s] = kept]
  /\ items' = [items EXCEPT ![s] = Rest(s)]
  /\ UNCHANGED lost

\* write_all succeeds into the buffers of a connection that is already broken.
Vanishes(s, kept) ==
  /\ Failing(s)
  /\ lost' = IF kept = <<>> THEN lost \cup {Label(Upcoming(s))} ELSE lost
  /\ item' = [item EXCEPT ![s] = kept]
  /\ items' = [items EXCEPT ![s] = Rest(s)]
  /\ UNCHANGED wire

\* The write loop of TcpRelay: an item is done once it is written.
WriteTcp(s) ==
  /\ transport = "tcp"
  /\ HasItem(s)
  /\ Upcoming(s) # Closing
  /\ Vanishes(s, <<>>) \/ (~Failing(s) /\ Written(s, <<>>))
  /\ UNCHANGED <<transport, task, link, intake, notices, stream, backlog, opened,
                 broken, shut>>

\* That of QuicRelay: a stream per item, which is kept until finish() returns.
WriteQuic(s) ==
  /\ transport = "quic"
  /\ HasItem(s)
  /\ Upcoming(s) # Closing
  /\ Vanishes(s, <<Upcoming(s)>>) \/ (~Failing(s) /\ Written(s, <<Upcoming(s)>>))
  /\ task' = [task EXCEPT ![s] = "finish"]
  /\ UNCHANGED <<transport, link, intake, notices, stream, backlog, opened, broken,
                 shut>>

\* MUTANT: a failed write drops the item.
WriteFailsDropped(s) ==
  /\ HasItem(s)
  /\ Upcoming(s) # Closing
  /\ Failing(s)
  /\ Leaves(s, <<>>, Rest(s))

\* write_all fails: the item is kept for the next connection.
WriteFails(s) ==
  /\ HasItem(s)
  /\ Upcoming(s) # Closing
  /\ Failing(s)
  /\ Leaves(s, <<Upcoming(s)>>, Rest(s))

\* open_bi fails: QuicRelay breaks off with the item already taken, and drops it.
OpenFails(s) ==
  /\ transport = "quic"
  /\ HasItem(s)
  /\ Upcoming(s) # Closing
  /\ Failing(s)
  /\ shut' = shut \cup {<<s, link[s]>>}
  /\ IF stream[s]
     THEN /\ task' = [task EXCEPT ![s] = "next"]
          /\ notices' = [notices EXCEPT ![s] = Append(@, "Pause")]
          /\ item' = [item EXCEPT ![s] = <<>>]
          /\ items' = [items EXCEPT ![s] = Rest(s)]
          /\ lost' = lost \cup {Label(Upcoming(s))}
     ELSE Dies(s, "panicked") /\ UNCHANGED notices
  /\ UNCHANGED <<transport, link, intake, stream, backlog, opened, broken, wire>>

Finish(s) ==
  /\ task[s] = "finish"
  /\ ~Failing(s)
  /\ task' = [task EXCEPT ![s] = "serve"]
  /\ item' = [item EXCEPT ![s] = <<>>]
  /\ UNCHANGED <<transport, items, link, intake, notices, stream, backlog, opened,
                 broken, shut, wire, lost>>

\* finish() fails: the item is written again, though the peer may have read it.
FinishFails(s) ==
  /\ task[s] = "finish"
  /\ Failing(s)
  /\ Leaves(s, item[s], items[s])

\* A connection breaks: of the packets on it, each side can still read some.
Break(n) ==
  /\ n <= opened
  /\ n \notin broken
  /\ Cardinality(broken) < MaxBreaks
  /\ broken' = broken \cup {n}
  /\ \E left \in [Sides -> 0..Len(wire[Client][n]) + Len(wire[Server][n])] :
       /\ \A s \in Sides : left[s] <= Len(wire[s][n])
       /\ wire' = [s \in Sides |-> [wire[s] EXCEPT ![n] = SubSeq(@, 1, left[s])]]
       /\ lost' = lost \cup UNION
            {{<<wire[s][n][i].kind, wire[s][n][i].argument>> :
                i \in left[s] + 1 .. Len(wire[s][n])} : s \in Sides}
  /\ UNCHANGED <<transport, items, item, task, link, intake, notices, stream,
                 backlog, opened, shut>>

TaskStep(s) ==
  \/ s = Client /\ Connect
  \/ s = Server /\ Accept
  \/ Close(s) \/ WriteTcp(s) \/ WriteQuic(s) \/ WriteFails(s) \/ OpenFails(s)
  \/ Finish(s) \/ FinishFails(s)
=============================================================================
