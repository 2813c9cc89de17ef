------------------------------- MODULE Mailbox -------------------------------
(***************************************************************************)
(* The two unbounded channels of every receiver implementation S: requests *)
(* and actions travel from the ReceiverWrapper to the poller ("queue"),    *)
(* events travel back from the poller and its tasks to the event loop      *)
(* ("events").  A message is the call that sent it; one call reaches a     *)
(* receiver at most once, so at[r][c] says where the copy of c is.         *)
(***************************************************************************)
EXTENDS Integers, Sequences, FiniteSets

CONSTANTS Receivers,   \* the receivers of the bus, one per subscription
          Messages     \* the calls that carry a message

\* Requests without a message and events without a response.
Actions == {"Init", "Flush", "Sync", "Close"}
Signals == {"Ready", "Flushed", "Synchronized"}

ASSUME MailboxAssumption ==
  /\ IsFiniteSet(Messages)
  /\ Messages \cap (Actions \cup Signals) = {}

VARIABLES at,      \* at[r][c]: how far the copy of c for r has come
          queue,   \* tx/rx: what the poller of r has not received yet
          rx,      \* the poller's end of that channel
          events,  \* stx/srx: what the event loop of r has not received yet
          srx      \* whether the event loop still holds its end

mailVars == <<at, queue, rx, events, srx>>

\* none      not sent to r                permit    a slot of r is reserved
\* queued    in the queue of r            refused   the queue was closed
\* held      received by the poller, which waits for a task permit or a full
\*           batch, or in a task that waits for the mutex of its object
\* running   its handler runs             handled   returned, not yet reported
\* answered  its Response is in events    answering the event loop has it
\* done      delivered or discarded       lost      died with a panic
Place == {"none", "permit", "queued", "refused", "held", "running", "handled",
          "answered", "answering", "done", "lost"}

\* Where a copy counts in "processing" of its receiver.
Slotted == {"permit", "queued", "refused", "held", "running", "handled",
            "answered", "lost"}

MailInit ==
  /\ at = [r \in Receivers |-> [c \in Messages |-> "none"]]
  /\ queue = [r \in Receivers |-> <<"Init">>]
  /\ rx = [r \in Receivers |-> "open"]
  /\ events = [r \in Receivers |-> <<>>]
  /\ srx = [r \in Receivers |-> TRUE]

Move(r, c, place) == at' = [at EXCEPT ![r][c] = place]

\* SendTypedReceiver::send: the message goes to the poller, or back as an error.
SendMessage(r, c) ==
  /\ IF rx[r] = "open"
     THEN /\ queue' = [queue EXCEPT ![r] = Append(@, c)]
          /\ Move(r, c, "queued")
     ELSE /\ Move(r, c, "refused")
          /\ UNCHANGED queue
  /\ UNCHANGED <<rx, events, srx>>

\* SendUntypedReceiver::send, the case in which the channel takes the action.
SendAction(r, action) ==
  /\ rx[r] = "open"
  /\ queue' = [queue EXCEPT ![r] = Append(@, action)]
  /\ UNCHANGED <<at, rx, events, srx>>

\* rx.recv() of the poller: the next item, received in this step.
Incoming(r) == Head(queue[r])
Receive(r) ==
  /\ queue[r] # <<>>
  /\ queue' = [queue EXCEPT ![r] = Tail(@)]

\* Every stx is dropped: the poller has ended and no task is left, nor one that
\* waits to call its handler.
StreamEnded(r) ==
  /\ rx[r] = "gone"
  /\ events[r] = <<>>
  /\ \A c \in Messages : at[r][c] \notin {"held", "running", "handled"}

MailTypeOK ==
  /\ at \in [Receivers -> [Messages -> Place]]
  /\ queue \in [Receivers -> Seq(Messages \cup Actions)]
  /\ rx \in [Receivers -> {"open", "closed", "gone"}]
  /\ events \in [Receivers -> Seq(Messages \cup Signals)]
  /\ srx \in [Receivers -> BOOLEAN]
=============================================================================
