------------------------- MODULE MixedBusRefinement -------------------------
(***************************************************************************)
(* Every behaviour of MixedBus is one of ReceiverContract, in which its    *)
(* Synchronized receivers are seen through stage, inbox and the like, and  *)
(* the others do nothing.  A message is begun by its task, not by the      *)
(* poller, and a handler that fails takes its receiver with it.            *)
(***************************************************************************)
EXTENDS MixedBusProofs

RInv == Core /\ DrainInv /\ LoopInv

---------------------------------------------------------------------------
(* What the contract sees of one receiver. *)

\* Nothing that the contract looks at changes at r.
Still(r) ==
  /\ kind'[r] = kind[r]
  /\ Serial(r) =>
       /\ at'[r] = at[r] /\ queue'[r] = queue[r] /\ rx'[r] = rx[r]
       /\ events'[r] = events[r] /\ srx'[r] = srx[r]
       /\ poller'[r] = poller[r] /\ batches'[r] = batches[r]

\* A step of one receiver; all others stay as they are.
Alone(r) == kind'[r] = kind[r] /\ \A s \in Receivers \ {r} : Still(s)

\* The contract sees no change at r.
Same(r) ==
  /\ stage'[r] = stage[r] /\ inbox'[r] = inbox[r] /\ inboxEnd'[r] = inboxEnd[r]
  /\ outbox'[r] = outbox[r] /\ outboxEnd'[r] = outboxEnd[r]
  /\ r \in inSync' <=> r \in inSync

\* Of the poller only its place, what it awaits and whether that is held matter.
LEMMA PendingFrame ==
  ASSUME NEW r \in Receivers, poller'[r] = poller[r], batches'[r] = batches[r],
         \A c \in Messages : at'[r][c] = "held" <=> at[r][c] = "held"
  PROVE  Pending(r)' = Pending(r)
<1>1. Copies(r, {"held"})' = Copies(r, {"held"}) /\ Current(r)' = Current(r)
  BY DEF Copies, Current
<1>2. QED
  BY <1>1 DEF Pending

LEMMA StillSame ==
  ASSUME NEW r \in Receivers, Still(r)
  PROVE  Same(r)
<1>1. Serial(r)' = Serial(r)
  BY DEF Still, Serial
<1>2. CASE Serial(r)
  <2>1. Pending(r)' = Pending(r)
    BY <1>2, PendingFrame DEF Still
  <2>2. QED
    BY <1>1, <1>2, <2>1 DEF Still, Same, stage, inbox, inboxEnd, outbox, outboxEnd, inSync
<1>3. CASE ~Serial(r)
  BY <1>1, <1>3 DEF Same, stage, inbox, inboxEnd, outbox, outboxEnd, inSync
<1>4. QED
  BY <1>2, <1>3

\* What the contract sees changes at r only, so what it sees of r says it all.
LEMMA Locally ==
  ASSUME NEW r \in Receivers, \A s \in Receivers \ {r} : Same(s)
  PROVE  /\ stage' = [stage EXCEPT ![r] = stage'[r]]
         /\ inbox' = [inbox EXCEPT ![r] = inbox'[r]]
         /\ inboxEnd' = [inboxEnd EXCEPT ![r] = inboxEnd'[r]]
         /\ outbox' = [outbox EXCEPT ![r] = outbox'[r]]
         /\ outboxEnd' = [outboxEnd EXCEPT ![r] = outboxEnd'[r]]
         /\ stage'[r] = stage[r] => UNCHANGED stage
         /\ inbox'[r] = inbox[r] => UNCHANGED inbox
         /\ inboxEnd'[r] = inboxEnd[r] => UNCHANGED inboxEnd
         /\ outbox'[r] = outbox[r] => UNCHANGED outbox
         /\ outboxEnd'[r] = outboxEnd[r] => UNCHANGED outboxEnd
         /\ r \in inSync' => inSync' = inSync \cup {r}
         /\ r \notin inSync' => inSync' = inSync \ {r}
         /\ (r \in inSync' <=> r \in inSync) => UNCHANGED inSync
<1>1. /\ stage' = [stage EXCEPT ![r] = stage'[r]]
      /\ stage'[r] = stage[r] => UNCHANGED stage
  <2>1. stage = [s \in Receivers |-> stage[s]] /\ stage' = [s \in Receivers |-> stage'[s]]
    BY DEF stage
  <2>2. \A s \in Receivers \ {r} : stage'[s] = stage[s]
    BY DEF Same
  <2>3. QED
    BY <2>1, <2>2
<1>2. /\ inbox' = [inbox EXCEPT ![r] = inbox'[r]]
      /\ inbox'[r] = inbox[r] => UNCHANGED inbox
  BY DEF Same, inbox
<1>3. /\ inboxEnd' = [inboxEnd EXCEPT ![r] = inboxEnd'[r]]
      /\ inboxEnd'[r] = inboxEnd[r] => UNCHANGED inboxEnd
  BY DEF Same, inboxEnd
<1>4. /\ outbox' = [outbox EXCEPT ![r] = outbox'[r]]
      /\ outbox'[r] = outbox[r] => UNCHANGED outbox
  BY DEF Same, outbox
<1>5. /\ outboxEnd' = [outboxEnd EXCEPT ![r] = outboxEnd'[r]]
      /\ outboxEnd'[r] = outboxEnd[r] => UNCHANGED outboxEnd
  BY DEF Same, outboxEnd
<1>6. /\ \A s \in inSync : s \in Receivers
      /\ \A s \in inSync' : s \in Receivers
  BY DEF inSync
<1>7. /\ r \in inSync' => inSync' = inSync \cup {r}
      /\ r \notin inSync' => inSync' = inSync \ {r}
      /\ (r \in inSync' <=> r \in inSync) => UNCHANGED inSync
  BY <1>6 DEF Same
<1>8. QED
  BY <1>1, <1>2, <1>3, <1>4, <1>5, <1>7

\* A step that the contract does not see.
LEMMA Unseen ==
  ASSUME \A r \in Receivers : Same(r)
  PROVE  UNCHANGED Contract!vars
<1>1. UNCHANGED <<stage, inbox, inboxEnd, outbox, outboxEnd>>
  BY DEF Same, stage, inbox, inboxEnd, outbox, outboxEnd
<1>2. UNCHANGED inSync
  BY DEF Same, inSync
<1>3. QED
  BY <1>1, <1>2 DEF Contract!vars, Contract!mailVars

LEMMA UnseenAt ==
  ASSUME NEW r \in Receivers, Alone(r), Serial(r) => Same(r)
  PROVE  UNCHANGED Contract!vars
<1>1. ~Serial(r) => Still(r)
  BY DEF Alone, Still
<1>2. Same(r) /\ \A s \in Receivers \ {r} : Same(s)
  BY <1>1, StillSame DEF Alone
<1>3. QED
  BY <1>2, Unseen

---------------------------------------------------------------------------
(* What the contract sees of a Synchronized receiver. *)

\* The contract's variables, one receiver at a time.
LEMMA Seen ==
  ASSUME NEW r \in Receivers, Serial(r)
  PROVE  /\ \A c \in Messages : stage[r][c] = IF at[r][c] = "held" THEN "queued" ELSE at[r][c]
         /\ inbox[r] = Pending(r) \o queue[r] /\ inboxEnd[r] = rx[r]
         /\ outbox[r] = events[r] /\ outboxEnd[r] \in BOOLEAN /\ (outboxEnd[r] <=> srx[r])
         /\ r \in inSync <=> poller[r] = "syncing"
<1>1. \A c \in Messages : stage[r][c] = IF at[r][c] = "held" THEN "queued" ELSE at[r][c]
  BY DEF stage
<1>2. inbox[r] = Pending(r) \o queue[r] /\ inboxEnd[r] = rx[r]
  BY DEF inbox, inboxEnd
<1>3. outbox[r] = events[r] /\ outboxEnd[r] \in BOOLEAN /\ (outboxEnd[r] <=> srx[r])
  BY DEF outbox, outboxEnd
<1>4. r \in inSync <=> poller[r] = "syncing"
  BY DEF inSync
<1>5. QED
  BY <1>1, <1>2, <1>3, <1>4

LEMMA SeenNext ==
  ASSUME NEW r \in Receivers, Serial(r), Alone(r)
  PROVE  /\ \A c \in Messages :
              stage'[r][c] = IF at'[r][c] = "held" THEN "queued" ELSE at'[r][c]
         /\ inbox'[r] = Pending(r)' \o queue'[r] /\ inboxEnd'[r] = rx'[r]
         /\ outbox'[r] = events'[r] /\ outboxEnd'[r] \in BOOLEAN /\ (outboxEnd'[r] <=> srx'[r])
         /\ r \in inSync' <=> poller'[r] = "syncing"
<1>1. Serial(r)'
  BY DEF Alone, Serial
<1>2. \A c \in Messages :
        stage'[r][c] = IF at'[r][c] = "held" THEN "queued" ELSE at'[r][c]
  BY <1>1 DEF stage
<1>3. inbox'[r] = Pending(r)' \o queue'[r] /\ inboxEnd'[r] = rx'[r]
  BY <1>1 DEF inbox, inboxEnd
<1>4. outbox'[r] = events'[r] /\ outboxEnd'[r] \in BOOLEAN /\ (outboxEnd'[r] <=> srx'[r])
  BY <1>1 DEF outbox, outboxEnd
<1>5. r \in inSync' <=> poller'[r] = "syncing"
  BY <1>1 DEF inSync
<1>6. QED
  BY <1>2, <1>3, <1>4, <1>5

\* What the poller has taken from the queue is a Sync, or the message it awaits.
LEMMA PendingIs ==
  ASSUME NEW r \in Receivers
  PROVE  /\ poller[r] = "sync" => Pending(r) = <<"Sync">>
         /\ poller[r] \notin {"sync", "await"} => Pending(r) = <<>>
         /\ poller[r] # "sync" /\ (\A c \in Messages : at[r][c] # "held") => Pending(r) = <<>>
         /\ \A c \in Messages : at[r][c] = "held" /\ poller[r] = "await" => Pending(r) = Current(r)
BY DEF Pending, Copies

\* The message a Synchronized receiver is at is the only one.
LEMMA TheOne ==
  ASSUME RInv, NEW r \in Receivers, Serial(r), NEW c \in Messages,
         at[r][c] \in {"held", "running", "handled"}
  PROVE  /\ poller[r] = "await" /\ Current(r) = <<c>> /\ Members(Current(r)) = {c}
         /\ \A d \in Messages : at[r][d] \in {"held", "running", "handled"} => d = c
<1>1. PollerInv(r)
  BY DEF RInv, Core, Rest, Parts
<1>2. \A d \in Messages : at[r][d] \in {"held", "running", "handled"} =>
        poller[r] = "await" /\ Current(r) = <<d>>
  BY <1>1 DEF PollerInv, Serial
<1>3. \A d \in Messages : <<d>> = <<c>> => d = c
  OBVIOUS
<1>4. QED
  BY <1>2, <1>3, MembersOne

LEMMA StageSame ==
  ASSUME NEW r \in Receivers, Serial(r), Alone(r),
         \A c \in Messages : stage'[r][c] = stage[r][c]
  PROVE  UNCHANGED stage
<1>1. /\ stage[r] = [c \in Messages |-> stage[r][c]]
      /\ stage'[r] = [c \in Messages |-> stage'[r][c]]
  BY DEF stage
<1>2. stage'[r] = stage[r] /\ \A s \in Receivers \ {r} : Same(s)
  BY <1>1, StillSame DEF Alone
<1>3. QED
  BY <1>2, Locally

\* A step of r alone: each variable of the contract changes as the one behind it.
LEMMA Frames ==
  ASSUME NEW r \in Receivers, Serial(r), Alone(r)
  PROVE  /\ at'[r] = at[r] => UNCHANGED stage
         /\ stage' = [stage EXCEPT ![r] = stage'[r]]
         /\ inbox'[r] = inbox[r] => UNCHANGED inbox
         /\ inbox' = [inbox EXCEPT ![r] = inbox'[r]]
         /\ rx'[r] = rx[r] => UNCHANGED inboxEnd
         /\ inboxEnd' = [inboxEnd EXCEPT ![r] = rx'[r]]
         /\ events'[r] = events[r] => UNCHANGED outbox
         /\ outbox' = [outbox EXCEPT ![r] = events'[r]]
         /\ srx'[r] = srx[r] => UNCHANGED outboxEnd
         /\ ~srx'[r] => outboxEnd' = [outboxEnd EXCEPT ![r] = FALSE]
         /\ (poller'[r] = "syncing" <=> poller[r] = "syncing") => UNCHANGED inSync
         /\ poller'[r] = "syncing" => inSync' = inSync \cup {r}
         /\ poller'[r] # "syncing" => inSync' = inSync \ {r}
<1>1. \A s \in Receivers \ {r} : Same(s)
  BY StillSame DEF Alone
<1>2. at'[r] = at[r] => UNCHANGED stage
  BY Seen, SeenNext, StageSame
<1>3. /\ stage' = [stage EXCEPT ![r] = stage'[r]] /\ (at'[r] = at[r] => UNCHANGED stage)
      /\ inbox' = [inbox EXCEPT ![r] = inbox'[r]] /\ (inbox'[r] = inbox[r] => UNCHANGED inbox)
  BY <1>1, <1>2, Locally
<1>4. /\ inboxEnd' = [inboxEnd EXCEPT ![r] = rx'[r]] /\ (rx'[r] = rx[r] => UNCHANGED inboxEnd)
      /\ outbox' = [outbox EXCEPT ![r] = events'[r]]
      /\ events'[r] = events[r] => UNCHANGED outbox
  BY <1>1, Locally, Seen, SeenNext
<1>5. /\ srx'[r] = srx[r] => UNCHANGED outboxEnd
      /\ ~srx'[r] => outboxEnd' = [outboxEnd EXCEPT ![r] = FALSE]
  <2>1. srx'[r] = srx[r] => outboxEnd'[r] = outboxEnd[r]
    BY Seen, SeenNext
  <2>2. ~srx'[r] => outboxEnd'[r] = FALSE
    BY SeenNext
  <2>3. QED
    BY <1>1, <2>1, <2>2, Locally
<1>6. /\ (poller'[r] = "syncing" <=> poller[r] = "syncing") => UNCHANGED inSync
      /\ poller'[r] = "syncing" => inSync' = inSync \cup {r}
      /\ poller'[r] # "syncing" => inSync' = inSync \ {r}
  BY <1>1, Locally, Seen, SeenNext
<1>7. QED
  BY <1>3, <1>4, <1>5, <1>6

\* When nothing is held, and no Sync is pending, the inbox is the queue.
LEMMA InboxIs ==
  ASSUME RInv, NEW r \in Receivers, Serial(r)
  PROVE  /\ Pending(r) \in Seq(Messages \cup Actions)
         /\ poller[r] # "sync" /\ (\A c \in Messages : at[r][c] # "held") => inbox[r] = queue[r]
         /\ poller[r] \notin {"sync", "await"} =>
              /\ inbox[r] = queue[r]
              /\ \A c \in Messages : at[r][c] \notin {"held", "running", "handled"}
<1>1. queue[r] \in Seq(Messages \cup Actions) /\ inbox[r] = Pending(r) \o queue[r]
  BY ShapeParts, Seen DEF RInv, Core, MailTypeOK
<1>2. <<>> \o queue[r] = queue[r]
  BY <1>1, ConcatEmptySeq
<1>3. poller[r] # "await" => \A c \in Messages : at[r][c] \notin {"held", "running", "handled"}
  BY TheOne
<1>4. Pending(r) \in Seq(Messages \cup Actions)
  <2>1. <<>> \in Seq(Messages \cup Actions) /\ <<"Sync">> \in Seq(Messages \cup Actions)
    BY DEF Actions
  <2>2. ASSUME NEW c \in Messages, at[r][c] = "held"
        PROVE  Pending(r) \in Seq(Messages \cup Actions)
    <3>1. Pending(r) = <<c>>
      BY <2>2, TheOne, PendingIs
    <3>2. QED
      BY <3>1
  <2>3. QED
    BY <2>1, <2>2, PendingIs
<1>5. QED
  BY <1>1, <1>2, <1>3, <1>4, PendingIs

\* After the step, when the poller has gone on with no message held.
LEMMA InboxNext ==
  ASSUME RInv', NEW r \in Receivers, Serial(r), Alone(r),
         poller'[r] # "sync", \A c \in Messages : at'[r][c] # "held"
  PROVE  inbox'[r] = queue'[r]
<1>1. Serial(r)'
  BY DEF Alone, Serial
<1>2. (poller[r] # "sync" /\ (\A c \in Messages : at[r][c] # "held") => inbox[r] = queue[r])'
  BY <1>1, InboxIs, PTL
<1>3. QED
  BY <1>2

LEMMA MoveSim ==
  ASSUME RInv, NEW r \in Receivers, Serial(r), Alone(r), NEW c \in Messages, NEW p,
         Move(r, c, p), p # "held"
  PROVE  Contract!Move(r, c, p)
<1>1. \A d \in Messages : at'[r][d] = IF d = c THEN p ELSE at[r][d]
  BY DEF RInv, Core, ShapeOK, CommonTypeOK, MailTypeOK, Move
<1>2. \A d \in Messages : stage'[r][d] = IF d = c THEN p ELSE stage[r][d]
  BY <1>1, Seen, SeenNext
<1>3. /\ stage[r] = [d \in Messages |-> stage[r][d]]
      /\ stage'[r] = [d \in Messages |-> stage'[r][d]]
  BY DEF stage
<1>4. stage'[r] = [stage[r] EXCEPT ![c] = p]
  BY <1>2, <1>3
<1>5. stage' = [stage EXCEPT ![r] = stage'[r]]
  BY Frames
<1>6. QED
  BY <1>4, <1>5 DEF Contract!Move

\* Without the poller and what it holds, the inbox changes as the queue does.
LEMMA InboxFrame ==
  ASSUME NEW r \in Receivers, Serial(r), Alone(r), UNCHANGED <<poller, batches>>,
         \A c \in Messages : at'[r][c] = "held" <=> at[r][c] = "held"
  PROVE  Pending(r)' = Pending(r) /\ (queue'[r] = queue[r] => inbox'[r] = inbox[r])
<1>1. Pending(r)' = Pending(r)
  BY PendingFrame
<1>2. inbox[r] = Pending(r) \o queue[r]
  BY Seen
<1>3. inbox'[r] = Pending(r)' \o queue'[r]
  BY SeenNext
<1>4. QED
  BY <1>1, <1>2, <1>3

LEMMA InboxAppend ==
  ASSUME RInv, NEW r \in Receivers, Serial(r), Alone(r), UNCHANGED <<poller, batches>>,
         \A c \in Messages : at'[r][c] = "held" <=> at[r][c] = "held",
         NEW x \in Messages \cup Actions, queue'[r] = Append(queue[r], x)
  PROVE  inbox'[r] = Append(inbox[r], x)
<1>1. /\ Pending(r) \in Seq(Messages \cup Actions) /\ Pending(r)' = Pending(r)
      /\ queue[r] \in Seq(Messages \cup Actions)
  BY InboxIs, InboxFrame, ShapeParts DEF RInv, Core, MailTypeOK
<1>2. Pending(r) \o Append(queue[r], x) = Append(Pending(r) \o queue[r], x)
  BY <1>1
<1>3. QED
  BY <1>1, <1>2, Seen, SeenNext

---------------------------------------------------------------------------
(* Steps of the clients and the event loops. *)

\* What a step of the system has to show.
Simulates == [Contract!Next]_(Contract!vars)

\* The clients and the event loops leave the pollers where they are.
LEMMA MailUnseen ==
  ASSUME UNCHANGED <<mailVars, pollVars>>
  PROVE  Simulates
<1>1. \A r \in Receivers : Still(r)
  BY DEF Still, mailVars, pollVars
<1>2. QED
  BY <1>1, StillSame, Unseen DEF Simulates

\* Only the mailbox of r changes.
LEMMA MailAlone ==
  ASSUME NEW r \in Receivers, UNCHANGED pollVars,
         \A s \in Receivers \ {r} :
           /\ at'[s] = at[s] /\ queue'[s] = queue[s] /\ rx'[s] = rx[s]
           /\ events'[s] = events[s] /\ srx'[s] = srx[s]
  PROVE  Alone(r) /\ (~Serial(r) => Simulates)
<1>1. Alone(r)
  BY DEF Alone, Still, pollVars
<1>2. QED
  BY <1>1, UnseenAt DEF Simulates

\* Taking or giving back a slot, and discarding an answer.
LEMMA SlotSim ==
  ASSUME RInv, NEW r \in Receivers, NEW c \in Messages, NEW p, Move(r, c, p),
         \/ at[r][c] = "none" /\ p = "permit"
         \/ at[r][c] = "permit" /\ p = "none"
         \/ at[r][c] = "answering" /\ p = "done",
         UNCHANGED <<queue, rx, events, srx, pollVars>>
  PROVE  Simulates
<1>0. at \in [Receivers -> [Messages -> Place]]
  BY ShapeParts DEF RInv, Core, MailTypeOK
<1>1. \A s \in Receivers \ {r} : at'[s] = at[s]
  BY <1>0 DEF Move
<1>2. Alone(r) /\ (~Serial(r) => Simulates)
  BY <1>1, MailAlone
<1>3. CASE Serial(r)
  <2>1. Contract!Move(r, c, p) /\ stage[r][c] = at[r][c]
    BY <1>2, <1>3, MoveSim, Seen
  <2>2. \A d \in Messages : at'[r][d] = "held" <=> at[r][d] = "held"
    BY <1>0 DEF Move
  <2>3. UNCHANGED <<inbox, inboxEnd, outbox, outboxEnd, inSync>>
    BY <1>2, <1>3, <2>2, InboxFrame, Frames DEF pollVars
  <2>4. QED
    BY <2>1, <2>3 DEF Contract!Slot, Contract!Next, Simulates
<1>4. QED
  BY <1>2, <1>3

LEMMA SendSim ==
  ASSUME RInv, NEW r \in Receivers, NEW c \in Messages, SendMessage(r, c),
         at[r][c] = "permit", UNCHANGED pollVars
  PROVE  Simulates
<1>0. /\ at \in [Receivers -> [Messages -> Place]]
      /\ queue \in [Receivers -> Seq(Messages \cup Actions)]
  BY ShapeParts DEF RInv, Core, MailTypeOK
<1>1. PICK p \in {"queued", "refused"} :
        /\ Move(r, c, p)
        /\ IF rx[r] = "open"
           THEN p = "queued" /\ queue' = [queue EXCEPT ![r] = Append(@, c)]
           ELSE p = "refused" /\ UNCHANGED queue
  BY DEF SendMessage
<1>2. UNCHANGED <<rx, events, srx>>
  BY DEF SendMessage
<1>3. /\ \A s \in Receivers \ {r} : at'[s] = at[s] /\ queue'[s] = queue[s]
      /\ \A d \in Messages : at'[r][d] = "held" <=> at[r][d] = "held"
  BY <1>0, <1>1 DEF Move
<1>4. Alone(r) /\ (~Serial(r) => Simulates)
  BY <1>2, <1>3, MailAlone
<1>5. CASE Serial(r)
  <2>1. Contract!Move(r, c, p) /\ stage[r][c] = "permit" /\ inboxEnd[r] = rx[r]
    BY <1>1, <1>4, <1>5, MoveSim, Seen
  <2>2. UNCHANGED <<inboxEnd, outbox, outboxEnd, inSync>>
    BY <1>2, <1>4, <1>5, Frames DEF pollVars
  <2>3. CASE rx[r] = "open"
    <3>1. inbox'[r] = Append(inbox[r], c)
      BY <1>0, <1>1, <1>3, <1>4, <1>5, <2>3, InboxAppend DEF pollVars
    <3>2. inbox' = [inbox EXCEPT ![r] = Append(@, c)]
      BY <1>4, <1>5, <3>1, Frames
    <3>3. QED
      BY <1>1, <2>1, <2>2, <2>3, <3>2
         DEF Contract!SendMessage, Contract!Offer, Contract!Next, Simulates
  <2>4. CASE rx[r] # "open"
    <3>1. UNCHANGED inbox
      BY <1>1, <1>3, <1>4, <1>5, <2>4, InboxFrame, Frames DEF pollVars
    <3>2. QED
      BY <1>1, <2>1, <2>2, <2>4, <3>1
         DEF Contract!SendMessage, Contract!Offer, Contract!Next, Simulates
  <2>5. QED
    BY <2>3, <2>4
<1>6. QED
  BY <1>4, <1>5

LEMMA MessageSim ==
  ASSUME RInv, NEW c \in Messages, UNCHANGED pollVars,
         StartSend(c) \/ StartRequest(c) \/ Abandon(c) \/ MessageStep(c)
  PROVE  Simulates
<1>0. Visiting /\ RouteInv
  BY DEF RInv, Core, Rest, BusInv
<1>a. At(c) \in Receivers
  BY <1>0, CopyAt
<1>b. UNCHANGED mailVars => Simulates
  BY MailUnseen
<1>c. ASSUME NEW p, Move(At(c), c, p), UNCHANGED <<queue, rx, events, srx>>,
             \/ at[At(c)][c] = "none" /\ p = "permit"
             \/ at[At(c)][c] = "permit" /\ p = "none"
      PROVE  Simulates
  BY <1>a, <1>c, SlotSim
<1>1. CASE StartSend(c) \/ StartRequest(c) \/ Abandon(c) \/ PollReserve(c) \/ Mark(c)
           \/ Answered(c)
  BY <1>1, <1>b DEF StartSend, StartRequest, Abandon, PollReserve, Mark, Answered
<1>2. CASE Reserve(c) \/ TryReserve(c)
  <2>1. \/ UNCHANGED mailVars
        \/ Move(At(c), c, "permit") /\ UNCHANGED <<queue, rx, events, srx>>
    BY <1>2 DEF Reserve, TryReserve, TakeSlot, mailVars
  <2>2. QED
    BY <1>0, <1>2, <1>b, <1>c, <2>1, CopyAt
<1>3. CASE DropPermit(c)
  <2>1. \/ UNCHANGED mailVars
        \/ /\ at[At(c)][c] = "permit" /\ Move(At(c), c, "none")
           /\ UNCHANGED <<queue, rx, events, srx>>
    BY <1>3 DEF DropPermit, DropSlot, mailVars
  <2>2. QED
    BY <1>b, <1>c, <2>1
<1>4. CASE Bump(c)
  <2>1. Move(At(c), c, "permit") /\ UNCHANGED <<queue, rx, events, srx>>
    BY <1>4 DEF Bump, ForceSlot
  <2>2. QED
    BY <1>0, <1>4, <1>c, <2>1, CopyAt
<1>5. CASE Send(c)
  BY <1>0, <1>a, <1>5, CopyAt, SendSim DEF Send
<1>6. QED
  BY <1>1, <1>2, <1>3, <1>4, <1>5 DEF MessageStep

LEMMA ControlSim ==
  ASSUME RInv, NEW c \in Controls, UNCHANGED pollVars,
         StartControl(c) \/ StartClose(c) \/ TimeOut(c) \/ ControlStep(c)
  PROVE  Simulates
<1>0. /\ At(c) \in Receivers
      /\ queue \in [Receivers -> Seq(Messages \cup Actions)]
  BY AtReceiver, ShapeParts DEF RInv, Core, Calls, MailTypeOK
<1>1. UNCHANGED mailVars \/ SendAction(At(c), ActionOf(c))
  BY DEF StartControl, StartClose, TimeOut, ControlStep, Check, Register, Push,
       PushFails, PollFlushed, UnparkFlushed, CheckIdle, CheckReady, Awake
<1>2. CASE UNCHANGED mailVars
  BY <1>2, MailUnseen
<1>3. ASSUME NEW r \in Receivers, NEW a \in Actions \ {"Init"}, SendAction(r, a)
      PROVE  Simulates
  <2>1. /\ rx[r] = "open" /\ queue' = [queue EXCEPT ![r] = Append(@, a)]
        /\ UNCHANGED <<at, rx, events, srx>>
    BY <1>3 DEF SendAction
  <2>2. /\ queue'[r] = Append(queue[r], a)
        /\ \A s \in Receivers \ {r} : queue'[s] = queue[s]
    BY <1>0, <2>1
  <2>3. Alone(r) /\ (~Serial(r) => Simulates)
    BY <2>1, <2>2, MailAlone
  <2>4. CASE Serial(r)
    <3>1. inbox'[r] = Append(inbox[r], a)
      BY <2>1, <2>2, <2>3, <2>4, InboxAppend DEF pollVars
    <3>2. inbox' = [inbox EXCEPT ![r] = Append(@, a)] /\ inboxEnd[r] = "open"
      BY <2>1, <2>3, <2>4, <3>1, Frames, Seen
    <3>3. UNCHANGED <<stage, inboxEnd, outbox, outboxEnd, inSync>>
      BY <2>1, <2>3, <2>4, Frames DEF pollVars
    <3>4. a \in Contract!Actions \ {"Init"}
      BY DEF Contract!Actions, Actions
    <3>5. QED
      BY <3>2, <3>3, <3>4 DEF Contract!SendAction, Contract!Offer, Contract!Next, Simulates
  <2>5. QED
    BY <2>3, <2>4
<1>4. ActionOf(c) \in Actions \ {"Init"}
  BY DEF ActionOf, Actions
<1>5. QED
  BY <1>0, <1>1, <1>2, <1>3, <1>4

\* The event loop takes an event: an answer, or a signal.
LEMMA TakeSim ==
  ASSUME RInv, NEW r \in Receivers, NEW x, TakeEvent(r, x), UNCHANGED pollVars,
         \/ x \in Messages /\ Move(r, x, "answering")
         \/ x \in Signals /\ UNCHANGED at
  PROVE  Simulates
<1>0. /\ at \in [Receivers -> [Messages -> Place]] /\ Messages \cap Signals = {}
      /\ events \in [Receivers -> Seq(Messages \cup Signals)]
      /\ CommonTypeOK /\ ChannelInv
  BY ShapeParts, MailboxAssumption DEF RInv, Core, ShapeOK, Rest, BusInv, MailTypeOK
<1>1. /\ events[r] # <<>> /\ Head(events[r]) = x
      /\ events' = [events EXCEPT ![r] = Tail(@)] /\ UNCHANGED <<queue, rx, srx>>
  BY DEF TakeEvent
<1>2. /\ \A s \in Receivers \ {r} : at'[s] = at[s] /\ events'[s] = events[s]
      /\ events'[r] = Tail(events[r])
  BY <1>0, <1>1 DEF Move
<1>3. x \in Messages => at[r][x] = "answered"
  BY <1>0, TakeEventHolds
<1>4. \A d \in Messages : at'[r][d] = "held" <=> at[r][d] = "held"
  BY <1>0, <1>3 DEF Move
<1>5. Alone(r) /\ (~Serial(r) => Simulates)
  BY <1>1, <1>2, MailAlone
<1>6. CASE Serial(r)
  <2>1. outbox[r] = events[r] /\ outbox' = [outbox EXCEPT ![r] = Tail(@)]
    BY <1>2, <1>5, <1>6, Seen, Frames
  <2>2. UNCHANGED <<inbox, inboxEnd, outboxEnd, inSync>>
    BY <1>1, <1>4, <1>5, <1>6, InboxFrame, Frames DEF pollVars
  <2>3. CASE x \in Messages
    <3>1. Move(r, x, "answering")
      BY <1>0, <2>3
    <3>2. Contract!Move(r, x, "answering") /\ stage[r][x] = "answered"
      BY <1>3, <1>5, <1>6, <2>3, <3>1, MoveSim, Seen
    <3>3. QED
      BY <1>1, <2>1, <2>2, <2>3, <3>2 DEF Contract!TakeEvent, Contract!Next, Simulates
  <2>4. CASE x \notin Messages
    <3>1. UNCHANGED stage
      BY <1>5, <1>6, <2>4, Frames
    <3>2. QED
      BY <1>1, <2>1, <2>2, <2>4, <3>1 DEF Contract!TakeEvent, Contract!Next, Simulates
  <2>5. QED
    BY <2>3, <2>4
<1>7. QED
  BY <1>5, <1>6

\* The event loop panics with the answer of a request nobody awaits.
LEMMA StopSim ==
  ASSUME RInv, NEW r \in Receivers, NEW c \in Messages, DeliverPanics(r, c), UNCHANGED pollVars
  PROVE  Simulates
<1>0. MailTypeOK
  BY ShapeParts DEF RInv, Core
<1>1. /\ at[r][c] = "answering" /\ srx[r]
      /\ srx' = [srx EXCEPT ![r] = FALSE] /\ events' = [events EXCEPT ![r] = <<>>]
      /\ at' = [at EXCEPT ![r] = [m \in Messages |->
                  IF m = c THEN "done"
                  ELSE IF at[r][m] = "answered" THEN "lost" ELSE at[r][m]]]
      /\ UNCHANGED <<queue, rx>>
  BY DEF DeliverPanics, RInv, LoopInv, LoopGoes
<1>2. /\ \A s \in Receivers \ {r} : at'[s] = at[s] /\ events'[s] = events[s] /\ srx'[s] = srx[s]
      /\ \A m \in Messages : at'[r][m] = IF m = c THEN "done"
                               ELSE IF at[r][m] = "answered" THEN "lost" ELSE at[r][m]
      /\ events'[r] = <<>> /\ ~srx'[r]
  BY <1>0, <1>1 DEF MailTypeOK
<1>3. Alone(r) /\ (~Serial(r) => Simulates)
  BY <1>1, <1>2, MailAlone
<1>4. CASE Serial(r)
  <2>1. stage'[r] = [m \in Messages |-> IF m = c THEN "done"
                       ELSE IF stage[r][m] = "answered" THEN "lost" ELSE stage[r][m]]
    <3>1. \A m \in Messages : stage'[r][m] = IF m = c THEN "done"
                       ELSE IF stage[r][m] = "answered" THEN "lost" ELSE stage[r][m]
      BY <1>2, <1>3, <1>4, Seen, SeenNext
    <3>2. stage'[r] = [m \in Messages |-> stage'[r][m]]
      BY DEF stage
    <3>3. QED
      BY <3>1, <3>2
  <2>2. stage' = [stage EXCEPT ![r] = [m \in Messages |-> IF m = c THEN "done"
                       ELSE IF stage[r][m] = "answered" THEN "lost" ELSE stage[r][m]]]
    BY <1>3, <1>4, <2>1, Frames
  <2>3. stage[r][c] = "answering" /\ outboxEnd[r]
    BY <1>1, <1>4, Seen
  <2>4. outbox' = [outbox EXCEPT ![r] = <<>>] /\ outboxEnd' = [outboxEnd EXCEPT ![r] = FALSE]
    BY <1>2, <1>3, <1>4, Frames
  <2>5. UNCHANGED <<inbox, inboxEnd, inSync>>
    <3>1. \A m \in Messages : at'[r][m] = "held" <=> at[r][m] = "held"
      BY <1>1, <1>2
    <3>2. inbox'[r] = inbox[r]
      BY <1>1, <1>3, <1>4, <3>1, InboxFrame DEF pollVars
    <3>3. QED
      BY <1>1, <1>3, <1>4, <3>2, Frames DEF pollVars
  <2>6. Contract!Stop(r)
    BY <2>2, <2>3, <2>4, <2>5 DEF Contract!Stop
  <2>7. QED
    BY <2>6 DEF Contract!Next, Simulates
<1>5. QED
  BY <1>3, <1>4

LEMMA LoopSim ==
  ASSUME RInv, NEW r \in Receivers, LoopStep(r), UNCHANGED pollVars
  PROVE  Simulates
<1>1. CASE \E c \in Messages : OnResponse(r, c)
  BY <1>1, TakeSim DEF OnResponse
<1>2. CASE OnFlushed(r) \/ OnReady(r) \/ OnSynchronized(r)
  <2>1. \E x \in Signals : TakeEvent(r, x) /\ UNCHANGED at
    BY <1>2 DEF OnFlushed, OnReady, OnSynchronized, Signals
  <2>2. QED
    BY <2>1, TakeSim
<1>3. CASE \E c \in Messages : Deliver(r, c)
  BY <1>3, SlotSim DEF Deliver
<1>4. CASE \E c \in Messages : DeliverPanics(r, c)
  BY <1>4, StopSim
<1>5. CASE NotifyIdle(r) \/ NotifyResponse(r) \/ NotifyFlushed(r) \/ SetReady(r)
  BY <1>5, MailUnseen DEF NotifyIdle, NotifyResponse, NotifyFlushed, SetReady
<1>6. CASE EndLoop(r)
  <2>1. /\ srx[r] /\ StreamEnded(r) /\ srx' = [srx EXCEPT ![r] = FALSE]
        /\ UNCHANGED <<at, queue, rx, events>>
    BY <1>6 DEF EndLoop, RInv, LoopInv, LoopGoes
  <2>2. ~srx'[r] /\ \A s \in Receivers \ {r} : srx'[s] = srx[s]
    BY <2>1, ShapeParts DEF RInv, Core, MailTypeOK
  <2>3. Alone(r) /\ (~Serial(r) => Simulates)
    BY <2>1, <2>2, MailAlone
  <2>4. CASE Serial(r)
    <3>1. outboxEnd[r] /\ outboxEnd' = [outboxEnd EXCEPT ![r] = FALSE]
      BY <2>1, <2>2, <2>3, <2>4, Seen, Frames
    <3>2. UNCHANGED <<stage, inbox, inboxEnd, outbox, inSync>>
      BY <2>1, <2>3, <2>4, InboxFrame, Frames DEF pollVars
    <3>3. Contract!StreamEnded(r)
      <4>1. inboxEnd[r] = "gone" /\ outbox[r] = <<>>
        BY <2>1, <2>4, Seen DEF StreamEnded
      <4>2. \A c \in Messages : stage[r][c] \notin {"held", "running", "handled"}
        BY <2>1, <2>4, Seen DEF StreamEnded
      <4>3. QED
        BY <4>1, <4>2 DEF Contract!StreamEnded
    <3>4. QED
      BY <3>1, <3>2, <3>3 DEF Contract!Stop, Contract!Next, Simulates
  <2>5. QED
    BY <2>3, <2>4
<1>7. QED
  BY <1>1, <1>2, <1>3, <1>4, <1>5, <1>6 DEF LoopStep

---------------------------------------------------------------------------
(* Steps of the poller of a Synchronized receiver and of its task. *)

\* The contract takes the first of the inbox.
LEMMA TakeFirst ==
  ASSUME NEW r \in Receivers, Serial(r), Alone(r), NEW x, poller[r] # "syncing",
         inbox[r] # <<>>, Head(inbox[r]) = x, inbox'[r] = Tail(inbox[r])
  PROVE  Contract!Take(r, x)
<1>1. inbox' = [inbox EXCEPT ![r] = Tail(@)] /\ r \notin inSync
  BY Frames, Seen
<1>2. QED
  BY <1>1 DEF Contract!Take, Contract!Receive, Contract!Incoming

\* What the poller had taken already is the first of the inbox ...
LEMMA TakePending ==
  ASSUME RInv, NEW r \in Receivers, Serial(r), Alone(r), NEW x \in Messages \cup Actions,
         poller[r] # "syncing", Pending(r) = <<x>>, inbox'[r] = queue[r]
  PROVE  Contract!Take(r, x)
<1>1. queue[r] \in Seq(Messages \cup Actions) /\ inbox[r] = <<x>> \o queue[r]
  BY Seen, ShapeParts DEF RInv, Core, MailTypeOK
<1>2. inbox[r] # <<>> /\ Head(inbox[r]) = x /\ Tail(inbox[r]) = queue[r]
  BY <1>1, Prepended
<1>3. QED
  BY <1>2, TakeFirst

\* ... and otherwise it is the first of the queue.
LEMMA TakeQueue ==
  ASSUME RInv, NEW r \in Receivers, Serial(r), Alone(r), NEW x, poller[r] = "recv",
         Upcoming(r, x), inbox'[r] = Tail(queue[r])
  PROVE  Contract!Take(r, x)
<1>1. inbox[r] = queue[r]
  BY InboxIs
<1>2. QED
  BY <1>1, TakeFirst DEF Upcoming, Incoming

\* The poller sends a signal.
LEMMA EmitSim ==
  ASSUME RInv, RInv', NEW r \in Receivers, Serial(r), Alone(r), NEW x, NEW rest,
         PollerEmits(r, x, rest), srx[r], UNCHANGED srx, poller[r] \in {"recv", "syncing"}
  PROVE  /\ inbox'[r] = rest /\ inSync' = inSync \ {r}
         /\ UNCHANGED <<stage, inboxEnd, outboxEnd>> /\ Contract!Emit(r, x)
<1>0. MailTypeOK /\ poller \in [Receivers -> PollerPlace]
  BY ShapeParts DEF RInv, Core, ShapeOK, PollShapeOK
<1>1. /\ poller'[r] = "recv" /\ queue'[r] = rest /\ UNCHANGED <<at, rx>>
      /\ events' = [events EXCEPT ![r] = Append(@, x)]
      /\ events'[r] = Append(events[r], x)
  BY <1>0 DEF PollerEmits, MailTypeOK
<1>2. \A c \in Messages : at'[r][c] # "held"
  BY <1>1, InboxIs
<1>3. inbox'[r] = rest
  BY <1>1, <1>2, InboxNext
<1>4. UNCHANGED <<stage, inboxEnd, outboxEnd>> /\ inSync' = inSync \ {r}
  BY <1>1, Frames
<1>5. outboxEnd[r] /\ outbox' = [outbox EXCEPT ![r] = Append(@, x)]
  BY <1>1, Seen, Frames
<1>6. QED
  BY <1>3, <1>4, <1>5 DEF Contract!Emit

\* The poller panics, with the message of its task or without one.
LEMMA DieSim ==
  ASSUME RInv, RInv', NEW r \in Receivers, Serial(r), Alone(r), NEW some \in SUBSET Messages,
         PollerPanics(r, some), UNCHANGED <<events, srx>>,
         \A c \in Messages : at[r][c] # "held"
  PROVE  Contract!Die(r, some)
<1>0. MailTypeOK /\ poller \in [Receivers -> PollerPlace] /\ "lost" \in Place
  BY ShapeParts DEF RInv, Core, ShapeOK, PollShapeOK, Place
<1>1. Buffered(r) = {}
  BY EmptyFacts DEF RInv, Core, Rest, Parts, PollerInv, Serial, Buffered
<1>2. /\ poller'[r] = "panicked" /\ rx'[r] = "gone" /\ queue'[r] = <<>>
      /\ MoveAll(r, some \cup Waiting(r) \cup Buffered(r), "lost")
  BY <1>0 DEF PollerPanics, MailTypeOK
<1>3. \A c \in Messages :
        at'[r][c] = IF at[r][c] = "queued" \/ c \in some THEN "lost" ELSE at[r][c]
  BY <1>0, <1>1, <1>2, MoveAllAt DEF Waiting
<1>4. inbox' = [inbox EXCEPT ![r] = <<>>] /\ inboxEnd' = [inboxEnd EXCEPT ![r] = "gone"]
  BY <1>2, <1>3, InboxNext, Frames
<1>5. stage' = [stage EXCEPT ![r] = [c \in Messages |->
                  IF stage[r][c] = "queued" \/ c \in some THEN "lost" ELSE stage[r][c]]]
  <2>1. \A c \in Messages : stage'[r][c] =
          IF stage[r][c] = "queued" \/ c \in some THEN "lost" ELSE stage[r][c]
    BY <1>3, Seen, SeenNext
  <2>2. stage'[r] = [c \in Messages |-> stage'[r][c]]
    BY DEF stage
  <2>3. stage'[r] = [c \in Messages |->
          IF stage[r][c] = "queued" \/ c \in some THEN "lost" ELSE stage[r][c]]
    BY <2>1, <2>2
  <2>4. QED
    BY <2>3, Frames
<1>6. inSync' = inSync \ {r} /\ UNCHANGED <<outbox, outboxEnd>>
  BY <1>2, Frames
<1>7. QED
  BY <1>4, <1>5, <1>6 DEF Contract!Die

\* Without an event loop a signal is the end of the poller.
LEMMA CollapseSim ==
  ASSUME RInv, RInv', NEW r \in Receivers, Serial(r), Alone(r), NEW x, NEW rest,
         PollerEmits(r, x, rest), ~srx[r], UNCHANGED srx, poller[r] \in {"recv", "syncing"}
  PROVE  Simulates
<1>1. PollerPanics(r, {}) /\ UNCHANGED events
  BY DEF PollerEmits
<1>2. \A c \in Messages : at[r][c] # "held"
  BY InboxIs
<1>3. Contract!Die(r, {}) /\ ~outboxEnd[r]
  BY <1>1, <1>2, DieSim, Seen
<1>4. QED
  BY <1>3 DEF Contract!Collapse, Contract!Next, Simulates

\* What every receiver's poller does: it answers Init, closes its queue, and ends.
LEMMA CommonPollSim ==
  ASSUME RInv, RInv', NEW r \in Receivers, Serial(r), Alone(r),
         PollInitAction(r) \/ PollClose(r) \/ EndPoller(r)
  PROVE  Simulates
<1>0. /\ MailTypeOK /\ poller \in [Receivers -> PollerPlace] /\ poller[r] = "recv"
      /\ buffer[r] = <<>>
  BY ShapeParts DEF RInv, Core, ShapeOK, PollShapeOK, PollInitAction, PollClose, EndPoller,
     PollerGoes, Rest, Parts, PollerInv, Serial
<1>1. inbox[r] = queue[r] /\ \A c \in Messages : at[r][c] # "held"
  BY <1>0, InboxIs
<1>2. CASE PollInitAction(r)
  <2>1. /\ Upcoming(r, "Init") /\ PollerEmits(r, "Ready", Tail(queue[r])) /\ UNCHANGED srx
    BY <1>2 DEF PollInitAction
  <2>2. CASE srx[r]
    <3>1. /\ inbox'[r] = Tail(queue[r]) /\ inSync' = inSync \ {r}
          /\ UNCHANGED <<stage, inboxEnd, outboxEnd>> /\ Contract!Emit(r, "Ready")
      BY <1>0, <2>1, <2>2, EmitSim
    <3>2. Contract!Take(r, "Init") /\ UNCHANGED inSync
      BY <1>0, <2>1, <3>1, TakeQueue, Seen
    <3>3. QED
      BY <3>1, <3>2 DEF Contract!AnswerInit, Contract!Next, Simulates
  <2>3. QED
    BY <1>0, <2>1, <2>2, CollapseSim
<1>3. CASE PollClose(r)
  <2>1. /\ Upcoming(r, "Close") /\ queue' = [queue EXCEPT ![r] = Tail(@)]
        /\ rx' = [rx EXCEPT ![r] = "closed"] /\ UNCHANGED <<at, events, srx, pollVars>>
    BY <1>3 DEF PollClose, Upcoming, Receive
  <2>2. queue'[r] = Tail(queue[r]) /\ rx'[r] = "closed"
    BY <1>0, <2>1 DEF MailTypeOK
  <2>3. inbox'[r] = Tail(queue[r])
    BY <1>0, <1>1, <2>1, <2>2, InboxNext DEF pollVars
  <2>4. Contract!Take(r, "Close")
    BY <1>0, <2>1, <2>3, TakeQueue
  <2>5. inboxEnd' = [inboxEnd EXCEPT ![r] = "closed"]
    BY <2>2, Frames
  <2>6. UNCHANGED <<stage, outbox, outboxEnd, inSync>>
    BY <2>1, Frames DEF pollVars
  <2>7. QED
    BY <2>4, <2>5, <2>6 DEF Contract!AcceptClose, Contract!Next, Simulates
<1>4. CASE EndPoller(r)
  <2>1. /\ poller' = [poller EXCEPT ![r] = "ended"] /\ rx[r] = "closed" /\ queue[r] = <<>>
        /\ rx' = [rx EXCEPT ![r] = "gone"] /\ MoveAll(r, Buffered(r), "lost")
        /\ UNCHANGED <<queue, events, srx>>
    BY <1>4 DEF EndPoller, PollerGoes
  <2>2. Buffered(r) = {} /\ "lost" \in Place
    BY <1>0, EmptyFacts DEF Buffered, Place
  <2>3. \A c \in Messages : at'[r][c] = at[r][c]
    BY <1>0, <2>1, <2>2, MoveAllAt
  <2>4. poller'[r] = "ended" /\ rx'[r] = "gone"
    BY <1>0, <2>1 DEF MailTypeOK
  <2>5. inbox'[r] = queue[r]
    BY <1>1, <2>1, <2>3, <2>4, InboxNext
  <2>6. UNCHANGED stage
    BY <2>3, Seen, SeenNext, StageSame
  <2>7. UNCHANGED <<inbox, outbox, outboxEnd, inSync>>
    BY <1>0, <1>1, <2>1, <2>4, <2>5, Frames
  <2>8. inboxEnd' = [inboxEnd EXCEPT ![r] = "gone"] /\ inboxEnd[r] = "closed" /\ r \notin inSync
    BY <1>0, <2>1, <2>4, Frames, Seen
  <2>9. Contract!Quit(r)
    BY <1>1, <2>1, <2>6, <2>7, <2>8 DEF Contract!Quit
  <2>10. QED
    BY <2>9 DEF Contract!Next, Simulates
<1>5. QED
  BY <1>2, <1>3, <1>4

\* With nothing running here the contract's receiver is idle.
LEMMA IdleSim ==
  ASSUME NEW r \in Receivers, Serial(r), \A c \in Messages : at[r][c] # "running"
  PROVE  Contract!Idle(r)
<1>1. \A c \in Messages : stage[r][c] # "running"
  BY Seen
<1>2. QED
  BY <1>1 DEF Contract!Idle

\* Flushed is sent when no message is under way.
LEMMA FlushSim ==
  ASSUME RInv, RInv', NEW r \in Receivers, Serial(r), Alone(r), FlushAtOnce(r)
  PROVE  Simulates
<1>1. /\ poller[r] = "recv" /\ Upcoming(r, "Flush") /\ UNCHANGED srx
      /\ PollerEmits(r, "Flushed", Tail(queue[r]))
  BY DEF FlushAtOnce
<1>2. CASE srx[r]
  <2>1. /\ inbox'[r] = Tail(queue[r]) /\ inSync' = inSync \ {r}
        /\ UNCHANGED <<stage, inboxEnd, outboxEnd>> /\ Contract!Emit(r, "Flushed")
    BY <1>1, <1>2, EmitSim
  <2>2. Contract!Take(r, "Flush") /\ UNCHANGED inSync
    BY <1>1, <2>1, TakeQueue, Seen
  <2>3. Contract!Idle(r)
    BY <1>1, InboxIs, IdleSim
  <2>4. QED
    BY <2>1, <2>2, <2>3 DEF Contract!AnswerFlush, Contract!Next, Simulates
<1>3. QED
  BY <1>1, <1>2, CollapseSim

\* The poller takes a message or a Sync and waits: still in the contract's inbox.
LEMMA SetAsideSim ==
  ASSUME RInv, RInv', NEW r \in Receivers, Serial(r), Alone(r), TakeMessage(r) \/ AwaitMutex(r)
  PROVE  Simulates
<1>0. /\ MailTypeOK /\ PollShapeOK /\ queue[r] \in Seq(Messages \cup Actions)
      /\ Messages \cap Actions = {} /\ "Sync" \in Actions
  BY ShapeParts, MailboxAssumption DEF RInv, Core, ShapeOK, MailTypeOK, Actions
<1>1. /\ poller[r] = "recv" /\ queue[r] # <<>> /\ queue'[r] = Tail(queue[r])
      /\ UNCHANGED <<rx, events, srx>>
  BY <1>0 DEF TakeMessage, AwaitMutex, PollerGoes, Receive, MailTypeOK
<1>2. /\ inbox[r] = queue[r] /\ \A c \in Messages : at[r][c] # "held"
      /\ inbox'[r] = Pending(r)' \o queue'[r]
  BY <1>1, InboxIs, SeenNext
<1>3. Head(queue[r]) \in Messages \cup Actions /\ <<Head(queue[r])>> \o Tail(queue[r]) = queue[r]
  <2>1. Head(queue[r]) \in Messages \cup Actions
    BY <1>0, <1>1, TailFacts
  <2>2. QED
    BY <1>0, <1>1, <2>1, Prepended
<1>4. /\ UNCHANGED stage /\ Pending(r)' = <<Head(queue[r])>>
      /\ poller'[r] # "syncing"
  <2>1. CASE AwaitMutex(r)
    <3>1. UNCHANGED at /\ poller'[r] = "sync" /\ Head(queue[r]) = "Sync"
      BY <1>0, <2>1 DEF AwaitMutex, PollerGoes, Incoming, PollShapeOK
    <3>2. Pending(r)' = <<"Sync">>
      BY <3>1 DEF Pending
    <3>3. QED
      BY <3>1, <3>2, Frames
  <2>2. CASE TakeMessage(r)
    <3>1. PICK c \in Messages : c = Head(queue[r])
      BY <2>2 DEF TakeMessage, Incoming
    <3>2. /\ Move(r, c, "held") /\ poller'[r] = "await"
          /\ batches' = [batches EXCEPT ![r] = Append(@, <<c>>)]
      BY <1>0, <2>2, <3>1 DEF TakeMessage, Incoming, PollerGoes, PollShapeOK
    <3>3. at[r][c] = "queued"
      <4>1. HoldsIn(queue[r], at[r], "queued")
        BY ChannelSplit DEF RInv, Core, Rest, BusInv, QueueOf
      <4>2. QED
        BY <1>0, <1>1, <3>1, <4>1, HoldsTail
    <3>4. \A d \in Messages : at'[r][d] = IF d = c THEN "held" ELSE at[r][d]
      BY <1>0, <3>2 DEF Move, MailTypeOK
    <3>5. UNCHANGED stage
      BY <3>3, <3>4, Seen, SeenNext, StageSame
    <3>6. Current(r)' = <<c>>
      <4>1. batches[r] \in Seq(Seq(Messages)) /\ <<c>> \in Seq(Messages)
        BY <1>0, OneFacts DEF PollShapeOK
      <4>2. batches'[r] = Append(batches[r], <<c>>)
        BY <1>0, <3>2 DEF PollShapeOK
      <4>3. QED
        BY <4>1, <4>2, AppendFacts DEF Current
    <3>7. Copies(r, {"held"})' # {}
      BY <3>4 DEF Copies
    <3>8. Pending(r)' = <<c>>
      BY <3>2, <3>6, <3>7 DEF Pending
    <3>9. QED
      BY <3>1, <3>2, <3>5, <3>8
  <2>3. QED
    BY <2>1, <2>2
<1>5. inbox'[r] = inbox[r]
  BY <1>1, <1>2, <1>3, <1>4
<1>6. UNCHANGED <<inbox, inboxEnd, outbox, outboxEnd, inSync>>
  BY <1>1, <1>4, <1>5, Frames
<1>7. QED
  BY <1>4, <1>6 DEF Simulates, Contract!vars, Contract!mailVars

\* The sync handler, called with the mutex and so with no handler at work.
LEMMA SyncSim ==
  ASSUME RInv, RInv', NEW r \in Receivers, Serial(r), Alone(r), SyncLocked(r) \/ SyncReturns(r)
  PROVE  Simulates
<1>0. PollShapeOK /\ "Sync" \in Messages \cup Actions
  BY DEF RInv, Core, ShapeOK, Actions
<1>1. CASE SyncLocked(r)
  <2>1. /\ poller[r] = "sync" /\ poller'[r] = "syncing" /\ MutexFree(r) /\ UNCHANGED mailVars
    BY <1>0, <1>1 DEF SyncLocked, PollerGoes, PollShapeOK
  <2>2. /\ Pending(r) = <<"Sync">>
        /\ \A c \in Messages : at[r][c] \notin {"held", "running", "handled"}
    BY <2>1, PendingIs, TheOne
  <2>3. inbox'[r] = queue[r]
    BY <2>1, <2>2, InboxNext DEF mailVars
  <2>4. Contract!Take(r, "Sync")
    BY <1>0, <2>1, <2>2, <2>3, TakePending
  <2>5. Contract!Idle(r)
    BY <2>2, IdleSim
  <2>6. inSync' = inSync \cup {r} /\ UNCHANGED <<stage, inboxEnd, outbox, outboxEnd>>
    BY <2>1, Frames DEF mailVars
  <2>7. QED
    BY <2>4, <2>5, <2>6 DEF Contract!BeginSync, Contract!Next, Simulates
<1>2. CASE SyncReturns(r)
  <2>1. poller[r] = "syncing" /\ PollerEmits(r, "Synchronized", queue[r]) /\ UNCHANGED srx
    BY <1>2 DEF SyncReturns
  <2>2. CASE srx[r]
    <3>1. /\ inbox'[r] = queue[r] /\ inSync' = inSync \ {r}
          /\ UNCHANGED <<stage, inboxEnd, outboxEnd>> /\ Contract!Emit(r, "Synchronized")
      BY <2>1, <2>2, EmitSim
    <3>2. UNCHANGED inbox /\ r \in inSync
      BY <2>1, <3>1, InboxIs, Frames, Seen
    <3>3. QED
      BY <3>1, <3>2 DEF Contract!EndSync, Contract!Next, Simulates
  <2>3. QED
    BY <2>1, <2>2, CollapseSim
<1>3. QED
  BY <1>1, <1>2

\* A task that fails with its message takes the poller with it.
LEMMA BreakSim ==
  ASSUME RInv, RInv', NEW r \in Receivers, Serial(r), Alone(r), NEW c \in Messages,
         at[r][c] = "running" \/ (at[r][c] = "handled" /\ ~srx[r]),
         PollerPanics(r, Members(Current(r))), UNCHANGED <<events, srx>>
  PROVE  Simulates
<1>1. Members(Current(r)) = {c} /\ \A d \in Messages : at[r][d] # "held"
  BY TheOne
<1>2. Contract!Die(r, {c})
  BY <1>1, DieSim
<1>3. stage[r][c] = "running" \/ (stage[r][c] = "handled" /\ ~outboxEnd[r])
  BY Seen
<1>4. QED
  BY <1>2, <1>3 DEF Contract!Break, Contract!Next, Simulates

\* The task that the poller awaits ends: its answer is sent.
LEMMA TaskEndsSim ==
  ASSUME RInv, RInv', NEW r \in Receivers, Serial(r), Alone(r), TaskEnds(r)
  PROVE  Simulates
<1>0. MailTypeOK /\ PollShapeOK
  BY ShapeParts DEF RInv, Core, ShapeOK
<1>1. PICK c \in Messages : at[r][c] = "handled" /\ Current(r) = <<c>>
  <2>1. PICK i \in DOMAIN Current(r) : at[r][Current(r)[i]] = "handled"
    BY DEF TaskEnds, Unreported
  <2>2. poller[r] = "await" /\ PollerInv(r)
    BY DEF TaskEnds, RInv, Core, Rest, Parts
  <2>3. batches[r] \in Seq(Seq(Messages)) /\ batches[r] # <<>>
    BY <1>0, <2>2 DEF PollerInv, PollShapeOK
  <2>4. Current(r) \in Seq(Messages)
    BY <2>3 DEF Current
  <2>5. Current(r)[i] \in Messages
    BY <2>1, <2>4
  <2>6. QED
    BY <2>1, <2>5, TheOne
<1>2. CASE srx[r]
  <2>1. /\ poller'[r] = "recv" /\ Move(r, c, "answered") /\ UNCHANGED <<queue, rx, srx>>
        /\ events' = [events EXCEPT ![r] = Append(@, c)]
        /\ events'[r] = Append(events[r], c)
    BY <1>0, <1>1, <1>2 DEF TaskEnds, MailTypeOK, PollShapeOK
  <2>2. \A d \in Messages : at[r][d] # "held" /\ at'[r][d] # "held"
    BY <1>0, <1>1, <2>1, TheOne DEF Move, MailTypeOK
  <2>3. UNCHANGED inbox
    <3>1. inbox'[r] = queue[r]
      BY <2>1, <2>2, InboxNext
    <3>2. inbox[r] = queue[r]
      BY <1>1, <2>2, TheOne, InboxIs
    <3>3. QED
      BY <3>1, <3>2, Frames
  <2>4. Contract!Move(r, c, "answered") /\ stage[r][c] = "handled"
    BY <1>1, <2>1, MoveSim, Seen
  <2>5. outboxEnd[r] /\ outbox' = [outbox EXCEPT ![r] = Append(@, c)]
    BY <1>2, <2>1, Frames, Seen
  <2>6. UNCHANGED <<inboxEnd, outboxEnd, inSync>>
    BY <1>1, <2>1, TheOne, Frames
  <2>7. Contract!Answer(r, c)
    BY <2>3, <2>4, <2>5, <2>6 DEF Contract!Answer, Contract!Emit
  <2>8. QED
    BY <2>7 DEF Contract!Next, Simulates
<1>3. CASE ~srx[r]
  BY <1>1, <1>3, BreakSim DEF TaskEnds
<1>4. QED
  BY <1>2, <1>3

\* The batch of a task of a Synchronized receiver is one message.
LEMMA OneMember ==
  ASSUME RInv, NEW r \in Receivers, Serial(r), NEW i \in DOMAIN batches[r]
  PROVE  \E c \in Messages : Members(batches[r][i]) = {c}
<1>1. PollerInv(r) /\ batches[r] \in Seq(Seq(Messages))
  BY DEF RInv, Core, Rest, Parts, ShapeOK, PollShapeOK
<1>2. Len(batches[r][i]) = 1 /\ batches[r][i] \in Seq(Messages)
  BY <1>1 DEF PollerInv, Serial
<1>3. DOMAIN batches[r][i] = {1} /\ batches[r][i][1] \in Messages
  BY <1>2
<1>4. QED
  BY <1>3 DEF Members

\* The task begins its message, or its handler returns.
LEMMA HandlerSim ==
  ASSUME RInv, RInv', NEW r \in Receivers, Serial(r), Alone(r), NEW b, NEW c \in Messages,
         Members(b) = {c}, HandlerStarts(r, b) \/ HandlerReturns(r, b)
  PROVE  Simulates
<1>0. MailTypeOK
  BY ShapeParts DEF RInv, Core
<1>1. UNCHANGED <<queue, rx, events, srx, poller, batches>>
  BY DEF HandlerStarts, HandlerReturns, pollVars
<1>2. UNCHANGED <<inboxEnd, outbox, outboxEnd, inSync>>
  BY <1>1, Frames
<1>3. ASSUME NEW p, MoveAll(r, {c}, p)
      PROVE  Move(r, c, p)
  BY <1>0, <1>3 DEF MoveAll, Move, MailTypeOK
<1>4. CASE HandlerStarts(r, b)
  <2>1. at[r][c] = "held" /\ Move(r, c, "running")
    BY <1>3, <1>4 DEF HandlerStarts
  <2>2. \A d \in Messages : at'[r][d] # "held"
    BY <1>0, <2>1, TheOne DEF Move, MailTypeOK
  <2>3. poller[r] = "await" /\ Pending(r) = <<c>>
    BY <2>1, TheOne, PendingIs
  <2>4. inbox'[r] = queue[r]
    BY <1>1, <2>2, <2>3, InboxNext
  <2>5. Contract!Take(r, c)
    BY <2>3, <2>4, TakePending
  <2>6. Contract!Move(r, c, "running")
    BY <2>1, MoveSim
  <2>7. QED
    BY <1>2, <2>5, <2>6 DEF Contract!Begin, Contract!Next, Simulates
<1>5. CASE HandlerReturns(r, b)
  <2>1. at[r][c] = "running" /\ Move(r, c, "handled")
    BY <1>3, <1>5 DEF HandlerReturns
  <2>2. \A d \in Messages : at'[r][d] = "held" <=> at[r][d] = "held"
    BY <1>0, <2>1 DEF Move, MailTypeOK
  <2>3. UNCHANGED inbox
    BY <1>1, <2>2, InboxFrame, Frames
  <2>4. Contract!Move(r, c, "handled") /\ stage[r][c] = "running"
    BY <2>1, MoveSim, Seen
  <2>5. QED
    BY <1>2, <2>3, <2>4 DEF Contract!End, Contract!Next, Simulates
<1>6. QED
  BY <1>4, <1>5

---------------------------------------------------------------------------
(* The system. *)

\* No poller and no task takes the event loop's end of the channel.
LEMMA InsideEnds ==
  ASSUME NEW r \in Receivers,
         Poller(r) \/ \E i \in DOMAIN batches[r] : Task(r, batches[r][i]) \/ Panic(r, batches[r][i])
  PROVE  UNCHANGED <<kind, srx>>
<1>1. CASE Poller(r)
  BY <1>1
     DEF Poller, PollInitAction, PollClose, EndPoller, pollVars, mailVars,
     SynchronizedStep, TakeMessage, TaskEnds, FlushAtOnce, AwaitMutex, SyncLocked, SyncReturns,
     UnorderedBatchedStep, BufferMessage, SpawnPermitted, Drain, FlushAll, AwaitPermits,
     SyncPermitted, SyncReleases,
     SynchronizedBatchedStep, CollectMessage, HandOver, Compete, SyncWins, SyncUnlocks
<1>2. ASSUME NEW i \in DOMAIN batches[r], Task(r, batches[r][i]) \/ Panic(r, batches[r][i])
      PROVE  UNCHANGED <<kind, srx>>
  BY <1>2 DEF Task, Panic, HandlerStarts, HandlerReturns, Respond, HandlerPanics, TaskPanics,
     pollVars
<1>3. QED
  BY <1>1, <1>2

\* Whatever its kind, a poller or a task changes its own receiver only.
LEMMA InsideAlone ==
  ASSUME NEW r \in Receivers, Elsewhere(r), Here(r), UNCHANGED <<kind, srx>>
  PROVE  Alone(r) /\ (~Serial(r) => Simulates)
<1>1. Alone(r)
  BY DEF Elsewhere, Here, Alone, Still
<1>2. QED
  BY <1>1, UnseenAt DEF Simulates

LEMMA PollerSim ==
  ASSUME RInv, RInv', NEW r \in Receivers, Poller(r)
  PROVE  Simulates
<1>0. ShapeOK /\ EndInv /\ PollerInv(r)
  BY DEF RInv, Core, DrainInv, Rest, Parts
<1>1. UNCHANGED <<kind, srx>>
  BY InsideEnds
<1>2. Elsewhere(r) /\ Keeps(r)
  BY <1>0, CommonPollQuiet, SynchronizedQuiet, UnorderedBatchedQuiet, SynchronizedBatchedQuiet,
     CommonPollKeeps, SynchronizedKeeps, UnorderedBatchedKeeps, SynchronizedBatchedKeeps
     DEF Poller
<1>3. Alone(r) /\ (~Serial(r) => Simulates)
  BY <1>1, <1>2, InsideAlone DEF Keeps
<1>4. CASE Serial(r)
  <2>1. PollInitAction(r) \/ PollClose(r) \/ EndPoller(r) \/ SynchronizedStep(r)
    BY <1>4 DEF Poller, Serial
  <2>2. QED
    BY <1>3, <1>4, <2>1, CommonPollSim, FlushSim, SetAsideSim, SyncSim, TaskEndsSim
       DEF SynchronizedStep
<1>5. QED
  BY <1>3, <1>4

LEMMA TaskSim ==
  ASSUME RInv, RInv', NEW r \in Receivers, NEW i \in DOMAIN batches[r],
         Task(r, batches[r][i]) \/ Panic(r, batches[r][i])
  PROVE  Simulates
<1>0. ShapeOK /\ EndInv /\ PollerInv(r) /\ batches[r][i] \in Seq(Messages)
  BY BatchType DEF RInv, Core, DrainInv, Rest, Parts, ShapeOK
<1>1. UNCHANGED <<kind, srx>>
  BY InsideEnds
<1>2. Keeps(r)
  BY <1>0, MixedTaskKeeps, TaskPanicsKeeps DEF Task, Panic
<1>3. Elsewhere(r)
  <2>1. CASE HandlerStarts(r, batches[r][i])
    <3>1. MoveAll(r, Members(batches[r][i]), "running") /\ UNCHANGED <<queue, pollVars>>
      BY <2>1 DEF HandlerStarts
    <3>2. QED
      BY <3>1, <1>2 DEF Elsewhere, pollVars, Keeps, Here
  <2>2. CASE TaskPanics(r)
    BY <1>0, <2>2, PanicsQuiet DEF TaskPanics
  <2>3. QED
    BY <1>0, <2>1, <2>2, TaskQuiet DEF Task, Panic
<1>4. Alone(r) /\ (~Serial(r) => Simulates)
  BY <1>1, <1>2, <1>3, InsideAlone DEF Keeps
<1>5. CASE Serial(r)
  <2>1. PICK c \in Messages : Members(batches[r][i]) = {c}
    BY <1>5, OneMember
  <2>2. CASE HandlerStarts(r, batches[r][i]) \/ HandlerReturns(r, batches[r][i])
    BY <1>4, <1>5, <2>1, <2>2, HandlerSim
  <2>3. CASE TaskPanics(r)
    <3>1. /\ \A d \in Members(Current(r)) : at[r][d] = "running"
          /\ PollerPanics(r, Members(Current(r))) /\ UNCHANGED <<events, srx>>
          /\ poller[r] = "await"
      BY <2>3 DEF TaskPanics
    <3>2. Len(batches[r]) \in DOMAIN batches[r]
      BY <1>0, <3>1 DEF PollerInv, ShapeOK, PollShapeOK
    <3>3. PICK d \in Messages : Members(Current(r)) = {d}
      BY <1>5, <3>2, OneMember DEF Current
    <3>4. QED
      BY <1>4, <1>5, <3>1, <3>3, BreakSim
  <2>4. QED
    BY <1>5, <2>2, <2>3 DEF Task, Panic, Serial
<1>6. QED
  BY <1>4, <1>5

\* Only the event loop moves itself and drops its end of the channel.
LEMMA FlagStep ==
  ASSUME ShapeOK, LoopInv, [Next]_vars
  PROVE  LoopInv'
<1>1. CommonTypeOK
  BY DEF ShapeOK
<1>2. ASSUME UNCHANGED <<loop, srx>>
      PROVE  LoopInv'
  BY <1>2 DEF LoopInv
<1>3. ASSUME NEW c \in Calls, Make(c) \/ Call(c) \/ Drop(c) \/ Timer(c)
      PROVE  LoopInv'
  BY <1>2, <1>3, CallFlag DEF Make, Call, Drop, Timer
<1>4. ASSUME NEW r \in Receivers, EventLoop(r)
      PROVE  LoopInv'
  BY <1>1, <1>4, LoopFlag DEF EventLoop
<1>5. ASSUME NEW r \in Receivers, Poller(r)
      PROVE  LoopInv'
  BY <1>2, <1>5, InsideEnds DEF Poller, outsidePoller
<1>6. ASSUME NEW r \in Receivers, NEW i \in DOMAIN batches[r],
             Task(r, batches[r][i]) \/ Panic(r, batches[r][i])
      PROVE  LoopInv'
  BY <1>2, <1>6, InsideEnds DEF Task, Panic, outsidePoller
<1>7. CASE UNCHANGED vars
  BY <1>2, <1>7 DEF vars, mailVars
<1>8. QED
  BY <1>3, <1>4, <1>5, <1>6, <1>7 DEF Next, Finished

LEMMA StepSim == RInv /\ [Next]_vars => RInv' /\ [Contract!Next]_(Contract!vars)
<1> SUFFICES ASSUME RInv, [Next]_vars
             PROVE  RInv' /\ [Contract!Next]_(Contract!vars)
  OBVIOUS
<1>1. RInv'
  BY StepCore, StepDrain, FlagStep DEF RInv, Core
<1>2. Simulates
  <2>1. ASSUME NEW c \in Calls, Make(c)
        PROVE  Simulates
    BY <2>1, MessageSim, ControlSim DEF Make
  <2>2. ASSUME NEW c \in Calls, Call(c)
        PROVE  Simulates
    BY <2>2, MessageSim, ControlSim DEF Call
  <2>3. ASSUME NEW c \in Calls, Drop(c)
        PROVE  Simulates
    BY <2>3, MessageSim DEF Drop
  <2>4. ASSUME NEW c \in Calls, Timer(c)
        PROVE  Simulates
    BY <2>4, ControlSim DEF Timer
  <2>5. ASSUME NEW r \in Receivers, EventLoop(r)
        PROVE  Simulates
    BY <2>5, LoopSim DEF EventLoop
  <2>6. ASSUME NEW r \in Receivers, Poller(r)
        PROVE  Simulates
    BY <1>1, <2>6, PollerSim
  <2>7. ASSUME NEW r \in Receivers, NEW i \in DOMAIN batches[r],
               Task(r, batches[r][i]) \/ Panic(r, batches[r][i])
        PROVE  Simulates
    BY <1>1, <2>7, TaskSim
  <2>8. CASE UNCHANGED vars
    BY <2>8, MailUnseen DEF vars
  <2>9. QED
    BY <2>1, <2>2, <2>3, <2>4, <2>5, <2>6, <2>7, <2>8 DEF Next, Finished
<1>3. QED
  BY <1>1, <1>2 DEF Simulates

LEMMA InitSim == Init => RInv /\ Contract!Init
<1> SUFFICES ASSUME Init PROVE RInv /\ Contract!Init
  OBVIOUS
<1>1. /\ at = [r \in Receivers |-> [c \in Messages |-> "none"]]
      /\ queue = [r \in Receivers |-> <<"Init">>]
      /\ rx = [r \in Receivers |-> "open"] /\ events = [r \in Receivers |-> <<>>]
      /\ srx = [r \in Receivers |-> TRUE]
      /\ \A r \in Receivers : poller[r] = "recv" /\ loop[r] = "next"
  BY DEF Init, MailInit, PollInit, WrapperInit
<1>2. RInv
  BY <1>1, InitCore, InitDrain DEF RInv, LoopInv
<1>3. stage = [r \in Receivers |-> [c \in Messages |-> "none"]]
  BY <1>1 DEF stage
<1>4. inbox = [r \in Receivers |-> <<"Init">>]
  <2>1. \A r \in Receivers : inbox[r] = <<"Init">>
    <3>1. \A r \in Receivers : Serial(r) => inbox[r] = <<"Init">>
      BY <1>1, <1>2, InboxIs
    <3>2. QED
      BY <3>1 DEF inbox
  <2>2. QED
    BY <2>1 DEF inbox
<1>5. /\ inboxEnd = [r \in Receivers |-> "open"] /\ outbox = [r \in Receivers |-> <<>>]
      /\ outboxEnd = [r \in Receivers |-> TRUE]
  BY <1>1 DEF inboxEnd, outbox, outboxEnd
<1>6. inSync = {}
  BY <1>1 DEF inSync
<1>7. QED
  BY <1>2, <1>3, <1>4, <1>5, <1>6 DEF Contract!Init, Contract!MailInit

\* Synchronized with its wrapper keeps the contract of a receiver, next to any
\* receivers of the other kinds and whichever share the mutex of its object: what
\* BufferUnordered does with permits it does by awaiting one task at a time, and
\* a handler that panics is the end of its receiver and of what is queued there.
THEOREM SynchronizedKeepsContract == Spec => KeepsContract
<1>1. Init => RInv /\ Contract!Init
  BY InitSim
<1>2. RInv /\ [Next]_vars => RInv' /\ [Contract!Next]_(Contract!vars)
  BY StepSim
<1>3. QED
  BY <1>1, <1>2, PTL DEF Spec, KeepsContract, Contract!Spec
=============================================================================
