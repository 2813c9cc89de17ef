-------------------------- MODULE ReceiverContract --------------------------
(***************************************************************************)
(* What a receiver implementation promises the wrapper that owns it,       *)
(* whatever its poller looks like: messages are begun in the order they    *)
(* were accepted, each is answered at most once, Flushed and Synchronized  *)
(* are barriers, and the stream of events ends only after the last answer. *)
(* There is no semaphore here, no task permit and no poller loop.          *)
(***************************************************************************)
EXTENDS Mailbox

CONSTANT Fragile   \* the receivers that do not survive the failure of a handler

VARIABLE busy   \* the receivers whose sync handler runs

vars == <<mailVars, busy>>

Init ==
  /\ MailInit
  /\ busy = {}

Idle(r) == \A c \in Messages : at[r][c] # "running"

\* The head of the inbox of r is x, and this step takes it.
Take(r, x) ==
  /\ r \notin busy
  /\ Receive(r)
  /\ Incoming(r) = x

Emit(r, event) ==
  /\ srx[r]
  /\ events' = [events EXCEPT ![r] = Append(@, event)]

\* The receiver: handlers.
Begin(r, c) ==
  /\ Take(r, c)
  /\ Move(r, c, "running")
  /\ UNCHANGED <<rx, events, srx, busy>>

\* A handler returns, or fails without an answer.
End(r, c) ==
  /\ at[r][c] = "running"
  /\ Move(r, c, "handled") \/ Move(r, c, "lost")
  /\ UNCHANGED <<queue, rx, events, srx, busy>>

Answer(r, c) ==
  /\ at[r][c] = "handled"
  /\ \/ Emit(r, c) /\ Move(r, c, "answered")
     \/ ~srx[r] /\ Move(r, c, "lost") /\ UNCHANGED events
  /\ UNCHANGED <<queue, rx, srx, busy>>

\* The receiver: actions.  Flush waits for the handlers begun before it, Sync
\* runs when no handler does and keeps others from starting.
AnswerInit(r) ==
  /\ Take(r, "Init")
  /\ Emit(r, "Ready")
  /\ UNCHANGED <<at, rx, srx, busy>>

AnswerFlush(r) ==
  /\ Take(r, "Flush")
  /\ Idle(r)
  /\ Emit(r, "Flushed")
  /\ UNCHANGED <<at, rx, srx, busy>>

BeginSync(r) ==
  /\ Take(r, "Sync")
  /\ Idle(r)
  /\ busy' = busy \cup {r}
  /\ UNCHANGED <<at, rx, events, srx>>

EndSync(r) ==
  /\ r \in busy
  /\ Emit(r, "Synchronized")
  /\ busy' = busy \ {r}
  /\ UNCHANGED <<at, queue, rx, srx>>

AcceptClose(r) ==
  /\ Take(r, "Close")
  /\ rx' = [rx EXCEPT ![r] = "closed"]
  /\ UNCHANGED <<at, events, srx, busy>>

Quit(r) ==
  /\ rx[r] = "closed"
  /\ queue[r] = <<>>
  /\ r \notin busy
  /\ rx' = [rx EXCEPT ![r] = "gone"]
  /\ UNCHANGED <<at, queue, events, srx, busy>>

\* The receiver dies with its inbox and "some" of what it had begun.
Die(r, some) ==
  /\ rx' = [rx EXCEPT ![r] = "gone"]
  /\ queue' = [queue EXCEPT ![r] = <<>>]
  /\ at' = [at EXCEPT ![r] = [c \in Messages |->
              IF at[r][c] = "queued" \/ c \in some THEN "lost" ELSE at[r][c]]]
  /\ busy' = busy \ {r}
  /\ UNCHANGED <<events, srx>>

\* Without anyone to take its events the receiver may die.
Collapse(r) == ~srx[r] /\ Die(r, {})

\* A fragile receiver dies with a handler that fails, or cannot answer.
Break(r, c) ==
  /\ r \in Fragile
  /\ at[r][c] = "running" \/ (at[r][c] = "handled" /\ ~srx[r])
  /\ Die(r, {c})

---------------------------------------------------------------------------
\* The wrapper: it reserves and frees slots, sends, and takes events in order.
Slot(r, c) ==
  /\ \/ at[r][c] = "none" /\ Move(r, c, "permit")
     \/ at[r][c] = "permit" /\ Move(r, c, "none")
     \/ at[r][c] = "answering" /\ Move(r, c, "done")
  /\ UNCHANGED <<queue, rx, events, srx, busy>>

Offer(r) ==
  /\ \/ \E c \in Messages : at[r][c] = "permit" /\ SendMessage(r, c)
     \/ \E action \in Actions \ {"Init"} : SendAction(r, action)
  /\ UNCHANGED busy

TakeEvent(r) ==
  /\ events[r] # <<>>
  /\ events' = [events EXCEPT ![r] = Tail(@)]
  /\ IF Head(events[r]) \in Messages
     THEN at[r][Head(events[r])] = "answered" /\ Move(r, Head(events[r]), "answering")
     ELSE UNCHANGED at
  /\ UNCHANGED <<queue, rx, srx, busy>>

\* The wrapper stops: at the end of the stream, or with what is still in it.
Stop(r) ==
  /\ srx[r]
  /\ srx' = [srx EXCEPT ![r] = FALSE]
  /\ \/ StreamEnded(r) /\ UNCHANGED <<at, events>>
     \/ \E c \in Messages :
          /\ at[r][c] = "answering"
          /\ events' = [events EXCEPT ![r] = <<>>]
          /\ at' = [at EXCEPT ![r] = [m \in Messages |->
                      IF m = c THEN "done"
                      ELSE IF at[r][m] = "answered" THEN "lost" ELSE at[r][m]]]
  /\ UNCHANGED <<queue, rx, busy>>

Next ==
  \E r \in Receivers :
    \/ \E c \in Messages : Begin(r, c) \/ End(r, c) \/ Answer(r, c) \/ Break(r, c)
    \/ \E c \in Messages : Slot(r, c)
    \/ AnswerInit(r) \/ AnswerFlush(r) \/ BeginSync(r) \/ EndSync(r)
    \/ AcceptClose(r) \/ Quit(r) \/ Collapse(r)
    \/ Offer(r) \/ TakeEvent(r) \/ Stop(r)

Spec == Init /\ [][Next]_vars
=============================================================================
