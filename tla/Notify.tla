------------------------------- MODULE Notify -------------------------------
(***************************************************************************)
(* tokio::sync::Notify as the bus uses it through notify_one: a single     *)
(* stored permit and a queue of parked Notified futures.  A Notify that is *)
(* only ever used through notify_waiters needs no permit: it is the plain  *)
(* set of calls whose future exists, see "listening" in Receiver.          *)
(***************************************************************************)
EXTENDS Sequences

\* A Notify nobody has notified and nobody waits on.
Quiet == [permit |-> FALSE, waiting |-> <<>>]

\* Wake the call that has waited longest or, if none waits, store one permit.
\* Permits do not add up: two notifications in a row leave one permit.
NotifyOne(n) ==
  IF n.waiting = <<>> THEN [permit |-> TRUE, waiting |-> <<>>]
                      ELSE [permit |-> n.permit, waiting |-> Tail(n.waiting)]

\* First poll of the Notified future of call c.
PollNotified(n, c) ==
  IF n.permit THEN [permit |-> FALSE, waiting |-> n.waiting]
              ELSE [permit |-> FALSE, waiting |-> Append(n.waiting, c)]

IsParked(n, c) == \E i \in DOMAIN n.waiting : n.waiting[i] = c
=============================================================================
