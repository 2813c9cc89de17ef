----------------------------- MODULE MCMixedBus -----------------------------
(***************************************************************************)
(* The instances of MixedBus that TLC checks.  Each is a script of calls,  *)
(* run for every assignment of kinds to the receivers.                     *)
(***************************************************************************)
EXTENDS MixedBus

CONSTANTS r1, r2,           \* receivers
          o1,               \* the object behind them
          m1, m2, m3, m4,   \* calls with a message
          k1, k2, k3          \* controls

OneObject == [r \in Receivers |-> o1]
OneEach == [r \in Receivers |-> 1]
TwoEach == [r \in Receivers |-> 2]
ThreeEach == [r \in Receivers |-> 3]
OneThenTwo == r1 :> 1 @@ r2 :> 2
ToFirst == [c \in Calls |-> <<r1>>]
Anywhere == [c \in Calls |-> {}]

\* Two sends and a request for batches of two; the handler of the request may
\* panic, its client may drop it.  The client that made the sends synchronizes,
\* then flushes, then closes the bus.
BatchOp == m1 :> "send" @@ m2 :> "send" @@ m3 :> "request"
           @@ k1 :> "flush" @@ k2 :> "sync" @@ k3 :> "close"
BatchAfter == m1 :> {} @@ m2 :> {m1} @@ m3 :> {} @@ k1 :> {k2} @@ k2 :> {m2} @@ k3 :> {k1, k2}

\* Two receivers of one object.  The handler of m1 at r1 sends to r1 itself, where
\* m4 may have the other slot.  m4 goes to both, and its handler at r1 requests r2,
\* which waits for the mutex the handler has or, if there is none, fills the batch
\* of two that m4 began.
ObjectOp == m1 :> "send" @@ m2 :> "send" @@ m3 :> "request" @@ m4 :> "send"
ObjectRoute == m1 :> <<r1>> @@ m2 :> <<r1>> @@ m3 :> <<r2>> @@ m4 :> <<r2, r1>>
ObjectInside == m1 :> {} @@ m2 :> {<<r1, m1>>} @@ m3 :> {<<r1, m4>>} @@ m4 :> {}
=============================================================================
