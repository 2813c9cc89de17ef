--------------------------- MODULE MCUnorderedBus ---------------------------
(***************************************************************************)
(* The instances of UnorderedBus that TLC checks.  Each is a script: which *)
(* calls there are, what they call and where, and what must come before.   *)
(***************************************************************************)
EXTENDS UnorderedBus, TLC

CONSTANTS r1, r2,           \* receivers
          m1, m2, m3,       \* calls with a message
          k1, k2            \* controls

OneEach == [r \in Receivers |-> 1]
TwoEach == [r \in Receivers |-> 2]
ToFirst == [c \in Calls |-> <<r1>>]
Anywhere == [c \in Calls |-> {}]

\* Two senders compete for the slot of r1, of which one has that of r2, while a
\* try_send takes slots of both and gives the first back if the second is full.
FlowOp == m1 :> "send" @@ m2 :> "send" @@ m3 :> "try_send"
FlowRoute == m1 :> <<r1>> @@ m2 :> <<r2, r1>> @@ m3 :> <<r1, r2>>

\* flush_and_sync(true) of a client that has sent m1, while m2 arrives from
\* elsewhere.
QuiesceOp == m1 :> "send" @@ m2 :> "send" @@ m3 :> "force_send" @@ k1 :> "flush" @@ k2 :> "sync"
QuiesceAfter == m1 :> {} @@ m2 :> {} @@ m3 :> {m2} @@ k1 :> {m1} @@ k2 :> {k1}

\* Requests compete for one slot while the bus closes; one may be dropped, the
\* handler of another may panic.
CloseOp == m1 :> "request" @@ m2 :> "request" @@ m3 :> "send_one" @@ k1 :> "close"
CloseAfter == m1 :> {} @@ m2 :> {} @@ m3 :> {m1} @@ k1 :> {}

\* A client waits until r1 is ready, makes a request whose handler makes one of its
\* own to r2, and waits until r1 is idle.  The request of another client competes
\* for the slot of r1, and may be in flight when the first waits for either.
ServeOp == m1 :> "request" @@ m2 :> "request" @@ m3 :> "request"
           @@ k1 :> "ready" @@ k2 :> "idle"
ServeRoute == m1 :> <<r1>> @@ m2 :> <<r1>> @@ m3 :> <<r2>>
              @@ k1 :> <<r1>> @@ k2 :> <<r1>>
ServeAfter == m1 :> {k1} @@ m2 :> {} @@ m3 :> {} @@ k1 :> {} @@ k2 :> {m1}
ServeInside == m1 :> {} @@ m2 :> {} @@ m3 :> {<<r1, m1>>} @@ k1 :> {} @@ k2 :> {}

\* test_concurrency in small: the client sends m1 to r1 and m3 to r2, the handler
\* of m1 sends m2 to r2, and the client flushes r2 and r1 after its sends.
ChainOp == m1 :> "send" @@ m2 :> "send" @@ m3 :> "send" @@ k1 :> "flush"
ChainRoute == m1 :> <<r1>> @@ m2 :> <<r2>> @@ m3 :> <<r2>> @@ k1 :> <<r2, r1>>
ChainAfter == m1 :> {} @@ m2 :> {} @@ m3 :> {m1} @@ k1 :> {m3}
ChainInside == m1 :> {} @@ m2 :> {<<r1, m1>>} @@ m3 :> {} @@ k1 :> {}

\* A send and two requests at one receiver.
MixOp == m1 :> "send" @@ m2 :> "request" @@ m3 :> "request"

\* A client that sends one message and waits for idleness.
IdleOp == m1 :> "send" @@ k1 :> "idle"
IdleAfter == m1 :> {} @@ k1 :> {m1}
=============================================================================
