------------------------------- MODULE MCRelay -------------------------------
(***************************************************************************)
(* The instance of Relay that TLC checks: sends of type t1, with a request *)
(* of that type, and a request of type t2 that is answered with t1.        *)
(***************************************************************************)
EXTENDS Relay

CONSTANTS t1, t2,                 \* types
          s1, s2, x1, g1,         \* sends of t1: two send, try_send, force_send
          q1, q2,                 \* requests: of t1, of t2
          f1, y1, r1, k1      \* flush, sync, ready, close

RelayOp == [c \in Calls |-> CASE c \in {s1, s2} -> "send" [] c = x1 -> "try_send"
             [] c = g1 -> "force_send" [] c \in {q1, q2} -> "request"
             [] c = f1 -> "flush" [] c = y1 -> "sync" [] c = r1 -> "ready"
             [] OTHER -> "close"]
RelayType == [c \in Messages |-> IF c = q2 THEN t2 ELSE t1]
RelayResponse == [c \in {q1, q2} |-> IF c = q1 THEN t2 ELSE t1]
RelayScripts == {{s1, s2, x1}, {s1, s2, q1}, {s1, s2, q2}, {g1, s1, f1},
                 {s1, y1, k1}, {r1}, {r1, k1}}
=============================================================================
