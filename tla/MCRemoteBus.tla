----------------------------- MODULE MCRemoteBus -----------------------------
(***************************************************************************)
(* The instance of RemoteBus that TLC checks.  Clients of side a send m1,  *)
(* flush after m1 and close after the flush, and either request q1 or side *)
(* b sends m2, of a type that side a does not know; or they send, request  *)
(* and synchronize.  With QUIC, m1 and one call more.                      *)
(***************************************************************************)
EXTENDS RemoteBus

CONSTANTS a, b,           \* the client and the server
          m1, m2, q1,     \* messages
          f1, s1, k1,     \* flush, sync, close
          answer

LinkOp == [c \in Calls |-> CASE c \in {m1, m2} -> "send" [] c = q1 -> "request"
            [] c = f1 -> "flush" [] c = s1 -> "sync" [] OTHER -> "close"]
LinkFrom == [c \in Calls |-> IF c = m2 THEN b ELSE a]
LinkAfter == [c \in Calls |-> CASE c \in {q1, f1, s1} -> {m1} [] c = k1 -> {f1} [] OTHER -> {}]
LinkScripts == [t \in {"tcp", "quic"} |->
  IF t = "tcp" THEN {{m1, q1, f1, k1}, {m1, m2, f1, k1}, {m1, q1, s1}}
  ELSE {{m1, q1}, {m1, f1}, {m1, k1}}]
LinkKnown == [m \in Bodies |-> IF m = m2 THEN {b} ELSE {a, b}]
=============================================================================
