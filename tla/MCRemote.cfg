CONSTANTS
  a = a
  b = b
  m1 = m1
  m2 = m2
  q1 = q1
  f1 = f1
  s1 = s1
  k1 = k1
  answer = answer
  Sides = {a, b}
  Client = a
  Server = b
  Bodies = {m1, m2, q1, answer}
  KnownTo <- LinkKnown
  Calls = {m1, m2, q1, f1, s1, k1}
  Op <- LinkOp
  From <- LinkFrom
  After <- LinkAfter
  Scripts <- LinkScripts
  Answer = answer
  MaxConnections = 2
  MaxBreaks = 1
SPECIFICATION Spec
INVARIANTS
  TypeOK
  RoundTrip
  InOrder
  Conserved
  FlushArrives
  ReadyIsConnected
PROPERTIES
  CallsSettle
CHECK_DEADLOCK FALSE
