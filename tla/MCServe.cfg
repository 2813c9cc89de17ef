CONSTANTS
  r1 = r1
  r2 = r2
  m1 = m1
  m2 = m2
  m3 = m3
  k1 = k1
  k2 = k2
  Receivers = {r1, r2}
  Messages = {m1, m2, m3}
  Controls = {k1, k2}
  Op <- ServeOp
  Route <- ServeRoute
  After <- ServeAfter
  Inside <- ServeInside
  Droppable = {}
  Panicking = {}
  Limit <- OneEach
  MaxParallel <- OneEach
  Fuse = 3
SPECIFICATION Spec
INVARIANTS
  AnswerMatches
PROPERTIES
  CallsSettle
CHECK_DEADLOCK FALSE
