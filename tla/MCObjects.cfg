CONSTANTS
  r1 = r1
  r2 = r2
  o1 = o1
  m1 = m1
  m2 = m2
  m3 = m3
  m4 = m4
  k1 = k1
  k2 = k2
  k3 = k3
  Receivers = {r1, r2}
  Messages = {m1, m2, m3, m4}
  Controls = {}
  Owner <- OneObject
  Op <- ObjectOp
  Route <- ObjectRoute
  After <- Anywhere
  Inside <- ObjectInside
  Droppable = {}
  Panicking = {}
  Limit <- TwoEach
  MaxParallel <- OneEach
  BatchSize <- OneThenTwo
  Fuse = 3
SPECIFICATION Spec
INVARIANTS
  Accounting
  OneHandlerPerObject
PROPERTIES
  CallsSettle
CHECK_DEADLOCK FALSE
