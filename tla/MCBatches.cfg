CONSTANTS
  r1 = r1
  r2 = r2
  o1 = o1
  m1 = m1
  m2 = m2
  m3 = m3
  m4 = m4
  k1 = k1
  k2 = k2
  k3 = k3
  Receivers = {r1}
  Messages = {m1, m2, m3}
  Controls = {k1, k2, k3}
  Owner <- OneObject
  Op <- BatchOp
  Route <- ToFirst
  After <- BatchAfter
  Inside <- Anywhere
  Droppable = {m3}
  Panicking = {m3}
  Limit <- ThreeEach
  MaxParallel <- OneEach
  BatchSize <- TwoEach
  Fuse = 3
SPECIFICATION Spec
INVARIANTS
  TypeOK
  BatchOrder
  FlushCovers
  SyncCovers
  SyncExclusive
  OneByOne
  CloseDrains
PROPERTIES
  KeepsContract
CHECK_DEADLOCK FALSE
