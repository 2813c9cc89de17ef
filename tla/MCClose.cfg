CONSTANTS
  r1 = r1
  r2 = r2
  m1 = m1
  m2 = m2
  m3 = m3
  k1 = k1
  k2 = k2
  Receivers = {r1}
  Messages = {m1, m2, m3}
  Controls = {k1}
  Op <- CloseOp
  Route <- ToFirst
  After <- CloseAfter
  Inside <- Anywhere
  Droppable = {m1}
  Panicking = {m2}
  Limit <- OneEach
  MaxParallel <- OneEach
  Fuse = 3
SPECIFICATION Spec
INVARIANTS
  CloseDrains
  IInv
PROPERTIES
  KeepsContract
CHECK_DEADLOCK FALSE
