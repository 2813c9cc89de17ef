CONSTANTS
  r1 = r1
  r2 = r2
  m1 = m1
  m2 = m2
  m3 = m3
  k1 = k1
  k2 = k2
  Receivers = {r1}
  Messages = {m1}
  Controls = {k1}
  Op <- IdleOp
  Route <- ToFirst
  After <- IdleAfter
  Inside <- Anywhere
  Droppable = {}
  Panicking = {}
  Limit <- OneEach
  MaxParallel <- OneEach
  Fuse = 3
SPECIFICATION Spec
PROPERTIES
  CallsReturn
CHECK_DEADLOCK FALSE
