CONSTANTS
  r1 = r1
  r2 = r2
  m1 = m1
  m2 = m2
  m3 = m3
  k1 = k1
  k2 = k2
  Receivers = {r1}
  Messages = {m1, m2, m3}
  Controls = {}
  Op <- MixOp
  Route <- ToFirst
  After <- Anywhere
  Inside <- Anywhere
  Droppable = {}
  Panicking = {}
  Limit <- TwoEach
  MaxParallel <- TwoEach
  Fuse = 3
SPECIFICATION Spec
INVARIANTS
  AnswerMatches
