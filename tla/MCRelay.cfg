CONSTANTS
  t1 = t1
  t2 = t2
  s1 = s1
  s2 = s2
  x1 = x1
  g1 = g1
  q1 = q1
  q2 = q2
  f1 = f1
  y1 = y1
  r1 = r1
  k1 = k1
  Types = {t1, t2}
  Calls = {s1, s2, x1, g1, q1, q2, f1, y1, r1, k1}
  Op <- RelayOp
  TypeOf <- RelayType
  ResponseOf <- RelayResponse
  Scripts <- RelayScripts
  RelayLimit = 1
  Wrap = 8
  MaxLosses = 1
SPECIFICATION Spec
INVARIANTS
  TypeOK
  Accounting
  Backpressure
PROPERTIES
  CallsSettle
CHECK_DEADLOCK FALSE
