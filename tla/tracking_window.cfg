CONSTANTS
  d1 = d1
  d2 = d2
  r1 = r1
  r2 = r2
  Deals = {d1, d2}
  Priced = {d1}
  Requests = {r1, r2}
  MaxSamples = 2
SPECIFICATION Spec
INVARIANT WindowStaysClosed
CHECK_DEADLOCK FALSE
