CONSTANTS
  l1 = l1
  l2 = l2
  v1 = v1
  v2 = v2
  r1 = r1
  r2 = r2
  m1 = m1
  Loads = {l1}
  Vehicles = {v1, v2}
  WithCarrier = {v1}
  Compatible <- AllPairs
  Requests = {r1, r2}
  Runs = {m1}
  PoolSize = 1
  MaxPromotions = 2
SPECIFICATION Spec
INVARIANT SerialInv
PROPERTY ImplementsLedger
