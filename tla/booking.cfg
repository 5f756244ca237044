CONSTANTS
  l1 = l1
  l2 = l2
  v1 = v1
  v2 = v2
  r1 = r1
  r2 = r2
  m1 = m1
  Loads = {l1, l2}
  Vehicles = {v1}
  WithCarrier = {v1}
  Compatible <- AllPairs
  Requests = {r1, r2}
  Runs = {m1}
  PoolSize = 2
  MaxPromotions = 1
SPECIFICATION Spec
SYMMETRY SlotSymmetry
INVARIANTS
  TypeOK
  BookedLoadHasDeal
  ProposedOncePerPair
  DealHasPastProposedMatch
  MatchedLoadHasMatch
  ReviewedHasFeedback
  NoDanglingVehicle
PROPERTY HistoryMovesForward
