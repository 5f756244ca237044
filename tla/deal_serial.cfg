CONSTANTS
  d1 = d1
  d2 = d2
  r1 = r1
  m1 = m1
  m2 = m2
  a1 = a1
  a2 = a2
  Deals = {d1, d2}
  Priced = {d1}
  Requests = {r1}
  MaxSamples = 2
  Matches = {m1, m2}
  Comparable <- Routes
  Runs = {a1, a2}
  MinSamples = 2
  MaxMarket = 1
SPECIFICATION PricingSpec
INVARIANTS PricingTypeOK PriceRestsOnFreights WindowStaysClosed
CHECK_DEADLOCK FALSE
