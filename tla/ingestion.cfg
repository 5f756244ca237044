CONSTANTS
  l1 = l1
  l2 = l2
  v1 = v1
  v2 = v2
  v3 = v3
  u1 = u1
  u2 = u2
  nobody = nobody
  LoadIds = {l1}
  FromUA = {l1, v1, v2}
  Priced = {l1}
  VehicleIds = {v1, v2, v3}
  Users = {u1}
  UserOf <- OneUser
  Job = job
  Manual = {manual}
  PageSize = 3
  MaxRestarts = 1
SPECIFICATION Spec
INVARIANTS TypeOK OneSamplePerPricedLoad CarriersBelongToVehicles CarrierRowsBounded
PROPERTY StoresWholeBatches
