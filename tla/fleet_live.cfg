CONSTANTS
  v1 = v1
  v2 = v2
  c1 = c1
  d1 = d1
  d2 = d2
  u1 = u1
  u2 = u2
  r1 = r1
  r2 = r2
  Vehicles = {v1, v2}
  CompanyOf <- OneCompany
  Uids = {u1, u2}
  Devices = {d1, d2}
  Requests = {r1}
  MaxFix = 2
  NoVehicle = NoVehicle
  NoUid = NoUid
  NoDevice = NoDevice
SPECIFICATION FairSpec
PROPERTIES FixesArrive
CHECK_DEADLOCK FALSE
