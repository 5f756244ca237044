CONSTANTS
  l1 = l1
  l2 = l2
  v1 = v1
  v2 = v2
  v3 = v3
  u1 = u1
  u2 = u2
  nobody = nobody
  LoadIds = {l1, l2}
  FromUA = {l1, v1, v2}
  Priced = {l1, l2}
  VehicleIds = {v1, v2}
  Users = {u1, u2}
  UserOf <- TwoUsers
  Job = job
  Manual = {manual}
  PageSize = 2
  MaxRestarts = 0
SPECIFICATION FairSpec
PROPERTY ListedIsIngested
