CONSTANTS
  d1 = d1
  d2 = d2
  r1 = r1
  r2 = r2
  v1 = v1
  p1 = p1
  shipper = shipper
  carrier = carrier
  Deals = {d1, d2}
  Priced = {d1}
  Requests = {r1, r2}
  MaxSamples = 2
  Vehicles = {v1}
  VehicleOf <- OneVehicle
  Fixes <- TwoFixes
  Users = {shipper, carrier}
  RoleOf <- Role
  Owner <- PostedBy
  Nobody = Nobody
  Pages = {p1}
SPECIFICATION TrackingSpec
SYMMETRY SlotSymmetry
INVARIANTS TypeOK TrackingTypeOK NoStageSkipped SampleIffDelivered PageOnceLoaded
PROPERTIES NeverJumpsBack KeepsRecord
CHECK_DEADLOCK FALSE
