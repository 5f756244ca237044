----------------------------- MODULE MCTracking -----------------------------
(* Instances of Tracking for TLC.                                          *)
EXTENDS Tracking, TLC

CONSTANTS d1, d2, r1, r2, v1, shipper, carrier, p1

\* Both deals are of one vehicle; the first is of the shipper's load, the second of an ingested one.
OneVehicle == d1 :> v1 @@ d2 :> v1
Role == shipper :> "shipper" @@ carrier :> "carrier"
PostedBy == d1 :> shipper @@ d2 :> Nobody
TwoFixes == [at: 1..2]

\* Request slots are interchangeable; the deals are not, only one of them has a price.
SlotSymmetry == Permutations(Requests)
=============================================================================
