---------------------------- MODULE MCIngestion ----------------------------
(* Instances of Ingestion for TLC.                                       *)
EXTENDS Ingestion

CONSTANTS l1, l2, v1, v2, v3, u1, u2, nobody

\* Vehicles of one user, and one whose user is not known by a number.
OneUser == [v \in VehicleIds |-> IF v = v3 THEN nobody ELSE u1]

\* A user for each vehicle.
TwoUsers == [v \in VehicleIds |-> IF v = v1 THEN u1 ELSE u2]
=============================================================================
