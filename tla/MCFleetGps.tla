----------------------------- MODULE MCFleetGps -----------------------------
(* Instances of FleetGps for TLC.                                          *)
EXTENDS FleetGps, TLC

CONSTANTS v1, v2, c1, d1, d2, u1, u2, r1, r2

OneCompany == v1 :> c1 @@ v2 :> c1

\* The ids of a kind are interchangeable, and so are the vehicles of one company.
IdSymmetry ==
  Permutations(Vehicles) \cup Permutations(Uids) \cup Permutations(Devices)
    \cup Permutations(Requests)
=============================================================================
