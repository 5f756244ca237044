----------------------------- MODULE MCBooking -----------------------------
(* Instances of Booking for TLC.                                           *)
EXTENDS Booking, TLC

CONSTANTS l1, l2, v1, v2, r1, r2, m1

AllPairs == Loads \X Vehicles

\* Request slots are interchangeable, and so are loads: AllPairs tells none apart.
SlotSymmetry == Permutations(Requests) \cup Permutations(Loads)
=============================================================================
