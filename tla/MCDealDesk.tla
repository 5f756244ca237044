----------------------------- MODULE MCDealDesk -----------------------------
(* Instances of DealDesk for TLC.                                          *)
EXTENDS DealDesk, TLC

CONSTANTS d1, d2, r1, r2

\* Request slots are interchangeable; the deals are not, only one of them has a price.
SlotSymmetry == Permutations(Requests)
=============================================================================
