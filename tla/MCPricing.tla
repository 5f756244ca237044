----------------------------- MODULE MCPricing -----------------------------
(* Instances of Pricing for TLC.                                           *)
EXTENDS Pricing, TLC

CONSTANTS d1, d2, r1, m1, m2, a1, a2

\* The first match is comparable to both deals, the second to one of them.
Routes == m1 :> {d1, d2} @@ m2 :> {d1}
=============================================================================
