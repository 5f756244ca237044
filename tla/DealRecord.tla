----------------------------- MODULE DealRecord -----------------------------
(***************************************************************************)
(* What the deals table promises its readers however status requests       *)
(* overlap.  A deal may fall back to, or be cancelled at, any stage it was   *)
(* once ready for, but reaches no stage before it has had the one that      *)
(* leads to it, and arriving at "delivered" is the only thing that leaves a *)
(* price sample, one each time, in the same step.                           *)
(***************************************************************************)
EXTENDS Naturals

CONSTANTS Deals, Priced

VARIABLES
  status,
  samples,
  past      \* the statuses the deal has had

record == <<status, samples, past>>

Init ==
  /\ status = [d \in Deals |-> "none"]
  /\ samples = [d \in Deals |-> 0]
  /\ past = [d \in Deals |-> {}]

\* The stage that leads to another; a deal can be cancelled once it is booked.
LedToBy == [loaded |-> "booked", in_transit |-> "loaded", delivered |-> "in_transit",
            invoiced |-> "delivered", paid |-> "invoiced", cancelled |-> "booked"]

Enter(d, s) ==
  /\ status' = [status EXCEPT ![d] = s]
  /\ past' = [past EXCEPT ![d] = @ \cup {s}]

Book(d) ==
  /\ past[d] = {}
  /\ Enter(d, "booked")
  /\ UNCHANGED samples

Reach(d, s) ==
  /\ LedToBy[s] \in past[d]
  /\ Enter(d, s)
  /\ samples' = IF s = "delivered" /\ d \in Priced
                  THEN [samples EXCEPT ![d] = @ + 1] ELSE samples

Next == \E d \in Deals : Book(d) \/ \E s \in DOMAIN LedToBy : Reach(d, s)

Spec == Init /\ [][Next]_record
=============================================================================
