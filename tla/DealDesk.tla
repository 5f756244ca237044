------------------------------ MODULE DealDesk ------------------------------
(***************************************************************************)
(* POST /deals/{deal_id}/status.  A carrier or an admin moves a deal to its *)
(* next status; a delivered deal with a price leaves a price sample.        *)
(*                                                                          *)
(* The handler reads the deal, checks the move against the status it read,  *)
(* and commits.  The row carries no version and is not locked, so the       *)
(* commit overwrites whatever another request has written since.            *)
(***************************************************************************)
EXTENDS Naturals

CONSTANTS
  Deals,       \* deal ids
  Priced,      \* the deals whose price_amount is neither NULL nor 0
  Requests,    \* slots for requests in flight at once
  MaxSamples   \* bound: no request starts on a deal that has left so many samples

ASSUME DealAssumption == Priced \subseteq Deals /\ MaxSamples \in Nat

VARIABLES
  status,   \* deals.status, "none" before the row exists
  samples,  \* number of price_samples rows with source "deal" and this deal's id
  sess,     \* per request slot: idle, or the deal it has read and the status it will write
  visited   \* history: the statuses the deal has had

vars == <<status, samples, sess, visited>>

DealStatus == {"booked", "loaded", "in_transit", "delivered", "invoiced", "paid", "cancelled"}
\* The statuses in which a shipper may see the vehicle on the map.
Trackable == {"loaded", "in_transit"}
Roles == {"carrier", "admin"}

Idle == [at |-> "idle"]
Moving == [at: {"commit"}, deal: Deals, to: DealStatus]

TypeOK ==
  /\ status \in [Deals -> DealStatus \cup {"none"}]
  /\ samples \in [Deals -> Nat]
  /\ sess \in [Requests -> {Idle} \cup Moving]
  /\ visited \in [Deals -> SUBSET DealStatus]

Init ==
  /\ status = [d \in Deals |-> "none"]
  /\ samples = [d \in Deals |-> 0]
  /\ sess = [r \in Requests |-> Idle]
  /\ visited = [d \in Deals |-> {}]

-----------------------------------------------------------------------------
(* The tables of allowed moves.                                            *)

CarrierNext(s) ==
  CASE s = "booked"     -> {"loaded"}
    [] s = "loaded"     -> {"in_transit"}
    [] s = "in_transit" -> {"delivered"}
    [] OTHER            -> {}

AdminNext(s) ==
  CASE s = "booked"     -> {"loaded", "cancelled"}
    [] s = "loaded"     -> {"in_transit", "cancelled"}
    [] s = "in_transit" -> {"delivered", "cancelled"}
    [] s = "delivered"  -> {"invoiced"}
    [] s = "invoiced"   -> {"paid"}
    [] OTHER            -> {}

\* Seeded bugs: an admin may invoice at any time; a carrier may give any status of his table,
\* not only the next one.
EarlyInvoice(role, s) ==
  IF role = "admin" THEN AdminNext(s) \cup {"invoiced"} ELSE CarrierNext(s)
AnyOfHis(role, s) ==
  IF role = "admin" THEN AdminNext(s) ELSE {"loaded", "in_transit", "delivered"}

Allowed(role, s) == IF role = "admin" THEN AdminNext(s) ELSE CarrierNext(s)

\* Seeded bug: the price is not looked at.
LeavesAnySample(d, to) == to = "delivered"

LeavesSample(d, to) == to = "delivered" /\ d \in Priced

-----------------------------------------------------------------------------

\* Seeded bug: the label shown to the user is stored in place of the status.
SetLabel(d, s) ==
  /\ status' = [status EXCEPT ![d] = "label"]
  /\ visited' = [visited EXCEPT ![d] = @ \cup {s}]

SetStatus(d, s) ==
  /\ status' = [status EXCEPT ![d] = s]
  /\ visited' = [visited EXCEPT ![d] = @ \cup {s}]

\* One of the two routes of Booking inserts the row.
Create(d) ==
  /\ status[d] = "none"
  /\ SetStatus(d, "booked")
  /\ UNCHANGED <<samples, sess>>

\* The deal is read and the move validated; a move that is not allowed ends the request.
ReadDeal(r, d, role, to) ==
  /\ sess[r] = Idle
  /\ to \in Allowed(role, status[d])
  /\ samples[d] < MaxSamples
  /\ sess' = [sess EXCEPT ![r] = [at |-> "commit", deal |-> d, to |-> to]]
  /\ UNCHANGED <<status, samples, visited>>

\* The status and the price sample, in one commit.
Commit(r) ==
  LET d == sess[r].deal
      to == sess[r].to
  IN  /\ sess[r].at = "commit"
      /\ SetStatus(d, to)
      /\ samples' = IF LeavesSample(d, to) THEN [samples EXCEPT ![d] = @ + 1] ELSE samples
      /\ sess' = [sess EXCEPT ![r] = Idle]

\* Seeded bug: the sample is stored by a transaction of its own.
AbortKeepsSample(r) ==
  LET d == sess[r].deal
  IN  /\ sess[r].at = "commit"
      /\ samples' = IF LeavesSample(d, sess[r].to) THEN [samples EXCEPT ![d] = @ + 1] ELSE samples
      /\ sess' = [sess EXCEPT ![r] = Idle]
      /\ UNCHANGED <<status, visited>>

\* The database or the process fails before the commit: the request is rolled back.
Abort(r) ==
  /\ sess[r].at = "commit"
  /\ sess' = [sess EXCEPT ![r] = Idle]
  /\ UNCHANGED <<status, samples, visited>>

Next ==
  \/ \E d \in Deals : Create(d)
  \/ \E r \in Requests, d \in Deals, role \in Roles, to \in DealStatus : ReadDeal(r, d, role, to)
  \/ \E r \in Requests : Commit(r) \/ Abort(r)

Spec == Init /\ [][Next]_vars

-----------------------------------------------------------------------------
(* Properties.                                                             *)

Before == [loaded |-> "booked", in_transit |-> "loaded", delivered |-> "in_transit",
           invoiced |-> "delivered", paid |-> "invoiced"]

\* A deal never has a status without having had the one before it, even though a stale
\* request may move it from a status it no longer has: no invoice without a delivery, no
\* delivery without a transport.  A cancelled deal was once booked.
NoStageSkipped ==
  \A d \in Deals : \A s \in visited[d] :
    /\ s \in DOMAIN Before => Before[s] \in visited[d]
    /\ "booked" \in visited[d]

\* The pricing agent has a sample of a deal exactly if the deal has a price and has been
\* delivered: status and sample are never committed one without the other.
SampleIffDelivered ==
  \A d \in Deals : samples[d] > 0 <=> d \in Priced /\ "delivered" \in visited[d]

\* The strengthening that makes both inductive: the history holds the present status,
\* and a request in flight moves the deal to a successor of a status it has had.
SessionsJustified ==
  /\ \A d \in Deals : visited[d] = IF status[d] = "none" THEN {} ELSE visited[d] \cup {status[d]}
  /\ \A r \in Requests : sess[r] # Idle =>
       \E s \in visited[sess[r].deal] : sess[r].to \in AdminNext(s)

DealInv == TypeOK /\ SessionsJustified /\ NoStageSkipped /\ SampleIffDelivered

Record ==
  INSTANCE DealRecord WITH status <- status, samples <- samples, past <- visited,
                           Deals <- Deals, Priced <- Priced

\* However requests overlap, with whatever they read long ago, every commit takes its deal
\* where its history leads and leaves a sample exactly if it delivers; no other step writes.
KeepsRecord == Record!Spec

\* The tracking window "closes when it reaches 'delivered'" (deals.py): a deal that has
\* been delivered is never trackable again.  True only when requests do not overlap.
WindowStaysClosed ==
  \A d \in Deals : "delivered" \in visited[d] => status[d] \notin Trackable
=============================================================================
