--------------------------- MODULE BookingLedger ---------------------------
(***************************************************************************)
(* What the booking handlers promise, each taken as one atomic operation on *)
(* the rows: the statuses a load and a vehicle may move between, and the    *)
(* deals made meanwhile.  Booking implements it when no two transactions    *)
(* overlap, and breaks it when they do.                                     *)
(***************************************************************************)
EXTENDS Naturals

CONSTANTS Loads, Vehicles

VARIABLES loads, vehicles, deals

ledger == <<loads, vehicles, deals>>

Init ==
  /\ loads = [l \in Loads |-> "absent"]
  /\ vehicles = [v \in Vehicles |-> "available"]
  /\ deals = [p \in Loads \X Vehicles |-> [propose |-> 0, from_match |-> 0]]

\* A load is open while its owner may still cancel it or book a vehicle for it.
IsOpen(l) == loads[l] \in {"new", "matched"}

SetLoad(l, s) == loads' = [loads EXCEPT ![l] = s]
SetVehicle(v, s) == vehicles' = [vehicles EXCEPT ![v] = s]

Publish(l) ==
  /\ loads[l] = "absent"
  /\ SetLoad(l, "new")
  /\ UNCHANGED <<vehicles, deals>>

Withdraw(l) ==
  /\ IsOpen(l)
  /\ SetLoad(l, "cancelled")
  /\ UNCHANGED <<vehicles, deals>>

Suggest(l) ==
  /\ loads[l] = "new"
  /\ SetLoad(l, "matched")
  /\ UNCHANGED <<vehicles, deals>>

\* A shipper's deal takes an open load and an available vehicle.
Book(l, v) ==
  /\ IsOpen(l)
  /\ vehicles[v] = "available"
  /\ SetLoad(l, "booked")
  /\ SetVehicle(v, "booked")
  /\ deals' = [deals EXCEPT ![<<l, v>>].propose = @ + 1]

\* An admin's deal takes any load and leaves the vehicle as it is.
Assign(l, v) ==
  /\ loads[l] # "absent"
  /\ SetLoad(l, "booked")
  /\ deals' = [deals EXCEPT ![<<l, v>>].from_match = @ + 1]
  /\ UNCHANGED vehicles

\* The carrier may give a vehicle any status, whatever deals it has.
Recondition(v, s) ==
  /\ vehicles[v] # "deleted"
  /\ SetVehicle(v, s)
  /\ UNCHANGED <<loads, deals>>

\* Only a vehicle that has never carried a deal can leave the fleet.
Retire(v) ==
  /\ \A l \in Loads : deals[<<l, v>>] = [propose |-> 0, from_match |-> 0]
  /\ SetVehicle(v, "deleted")
  /\ UNCHANGED <<loads, deals>>

Next ==
  \/ \E l \in Loads : Publish(l) \/ Withdraw(l) \/ Suggest(l)
  \/ \E l \in Loads, v \in Vehicles : Book(l, v) \/ Assign(l, v)
  \/ \E v \in Vehicles : Retire(v) \/ \E s \in {"available", "booked", "off"} : Recondition(v, s)

Spec == Init /\ [][Next]_ledger
=============================================================================
