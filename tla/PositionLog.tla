---------------------------- MODULE PositionLog ----------------------------
(***************************************************************************)
(* What vehicle_positions promises its readers: per vehicle a history that  *)
(* only grows, holds every fix time at most once, and goes with the vehicle. *)
(***************************************************************************)
EXTENDS Naturals, Sequences

CONSTANTS
  Vehicles,
  Fixes      \* what a row may say: records with at least the field at, the time of the fix

VARIABLE log \* per vehicle its rows, in the order they were stored

Times(s) == {s[i].at : i \in DOMAIN s}

Init == log = [v \in Vehicles |-> <<>>]

\* One commit may add a fix to several vehicles.
Store(fixes) ==
  /\ \A v \in DOMAIN fixes : fixes[v].at \notin Times(log[v])
  /\ log' = [v \in Vehicles |->
               IF v \in DOMAIN fixes THEN Append(log[v], fixes[v]) ELSE log[v]]

\* The rows are deleted with their vehicle.
Erase(v) == log' = [log EXCEPT ![v] = <<>>]

Next ==
  \/ \E W \in SUBSET Vehicles : \E fixes \in [W -> Fixes] : Store(fixes)
  \/ \E v \in Vehicles : Erase(v)

Spec == Init /\ [][Next]_log

\* No fix time is stored twice for a vehicle (the existence check of gps_poll.py; the table
\* has no unique constraint).
StoredOnce ==
  \A v \in Vehicles : \A i, j \in DOMAIN log[v] : log[v][i].at = log[v][j].at => i = j
=============================================================================
