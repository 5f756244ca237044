------------------------------ MODULE Tracking ------------------------------
(***************************************************************************)
(* The tracking page over the deal desk and the stored positions.           *)
(*                                                                          *)
(* The page and its card, which refreshes itself, do the same: read the     *)
(* deal, check on what was read whether the user may track it, then read    *)
(* the vehicle's latest position.  The deal and the positions move on       *)
(* between the two reads.  Of the positions only what PositionLog promises   *)
(* is used, which FleetGps implements.                                      *)
(***************************************************************************)
EXTENDS DealDesk, Sequences

CONSTANTS
  Vehicles, VehicleOf, \* the vehicle of each deal
  Fixes,               \* what a position row may say
  Users, RoleOf,       \* users and their roles
  Owner, Nobody,       \* the user who posted the load of each deal; nobody an ingested one
  Pages                \* pages open at once

ASSUME TrackingAssumption ==
  /\ VehicleOf \in [Deals -> Vehicles]
  /\ RoleOf \in [Users -> {"admin", "shipper", "forwarder", "carrier"}]
  /\ Owner \in [Deals -> Users \cup {Nobody}] /\ Nobody \notin Users
  /\ \A x \in Fixes : x.at \in Nat \ {0}

VARIABLES
  log,   \* vehicle_positions, as in PositionLog
  page   \* per page: not open, or its user and deal, the time of the position it shows
         \* (0 for none), and whether a request of it has passed the gate

positions == INSTANCE PositionLog WITH Vehicles <- Vehicles, Fixes <- Fixes, log <- log

Closed == [at |-> "closed"]
Page == [at: {"gate", "open"}, user: Users, deal: Deals, time: Nat]

TrackingTypeOK ==
  /\ log \in [Vehicles -> Seq(Fixes)]
  /\ page \in [Pages -> {Closed} \cup Page]

TrackingInit ==
  /\ Init
  /\ positions!Init
  /\ page = [p \in Pages |-> Closed]

\* Seeded bug: the window is open unless it has been closed.
Unclosed(u, d, s) ==
  \/ RoleOf[u] = "admin"
  \/ /\ s \notin {"delivered", "invoiced", "paid", "cancelled"}
     /\ RoleOf[u] \in {"shipper", "forwarder"} => Owner[d] = u

\* can_track_deal, on the status that was read.  Of a carrier nothing but the window is
\* checked: any carrier may track any deal that is on its way.
CanTrack(u, d, s) ==
  \/ RoleOf[u] = "admin"
  \/ /\ s \in Trackable
     /\ RoleOf[u] \in {"shipper", "forwarder"} => Owner[d] = u

\* The page is asked for.  A user who may not track the deal gets no page.
Open(p, u, d) ==
  /\ page[p].at # "gate"
  /\ status[d] # "none"
  /\ CanTrack(u, d, status[d])
  /\ page' = [page EXCEPT ![p] = [at |-> "gate", user |-> u, deal |-> d, time |-> 0]]
  /\ UNCHANGED <<vars, log>>

\* The card is asked for again.  If the user may not, the page stays as it is.
Refresh(p) ==
  /\ page[p].at = "open"
  /\ CanTrack(page[p].user, page[p].deal, status[page[p].deal])
  /\ page' = [page EXCEPT ![p].at = "gate"]
  /\ UNCHANGED <<vars, log>>

\* Seeded bug: the row stored last.
Newest(v) == IF log[v] = <<>> THEN 0 ELSE log[v][Len(log[v])].at

\* _latest_position: the row with the latest fix time.
Latest(v) ==
  LET times == positions!Times(log[v])
  IN  IF times = {} THEN 0 ELSE CHOOSE t \in times : \A u \in times : u <= t

Show(p) ==
  /\ page[p].at = "gate"
  /\ page' = [page EXCEPT ![p] = [at |-> "open", user |-> @.user, deal |-> @.deal,
                                   time |-> Latest(VehicleOf[@.deal])]]
  /\ UNCHANGED <<vars, log>>

\* Seeded bug: the card is replaced by the error.
ShowError(p) ==
  /\ page[p].at = "gate"
  /\ page' = [page EXCEPT ![p].at = "error"]
  /\ UNCHANGED <<vars, log>>

\* A lost connection, or a restart: the user keeps what he saw.
Break(p) ==
  /\ page[p].at = "gate"
  /\ page' = [page EXCEPT ![p].at = "open"]
  /\ UNCHANGED <<vars, log>>

\* A vehicle that a deal refers to cannot be deleted, and so keeps its positions.
Deletable(v) == \A d \in Deals : VehicleOf[d] = v => status[d] = "none"

PositionsChange ==
  /\ positions!Next
  /\ \A v \in Vehicles : log'[v] = <<>> /\ log[v] # <<>> => Deletable(v)
  /\ UNCHANGED <<vars, page>>

TrackingNext ==
  \/ Next /\ UNCHANGED <<log, page>>
  \/ PositionsChange
  \/ \E p \in Pages :
       \/ \E u \in Users, d \in Deals : Open(p, u, d)
       \/ Refresh(p) \/ Show(p) \/ Break(p)

TrackingSpec == TrackingInit /\ [][TrackingNext]_<<vars, log, page>>

-----------------------------------------------------------------------------
(* Properties.                                                             *)

\* A page of anyone but an admin is of a deal whose cargo has been loaded, whatever stale
\* requests do to the deal's status meanwhile, and a shipper's or forwarder's is of his own
\* load.  Nothing is said of whose deal a carrier's page is of: can_track_deal does not look.
PageOnceLoaded ==
  \A p \in Pages :
    page[p] # Closed /\ RoleOf[page[p].user] # "admin" =>
      /\ "loaded" \in visited[page[p].deal]
      /\ RoleOf[page[p].user] # "carrier" => Owner[page[p].deal] = page[p].user

\* On an open page the vehicle never jumps back: fixes that were stored late are not
\* shown after newer ones, and no position that a page relies on is taken away.
Advances ==
  \A p \in Pages :
    page[p].at = "gate" /\ page'[p].at = "open" => page[p].time <= page'[p].time
NeverJumpsBack == [][Advances]_<<vars, log, page>>

\* The strengthening that makes them inductive: a page is of a deal that exists, which keeps
\* the vehicle from being deleted, and the position it shows, if any, is one of those stored.
PageShowsStored ==
  \A p \in Pages : page[p] # Closed =>
    /\ status[page[p].deal] # "none"
    /\ page[p].time \in {0} \cup positions!Times(log[VehicleOf[page[p].deal]])

TrackingInv == DealInv /\ TrackingTypeOK /\ PageOnceLoaded /\ PageShowsStored
=============================================================================
