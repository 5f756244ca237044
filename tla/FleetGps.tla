------------------------------ MODULE FleetGps ------------------------------
(***************************************************************************)
(* The fleet routes and the GPS poll against Traccar.                       *)
(*                                                                          *)
(* fleet_new_submit and fleet_link_traccar look up or insert the company's  *)
(* telematics account, make a group and a device in Traccar, and commit;    *)
(* fleet_delete_vehicle deletes the device in Traccar, then the row.  The   *)
(* poll reads which vehicle has which device, asks Traccar for the latest   *)
(* fix of each and stores those it does not have.                           *)
(*                                                                          *)
(* Traccar knows nothing of the database's transactions: what a rolled back *)
(* request made there stays there.                                          *)
(***************************************************************************)
EXTENDS Naturals, Sequences

CONSTANTS
  Vehicles,    \* vehicle ids
  CompanyOf,   \* the company of each vehicle
  Uids,        \* unique ids (IMEI, phone number) a carrier may type
  Devices,     \* device ids Traccar may give out
  Requests,    \* slots for requests in flight at once
  MaxFix,      \* bound: a device reports at most so many fixes
  NoVehicle, NoUid, NoDevice

ASSUME FleetAssumption ==
  /\ NoVehicle \notin Vehicles /\ NoUid \notin Uids /\ NoDevice \notin Devices
  /\ CompanyOf \in [Vehicles -> {CompanyOf[v] : v \in Vehicles}]
  /\ MaxFix \in Nat

VARIABLES
  vehicle,   \* the row: "none" before it is made, "row", "gone"
  link,      \* vehicles.traccar_device_id
  account,   \* the company's telematics_accounts row: "none", "bare", or "grouped" with a group id
  sess,      \* per request slot: idle, or what the handler holds and where it is
  uid,       \* Traccar: the unique id of a device, NoUid if there is no such device (any more)
  fix,       \* Traccar: time of the latest fix of a device, 0 for none
  madeFor,   \* history: the vehicle a device was made for
  log,       \* per vehicle its vehicle_positions rows, in the order they were stored
  poll       \* the poll: idle, or what it has read

fleet == <<vehicle, link, account, sess>>
traccar == <<uid, fix, madeFor>>
vars == <<vehicle, link, account, sess, uid, fix, madeFor, log, poll>>

Companies == {CompanyOf[v] : v \in Vehicles}
Account == {"none", "bare", "grouped"}
Fixes == [device: Devices, at: 1..MaxFix]

Idle == [at |-> "idle"]
Session == [at: {"account", "insert", "group", "device", "commit", "erase", "remove"},
            op: {"new", "link", "delete"}, vehicle: Vehicles, uid: Uids \cup {NoUid},
            account: Account, own: BOOLEAN, device: Devices \cup {NoDevice}]
Asking == [at: {"ask"}, vehicleOf: [Devices -> Vehicles \cup {NoVehicle}]]
Storing == [at: {"store"}, vehicleOf: [Devices -> Vehicles \cup {NoVehicle}],
            latest: [Devices -> 0..MaxFix]]

TypeOK ==
  /\ vehicle \in [Vehicles -> {"none", "row", "gone"}]
  /\ link \in [Vehicles -> Devices \cup {NoDevice}]
  /\ account \in [Companies -> Account]
  /\ sess \in [Requests -> {Idle} \cup Session]
  /\ uid \in [Devices -> Uids \cup {NoUid}]
  /\ fix \in [Devices -> 0..MaxFix]
  /\ madeFor \in [Devices -> Vehicles \cup {NoVehicle}]
  /\ log \in [Vehicles -> Seq(Fixes)]
  /\ poll \in {Idle} \cup Asking \cup Storing

Init ==
  /\ vehicle = [v \in Vehicles |-> "none"]
  /\ link = [v \in Vehicles |-> NoDevice]
  /\ account = [c \in Companies |-> "none"]
  /\ sess = [r \in Requests |-> Idle]
  /\ uid = [d \in Devices |-> NoUid]
  /\ fix = [d \in Devices |-> 0]
  /\ madeFor = [d \in Devices |-> NoVehicle]
  /\ log = [v \in Vehicles |-> <<>>]
  /\ poll = Idle

-----------------------------------------------------------------------------
(* The requests start.                                                     *)

Begin(r, op, at, v, u, d) ==
  /\ sess[r] = Idle
  /\ sess' = [sess EXCEPT ![r] = [at |-> at, op |-> op, vehicle |-> v, uid |-> u,
                                  account |-> "none", own |-> FALSE, device |-> d]]
  /\ UNCHANGED <<vehicle, link, account, uid, fix, madeFor, log, poll>>

\* The row, of a company and without a carrier, is flushed first; without a unique id there is nothing to do in Traccar.
StartNew(r, v, u) ==
  /\ vehicle[v] = "none"
  /\ \A q \in Requests : sess[q] # Idle => sess[q].vehicle # v
  /\ Begin(r, "new", IF u = NoUid THEN "commit" ELSE "account", v, u, NoDevice)

StartLink(r, v, u) ==
  /\ vehicle[v] = "row"
  /\ Begin(r, "link", "account", v, u, NoDevice)

StartDelete(r, v) ==
  /\ vehicle[v] = "row"
  /\ Begin(r, "delete", IF link[v] = NoDevice THEN "remove" ELSE "erase", v, NoUid, link[v])

-----------------------------------------------------------------------------
(* Account, group and device.                                              *)

company(r) == CompanyOf[sess[r].vehicle]

\* An account that names a group goes straight to the device.
AfterAccount == [none |-> "insert", bare |-> "group", grouped |-> "device"]

FindAccount(r) ==
  /\ sess[r].at = "account"
  /\ sess' = [sess EXCEPT ![r] = [sess[r] EXCEPT !.account = account[company(r)],
                                                 !.at = AfterAccount[account[company(r)]]]]
  /\ UNCHANGED <<vehicle, link, account, uid, fix, madeFor, log, poll>>

\* The insert waits for another session's uncommitted row of the same company.  This is the
\* unique constraint that the ORM declares; no migration creates it.
Waits(r) ==
  \E q \in Requests \ {r} : sess[q] # Idle /\ sess[q].own /\ company(q) = company(r)

InsertAccount(r) ==
  /\ sess[r].at = "insert"
  /\ ~Waits(r)
  /\ sess' = [sess EXCEPT ![r] =
                IF account[company(r)] = "none"
                THEN [sess[r] EXCEPT !.at = "group", !.account = "bare", !.own = TRUE]
                ELSE Idle]   \* IntegrityError; it ends a "new" at its commit, the row with it
  /\ UNCHANGED <<vehicle, link, account, uid, fix, madeFor, log, poll>>

MakeGroup(r) ==
  /\ sess[r].at = "group"
  /\ sess' = [sess EXCEPT ![r] = [sess[r] EXCEPT !.at = "device", !.account = "grouped"]]
  /\ UNCHANGED <<vehicle, link, account, uid, fix, madeFor, log, poll>>

\* A call to Traccar that failed: fleet_new_submit saves the vehicle without a device,
\* fleet_link_traccar fails.
GiveUp(r) ==
  sess' = [sess EXCEPT ![r] = IF sess[r].op = "new" THEN [sess[r] EXCEPT !.at = "commit"] ELSE Idle]

\* Seeded bug: Traccar answers a unique id it knows with the device it has.
Reusable(r, d) ==
  uid[d] = sess[r].uid \/ (madeFor[d] = NoVehicle /\ \A e \in Devices : uid[e] # sess[r].uid)

\* Traccar refuses a unique id that is taken, and never gives out a device id again.
Creatable(r, d) ==
  madeFor[d] = NoVehicle /\ \A e \in Devices : uid[e] # sess[r].uid

\* The answer may be lost: then the device is there and the handler does not know.
CreateDevice(r, d) ==
  /\ sess[r].at = "device"
  /\ Creatable(r, d)
  /\ uid' = [uid EXCEPT ![d] = sess[r].uid]
  /\ madeFor' = [madeFor EXCEPT ![d] = IF @ = NoVehicle THEN sess[r].vehicle ELSE @]
  /\ \/ sess' = [sess EXCEPT ![r] = [sess[r] EXCEPT !.at = "commit", !.device = d]]
     \/ GiveUp(r)
  /\ UNCHANGED <<vehicle, link, account, fix, log, poll>>

TraccarFails(r) ==
  /\ sess[r].at \in {"group", "device"}
  /\ GiveUp(r)
  /\ UNCHANGED <<vehicle, link, account, uid, fix, madeFor, log, poll>>

-----------------------------------------------------------------------------
(* Commits.                                                                *)

\* Seeded bug: the unique id is stored in place of Traccar's device id.
UniqueId(r) == sess[r].uid

DeviceLink(r) == sess[r].device

\* Seeded bug: the vehicle is committed and the account it made is not.
KeepAccount(r) == account' = account

WriteAccount(r) ==
  account' = IF sess[r].own \/ sess[r].account = "grouped"
             THEN [account EXCEPT ![company(r)] = sess[r].account]
             ELSE account

\* A link to a vehicle deleted meanwhile updates no row and fails.
Commit(r) ==
  LET v == sess[r].vehicle
  IN  /\ sess[r].at = "commit"
      /\ IF sess[r].op = "link" /\ vehicle[v] = "gone"
         THEN UNCHANGED <<vehicle, link, account>>
         ELSE /\ vehicle' = [vehicle EXCEPT ![v] = "row"]
              /\ link' = [link EXCEPT ![v] = DeviceLink(r)]
              /\ WriteAccount(r)
      /\ sess' = [sess EXCEPT ![r] = Idle]
      /\ UNCHANGED <<uid, fix, madeFor, log, poll>>

\* Traccar is asked once to delete the device; whether it did is not looked at.
EraseDevice(r) ==
  /\ sess[r].at = "erase"
  /\ uid' \in {uid, [uid EXCEPT ![sess[r].device] = NoUid]}
  /\ sess' = [sess EXCEPT ![r] = [sess[r] EXCEPT !.at = "remove"]]
  /\ UNCHANGED <<vehicle, link, account, fix, madeFor, log, poll>>

\* The row goes, and its positions by the ON DELETE CASCADE of migration 002.
Remove(r) ==
  LET v == sess[r].vehicle
  IN  /\ sess[r].at = "remove"
      /\ vehicle' = [vehicle EXCEPT ![v] = "gone"]
      /\ link' = [link EXCEPT ![v] = NoDevice]
      /\ log' = [log EXCEPT ![v] = <<>>]
      /\ sess' = [sess EXCEPT ![r] = Idle]
      /\ UNCHANGED <<account, uid, fix, madeFor, poll>>

\* A lost connection, a restart, or a delete refused because a match or a deal refers to
\* the vehicle: the database forgets the request, Traccar does not.
Abort(r) ==
  /\ sess[r] # Idle
  /\ sess' = [sess EXCEPT ![r] = Idle]
  /\ UNCHANGED <<vehicle, link, account, uid, fix, madeFor, log, poll>>

-----------------------------------------------------------------------------
(* The poll: one at a time (max_instances=1).                              *)

Linked(d) == \E v \in Vehicles : link[v] = d

PollRead ==
  /\ poll = Idle
  /\ \E d \in Devices : Linked(d)
  /\ poll' = [at |-> "ask",
              vehicleOf |-> [d \in Devices |->
                 IF Linked(d) THEN CHOOSE v \in Vehicles : link[v] = d ELSE NoVehicle]]
  /\ UNCHANGED <<vehicle, link, account, sess, uid, fix, madeFor, log>>

\* Traccar answers with the latest fix of every device it has one of.
PollAnswer ==
  /\ poll.at = "ask"
  /\ poll' = [at |-> "store", vehicleOf |-> poll.vehicleOf,
              latest |-> [d \in Devices |->
                 IF poll.vehicleOf[d] # NoVehicle /\ uid[d] # NoUid THEN fix[d] ELSE 0]]
  /\ UNCHANGED <<vehicle, link, account, sess, uid, fix, madeFor, log>>

TimesOf(v) == {log[v][i].at : i \in DOMAIN log[v]}

\* Seeded bugs: the check is left out; only a fix newer than all stored ones is taken,
\* whatever device it comes from.
AnyFix(d) == poll.latest[d] > 0
NewerFix(d) ==
  poll.latest[d] > 0 /\ \A t \in TimesOf(poll.vehicleOf[d]) : t < poll.latest[d]

\* A fix is skipped if one of the same time is stored for the vehicle.
Fresh(d) == poll.latest[d] > 0 /\ poll.latest[d] \notin TimesOf(poll.vehicleOf[d])

\* All new positions in one commit; if a vehicle is gone the foreign key fails it as a whole.
PollStore ==
  LET new == {d \in Devices : Fresh(d)}
      of(v) == {d \in new : poll.vehicleOf[d] = v}
  IN  /\ poll.at = "store"
      /\ log' = IF \E d \in new : vehicle[poll.vehicleOf[d]] = "gone"
                THEN log
                ELSE [v \in Vehicles |->
                        IF of(v) = {} THEN log[v]
                        ELSE LET d == CHOOSE d \in of(v) : TRUE
                             IN  Append(log[v], [device |-> d, at |-> poll.latest[d]])]
      /\ poll' = Idle
      /\ UNCHANGED <<vehicle, link, account, sess, uid, fix, madeFor>>

\* Traccar cannot be reached, the database fails, or the process restarts.
PollFails ==
  /\ poll # Idle
  /\ poll' = Idle
  /\ UNCHANGED <<vehicle, link, account, sess, uid, fix, madeFor, log>>

\* Traccar receives a newer fix; it keeps the newest as the device's latest.
Report(d) ==
  /\ uid[d] # NoUid
  /\ fix[d] < MaxFix
  /\ fix' = [fix EXCEPT ![d] = @ + 1]
  /\ UNCHANGED <<vehicle, link, account, sess, uid, madeFor, log, poll>>

-----------------------------------------------------------------------------

Register(r) ==
  \/ FindAccount(r) \/ InsertAccount(r) \/ MakeGroup(r) \/ TraccarFails(r) \/ Commit(r)
  \/ \E d \in Devices : CreateDevice(r, d)

Request(r) ==
  \/ \E v \in Vehicles, u \in Uids \cup {NoUid} : StartNew(r, v, u)
  \/ \E v \in Vehicles, u \in Uids : StartLink(r, v, u)
  \/ \E v \in Vehicles : StartDelete(r, v)
  \/ Register(r)
  \/ EraseDevice(r) \/ Remove(r) \/ Abort(r)

Poll == PollRead \/ PollAnswer \/ PollStore \/ PollFails

Next ==
  \/ \E r \in Requests : Request(r)
  \/ Poll
  \/ \E d \in Devices : Report(d)

Spec == Init /\ [][Next]_vars

\* The scheduler polls again and again; Traccar may fail to answer, and the database to
\* commit, any number of times but not for ever.  Devices and requests may do as they like.
FairSpec == Spec /\ WF_vars(PollRead) /\ SF_vars(PollAnswer) /\ SF_vars(PollStore)

-----------------------------------------------------------------------------
(* Properties.                                                             *)

\* A vehicle is linked to, and has positions of, only devices that were made for it: no
\* vehicle ever shows where another one is, although failed requests leave devices behind
\* in Traccar, their unique ids are used again after a deletion, and the poll stores under
\* a list of vehicles it read earlier.
OwnDevice ==
  \A v \in Vehicles :
    /\ link[v] # NoDevice => madeFor[link[v]] = v
    /\ \A i \in DOMAIN log[v] : madeFor[log[v][i].device] = v

\* Positions from one device are stored in the order they were taken.  (A vehicle linked to
\* another device may get older fixes after newer ones: the poll only skips equal times.)
DeviceInOrder ==
  \A v \in Vehicles : \A i, j \in DOMAIN log[v] :
    i < j /\ log[v][i].device = log[v][j].device => log[v][i].at < log[v][j].at

\* A linked vehicle's company has an account with a group, whoever of two overlapping
\* requests made it and however the other one failed.
LinkedIsGrouped ==
  \A v \in Vehicles : link[v] # NoDevice => account[CompanyOf[v]] = "grouped"

\* The positions table keeps its promise to the pages that read it.
Feed == INSTANCE PositionLog WITH Vehicles <- Vehicles, Fixes <- Fixes, log <- log
KeepsPositionLog == Feed!Spec

\* The strengthening that makes these inductive.  A session's device was made for its
\* vehicle.  What it holds of the account fits the row: one it has inserted itself is not
\* there yet, and one it has found never goes away.
SessionFits(s) ==
  s # Idle =>
    /\ s.device # NoDevice => madeFor[s.device] = s.vehicle
    /\ s.at \in {"account", "insert", "group", "device"} => s.device = NoDevice
    /\ s.at \in {"account", "insert"} => ~s.own
    /\ s.at = "group" => s.account # "none"
    /\ s.at = "device" \/ (s.at = "commit" /\ s.device # NoDevice) => s.account = "grouped"
    /\ s.own => s.account # "none" /\ account[CompanyOf[s.vehicle]] = "none"
    /\ ~s.own /\ s.account # "none" => account[CompanyOf[s.vehicle]] # "none"

SessionsFit == \A r \in Requests : SessionFits(sess[r])

\* Only one session at a time has inserted an account of a company.
OneMaker ==
  \A q, r \in Requests :
    q # r /\ sess[q] # Idle /\ sess[q].own /\ sess[r] # Idle /\ sess[r].own =>
      company(q) # company(r)

\* The poll asks for devices on behalf of the vehicles they were made for.
PollOwn ==
  poll # Idle =>
    \A d \in Devices : poll.vehicleOf[d] # NoVehicle => madeFor[d] = poll.vehicleOf[d]

\* No stored fix of a device is newer than Traccar's latest, or than the poll's answer.
NoneNewer ==
  /\ \A v \in Vehicles : \A i \in DOMAIN log[v] : log[v][i].at <= fix[log[v][i].device]
  /\ poll.at = "store" =>
       \A d \in Devices : poll.latest[d] > 0 =>
         /\ poll.vehicleOf[d] # NoVehicle
         /\ poll.latest[d] <= fix[d]
         /\ \A i \in DOMAIN log[poll.vehicleOf[d]] :
              log[poll.vehicleOf[d]][i].device = d => log[poll.vehicleOf[d]][i].at <= poll.latest[d]

FleetInv ==
  /\ TypeOK
  /\ OwnDevice /\ DeviceInOrder /\ LinkedIsGrouped /\ Feed!StoredOnce
  /\ SessionsFit /\ OneMaker /\ PollOwn /\ NoneNewer

\* Among the positions of v is one taken at t or later, up to the latest fix of d.
Stored(v, d, t) == TimesOf(v) \cap (t..fix[d]) # {}

\* Device d is linked to vehicle v, and known to Traccar.
Sends(v, d) == link[v] = d /\ uid[d] # NoUid

\* The commit of the poll is about to fail: a vehicle it has a position for was deleted
\* after the poll read the vehicles.
Blocked == poll.at = "store" /\ \E d \in Devices : Fresh(d) /\ vehicle[poll.vehicleOf[d]] = "gone"

\* A fix that Traccar has from a linked device is stored, or one of the same time or later in
\* its place, unless the link ends: reports that arrive while the poll is on its way, failed
\* calls to Traccar, failed commits and restarts only delay it.  Deletions that hit the poll
\* must come to an end, for each takes the positions of all vehicles with it.
FixesArrive ==
  <>[]~Blocked =>
    \A v \in Vehicles, d \in Devices, t \in 1..MaxFix :
      (Sends(v, d) /\ fix[d] >= t) ~> (Stored(v, d, t) \/ ~Sends(v, d))
=============================================================================
