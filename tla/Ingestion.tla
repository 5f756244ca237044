----------------------------- MODULE Ingestion -----------------------------
(***************************************************************************)
(* The ingestion service: proposals are read from the exchange and upserted *)
(* by their exchange id.  The scheduled job takes the loads and then the    *)
(* vehicles in one session; a manual call takes one of the two.             *)
(*                                                                          *)
(* Every proposal of a batch is looked up on its own; what is new is        *)
(* inserted by the commit, or earlier when the row of a carrier is flushed. *)
(* An inserted row is invisible to the other session until its commit, but  *)
(* an insert of the same exchange id waits for it: the unique constraints   *)
(* on (source, external_id) are held by the one who inserts first.  Carrier *)
(* rows have no such constraint.                                            *)
(***************************************************************************)
EXTENDS Naturals, FiniteSets

CONSTANTS
  LoadIds,     \* exchange ids of cargo proposals
  VehicleIds,  \* exchange ids of lorry proposals
  Users,       \* exchange users known by a number
  UserOf,      \* the user of a lorry proposal; outside Users if it has no numeric id
  FromUA,      \* the proposals that start in Ukraine
  Priced,      \* the cargo proposals with a price and a currency
  Job,         \* the session of the scheduled job: max_instances=1
  Manual,      \* the sessions of manual calls
  PageSize,    \* proposals in one answer of the exchange (per_page, 50 in the code)
  MaxRestarts  \* bound: restarts of the process or the database

ASSUME IngestionAssumption ==
  /\ FromUA \subseteq LoadIds \cup VehicleIds
  /\ Priced \subseteq LoadIds
  /\ IsFiniteSet(Manual)
  /\ Job \notin Manual
  /\ PageSize \in Nat
  /\ MaxRestarts \in Nat

VARIABLES
  listed,    \* the exchange: the proposals it lists now
  loads,     \* exchange ids with a row in loads
  samples,   \* price_samples rows with source "lardi", per exchange id
  vehicles,  \* exchange ids with a row in vehicles
  carriers,  \* number of carriers rows per exchange user
  carrierOf, \* per vehicle: which of its user's carrier rows it refers to, 0 for NULL
  sess,      \* per session: idle, or the position in a batch and what it holds
  restarts   \* restarts so far

rows == <<loads, samples, vehicles, carriers, carrierOf>>
vars == <<listed, loads, samples, vehicles, carriers, carrierOf, sess, restarts>>

Slots == Manual \cup {Job}
Proposals == LoadIds \cup VehicleIds

\* A session in a batch.  new: pending inserts; flushed: those already sent to the database;
\* made: users whose carrier row it has sent; current: the vehicle whose carrier is looked
\* up; link: carrier row of a new vehicle, 0 for the row the session made itself or NULL.
Known == {v \in VehicleIds : UserOf[v] \in Users}
BatchOf(positions, ids) ==
  [at: positions, todo: SUBSET ids, new: SUBSET ids, flushed: SUBSET VehicleIds,
   made: SUBSET Users, current: SUBSET Known, link: [VehicleIds -> Nat]]
LoadBatch == BatchOf({"fetch_loads", "loads"}, LoadIds)
VehicleBatch == BatchOf({"fetch_vehicles", "vehicles", "carrier", "flush"}, VehicleIds)
Batch == LoadBatch \cup VehicleBatch
Idle == [at |-> "idle"]

Fresh(at) == [at |-> at, todo |-> {}, new |-> {}, flushed |-> {}, made |-> {},
              current |-> {}, link |-> [v \in VehicleIds |-> 0]]

TypeOK ==
  /\ listed \subseteq Proposals
  /\ loads \subseteq LoadIds
  /\ samples \in [LoadIds -> Nat]
  /\ vehicles \subseteq VehicleIds
  /\ carriers \in [Users -> Nat]
  /\ carrierOf \in [VehicleIds -> Nat]
  /\ sess \in [Slots -> {Idle} \cup Batch]
  /\ restarts \in 0..MaxRestarts

Init ==
  /\ listed = {}
  /\ loads = {}
  /\ samples = [l \in LoadIds |-> 0]
  /\ vehicles = {}
  /\ carriers = [u \in Users |-> 0]
  /\ carrierOf = [v \in VehicleIds |-> 0]
  /\ sess = [s \in Slots |-> Idle]
  /\ restarts = 0

-----------------------------------------------------------------------------
(* The exchange.                                                           *)

\* A proposal is published or withdrawn.
ExchangeChanges(p) ==
  /\ listed' = IF p \in listed THEN listed \ {p} ELSE listed \cup {p}
  /\ UNCHANGED <<rows, sess, restarts>>

\* The answers to a search that finds the proposals "found": its first page.
Answers(found) ==
  {page \in SUBSET found :
     Cardinality(page) = IF Cardinality(found) < PageSize THEN Cardinality(found) ELSE PageSize}

-----------------------------------------------------------------------------
(* Sessions.                                                               *)

Update(s, b) == sess' = [sess EXCEPT ![s] = b]
Goto(s, at) == Update(s, Fresh(at))
Finish(s) == Update(s, Idle)

StartJob ==
  /\ sess[Job] = Idle
  /\ Goto(Job, "fetch_loads")
  /\ UNCHANGED <<listed, rows, restarts>>

StartManual(s) ==
  /\ s \in Manual
  /\ sess[s] = Idle
  /\ \E at \in {"fetch_loads", "fetch_vehicles"} : Goto(s, at)
  /\ UNCHANGED <<listed, rows, restarts>>

\* The job searches for what starts in Ukraine, a manual call by filters of its own.
Searches(s, kind) ==
  IF s = Job THEN {listed \cap kind \cap FromUA} ELSE SUBSET (listed \cap kind)

FetchLoads(s) ==
  /\ sess[s].at = "fetch_loads"
  /\ \E found \in Searches(s, LoadIds) : \E page \in Answers(found) :
       Update(s, [sess[s] EXCEPT !.at = "loads", !.todo = page])
  /\ UNCHANGED <<listed, rows, restarts>>

FetchVehicles(s) ==
  /\ sess[s].at = "fetch_vehicles"
  /\ \E found \in Searches(s, VehicleIds) : \E page \in Answers(found) :
       Update(s, [sess[s] EXCEPT !.at = "vehicles", !.todo = page])
  /\ UNCHANGED <<listed, rows, restarts>>

\* The third attempt times out, or the exchange answers with an error.
FetchFails(s) ==
  /\ sess[s].at \in {"fetch_loads", "fetch_vehicles"}
  /\ Finish(s)
  /\ UNCHANGED <<listed, rows, restarts>>

-----------------------------------------------------------------------------
(* Loads.                                                                  *)

\* Seeded bug: a row that is there is inserted again, and fails the batch every time.
InsertAlways(s, l) ==
  /\ sess[s].at = "loads"
  /\ l \in sess[s].todo
  /\ Update(s, [sess[s] EXCEPT !.todo = @ \ {l}, !.new = @ \cup {l}])
  /\ UNCHANGED <<listed, rows, restarts>>

\* A load with a row is left alone, up to its raw payload.
UpsertLoad(s, l) ==
  /\ sess[s].at = "loads"
  /\ l \in sess[s].todo
  /\ Update(s, [sess[s] EXCEPT !.todo = @ \ {l}, !.new = @ \cup ({l} \ loads)])
  /\ UNCHANGED <<listed, rows, restarts>>

\* Seeded bug: the batch is stored although another session has inserted one of its loads.
StoreAnyway(s) ==
  /\ sess[s].at = "loads"
  /\ sess[s].todo = {}
  /\ loads' = loads \cup sess[s].new
  /\ samples' = [l \in LoadIds |-> samples[l] + IF l \in sess[s].new \cap Priced THEN 1 ELSE 0]
  /\ IF s = Job THEN Goto(s, "fetch_vehicles") ELSE Finish(s)
  /\ UNCHANGED <<listed, vehicles, carriers, carrierOf, restarts>>

\* The new loads and a sample of each priced one.  If another session has inserted one of
\* them since it was looked up, the whole batch is rolled back.
CommitLoads(s) ==
  /\ sess[s].at = "loads"
  /\ sess[s].todo = {}
  /\ \/ /\ sess[s].new \cap loads = {}
        /\ loads' = loads \cup sess[s].new
        /\ samples' = [l \in LoadIds |->
             samples[l] + IF l \in sess[s].new \cap Priced THEN 1 ELSE 0]
        /\ IF s = Job THEN Goto(s, "fetch_vehicles") ELSE Finish(s)
     \/ /\ sess[s].new \cap loads # {}
        /\ Finish(s)
        /\ UNCHANGED <<loads, samples>>
  /\ UNCHANGED <<listed, vehicles, carriers, carrierOf, restarts>>

-----------------------------------------------------------------------------
(* Vehicles and their carriers.                                            *)

\* The lookup of the vehicle.  If it is new and its user has a numeric id, its carrier is
\* looked up next; without one it has no carrier.
FindVehicle(s, v) ==
  /\ sess[s].at = "vehicles"
  /\ v \in sess[s].todo
  /\ \/ /\ v \in vehicles
        /\ Update(s, [sess[s] EXCEPT !.todo = @ \ {v}])
     \/ /\ v \notin vehicles
        /\ v \notin Known
        /\ Update(s, [sess[s] EXCEPT !.todo = @ \ {v}, !.new = @ \cup {v}])
     \/ /\ v \notin vehicles
        /\ v \in Known
        /\ Update(s, [sess[s] EXCEPT !.at = "carrier", !.todo = @ \ {v}, !.current = {v}])
  /\ UNCHANGED <<listed, rows, restarts>>

\* Seeded bug: only the rows this session has flushed are found.
OwnOnly(s, u) == IF u \in sess[s].made THEN {0} ELSE {}

\* The carrier rows of user u that session s sees: the committed ones and its own (0).
Visible(s, u) == 1..carriers[u] \cup IF u \in sess[s].made THEN {0} ELSE {}

\* The new vehicle refers to a row that is there, whichever the database returns first.
FindCarrier(s, v) ==
  /\ sess[s].at = "carrier"
  /\ sess[s].current = {v}
  /\ \/ /\ Visible(s, UserOf[v]) = {}
        /\ Update(s, [sess[s] EXCEPT !.at = "flush"])
     \/ \E c \in Visible(s, UserOf[v]) :
          Update(s, [sess[s] EXCEPT !.at = "vehicles", !.current = {},
                                    !.new = @ \cup {v}, !.link[v] = c])
  /\ UNCHANGED <<listed, rows, restarts>>

\* Inserts sent but not committed by t that an insert by s waits for.
Flushing(s) == \/ sess[s].at = "flush"
               \/ sess[s].at = "vehicles" /\ sess[s].todo = {}
WaitsFor(s, t) == /\ s # t
                  /\ Flushing(s)
                  /\ sess[t] # Idle
                  /\ (sess[s].new \ sess[s].flushed) \cap sess[t].flushed # {}
Waits(s) == \E t \in Slots : WaitsFor(s, t)

\* Seeded bug: the row of the carrier is committed at once.
CommitCarrier(s, v) ==
  /\ sess[s].at = "flush"
  /\ sess[s].current = {v}
  /\ carriers' = [carriers EXCEPT ![UserOf[v]] = @ + 1]
  /\ Update(s, [sess[s] EXCEPT !.at = "vehicles", !.current = {},
                               !.new = @ \cup {v}, !.link[v] = carriers[UserOf[v]] + 1])
  /\ UNCHANGED <<listed, loads, samples, vehicles, carrierOf, restarts>>

\* The carrier is inserted, and with it the vehicles added so far, without a commit.
FlushCarrier(s, v) ==
  /\ sess[s].at = "flush"
  /\ sess[s].current = {v}
  /\ ~Waits(s)
  /\ \/ /\ (sess[s].new \ sess[s].flushed) \cap vehicles = {}
        /\ Update(s, [sess[s] EXCEPT !.at = "vehicles", !.current = {}, !.flushed = sess[s].new,
                                     !.made = @ \cup {UserOf[v]},
                                     !.new = @ \cup {v}, !.link[v] = 0])
     \/ /\ (sess[s].new \ sess[s].flushed) \cap vehicles # {}
        /\ Finish(s)
  /\ UNCHANGED <<listed, rows, restarts>>

\* Seeded bug: the vehicle refers to the exchange's number of the user.
ExchangeNumber(s, v) == UserOf[v]

\* The carrier row of a vehicle in the commit of s, numbered after the rows of its user.
CommittedLink(s, v) ==
  IF v \notin Known \/ sess[s].link[v] # 0 THEN sess[s].link[v] ELSE carriers[UserOf[v]] + 1

\* The new vehicles and the carriers made for them; or nothing of the batch, if another
\* session has inserted one of the vehicles since it was looked up.
CommitVehicles(s) ==
  /\ sess[s].at = "vehicles"
  /\ sess[s].todo = {}
  /\ ~Waits(s)
  /\ \/ /\ sess[s].new \cap vehicles = {}
        /\ vehicles' = vehicles \cup sess[s].new
        /\ carriers' = [u \in Users |-> carriers[u] + IF u \in sess[s].made THEN 1 ELSE 0]
        /\ carrierOf' = [v \in VehicleIds |->
             IF v \in sess[s].new THEN CommittedLink(s, v) ELSE carrierOf[v]]
     \/ /\ sess[s].new \cap vehicles # {}
        /\ UNCHANGED <<vehicles, carriers, carrierOf>>
  /\ Finish(s)
  /\ UNCHANGED <<listed, loads, samples, restarts>>

\* Two sessions that wait for each other's inserts: the database aborts one of them.
Deadlocked(s) ==
  /\ \E t \in Slots : WaitsFor(s, t) /\ WaitsFor(t, s)
  /\ Finish(s)
  /\ UNCHANGED <<listed, rows, restarts>>

\* The process or the database restarts: what was not committed is gone.
Restart ==
  /\ restarts < MaxRestarts
  /\ restarts' = restarts + 1
  /\ sess' = [s \in Slots |-> Idle]
  /\ UNCHANGED <<listed, rows>>

-----------------------------------------------------------------------------

Upsert(s) == \/ \E l \in LoadIds : UpsertLoad(s, l)
             \/ CommitLoads(s)
             \/ \E v \in VehicleIds : FindVehicle(s, v) \/ FindCarrier(s, v) \/ FlushCarrier(s, v)
             \/ CommitVehicles(s)

Next ==
  \/ \E p \in Proposals : ExchangeChanges(p)
  \/ StartJob
  \/ \E s \in Slots : \/ StartManual(s)
                      \/ FetchLoads(s) \/ FetchVehicles(s) \/ FetchFails(s)
                      \/ Upsert(s)
                      \/ Deadlocked(s)
  \/ Restart

\* The scheduler keeps starting the job; a session goes on until it ends, and one that waits
\* gets the row when it is released; the exchange fails now and then but not for ever; the
\* database breaks a deadlock.  Nothing is assumed of the users or of what is listed.
Fairness ==
  /\ WF_vars(StartJob)
  /\ SF_vars(FetchLoads(Job)) /\ SF_vars(FetchVehicles(Job))
  /\ \A s \in Slots : /\ WF_vars(Upsert(s))
                      /\ SF_vars(\E v \in VehicleIds : FlushCarrier(s, v))
                      /\ SF_vars(CommitVehicles(s))
  /\ WF_vars(\E s \in Slots : Deadlocked(s))

Spec == Init /\ [][Next]_vars
FairSpec == Spec /\ Fairness

-----------------------------------------------------------------------------
(* Properties.                                                             *)

\* A load from the exchange and its price sample are stored together and once, whatever the
\* number of sessions that fetch the proposal: the pricing agent weighs no price twice.
OneSamplePerPricedLoad ==
  \A l \in LoadIds : samples[l] = IF l \in loads /\ l \in Priced THEN 1 ELSE 0

\* Every stored vehicle of a known user refers to a carrier row of that user that is there,
\* and no carrier row is left behind by a batch that was rolled back: each has a vehicle.
CarriersBelongToVehicles ==
  /\ \A v \in vehicles \cap Known : carrierOf[v] \in 1..carriers[UserOf[v]]
  /\ \A u \in Users : \A c \in 1..carriers[u] :
       \E v \in vehicles : UserOf[v] = u /\ carrierOf[v] = c

\* The sessions that have made a carrier row for u, or found none and are about to.
Makers(u) == {s \in Slots : sess[s] # Idle /\ \/ u \in sess[s].made
                                              \/ /\ sess[s].at = "flush"
                                                 /\ \E v \in sess[s].current : UserOf[v] = u}

\* Get-or-create may make a second carrier row of a user, but only out of sessions that
\* overlap the first: rows and sessions about to add one are never more than the sessions
\* there are, however long the service runs.
CarrierRowsBounded == \A u \in Users : carriers[u] + Cardinality(Makers(u)) <= Cardinality(Slots)

Store ==
  INSTANCE ExchangeStore WITH LoadIds <- LoadIds, VehicleIds <- VehicleIds, Users <- Users,
                              UserOf <- UserOf, Priced <- Priced, loads <- loads,
                              samples <- samples, vehicles <- vehicles, carriers <- carriers,
                              carrierOf <- carrierOf

\* Sessions that overlap, fail and are rolled back store what single batches would: no commit
\* changes a row that is there, parts a load from its sample or a carrier from its vehicle.
StoresWholeBatches == Store!Spec

\* The strengthening that makes these inductive.  A vehicle about to be stored refers to a
\* committed row, or to one its session made; and a row is made for a vehicle about to be
\* stored, which no later proposal of the batch touches.
BatchWellFormed(s) ==
  /\ sess[s].at \in {"fetch_loads", "loads", "fetch_vehicles"} =>
       sess[s].made = {} /\ sess[s].current = {}
  /\ sess[s].at \in {"fetch_loads", "fetch_vehicles"} => sess[s].new = {}
  /\ sess[s].todo \cap sess[s].new = {}
  /\ sess[s].current \cap (sess[s].todo \cup sess[s].new) = {}

Promised(s, v) == \/ sess[s].link[v] \in 1..carriers[UserOf[v]]
                  \/ sess[s].link[v] = 0 /\ UserOf[v] \in sess[s].made

LinksWillHold(s) ==
  sess[s].at \in {"vehicles", "carrier", "flush"} =>
    /\ \A v \in sess[s].new \cap Known : Promised(s, v)
    /\ \A u \in sess[s].made : \E v \in sess[s].new : UserOf[v] = u /\ sess[s].link[v] = 0

IngestionInv ==
  /\ TypeOK
  /\ OneSamplePerPricedLoad
  /\ CarriersBelongToVehicles
  /\ CarrierRowsBounded
  /\ \A s \in Slots : sess[s] # Idle => BatchWellFormed(s) /\ LinksWillHold(s)

\* A proposal from Ukraine that stays on the exchange gets its row, despite failing fetches,
\* manual calls on the same proposals, rolled back batches and deadlocks - if the exchange
\* never lists more than one page of them.  Any other is stored only if a manual call asks.
ListedIsIngested ==
  \A p \in FromUA : <>[](p \in listed) => <>(p \in loads \cup vehicles)
=============================================================================
