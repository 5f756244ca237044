-------------------------- MODULE IngestionProofs --------------------------
(***************************************************************************)
(* Proofs about Ingestion, for any number of proposals, users and manual    *)
(* sessions, and any page size.                                             *)
(***************************************************************************)
EXTENDS Ingestion, FiniteSetTheorems, TLAPS

LoadSteps == {"fetch_loads", "loads"}
VehicleSteps == {"fetch_vehicles", "vehicles", "carrier", "flush"}

\* The step a session is at says what its batch is made of.
LEMMA SessionKind ==
  ASSUME TypeOK, NEW s \in Slots
  PROVE  /\ sess[s].at \in LoadSteps => sess[s] \in LoadBatch
         /\ sess[s].at \in VehicleSteps => sess[s] \in VehicleBatch
         /\ sess[s] # Idle => sess[s].at \in LoadSteps \cup VehicleSteps
         /\ sess[s].at \in LoadSteps \cup VehicleSteps => sess[s] # Idle
BY DEF TypeOK, Batch, BatchOf, LoadBatch, VehicleBatch, Idle, LoadSteps, VehicleSteps

\* A batch starts at its first step with nothing in its hands.
LEMMA FreshBatch ==
  /\ Fresh("fetch_loads") \in LoadBatch
  /\ Fresh("fetch_vehicles") \in VehicleBatch
BY DEF Fresh, LoadBatch, VehicleBatch, BatchOf

\* The steps of a session that leave the rows alone.
Quiet(s) ==
  \/ StartJob /\ s = Job
  \/ StartManual(s)
  \/ FetchLoads(s) \/ FetchVehicles(s) \/ FetchFails(s) \/ Deadlocked(s)
  \/ \E l \in LoadIds : UpsertLoad(s, l)
  \/ \E v \in VehicleIds : FindVehicle(s, v) \/ FindCarrier(s, v) \/ FlushCarrier(s, v)

\* They take the session to a well-typed batch, or end it.
LEMMA QuietType ==
  ASSUME TypeOK, NEW s \in Slots, Quiet(s)
  PROVE  \E b \in {Idle} \cup Batch : Update(s, b)
<1>1. CASE StartJob /\ s = Job
  BY <1>1, FreshBatch DEF StartJob, Goto, Batch
<1>2. CASE StartManual(s)
  BY <1>2, FreshBatch DEF StartManual, Goto, Batch
<1>3. CASE FetchFails(s) \/ Deadlocked(s)
  BY <1>3 DEF FetchFails, Deadlocked, Finish
<1>4. CASE FetchLoads(s)
  <2>1. PICK page \in SUBSET LoadIds : Update(s, [sess[s] EXCEPT !.at = "loads", !.todo = page])
    BY <1>4 DEF FetchLoads, Searches, Answers
  <2>2. sess[s] \in LoadBatch
    BY <1>4, SessionKind DEF FetchLoads, LoadSteps
  <2>3. [sess[s] EXCEPT !.at = "loads", !.todo = page] \in LoadBatch
    BY <2>2 DEF LoadBatch, BatchOf
  <2>4. QED
    BY <2>1, <2>3 DEF Batch
<1>5. CASE FetchVehicles(s)
  <2>1. PICK page \in SUBSET VehicleIds :
          Update(s, [sess[s] EXCEPT !.at = "vehicles", !.todo = page])
    BY <1>5 DEF FetchVehicles, Searches, Answers
  <2>2. sess[s] \in VehicleBatch
    BY <1>5, SessionKind DEF FetchVehicles, VehicleSteps
  <2>3. [sess[s] EXCEPT !.at = "vehicles", !.todo = page] \in VehicleBatch
    BY <2>2 DEF VehicleBatch, BatchOf
  <2>4. QED
    BY <2>1, <2>3 DEF Batch
<1>6. ASSUME NEW l \in LoadIds, UpsertLoad(s, l)
      PROVE  \E b \in {Idle} \cup Batch : Update(s, b)
  <2>1. sess[s] \in LoadBatch
    BY <1>6, SessionKind DEF UpsertLoad, LoadSteps
  <2>2. [sess[s] EXCEPT !.todo = @ \ {l}, !.new = @ \cup ({l} \ loads)] \in LoadBatch
    BY <2>1 DEF LoadBatch, BatchOf
  <2>3. QED
    BY <1>6, <2>2 DEF UpsertLoad, Batch
<1>7. ASSUME NEW v \in VehicleIds, FindVehicle(s, v)
      PROVE  \E b \in {Idle} \cup Batch : Update(s, b)
  <2>1. sess[s] \in VehicleBatch
    BY <1>7, SessionKind DEF FindVehicle, VehicleSteps
  <2>2. /\ [sess[s] EXCEPT !.todo = @ \ {v}] \in VehicleBatch
        /\ [sess[s] EXCEPT !.todo = @ \ {v}, !.new = @ \cup {v}] \in VehicleBatch
    BY <2>1 DEF VehicleBatch, BatchOf
  <2>3. v \in Known =>
          [sess[s] EXCEPT !.at = "carrier", !.todo = @ \ {v}, !.current = {v}] \in VehicleBatch
    BY <2>1 DEF VehicleBatch, BatchOf
  <2>4. QED
    BY <1>7, <2>2, <2>3 DEF FindVehicle, Batch
<1>8. ASSUME NEW v \in VehicleIds, FindCarrier(s, v)
      PROVE  \E b \in {Idle} \cup Batch : Update(s, b)
  <2>1. sess[s] \in VehicleBatch
    BY <1>8, SessionKind DEF FindCarrier, VehicleSteps
  <2>2. [sess[s] EXCEPT !.at = "flush"] \in VehicleBatch
    BY <2>1 DEF VehicleBatch, BatchOf
  <2>3. ASSUME NEW c \in Visible(s, UserOf[v])
        PROVE  [sess[s] EXCEPT !.at = "vehicles", !.current = {},
                               !.new = @ \cup {v}, !.link[v] = c] \in VehicleBatch
    <3>1. c \in Nat
      BY DEF Visible
    <3>2. QED
      BY <2>1, <3>1 DEF VehicleBatch, BatchOf
  <2>4. QED
    BY <1>8, <2>2, <2>3 DEF FindCarrier, Batch
<1>9. ASSUME NEW v \in VehicleIds, FlushCarrier(s, v)
      PROVE  \E b \in {Idle} \cup Batch : Update(s, b)
  <2>1. sess[s] \in VehicleBatch
    BY <1>9, SessionKind DEF FlushCarrier, VehicleSteps
  <2>2. UserOf[v] \in Users
    BY <1>9, <2>1 DEF FlushCarrier, VehicleBatch, BatchOf, Known
  <2>3. [sess[s] EXCEPT !.at = "vehicles", !.current = {}, !.flushed = sess[s].new,
                        !.made = @ \cup {UserOf[v]},
                        !.new = @ \cup {v}, !.link[v] = 0] \in VehicleBatch
    BY <2>1, <2>2 DEF VehicleBatch, BatchOf
  <2>4. QED
    BY <1>9, <2>3 DEF FlushCarrier, Finish, Batch
<1>10. QED
  BY <1>1, <1>2, <1>3, <1>4, <1>5, <1>6, <1>7, <1>8, <1>9 DEF Quiet

\* Every step keeps the types.
LEMMA NextType == TypeOK /\ [Next]_vars => TypeOK'
<1> SUFFICES ASSUME TypeOK, [Next]_vars PROVE TypeOK'
  OBVIOUS
<1>1. ASSUME NEW p \in Proposals, ExchangeChanges(p) PROVE TypeOK'
  BY <1>1 DEF ExchangeChanges, TypeOK, rows
<1>2. ASSUME NEW s \in Slots, Quiet(s) PROVE TypeOK'
  <2>1. UNCHANGED <<listed, loads, samples, vehicles, carriers, carrierOf, restarts>>
    BY <1>2 DEF Quiet, StartJob, StartManual, FetchLoads, FetchVehicles, FetchFails, Deadlocked,
                UpsertLoad, FindVehicle, FindCarrier, FlushCarrier, rows
  <2>2. QED
    BY <1>2, <2>1, QuietType DEF TypeOK, Update
<1>3. ASSUME NEW s \in Slots, CommitLoads(s) PROVE TypeOK'
  <2>1. sess[s] \in LoadBatch
    BY <1>3, SessionKind DEF CommitLoads, LoadSteps
  <2>2. sess' \in [Slots -> {Idle} \cup Batch]
    BY <1>3, FreshBatch DEF CommitLoads, Goto, Finish, Update, Batch, TypeOK
  <2>3. samples' \in [LoadIds -> Nat]
    BY <1>3 DEF CommitLoads, TypeOK
  <2>4. loads' \subseteq LoadIds
    BY <1>3, <2>1 DEF CommitLoads, TypeOK, LoadBatch, BatchOf
  <2>5. QED
    BY <1>3, <2>2, <2>3, <2>4 DEF CommitLoads, TypeOK
<1>4. ASSUME NEW s \in Slots, CommitVehicles(s) PROVE TypeOK'
  <2>1. sess[s] \in VehicleBatch
    BY <1>4, SessionKind DEF CommitVehicles, VehicleSteps
  <2>2. sess' \in [Slots -> {Idle} \cup Batch]
    BY <1>4 DEF CommitVehicles, Finish, Update, TypeOK
  <2>3. carriers' \in [Users -> Nat]
    BY <1>4 DEF CommitVehicles, TypeOK
  <2>4. vehicles' \subseteq VehicleIds
    BY <1>4, <2>1 DEF CommitVehicles, TypeOK, VehicleBatch, BatchOf
  <2>5. \A v \in VehicleIds : CommittedLink(s, v) \in Nat
    BY <2>1 DEF CommittedLink, TypeOK, VehicleBatch, BatchOf, Known
  <2>6. carrierOf' \in [VehicleIds -> Nat]
    BY <1>4, <2>5 DEF CommitVehicles, TypeOK
  <2>7. QED
    BY <1>4, <2>2, <2>3, <2>4, <2>6 DEF CommitVehicles, TypeOK
<1>5. CASE Restart
  BY <1>5, IngestionAssumption DEF Restart, TypeOK, rows
<1>6. CASE UNCHANGED vars
  BY <1>6 DEF vars, TypeOK
<1>7. Job \in Slots /\ Manual \subseteq Slots
  BY DEF Slots
<1>8. QED
  BY <1>1, <1>2, <1>3, <1>4, <1>5, <1>6, <1>7 DEF Next, Upsert, Quiet

\* The rows and sessions of the ingestion keep their shape.
THEOREM TypeCorrect == Spec => []TypeOK
<1>1. Init => TypeOK
  BY IngestionAssumption DEF Init, TypeOK
<1>2. QED
  BY <1>1, NextType, PTL DEF Spec

-----------------------------------------------------------------------------
(* The inductive invariant.                                                *)

SessionOK(s) == sess[s] # Idle => BatchWellFormed(s) /\ LinksWillHold(s)

\* Carrier rows only come in: what another session promises stays true.
LEMMA OthersStand ==
  ASSUME TypeOK, TypeOK', NEW t \in Slots, SessionOK(t), sess'[t] = sess[t],
         \A u \in Users : carriers[u] <= carriers'[u]
  PROVE  SessionOK(t)'
<1> SUFFICES ASSUME sess[t] # Idle PROVE BatchWellFormed(t)' /\ LinksWillHold(t)'
  BY DEF SessionOK
<1>1. BatchWellFormed(t)'
  BY DEF SessionOK, BatchWellFormed
<1>2. ASSUME NEW v \in sess[t].new \cap Known, Promised(t, v) PROVE Promised(t, v)'
  <2>1. UserOf[v] \in Users
    BY <1>2 DEF Known
  <2>2. carriers[UserOf[v]] \in Nat /\ carriers'[UserOf[v]] \in Nat
    BY <2>1 DEF TypeOK
  <2>3. QED
    BY <1>2, <2>1, <2>2 DEF Promised
<1>3. LinksWillHold(t)'
  BY <1>2 DEF SessionOK, LinksWillHold
<1>4. QED
  BY <1>1, <1>3

\* A quiet step of s keeps its batch in order, and makes s a maker of a carrier row of u only
\* if there is none.
QuietKeeps(s) ==
  /\ SessionOK(s)'
  /\ \A u \in Users : s \in Makers(u)' => s \in Makers(u) \/ carriers[u] = 0

\* The start of a batch and the answer of the exchange are such steps.
LEMMA FetchKeeps ==
  ASSUME TypeOK, NEW s \in Slots, SessionOK(s),
         \/ StartJob /\ s = Job
         \/ StartManual(s) \/ FetchLoads(s) \/ FetchVehicles(s) \/ FetchFails(s) \/ Deadlocked(s)
  PROVE  QuietKeeps(s)
<1>1. CASE (StartJob /\ s = Job) \/ StartManual(s)
  <2>1. \E at \in {"fetch_loads", "fetch_vehicles"} : sess'[s] = Fresh(at)
    BY <1>1 DEF StartJob, StartManual, Goto, Update, TypeOK
  <2>2. QED
    BY <2>1 DEF QuietKeeps, SessionOK, BatchWellFormed, LinksWillHold, Makers, Fresh
<1>2. CASE FetchFails(s) \/ Deadlocked(s)
  <2>1. sess'[s] = Idle
    BY <1>2 DEF FetchFails, Deadlocked, Finish, Update, TypeOK
  <2>2. QED
    BY <2>1 DEF QuietKeeps, SessionOK, Makers
<1>3. CASE FetchLoads(s)
  <2>1. sess[s] \in LoadBatch /\ sess[s] # Idle
    BY <1>3, SessionKind DEF FetchLoads, LoadSteps
  <2>2. PICK page : sess'[s] = [sess[s] EXCEPT !.at = "loads", !.todo = page]
    BY <1>3 DEF FetchLoads, Update, TypeOK
  <2>3. sess[s].at = "fetch_loads"
    BY <1>3 DEF FetchLoads
  <2>4. QED
    BY <2>1, <2>2, <2>3 DEF QuietKeeps, SessionOK, BatchWellFormed, LinksWillHold, Makers,
                            LoadBatch, BatchOf
<1>4. CASE FetchVehicles(s)
  <2>1. sess[s] \in VehicleBatch /\ sess[s] # Idle
    BY <1>4, SessionKind DEF FetchVehicles, VehicleSteps
  <2>2. PICK page : sess'[s] = [sess[s] EXCEPT !.at = "vehicles", !.todo = page]
    BY <1>4 DEF FetchVehicles, Update, TypeOK
  <2>3. sess[s].at = "fetch_vehicles"
    BY <1>4 DEF FetchVehicles
  <2>4. QED
    BY <2>1, <2>2, <2>3 DEF QuietKeeps, SessionOK, BatchWellFormed, LinksWillHold, Makers,
                            VehicleBatch, BatchOf
<1>5. QED
  BY <1>1, <1>2, <1>3, <1>4

\* And so are the lookups, and the flush of a carrier row.
LEMMA LookupKeeps ==
  ASSUME TypeOK, NEW s \in Slots, SessionOK(s),
         \/ \E l \in LoadIds : UpsertLoad(s, l)
         \/ \E v \in VehicleIds : FindVehicle(s, v) \/ FindCarrier(s, v) \/ FlushCarrier(s, v)
  PROVE  QuietKeeps(s)
<1>1. ASSUME NEW l \in LoadIds, UpsertLoad(s, l) PROVE QuietKeeps(s)
  <2>1. sess[s] \in LoadBatch /\ sess[s] # Idle /\ sess[s].at = "loads"
    BY <1>1, SessionKind DEF UpsertLoad, LoadSteps
  <2>2. sess'[s] = [sess[s] EXCEPT !.todo = @ \ {l}, !.new = @ \cup ({l} \ loads)]
    BY <1>1 DEF UpsertLoad, Update, TypeOK
  <2>3. BatchWellFormed(s)
    BY <2>1 DEF SessionOK
  <2>4. BatchWellFormed(s)'
    BY <2>1, <2>2, <2>3 DEF BatchWellFormed, LoadBatch, BatchOf
  <2>5. LinksWillHold(s)'
    BY <2>1, <2>2 DEF LinksWillHold, LoadBatch, BatchOf
  <2>6. \A u \in Users : s \notin Makers(u)'
    BY <2>1, <2>2, <2>3 DEF Makers, LoadBatch, BatchOf, BatchWellFormed
  <2>7. QED
    BY <2>4, <2>5, <2>6 DEF QuietKeeps, SessionOK
<1>2. ASSUME NEW v \in VehicleIds, FindVehicle(s, v) PROVE QuietKeeps(s)
  <2>1. sess[s] \in VehicleBatch /\ sess[s] # Idle /\ sess[s].at = "vehicles" /\ v \in sess[s].todo
    BY <1>2, SessionKind DEF FindVehicle, VehicleSteps
  <2>2. BatchWellFormed(s) /\ LinksWillHold(s)
    BY <2>1 DEF SessionOK
  <2>3. carriers' = carriers
    BY <1>2 DEF FindVehicle, rows
  <2>4. /\ sess'[s] \in VehicleBatch
        /\ sess'[s].at \in {"vehicles", "carrier"}
        /\ sess'[s].made = sess[s].made
        /\ sess'[s].link = sess[s].link
        /\ sess[s].new \subseteq sess'[s].new
        /\ sess'[s].new \cap Known = sess[s].new \cap Known
        /\ sess'[s].todo \cap sess'[s].new = {}
        /\ sess'[s].current \cap (sess'[s].todo \cup sess'[s].new) = {}
    <3>0. sess[s] \in VehicleBatch
      BY <2>1
    <3>1. CASE sess'[s] = [sess[s] EXCEPT !.todo = @ \ {v}]
      <4>1. /\ sess'[s] \in VehicleBatch
            /\ sess'[s].at = sess[s].at /\ sess'[s].todo = sess[s].todo \ {v}
            /\ sess'[s].new = sess[s].new /\ sess'[s].current = sess[s].current
            /\ sess'[s].made = sess[s].made /\ sess'[s].link = sess[s].link
        BY <3>0, <3>1 DEF VehicleBatch, BatchOf
      <4>2. QED
        BY <2>1, <2>2, <4>1 DEF BatchWellFormed
    <3>2. CASE v \notin Known /\ sess'[s] = [sess[s] EXCEPT !.todo = @ \ {v}, !.new = @ \cup {v}]
      <4> DEFINE b == [sess[s] EXCEPT !.todo = @ \ {v}, !.new = @ \cup {v}]
      <4>1. b \in VehicleBatch
        BY <3>0 DEF VehicleBatch, BatchOf
      <4>2. /\ b.at = sess[s].at /\ b.todo = sess[s].todo \ {v}
            /\ b.new = sess[s].new \cup {v} /\ b.current = sess[s].current
            /\ b.made = sess[s].made /\ b.link = sess[s].link
        BY <3>0 DEF VehicleBatch, BatchOf
      <4> HIDE DEF b
      <4>3. sess'[s] = b
        BY <3>2 DEF b
      <4>4. QED
        BY <2>1, <2>2, <3>2, <4>1, <4>2, <4>3 DEF BatchWellFormed
    <3>3. CASE /\ v \in Known
               /\ sess'[s] = [sess[s] EXCEPT !.at = "carrier", !.todo = @ \ {v}, !.current = {v}]
      <4> DEFINE b == [sess[s] EXCEPT !.at = "carrier", !.todo = @ \ {v}, !.current = {v}]
      <4>1. b \in VehicleBatch
        BY <3>0, <3>3 DEF VehicleBatch, BatchOf
      <4>2. /\ b.at = "carrier" /\ b.todo = sess[s].todo \ {v}
            /\ b.new = sess[s].new /\ b.current = {v}
            /\ b.made = sess[s].made /\ b.link = sess[s].link
        BY <3>0 DEF VehicleBatch, BatchOf
      <4> HIDE DEF b
      <4>3. sess'[s] = b
        BY <3>3 DEF b
      <4>4. QED
        BY <2>1, <2>2, <4>1, <4>2, <4>3 DEF BatchWellFormed
    <3>4. QED
      BY <1>2, <3>1, <3>2, <3>3 DEF FindVehicle, Update, TypeOK
  <2>5. BatchWellFormed(s)'
    BY <2>4 DEF BatchWellFormed
  <2>6. LinksWillHold(s)'
    BY <2>1, <2>2, <2>3, <2>4 DEF LinksWillHold, Promised
  <2>7. \A u \in Users : s \in Makers(u)' => s \in Makers(u)
    BY <2>1, <2>4 DEF Makers
  <2>8. QED
    BY <2>5, <2>6, <2>7 DEF QuietKeeps, SessionOK
<1>3. ASSUME NEW v \in VehicleIds, FindCarrier(s, v) PROVE QuietKeeps(s)
  <2>1. /\ sess[s] \in VehicleBatch /\ sess[s] # Idle
        /\ sess[s].at = "carrier" /\ sess[s].current = {v}
    BY <1>3, SessionKind DEF FindCarrier, VehicleSteps
  <2>2. BatchWellFormed(s) /\ LinksWillHold(s)
    BY <2>1 DEF SessionOK
  <2>3. carriers' = carriers
    BY <1>3 DEF FindCarrier, rows
  <2>4. v \in Known /\ UserOf[v] \in Users /\ carriers[UserOf[v]] \in Nat
    BY <2>1 DEF VehicleBatch, BatchOf, Known, TypeOK
  <2>5. CASE Visible(s, UserOf[v]) = {} /\ sess'[s] = [sess[s] EXCEPT !.at = "flush"]
    <3>1. carriers[UserOf[v]] = 0
      BY <2>4, <2>5 DEF Visible
    <3>2. SessionOK(s)'
      BY <2>1, <2>2, <2>3, <2>5 DEF SessionOK, BatchWellFormed, LinksWillHold, Promised,
                                    VehicleBatch, BatchOf
    <3>3. \A u \in Users : s \in Makers(u)' => u \in sess[s].made \/ u = UserOf[v]
      BY <2>1, <2>5 DEF Makers, VehicleBatch, BatchOf
    <3>4. \A u \in sess[s].made : s \in Makers(u)
      BY <2>1 DEF Makers
    <3>5. QED
      BY <3>1, <3>2, <3>3, <3>4 DEF QuietKeeps
  <2>6. ASSUME NEW c \in Visible(s, UserOf[v]),
               sess'[s] = [sess[s] EXCEPT !.at = "vehicles", !.current = {},
                                          !.new = @ \cup {v}, !.link[v] = c]
        PROVE  QuietKeeps(s)
    <3>1. c \in 1..carriers[UserOf[v]] \/ (c = 0 /\ UserOf[v] \in sess[s].made)
      BY DEF Visible
    <3>2. v \notin sess[s].new
      BY <2>1, <2>2 DEF BatchWellFormed
    <3>3. /\ sess'[s].at = "vehicles" /\ sess'[s].current = {}
          /\ sess'[s].todo = sess[s].todo /\ sess'[s].new = sess[s].new \cup {v}
          /\ sess'[s].made = sess[s].made /\ sess'[s].link[v] = c
          /\ \A w \in sess[s].new : sess'[s].link[w] = sess[s].link[w]
      BY <2>1, <2>6, <3>2 DEF VehicleBatch, BatchOf
    <3>4. BatchWellFormed(s)'
      BY <2>1, <2>2, <3>3 DEF BatchWellFormed
    <3>5. LinksWillHold(s)'
      BY <2>1, <2>2, <2>3, <3>1, <3>3 DEF LinksWillHold, Promised
    <3>6. \A u \in Users : s \in Makers(u)' => s \in Makers(u)
      BY <2>1, <3>3 DEF Makers
    <3>7. QED
      BY <3>4, <3>5, <3>6 DEF QuietKeeps, SessionOK
  <2>7. QED
    BY <1>3, <2>5, <2>6 DEF FindCarrier, Update, TypeOK
<1>4. ASSUME NEW v \in VehicleIds, FlushCarrier(s, v) PROVE QuietKeeps(s)
  <2>1. /\ sess[s] \in VehicleBatch /\ sess[s] # Idle
        /\ sess[s].at = "flush" /\ sess[s].current = {v}
    BY <1>4, SessionKind DEF FlushCarrier, VehicleSteps
  <2>2. BatchWellFormed(s) /\ LinksWillHold(s)
    BY <2>1 DEF SessionOK
  <2>3. carriers' = carriers
    BY <1>4 DEF FlushCarrier, rows
  <2>4. CASE sess'[s] = Idle
    BY <2>4 DEF QuietKeeps, SessionOK, Makers
  <2>5. CASE sess'[s] = [sess[s] EXCEPT !.at = "vehicles", !.current = {}, !.flushed = sess[s].new,
                                        !.made = @ \cup {UserOf[v]},
                                        !.new = @ \cup {v}, !.link[v] = 0]
    <3>1. v \notin sess[s].new /\ v \notin sess[s].todo
      BY <2>1, <2>2 DEF BatchWellFormed
    <3>2. /\ sess'[s].at = "vehicles" /\ sess'[s].current = {}
          /\ sess'[s].todo = sess[s].todo /\ sess'[s].new = sess[s].new \cup {v}
          /\ sess'[s].made = sess[s].made \cup {UserOf[v]} /\ sess'[s].link[v] = 0
          /\ \A w \in sess[s].new : sess'[s].link[w] = sess[s].link[w]
      BY <2>1, <2>5, <3>1 DEF VehicleBatch, BatchOf
    <3>3. BatchWellFormed(s)'
      BY <2>1, <2>2, <3>1, <3>2 DEF BatchWellFormed
    <3>4. LinksWillHold(s)'
      BY <2>1, <2>2, <2>3, <3>2 DEF LinksWillHold, Promised
    <3>5. \A u \in Users : s \in Makers(u)' => s \in Makers(u)
      BY <2>1, <3>2 DEF Makers
    <3>6. QED
      BY <3>3, <3>4, <3>5 DEF QuietKeeps, SessionOK
  <2>6. QED
    BY <1>4, <2>4, <2>5 DEF FlushCarrier, Finish, Update, TypeOK
<1>5. QED
  BY <1>1, <1>2, <1>3, <1>4

\* The sessions are finitely many, and so are those that make a row.
LEMMA MakersFinite ==
  ASSUME NEW u \in Users
  PROVE  /\ IsFiniteSet(Slots)
         /\ Makers(u) \subseteq Slots
         /\ IsFiniteSet(Makers(u))
         /\ Cardinality(Makers(u)) \in Nat
         /\ Cardinality(Makers(u)) <= Cardinality(Slots)
<1>1. IsFiniteSet(Slots)
  BY IngestionAssumption, FS_Singleton, FS_Union DEF Slots
<1>2. Makers(u) \subseteq Slots
  BY DEF Makers
<1>3. QED
  BY <1>1, <1>2, FS_Subset, FS_CardinalityType

\* Only sessions that overlap the first make a second row: a quiet step keeps the bound.
LEMMA QuietBound ==
  ASSUME TypeOK, CarrierRowsBounded, NEW s \in Slots, QuietKeeps(s), carriers' = carriers,
         \A t \in Slots \ {s} : sess'[t] = sess[t]
  PROVE  CarrierRowsBounded'
<1> SUFFICES ASSUME NEW u \in Users
             PROVE  carriers[u] + Cardinality(Makers(u)') <= Cardinality(Slots)
  BY DEF CarrierRowsBounded
<1>1. Makers(u)' \subseteq Slots
  BY DEF Makers
<1>2. \A t \in Slots \ {s} : t \in Makers(u)' <=> t \in Makers(u)
  BY DEF Makers
<1>3. carriers[u] \in Nat /\ carriers[u] + Cardinality(Makers(u)) <= Cardinality(Slots)
  BY DEF TypeOK, CarrierRowsBounded
<1>4. CASE carriers[u] = 0
  <2>1. Cardinality(Makers(u)') <= Cardinality(Slots) /\ Cardinality(Makers(u)') \in Nat
    BY <1>1, MakersFinite, FS_Subset, FS_CardinalityType
  <2>2. QED
    BY <2>1, <1>4
<1>5. CASE carriers[u] # 0
  <2>1. Makers(u)' \subseteq Makers(u)
    BY <1>1, <1>2, <1>5 DEF QuietKeeps
  <2>2. /\ Cardinality(Makers(u)') <= Cardinality(Makers(u)) /\ Cardinality(Makers(u)') \in Nat
        /\ Cardinality(Makers(u)) \in Nat /\ Cardinality(Slots) \in Nat
    BY <2>1, MakersFinite, FS_Subset, FS_CardinalityType
  <2>3. QED
    BY <2>2, <1>3
<1>6. QED
  BY <1>4, <1>5

\* So does the end of a batch: the rows it leaves are those it was counted for.
LEMMA CommitBound ==
  ASSUME TypeOK, CarrierRowsBounded, NEW s \in Slots, sess[s] # Idle,
         \A u \in Users : s \notin Makers(u)',
         \A t \in Slots \ {s} : sess'[t] = sess[t],
         \A u \in Users : carriers'[u] = carriers[u] + IF u \in sess[s].made THEN 1 ELSE 0
  PROVE  CarrierRowsBounded'
<1> SUFFICES ASSUME NEW u \in Users
             PROVE  carriers'[u] + Cardinality(Makers(u)') <= Cardinality(Slots)
  BY DEF CarrierRowsBounded
<1>1. Makers(u)' = Makers(u) \ {s}
  BY DEF Makers
<1>2. carriers[u] \in Nat /\ carriers[u] + Cardinality(Makers(u)) <= Cardinality(Slots)
  BY DEF TypeOK, CarrierRowsBounded
<1>3. /\ Cardinality(Makers(u)) \in Nat /\ Cardinality(Slots) \in Nat /\ IsFiniteSet(Makers(u))
  BY MakersFinite, FS_CardinalityType
<1>4. CASE u \in sess[s].made
  <2>1. s \in Makers(u)
    BY <1>4 DEF Makers
  <2>2. Cardinality(Makers(u)') = Cardinality(Makers(u)) - 1
    BY <1>1, <1>3, <2>1, FS_RemoveElement
  <2>3. QED
    BY <1>2, <1>3, <1>4, <2>2
<1>5. CASE u \notin sess[s].made
  <2>1. Makers(u)' \subseteq Makers(u)
    BY <1>1
  <2>2. Cardinality(Makers(u)') <= Cardinality(Makers(u)) /\ Cardinality(Makers(u)') \in Nat
    BY <1>3, <2>1, FS_Subset, FS_CardinalityType
  <2>3. QED
    BY <1>2, <1>3, <1>5, <2>2
<1>6. QED
  BY <1>4, <1>5

\* The commit of new loads keeps the invariant.
LEMMA CommitLoadsInv ==
  ASSUME IngestionInv, TypeOK', NEW s \in Slots, CommitLoads(s)
  PROVE  IngestionInv'
<1>1. /\ sess[s] \in LoadBatch /\ sess[s] # Idle /\ sess[s].at = "loads" /\ SessionOK(s)
      /\ sess[s].made = {}
  BY SessionKind DEF CommitLoads, LoadSteps, IngestionInv, SessionOK, BatchWellFormed
<1>2. UNCHANGED <<vehicles, carriers, carrierOf>>
  BY DEF CommitLoads
<1>3. OneSamplePerPricedLoad'
  <2>1. CASE /\ sess[s].new \cap loads = {}
             /\ loads' = loads \cup sess[s].new
             /\ samples' = [l \in LoadIds |->
                  samples[l] + IF l \in sess[s].new \cap Priced THEN 1 ELSE 0]
    <3>1. ASSUME NEW l \in LoadIds
          PROVE  samples'[l] = IF l \in loads' /\ l \in Priced THEN 1 ELSE 0
      <4>1. samples[l] = IF l \in loads /\ l \in Priced THEN 1 ELSE 0
        BY DEF IngestionInv, OneSamplePerPricedLoad
      <4>2. samples'[l] = samples[l] + IF l \in sess[s].new \cap Priced THEN 1 ELSE 0
        BY <2>1
      <4>3. l \in sess[s].new => l \notin loads
        BY <2>1
      <4>4. QED
        BY <2>1, <4>1, <4>2, <4>3
    <3>2. QED
      BY <3>1 DEF OneSamplePerPricedLoad
  <2>2. CASE UNCHANGED <<loads, samples>>
    BY <2>2 DEF IngestionInv, OneSamplePerPricedLoad
  <2>3. QED
    BY <2>1, <2>2 DEF CommitLoads
<1>4. CarriersBelongToVehicles'
  BY <1>2 DEF IngestionInv, CarriersBelongToVehicles
<1>5. sess'[s] = Idle \/ sess'[s] = Fresh("fetch_vehicles")
  BY DEF CommitLoads, Goto, Finish, Update, IngestionInv, TypeOK
<1>6. \A t \in Slots \ {s} : sess'[t] = sess[t]
  BY DEF CommitLoads, Goto, Finish, Update, IngestionInv, TypeOK
<1>7. \A u \in Users : s \notin Makers(u)'
  BY <1>5 DEF Makers, Fresh
<1>8. CarrierRowsBounded'
  <2>1. \A u \in Users : carriers'[u] = carriers[u] + IF u \in sess[s].made THEN 1 ELSE 0
    BY <1>1, <1>2 DEF IngestionInv, TypeOK
  <2>2. QED
    BY <1>1, <1>6, <1>7, <2>1, CommitBound DEF IngestionInv
<1>9. SessionOK(s)'
  BY <1>5 DEF SessionOK, BatchWellFormed, LinksWillHold, Fresh
<1>10. \A t \in Slots \ {s} : SessionOK(t)'
  <2>1. \A u \in Users : carriers[u] <= carriers'[u]
    BY <1>2 DEF IngestionInv, TypeOK
  <2>2. QED
    BY <1>6, <2>1, OthersStand DEF IngestionInv, SessionOK
<1>11. QED
  BY <1>3, <1>4, <1>8, <1>9, <1>10 DEF IngestionInv, SessionOK

\* The commit of new vehicles and carriers keeps the invariant.
LEMMA CommitVehiclesInv ==
  ASSUME IngestionInv, TypeOK', NEW s \in Slots, CommitVehicles(s)
  PROVE  IngestionInv'
<1>1. /\ sess[s] \in VehicleBatch /\ sess[s] # Idle /\ sess[s].at = "vehicles"
      /\ BatchWellFormed(s) /\ LinksWillHold(s)
  BY SessionKind DEF CommitVehicles, VehicleSteps, IngestionInv
<1>2. OneSamplePerPricedLoad'
  BY DEF CommitVehicles, IngestionInv, OneSamplePerPricedLoad
<1>3. sess'[s] = Idle /\ \A t \in Slots \ {s} : sess'[t] = sess[t]
  BY DEF CommitVehicles, Finish, Update, IngestionInv, TypeOK
<1>4. SessionOK(s)' /\ \A u \in Users : s \notin Makers(u)'
  BY <1>3 DEF SessionOK, Makers
<1>5. CASE UNCHANGED <<vehicles, carriers, carrierOf>>
  <2>1. CarriersBelongToVehicles'
    BY <1>5 DEF IngestionInv, CarriersBelongToVehicles
  <2>2. QuietKeeps(s)
    BY <1>4 DEF QuietKeeps
  <2>3. CarrierRowsBounded'
    BY <1>3, <1>5, <2>2, QuietBound DEF IngestionInv
  <2>4. \A u \in Users : carriers[u] <= carriers'[u]
    BY <1>5 DEF IngestionInv, TypeOK
  <2>5. \A t \in Slots \ {s} : SessionOK(t)'
    BY <1>3, <2>4, OthersStand DEF IngestionInv, SessionOK
  <2>6. QED
    BY <1>2, <1>4, <2>1, <2>3, <2>5 DEF IngestionInv, SessionOK
<1>6. CASE /\ sess[s].new \cap vehicles = {}
           /\ vehicles' = vehicles \cup sess[s].new
           /\ carriers' = [u \in Users |-> carriers[u] + IF u \in sess[s].made THEN 1 ELSE 0]
           /\ carrierOf' = [v \in VehicleIds |->
                IF v \in sess[s].new THEN CommittedLink(s, v) ELSE carrierOf[v]]
  <2>1. \A u \in Users : carriers'[u] = carriers[u] + IF u \in sess[s].made THEN 1 ELSE 0
    BY <1>6
  <2>2. \A u \in Users : carriers[u] \in Nat /\ carriers'[u] \in Nat /\ carriers[u] <= carriers'[u]
    BY <2>1 DEF IngestionInv, TypeOK
  <2>3. CarrierRowsBounded'
    BY <1>1, <1>3, <1>4, <2>1, CommitBound DEF IngestionInv
  <2>4. \A t \in Slots \ {s} : SessionOK(t)'
    BY <1>3, <2>2, OthersStand DEF IngestionInv, SessionOK
  <2>5. \A v \in vehicles : v \in VehicleIds /\ carrierOf'[v] = carrierOf[v]
    BY <1>6 DEF IngestionInv, TypeOK
  <2>6. \A v \in sess[s].new : v \in VehicleIds /\ carrierOf'[v] = CommittedLink(s, v)
    BY <1>1, <1>6 DEF VehicleBatch, BatchOf
  <2>7. ASSUME NEW v \in vehicles' \cap Known PROVE carrierOf'[v] \in 1..carriers'[UserOf[v]]
    <3>1. UserOf[v] \in Users
      BY DEF Known
    <3>2. CASE v \in vehicles
      <4>1. carrierOf[v] \in 1..carriers[UserOf[v]]
        BY <3>2 DEF IngestionInv, CarriersBelongToVehicles
      <4>2. QED
        BY <2>2, <2>5, <3>1, <3>2, <4>1
    <3>3. CASE v \in sess[s].new
      <4>1. Promised(s, v)
        BY <1>1, <3>3 DEF LinksWillHold
      <4>2. CASE sess[s].link[v] \in 1..carriers[UserOf[v]]
        <5>1. carrierOf'[v] = sess[s].link[v]
          BY <2>2, <2>6, <3>1, <3>3, <4>2 DEF CommittedLink
        <5>2. QED
          BY <2>2, <3>1, <4>2, <5>1
      <4>3. CASE sess[s].link[v] = 0 /\ UserOf[v] \in sess[s].made
        <5>1. carrierOf'[v] = carriers[UserOf[v]] + 1
          BY <2>6, <3>3, <4>3 DEF CommittedLink
        <5>2. QED
          BY <2>1, <2>2, <3>1, <4>3, <5>1
      <4>4. QED
        BY <4>1, <4>2, <4>3 DEF Promised
    <3>4. QED
      BY <1>6, <3>2, <3>3
  <2>8. ASSUME NEW u \in Users, NEW c \in 1..carriers'[u]
        PROVE  \E v \in vehicles' : UserOf[v] = u /\ carrierOf'[v] = c
    <3>1. CASE c \in 1..carriers[u]
      <4>1. PICK v \in vehicles : UserOf[v] = u /\ carrierOf[v] = c
        BY <3>1 DEF IngestionInv, CarriersBelongToVehicles
      <4>2. QED
        BY <1>6, <2>5, <4>1
    <3>2. CASE c \notin 1..carriers[u]
      <4>1. u \in sess[s].made /\ c = carriers[u] + 1
        BY <2>1, <2>2, <3>2
      <4>2. PICK v \in sess[s].new : UserOf[v] = u /\ sess[s].link[v] = 0
        BY <1>1, <4>1 DEF LinksWillHold
      <4>3. v \in Known
        BY <2>6, <4>2 DEF Known
      <4>4. carrierOf'[v] = c
        BY <2>6, <4>1, <4>2, <4>3 DEF CommittedLink
      <4>5. QED
        BY <1>6, <4>2, <4>4
    <3>3. QED
      BY <3>1, <3>2
  <2>9. CarriersBelongToVehicles'
    BY <2>7, <2>8 DEF CarriersBelongToVehicles
  <2>10. QED
    BY <1>2, <1>4, <2>3, <2>4, <2>9 DEF IngestionInv, SessionOK
<1>7. QED
  BY <1>5, <1>6 DEF CommitVehicles

\* Every step keeps the invariant.
LEMMA NextInv == IngestionInv /\ [Next]_vars => IngestionInv'
<1> SUFFICES ASSUME IngestionInv, [Next]_vars PROVE IngestionInv'
  OBVIOUS
<1>0. TypeOK /\ TypeOK' /\ CarrierRowsBounded /\ \A s \in Slots : SessionOK(s)
  BY NextType DEF IngestionInv, SessionOK
<1>1. ASSUME NEW s \in Slots, Quiet(s) PROVE IngestionInv'
  <2>1. UNCHANGED <<listed, loads, samples, vehicles, carriers, carrierOf, restarts>>
    BY <1>1 DEF Quiet, StartJob, StartManual, FetchLoads, FetchVehicles, FetchFails, Deadlocked,
                UpsertLoad, FindVehicle, FindCarrier, FlushCarrier, rows
  <2>2. \A t \in Slots \ {s} : sess'[t] = sess[t]
    BY <1>0, <1>1, QuietType DEF Update, TypeOK
  <2>3. QuietKeeps(s)
    BY <1>0, <1>1, FetchKeeps, LookupKeeps DEF Quiet
  <2>4. CarrierRowsBounded'
    BY <1>0, <2>1, <2>2, <2>3, QuietBound
  <2>5. \A u \in Users : carriers[u] <= carriers'[u]
    BY <1>0, <2>1 DEF TypeOK
  <2>6. \A t \in Slots : SessionOK(t)'
    BY <1>0, <2>2, <2>3, <2>5, OthersStand DEF QuietKeeps
  <2>7. OneSamplePerPricedLoad' /\ CarriersBelongToVehicles'
    BY <2>1 DEF IngestionInv, OneSamplePerPricedLoad, CarriersBelongToVehicles
  <2>8. QED
    BY <1>0, <2>4, <2>6, <2>7 DEF IngestionInv, SessionOK
<1>2. ASSUME NEW s \in Slots, CommitLoads(s) PROVE IngestionInv'
  BY <1>0, <1>2, CommitLoadsInv
<1>3. ASSUME NEW s \in Slots, CommitVehicles(s) PROVE IngestionInv'
  BY <1>0, <1>3, CommitVehiclesInv
<1>4. CASE UNCHANGED <<loads, samples, vehicles, carriers, carrierOf, sess>>
  <2>1. \A u \in Users : Makers(u)' = Makers(u)
    BY <1>4 DEF Makers
  <2>2. CarrierRowsBounded'
    BY <1>0, <1>4, <2>1 DEF CarrierRowsBounded
  <2>3. \A s \in Slots : SessionOK(s)'
    BY <1>0, <1>4 DEF SessionOK, BatchWellFormed, LinksWillHold, Promised
  <2>4. QED
    BY <1>0, <1>4, <2>2, <2>3 DEF IngestionInv, OneSamplePerPricedLoad, CarriersBelongToVehicles,
                                  SessionOK
<1>5. CASE Restart
  <2>1. \A s \in Slots : sess'[s] = Idle
    BY <1>5 DEF Restart
  <2>2. UNCHANGED <<loads, samples, vehicles, carriers, carrierOf>>
    BY <1>5 DEF Restart, rows
  <2>3. \A u \in Users : Makers(u)' = {}
    BY <2>1 DEF Makers
  <2>4. ASSUME NEW u \in Users PROVE carriers[u] + Cardinality(Makers(u)') <= Cardinality(Slots)
    <3>1. carriers[u] \in Nat /\ carriers[u] + Cardinality(Makers(u)) <= Cardinality(Slots)
      BY <1>0 DEF TypeOK, CarrierRowsBounded
    <3>2. Cardinality(Makers(u)) \in Nat /\ Cardinality(Slots) \in Nat
      BY MakersFinite, FS_CardinalityType
    <3>3. Cardinality(Makers(u)') = 0
      BY <2>3, FS_EmptySet
    <3>4. QED
      BY <3>1, <3>2, <3>3
  <2>5. QED
    BY <1>0, <2>1, <2>2, <2>4 DEF IngestionInv, OneSamplePerPricedLoad, CarriersBelongToVehicles,
                                  CarrierRowsBounded
<1>6. Job \in Slots /\ Manual \subseteq Slots
  BY DEF Slots
<1>7. ASSUME NEW p \in Proposals, ExchangeChanges(p) PROVE IngestionInv'
  BY <1>4, <1>7 DEF ExchangeChanges, rows
<1>8. CASE UNCHANGED vars
  BY <1>4, <1>8 DEF vars
<1>9. QED
  BY <1>1, <1>2, <1>3, <1>5, <1>6, <1>7, <1>8 DEF Next, Upsert, Quiet

\* The invariant holds of every ingestion, however many sessions overlap.
THEOREM IngestionInvariant == Spec => []IngestionInv
<1>1. Init => IngestionInv
  <2> SUFFICES ASSUME Init PROVE IngestionInv
    OBVIOUS
  <2>1. TypeOK /\ OneSamplePerPricedLoad /\ CarriersBelongToVehicles
    BY IngestionAssumption DEF Init, TypeOK, OneSamplePerPricedLoad, CarriersBelongToVehicles
  <2>2. ASSUME NEW u \in Users PROVE carriers[u] + Cardinality(Makers(u)) <= Cardinality(Slots)
    <3>1. Makers(u) = {} /\ carriers[u] = 0
      BY DEF Init, Makers
    <3>2. Cardinality(Makers(u)) = 0 /\ Cardinality(Slots) \in Nat
      BY <3>1, MakersFinite, FS_EmptySet, FS_CardinalityType
    <3>3. QED
      BY <3>1, <3>2
  <2>3. QED
    BY <2>1, <2>2 DEF IngestionInv, CarrierRowsBounded, Init
<1>2. QED
  BY <1>1, NextInv, PTL DEF Spec

\* Every priced load has left exactly one sample, every other none.
THEOREM SampledOnce == Spec => []OneSamplePerPricedLoad
BY IngestionInvariant, PTL DEF IngestionInv

\* Vehicles and the carriers made for them are there together or not at all.
THEOREM CarriersBelong == Spec => []CarriersBelongToVehicles
BY IngestionInvariant, PTL DEF IngestionInv

\* A user has no more carrier rows than there are sessions.
THEOREM CarriersBounded == Spec => []CarrierRowsBounded
BY IngestionInvariant, PTL DEF IngestionInv

-----------------------------------------------------------------------------
(* The rows are stored in whole batches.                                   *)

\* A vehicle whose user has no numeric id refers to no carrier.
NoLink(s) == sess[s] # Idle => \A v \in VehicleIds \ Known : sess[s].link[v] = 0

\* A quiet step of a session leaves it so.
LEMMA QuietNoLink ==
  ASSUME TypeOK, NEW s \in Slots, NoLink(s), Quiet(s)
  PROVE  NoLink(s)'
<1>1. CASE (StartJob /\ s = Job) \/ StartManual(s)
  <2>1. \E at \in {"fetch_loads", "fetch_vehicles"} : sess'[s] = Fresh(at)
    BY <1>1 DEF StartJob, StartManual, Goto, Update, TypeOK
  <2>2. QED
    BY <2>1 DEF NoLink, Fresh
<1>2. CASE FetchFails(s) \/ Deadlocked(s)
  BY <1>2 DEF FetchFails, Deadlocked, Finish, Update, TypeOK, NoLink
<1>3. CASE FetchLoads(s) \/ \E l \in LoadIds : UpsertLoad(s, l)
  <2>1. sess[s] \in LoadBatch /\ sess[s] # Idle
    BY <1>3, SessionKind DEF FetchLoads, UpsertLoad, LoadSteps
  <2>2. \/ \E page : sess'[s] = [sess[s] EXCEPT !.at = "loads", !.todo = page]
        \/ \E l : sess'[s] = [sess[s] EXCEPT !.todo = @ \ {l}, !.new = @ \cup ({l} \ loads)]
    BY <1>3 DEF FetchLoads, UpsertLoad, Update, TypeOK
  <2>3. sess'[s].link = sess[s].link
    BY <2>1, <2>2 DEF LoadBatch, BatchOf
  <2>4. QED
    BY <2>1, <2>3 DEF NoLink
<1>4. CASE FetchVehicles(s)
  <2>1. sess[s] \in VehicleBatch /\ sess[s] # Idle
    BY <1>4, SessionKind DEF FetchVehicles, VehicleSteps
  <2>2. sess'[s].link = sess[s].link
    BY <1>4, <2>1 DEF FetchVehicles, Update, TypeOK, VehicleBatch, BatchOf
  <2>3. QED
    BY <2>1, <2>2 DEF NoLink
<1>5. ASSUME NEW v \in VehicleIds, FindVehicle(s, v) \/ FindCarrier(s, v) \/ FlushCarrier(s, v)
      PROVE  NoLink(s)'
  <2>1. sess[s] \in VehicleBatch /\ sess[s] # Idle
    BY <1>5, SessionKind DEF FindVehicle, FindCarrier, FlushCarrier, VehicleSteps
  <2>2. CASE FindVehicle(s, v)
    <3>1. \/ sess'[s] = [sess[s] EXCEPT !.todo = @ \ {v}]
          \/ sess'[s] = [sess[s] EXCEPT !.todo = @ \ {v}, !.new = @ \cup {v}]
          \/ sess'[s] = [sess[s] EXCEPT !.at = "carrier", !.todo = @ \ {v}, !.current = {v}]
      BY <2>2 DEF FindVehicle, Update, TypeOK
    <3>2. sess'[s].link = sess[s].link
      BY <2>1, <3>1 DEF VehicleBatch, BatchOf
    <3>3. QED
      BY <2>1, <3>2 DEF NoLink
  <2>3. CASE FindCarrier(s, v)
    <3>1. v \in Known
      BY <2>1, <2>3 DEF FindCarrier, VehicleBatch, BatchOf
    <3>2. \/ sess'[s] = [sess[s] EXCEPT !.at = "flush"]
          \/ \E c : sess'[s] = [sess[s] EXCEPT !.at = "vehicles", !.current = {},
                                               !.new = @ \cup {v}, !.link[v] = c]
      BY <2>3 DEF FindCarrier, Update, TypeOK
    <3>3. \A w \in VehicleIds \ {v} : sess'[s].link[w] = sess[s].link[w]
      <4>1. \E c : sess'[s].link = sess[s].link \/ sess'[s].link = [sess[s].link EXCEPT ![v] = c]
        BY <2>1, <3>2 DEF VehicleBatch, BatchOf
      <4>2. sess[s].link \in [VehicleIds -> Nat]
        BY <2>1 DEF VehicleBatch, BatchOf
      <4>3. QED
        BY <4>1, <4>2
    <3>4. QED
      BY <2>1, <3>1, <3>3 DEF NoLink
  <2>4. CASE FlushCarrier(s, v)
    <3>1. v \in Known
      BY <2>1, <2>4 DEF FlushCarrier, VehicleBatch, BatchOf
    <3>2. \/ sess'[s] = Idle
          \/ sess'[s] = [sess[s] EXCEPT !.at = "vehicles", !.current = {}, !.flushed = sess[s].new,
                                        !.made = @ \cup {UserOf[v]},
                                        !.new = @ \cup {v}, !.link[v] = 0]
      BY <2>4 DEF FlushCarrier, Finish, Update, TypeOK
    <3>3. sess'[s] = Idle \/ \A w \in VehicleIds \ {v} : sess'[s].link[w] = sess[s].link[w]
      <4>1. sess'[s] = Idle \/ sess'[s].link = [sess[s].link EXCEPT ![v] = 0]
        BY <2>1, <3>2 DEF VehicleBatch, BatchOf
      <4>2. sess[s].link \in [VehicleIds -> Nat]
        BY <2>1 DEF VehicleBatch, BatchOf
      <4>3. QED
        BY <4>1, <4>2
    <3>4. QED
      BY <2>1, <3>1, <3>3 DEF NoLink
  <2>5. QED
    BY <1>5, <2>2, <2>3, <2>4
<1>6. QED
  BY <1>1, <1>2, <1>3, <1>4, <1>5 DEF Quiet

\* It is so in every session at any time.
LEMMA NextNoLink ==
  ASSUME TypeOK, \A s \in Slots : NoLink(s), [Next]_vars
  PROVE  \A s \in Slots : NoLink(s)'
<1>1. ASSUME NEW s \in Slots, Quiet(s) PROVE \A t \in Slots : NoLink(t)'
  <2>1. \A t \in Slots \ {s} : sess'[t] = sess[t]
    BY <1>1, QuietType DEF Update, TypeOK
  <2>2. QED
    BY <1>1, <2>1, QuietNoLink DEF NoLink
<1>2. ASSUME NEW s \in Slots, CommitLoads(s) \/ CommitVehicles(s)
      PROVE  \A t \in Slots : NoLink(t)'
  <2>1. /\ sess'[s] = Idle \/ sess'[s] = Fresh("fetch_vehicles")
        /\ \A t \in Slots \ {s} : sess'[t] = sess[t]
    BY <1>2 DEF CommitLoads, CommitVehicles, Goto, Finish, Update, TypeOK
  <2>2. QED
    BY <2>1 DEF NoLink, Fresh
<1>3. CASE Restart
  BY <1>3 DEF Restart, NoLink
<1>4. CASE UNCHANGED sess
  BY <1>4 DEF NoLink
<1>5. Job \in Slots /\ Manual \subseteq Slots
  BY DEF Slots
<1>6. QED
  BY <1>1, <1>2, <1>3, <1>4, <1>5 DEF Next, Upsert, Quiet, ExchangeChanges, vars

\* The commit of new loads stores a batch of them, or nothing.
LEMMA CommitLoadsStores ==
  ASSUME IngestionInv, NEW s \in Slots, CommitLoads(s)
  PROVE  [Store!Next]_Store!store
<1>1. sess[s] \in LoadBatch
  BY SessionKind DEF CommitLoads, LoadSteps, IngestionInv
<1>2. CASE UNCHANGED <<loads, samples>>
  BY <1>2 DEF CommitLoads, Store!store
<1>3. CASE /\ sess[s].new \cap loads = {}
           /\ loads' = loads \cup sess[s].new
           /\ samples' = [l \in LoadIds |->
                samples[l] + IF l \in sess[s].new \cap Priced THEN 1 ELSE 0]
  <2>1. ASSUME NEW l \in LoadIds
        PROVE  samples'[l] = IF l \in sess[s].new \cap Priced THEN 1 ELSE samples[l]
    <3>1. samples[l] \in Nat /\ (l \notin loads => samples[l] = 0)
      BY DEF IngestionInv, TypeOK, OneSamplePerPricedLoad
    <3>2. QED
      BY <1>3, <3>1
  <2>2. samples' = [l \in LoadIds |-> samples'[l]]
    BY <1>3
  <2>3. samples' = [l \in LoadIds |-> IF l \in sess[s].new \cap Priced THEN 1 ELSE samples[l]]
    BY <2>1, <2>2
  <2>4. Store!StoreLoads(sess[s].new)
    BY <1>3, <2>3 DEF CommitLoads, Store!StoreLoads
  <2>5. sess[s].new \in SUBSET LoadIds
    BY <1>1 DEF LoadBatch, BatchOf
  <2>6. QED
    BY <2>4, <2>5 DEF Store!Next
<1>4. QED
  BY <1>2, <1>3 DEF CommitLoads

\* The commit of new vehicles stores a batch of them with their carriers, or nothing.
LEMMA CommitVehiclesStores ==
  ASSUME IngestionInv, TypeOK', NEW s \in Slots, NoLink(s), CommitVehicles(s)
  PROVE  [Store!Next]_Store!store
<1>1. /\ sess[s] \in VehicleBatch /\ sess[s] # Idle /\ sess[s].at = "vehicles"
      /\ LinksWillHold(s)
  BY SessionKind DEF CommitVehicles, VehicleSteps, IngestionInv
<1>2. CASE UNCHANGED <<vehicles, carriers, carrierOf>>
  BY <1>2 DEF CommitVehicles, Store!store
<1>3. CASE /\ sess[s].new \cap vehicles = {}
           /\ vehicles' = vehicles \cup sess[s].new
           /\ carriers' = [u \in Users |-> carriers[u] + IF u \in sess[s].made THEN 1 ELSE 0]
           /\ carrierOf' = [v \in VehicleIds |->
                IF v \in sess[s].new THEN CommittedLink(s, v) ELSE carrierOf[v]]
  <2>1. /\ sess[s].new \in SUBSET VehicleIds /\ sess[s].made \in SUBSET Users
        /\ sess[s].link \in [VehicleIds -> Nat]
    BY <1>1 DEF VehicleBatch, BatchOf
  <2>2. \A u \in sess[s].made : \E v \in sess[s].new : UserOf[v] = u
    BY <1>1 DEF LinksWillHold
  <2>3. ASSUME NEW v \in sess[s].new, UserOf[v] \in Users
        PROVE  carrierOf'[v] \in 1..carriers'[UserOf[v]]
    <3>1. v \in Known /\ v \in VehicleIds
      BY <2>1, <2>3 DEF Known
    <3>2. /\ carriers[UserOf[v]] \in Nat /\ carriers'[UserOf[v]] \in Nat
          /\ carriers'[UserOf[v]] =
               carriers[UserOf[v]] + IF UserOf[v] \in sess[s].made THEN 1 ELSE 0
      BY <1>3, <2>3 DEF IngestionInv, TypeOK
    <3>3. carrierOf'[v] = CommittedLink(s, v)
      BY <1>3, <3>1
    <3>4. Promised(s, v)
      BY <1>1, <3>1 DEF LinksWillHold
    <3>5. CASE sess[s].link[v] \in 1..carriers[UserOf[v]]
      <4>1. carrierOf'[v] = sess[s].link[v]
        BY <3>2, <3>3, <3>5 DEF CommittedLink
      <4>2. QED
        BY <3>2, <3>5, <4>1
    <3>6. CASE sess[s].link[v] = 0 /\ UserOf[v] \in sess[s].made
      <4>1. carrierOf'[v] = carriers[UserOf[v]] + 1
        BY <3>1, <3>3, <3>6 DEF CommittedLink
      <4>2. QED
        BY <3>2, <3>6, <4>1
    <3>7. QED
      BY <3>4, <3>5, <3>6 DEF Promised
  <2>4. ASSUME NEW v \in sess[s].new, UserOf[v] \notin Users
        PROVE  carrierOf'[v] = 0
    <3>1. v \in VehicleIds \ Known
      BY <2>1, <2>4 DEF Known
    <3>2. carrierOf'[v] = sess[s].link[v]
      BY <1>3, <3>1 DEF CommittedLink
    <3>3. QED
      BY <1>1, <3>1, <3>2 DEF NoLink
  <2>5. \A v \in VehicleIds \ sess[s].new : carrierOf'[v] = carrierOf[v]
    BY <1>3
  <2>6. carrierOf' \in [VehicleIds -> Nat]
    BY DEF TypeOK
  <2>7. Store!StoreVehicles(sess[s].new, sess[s].made)
    BY <1>3, <2>2, <2>3, <2>4, <2>5, <2>6 DEF CommitVehicles, Store!StoreVehicles
  <2>8. QED
    BY <2>1, <2>7 DEF Store!Next
<1>4. QED
  BY <1>2, <1>3 DEF CommitVehicles

\* Whatever the overlapping sessions do, the rows change as if the batches came one by one.
THEOREM ImplementsStore == Spec => StoresWholeBatches
<1> DEFINE Unlinked == \A s \in Slots : NoLink(s)
<1>1. Init => Store!Init /\ Unlinked
  BY DEF Init, Store!Init, NoLink
<1>2. IngestionInv /\ Unlinked /\ [Next]_vars => Unlinked'
  BY NextNoLink DEF IngestionInv
<1>3. IngestionInv /\ IngestionInv' /\ Unlinked /\ [Next]_vars => [Store!Next]_Store!store
  <2> SUFFICES ASSUME IngestionInv, IngestionInv', Unlinked, [Next]_vars
               PROVE  [Store!Next]_Store!store
    OBVIOUS
  <2>1. ASSUME NEW s \in Slots, CommitLoads(s) PROVE [Store!Next]_Store!store
    BY <2>1, CommitLoadsStores
  <2>2. ASSUME NEW s \in Slots, CommitVehicles(s) PROVE [Store!Next]_Store!store
    BY <2>2, CommitVehiclesStores DEF IngestionInv
  <2>3. CASE UNCHANGED rows
    BY <2>3 DEF rows, Store!store
  <2>4. QED
    BY <2>1, <2>2, <2>3 DEF Next, Upsert, vars, rows, ExchangeChanges, StartJob, StartManual,
         FetchLoads, FetchVehicles, FetchFails, Deadlocked, UpsertLoad, FindVehicle,
         FindCarrier, FlushCarrier, Restart
<1>4. QED
  BY <1>1, <1>2, <1>3, IngestionInvariant, PTL DEF Spec, StoresWholeBatches, Store!Spec
=============================================================================
