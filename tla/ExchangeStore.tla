--------------------------- MODULE ExchangeStore ---------------------------
(***************************************************************************)
(* What ingestion promises of the rows it writes: they come in whole        *)
(* batches, a load with its price sample and a vehicle with its carrier;    *)
(* each proposal is stored once and its rows are not touched again.         *)
(***************************************************************************)
EXTENDS Naturals

CONSTANTS LoadIds, VehicleIds, Users, UserOf, Priced

VARIABLES loads, samples, vehicles, carriers, carrierOf

store == <<loads, samples, vehicles, carriers, carrierOf>>

Init ==
  /\ loads = {}
  /\ samples = [l \in LoadIds |-> 0]
  /\ vehicles = {}
  /\ carriers = [u \in Users |-> 0]
  /\ carrierOf = [v \in VehicleIds |-> 0]

\* The loads of a batch, each priced one with its only sample.
StoreLoads(batch) ==
  /\ batch \cap loads = {}
  /\ loads' = loads \cup batch
  /\ samples' = [l \in LoadIds |-> IF l \in batch \cap Priced THEN 1 ELSE samples[l]]
  /\ UNCHANGED <<vehicles, carriers, carrierOf>>

\* The vehicles of a batch, with a carrier row for each user in made.  A vehicle of a known
\* user refers to one of his rows, the new one or an older one.
StoreVehicles(batch, made) ==
  /\ batch \cap vehicles = {}
  /\ \A u \in made : \E v \in batch : UserOf[v] = u
  /\ vehicles' = vehicles \cup batch
  /\ carriers' = [u \in Users |-> carriers[u] + IF u \in made THEN 1 ELSE 0]
  /\ carrierOf' \in [VehicleIds -> Nat]
  /\ \A v \in VehicleIds :
       \/ v \notin batch /\ carrierOf'[v] = carrierOf[v]
       \/ v \in batch /\ UserOf[v] \in Users /\ carrierOf'[v] \in 1..carriers'[UserOf[v]]
       \/ v \in batch /\ UserOf[v] \notin Users /\ carrierOf'[v] = 0
  /\ UNCHANGED <<loads, samples>>

Next ==
  \/ \E batch \in SUBSET LoadIds : StoreLoads(batch)
  \/ \E batch \in SUBSET VehicleIds, made \in SUBSET Users : StoreVehicles(batch, made)

Spec == Init /\ [][Next]_store
=============================================================================
