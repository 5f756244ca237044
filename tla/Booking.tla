------------------------------ MODULE Booking ------------------------------
(***************************************************************************)
(* How a load meets a vehicle: posting and cancelling loads, the matcher    *)
(* agent, the operator's review of matches, a shipper's proposal, an        *)
(* admin's promotion of a match, and the carrier's edits of the fleet.      *)
(*                                                                          *)
(* Every handler runs in one database transaction at READ COMMITTED.  Each  *)
(* await is a point where another handler may run, so a handler is a chain  *)
(* of actions: one per row it reads, and one for its commit, which flushes  *)
(* all its writes at once.  What a handler has read stays in its session    *)
(* (expire_on_commit=False, no refresh): a later action decides on it, not  *)
(* on the row as it is by then.  An attribute assigned the value it already *)
(* has in the session is not written at all.                                *)
(*                                                                          *)
(* A request that is refused (wrong role, wrong status, no such row) has no *)
(* effect, so its refusal ends the session or is no step at all.  Who may   *)
(* call what never changes during a request and is not modelled here: only  *)
(* authorised requests start.                                               *)
(***************************************************************************)
EXTENDS Naturals, FiniteSets

CONSTANTS
  Loads,        \* load ids, posted or ingested at some time
  Vehicles,     \* vehicle ids, already in the fleet
  WithCarrier,  \* the vehicles whose carrier_id is not NULL
  Compatible,   \* the pairs the matcher's country, body and capacity filter lets through
  Requests,     \* slots for requests in flight at once
  Runs,         \* slots for matcher runs in flight at once
  PoolSize,     \* connections of the engine's pool (5 and 10 overflow in the code)
  MaxPromotions \* bound: no admin starts to promote a match that has so many deals

ASSUME BookingAssumption ==
  /\ WithCarrier \subseteq Vehicles
  /\ Compatible \subseteq Loads \X Vehicles
  /\ PoolSize \in Nat \ {0}
  /\ MaxPromotions \in Nat

VARIABLES
  loads,     \* loads.status, "absent" before the row exists
  vehicles,  \* vehicles.status, "deleted" after the row is gone
  matches,   \* matches.status per (load, vehicle), "none" when there is no row
  deals,     \* number of deal rows per (load, vehicle) and per route that made them
  feedback,  \* the pairs whose match has a match_feedback row
  sess,      \* per request slot: the handler's position and what it holds
  runs       \* per matcher slot: the same for a matcher run

rows == <<loads, vehicles, matches, deals, feedback>>
vars == <<loads, vehicles, matches, deals, feedback, sess, runs>>

Pairs == Loads \X Vehicles

LoadStatus == {"absent", "new", "matched", "booked", "cancelled"}
\* "off" stands for every other string: on_route, maintenance, inactive, and whatever a form sends.
VehicleStatus == {"available", "booked", "off", "deleted"}
\* The edit form's status is stored as it comes, "booked" included.
EditStatus == {"available", "booked", "off"}
MatchStatus == {"none", "proposed", "reviewed", "rejected", "promoted"}

Idle == [at |-> "idle"]

\* Handlers on a (load, vehicle) pair.  dirty: the rows the session will UPDATE.
PairSession == [at: {"propose_load", "propose_deal", "propose_commit",
                     "promote_load", "promote_commit",
                     "reject_commit", "feedback_commit"},
                load: Loads, vehicle: Vehicles, dirty: SUBSET {"match", "load"}]
LoadSession == [at: {"cancel_commit"}, load: Loads]
\* seen: the status the edit handler read; form: the status the form sends.
EditSession == [at: {"edit_commit"}, vehicle: Vehicles, seen: VehicleStatus, form: EditStatus]
DeleteSession == [at: {"delete_commit"}, vehicle: Vehicles]
Session == {Idle} \cup PairSession \cup LoadSession \cup EditSession \cup DeleteSession

\* todo: the loads the run read as NEW and has not handled yet.  held: the run still has
\* the connection of its last query; a commit gives it back to the pool.
RunAtLoad == [at: {"load"}, todo: SUBSET Loads, held: BOOLEAN]
RunAtLLM == [at: {"llm"}, todo: SUBSET Loads, load: Loads]
RunAtCommit == [at: {"commit"}, todo: SUBSET Loads, load: Loads, picked: SUBSET Vehicles]
Run == {Idle} \cup RunAtLoad \cup RunAtLLM \cup RunAtCommit

\* One type for every variable: the statuses the code assigns, and well-formed sessions.
TypeOK ==
  /\ loads \in [Loads -> LoadStatus]
  /\ vehicles \in [Vehicles -> VehicleStatus]
  /\ matches \in [Pairs -> MatchStatus]
  /\ deals \in [Pairs -> [propose: Nat, from_match: Nat]]
  /\ feedback \subseteq Pairs
  /\ sess \in [Requests -> Session]
  /\ runs \in [Runs -> Run]

Init ==
  /\ loads = [l \in Loads |-> "absent"]
  /\ vehicles = [v \in Vehicles |-> "available"]
  /\ matches = [p \in Pairs |-> "none"]
  /\ deals = [p \in Pairs |-> [propose |-> 0, from_match |-> 0]]
  /\ feedback = {}
  /\ sess = [r \in Requests |-> Idle]
  /\ runs = [m \in Runs |-> Idle]

HasDeal(p) == deals[p].propose + deals[p].from_match > 0

-----------------------------------------------------------------------------
(* Sessions.                                                               *)

\* Transactions that hold a connection of the pool.
InFlight ==
  LET holding(m) == runs[m].at \in {"llm", "commit"} \/ (runs[m].at = "load" /\ runs[m].held)
  IN  Cardinality({r \in Requests : sess[r] # Idle})
        + Cardinality({m \in Runs : holding(m)})

\* A request that finds the pool empty waits for a connection.
HasConnection == InFlight < PoolSize

Open(r, s) ==
  /\ HasConnection
  /\ sess[r] = Idle
  /\ sess' = [sess EXCEPT ![r] = s]

Close(r) == sess' = [sess EXCEPT ![r] = Idle]

\* An exception or a refusal: the transaction is rolled back, no row changes.
Rollback(r) == Close(r) /\ UNCHANGED <<rows, runs>>

\* The handler goes on to its next await.
Continue(r, at) ==
  /\ sess' = [sess EXCEPT ![r].at = at]
  /\ UNCHANGED <<rows, runs>>

-----------------------------------------------------------------------------
(* The constraints of the schema, checked when a session flushes.          *)

\* Seeded bugs: a schema without uq_matches_load_vehicle, and one without the foreign key.
WithoutUnique(l, v) == vehicles[v] # "deleted"
WithoutForeignKey(l, v) == matches[<<l, v>>] = "none"

\* A match row can be inserted: no other row for the pair (uq_matches_load_vehicle)
\* and the vehicle it refers to exists.
CanInsertMatch(l, v) ==
  /\ matches[<<l, v>>] = "none"
  /\ vehicles[v] # "deleted"

\* A vehicle row can be deleted: no match or deal refers to it.
Unreferenced(v) ==
  \A l \in Loads : matches[<<l, v>>] = "none" /\ ~HasDeal(<<l, v>>)

-----------------------------------------------------------------------------
(* POST /loads/new, and the insert of a load by the ingestion service.     *)

PostLoad(l) ==
  /\ HasConnection
  /\ loads[l] = "absent"
  /\ loads' = [loads EXCEPT ![l] = "new"]
  /\ UNCHANGED <<vehicles, matches, deals, feedback, sess, runs>>

-----------------------------------------------------------------------------
(* POST /loads/{load_id}/cancel                                            *)

\* Seeded bug: the check forgets that a booked load cannot be cancelled.
CancelsBooked(l) == loads[l] \in {"new", "matched", "booked"}

\* The load exists and is neither booked nor cancelled.
Cancellable(l) == loads[l] \in {"new", "matched"}

CancelRead(r, l) ==
  /\ Cancellable(l)
  /\ Open(r, [at |-> "cancel_commit", load |-> l])
  /\ UNCHANGED <<rows, runs>>

CancelCommit(r) ==
  /\ sess[r].at = "cancel_commit"
  /\ loads' = [loads EXCEPT ![sess[r].load] = "cancelled"]
  /\ Close(r)
  /\ UNCHANGED <<vehicles, matches, deals, feedback, runs>>

-----------------------------------------------------------------------------
(* POST /vehicles/{vehicle_id}/propose: a shipper books one of his loads   *)
(* on an available vehicle.                                                *)

ProposeReadVehicle(r, l, v) ==
  /\ vehicles[v] = "available"
  /\ Open(r, [at |-> "propose_load", load |-> l, vehicle |-> v, dirty |-> {}])
  /\ UNCHANGED <<rows, runs>>

\* session.get(Load, load_id), then the check of its status.
ProposeReadLoad(r) ==
  /\ sess[r].at = "propose_load"
  /\ IF loads[sess[r].load] \in {"new", "matched"}
       THEN Continue(r, "propose_deal")
       ELSE Rollback(r)

\* The search for a deal of the same pair; if there is one the user is redirected to it.
ProposeReadDeal(r) ==
  /\ sess[r].at = "propose_deal"
  /\ IF HasDeal(<<sess[r].load, sess[r].vehicle>>)
       THEN Rollback(r)
       ELSE Continue(r, "propose_commit")

\* What the flush and the commit need: a match row can be inserted, and the deal's
\* carrier_id, taken from the vehicle, is not NULL.
ProposalFits(l, v) == CanInsertMatch(l, v) /\ v \in WithCarrier

\* Match (promoted) and deal (booked) inserted, vehicle and load booked, one commit.
\* Both statuses were read as something else, so both UPDATEs are issued.
ProposeCommit(r) ==
  LET l == sess[r].load
      v == sess[r].vehicle
  IN  /\ sess[r].at = "propose_commit"
      /\ ProposalFits(l, v)
      /\ matches' = [matches EXCEPT ![<<l, v>>] = "promoted"]
      /\ deals' = [deals EXCEPT ![<<l, v>>].propose = @ + 1]
      /\ vehicles' = [vehicles EXCEPT ![v] = "booked"]
      /\ loads' = [loads EXCEPT ![l] = "booked"]
      /\ Close(r)
      /\ UNCHANGED <<feedback, runs>>

\* Seeded bug: the statuses are committed on their own, before the rows that can be refused.
ProposeFailsLate(r) ==
  /\ sess[r].at = "propose_commit"
  /\ ~ProposalFits(sess[r].load, sess[r].vehicle)
  /\ loads' = [loads EXCEPT ![sess[r].load] = "booked"]
  /\ vehicles' = [vehicles EXCEPT ![sess[r].vehicle] = "booked"]
  /\ Close(r)
  /\ UNCHANGED <<matches, deals, feedback, runs>>

\* IntegrityError at the flush or at the commit.
ProposeFails(r) ==
  /\ sess[r].at = "propose_commit"
  /\ ~ProposalFits(sess[r].load, sess[r].vehicle)
  /\ Rollback(r)

-----------------------------------------------------------------------------
(* POST /deals/from-match/{match_id}: an admin turns a match into a deal.  *)
(* The match is read first, then (selectinload) its load and its vehicle.  *)
(* The load's status is not checked, and the vehicle's is not changed.     *)

PromoteReadMatch(r, l, v) ==
  /\ matches[<<l, v>>] \notin {"none", "rejected"}
  /\ v \in WithCarrier
  /\ deals[<<l, v>>].from_match < MaxPromotions
  /\ Open(r, [at |-> "promote_load", load |-> l, vehicle |-> v,
              dirty |-> IF matches[<<l, v>>] = "promoted" THEN {} ELSE {"match"}])
  /\ UNCHANGED <<rows, runs>>

\* Seeded bug: what the handler changes in the match is lost.
PromoteForgetsMatch(r) ==
  /\ sess[r].at = "promote_load"
  /\ sess' = [sess EXCEPT ![r].at = "promote_commit", ![r].dirty = {"load"}]
  /\ UNCHANGED <<rows, runs>>

PromoteReadLoad(r) ==
  LET l == sess[r].load
      read == IF loads[l] = "booked" THEN {} ELSE {"load"}
  IN  /\ sess[r].at = "promote_load"
      /\ sess' = [sess EXCEPT ![r].at = "promote_commit", ![r].dirty = @ \cup read]
      /\ UNCHANGED <<rows, runs>>

PromoteCommit(r) ==
  LET l == sess[r].load
      v == sess[r].vehicle
  IN  /\ sess[r].at = "promote_commit"
      /\ deals' = [deals EXCEPT ![<<l, v>>].from_match = @ + 1]
      /\ matches' = IF "match" \in sess[r].dirty
                      THEN [matches EXCEPT ![<<l, v>>] = "promoted"] ELSE matches
      /\ loads' = IF "load" \in sess[r].dirty
                    THEN [loads EXCEPT ![l] = "booked"] ELSE loads
      /\ Close(r)
      /\ UNCHANGED <<vehicles, feedback, runs>>

-----------------------------------------------------------------------------
(* POST /ops/matches/{match_id}/reject and .../feedback: the operator's    *)
(* review.  The verdict itself is left out, its row is not.                *)

RejectRead(r, l, v) ==
  /\ matches[<<l, v>>] # "none"
  /\ Open(r, [at |-> "reject_commit", load |-> l, vehicle |-> v,
              dirty |-> IF matches[<<l, v>>] = "rejected" THEN {} ELSE {"match"}])
  /\ UNCHANGED <<rows, runs>>

RejectCommit(r) ==
  LET p == <<sess[r].load, sess[r].vehicle>>
  IN  /\ sess[r].at = "reject_commit"
      /\ matches' = IF "match" \in sess[r].dirty
                      THEN [matches EXCEPT ![p] = "rejected"] ELSE matches
      /\ Close(r)
      /\ UNCHANGED <<loads, vehicles, deals, feedback, runs>>

FeedbackRead(r, l, v) ==
  /\ matches[<<l, v>>] # "none"
  /\ Open(r, [at |-> "feedback_commit", load |-> l, vehicle |-> v,
              dirty |-> IF matches[<<l, v>>] = "proposed" THEN {"match"} ELSE {}])
  /\ UNCHANGED <<rows, runs>>

\* Seeded bug: the verdict is not stored.
NoUpsert(p) == feedback

\* INSERT ... ON CONFLICT DO UPDATE of the pair's feedback row.
Upsert(p) == feedback \cup {p}

\* Seeded bug: the verdict is stored as the match's status.
FeedbackStoresVerdict(r) ==
  /\ sess[r].at = "feedback_commit"
  /\ feedback' = Upsert(<<sess[r].load, sess[r].vehicle>>)
  /\ matches' = [matches EXCEPT ![<<sess[r].load, sess[r].vehicle>>] = "good"]
  /\ Close(r)
  /\ UNCHANGED <<loads, vehicles, deals, runs>>

FeedbackCommit(r) ==
  LET p == <<sess[r].load, sess[r].vehicle>>
  IN  /\ sess[r].at = "feedback_commit"
      /\ feedback' = Upsert(p)
      /\ matches' = IF "match" \in sess[r].dirty
                      THEN [matches EXCEPT ![p] = "reviewed"] ELSE matches
      /\ Close(r)
      /\ UNCHANGED <<loads, vehicles, deals, runs>>

-----------------------------------------------------------------------------
(* POST /fleet/{vehicle_id}/edit and /delete.                              *)

EditRead(r, v, form) ==
  /\ vehicles[v] # "deleted"
  /\ Open(r, [at |-> "edit_commit", vehicle |-> v, seen |-> vehicles[v], form |-> form])
  /\ UNCHANGED <<rows, runs>>

\* The status is written if the form's differs from the one that was read; two of the
\* strings that "off" stands for may differ.
Written(s) ==
  IF s.seen # s.form THEN {TRUE} ELSE IF s.form = "off" THEN BOOLEAN ELSE {FALSE}

EditCommit(r) ==
  LET s == sess[r]
  IN  /\ s.at = "edit_commit"
      /\ \E written \in Written(s) :
           vehicles' = IF written /\ vehicles[s.vehicle] # "deleted"
                         THEN [vehicles EXCEPT ![s.vehicle] = s.form] ELSE vehicles
      /\ Close(r)
      /\ UNCHANGED <<loads, matches, deals, feedback, runs>>

\* The vehicle's GPS device is deleted in Traccar before the row is.
DeleteRead(r, v) ==
  /\ vehicles[v] # "deleted"
  /\ Open(r, [at |-> "delete_commit", vehicle |-> v])
  /\ UNCHANGED <<rows, runs>>

DeleteCommit(r) ==
  LET v == sess[r].vehicle
  IN  /\ sess[r].at = "delete_commit"
      /\ vehicles' = IF Unreferenced(v) THEN [vehicles EXCEPT ![v] = "deleted"] ELSE vehicles
      /\ Close(r)
      /\ UNCHANGED <<loads, matches, deals, feedback, runs>>

-----------------------------------------------------------------------------
(* The matcher agent: one run reads the NEW loads once, then for each of   *)
(* them reads the available vehicles, asks the LLM, and commits.           *)

SetRun(m, s) ==
  /\ runs' = [runs EXCEPT ![m] = s]
  /\ UNCHANGED sess

\* The run's position once the loads of todo are all that is left.
NextLoad(todo, held) ==
  IF todo = {} THEN Idle ELSE [at |-> "load", todo |-> todo, held |-> held]

RunStart(m) ==
  /\ HasConnection
  /\ runs[m] = Idle
  /\ \E l \in Loads : loads[l] = "new"
  /\ SetRun(m, NextLoad({l \in Loads : loads[l] = "new"}, TRUE))
  /\ UNCHANGED rows

Candidates(l) == {v \in Vehicles : vehicles[v] = "available" /\ <<l, v>> \in Compatible}

\* The pre-filter.  Without a candidate the load is left as it is.
RunPrefilter(m, l) ==
  LET left == runs[m].todo \ {l}
  IN  /\ runs[m].at = "load"
      /\ l \in runs[m].todo
      /\ runs[m].held \/ HasConnection
      /\ SetRun(m, IF Candidates(l) = {} THEN NextLoad(left, TRUE)
                     ELSE [at |-> "llm", todo |-> left, load |-> l])
      /\ UNCHANGED rows

\* The LLM's answer may name any vehicle, or none (invalid JSON, an empty list).
\* Those that have a match with the load already are skipped.
RunScore(m, answer) ==
  LET l == runs[m].load
  IN  /\ runs[m].at = "llm"
      /\ SetRun(m, [at |-> "commit", todo |-> runs[m].todo, load |-> l,
                    picked |-> {v \in answer : matches[<<l, v>>] = "none"}])
      /\ UNCHANGED rows

\* Seeded bug: the load is marked whether or not a match was created.
MarksAlways(picked) == TRUE

\* The load's status is assigned only if the run created a match for it.
Marks(picked) == picked # {}

\* The load's object still says NEW, so MATCHED is always written.
RunCommit(m) ==
  LET l == runs[m].load
      picked == runs[m].picked
  IN  /\ runs[m].at = "commit"
      /\ \A v \in picked : CanInsertMatch(l, v)
      /\ matches' = [p \in Pairs |-> IF p[1] = l /\ p[2] \in picked
                                       THEN "proposed" ELSE matches[p]]
      /\ loads' = IF Marks(picked) THEN [loads EXCEPT ![l] = "matched"] ELSE loads
      /\ SetRun(m, NextLoad(runs[m].todo, FALSE))
      /\ UNCHANGED <<vehicles, deals, feedback>>

\* IntegrityError at the commit: the run ends, the loads still to do are dropped.
RunFails(m) ==
  /\ runs[m].at = "commit"
  /\ \E v \in runs[m].picked : ~CanInsertMatch(runs[m].load, v)
  /\ SetRun(m, Idle)
  /\ UNCHANGED rows

\* The LLM call raises, or its answer lacks a field, repeats a vehicle or invents one.
RunAborts(m) ==
  /\ runs[m].at = "llm"
  /\ SetRun(m, Idle)
  /\ UNCHANGED rows

-----------------------------------------------------------------------------
\* The process dies and starts again: every open transaction is rolled back.
Restart ==
  /\ sess' = [r \in Requests |-> Idle]
  /\ runs' = [m \in Runs |-> Idle]
  /\ UNCHANGED rows

Propose(r) ==
  \/ \E l \in Loads, v \in Vehicles : ProposeReadVehicle(r, l, v)
  \/ ProposeReadLoad(r)
  \/ ProposeReadDeal(r)
  \/ ProposeCommit(r)
  \/ ProposeFails(r)

Promote(r) ==
  \/ \E l \in Loads, v \in Vehicles : PromoteReadMatch(r, l, v)
  \/ PromoteReadLoad(r)
  \/ PromoteCommit(r)

Review(r) ==
  \/ \E l \in Loads, v \in Vehicles : RejectRead(r, l, v) \/ FeedbackRead(r, l, v)
  \/ RejectCommit(r)
  \/ FeedbackCommit(r)

Cancel(r) == (\E l \in Loads : CancelRead(r, l)) \/ CancelCommit(r)

Fleet(r) ==
  \/ \E v \in Vehicles, form \in EditStatus : EditRead(r, v, form)
  \/ \E v \in Vehicles : DeleteRead(r, v)
  \/ EditCommit(r)
  \/ DeleteCommit(r)

Match(m) ==
  \/ RunStart(m)
  \/ \E l \in Loads : RunPrefilter(m, l)
  \/ \E answer \in SUBSET Vehicles : RunScore(m, answer)
  \/ RunCommit(m)
  \/ RunFails(m)
  \/ RunAborts(m)

Next ==
  \/ \E l \in Loads : PostLoad(l)
  \/ \E r \in Requests : Propose(r) \/ Promote(r) \/ Review(r) \/ Cancel(r) \/ Fleet(r)
  \/ \E m \in Runs : Match(m)
  \/ Restart

Spec == Init /\ [][Next]_vars

-----------------------------------------------------------------------------
(* Properties.                                                             *)

\* A load is shown as booked only if a deal carries it: both are written by one commit
\* (propose and from-match), and no later step of any handler takes the deal away.
BookedLoadHasDeal ==
  \A l \in Loads : loads[l] = "booked" => \E v \in Vehicles : HasDeal(<<l, v>>)

\* The search for a duplicate deal can miss a proposal that is being committed; the
\* unique constraint on matches still keeps proposals of one pair to a single deal.
ProposedOncePerPair ==
  \A p \in Pairs : deals[p].propose <= 1

\* A pair with a deal has a match row that has left the state "proposed" for good, whatever
\* stale status other sessions write into it.
DealHasPastProposedMatch ==
  \A p \in Pairs : HasDeal(p) => matches[p] \notin {"none", "proposed"}

\* A load is shown as matched only if the matcher has left a match for it.
MatchedLoadHasMatch ==
  \A l \in Loads : loads[l] = "matched" => \E v \in Vehicles : matches[<<l, v>>] # "none"

\* A match is shown as reviewed only if an operator's verdict is recorded for it.
ReviewedHasFeedback ==
  \A p \in Pairs : matches[p] = "reviewed" => p \in feedback

\* A deleted vehicle leaves no match and no deal behind, even when the match is inserted
\* by a session that read the vehicle before it was deleted.
NoDanglingVehicle ==
  \A v \in Vehicles : vehicles[v] = "deleted" => Unreferenced(v)

\* The strengthening that makes the invariants above inductive: what an open session has
\* read about its match stays true of it.  The match it found still exists, and if the
\* promotion does not write the match's status, that status is past "proposed".
SessionMatchStands ==
  \A r \in Requests :
    LET s == sess[r]
        p == <<s.load, s.vehicle>>
        promoting == s.at \in {"promote_load", "promote_commit"}
    IN  /\ promoting \/ s.at \in {"reject_commit", "feedback_commit"} => matches[p] # "none"
        /\ promoting /\ "match" \notin s.dirty => matches[p] # "proposed"

\* What the rows say of one another, and of the session that is about to write them.
RowsAgree ==
  /\ BookedLoadHasDeal
  /\ ProposedOncePerPair
  /\ DealHasPastProposedMatch
  /\ MatchedLoadHasMatch
  /\ ReviewedHasFeedback
  /\ NoDanglingVehicle

BookingInv == TypeOK /\ RowsAgree /\ SessionMatchStands

MovesForward ==
  /\ feedback \subseteq feedback'
  /\ \A p \in Pairs :
       /\ matches[p] # "none" => matches'[p] # "none"
       /\ matches[p] \notin {"none", "proposed"} => matches'[p] \notin {"none", "proposed"}
       /\ deals[p].propose <= deals'[p].propose
       /\ deals[p].from_match <= deals'[p].from_match

\* No handler, however stale what it read, makes a match, a verdict or a deal disappear, or
\* puts a match that has left "proposed" back among the agent's proposals.  (What was decided
\* may still be replaced: a stale rejection or verdict overwrites a promotion.)
HistoryMovesForward == [][MovesForward]_vars

Ledger ==
  INSTANCE BookingLedger WITH Loads <- Loads, Vehicles <- Vehicles,
                              loads <- loads, vehicles <- vehicles, deals <- deals

\* The handlers, each a chain of reads and a commit, implement the ledger's atomic
\* operations.  True when no two transactions overlap (PoolSize = 1, one load to match).
ImplementsLedger == Ledger!Spec

\* What makes it so: at most one request or run is in flight, what it has read is still true
\* when it writes, and a run leaves no load behind for which it has given its connection back.
OneInFlight ==
  /\ \A r, q \in Requests : sess[r] # Idle /\ sess[q] # Idle => r = q
  /\ \A m, k \in Runs : runs[m] # Idle /\ runs[k] # Idle => m = k
  /\ \A r \in Requests, m \in Runs : sess[r] = Idle \/ runs[m] = Idle
  /\ \A m \in Runs : runs[m].at = "load" => runs[m].held

\* What a session (a run) has read and will act on.
ReadStands(s) ==
  /\ s.at = "cancel_commit" => loads[s.load] \in {"new", "matched"}
  /\ s.at \in {"propose_load", "propose_deal", "propose_commit"} => vehicles[s.vehicle] = "available"
  /\ s.at \in {"propose_deal", "propose_commit"} => loads[s.load] \in {"new", "matched"}
  /\ s.at = "promote_commit" /\ "load" \notin s.dirty => loads[s.load] = "booked"

RunStands(x) ==
  /\ x.at = "load" => \A l \in x.todo : loads[l] = "new"
  /\ x.at \in {"llm", "commit"} => loads[x.load] = "new" /\ x.load \notin x.todo

SerialInv ==
  /\ OneInFlight
  /\ \A r \in Requests : ReadStands(sess[r])
  /\ \A m \in Runs : RunStands(runs[m])
  /\ \A l \in Loads, v \in Vehicles : matches[<<l, v>>] # "none" => loads[l] # "absent"

\* A proposal never takes a vehicle that a proposal has booked: the propose handler answers
\* 404 "not found or no longer available" for it.
ProposalNeverDoubleBooks ==
  [][\A l \in Loads, v \in Vehicles :
       vehicles[v] = "booked" /\ (\E k \in Loads : deals[<<k, v>>].propose > 0) =>
         deals'[<<l, v>>].propose = deals[<<l, v>>].propose]_vars

\* The matcher's module says it "only writes rows into the matches table": whatever else
\* it does, a load that was booked or cancelled keeps its status when a run goes on.
MatcherLeavesSettledLoads ==
  [][\A l \in Loads, m \in Runs :
       loads[l] \in {"booked", "cancelled"} /\ runs'[m] # runs[m] => loads'[l] = loads[l]]_vars
=============================================================================
