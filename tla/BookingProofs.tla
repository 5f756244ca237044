--------------------------- MODULE BookingProofs ---------------------------
(***************************************************************************)
(* Proofs about Booking, for any number of loads, vehicles, concurrent      *)
(* requests and matcher runs.                                               *)
(***************************************************************************)
EXTENDS Booking, TLAPS

\* A session that is at a step of a handler has the fields of that handler.
LEMMA SessionKind ==
  ASSUME TypeOK, NEW r \in Requests
  PROVE  /\ sess[r].at \in {"propose_load", "propose_deal", "propose_commit", "promote_load",
                            "promote_commit", "reject_commit", "feedback_commit"}
              => sess[r] \in PairSession
         /\ sess[r].at = "cancel_commit" => sess[r] \in LoadSession
         /\ sess[r].at = "edit_commit" => sess[r] \in EditSession
         /\ sess[r].at = "delete_commit" => sess[r] \in DeleteSession
<1>1. sess[r] \in Session
  BY DEF TypeOK
<1>2. /\ sess[r] \in PairSession => sess[r].at \notin {"cancel_commit", "edit_commit",
                                                     "delete_commit"}
      /\ sess[r] \in LoadSession => sess[r].at = "cancel_commit"
      /\ sess[r] \in EditSession => sess[r].at = "edit_commit"
      /\ sess[r] \in DeleteSession => sess[r].at = "delete_commit"
      /\ sess[r] = Idle => sess[r].at = "idle"
  BY DEF PairSession, LoadSession, EditSession, DeleteSession, Idle
<1>3. QED
  BY <1>1, <1>2 DEF Session

\* The same for a matcher run.
LEMMA RunKind ==
  ASSUME TypeOK, NEW m \in Runs
  PROVE  /\ runs[m].at = "load" => runs[m] \in RunAtLoad
         /\ runs[m].at = "llm" => runs[m] \in RunAtLLM
         /\ runs[m].at = "commit" => runs[m] \in RunAtCommit
<1>1. runs[m] \in Run
  BY DEF TypeOK
<1>2. /\ runs[m] \in RunAtLoad => runs[m].at = "load"
      /\ runs[m] \in RunAtLLM => runs[m].at = "llm"
      /\ runs[m] \in RunAtCommit => runs[m].at = "commit"
      /\ runs[m] = Idle => runs[m].at = "idle"
  BY DEF RunAtLoad, RunAtLLM, RunAtCommit, Idle
<1>3. QED
  BY <1>1, <1>2 DEF Run

-----------------------------------------------------------------------------
(* Type correctness, one lemma per handler.                                *)

\* Each step of a proposal keeps the types.
LEMMA ProposeType ==
  ASSUME TypeOK, NEW r \in Requests, Propose(r)
  PROVE  TypeOK'
<1> USE SessionKind
<1>1. ASSUME NEW l \in Loads, NEW v \in Vehicles, ProposeReadVehicle(r, l, v)
      PROVE  TypeOK'
  <2>1. [at |-> "propose_load", load |-> l, vehicle |-> v, dirty |-> {}] \in Session
    BY DEF Session, PairSession
  <2>2. QED
    BY <1>1, <2>1 DEF ProposeReadVehicle, Open, TypeOK, rows
<1>2. CASE ProposeReadLoad(r)
  BY <1>2 DEF ProposeReadLoad, Continue, Rollback, Close, TypeOK, rows, Session, PairSession
<1>3. CASE ProposeReadDeal(r)
  BY <1>3 DEF ProposeReadDeal, Continue, Rollback, Close, TypeOK, rows, Session, PairSession
<1>4. CASE ProposeCommit(r)
  <2> DEFINE l == sess[r].load
             v == sess[r].vehicle
  <2>1. l \in Loads /\ v \in Vehicles /\ <<l, v>> \in Pairs
    BY <1>4 DEF ProposeCommit, PairSession, Pairs
  <2>2. deals' \in [Pairs -> [propose: Nat, from_match: Nat]]
    BY <1>4, <2>1 DEF ProposeCommit, TypeOK
  <2>3. QED
    BY <1>4, <2>1, <2>2 DEF ProposeCommit, Close, TypeOK, Session, LoadStatus,
       VehicleStatus, MatchStatus
<1>5. CASE ProposeFails(r)
  BY <1>5 DEF ProposeFails, Rollback, Close, TypeOK, rows, Session
<1>6. QED
  BY <1>1, <1>2, <1>3, <1>4, <1>5 DEF Propose

\* Each step of a promotion keeps the types.
LEMMA PromoteType ==
  ASSUME TypeOK, NEW r \in Requests, Promote(r)
  PROVE  TypeOK'
<1> USE SessionKind
<1>1. ASSUME NEW l \in Loads, NEW v \in Vehicles, PromoteReadMatch(r, l, v)
      PROVE  TypeOK'
  <2> DEFINE d == IF matches[<<l, v>>] = "promoted" THEN {} ELSE {"match"}
  <2>1. [at |-> "promote_load", load |-> l, vehicle |-> v, dirty |-> d] \in Session
    BY DEF Session, PairSession
  <2>2. QED
    BY <1>1, <2>1 DEF PromoteReadMatch, Open, TypeOK, rows
<1>2. CASE PromoteReadLoad(r)
  <2>1. sess[r] \in PairSession /\ sess'[r] \in PairSession
    BY <1>2 DEF PromoteReadLoad, TypeOK, PairSession
  <2>2. sess' \in [Requests -> Session]
    BY <1>2, <2>1 DEF PromoteReadLoad, TypeOK, Session
  <2>3. QED
    BY <1>2, <2>2 DEF PromoteReadLoad, TypeOK, rows
<1>3. CASE PromoteCommit(r)
  <2> DEFINE l == sess[r].load
             v == sess[r].vehicle
  <2>1. l \in Loads /\ v \in Vehicles /\ <<l, v>> \in Pairs
    BY <1>3 DEF PromoteCommit, PairSession, Pairs
  <2>2. deals' \in [Pairs -> [propose: Nat, from_match: Nat]]
    BY <1>3, <2>1 DEF PromoteCommit, TypeOK
  <2>3. QED
    BY <1>3, <2>1, <2>2 DEF PromoteCommit, Close, TypeOK, Session, LoadStatus, MatchStatus
<1>4. QED
  BY <1>1, <1>2, <1>3 DEF Promote

\* A rejection and a verdict keep the types.
LEMMA ReviewType ==
  ASSUME TypeOK, NEW r \in Requests, Review(r)
  PROVE  TypeOK'
<1> USE SessionKind
<1>1. ASSUME NEW l \in Loads, NEW v \in Vehicles, RejectRead(r, l, v)
      PROVE  TypeOK'
  <2> DEFINE d == IF matches[<<l, v>>] = "rejected" THEN {} ELSE {"match"}
  <2>1. [at |-> "reject_commit", load |-> l, vehicle |-> v, dirty |-> d] \in Session
    BY DEF Session, PairSession
  <2>2. QED
    BY <1>1, <2>1 DEF RejectRead, Open, TypeOK, rows
<1>2. ASSUME NEW l \in Loads, NEW v \in Vehicles, FeedbackRead(r, l, v)
      PROVE  TypeOK'
  <2> DEFINE d == IF matches[<<l, v>>] = "proposed" THEN {"match"} ELSE {}
  <2>1. [at |-> "feedback_commit", load |-> l, vehicle |-> v, dirty |-> d] \in Session
    BY DEF Session, PairSession
  <2>2. QED
    BY <1>2, <2>1 DEF FeedbackRead, Open, TypeOK, rows
<1>3. CASE RejectCommit(r)
  BY <1>3 DEF RejectCommit, Close, TypeOK, Session, PairSession, Pairs, MatchStatus
<1>4. CASE FeedbackCommit(r)
  BY <1>4 DEF FeedbackCommit, Upsert, Close, TypeOK, Session, PairSession, Pairs, MatchStatus
<1>5. QED
  BY <1>1, <1>2, <1>3, <1>4 DEF Review

\* A cancellation keeps the types.
LEMMA CancelType ==
  ASSUME TypeOK, NEW r \in Requests, Cancel(r)
  PROVE  TypeOK'
<1> USE SessionKind
<1>1. ASSUME NEW l \in Loads, CancelRead(r, l)
      PROVE  TypeOK'
  BY <1>1 DEF CancelRead, Open, TypeOK, rows, Session, LoadSession
<1>2. CASE CancelCommit(r)
  BY <1>2 DEF CancelCommit, Close, TypeOK, Session, LoadSession, LoadStatus
<1>3. QED
  BY <1>1, <1>2 DEF Cancel

\* An edit and a deletion keep the types.
LEMMA FleetType ==
  ASSUME TypeOK, NEW r \in Requests, Fleet(r)
  PROVE  TypeOK'
<1> USE SessionKind
<1>1. ASSUME NEW v \in Vehicles, NEW form \in EditStatus, EditRead(r, v, form)
      PROVE  TypeOK'
  <2>1. [at |-> "edit_commit", vehicle |-> v, seen |-> vehicles[v], form |-> form] \in Session
    BY DEF Session, EditSession, TypeOK
  <2>2. QED
    BY <1>1, <2>1 DEF EditRead, Open, TypeOK, rows
<1>2. ASSUME NEW v \in Vehicles, DeleteRead(r, v)
      PROVE  TypeOK'
  BY <1>2 DEF DeleteRead, Open, TypeOK, rows, Session, DeleteSession
<1>3. CASE EditCommit(r)
  <2>1. PICK written \in BOOLEAN :
          vehicles' = IF written /\ vehicles[sess[r].vehicle] # "deleted"
                        THEN [vehicles EXCEPT ![sess[r].vehicle] = sess[r].form] ELSE vehicles
    BY <1>3 DEF EditCommit, Written
  <2>2. QED
    BY <1>3, <2>1 DEF EditCommit, Close, TypeOK, Session, EditSession, VehicleStatus, EditStatus
<1>4. CASE DeleteCommit(r)
  BY <1>4 DEF DeleteCommit, Close, TypeOK, Session, DeleteSession, VehicleStatus
<1>5. QED
  BY <1>1, <1>2, <1>3, <1>4 DEF Fleet

\* Each step of a matcher run keeps the types.
LEMMA MatchType ==
  ASSUME TypeOK, NEW m \in Runs, Match(m)
  PROVE  TypeOK'
<1> USE RunKind
<1>1. ASSUME NEW todo \in SUBSET Loads, NEW held \in BOOLEAN
      PROVE  NextLoad(todo, held) \in Run
  BY DEF NextLoad, Run, RunAtLoad
<1>2. ASSUME NEW s \in Run, SetRun(m, s), UNCHANGED rows
      PROVE  TypeOK'
  BY <1>2 DEF SetRun, TypeOK, rows
<1>3. Idle \in Run
  BY DEF Run
<1>4. CASE RunStart(m)
  <2>1. NextLoad({l \in Loads : loads[l] = "new"}, TRUE) \in Run
    BY <1>1
  <2>2. QED
    BY <1>4, <1>2, <2>1 DEF RunStart
<1>5. ASSUME NEW l \in Loads, RunPrefilter(m, l)
      PROVE  TypeOK'
  <2> DEFINE left == runs[m].todo \ {l}
  <2>1. left \in SUBSET Loads
    BY <1>5 DEF RunPrefilter, RunAtLoad
  <2>2. NextLoad(left, TRUE) \in Run /\ [at |-> "llm", todo |-> left, load |-> l] \in Run
    BY <1>1, <2>1 DEF Run, RunAtLLM
  <2>3. QED
    BY <1>5, <1>2, <2>2 DEF RunPrefilter
<1>6. ASSUME NEW answer \in SUBSET Vehicles, RunScore(m, answer)
      PROVE  TypeOK'
  <2> DEFINE next == [at |-> "commit", todo |-> runs[m].todo, load |-> runs[m].load,
                      picked |-> {v \in answer : matches[<<runs[m].load, v>>] = "none"}]
  <2>1. next \in Run
    BY <1>6 DEF RunScore, RunAtLLM, RunAtCommit, Run
  <2>2. QED
    BY <1>6, <1>2, <2>1 DEF RunScore
<1>7. CASE RunCommit(m)
  <2>1. runs[m] \in RunAtCommit
    BY <1>7 DEF RunCommit
  <2>2. NextLoad(runs[m].todo, FALSE) \in Run
    BY <1>1, <2>1 DEF RunAtCommit
  <2>3. QED
    BY <1>7, <2>1, <2>2 DEF RunCommit, SetRun, TypeOK, RunAtCommit, LoadStatus, MatchStatus
<1>8. CASE RunFails(m)
  BY <1>8, <1>2, <1>3 DEF RunFails
<1>9. CASE RunAborts(m)
  BY <1>9, <1>2, <1>3 DEF RunAborts
<1>10. QED
  BY <1>4, <1>5, <1>6, <1>7, <1>8, <1>9 DEF Match

\* Every step keeps the types.
LEMMA NextType == TypeOK /\ [Next]_vars => TypeOK'
<1> SUFFICES ASSUME TypeOK, [Next]_vars PROVE TypeOK'
  OBVIOUS
<1>1. ASSUME NEW l \in Loads, PostLoad(l) PROVE TypeOK'
  BY <1>1 DEF PostLoad, TypeOK, LoadStatus
<1>2. CASE Restart
  BY <1>2 DEF Restart, TypeOK, rows, Session, Run
<1>3. CASE UNCHANGED vars
  BY <1>3 DEF vars, TypeOK
<1>4. QED
  BY <1>1, <1>2, <1>3, ProposeType, PromoteType, ReviewType, CancelType, FleetType, MatchType
  DEF Next

\* Every row and every session keeps the shape the handlers rely on.
THEOREM TypeCorrect == Spec => []TypeOK
<1>1. Init => TypeOK
  BY DEF Init, TypeOK, LoadStatus, VehicleStatus, MatchStatus, Session, Run
<1>2. QED
  BY <1>1, NextType, PTL DEF Spec

-----------------------------------------------------------------------------
(* The inductive invariant.                                                *)

\* HasDeal as a comparison of the two counters.
LEMMA DealCount ==
  ASSUME TypeOK, NEW p \in Pairs
  PROVE  /\ deals[p].propose \in Nat /\ deals[p].from_match \in Nat
         /\ HasDeal(p) <=> deals[p].propose > 0 \/ deals[p].from_match > 0
BY DEF TypeOK, HasDeal

\* A deal stays a deal when the rows move forward.
LEMMA DealsStay ==
  ASSUME TypeOK, TypeOK', MovesForward, NEW p \in Pairs
  PROVE  HasDeal(p) => HasDeal(p)'
BY DEF TypeOK, HasDeal, MovesForward

\* A step that writes no row keeps what the rows say of one another.
LEMMA ReadKeepsRows ==
  ASSUME RowsAgree, UNCHANGED rows
  PROVE  RowsAgree'
BY DEF RowsAgree, rows, BookedLoadHasDeal, ProposedOncePerPair,
       DealHasPastProposedMatch, MatchedLoadHasMatch, ReviewedHasFeedback, NoDanglingVehicle,
       Unreferenced, HasDeal

\* A step that writes no row moves forward.
LEMMA ReadMovesForward ==
  ASSUME TypeOK, UNCHANGED rows
  PROVE  MovesForward
BY DEF MovesForward, rows, TypeOK

\* What SessionMatchStands says of one session.
MatchStands(s) ==
  LET p == <<s.load, s.vehicle>>
      promoting == s.at \in {"promote_load", "promote_commit"}
  IN  /\ promoting \/ s.at \in {"reject_commit", "feedback_commit"} => matches[p] # "none"
      /\ promoting /\ "match" \notin s.dirty => matches[p] # "proposed"

\* A step that moves the rows forward keeps it for the sessions that do not move, so only
\* the one that moves has to be looked at.
LEMMA OthersStand ==
  ASSUME TypeOK, SessionMatchStands, MovesForward,
         \A r \in Requests : sess'[r] = sess[r] \/ MatchStands(sess[r])'
  PROVE  SessionMatchStands'
<1>1. SUFFICES ASSUME NEW r \in Requests, sess'[r] = sess[r]
               PROVE  MatchStands(sess[r])'
  BY DEF SessionMatchStands, MatchStands
<1>2. MatchStands(sess[r])
  BY DEF SessionMatchStands, MatchStands
<1>3. CASE sess[r] \in PairSession
  <2> DEFINE p == <<sess[r].load, sess[r].vehicle>>
  <2>1. p \in Pairs
    BY <1>3 DEF PairSession, Pairs
  <2>2. /\ matches[p] # "none" => matches'[p] # "none"
        /\ matches[p] \notin {"none", "proposed"} => matches'[p] \notin {"none", "proposed"}
    BY <2>1 DEF MovesForward
  <2>3. QED
    BY <1>1, <1>2, <2>2 DEF MatchStands
<1>4. CASE sess[r] \notin PairSession
  <2>1. sess[r].at \notin {"promote_load", "promote_commit", "reject_commit", "feedback_commit"}
    BY <1>4, SessionKind
  <2>2. QED
    BY <1>1, <2>1 DEF MatchStands
<1>5. QED
  BY <1>3, <1>4

\* A session that ends, or is not about an existing match, satisfies it at once.
LEMMA ClosedStands ==
  ASSUME TypeOK, NEW r \in Requests, Close(r), SessionMatchStands, MovesForward
  PROVE  SessionMatchStands'
<1>1. MatchStands(sess[r])'
  BY DEF Close, TypeOK, MatchStands, Idle
<1>2. \A q \in Requests : q # r => sess'[q] = sess[q]
  BY DEF Close, TypeOK
<1>3. QED
  BY <1>1, <1>2, OthersStand

\* What a step has to leave behind.
Kept == RowsAgree' /\ SessionMatchStands' /\ MovesForward

\* A read by a request: no row changes, and the session it leaves satisfies MatchStands.
LEMMA ReadKeeps ==
  ASSUME BookingInv, UNCHANGED rows, NEW r \in Requests, NEW s,
         sess' = [sess EXCEPT ![r] = s], MatchStands(s)
  PROVE  Kept
<1>1. TypeOK /\ RowsAgree /\ SessionMatchStands
  BY DEF BookingInv
<1>2. RowsAgree' /\ MovesForward
  BY <1>1, ReadKeepsRows, ReadMovesForward
<1>3. \A q \in Requests : sess'[q] = IF q = r THEN s ELSE sess[q]
  BY <1>1 DEF TypeOK
<1>4. MatchStands(sess[r])'
  BY <1>3 DEF MatchStands, rows
<1>5. QED
  BY <1>1, <1>2, <1>3, <1>4, OthersStand DEF Kept

\* A rollback keeps the invariant and the history.
LEMMA RollbackKeeps ==
  ASSUME BookingInv, NEW r \in Requests, Rollback(r)
  PROVE  Kept
<1>1. MatchStands(Idle)
  BY DEF MatchStands, Idle
<1>2. QED
  BY <1>1, ReadKeeps DEF Rollback, Close

\* A proposal keeps the invariant and the history.
LEMMA ProposeKeeps ==
  ASSUME BookingInv, TypeOK', NEW r \in Requests, Propose(r)
  PROVE  Kept
<1>0. TypeOK /\ RowsAgree /\ SessionMatchStands
  BY DEF BookingInv
<1>1. ASSUME NEW l \in Loads, NEW v \in Vehicles, ProposeReadVehicle(r, l, v)
      PROVE  Kept
  <2> DEFINE s == [at |-> "propose_load", load |-> l, vehicle |-> v, dirty |-> {}]
  <2>1. MatchStands(s)
    BY DEF MatchStands
  <2>2. UNCHANGED rows /\ sess' = [sess EXCEPT ![r] = s]
    BY <1>1 DEF ProposeReadVehicle, Open
  <2>3. QED
    BY <2>1, <2>2, ReadKeeps
<1>2. ASSUME NEW at \in {"propose_deal", "propose_commit"}, Continue(r, at), sess[r] \in PairSession
      PROVE  Kept
  <2> DEFINE s == [sess[r] EXCEPT !.at = at]
  <2>1. s.at = at
    BY <1>2 DEF PairSession
  <2>2. MatchStands(s)
    BY <2>1 DEF MatchStands
  <2>3. sess' = [sess EXCEPT ![r] = s] /\ UNCHANGED rows
    BY <1>2 DEF Continue
  <2>4. QED
    BY <2>2, <2>3, ReadKeeps
<1>3. CASE ProposeReadLoad(r)
  BY <1>0, <1>2, <1>3, RollbackKeeps, SessionKind DEF ProposeReadLoad
<1>4. CASE ProposeReadDeal(r)
  BY <1>0, <1>2, <1>4, RollbackKeeps, SessionKind DEF ProposeReadDeal
<1>5. CASE ProposeFails(r)
  BY <1>5, RollbackKeeps DEF ProposeFails
<1>6. CASE ProposeCommit(r)
  <2>0. PICK l \in Loads, v \in Vehicles : l = sess[r].load /\ v = sess[r].vehicle
    BY <1>0, <1>6, SessionKind DEF ProposeCommit, PairSession
  <2> DEFINE p == <<l, v>>
  <2>1. p \in Pairs
    BY DEF Pairs
  <2>2. /\ matches[p] = "none"
        /\ vehicles[v] # "deleted"
        /\ matches' = [matches EXCEPT ![p] = "promoted"]
        /\ deals' = [deals EXCEPT ![p].propose = @ + 1]
        /\ vehicles' = [vehicles EXCEPT ![v] = "booked"]
        /\ loads' = [loads EXCEPT ![l] = "booked"]
        /\ Close(r) /\ feedback' = feedback
    BY <1>6, <2>0 DEF ProposeCommit, ProposalFits, CanInsertMatch
  <2>3. ~HasDeal(p)
    BY <1>0, <2>1, <2>2 DEF RowsAgree, DealHasPastProposedMatch
  <2>4. /\ deals'[p].propose = deals[p].propose + 1 /\ deals'[p].from_match = deals[p].from_match
        /\ \A q \in Pairs : q # p => deals'[q] = deals[q] /\ matches'[q] = matches[q]
        /\ matches'[p] = "promoted"
    BY <1>0, <2>1, <2>2 DEF TypeOK
  <2>5. deals[p].propose = 0 /\ deals[p].from_match = 0
    BY <1>0, <2>1, <2>3, DealCount
  <2>6. MovesForward
    BY <1>0, <2>2, <2>4, DealCount DEF MovesForward
  <2>7. HasDeal(p)' /\ deals'[p].propose = 1
    BY <2>4, <2>5 DEF HasDeal
  <2>8. BookedLoadHasDeal'
    BY <1>0, <2>1, <2>2, <2>6, <2>7, DealsStay DEF RowsAgree, BookedLoadHasDeal, TypeOK, Pairs
  <2>9. ProposedOncePerPair'
    BY <1>0, <2>4, <2>7 DEF RowsAgree, ProposedOncePerPair
  <2>10. DealHasPastProposedMatch'
    BY <1>0, <2>4 DEF RowsAgree, DealHasPastProposedMatch, HasDeal
  <2>11. MatchedLoadHasMatch'
    BY <1>0, <2>1, <2>2, <2>4 DEF RowsAgree, MatchedLoadHasMatch, TypeOK, Pairs
  <2>12. ReviewedHasFeedback'
    BY <1>0, <2>2, <2>4 DEF RowsAgree, ReviewedHasFeedback
  <2>13. NoDanglingVehicle'
    BY <1>0, <2>1, <2>2, <2>4 DEF RowsAgree, NoDanglingVehicle, Unreferenced, HasDeal, TypeOK, Pairs
  <2>14. SessionMatchStands'
    BY <1>0, <2>2, <2>6, ClosedStands
  <2>15. QED
    BY <2>6, <2>8, <2>9, <2>10, <2>11, <2>12, <2>13, <2>14 DEF Kept, RowsAgree
<1>7. QED
  BY <1>1, <1>3, <1>4, <1>5, <1>6 DEF Propose

\* A promotion keeps the invariant and the history.
LEMMA PromoteKeeps ==
  ASSUME BookingInv, TypeOK', NEW r \in Requests, Promote(r)
  PROVE  Kept
<1>0. TypeOK /\ RowsAgree /\ SessionMatchStands
  BY DEF BookingInv
<1>1. ASSUME NEW l \in Loads, NEW v \in Vehicles, PromoteReadMatch(r, l, v)
      PROVE  Kept
  <2> DEFINE d == IF matches[<<l, v>>] = "promoted" THEN {} ELSE {"match"}
             s == [at |-> "promote_load", load |-> l, vehicle |-> v, dirty |-> d]
  <2>1. MatchStands(s)
    BY <1>1 DEF MatchStands, PromoteReadMatch
  <2>2. UNCHANGED rows /\ sess' = [sess EXCEPT ![r] = s]
    BY <1>1 DEF PromoteReadMatch, Open
  <2>3. QED
    BY <2>1, <2>2, ReadKeeps
<1>2. CASE PromoteReadLoad(r)
  <2>1. sess[r] \in PairSession /\ sess[r].at = "promote_load" /\ UNCHANGED rows
    BY <1>0, <1>2, SessionKind DEF PromoteReadLoad
  <2>2. /\ sess'[r].at = "promote_commit"
        /\ sess'[r].load = sess[r].load /\ sess'[r].vehicle = sess[r].vehicle
        /\ sess[r].dirty \subseteq sess'[r].dirty
    BY <1>0, <1>2, <2>1 DEF PromoteReadLoad, TypeOK, PairSession
  <2>3. MatchStands(sess[r])'
    BY <1>0, <2>1, <2>2 DEF MatchStands, SessionMatchStands, rows
  <2>4. \A q \in Requests : q # r => sess'[q] = sess[q]
    BY <1>0, <1>2 DEF PromoteReadLoad, TypeOK
  <2>5. RowsAgree' /\ MovesForward
    BY <1>0, <2>1, ReadKeepsRows, ReadMovesForward
  <2>6. QED
    BY <1>0, <2>3, <2>4, <2>5, OthersStand DEF Kept
<1>3. CASE PromoteCommit(r)
  <2>0. PICK l \in Loads, v \in Vehicles : l = sess[r].load /\ v = sess[r].vehicle
    BY <1>0, <1>3, SessionKind DEF PromoteCommit, PairSession
  <2> DEFINE p == <<l, v>>
  <2>1. p \in Pairs
    BY DEF Pairs
  <2>2. /\ deals' = [deals EXCEPT ![p].from_match = @ + 1]
        /\ matches' = matches \/ matches' = [matches EXCEPT ![p] = "promoted"]
        /\ loads' = loads \/ loads' = [loads EXCEPT ![l] = "booked"]
        /\ "match" \in sess[r].dirty => matches' = [matches EXCEPT ![p] = "promoted"]
        /\ Close(r) /\ vehicles' = vehicles /\ feedback' = feedback
    BY <1>3, <2>0 DEF PromoteCommit
  <2>3. matches[p] # "none" /\ ("match" \notin sess[r].dirty => matches[p] # "proposed")
    BY <1>0, <1>3, <2>0 DEF PromoteCommit, SessionMatchStands
  <2>4. /\ deals'[p].from_match = deals[p].from_match + 1 /\ deals'[p].propose = deals[p].propose
        /\ \A q \in Pairs : q # p => deals'[q] = deals[q] /\ matches'[q] = matches[q]
        /\ matches'[p] \notin {"none", "proposed"}
        /\ matches'[p] = matches[p] \/ matches'[p] = "promoted"
    BY <1>0, <2>1, <2>2, <2>3 DEF TypeOK
  <2>5. MovesForward
    BY <1>0, <2>2, <2>4, DealCount DEF MovesForward
  <2>6. HasDeal(p)'
    BY <1>0, <2>1, <2>4, DealCount DEF HasDeal
  <2>7. BookedLoadHasDeal'
    <3>1. SUFFICES ASSUME NEW k \in Loads, loads'[k] = "booked"
                   PROVE  \E u \in Vehicles : HasDeal(<<k, u>>)'
      BY DEF BookedLoadHasDeal
    <3>2. CASE k = l
      BY <2>6, <3>2
    <3>3. CASE k # l
      <4>1. loads[k] = "booked"
        BY <1>0, <2>2, <3>1, <3>3 DEF TypeOK
      <4>2. PICK u \in Vehicles : HasDeal(<<k, u>>)
        BY <1>0, <4>1 DEF RowsAgree, BookedLoadHasDeal
      <4>3. <<k, u>> \in Pairs
        BY DEF Pairs
      <4>4. QED
        BY <1>0, <2>5, <4>2, <4>3, DealsStay
    <3>4. QED
      BY <3>2, <3>3
  <2>8. ProposedOncePerPair'
    BY <1>0, <2>4 DEF RowsAgree, ProposedOncePerPair
  <2>9. DealHasPastProposedMatch'
    BY <1>0, <2>4 DEF RowsAgree, DealHasPastProposedMatch, HasDeal
  <2>10. MatchedLoadHasMatch'
    <3>1. \A k \in Loads : loads'[k] = "matched" => loads[k] = "matched"
      BY <1>0, <2>2 DEF TypeOK
    <3>2. QED
      BY <1>0, <2>5, <3>1 DEF RowsAgree, MatchedLoadHasMatch, MovesForward, Pairs
  <2>11. ReviewedHasFeedback'
    BY <1>0, <2>2, <2>4 DEF RowsAgree, ReviewedHasFeedback
  <2>12. NoDanglingVehicle'
    BY <1>0, <2>1, <2>2, <2>3, <2>4 DEF RowsAgree, NoDanglingVehicle, Unreferenced, HasDeal, Pairs
  <2>13. SessionMatchStands'
    BY <1>0, <2>2, <2>5, ClosedStands
  <2>14. QED
    BY <2>5, <2>7, <2>8, <2>9, <2>10, <2>11, <2>12, <2>13 DEF Kept, RowsAgree
<1>4. QED
  BY <1>1, <1>2, <1>3 DEF Promote

\* A review writes "rejected" or "reviewed" into an existing match, with a verdict for the latter.
LEMMA ReviewKeeps ==
  ASSUME BookingInv, TypeOK', NEW r \in Requests, Review(r)
  PROVE  Kept
<1>0. TypeOK /\ RowsAgree /\ SessionMatchStands
  BY DEF BookingInv
<1>1. ASSUME NEW at \in {"reject_commit", "feedback_commit"}, NEW l, NEW v, NEW d,
             matches[<<l, v>>] # "none", UNCHANGED rows,
             Open(r, [at |-> at, load |-> l, vehicle |-> v, dirty |-> d])
      PROVE  Kept
  <2> DEFINE s == [at |-> at, load |-> l, vehicle |-> v, dirty |-> d]
  <2>1. MatchStands(s)
    BY <1>1 DEF MatchStands
  <2>2. sess' = [sess EXCEPT ![r] = s]
    BY <1>1 DEF Open
  <2>3. QED
    BY <1>1, <2>1, <2>2, ReadKeeps
<1>2. ASSUME NEW l \in Loads, NEW v \in Vehicles, RejectRead(r, l, v)
      PROVE  Kept
  BY <1>1, <1>2 DEF RejectRead
<1>3. ASSUME NEW l \in Loads, NEW v \in Vehicles, FeedbackRead(r, l, v)
      PROVE  Kept
  BY <1>1, <1>3 DEF FeedbackRead
<1>4. CASE RejectCommit(r) \/ FeedbackCommit(r)
  <2>0. PICK l \in Loads, v \in Vehicles : l = sess[r].load /\ v = sess[r].vehicle
    BY <1>0, <1>4, SessionKind DEF RejectCommit, FeedbackCommit, PairSession
  <2> DEFINE p == <<l, v>>
  <2>1. p \in Pairs
    BY DEF Pairs
  <2>2. /\ \/ matches' = matches
           \/ matches' = [matches EXCEPT ![p] = "rejected"]
           \/ matches' = [matches EXCEPT ![p] = "reviewed"] /\ p \in feedback'
        /\ feedback \subseteq feedback'
        /\ Close(r) /\ vehicles' = vehicles /\ loads' = loads /\ deals' = deals
    BY <1>4, <2>0 DEF RejectCommit, FeedbackCommit, Upsert
  <2>3. matches[p] # "none"
    BY <1>0, <1>4, <2>0 DEF RejectCommit, FeedbackCommit, SessionMatchStands
  <2>4. /\ \A q \in Pairs : q # p => matches'[q] = matches[q]
        /\ matches'[p] \in {matches[p], "rejected", "reviewed"}
        /\ matches'[p] = "reviewed" => matches[p] = "reviewed" \/ p \in feedback'
    BY <1>0, <2>1, <2>2 DEF TypeOK
  <2>5. MovesForward
    BY <1>0, <2>2, <2>3, <2>4, DealCount DEF MovesForward
  <2>6. BookedLoadHasDeal' /\ ProposedOncePerPair'
    BY <1>0, <2>2 DEF RowsAgree, BookedLoadHasDeal,
       ProposedOncePerPair, HasDeal
  <2>7. DealHasPastProposedMatch'
    BY <1>0, <2>2, <2>5 DEF RowsAgree, DealHasPastProposedMatch, HasDeal, MovesForward
  <2>8. MatchedLoadHasMatch'
    BY <1>0, <2>2, <2>5 DEF RowsAgree, MatchedLoadHasMatch, MovesForward, Pairs
  <2>9. ReviewedHasFeedback'
    BY <1>0, <2>2, <2>4 DEF RowsAgree, ReviewedHasFeedback
  <2>10. NoDanglingVehicle'
    BY <1>0, <2>1, <2>2, <2>3, <2>4 DEF RowsAgree, NoDanglingVehicle, Unreferenced, HasDeal, Pairs
  <2>11. SessionMatchStands'
    BY <1>0, <2>2, <2>5, ClosedStands
  <2>12. QED
    BY <2>5, <2>6, <2>7, <2>8, <2>9, <2>10, <2>11 DEF Kept, RowsAgree
<1>5. QED
  BY <1>2, <1>3, <1>4 DEF Review

\* A cancellation keeps the invariant and the history.
LEMMA CancelKeeps ==
  ASSUME BookingInv, TypeOK', NEW r \in Requests, Cancel(r)
  PROVE  Kept
<1>0. TypeOK /\ RowsAgree /\ SessionMatchStands
  BY DEF BookingInv
<1>1. ASSUME NEW l \in Loads, CancelRead(r, l)
      PROVE  Kept
  <2>1. MatchStands([at |-> "cancel_commit", load |-> l])
    BY DEF MatchStands
  <2>2. QED
    BY <1>1, <2>1, ReadKeeps DEF CancelRead, Open
<1>2. CASE CancelCommit(r)
  <2>1. UNCHANGED <<vehicles, matches, deals, feedback>> /\ Close(r)
    BY <1>2 DEF CancelCommit
  <2>2. \A k \in Loads : loads'[k] \in {loads[k], "cancelled"}
    BY <1>0, <1>2 DEF CancelCommit, TypeOK
  <2>3. MovesForward
    BY <1>0, <2>1, DealCount DEF MovesForward
  <2>4. RowsAgree'
    BY <1>0, <2>1, <2>2 DEF RowsAgree, BookedLoadHasDeal,
       ProposedOncePerPair, DealHasPastProposedMatch, MatchedLoadHasMatch, ReviewedHasFeedback,
       NoDanglingVehicle, Unreferenced, HasDeal
  <2>5. QED
    BY <1>0, <2>1, <2>3, <2>4, ClosedStands DEF Kept
<1>3. QED
  BY <1>1, <1>2 DEF Cancel

\* An edit and a deletion keep the invariant and the history.
LEMMA FleetKeeps ==
  ASSUME BookingInv, TypeOK', NEW r \in Requests, Fleet(r)
  PROVE  Kept
<1>0. TypeOK /\ RowsAgree /\ SessionMatchStands
  BY DEF BookingInv
<1>1. ASSUME NEW v \in Vehicles, NEW form \in EditStatus, EditRead(r, v, form)
      PROVE  Kept
  <2> DEFINE s == [at |-> "edit_commit", vehicle |-> v, seen |-> vehicles[v], form |-> form]
  <2>1. MatchStands(s)
    BY DEF MatchStands
  <2>2. QED
    BY <1>1, <2>1, ReadKeeps DEF EditRead, Open
<1>2. ASSUME NEW v \in Vehicles, DeleteRead(r, v)
      PROVE  Kept
  <2>1. MatchStands([at |-> "delete_commit", vehicle |-> v])
    BY DEF MatchStands
  <2>2. QED
    BY <1>2, <2>1, ReadKeeps DEF DeleteRead, Open
<1>3. CASE EditCommit(r) \/ DeleteCommit(r)
  <2>1. UNCHANGED <<loads, matches, deals, feedback>> /\ Close(r)
    BY <1>3 DEF EditCommit, DeleteCommit
  <2>2. \A u \in Vehicles : vehicles'[u] = "deleted" =>
                             vehicles[u] = "deleted" \/ Unreferenced(u)
    <3>1. CASE EditCommit(r)
      BY <1>0, <3>1, SessionKind DEF EditCommit, EditSession, EditStatus, TypeOK
    <3>2. CASE DeleteCommit(r)
      BY <1>0, <3>2 DEF DeleteCommit, TypeOK
    <3>3. QED
      BY <1>3, <3>1, <3>2
  <2>3. MovesForward
    BY <1>0, <2>1, DealCount DEF MovesForward
  <2>4. RowsAgree'
    BY <1>0, <2>1, <2>2 DEF RowsAgree, BookedLoadHasDeal,
       ProposedOncePerPair, DealHasPastProposedMatch, MatchedLoadHasMatch, ReviewedHasFeedback,
       NoDanglingVehicle, Unreferenced, HasDeal
  <2>5. QED
    BY <1>0, <2>1, <2>3, <2>4, ClosedStands DEF Kept
<1>4. QED
  BY <1>1, <1>2, <1>3 DEF Fleet

\* A run writes rows only at a commit, and only inserts matches that are not there.
LEMMA MatchKeeps ==
  ASSUME BookingInv, TypeOK', NEW m \in Runs, Match(m)
  PROVE  Kept
<1>0. TypeOK /\ RowsAgree /\ SessionMatchStands
  BY DEF BookingInv
<1>1. sess' = sess
  BY DEF Match, RunStart, RunPrefilter, RunScore, RunCommit, RunFails, RunAborts, SetRun
<1>2. MovesForward => SessionMatchStands'
  BY <1>0, <1>1, OthersStand
<1>3. CASE UNCHANGED rows
  BY <1>0, <1>2, <1>3, ReadKeepsRows, ReadMovesForward DEF Kept
<1>4. CASE RunCommit(m)
  <2>0. PICK l \in Loads, picked \in SUBSET Vehicles : l = runs[m].load /\ picked = runs[m].picked
    BY <1>0, <1>4, RunKind DEF RunCommit, RunAtCommit
  <2>1. \A v \in picked : matches[<<l, v>>] = "none" /\ vehicles[v] # "deleted"
    BY <1>4, <2>0 DEF RunCommit, CanInsertMatch
  <2>2. /\ UNCHANGED <<vehicles, deals, feedback>>
        /\ matches' = [p \in Pairs |->
             IF p[1] = l /\ p[2] \in picked THEN "proposed" ELSE matches[p]]
        /\ loads' = loads \/ (picked # {} /\ loads' = [loads EXCEPT ![l] = "matched"])
    BY <1>4, <2>0 DEF RunCommit, Marks
  <2>3. \A k \in Loads, v \in Vehicles :
          matches'[<<k, v>>] = IF k = l /\ v \in picked THEN "proposed" ELSE matches[<<k, v>>]
    BY <2>2 DEF Pairs
  <2>4. ASSUME NEW p \in Pairs
        PROVE  matches'[p] = matches[p] \/ (matches[p] = "none" /\ matches'[p] = "proposed")
    <3>1. PICK k \in Loads, v \in Vehicles : p = <<k, v>>
      BY DEF Pairs
    <3>2. k = l /\ v \in picked => matches[p] = "none"
      BY <2>1, <3>1
    <3>3. QED
      BY <2>3, <3>1, <3>2
  <2>5. MovesForward
    BY <1>0, <2>2, <2>4, DealCount DEF MovesForward
  <2>6. BookedLoadHasDeal' /\ ProposedOncePerPair'
    BY <1>0, <2>2 DEF RowsAgree, BookedLoadHasDeal, ProposedOncePerPair,
       HasDeal, TypeOK
  <2>7. DealHasPastProposedMatch' /\ ReviewedHasFeedback'
    BY <1>0, <2>2, <2>4 DEF RowsAgree, DealHasPastProposedMatch, ReviewedHasFeedback, HasDeal
  <2>8. MatchedLoadHasMatch'
    <3>1. SUFFICES ASSUME NEW k \in Loads, loads'[k] = "matched"
                   PROVE  \E v \in Vehicles : matches'[<<k, v>>] # "none"
      BY DEF MatchedLoadHasMatch
    <3>2. CASE loads[k] = "matched"
      BY <1>0, <2>5, <3>2 DEF RowsAgree, MatchedLoadHasMatch, MovesForward, Pairs
    <3>3. CASE loads[k] # "matched"
      BY <1>0, <2>2, <2>3, <3>1, <3>3 DEF TypeOK
    <3>4. QED
      BY <3>2, <3>3
  <2>9. NoDanglingVehicle'
    BY <1>0, <2>1, <2>2, <2>3 DEF RowsAgree, NoDanglingVehicle, Unreferenced, HasDeal
  <2>10. QED
    BY <1>2, <2>5, <2>6, <2>7, <2>8, <2>9 DEF Kept, RowsAgree
<1>5. QED
  BY <1>3, <1>4 DEF Match, RunStart, RunPrefilter, RunScore, RunFails, RunAborts

\* Every step keeps the invariant and the history.
LEMMA NextKeeps ==
  ASSUME BookingInv, [Next]_vars
  PROVE  BookingInv' /\ MovesForward
<1>0. TypeOK /\ RowsAgree /\ SessionMatchStands /\ TypeOK'
  BY NextType DEF BookingInv
<1>1. SUFFICES Kept
  BY <1>0 DEF Kept, BookingInv
<1>2. ASSUME NEW l \in Loads, PostLoad(l)
      PROVE  Kept
  <2>1. UNCHANGED <<vehicles, matches, deals, feedback, sess>>
    BY <1>2 DEF PostLoad
  <2>2. \A k \in Loads : loads'[k] \in {loads[k], "new"}
    BY <1>0, <1>2 DEF PostLoad, TypeOK
  <2>3. MovesForward
    BY <1>0, <2>1, DealCount DEF MovesForward
  <2>4. RowsAgree'
    BY <1>0, <2>1, <2>2 DEF RowsAgree, BookedLoadHasDeal,
       ProposedOncePerPair, DealHasPastProposedMatch, MatchedLoadHasMatch, ReviewedHasFeedback,
       NoDanglingVehicle, Unreferenced, HasDeal
  <2>5. QED
    BY <1>0, <2>1, <2>3, <2>4, OthersStand DEF Kept
<1>3. CASE Restart
  <2>1. UNCHANGED rows /\ \A q \in Requests : sess'[q] = Idle
    BY <1>3 DEF Restart
  <2>2. \A q \in Requests : MatchStands(sess[q])'
    BY <2>1 DEF MatchStands, Idle
  <2>3. QED
    BY <1>0, <2>1, <2>2, ReadKeepsRows, ReadMovesForward, OthersStand DEF Kept
<1>4. CASE UNCHANGED vars
  <2>1. UNCHANGED rows /\ UNCHANGED sess
    BY <1>4 DEF vars, rows
  <2>2. QED
    BY <1>0, <2>1, ReadKeepsRows, ReadMovesForward, OthersStand DEF Kept
<1>5. QED
  BY <1>0, <1>2, <1>3, <1>4, ProposeKeeps, PromoteKeeps, ReviewKeeps, CancelKeeps, FleetKeeps,
     MatchKeeps DEF Next

-----------------------------------------------------------------------------
(* The theorems.                                                           *)

\* The rows agree with one another in every reachable state, and every open session is
\* right about the match it will write.
THEOREM BookingInvariant == Spec => []BookingInv
<1>1. Init => BookingInv
  <2>1. Init => TypeOK
    BY DEF Init, TypeOK, LoadStatus, VehicleStatus, MatchStatus, Session, Run
  <2>2. Init => RowsAgree /\ SessionMatchStands
    BY DEF Init, RowsAgree, SessionMatchStands, BookedLoadHasDeal,
       ProposedOncePerPair, DealHasPastProposedMatch, MatchedLoadHasMatch, ReviewedHasFeedback,
       NoDanglingVehicle, HasDeal, Idle, Pairs
  <2>3. QED
    BY <2>1, <2>2 DEF BookingInv
<1>2. BookingInv /\ [Next]_vars => BookingInv'
  BY NextKeeps
<1>3. QED
  BY <1>1, <1>2, PTL DEF Spec

\* However many requests race on one pair of a load and a vehicle, proposals make at most
\* one deal of it.
THEOREM ProposalOnce == Spec => []ProposedOncePerPair
<1>1. BookingInv => ProposedOncePerPair
  BY DEF BookingInv, RowsAgree
<1>2. QED
  BY <1>1, BookingInvariant, PTL

\* A booked load always has a deal.  (A booked vehicle need not: the fleet form may say so.)
THEOREM BookedHasDeal == Spec => []BookedLoadHasDeal
<1>1. BookingInv => BookedLoadHasDeal
  BY DEF BookingInv, RowsAgree
<1>2. QED
  BY <1>1, BookingInvariant, PTL

\* A deal's match exists and was decided on, a matched load has a match, a reviewed match
\* has a verdict, and nothing refers to a deleted vehicle.
THEOREM RowsConsistent ==
  Spec => /\ []DealHasPastProposedMatch
          /\ []MatchedLoadHasMatch
          /\ []ReviewedHasFeedback
          /\ []NoDanglingVehicle
<1>1. BookingInv => /\ DealHasPastProposedMatch
                    /\ MatchedLoadHasMatch
                    /\ ReviewedHasFeedback
                    /\ NoDanglingVehicle
  BY DEF BookingInv, RowsAgree
<1>2. QED
  BY <1>1, BookingInvariant, PTL

\* No step of any handler makes a match, a verdict or a deal disappear, and no match goes back
\* to "proposed".  Nothing more: a promotion may be overwritten by a rejection or a verdict.
THEOREM HistoryForward == Spec => HistoryMovesForward
<1>1. BookingInv /\ [Next]_vars => [MovesForward]_vars
  BY NextKeeps
<1>2. QED
  BY <1>1, BookingInvariant, PTL DEF Spec, HistoryMovesForward
=============================================================================
