------------------------ MODULE BookingSerialProofs ------------------------
(***************************************************************************)
(* Transactions of Booking that do not overlap implement BookingLedger: the *)
(* reads and rollbacks are stutters, each commit is one operation of the    *)
(* ledger.  What keeps them apart is the pool, if it has one connection.    *)
(***************************************************************************)
EXTENDS BookingProofs, FiniteSetTheorems

\* One connection; and since a matcher run gives it back between two loads, either no run
\* or one load.
Serial ==
  /\ PoolSize = 1
  /\ IsFiniteSet(Requests) /\ IsFiniteSet(Runs)
  /\ Runs = {} \/ \A k, l \in Loads : k = l

Holding(m) == runs[m].at \in {"llm", "commit"} \/ (runs[m].at = "load" /\ runs[m].held)

\* A free connection of a pool of one means that nobody is in flight.
LEMMA NobodyInFlight ==
  ASSUME Serial, HasConnection, TypeOK, OneInFlight
  PROVE  (\A r \in Requests : sess[r] = Idle) /\ (\A m \in Runs : runs[m] = Idle)
<1> DEFINE open == {r \in Requests : sess[r] # Idle}
           held == {m \in Runs : Holding(m)}
<1>1. InFlight = Cardinality(open) + Cardinality(held)
  BY DEF InFlight, Holding
<1>2. IsFiniteSet(open) /\ IsFiniteSet(held)
  BY FS_Subset DEF Serial
<1>3. Cardinality(open) \in Nat /\ Cardinality(held) \in Nat
  BY <1>2, FS_CardinalityType
<1>4. Cardinality(open) = 0 /\ Cardinality(held) = 0
  BY <1>1, <1>3 DEF HasConnection, Serial
<1>5. open = {} /\ held = {}
  BY <1>2, <1>4, FS_EmptySet
<1>6. ASSUME NEW m \in Runs PROVE runs[m] = Idle
  <2>1. ~Holding(m)
    BY <1>5
  <2>2. runs[m].at \notin {"load", "llm", "commit"}
    BY <2>1 DEF Holding, OneInFlight
  <2>3. runs[m] \in Run
    BY DEF TypeOK
  <2>4. QED
    BY <2>2, <2>3 DEF Run, RunAtLoad, RunAtLLM, RunAtCommit
<1>7. QED
  BY <1>5, <1>6

\* A session at a step of a handler is not idle.
LEMMA Busy ==
  ASSUME TypeOK
  PROVE  /\ \A r \in Requests : sess[r] # Idle <=> sess[r].at # "idle"
         /\ \A m \in Runs : runs[m] # Idle <=> runs[m].at # "idle"
BY DEF TypeOK, Session, PairSession, LoadSession, EditSession, DeleteSession, Idle,
       Run, RunAtLoad, RunAtLLM, RunAtCommit

OthersIdle(r) ==
  /\ \A q \in Requests : q # r => sess[q] = Idle
  /\ \A m \in Runs : runs[m] = Idle

MatchHasLoad ==
  \A l \in Loads, v \in Vehicles : matches[<<l, v>>] # "none" => loads[l] # "absent"

\* While a session is in flight, or opens, all others are idle.
LEMMA AloneInFlight ==
  ASSUME Serial, SerialInv, TypeOK, NEW r \in Requests, HasConnection \/ sess[r] # Idle
  PROVE  OthersIdle(r)
BY NobodyInFlight DEF SerialInv, OneInFlight, OthersIdle

\* A request in flight does a step, and what it holds afterwards stands.
LEMMA RequestKeeps ==
  ASSUME TypeOK, NEW r \in Requests, OthersIdle(r), NEW s,
         sess' = [sess EXCEPT ![r] = s], UNCHANGED runs, ReadStands(s)', MatchHasLoad'
  PROVE  SerialInv'
<1>1. \A q \in Requests : sess'[q] = IF q = r THEN s ELSE Idle
  BY DEF TypeOK, OthersIdle
<1>2. \A m \in Runs : runs'[m] = Idle
  BY DEF OthersIdle
<1>3. OneInFlight'
  BY <1>1, <1>2 DEF OneInFlight, Idle
<1>4. \A q \in Requests : ReadStands(sess[q])'
  BY <1>1 DEF ReadStands, Idle
<1>5. \A m \in Runs : RunStands(runs[m])'
  BY <1>2 DEF RunStands, Idle
<1>6. QED
  BY <1>3, <1>4, <1>5 DEF SerialInv, MatchHasLoad

\* A request ends.
LEMMA CloseKeeps ==
  ASSUME TypeOK, NEW r \in Requests, OthersIdle(r), Close(r), UNCHANGED runs, MatchHasLoad'
  PROVE  SerialInv'
<1>1. ReadStands(Idle)'
  BY DEF ReadStands, Idle
<1>2. QED
  BY <1>1, RequestKeeps DEF Close

\* A request reads, or is rolled back: the rows stay as they are.
LEMMA RequestReads ==
  ASSUME TypeOK, SerialInv, NEW r \in Requests, OthersIdle(r), NEW s,
         sess' = [sess EXCEPT ![r] = s], UNCHANGED <<rows, runs>>, ReadStands(s)
  PROVE  SerialInv' /\ UNCHANGED Ledger!ledger
<1>1. ReadStands(s)' /\ MatchHasLoad'
  BY DEF ReadStands, SerialInv, MatchHasLoad, rows
<1>2. QED
  BY <1>1, RequestKeeps DEF rows, Ledger!ledger

LEMMA RequestRollsBack ==
  ASSUME TypeOK, SerialInv, NEW r \in Requests, OthersIdle(r), Rollback(r)
  PROVE  SerialInv' /\ UNCHANGED Ledger!ledger
<1>1. ReadStands(Idle)
  BY DEF ReadStands, Idle
<1>2. QED
  BY <1>1, RequestReads DEF Rollback, Close

-----------------------------------------------------------------------------
(* One lemma per handler.                                                  *)

\* What a step has to show: it keeps the invariant, and is a step of the ledger or none.
Serves == SerialInv' /\ [Ledger!Next]_(Ledger!ledger)

\* A read or a rollback serves.
LEMMA ReadServes ==
  ASSUME SerialInv', UNCHANGED Ledger!ledger
  PROVE  Serves
BY DEF Serves

\* A proposal books an open load on an available vehicle.
LEMMA ProposeServes ==
  ASSUME Serial, SerialInv, BookingInv, BookingInv', NEW r \in Requests, Propose(r)
  PROVE  Serves
<1>0. TypeOK /\ SessionMatchStands
  BY DEF BookingInv
<1>1. OthersIdle(r)
  <2>1. HasConnection \/ sess[r].at # "idle"
    BY DEF Propose, ProposeReadVehicle, Open, ProposeReadLoad, ProposeReadDeal, ProposeCommit,
       ProposeFails
  <2>2. QED
    BY <1>0, <2>1, Busy, AloneInFlight
<1>2. CASE Rollback(r)
  BY <1>0, <1>1, <1>2, RequestRollsBack, ReadServes
<1>3. ASSUME NEW at \in {"propose_deal", "propose_commit"}, Continue(r, at),
             sess[r] \in PairSession, vehicles[sess[r].vehicle] = "available",
             loads[sess[r].load] \in {"new", "matched"}
      PROVE  Serves
  <2> DEFINE s == [sess[r] EXCEPT !.at = at]
  <2>1. s.at = at /\ s.load = sess[r].load /\ s.vehicle = sess[r].vehicle
    BY <1>3 DEF PairSession
  <2>2. ReadStands(s)
    BY <1>3, <2>1 DEF ReadStands
  <2>3. sess' = [sess EXCEPT ![r] = s] /\ UNCHANGED <<rows, runs>>
    BY <1>3 DEF Continue
  <2> HIDE DEF s
  <2>4. QED
    BY <1>0, <1>1, <2>2, <2>3, RequestReads, ReadServes
<1>4. ASSUME NEW l \in Loads, NEW v \in Vehicles, ProposeReadVehicle(r, l, v)
      PROVE  Serves
  <2> DEFINE s == [at |-> "propose_load", load |-> l, vehicle |-> v, dirty |-> {}]
  <2>1. ReadStands(s)
    BY <1>4 DEF ReadStands, ProposeReadVehicle
  <2>2. sess' = [sess EXCEPT ![r] = s] /\ UNCHANGED <<rows, runs>>
    BY <1>4 DEF ProposeReadVehicle, Open
  <2> HIDE DEF s
  <2>3. QED
    BY <1>0, <1>1, <2>1, <2>2, RequestReads, ReadServes
<1>5. ReadStands(sess[r])
  BY DEF SerialInv
<1>6. CASE ProposeReadLoad(r)
  BY <1>0, <1>2, <1>3, <1>5, <1>6, SessionKind DEF ProposeReadLoad, ReadStands
<1>7. CASE ProposeReadDeal(r)
  BY <1>0, <1>2, <1>3, <1>5, <1>7, SessionKind DEF ProposeReadDeal, ReadStands
<1>8. CASE ProposeFails(r)
  BY <1>2, <1>8 DEF ProposeFails
<1>9. CASE ProposeCommit(r)
  <2>0. PICK l \in Loads, v \in Vehicles : l = sess[r].load /\ v = sess[r].vehicle
    BY <1>0, <1>9, SessionKind DEF ProposeCommit, PairSession
  <2>1. loads[l] \in {"new", "matched"} /\ vehicles[v] = "available"
    BY <1>5, <1>9, <2>0 DEF ReadStands, ProposeCommit
  <2>2. Ledger!Book(l, v)
    BY <1>9, <2>0, <2>1 DEF ProposeCommit, Ledger!Book, Ledger!IsOpen, Ledger!SetLoad,
       Ledger!SetVehicle
  <2>3. MatchHasLoad'
    <3>1. /\ \A k \in Loads : loads[k] # "absent" => loads'[k] # "absent"
          /\ loads'[l] # "absent"
          /\ \A k \in Loads, u \in Vehicles : <<k, u>> # <<l, v>> => matches'[<<k, u>>] = matches[<<k, u>>]
      BY <1>0, <1>9, <2>0 DEF ProposeCommit, TypeOK, Pairs
    <3>2. QED
      BY <3>1 DEF MatchHasLoad, SerialInv
  <2>4. SerialInv'
    BY <1>0, <1>1, <1>9, <2>3, CloseKeeps DEF ProposeCommit
  <2>5. QED
    BY <2>2, <2>4 DEF Serves, Ledger!Next
<1>10. QED
  BY <1>4, <1>6, <1>7, <1>8, <1>9 DEF Propose

\* A promotion gives a load that was posted one more deal and books it.
LEMMA PromoteServes ==
  ASSUME Serial, SerialInv, BookingInv, BookingInv', NEW r \in Requests, Promote(r)
  PROVE  Serves
<1>0. TypeOK /\ SessionMatchStands
  BY DEF BookingInv
<1>1. OthersIdle(r)
  <2>1. HasConnection \/ sess[r].at # "idle"
    BY DEF Promote, PromoteReadMatch, Open, PromoteReadLoad, PromoteCommit
  <2>2. QED
    BY <1>0, <2>1, Busy, AloneInFlight
<1>2. ASSUME NEW l \in Loads, NEW v \in Vehicles, PromoteReadMatch(r, l, v)
      PROVE  Serves
  <2> DEFINE s == [at |-> "promote_load", load |-> l, vehicle |-> v,
                   dirty |-> IF matches[<<l, v>>] = "promoted" THEN {} ELSE {"match"}]
  <2>1. ReadStands(s)
    BY DEF ReadStands
  <2>2. sess' = [sess EXCEPT ![r] = s] /\ UNCHANGED <<rows, runs>>
    BY <1>2 DEF PromoteReadMatch, Open
  <2> HIDE DEF s
  <2>3. QED
    BY <1>0, <1>1, <2>1, <2>2, RequestReads, ReadServes
<1>3. CASE PromoteReadLoad(r)
  <2>1. sess[r] \in PairSession
    BY <1>0, <1>3, SessionKind DEF PromoteReadLoad
  <2>2. PICK s : s = sess'[r]
    OBVIOUS
  <2>3. sess' = [sess EXCEPT ![r] = s]
    BY <1>0, <1>3, <2>2 DEF PromoteReadLoad, TypeOK
  <2>4. /\ s.at = "promote_commit" /\ s.load = sess[r].load
        /\ loads[sess[r].load] # "booked" => "load" \in s.dirty
    BY <1>0, <1>3, <2>1, <2>2 DEF PromoteReadLoad, TypeOK, PairSession
  <2>5. ReadStands(s)
    BY <2>4 DEF ReadStands
  <2>6. UNCHANGED <<rows, runs>>
    BY <1>3 DEF PromoteReadLoad
  <2>7. QED
    BY <1>0, <1>1, <2>3, <2>5, <2>6, RequestReads, ReadServes
<1>4. CASE PromoteCommit(r)
  <2>0. PICK l \in Loads, v \in Vehicles : l = sess[r].load /\ v = sess[r].vehicle
    BY <1>0, <1>4, SessionKind DEF PromoteCommit, PairSession
  <2>1. matches[<<l, v>>] # "none" /\ loads[l] # "absent"
    BY <1>0, <1>4, <2>0 DEF PromoteCommit, SessionMatchStands, SerialInv
  <2>2. "load" \notin sess[r].dirty => loads[l] = "booked"
    BY <1>4, <2>0 DEF PromoteCommit, SerialInv, ReadStands
  <2>3. loads' = [loads EXCEPT ![l] = "booked"]
    BY <1>0, <1>4, <2>0, <2>2 DEF PromoteCommit, TypeOK
  <2>4. Ledger!Assign(l, v)
    BY <1>4, <2>0, <2>1, <2>3 DEF PromoteCommit, Ledger!Assign, Ledger!SetLoad
  <2>5. MatchHasLoad'
    <3>1. /\ \A k \in Loads : loads[k] # "absent" => loads'[k] # "absent"
          /\ loads'[l] # "absent"
      BY <1>0, <2>3 DEF TypeOK
    <3>2. \A k \in Loads, u \in Vehicles : k # l => matches'[<<k, u>>] = matches[<<k, u>>]
      BY <1>0, <1>4, <2>0 DEF PromoteCommit, TypeOK, Pairs
    <3>3. QED
      BY <3>1, <3>2 DEF MatchHasLoad, SerialInv
  <2>6. SerialInv'
    BY <1>0, <1>1, <1>4, <2>5, CloseKeeps DEF PromoteCommit
  <2>7. QED
    BY <2>4, <2>6 DEF Serves, Ledger!Next
<1>5. QED
  BY <1>2, <1>3, <1>4 DEF Promote

\* A review is no step of the ledger.
LEMMA ReviewServes ==
  ASSUME Serial, SerialInv, BookingInv, BookingInv', NEW r \in Requests, Review(r)
  PROVE  Serves
<1>0. TypeOK /\ SessionMatchStands
  BY DEF BookingInv
<1>1. OthersIdle(r)
  <2>1. HasConnection \/ sess[r].at # "idle"
    BY DEF Review, RejectRead, FeedbackRead, Open, RejectCommit, FeedbackCommit
  <2>2. QED
    BY <1>0, <2>1, Busy, AloneInFlight
<1>2. ASSUME NEW at \in {"reject_commit", "feedback_commit"}, NEW l, NEW v, NEW d,
             Open(r, [at |-> at, load |-> l, vehicle |-> v, dirty |-> d]),
             UNCHANGED <<rows, runs>>
      PROVE  Serves
  <2> DEFINE s == [at |-> at, load |-> l, vehicle |-> v, dirty |-> d]
  <2>1. ReadStands(s)
    BY <1>2 DEF ReadStands
  <2>2. sess' = [sess EXCEPT ![r] = s]
    BY <1>2 DEF Open
  <2> HIDE DEF s
  <2>3. QED
    BY <1>0, <1>1, <1>2, <2>1, <2>2, RequestReads, ReadServes
<1>3. ASSUME NEW l \in Loads, NEW v \in Vehicles, RejectRead(r, l, v) \/ FeedbackRead(r, l, v)
      PROVE  Serves
  BY <1>2, <1>3 DEF RejectRead, FeedbackRead
<1>4. CASE RejectCommit(r) \/ FeedbackCommit(r)
  <2>0. PICK l \in Loads, v \in Vehicles : l = sess[r].load /\ v = sess[r].vehicle
    BY <1>0, <1>4, SessionKind DEF RejectCommit, FeedbackCommit, PairSession
  <2>1. matches[<<l, v>>] # "none"
    BY <1>0, <1>4, <2>0 DEF RejectCommit, FeedbackCommit, SessionMatchStands
  <2>2. UNCHANGED <<loads, vehicles, deals, runs>> /\ Close(r)
    BY <1>4 DEF RejectCommit, FeedbackCommit
  <2>3. \A k \in Loads, u \in Vehicles :
          <<k, u>> # <<l, v>> => matches'[<<k, u>>] = matches[<<k, u>>]
    BY <1>0, <1>4, <2>0 DEF RejectCommit, FeedbackCommit, TypeOK, Pairs
  <2>4. MatchHasLoad'
    BY <2>1, <2>2, <2>3 DEF MatchHasLoad, SerialInv
  <2>5. QED
    BY <1>0, <1>1, <2>2, <2>4, CloseKeeps, ReadServes DEF Ledger!ledger
<1>5. QED
  BY <1>3, <1>4 DEF Review

\* A cancellation withdraws a load that is still open.
LEMMA CancelServes ==
  ASSUME Serial, SerialInv, BookingInv, BookingInv', NEW r \in Requests, Cancel(r)
  PROVE  Serves
<1>0. TypeOK
  BY DEF BookingInv
<1>1. OthersIdle(r)
  <2>1. HasConnection \/ sess[r].at # "idle"
    BY DEF Cancel, CancelRead, Open, CancelCommit
  <2>2. QED
    BY <1>0, <2>1, Busy, AloneInFlight
<1>2. ASSUME NEW l \in Loads, CancelRead(r, l)
      PROVE  Serves
  <2> DEFINE s == [at |-> "cancel_commit", load |-> l]
  <2>1. ReadStands(s)
    BY <1>2 DEF ReadStands, CancelRead, Cancellable
  <2>2. sess' = [sess EXCEPT ![r] = s] /\ UNCHANGED <<rows, runs>>
    BY <1>2 DEF CancelRead, Open
  <2> HIDE DEF s
  <2>3. QED
    BY <1>0, <1>1, <2>1, <2>2, RequestReads, ReadServes
<1>3. CASE CancelCommit(r)
  <2>0. PICK l \in Loads : l = sess[r].load
    BY <1>0, <1>3, SessionKind DEF CancelCommit, LoadSession
  <2>1. loads[l] \in {"new", "matched"}
    BY <1>3, <2>0 DEF SerialInv, ReadStands, CancelCommit
  <2>2. Ledger!Withdraw(l)
    BY <1>3, <2>0, <2>1 DEF CancelCommit, Ledger!Withdraw, Ledger!IsOpen, Ledger!SetLoad
  <2>3. MatchHasLoad'
    BY <1>0, <1>3, <2>0 DEF MatchHasLoad, SerialInv, CancelCommit, TypeOK
  <2>4. SerialInv'
    BY <1>0, <1>1, <1>3, <2>3, CloseKeeps DEF CancelCommit
  <2>5. QED
    BY <2>2, <2>4 DEF Serves, Ledger!Next
<1>4. QED
  BY <1>2, <1>3 DEF Cancel

\* An edit or a deletion changes one vehicle, the latter only if it carries no deal.
LEMMA FleetServes ==
  ASSUME Serial, SerialInv, BookingInv, BookingInv', NEW r \in Requests, Fleet(r)
  PROVE  Serves
<1>0. TypeOK
  BY DEF BookingInv
<1>1. OthersIdle(r)
  <2>1. HasConnection \/ sess[r].at # "idle"
    BY DEF Fleet, EditRead, DeleteRead, Open, EditCommit, DeleteCommit
  <2>2. QED
    BY <1>0, <2>1, Busy, AloneInFlight
<1>2. ASSUME NEW v \in Vehicles, NEW form \in EditStatus, EditRead(r, v, form)
      PROVE  Serves
  <2> DEFINE s == [at |-> "edit_commit", vehicle |-> v, seen |-> vehicles[v], form |-> form]
  <2>1. ReadStands(s)
    BY DEF ReadStands
  <2>2. sess' = [sess EXCEPT ![r] = s] /\ UNCHANGED <<rows, runs>>
    BY <1>2 DEF EditRead, Open
  <2> HIDE DEF s
  <2>3. QED
    BY <1>0, <1>1, <2>1, <2>2, RequestReads, ReadServes
<1>3. ASSUME NEW v \in Vehicles, DeleteRead(r, v)
      PROVE  Serves
  <2> DEFINE s == [at |-> "delete_commit", vehicle |-> v]
  <2>1. ReadStands(s)
    BY DEF ReadStands
  <2>2. sess' = [sess EXCEPT ![r] = s] /\ UNCHANGED <<rows, runs>>
    BY <1>3 DEF DeleteRead, Open
  <2> HIDE DEF s
  <2>3. QED
    BY <1>0, <1>1, <2>1, <2>2, RequestReads, ReadServes
<1>4. ASSUME UNCHANGED <<loads, matches, runs>>, Close(r)
      PROVE  SerialInv'
  <2>1. MatchHasLoad'
    BY <1>4 DEF MatchHasLoad, SerialInv
  <2>2. QED
    BY <1>0, <1>1, <1>4, <2>1, CloseKeeps
<1>5. CASE EditCommit(r)
  <2>0. PICK v \in Vehicles, form \in EditStatus : v = sess[r].vehicle /\ form = sess[r].form
    BY <1>0, <1>5, SessionKind DEF EditCommit, EditSession
  <2>1. Ledger!Recondition(v, form) \/ UNCHANGED Ledger!ledger
    BY <1>5, <2>0 DEF EditCommit, Written, Ledger!Recondition, Ledger!SetVehicle, Ledger!ledger
  <2>2. QED
    BY <1>4, <1>5, <2>1 DEF EditCommit, EditStatus, Serves, Ledger!Next
<1>6. CASE DeleteCommit(r)
  <2>0. PICK v \in Vehicles : v = sess[r].vehicle
    BY <1>0, <1>6, SessionKind DEF DeleteCommit, DeleteSession
  <2>1. Unreferenced(v) => \A l \in Loads : deals[<<l, v>>] = [propose |-> 0, from_match |-> 0]
    <3>1. \A l \in Loads : deals[<<l, v>>] \in [propose: Nat, from_match: Nat]
      BY <1>0 DEF TypeOK, Pairs
    <3>2. QED
      BY <3>1 DEF Unreferenced, HasDeal
  <2>2. Ledger!Retire(v) \/ UNCHANGED Ledger!ledger
    BY <1>6, <2>0, <2>1 DEF DeleteCommit, Ledger!Retire, Ledger!SetVehicle, Ledger!ledger
  <2>3. QED
    BY <1>4, <1>6, <2>2 DEF DeleteCommit, Serves, Ledger!Next
<1>7. QED
  BY <1>2, <1>3, <1>5, <1>6 DEF Fleet

OtherRunsIdle(m) ==
  /\ \A r \in Requests : sess[r] = Idle
  /\ \A k \in Runs : k # m => runs[k] = Idle

\* A run in flight does a step, and what it holds afterwards stands.
LEMMA RunKeeps ==
  ASSUME TypeOK, NEW m \in Runs, OtherRunsIdle(m), NEW x, runs' = [runs EXCEPT ![m] = x],
         UNCHANGED sess, RunStands(x)', x.at = "load" => x.held, MatchHasLoad'
  PROVE  SerialInv'
<1>1. \A k \in Runs : runs'[k] = IF k = m THEN x ELSE Idle
  BY DEF TypeOK, OtherRunsIdle
<1>2. \A r \in Requests : sess'[r] = Idle
  BY DEF OtherRunsIdle
<1>3. OneInFlight'
  BY <1>1, <1>2 DEF OneInFlight, Idle
<1>4. \A r \in Requests : ReadStands(sess[r])'
  BY <1>2 DEF ReadStands, Idle
<1>5. \A k \in Runs : RunStands(runs[k])'
  BY <1>1 DEF RunStands, Idle
<1>6. QED
  BY <1>3, <1>4, <1>5 DEF SerialInv, MatchHasLoad

\* A run reads, or ends: the rows stay as they are.
LEMMA RunReads ==
  ASSUME TypeOK, SerialInv, NEW m \in Runs, OtherRunsIdle(m), NEW x, SetRun(m, x),
         UNCHANGED rows, RunStands(x), x.at = "load" => x.held
  PROVE  Serves
<1>1. RunStands(x)' /\ MatchHasLoad'
  BY DEF RunStands, SerialInv, MatchHasLoad, rows
<1>2. SerialInv'
  BY <1>1, RunKeeps DEF SetRun
<1>3. QED
  BY <1>2, ReadServes DEF rows, Ledger!ledger

\* A run that has its loads still to do holds the connection of its last query.
LEMMA NextLoadStands ==
  ASSUME NEW todo, \A l \in todo : loads[l] = "new"
  PROVE  RunStands(NextLoad(todo, TRUE))
           /\ (NextLoad(todo, TRUE).at = "load" => NextLoad(todo, TRUE).held)
BY DEF RunStands, NextLoad, Idle

\* A run marks its one load as matched, which was still new when it commits.
LEMMA MatchServes ==
  ASSUME Serial, SerialInv, BookingInv, BookingInv', NEW m \in Runs, Match(m)
  PROVE  Serves
<1>0. TypeOK /\ RunStands(runs[m]) /\ (runs[m].at = "load" => runs[m].held)
  BY DEF BookingInv, SerialInv, OneInFlight
<1>1. OtherRunsIdle(m)
  <2>1. HasConnection \/ runs[m].at # "idle"
    BY DEF Match, RunStart, RunPrefilter, RunScore, RunCommit, RunFails, RunAborts
  <2>2. QED
    BY <1>0, <2>1, Busy, NobodyInFlight DEF SerialInv, OneInFlight, OtherRunsIdle
<1>2. RunStands(Idle) /\ (Idle.at = "load" => Idle.held)
  BY DEF RunStands, Idle
<1>3. CASE RunStart(m)
  BY <1>0, <1>1, <1>3, NextLoadStands, RunReads DEF RunStart
<1>4. ASSUME NEW l \in Loads, RunPrefilter(m, l)
      PROVE  Serves
  <2> DEFINE left == runs[m].todo \ {l}
             asking == [at |-> "llm", todo |-> left, load |-> l]
  <2>1. loads[l] = "new" /\ \A k \in left : loads[k] = "new"
    BY <1>0, <1>4 DEF RunPrefilter, RunStands
  <2>2. RunStands(asking) /\ (asking.at = "load" => asking.held)
    BY <2>1 DEF RunStands
  <2>3. UNCHANGED rows /\ (SetRun(m, NextLoad(left, TRUE)) \/ SetRun(m, asking))
    BY <1>4 DEF RunPrefilter
  <2> HIDE DEF left, asking
  <2>4. QED
    BY <1>0, <1>1, <2>1, <2>2, <2>3, NextLoadStands, RunReads
<1>5. ASSUME NEW answer \in SUBSET Vehicles, RunScore(m, answer)
      PROVE  Serves
  <2> DEFINE scored == [at |-> "commit", todo |-> runs[m].todo, load |-> runs[m].load,
                        picked |-> {v \in answer : matches[<<runs[m].load, v>>] = "none"}]
  <2>1. RunStands(scored) /\ (scored.at = "load" => scored.held)
    BY <1>0, <1>5 DEF RunScore, RunStands
  <2>2. UNCHANGED rows /\ SetRun(m, scored)
    BY <1>5 DEF RunScore
  <2> HIDE DEF scored
  <2>3. QED
    BY <1>0, <1>1, <2>1, <2>2, RunReads
<1>6. CASE RunFails(m) \/ RunAborts(m)
  BY <1>0, <1>1, <1>2, <1>6, RunReads DEF RunFails, RunAborts
<1>7. CASE RunCommit(m)
  <2>0. PICK l \in Loads, picked \in SUBSET Vehicles : l = runs[m].load /\ picked = runs[m].picked
    BY <1>0, <1>7, RunKind DEF RunCommit, RunAtCommit
  <2>1. loads[l] = "new" /\ l \notin runs[m].todo /\ runs[m].todo \subseteq Loads
    BY <1>0, <1>7, <2>0, RunKind DEF RunCommit, RunStands, RunAtCommit
  <2>2. runs[m].todo = {}
    BY <2>1 DEF Serial
  <2>3. SetRun(m, Idle)
    BY <1>7, <2>2 DEF RunCommit, NextLoad
  <2>4. Ledger!Suggest(l) \/ UNCHANGED Ledger!ledger
    BY <1>7, <2>0, <2>1 DEF RunCommit, Ledger!Suggest, Ledger!SetLoad, Ledger!ledger
  <2>5. MatchHasLoad'
    <3>1. \A k \in Loads, v \in Vehicles :
            k # l => matches'[<<k, v>>] = matches[<<k, v>>] /\ loads'[k] = loads[k]
      BY <1>0, <1>7, <2>0 DEF RunCommit, TypeOK, Pairs
    <3>2. loads'[l] # "absent"
      BY <1>0, <1>7, <2>0, <2>1 DEF RunCommit, TypeOK
    <3>3. QED
      BY <3>1, <3>2 DEF MatchHasLoad, SerialInv
  <2>6. RunStands(Idle)'
    BY DEF RunStands, Idle
  <2>7. SerialInv'
    BY <1>0, <1>1, <1>2, <2>3, <2>5, <2>6, RunKeeps DEF SetRun
  <2>8. QED
    BY <2>4, <2>7 DEF Serves, Ledger!Next
<1>8. QED
  BY <1>3, <1>4, <1>5, <1>6, <1>7 DEF Match

\* Every step serves.
LEMMA NextServes ==
  ASSUME Serial, SerialInv, BookingInv, BookingInv', [Next]_vars
  PROVE  Serves
<1>0. TypeOK
  BY DEF BookingInv
<1>1. ASSUME NEW l \in Loads, PostLoad(l)
      PROVE  Serves
  <2>1. (\A r \in Requests : sess[r] = Idle) /\ (\A m \in Runs : runs[m] = Idle)
    BY <1>0, <1>1, NobodyInFlight DEF PostLoad, SerialInv
  <2>2. UNCHANGED <<vehicles, matches, deals, sess, runs>> /\ loads' = [loads EXCEPT ![l] = "new"]
    BY <1>1 DEF PostLoad
  <2>3. OneInFlight'
    BY <2>2 DEF SerialInv, OneInFlight
  <2>4. (\A r \in Requests : ReadStands(sess[r])') /\ (\A m \in Runs : RunStands(runs[m])')
    BY <2>1, <2>2 DEF ReadStands, RunStands, Idle
  <2>5. MatchHasLoad'
    BY <1>0, <2>2 DEF SerialInv, MatchHasLoad, TypeOK
  <2>6. SerialInv'
    BY <2>3, <2>4, <2>5 DEF SerialInv, MatchHasLoad
  <2>7. Ledger!Publish(l)
    BY <1>1, <2>2 DEF PostLoad, Ledger!Publish, Ledger!SetLoad
  <2>8. QED
    BY <2>6, <2>7 DEF Serves, Ledger!Next
<1>2. CASE Restart
  <2>1. /\ \A r \in Requests : sess'[r] = Idle
        /\ \A m \in Runs : runs'[m] = Idle
        /\ UNCHANGED rows
    BY <1>2 DEF Restart
  <2>2. OneInFlight'
    BY <2>1 DEF OneInFlight, Idle
  <2>3. (\A r \in Requests : ReadStands(sess[r])') /\ (\A m \in Runs : RunStands(runs[m])')
    BY <2>1 DEF ReadStands, RunStands, Idle
  <2>4. SerialInv'
    BY <2>1, <2>2, <2>3 DEF SerialInv, rows
  <2>5. QED
    BY <2>1, <2>4, ReadServes DEF rows, Ledger!ledger
<1>3. CASE UNCHANGED vars
  <2>1. SerialInv'
    BY <1>3 DEF vars, SerialInv, OneInFlight, ReadStands, RunStands
  <2>2. QED
    BY <1>3, <2>1, ReadServes DEF vars, Ledger!ledger
<1>4. QED
  BY <1>1, <1>2, <1>3, ProposeServes, PromoteServes, ReviewServes, CancelServes, FleetServes,
     MatchServes DEF Next

-----------------------------------------------------------------------------
\* Handlers whose transactions do not overlap implement the ledger's atomic operations: each
\* commit is one of them, and no read, rollback or restart is seen.
THEOREM SerialLedger ==
  ASSUME Serial
  PROVE  Spec => ImplementsLedger
<1>1. Init => SerialInv /\ Ledger!Init
  BY DEF Init, SerialInv, OneInFlight, ReadStands, RunStands, Idle, Pairs, Ledger!Init
<1>2. SerialInv /\ BookingInv /\ BookingInv' /\ [Next]_vars
        => SerialInv' /\ [Ledger!Next]_(Ledger!ledger)
  BY NextServes DEF Serves
<1>3. QED
  BY <1>1, <1>2, BookingInvariant, PTL DEF Spec, ImplementsLedger, Ledger!Spec

\* What a handler has read is still so when it writes, and only one is in flight.
THEOREM SerialReads ==
  ASSUME Serial
  PROVE  Spec => []SerialInv
<1>1. Init => SerialInv
  BY DEF Init, SerialInv, OneInFlight, ReadStands, RunStands, Idle, Pairs
<1>2. SerialInv /\ BookingInv /\ BookingInv' /\ [Next]_vars => SerialInv'
  BY NextServes DEF Serves
<1>3. QED
  BY <1>1, <1>2, BookingInvariant, PTL DEF Spec

\* A vehicle that is booked takes no other proposal: it is the overlap of two proposals that
\* lets one be booked twice, not what each of them does.
THEOREM SerialProposals ==
  ASSUME Serial
  PROVE  Spec => ProposalNeverDoubleBooks
<1> DEFINE once ==
             \A l \in Loads, v \in Vehicles :
               vehicles[v] = "booked" /\ (\E k \in Loads : deals[<<k, v>>].propose > 0) =>
                 deals'[<<l, v>>].propose = deals[<<l, v>>].propose
<1>1. TypeOK /\ [Ledger!Next]_(Ledger!ledger) => once
  <2> SUFFICES ASSUME TypeOK, [Ledger!Next]_(Ledger!ledger),
                      NEW l \in Loads, NEW v \in Vehicles, vehicles[v] = "booked"
               PROVE  deals'[<<l, v>>].propose = deals[<<l, v>>].propose
    OBVIOUS
  <2>1. CASE UNCHANGED deals
    BY <2>1
  <2>2. ASSUME NEW k \in Loads, NEW u \in Vehicles, Ledger!Book(k, u)
        PROVE  deals'[<<l, v>>] = deals[<<l, v>>]
    BY <2>2 DEF Ledger!Book, TypeOK, Pairs
  <2>3. ASSUME NEW k \in Loads, NEW u \in Vehicles, Ledger!Assign(k, u)
        PROVE  deals'[<<l, v>>].propose = deals[<<l, v>>].propose
    BY <2>3 DEF Ledger!Assign, TypeOK, Pairs
  <2>4. QED
    BY <2>1, <2>2, <2>3 DEF Ledger!Next, Ledger!Publish, Ledger!Withdraw, Ledger!Suggest,
       Ledger!Recondition, Ledger!Retire, Ledger!ledger
<1>2. SerialInv /\ BookingInv /\ BookingInv' /\ [Next]_vars => [once]_vars
  BY <1>1, NextServes DEF Serves, BookingInv
<1>3. QED
  BY <1>2, SerialReads, BookingInvariant, PTL DEF Spec, ProposalNeverDoubleBooks

\* And a run of the matcher writes no load that was settled while it asked the LLM.
THEOREM SerialMatcher ==
  ASSUME Serial
  PROVE  Spec => MatcherLeavesSettledLoads
<1> DEFINE settled == \A l \in Loads, m \in Runs :
                        loads[l] \in {"booked", "cancelled"} /\ runs'[m] # runs[m]
                          => loads'[l] = loads[l]
<1>1. TypeOK /\ SerialInv /\ [Next]_vars => settled
  <2> SUFFICES ASSUME TypeOK, SerialInv, [Next]_vars, NEW l \in Loads, NEW m \in Runs,
                      loads[l] \in {"booked", "cancelled"}, runs'[m] # runs[m]
               PROVE  loads'[l] = loads[l]
    OBVIOUS
  <2>1. ASSUME NEW k \in Runs, RunCommit(k)
        PROVE  loads'[l] = loads[l]
    <3>1. loads[runs[k].load] = "new"
      BY <2>1 DEF RunCommit, SerialInv, RunStands
    <3>2. QED
      BY <2>1, <3>1 DEF RunCommit, TypeOK
  <2>2. CASE UNCHANGED rows
    BY <2>2 DEF rows
  <2>3. QED
    BY <2>1, <2>2 DEF Next, vars, PostLoad, Restart, Propose, ProposeReadVehicle, ProposeReadLoad,
       ProposeReadDeal, ProposeCommit, ProposeFails, Promote, PromoteReadMatch, PromoteReadLoad,
       PromoteCommit, Review, RejectRead, FeedbackRead, RejectCommit, FeedbackCommit, Cancel,
       CancelRead, CancelCommit, Fleet, EditRead, DeleteRead, EditCommit, DeleteCommit, Continue,
       Rollback, Match, RunStart, RunPrefilter, RunScore, RunFails, RunAborts
<1>2. SerialInv /\ BookingInv /\ [Next]_vars => [settled]_vars
  BY <1>1 DEF BookingInv
<1>3. QED
  BY <1>2, SerialReads, BookingInvariant, PTL DEF Spec, MatcherLeavesSettledLoads
=============================================================================
