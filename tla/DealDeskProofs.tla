--------------------------- MODULE DealDeskProofs ---------------------------
(***************************************************************************)
(* Proofs about DealDesk, for any number of deals and concurrent requests,  *)
(* and of what holds besides when requests do not overlap.                  *)
(***************************************************************************)
EXTENDS DealDesk, TLAPS

\* A session that is not idle holds a deal and the status it will write.
LEMMA SessionKind ==
  ASSUME TypeOK, NEW r \in Requests
  PROVE  /\ sess[r] # Idle <=> sess[r].at = "commit"
         /\ sess[r] # Idle => sess[r] \in Moving
BY DEF TypeOK, Moving, Idle

\* A carrier may do what an admin may do, and no more.
LEMMA CarrierBelowAdmin ==
  ASSUME NEW role \in Roles, NEW s
  PROVE  Allowed(role, s) \subseteq AdminNext(s)
BY DEF Allowed, CarrierNext, AdminNext

\* Every move of the tables is the step from a status to the one after it, or a cancellation.
LEMMA TableSteps ==
  ASSUME NEW s, NEW to \in AdminNext(s)
  PROVE  /\ to \in DealStatus
         /\ s \in DealStatus
         /\ to # "booked"
         /\ to \in DOMAIN Before => Before[to] = s
BY DEF AdminNext, DealStatus, Before

\* Every step keeps the types.
LEMMA NextType == TypeOK /\ [Next]_vars => TypeOK'
<1> SUFFICES ASSUME TypeOK, [Next]_vars PROVE TypeOK'
  OBVIOUS
<1>1. ASSUME NEW d \in Deals, Create(d) PROVE TypeOK'
  BY <1>1 DEF Create, SetStatus, TypeOK, DealStatus
<1>2. ASSUME NEW r \in Requests, NEW d \in Deals, NEW role \in Roles, NEW to \in DealStatus,
             ReadDeal(r, d, role, to)
      PROVE  TypeOK'
  <2>1. [at |-> "commit", deal |-> d, to |-> to] \in Moving
    BY DEF Moving
  <2>2. QED
    BY <1>2, <2>1 DEF ReadDeal, TypeOK
<1>3. ASSUME NEW r \in Requests, Commit(r) PROVE TypeOK'
  <2>1. sess[r] \in Moving
    BY <1>3, SessionKind DEF Commit
  <2>2. QED
    BY <1>3, <2>1 DEF Commit, SetStatus, TypeOK, Moving
<1>4. ASSUME NEW r \in Requests, Abort(r) PROVE TypeOK'
  BY <1>4 DEF Abort, TypeOK
<1>5. CASE UNCHANGED vars
  BY <1>5 DEF vars, TypeOK
<1>6. QED
  BY <1>1, <1>2, <1>3, <1>4, <1>5 DEF Next

\* The deal desk's rows and sessions keep their shape.
THEOREM TypeCorrect == Spec => []TypeOK
<1>1. Init => TypeOK
  BY DEF Init, TypeOK
<1>2. QED
  BY <1>1, NextType, PTL DEF Spec

-----------------------------------------------------------------------------
(* The inductive invariant.                                                *)

\* Every step keeps the invariant.
LEMMA NextDealInv == DealInv /\ [Next]_vars => DealInv'
<1> SUFFICES ASSUME DealInv, [Next]_vars PROVE DealInv'
  OBVIOUS
<1>0. TypeOK /\ SessionsJustified /\ NoStageSkipped /\ SampleIffDelivered /\ TypeOK'
  BY NextType DEF DealInv
<1>1. ASSUME NEW d \in Deals, Create(d) PROVE DealInv'
  <2>1. /\ visited[d] = {}
        /\ visited' = [visited EXCEPT ![d] = {"booked"}]
        /\ status' = [status EXCEPT ![d] = "booked"]
        /\ UNCHANGED <<samples, sess>>
    BY <1>0, <1>1 DEF Create, SetStatus, SessionsJustified, TypeOK
  <2>2. \A e \in Deals : visited[e] \subseteq visited'[e]
    BY <1>0, <2>1 DEF TypeOK
  <2>3. SessionsJustified'
    <3>1. \A e \in Deals :
            visited'[e] = IF status'[e] = "none" THEN {} ELSE visited'[e] \cup {status'[e]}
      BY <1>0, <2>1 DEF SessionsJustified, TypeOK
    <3>2. ASSUME NEW q \in Requests, sess'[q] # Idle
          PROVE  \E t \in visited'[sess'[q].deal] : sess'[q].to \in AdminNext(t)
      <4>1. sess'[q] = sess[q] /\ sess[q].deal \in Deals
        BY <1>0, <2>1, <3>2, SessionKind DEF Moving
      <4>2. PICK t \in visited[sess[q].deal] : sess[q].to \in AdminNext(t)
        BY <1>0, <3>2, <4>1 DEF SessionsJustified
      <4>3. QED
        BY <2>2, <4>1, <4>2
    <3>3. QED
      BY <3>1, <3>2 DEF SessionsJustified
  <2>4. NoStageSkipped'
    BY <1>0, <2>1 DEF NoStageSkipped, TypeOK, Before
  <2>5. SampleIffDelivered'
    BY <1>0, <2>1 DEF SampleIffDelivered, TypeOK
  <2>6. QED
    BY <1>0, <2>3, <2>4, <2>5 DEF DealInv
<1>2. ASSUME NEW r \in Requests, NEW d \in Deals, NEW role \in Roles, NEW to \in DealStatus,
             ReadDeal(r, d, role, to)
      PROVE  DealInv'
  <2>1. to \in AdminNext(status[d]) /\ UNCHANGED <<status, samples, visited>>
    BY <1>2, CarrierBelowAdmin DEF ReadDeal
  <2>2. status[d] \in visited[d]
    <3>1. status[d] # "none"
      BY <2>1, TableSteps DEF DealStatus
    <3>2. visited[d] = visited[d] \cup {status[d]}
      BY <1>0, <3>1 DEF SessionsJustified
    <3>3. QED
      BY <3>2
  <2>3. \A q \in Requests :
          sess'[q] = IF q = r THEN [at |-> "commit", deal |-> d, to |-> to] ELSE sess[q]
    BY <1>0, <1>2 DEF ReadDeal, TypeOK
  <2>4. SessionsJustified'
    BY <1>0, <2>1, <2>2, <2>3 DEF SessionsJustified
  <2>5. QED
    BY <1>0, <2>1, <2>4 DEF DealInv, NoStageSkipped, SampleIffDelivered
<1>3. ASSUME NEW r \in Requests, Commit(r) PROVE DealInv'
  <2>1. sess[r] \in Moving /\ sess[r] # Idle
    BY <1>0, <1>3, SessionKind DEF Commit, Idle
  <2>2. PICK d \in Deals, to \in DealStatus : d = sess[r].deal /\ to = sess[r].to
    BY <2>1 DEF Moving
  <2>3. PICK s \in visited[d] : to \in AdminNext(s)
    BY <1>0, <2>1, <2>2 DEF SessionsJustified
  <2>4. /\ status' = [status EXCEPT ![d] = to]
        /\ visited' = [visited EXCEPT ![d] = @ \cup {to}]
        /\ samples' = IF LeavesSample(d, to) THEN [samples EXCEPT ![d] = @ + 1] ELSE samples
        /\ sess' = [sess EXCEPT ![r] = Idle]
    BY <1>3, <2>2 DEF Commit, SetStatus
  <2>5. \A e \in Deals : visited'[e] = IF e = d THEN visited[e] \cup {to} ELSE visited[e]
    BY <1>0, <2>4 DEF TypeOK
  <2>6. SessionsJustified'
    <3>1. \A e \in Deals :
            visited'[e] = IF status'[e] = "none" THEN {} ELSE visited'[e] \cup {status'[e]}
      BY <1>0, <2>4, <2>5 DEF SessionsJustified, TypeOK, DealStatus
    <3>2. \A q \in Requests : sess'[q] # Idle => sess'[q] = sess[q]
      BY <1>0, <2>4 DEF TypeOK
    <3>3. ASSUME NEW q \in Requests, sess'[q] # Idle
          PROVE  \E t \in visited'[sess'[q].deal] : sess'[q].to \in AdminNext(t)
      <4>1. sess'[q] = sess[q] /\ sess[q].deal \in Deals
        BY <1>0, <3>2, <3>3, SessionKind DEF Moving
      <4>2. PICK t \in visited[sess[q].deal] : sess[q].to \in AdminNext(t)
        BY <1>0, <3>3, <4>1 DEF SessionsJustified
      <4>3. QED
        BY <2>5, <4>1, <4>2
    <3>4. QED
      BY <3>1, <3>3 DEF SessionsJustified
  <2>7. NoStageSkipped'
    <3>1. to \in DOMAIN Before => Before[to] = s
      BY <2>3, TableSteps
    <3>2. ASSUME NEW e \in Deals, NEW t \in visited'[e]
          PROVE  (t \in DOMAIN Before => Before[t] \in visited'[e]) /\ "booked" \in visited'[e]
      <4>1. visited[e] \subseteq visited'[e]
        BY <2>5
      <4>2. CASE t \in visited[e]
        BY <1>0, <4>1, <4>2 DEF NoStageSkipped
      <4>3. CASE t \notin visited[e]
        <5>1. e = d /\ t = to
          BY <2>5, <3>2, <4>3
        <5>2. "booked" \in visited[d]
          BY <1>0, <2>3 DEF NoStageSkipped
        <5>3. QED
          BY <2>3, <3>1, <4>1, <5>1, <5>2
      <4>4. QED
        BY <4>2, <4>3
    <3>3. QED
      BY <3>2 DEF NoStageSkipped, Before
  <2>8. SampleIffDelivered'
    BY <1>0, <2>4, <2>5 DEF SampleIffDelivered, LeavesSample, TypeOK
  <2>9. QED
    BY <1>0, <2>6, <2>7, <2>8 DEF DealInv
<1>4. ASSUME NEW r \in Requests, Abort(r) PROVE DealInv'
  <2>1. /\ UNCHANGED <<status, samples, visited>>
        /\ \A q \in Requests : sess'[q] = Idle \/ sess'[q] = sess[q]
    BY <1>0, <1>4 DEF Abort, TypeOK
  <2>2. SessionsJustified'
    BY <1>0, <2>1 DEF SessionsJustified
  <2>3. QED
    BY <1>0, <2>1, <2>2 DEF DealInv, NoStageSkipped, SampleIffDelivered
<1>5. CASE UNCHANGED vars
  BY <1>0, <1>5 DEF vars, DealInv, SessionsJustified, NoStageSkipped, SampleIffDelivered
<1>6. QED
  BY <1>1, <1>2, <1>3, <1>4, <1>5 DEF Next

\* Under any interleaving of stale requests the deal's history skips no stage, and the
\* price sample goes with the delivery.
THEOREM DealInvariant == Spec => []NoStageSkipped /\ []SampleIffDelivered
<1>1. Init => DealInv
  BY DEF Init, DealInv, TypeOK, SessionsJustified, NoStageSkipped, SampleIffDelivered
<1>2. DealInv => NoStageSkipped /\ SampleIffDelivered
  BY DEF DealInv
<1>3. QED
  BY <1>1, <1>2, NextDealInv, PTL DEF Spec

\* A deal never loses a status it has had.
LEMMA VisitedGrows ==
  ASSUME TypeOK, [Next]_vars, NEW d \in Deals
  PROVE  visited[d] \subseteq visited'[d]
<1>1. ASSUME NEW c \in Deals, NEW s, SetStatus(c, s) PROVE visited[d] \subseteq visited'[d]
  BY <1>1 DEF TypeOK, SetStatus
<1>2. ASSUME NEW r \in Requests, Commit(r) PROVE visited[d] \subseteq visited'[d]
  <2>1. sess[r].deal \in Deals
    BY <1>2 DEF Commit, TypeOK, Idle, Moving
  <2>2. QED
    BY <1>1, <1>2, <2>1 DEF Commit
<1>3. QED
  BY <1>1, <1>2 DEF Next, Create, ReadDeal, Abort, vars

\* A price sample is never taken back.
LEMMA SamplesGrow ==
  ASSUME TypeOK, [Next]_vars, NEW d \in Deals
  PROVE  samples[d] \in Nat /\ samples'[d] \in Nat /\ samples[d] <= samples'[d]
<1>1. ASSUME NEW r \in Requests, Commit(r) PROVE samples[d] <= samples'[d]
  <2>1. sess[r].deal \in Deals
    BY <1>1 DEF Commit, TypeOK, Idle, Moving
  <2>2. QED
    BY <1>1, <2>1 DEF Commit, TypeOK
<1>2. samples[d] <= samples'[d]
  BY <1>1 DEF Next, Create, ReadDeal, Abort, vars, TypeOK
<1>3. QED
  BY <1>2, NextType DEF TypeOK

-----------------------------------------------------------------------------
(* The deal desk keeps the record.                                         *)

\* A status that an allowed move leads to follows a status the deal has had.
LEMMA MoveIsLed ==
  ASSUME NEW s, NEW to \in AdminNext(s)
  PROVE  to \in DOMAIN Record!LedToBy /\ (to # "cancelled" => Record!LedToBy[to] = s)
BY DEF AdminNext, Record!LedToBy

\* Every step is a step of the record or leaves it alone.
LEMMA NextRecords ==
  ASSUME DealInv, [Next]_vars
  PROVE  [Record!Next]_(Record!record)
<1>0. TypeOK /\ SessionsJustified /\ NoStageSkipped
  BY DEF DealInv
<1>1. ASSUME NEW d \in Deals, Create(d) PROVE Record!Next
  <2>1. Record!Book(d)
    BY <1>0, <1>1 DEF Create, SetStatus, SessionsJustified, Record!Book, Record!Enter
  <2>2. QED
    BY <2>1 DEF Record!Next
<1>2. ASSUME NEW r \in Requests, Commit(r) PROVE Record!Next
  <2>1. sess[r] # Idle /\ sess[r] \in Moving
    BY <1>0, <1>2, SessionKind DEF Commit
  <2>2. PICK d \in Deals, to \in DealStatus : d = sess[r].deal /\ to = sess[r].to
    BY <2>1 DEF Moving
  <2>3. PICK s \in visited[d] : to \in AdminNext(s)
    BY <1>0, <2>1, <2>2 DEF SessionsJustified
  <2>4. to \in DOMAIN Record!LedToBy /\ Record!LedToBy[to] \in visited[d]
    <3>1. CASE to # "cancelled"
      BY <2>3, <3>1, MoveIsLed
    <3>2. CASE to = "cancelled"
      BY <1>0, <2>3, <3>2 DEF NoStageSkipped, Record!LedToBy
    <3>3. QED
      BY <3>1, <3>2
  <2>5. Record!Reach(d, to)
    BY <1>2, <2>2, <2>4 DEF Commit, SetStatus, LeavesSample, Record!Reach, Record!Enter
  <2>6. QED
    BY <2>4, <2>5 DEF Record!Next
<1>3. CASE UNCHANGED <<status, samples, visited>>
  BY <1>3 DEF Record!record
<1>4. QED
  BY <1>1, <1>2, <1>3 DEF Next, ReadDeal, Abort, vars

\* Overlapping status requests implement the record: what a request read may be long out of
\* date, but it was once so, and the history it left behind is never taken back.
THEOREM ImplementsRecord == Spec => KeepsRecord
<1>1. Init => DealInv /\ Record!Init
  BY DEF Init, DealInv, TypeOK, SessionsJustified, NoStageSkipped, SampleIffDelivered, Record!Init
<1>2. QED
  BY <1>1, NextDealInv, NextRecords, PTL DEF Spec, KeepsRecord, Record!Spec

-----------------------------------------------------------------------------
(* Requests one at a time.                                                 *)

OneAtATime == \A r, q \in Requests : r = q

\* With one request at a time, what a session decided on is still so when it commits.
SessionCurrent ==
  \A r \in Requests : sess[r] # Idle => sess[r].to \in AdminNext(status[sess[r].deal])

\* One at a time, every step keeps the sessions current.
LEMMA NextSessionCurrent ==
  ASSUME OneAtATime, TypeOK, SessionCurrent, [Next]_vars
  PROVE  SessionCurrent'
<1>1. ASSUME NEW d \in Deals, Create(d) PROVE SessionCurrent'
  <2>1. status[d] = "none" /\ status' = [status EXCEPT ![d] = "booked"] /\ sess' = sess
    BY <1>1 DEF Create, SetStatus
  <2>2. SUFFICES ASSUME NEW q \in Requests, sess'[q] # Idle
                 PROVE  sess'[q].to \in AdminNext(status'[sess'[q].deal])
    BY DEF SessionCurrent
  <2>3. sess[q].to \in AdminNext(status[sess[q].deal]) /\ sess[q].deal \in Deals
    BY <2>1, <2>2, SessionKind DEF SessionCurrent, Moving
  <2>4. sess[q].deal # d
    BY <2>1, <2>3, TableSteps DEF DealStatus
  <2>5. QED
    BY <2>1, <2>3, <2>4 DEF TypeOK
<1>2. ASSUME NEW r \in Requests, NEW d \in Deals, NEW role \in Roles, NEW to \in DealStatus,
             ReadDeal(r, d, role, to)
      PROVE  SessionCurrent'
  <2>1. to \in AdminNext(status[d]) /\ status' = status
    BY <1>2, CarrierBelowAdmin DEF ReadDeal
  <2>2. \A q \in Requests :
          sess'[q] = IF q = r THEN [at |-> "commit", deal |-> d, to |-> to] ELSE sess[q]
    BY <1>2 DEF ReadDeal, TypeOK
  <2>3. QED
    BY <2>1, <2>2 DEF SessionCurrent
<1>3. ASSUME NEW r \in Requests, Commit(r) \/ Abort(r) PROVE SessionCurrent'
  <2>1. \A q \in Requests : sess'[q] = Idle
    BY <1>3 DEF Commit, Abort, TypeOK, OneAtATime
  <2>2. QED
    BY <2>1 DEF SessionCurrent
<1>4. CASE UNCHANGED vars
  BY <1>4 DEF vars, SessionCurrent
<1>5. QED
  BY <1>1, <1>2, <1>3, <1>4 DEF Next

\* One at a time, a deal leaves its price sample once: when it is delivered for good.
OneSample ==
  \A d \in Deals :
    samples[d] <= IF status[d] \in {"delivered", "invoiced", "paid"} THEN 1 ELSE 0

\* One at a time, every step keeps that.
LEMMA NextOneSample ==
  ASSUME TypeOK, SessionCurrent, OneSample, [Next]_vars
  PROVE  OneSample'
<1>1. ASSUME NEW d \in Deals, Create(d) PROVE OneSample'
  BY <1>1 DEF Create, SetStatus, OneSample, TypeOK
<1>2. ASSUME NEW r \in Requests, Commit(r) PROVE OneSample'
  <2>1. sess[r] # Idle /\ sess[r] \in Moving
    BY <1>2, SessionKind DEF Commit
  <2>2. PICK d \in Deals, to \in DealStatus : d = sess[r].deal /\ to = sess[r].to
    BY <2>1 DEF Moving
  <2>3. to \in AdminNext(status[d])
    BY <2>1, <2>2 DEF SessionCurrent
  <2>4. /\ status' = [status EXCEPT ![d] = to]
        /\ samples' = IF LeavesSample(d, to) THEN [samples EXCEPT ![d] = @ + 1] ELSE samples
    BY <1>2, <2>2 DEF Commit, SetStatus
  <2>5. to = "delivered" => samples[d] = 0
    BY <2>3 DEF OneSample, AdminNext, TypeOK
  <2>6. to # "delivered" => samples[d] <= IF to \in {"invoiced", "paid"} THEN 1 ELSE 0
    BY <2>3 DEF OneSample, AdminNext, TypeOK
  <2>7. QED
    BY <2>4, <2>5, <2>6 DEF OneSample, LeavesSample, TypeOK
<1>3. CASE UNCHANGED <<status, samples>>
  BY <1>3 DEF OneSample
<1>4. QED
  BY <1>1, <1>2, <1>3 DEF Next, ReadDeal, Abort, vars

\* One at a time, a deal that was delivered only goes on to the invoice and the payment.
LeavesForGood ==
  \A d \in Deals :
    "delivered" \in visited[d] => status[d] \in {"delivered", "invoiced", "paid"}

\* One at a time, every step keeps that.
LEMMA NextLeavesForGood ==
  ASSUME DealInv, SessionCurrent, LeavesForGood, [Next]_vars
  PROVE  LeavesForGood'
<1>0. TypeOK /\ SessionsJustified
  BY DEF DealInv
<1>1. ASSUME NEW d \in Deals, Create(d) PROVE LeavesForGood'
  BY <1>0, <1>1 DEF Create, SetStatus, LeavesForGood, SessionsJustified, TypeOK
<1>2. ASSUME NEW r \in Requests, Commit(r) PROVE LeavesForGood'
  <2>1. sess[r] # Idle /\ sess[r] \in Moving
    BY <1>0, <1>2, SessionKind DEF Commit
  <2>2. PICK d \in Deals, to \in DealStatus : d = sess[r].deal /\ to = sess[r].to
    BY <2>1 DEF Moving
  <2>3. to \in AdminNext(status[d])
    BY <2>1, <2>2 DEF SessionCurrent
  <2>4. /\ status' = [status EXCEPT ![d] = to]
        /\ visited' = [visited EXCEPT ![d] = @ \cup {to}]
    BY <1>2, <2>2 DEF Commit, SetStatus
  <2>5. "delivered" \in visited[d] => to \in {"invoiced", "paid"}
    BY <2>3 DEF LeavesForGood, AdminNext
  <2>6. QED
    BY <1>0, <2>4, <2>5 DEF LeavesForGood, TypeOK
<1>3. CASE UNCHANGED <<status, visited>>
  BY <1>3 DEF LeavesForGood
<1>4. QED
  BY <1>1, <1>2, <1>3 DEF Next, ReadDeal, Abort, vars

\* Requests that do not overlap close the tracking window for good: what tracking_window finds
\* comes from the overlap of two of them, not from what the tables allow.
THEOREM SerialWindow == ASSUME OneAtATime PROVE Spec => []WindowStaysClosed
<1>1. Init => DealInv /\ SessionCurrent /\ LeavesForGood
  BY DEF Init, DealInv, TypeOK, SessionsJustified, NoStageSkipped, SampleIffDelivered,
     SessionCurrent, LeavesForGood
<1>2. DealInv /\ SessionCurrent /\ LeavesForGood /\ [Next]_vars
        => DealInv' /\ SessionCurrent' /\ LeavesForGood'
  BY NextDealInv, NextSessionCurrent, NextLeavesForGood DEF DealInv
<1>3. LeavesForGood => WindowStaysClosed
  BY DEF LeavesForGood, WindowStaysClosed, Trackable
<1>4. QED
  BY <1>1, <1>2, <1>3, PTL DEF Spec

\* Requests that do not overlap leave at most one price sample of a deal, and none before it
\* is delivered.
THEOREM SerialSample == ASSUME OneAtATime PROVE Spec => []OneSample
<1>1. Init => SessionCurrent /\ OneSample
  BY DEF Init, SessionCurrent, OneSample
<1>2. TypeOK /\ SessionCurrent /\ [Next]_vars => SessionCurrent'
  BY NextSessionCurrent
<1>3. TypeOK /\ SessionCurrent /\ OneSample /\ [Next]_vars => OneSample'
  BY NextOneSample
<1>4. QED
  BY <1>1, <1>2, <1>3, TypeCorrect, PTL DEF Spec
=============================================================================
