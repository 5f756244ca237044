--------------------------- MODULE TrackingProofs ---------------------------
(***************************************************************************)
(* Proofs about Tracking: the pages and the positions leave the deal desk    *)
(* what it is; whatever stale requests do to a deal, its page was opened by *)
(* someone who may follow it; and the vehicle on it never jumps back.       *)
(***************************************************************************)
EXTENDS Tracking, DealDeskProofs, FiniteSetTheorems

\* The deal desk with pages and positions around it is the deal desk.
THEOREM TracksDealDesk == TrackingSpec => Spec
<1>1. TrackingInit => Init
  BY DEF TrackingInit
<1>2. [TrackingNext]_<<vars, log, page>> => [Next]_vars
  BY DEF TrackingNext, PositionsChange, Open, Refresh, Show, Break
<1>3. QED
  BY <1>1, <1>2, PTL DEF TrackingSpec, Spec

-----------------------------------------------------------------------------
(* The latest of the stored positions.                                     *)

\* A finite set of times has a latest one: of its subsets without one, a smallest would
\* lose that when any element is taken out.
LEMMA LatestExists ==
  ASSUME NEW T \in SUBSET Nat, IsFiniteSet(T), T # {}
  PROVE  \E t \in T : \A u \in T : u <= t
<1> DEFINE HasLatest(S) == \E t \in S : \A u \in S : u <= t
           without == {S \in SUBSET T : S # {} /\ ~HasLatest(S)}
<1>1. SUFFICES ASSUME ~HasLatest(T) PROVE FALSE
  OBVIOUS
<1>2. without # {} /\ without \subseteq FiniteSubsetsOf(T)
  <2>1. T \in without
    BY <1>1
  <2>2. \A S \in SUBSET T : IsFiniteSet(S)
    BY FS_Subset
  <2>3. QED
    BY <2>1, <2>2 DEF FiniteSubsetsOf
<1>3. PICK S \in without : \A R \in without : ~ (<<R, S>> \in StrictSubsetOrdering(T))
  <2> HIDE DEF without
  <2>1. IsWellFoundedOn(StrictSubsetOrdering(T), FiniteSubsetsOf(T))
    BY FS_StrictSubsetOrderingWellFounded
  <2>2. QED
    BY <1>2, <2>1, WFMin
<1>4. PICK s \in S : TRUE
  OBVIOUS
<1> DEFINE R == S \ {s}
<1>5. R \notin without
  <2>1. <<R, S>> \in StrictSubsetOrdering(T)
    BY DEF StrictSubsetOrdering
  <2>2. QED
    BY <1>3, <2>1
<1>6. CASE R = {}
  BY <1>4, <1>6
<1>7. CASE R # {}
  <2>1. PICK t \in R : \A u \in R : u <= t
    BY <1>5, <1>7
  <2>2. \A u \in S : u = s \/ u <= t
    BY <2>1
  <2>3. s \in Nat /\ t \in Nat /\ S \subseteq Nat
    OBVIOUS
  <2>4. CASE s <= t
    BY <2>1, <2>2, <2>4
  <2>5. CASE t <= s
    <3>1. \A u \in S : u <= s
      BY <2>2, <2>3, <2>5
    <3>2. QED
      BY <1>4, <3>1
  <2>6. QED
    BY <2>3, <2>4, <2>5
<1>8. QED
  BY <1>6, <1>7

\* The times of a history are finitely many.
LEMMA TimesFinite ==
  ASSUME NEW s \in Seq(Fixes)
  PROVE  positions!Times(s) \in SUBSET (Nat \ {0}) /\ IsFiniteSet(positions!Times(s))
<1> DEFINE timeOf == [i \in DOMAIN s |-> s[i].at]
<1>1. positions!Times(s) \in SUBSET (Nat \ {0})
  BY TrackingAssumption DEF positions!Times
<1>2. timeOf \in Surjection(DOMAIN s, positions!Times(s))
  BY DEF Surjection, positions!Times
<1>3. IsFiniteSet(DOMAIN s)
  BY FS_Interval
<1>4. QED
  BY <1>1, <1>2, <1>3, FS_Surjection

\* What the page shows is 0 or a stored time, and none is later.
LEMMA LatestIsLast ==
  ASSUME TrackingTypeOK, NEW v \in Vehicles
  PROVE  /\ Latest(v) \in {0} \cup positions!Times(log[v])
         /\ Latest(v) \in Nat
         /\ \A t \in {0} \cup positions!Times(log[v]) : t <= Latest(v)
<1> DEFINE times == positions!Times(log[v])
<1>1. times \in SUBSET (Nat \ {0}) /\ IsFiniteSet(times)
  BY TimesFinite DEF TrackingTypeOK
<1>2. CASE times = {}
  BY <1>2 DEF Latest
<1>3. CASE times # {}
  <2> HIDE DEF times
  <2>1. \E t \in times : \A u \in times : u <= t
    BY <1>1, <1>3, LatestExists
  <2>2. Latest(v) = CHOOSE t \in times : \A u \in times : u <= t
    BY <1>3 DEF Latest, times
  <2>3. Latest(v) \in times /\ \A u \in times : u <= Latest(v)
    BY <2>1, <2>2
  <2>4. QED
    BY <1>1, <2>3 DEF times
<1>4. QED
  BY <1>2, <1>3

-----------------------------------------------------------------------------
(* Positions.                                                              *)

\* What the fleet stores and erases is a history of fixes for each vehicle.
LEMMA LogType ==
  ASSUME TrackingTypeOK, positions!Next
  PROVE  log' \in [Vehicles -> Seq(Fixes)]
<1>1. ASSUME NEW W \in SUBSET Vehicles, NEW fixes \in [W -> Fixes], positions!Store(fixes)
      PROVE  log' \in [Vehicles -> Seq(Fixes)]
  <2>1. \A v \in Vehicles : v \in W => Append(log[v], fixes[v]) \in Seq(Fixes)
    BY DEF TrackingTypeOK
  <2>2. QED
    BY <1>1, <2>1 DEF positions!Store, TrackingTypeOK
<1>2. ASSUME NEW v \in Vehicles, positions!Erase(v) PROVE log' \in [Vehicles -> Seq(Fixes)]
  <2>1. <<>> \in Seq(Fixes)
    OBVIOUS
  <2>2. QED
    BY <1>2, <2>1 DEF positions!Erase, TrackingTypeOK
<1>3. QED
  BY <1>1, <1>2 DEF positions!Next

\* A fix that is added leaves the times that are there.
LEMMA AppendKeepsTimes ==
  ASSUME NEW s \in Seq(Fixes), NEW x \in Fixes
  PROVE  positions!Times(s) \subseteq positions!Times(Append(s, x))
<1>1. \A i \in DOMAIN s : i \in DOMAIN Append(s, x) /\ Append(s, x)[i] = s[i]
  OBVIOUS
<1>2. QED
  BY <1>1 DEF positions!Times

\* A vehicle that a deal refers to keeps the times of its positions.
LEMMA TimesGrow ==
  ASSUME TrackingTypeOK, PositionsChange, NEW v \in Vehicles, ~Deletable(v)
  PROVE  positions!Times(log[v]) \subseteq positions!Times(log'[v])
<1>1. ASSUME NEW W \in SUBSET Vehicles, NEW fixes \in [W -> Fixes], positions!Store(fixes)
      PROVE  positions!Times(log[v]) \subseteq positions!Times(log'[v])
  <2>1. log'[v] = IF v \in W THEN Append(log[v], fixes[v]) ELSE log[v]
    BY <1>1 DEF positions!Store
  <2>2. CASE v \in W
    BY <2>1, <2>2, AppendKeepsTimes DEF TrackingTypeOK
  <2>3. CASE v \notin W
    BY <2>1, <2>3
  <2>4. QED
    BY <2>2, <2>3
<1>2. ASSUME NEW w \in Vehicles, positions!Erase(w)
      PROVE  positions!Times(log[v]) \subseteq positions!Times(log'[v])
  <2>1. log'[v] = log[v] \/ log'[v] = <<>>
    BY <1>2 DEF positions!Erase, TrackingTypeOK
  <2>2. log'[v] = log[v]
    BY <2>1 DEF PositionsChange
  <2>3. QED
    BY <2>2
<1>3. QED
  BY <1>1, <1>2 DEF PositionsChange, positions!Next

-----------------------------------------------------------------------------
(* Pages.                                                                  *)

\* A page that is open has a user, a deal and a time.
LEMMA PageKind ==
  ASSUME TrackingTypeOK, NEW p \in Pages
  PROVE  /\ page[p] # Closed => page[p] \in Page
         /\ page[p].at \in {"gate", "open"} => page[p] # Closed
BY DEF TrackingTypeOK, Page, Closed

\* A status that may be followed on the map comes after the loading.
LEMMA TrackableIsLoaded ==
  ASSUME DealInv, NEW d \in Deals, status[d] \in Trackable
  PROVE  "loaded" \in visited[d]
<1>1. status[d] \in visited[d]
  BY DEF DealInv, SessionsJustified, Trackable
<1>2. status[d] = "in_transit" => "loaded" \in visited[d]
  BY <1>1 DEF DealInv, NoStageSkipped, Before
<1>3. QED
  BY <1>1, <1>2 DEF Trackable

\* A deal's row stays.
LEMMA DealStays ==
  ASSUME TypeOK, [Next]_vars, NEW d \in Deals, status[d] # "none"
  PROVE  status'[d] # "none"
<1>1. ASSUME NEW r \in Requests, Commit(r) PROVE status'[d] # "none"
  <2>1. sess[r].deal \in Deals /\ sess[r].to \in DealStatus
    BY <1>1 DEF Commit, TypeOK, Idle, Moving
  <2>2. QED
    BY <1>1, <2>1 DEF Commit, SetStatus, TypeOK, DealStatus
<1>2. QED
  BY <1>1 DEF Next, Create, SetStatus, ReadDeal, Abort, vars, TypeOK

\* What must be known of a page: its user may see the deal, which exists, and its position is
\* a stored one.
PageFits(x) ==
  /\ RoleOf[x.user] # "admin" =>
       "loaded" \in visited[x.deal] /\ (RoleOf[x.user] # "carrier" => Owner[x.deal] = x.user)
  /\ status[x.deal] # "none"
  /\ x.time \in {0} \cup positions!Times(log[VehicleOf[x.deal]])

LEMMA PagesFit ==
  (PageOnceLoaded /\ PageShowsStored) <=> \A p \in Pages : page[p] # Closed => PageFits(page[p])
BY DEF PageOnceLoaded, PageShowsStored, PageFits

\* What the deal desk and the fleet do leaves every page fitting.
LEMMA OthersFit ==
  ASSUME TrackingInv, NEW x \in Page, PageFits(x),
         \/ [Next]_vars /\ UNCHANGED log
         \/ PositionsChange
  PROVE  PageFits(x)'
<1>1. x.deal \in Deals /\ VehicleOf[x.deal] \in Vehicles /\ TypeOK /\ TrackingTypeOK
  BY TrackingAssumption DEF Page, TrackingInv, DealInv
<1>2. [Next]_vars
  BY DEF PositionsChange
<1>3. visited[x.deal] \subseteq visited'[x.deal]
  BY <1>1, <1>2, VisitedGrows
<1>4. status'[x.deal] # "none"
  BY <1>1, <1>2, DealStays DEF PageFits
<1>5. positions!Times(log[VehicleOf[x.deal]]) \subseteq positions!Times(log'[VehicleOf[x.deal]])
  <2>1. ~Deletable(VehicleOf[x.deal])
    BY <1>1 DEF Deletable, PageFits
  <2>2. CASE UNCHANGED log
    BY <2>2
  <2>3. CASE PositionsChange
    BY <1>1, <2>1, <2>3, TimesGrow
  <2>4. QED
    BY <2>2, <2>3
<1>6. QED
  BY <1>3, <1>4, <1>5 DEF PageFits

\* What one page becomes, and the deal desk and the positions stay as they are.
LEMMA PageStep ==
  ASSUME TrackingInv, NEW p \in Pages, NEW x \in Page, PageFits(x),
         page' = [page EXCEPT ![p] = x], UNCHANGED <<vars, log>>
  PROVE  TrackingTypeOK' /\ \A q \in Pages : page'[q] # Closed => PageFits(page[q])'
<1>1. /\ TrackingTypeOK
      /\ \A q \in Pages : page[q] # Closed => PageFits(page[q])
  BY PagesFit DEF TrackingInv
<1>2. \A q \in Pages : page'[q] = IF q = p THEN x ELSE page[q]
  BY <1>1 DEF TrackingTypeOK
<1>3. \A y : PageFits(y) => PageFits(y)'
  BY DEF PageFits, vars
<1>4. \A q \in Pages : page'[q] # Closed => PageFits(page[q])'
  <2>1. SUFFICES ASSUME NEW q \in Pages, page'[q] # Closed PROVE PageFits(page[q])'
    OBVIOUS
  <2>2. CASE q = p
    BY <1>2, <1>3, <2>2 DEF PageFits
  <2>3. CASE q # p
    BY <1>1, <1>2, <1>3, <2>1, <2>3 DEF PageFits
  <2>4. QED
    BY <2>2, <2>3
<1>5. TrackingTypeOK'
  BY <1>1 DEF TrackingTypeOK
<1>6. QED
  BY <1>4, <1>5

\* A request of a page is let through only if the page fits, and shows a stored position.
LEMMA PageMoves ==
  ASSUME TrackingInv, NEW p \in Pages,
         \/ \E u \in Users, d \in Deals : Open(p, u, d)
         \/ Refresh(p) \/ Show(p) \/ Break(p)
  PROVE  \E x \in Page : PageFits(x) /\ page' = [page EXCEPT ![p] = x] /\ UNCHANGED <<vars, log>>
<1>1. ASSUME NEW u \in Users, NEW d \in Deals, Open(p, u, d)
      PROVE  \E x \in Page :
               PageFits(x) /\ page' = [page EXCEPT ![p] = x] /\ UNCHANGED <<vars, log>>
  <2> DEFINE x == [at |-> "gate", user |-> u, deal |-> d, time |-> 0]
  <2>1. x \in Page
    BY DEF Page
  <2>2. PageFits(x)
    BY <1>1, TrackableIsLoaded, TrackingAssumption DEF Open, CanTrack, PageFits, TrackingInv
  <2>3. page' = [page EXCEPT ![p] = x] /\ UNCHANGED <<vars, log>>
    BY <1>1 DEF Open
  <2>4. QED
    BY <2>1, <2>2, <2>3
<1>2. ASSUME Refresh(p) \/ Show(p) \/ Break(p)
      PROVE  \E x \in Page :
               PageFits(x) /\ page' = [page EXCEPT ![p] = x] /\ UNCHANGED <<vars, log>>
  <2>1. page[p] \in Page /\ PageFits(page[p]) /\ TrackingTypeOK
    BY <1>2, PageKind, PagesFit DEF Refresh, Show, Break, TrackingInv
  <2>2. PICK a \in {"gate", "open"}, u \in Users, d \in Deals, t \in Nat :
               page[p] = [at |-> a, user |-> u, deal |-> d, time |-> t]
    BY <2>1 DEF Page
  <2> DEFINE v == VehicleOf[d]
  <2>3. PICK b \in {"gate", "open"}, s \in {t, Latest(v)} :
               page' = [page EXCEPT ![p] = [at |-> b, user |-> u, deal |-> d, time |-> s]]
    <3>1. CASE Refresh(p)
      <4>1. [page[p] EXCEPT !.at = "gate"] = [at |-> "gate", user |-> u, deal |-> d, time |-> t]
        BY <2>2
      <4>2. QED
        BY <3>1, <4>1 DEF Refresh
    <3>2. CASE Show(p)
      BY <2>2, <3>2 DEF Show
    <3>3. CASE Break(p)
      <4>1. [page[p] EXCEPT !.at = "open"] = [at |-> "open", user |-> u, deal |-> d, time |-> t]
        BY <2>2
      <4>2. QED
        BY <3>3, <4>1 DEF Break
    <3>4. QED
      BY <1>2, <3>1, <3>2, <3>3
  <2> DEFINE x == [at |-> b, user |-> u, deal |-> d, time |-> s]
  <2>4. s \in Nat /\ s \in {0} \cup positions!Times(log[v])
    <3>1. t \in {0} \cup positions!Times(log[v])
      BY <2>1, <2>2 DEF PageFits
    <3>2. v \in Vehicles
      BY TrackingAssumption
    <3>3. QED
      BY <2>1, <3>1, <3>2, LatestIsLast
  <2>5. x \in Page /\ PageFits(x)
    BY <2>1, <2>2, <2>4 DEF Page, PageFits
  <2>6. UNCHANGED <<vars, log>>
    BY <1>2 DEF Refresh, Show, Break
  <2>7. QED
    BY <2>3, <2>5, <2>6
<1>3. QED
  BY <1>1, <1>2

-----------------------------------------------------------------------------
(* The inductive invariant, and what follows.                              *)

LEMMA TrackingStep == TrackingInv /\ [TrackingNext]_<<vars, log, page>> => TrackingInv'
<1> SUFFICES ASSUME TrackingInv, [TrackingNext]_<<vars, log, page>> PROVE TrackingInv'
  OBVIOUS
<1>0. TrackingTypeOK /\ \A p \in Pages : page[p] # Closed => PageFits(page[p])
  BY PagesFit DEF TrackingInv
<1>1. DealInv'
  <2>1. [Next]_vars
    BY DEF TrackingNext, PositionsChange, Open, Refresh, Show, Break
  <2>2. QED
    BY <2>1, NextDealInv DEF TrackingInv
<1>2. TrackingTypeOK' /\ \A p \in Pages : page'[p] # Closed => PageFits(page[p])'
  <2>1. CASE (([Next]_vars /\ UNCHANGED log) \/ PositionsChange) /\ UNCHANGED page
    <3>1. TrackingTypeOK'
      BY <1>0, <2>1, LogType DEF TrackingTypeOK, PositionsChange
    <3>2. ASSUME NEW p \in Pages, page'[p] # Closed PROVE PageFits(page[p])'
      <4>1. page[p] \in Page /\ PageFits(page[p]) /\ page'[p] = page[p]
        BY <1>0, <2>1, <3>2, PageKind
      <4>2. PICK x \in Page : x = page[p]
        BY <4>1
      <4>3. PageFits(x)'
        BY <2>1, <4>1, <4>2, OthersFit
      <4>4. QED
        BY <4>1, <4>2, <4>3 DEF PageFits
    <3>3. QED
      BY <3>1, <3>2
  <2>2. ASSUME NEW p \in Pages,
               \/ \E u \in Users, d \in Deals : Open(p, u, d)
               \/ Refresh(p) \/ Show(p) \/ Break(p)
        PROVE  TrackingTypeOK' /\ \A q \in Pages : page'[q] # Closed => PageFits(page[q])'
    <3>1. PICK x \in Page : PageFits(x) /\ page' = [page EXCEPT ![p] = x] /\ UNCHANGED <<vars, log>>
      BY <2>2, PageMoves
    <3>2. QED
      BY <3>1, PageStep
  <2>3. QED
    BY <2>1, <2>2 DEF TrackingNext, PositionsChange
<1>3. PageOnceLoaded' /\ PageShowsStored'
  BY <1>2 DEF PageOnceLoaded, PageShowsStored, PageFits
<1>4. QED
  BY <1>1, <1>2, <1>3 DEF TrackingInv

THEOREM TrackingInvariant == TrackingSpec => []TrackingInv
<1>1. TrackingInit => TrackingInv
  <2> SUFFICES ASSUME TrackingInit PROVE TrackingInv
    OBVIOUS
  <2>1. DealInv
    BY DEF TrackingInit, Init, DealInv, TypeOK, SessionsJustified, NoStageSkipped, SampleIffDelivered
  <2>2. TrackingTypeOK
    <3>1. <<>> \in Seq(Fixes)
      OBVIOUS
    <3>2. QED
      BY <3>1 DEF TrackingInit, positions!Init, TrackingTypeOK
  <2>3. PageOnceLoaded /\ PageShowsStored
    BY DEF TrackingInit, PageOnceLoaded, PageShowsStored
  <2>4. QED
    BY <2>1, <2>2, <2>3 DEF TrackingInv
<1>2. QED
  BY <1>1, TrackingStep, PTL DEF TrackingSpec

\* Positions and pages keep their shape.
THEOREM TrackingTypeCorrect == TrackingSpec => []TrackingTypeOK
<1>1. TrackingInv => TrackingTypeOK
  BY DEF TrackingInv
<1>2. QED
  BY <1>1, TrackingInvariant, PTL

\* However many stale status requests interleave with the pages, a page is of a deal whose
\* cargo has been loaded, and a shipper's of his own.
THEOREM GateHolds == TrackingSpec => []PageOnceLoaded
<1>1. TrackingInv => PageOnceLoaded
  BY DEF TrackingInv
<1>2. QED
  BY <1>1, TrackingInvariant, PTL

\* A refresh never moves the vehicle on an open page back, in whatever order fixes are
\* stored and however vehicles are deleted meanwhile.
THEOREM OnlyAdvances == TrackingSpec => NeverJumpsBack
<1>1. TrackingInv /\ TrackingInv' /\ [TrackingNext]_<<vars, log, page>> => [Advances]_<<vars, log, page>>
  <2> SUFFICES ASSUME TrackingInv, TrackingNext,
                      NEW p \in Pages, page[p].at = "gate", page'[p].at = "open"
               PROVE  page[p].time <= page'[p].time
    BY DEF Advances
  <2>1. page[p] \in Page /\ PageFits(page[p]) /\ TrackingTypeOK
    BY PageKind, PagesFit DEF TrackingInv
  <2>2. Show(p) \/ page'[p].time = page[p].time
    <3>1. ASSUME NEW q \in Pages, Refresh(q) \/ Show(q) \/ Break(q) \/ \E u \in Users, d \in Deals : Open(q, u, d)
          PROVE  Show(p) \/ page'[p].time = page[p].time
      <4>1. CASE q # p
        BY <2>1, <3>1, <4>1 DEF Refresh, Show, Break, Open, TrackingTypeOK
      <4>2. CASE q = p
        BY <2>1, <3>1, <4>2 DEF Refresh, Show, Break, Open, TrackingTypeOK, Page
      <4>3. QED
        BY <4>1, <4>2
    <3>2. QED
      BY <3>1 DEF TrackingNext, PositionsChange
  <2>3. CASE Show(p)
    <3> DEFINE v == VehicleOf[page[p].deal]
    <3>1. page'[p].time = Latest(v)
      BY <2>1, <2>3 DEF Show, TrackingTypeOK
    <3>2. v \in Vehicles /\ page[p].time \in {0} \cup positions!Times(log[v])
      BY <2>1, TrackingAssumption DEF Page, PageFits
    <3>3. QED
      BY <2>1, <3>1, <3>2, LatestIsLast
  <2>4. CASE page'[p].time = page[p].time
    BY <2>1, <2>4 DEF Page
  <2>5. QED
    BY <2>2, <2>3, <2>4
<1>2. QED
  BY <1>1, TrackingInvariant, PTL DEF TrackingSpec, NeverJumpsBack
=============================================================================
