--------------------------- MODULE FleetGpsProofs ---------------------------
(***************************************************************************)
(* Proofs about FleetGps, for any number of vehicles, companies, devices    *)
(* and overlapping requests, and that its poll implements PositionLog.      *)
(***************************************************************************)
EXTENDS FleetGps, TLAPS

\* A session that is not idle is a record of the type Session, and an idle one is not.
LEMMA SessionKind ==
  ASSUME TypeOK, NEW r \in Requests
  PROVE  /\ sess[r] # Idle => sess[r] \in Session
         /\ sess[r].at # "idle" <=> sess[r] # Idle
BY DEF TypeOK, Idle, Session

\* The same for the poll.
LEMMA PollKind ==
  ASSUME TypeOK
  PROVE  /\ poll.at = "ask" => poll \in Asking /\ poll # Idle
         /\ poll.at = "store" => poll \in Storing /\ poll # Idle
         /\ poll # Idle => poll \in Asking \cup Storing
BY DEF TypeOK, Idle, Asking, Storing

\* The company of a vehicle is a company.
LEMMA CompanyType == ASSUME NEW v \in Vehicles PROVE CompanyOf[v] \in Companies
BY DEF Companies

\* A stored row is a fix.
LEMMA StoredIsFix ==
  ASSUME TypeOK, NEW v \in Vehicles, NEW i \in DOMAIN log[v]
  PROVE  log[v][i] \in Fixes /\ log[v][i].device \in Devices /\ log[v][i].at \in 1..MaxFix
<1>1. log[v] \in Seq(Fixes)
  BY DEF TypeOK
<1>2. log[v][i] \in Fixes
  BY <1>1
<1>3. QED
  BY <1>2 DEF Fixes

-----------------------------------------------------------------------------
(* Steps that change a session and nothing another one relies on.          *)

\* What a session may become when nothing but the device table of Traccar changes.
Free(r, s) ==
  /\ s \in {Idle} \cup Session
  /\ sess' = [sess EXCEPT ![r] = s]
  /\ uid' \in [Devices -> Uids \cup {NoUid}]
  /\ UNCHANGED <<vehicle, link, account, fix, madeFor, log, poll>>

\* A session that becomes its own account's maker does so alone in its company.
Alone(r, s) ==
  s # Idle /\ s.own =>
    \A q \in Requests \ {r} : sess[q] # Idle /\ sess[q].own => company(q) # CompanyOf[s.vehicle]

\* A new record of a session keeps the types.
LEMMA FreeType ==
  ASSUME TypeOK, NEW r \in Requests, NEW s, Free(r, s)
  PROVE  TypeOK'
BY DEF TypeOK, Free

\* A new record that fits keeps the invariant.
LEMMA FreeKeeps ==
  ASSUME FleetInv, NEW r \in Requests, NEW s, Free(r, s), SessionFits(s), Alone(r, s)
  PROVE  FleetInv'
<1>1. TypeOK /\ TypeOK'
  BY FreeType DEF FleetInv
<1>2. \A q \in Requests : sess'[q] = IF q = r THEN s ELSE sess[q]
  BY <1>1 DEF Free, TypeOK
<1>3. UNCHANGED <<vehicle, link, account, fix, madeFor, log, poll>>
  BY DEF Free
<1>4. OwnDevice' /\ DeviceInOrder' /\ LinkedIsGrouped' /\ PollOwn' /\ NoneNewer'
  BY <1>3 DEF FleetInv, OwnDevice, DeviceInOrder, LinkedIsGrouped, PollOwn, NoneNewer
<1>5. Feed!StoredOnce'
  BY <1>3 DEF FleetInv, Feed!StoredOnce
<1>6. SessionsFit'
  BY <1>2, <1>3 DEF FleetInv, SessionsFit, SessionFits
<1>7. OneMaker'
  BY <1>2 DEF FleetInv, OneMaker, Alone, company
<1>8. QED
  BY <1>1, <1>4, <1>5, <1>6, <1>7 DEF FleetInv

\* A session that starts fits: it has no account yet, and a device only if its vehicle has.
LEMMA StartIsFree ==
  ASSUME FleetInv, NEW r \in Requests,
         \/ \E v \in Vehicles, u \in Uids \cup {NoUid} : StartNew(r, v, u)
         \/ \E v \in Vehicles, u \in Uids : StartLink(r, v, u)
         \/ \E v \in Vehicles : StartDelete(r, v)
  PROVE  \E s : Free(r, s) /\ SessionFits(s) /\ Alone(r, s)
<1>0. TypeOK /\ OwnDevice
  BY DEF FleetInv
<1>1. ASSUME NEW op \in {"new", "link", "delete"},
             NEW at \in {"account", "commit", "erase", "remove"},
             NEW v \in Vehicles, NEW u \in Uids \cup {NoUid}, NEW d \in Devices \cup {NoDevice},
             Begin(r, op, at, v, u, d),
             d # NoDevice => d = link[v] /\ at = "erase"
      PROVE  \E s : Free(r, s) /\ SessionFits(s) /\ Alone(r, s)
  <2> DEFINE s == [at |-> at, op |-> op, vehicle |-> v, uid |-> u,
                   account |-> "none", own |-> FALSE, device |-> d]
  <2>1. s \in Session
    BY DEF Session, Account
  <2>2. Free(r, s)
    BY <1>0, <1>1, <2>1 DEF Begin, Free, TypeOK
  <2>3. SessionFits(s)
    BY <1>0, <1>1 DEF SessionFits, OwnDevice
  <2>4. Alone(r, s)
    BY DEF Alone
  <2>5. QED
    BY <2>2, <2>3, <2>4
<1>2. ASSUME NEW v \in Vehicles, NEW u \in Uids \cup {NoUid}, StartNew(r, v, u)
      PROVE  \E s : Free(r, s) /\ SessionFits(s) /\ Alone(r, s)
  BY <1>1, <1>2 DEF StartNew
<1>3. ASSUME NEW v \in Vehicles, NEW u \in Uids, StartLink(r, v, u)
      PROVE  \E s : Free(r, s) /\ SessionFits(s) /\ Alone(r, s)
  BY <1>1, <1>3 DEF StartLink
<1>4. ASSUME NEW v \in Vehicles, StartDelete(r, v)
      PROVE  \E s : Free(r, s) /\ SessionFits(s) /\ Alone(r, s)
  BY <1>0, <1>1, <1>4 DEF StartDelete, TypeOK
<1>5. QED
  BY <1>2, <1>3, <1>4

\* The steps of a request on its account and group, and its failures, leave a session that fits.
LEMMA ProceedIsFree ==
  ASSUME FleetInv, NEW r \in Requests,
         \/ FindAccount(r) \/ InsertAccount(r) \/ MakeGroup(r) \/ TraccarFails(r)
         \/ EraseDevice(r) \/ Abort(r)
  PROVE  \E s : Free(r, s) /\ SessionFits(s) /\ Alone(r, s)
<1>0. TypeOK /\ SessionFits(sess[r]) /\ OneMaker
  BY DEF FleetInv, SessionsFit
<1>1. sess[r] \in Session /\ sess[r] # Idle
  BY <1>0, SessionKind DEF FindAccount, InsertAccount, MakeGroup, TraccarFails, EraseDevice, Abort
<1>2. account[company(r)] \in Account /\ sess[r].vehicle \in Vehicles
  BY <1>0, <1>1, CompanyType DEF TypeOK, Session, company
<1>3. Free(r, Idle) => Free(r, Idle) /\ SessionFits(Idle) /\ Alone(r, Idle)
  BY DEF SessionFits, Alone
<1>4. sess[r].own => Alone(r, sess[r])
  BY <1>0, <1>1 DEF OneMaker, Alone, company
<1>5. CASE FindAccount(r)
  <2> DEFINE s == [sess[r] EXCEPT !.account = account[company(r)],
                                  !.at = AfterAccount[account[company(r)]]]
  <2>1. s \in Session
    <3>1. AfterAccount[account[company(r)]] \in {"insert", "group", "device"}
      BY <1>2 DEF Account, AfterAccount
    <3>2. QED
      BY <1>1, <1>2, <3>1 DEF Session
  <2>2. Free(r, s)
    BY <1>0, <1>5, <2>1 DEF FindAccount, Free, TypeOK
  <2>3. SessionFits(s)
    BY <1>0, <1>1, <1>2, <1>5 DEF FindAccount, SessionFits, AfterAccount, Account, company, Session
  <2>4. Alone(r, s)
    BY <1>0, <1>1, <1>5 DEF FindAccount, SessionFits, Alone, Session
  <2>5. QED
    BY <2>2, <2>3, <2>4
<1>6. CASE InsertAccount(r)
  <2> DEFINE s == [sess[r] EXCEPT !.at = "group", !.account = "bare", !.own = TRUE]
  <2>1. CASE account[company(r)] = "none"
    <3>1. s \in Session
      BY <1>1 DEF Session, Account
    <3>2. Free(r, s)
      BY <1>0, <1>6, <2>1, <3>1 DEF InsertAccount, Free, TypeOK
    <3>3. SessionFits(s)
      BY <1>0, <1>1, <1>6, <2>1 DEF InsertAccount, SessionFits, company, Session
    <3>4. Alone(r, s)
      BY <1>1, <1>6 DEF InsertAccount, Waits, Alone, company, Session
    <3>5. QED
      BY <3>2, <3>3, <3>4
  <2>2. CASE account[company(r)] # "none"
    BY <1>0, <1>3, <1>6, <2>2 DEF InsertAccount, Free, TypeOK
  <2>3. QED
    BY <2>1, <2>2
<1>7. CASE MakeGroup(r)
  <2> DEFINE s == [sess[r] EXCEPT !.at = "device", !.account = "grouped"]
  <2>1. s \in Session
    BY <1>1 DEF Session, Account
  <2>2. Free(r, s)
    BY <1>0, <1>7, <2>1 DEF MakeGroup, Free, TypeOK
  <2>3. SessionFits(s)
    BY <1>0, <1>1, <1>7 DEF MakeGroup, SessionFits, Session
  <2>4. Alone(r, s)
    BY <1>1, <1>4 DEF Alone, Session
  <2>5. QED
    BY <2>2, <2>3, <2>4
<1>8. CASE TraccarFails(r)
  <2> DEFINE s == [sess[r] EXCEPT !.at = "commit"]
  <2>1. s \in Session
    BY <1>1 DEF Session
  <2>2. CASE sess[r].op = "new"
    <3>1. Free(r, s)
      BY <1>0, <1>8, <2>1, <2>2 DEF TraccarFails, GiveUp, Free, TypeOK
    <3>2. SessionFits(s)
      BY <1>0, <1>1, <1>8 DEF TraccarFails, SessionFits, Session
    <3>3. Alone(r, s)
      BY <1>1, <1>4 DEF Alone, Session
    <3>4. QED
      BY <3>1, <3>2, <3>3
  <2>3. CASE sess[r].op # "new"
    BY <1>0, <1>3, <1>8, <2>3 DEF TraccarFails, GiveUp, Free, TypeOK
  <2>4. QED
    BY <2>2, <2>3
<1>9. CASE EraseDevice(r)
  <2> DEFINE s == [sess[r] EXCEPT !.at = "remove"]
  <2>1. s \in Session
    BY <1>1 DEF Session
  <2>2. uid' \in [Devices -> Uids \cup {NoUid}]
    BY <1>0, <1>9 DEF EraseDevice, TypeOK
  <2>3. Free(r, s)
    BY <1>9, <2>1, <2>2 DEF EraseDevice, Free
  <2>4. SessionFits(s)
    BY <1>0, <1>1, <1>9 DEF EraseDevice, SessionFits, Session
  <2>5. Alone(r, s)
    BY <1>1, <1>4 DEF Alone, Session
  <2>6. QED
    BY <2>3, <2>4, <2>5
<1>10. CASE Abort(r)
  BY <1>0, <1>3, <1>10 DEF Abort, Free, TypeOK
<1>11. QED
  BY <1>5, <1>6, <1>7, <1>8, <1>9, <1>10

-----------------------------------------------------------------------------
(* The device, and the commits.                                            *)

\* A device is made for one vehicle only, once.
LEMMA CreateKeeps ==
  ASSUME FleetInv, NEW r \in Requests, NEW d \in Devices, CreateDevice(r, d)
  PROVE  FleetInv'
<1>0. /\ TypeOK /\ OwnDevice /\ DeviceInOrder /\ LinkedIsGrouped /\ Feed!StoredOnce
      /\ SessionsFit /\ OneMaker /\ PollOwn /\ NoneNewer
  BY DEF FleetInv
<1>1. sess[r] \in Session /\ sess[r] # Idle /\ SessionFits(sess[r]) /\ sess[r].at = "device"
  BY <1>0, SessionKind DEF CreateDevice, SessionsFit
<1>2. PICK v \in Vehicles : v = sess[r].vehicle
  BY <1>1 DEF Session
<1>3. /\ madeFor[d] = NoVehicle
      /\ \A e \in Devices : madeFor'[e] = IF e = d THEN v ELSE madeFor[e]
      /\ UNCHANGED <<vehicle, link, account, fix, log, poll>>
  BY <1>0, <1>2 DEF CreateDevice, Creatable, TypeOK
<1>4. PICK s \in {Idle} \cup Session :
        /\ \A q \in Requests : sess'[q] = IF q = r THEN s ELSE sess[q]
        /\ sess' = [sess EXCEPT ![r] = s]
        /\ s # Idle => /\ s.own = sess[r].own /\ s.account = "grouped" /\ s.vehicle = v
                       /\ s.at = "commit" /\ s.device \in {d, NoDevice}
  <2>1. [sess[r] EXCEPT !.at = "commit", !.device = d] \in Session
    BY <1>1 DEF Session
  <2>2. [sess[r] EXCEPT !.at = "commit"] \in Session
    BY <1>1 DEF Session
  <2>3. sess[r].account = "grouped" /\ sess[r].device = NoDevice
    BY <1>1 DEF SessionFits
  <2>4. CASE sess' = [sess EXCEPT ![r] = [sess[r] EXCEPT !.at = "commit", !.device = d]]
    <3> DEFINE s == [sess[r] EXCEPT !.at = "commit", !.device = d]
    <3>1. /\ s.own = sess[r].own /\ s.account = "grouped" /\ s.vehicle = v
          /\ s.at = "commit" /\ s.device = d
      BY <1>1, <1>2, <2>3 DEF Session
    <3>2. \A q \in Requests : sess'[q] = IF q = r THEN s ELSE sess[q]
      BY <1>0, <2>4 DEF TypeOK
    <3>3. QED
      BY <2>1, <2>4, <3>1, <3>2
  <2>5. CASE GiveUp(r) /\ sess[r].op = "new"
    <3> DEFINE s == [sess[r] EXCEPT !.at = "commit"]
    <3>1. /\ s.own = sess[r].own /\ s.account = "grouped" /\ s.vehicle = v
          /\ s.at = "commit" /\ s.device = NoDevice
      BY <1>1, <1>2, <2>3 DEF Session
    <3>2. sess' = [sess EXCEPT ![r] = s]
      BY <2>5 DEF GiveUp
    <3>3. \A q \in Requests : sess'[q] = IF q = r THEN s ELSE sess[q]
      BY <1>0, <3>2 DEF TypeOK
    <3>4. QED
      BY <2>2, <3>1, <3>2, <3>3
  <2>6. CASE GiveUp(r) /\ sess[r].op # "new"
    BY <1>0, <2>6 DEF GiveUp, TypeOK
  <2>7. QED
    BY <2>4, <2>5, <2>6 DEF CreateDevice
<1>5. TypeOK'
  <2>1. uid' \in [Devices -> Uids \cup {NoUid}]
    BY <1>0, <1>1 DEF CreateDevice, TypeOK, Session
  <2>2. madeFor' \in [Devices -> Vehicles \cup {NoVehicle}]
    BY <1>0, <1>2 DEF CreateDevice, TypeOK
  <2>3. sess' \in [Requests -> {Idle} \cup Session]
    BY <1>0, <1>4 DEF TypeOK
  <2>4. QED
    BY <1>0, <1>3, <2>1, <2>2, <2>3 DEF TypeOK
<1>6. \A e \in Devices : madeFor[e] \in Vehicles => madeFor'[e] = madeFor[e]
  BY <1>3, FleetAssumption
<1>7. OwnDevice'
  <2>1. \A w \in Vehicles : link[w] # NoDevice => link[w] \in Devices
    BY <1>0 DEF TypeOK
  <2>2. \A w \in Vehicles : \A i \in DOMAIN log[w] : log[w][i].device \in Devices
    BY <1>0, StoredIsFix
  <2>3. QED
    BY <1>0, <1>3, <1>6, <2>1, <2>2 DEF OwnDevice
<1>8. DeviceInOrder' /\ LinkedIsGrouped' /\ Feed!StoredOnce' /\ NoneNewer'
  BY <1>0, <1>3 DEF DeviceInOrder, LinkedIsGrouped, Feed!StoredOnce, NoneNewer
<1>9. PollOwn'
  <2>1. poll # Idle => \A e \in Devices : poll.vehicleOf[e] \in Vehicles \cup {NoVehicle}
    BY <1>0, PollKind DEF Asking, Storing
  <2>2. QED
    BY <1>0, <1>3, <1>6, <2>1 DEF PollOwn
<1>10. SessionsFit'
  <2>1. ASSUME NEW q \in Requests PROVE SessionFits(sess[q])'
    <3>1. CASE q = r
      BY <1>1, <1>2, <1>3, <1>4, <3>1, FleetAssumption DEF SessionFits
    <3>2. CASE q # r /\ sess[q] # Idle
      <4>1. /\ sess[q].device \in Devices \cup {NoDevice} /\ sess[q].vehicle \in Vehicles
            /\ SessionFits(sess[q]) /\ sess'[q] = sess[q]
        BY <1>0, <1>4, <3>2, SessionKind DEF Session, SessionsFit
      <4>2. QED
        BY <1>3, <1>6, <4>1 DEF SessionFits
    <3>3. CASE q # r /\ sess[q] = Idle
      BY <1>4, <3>3 DEF SessionFits
    <3>4. QED
      BY <3>1, <3>2, <3>3
  <2>2. QED
    BY <2>1 DEF SessionsFit
<1>11. OneMaker'
  BY <1>0, <1>1, <1>2, <1>4 DEF OneMaker, company
<1>12. QED
  BY <1>5, <1>7, <1>8, <1>9, <1>10, <1>11 DEF FleetInv

\* The commit writes a device made for the vehicle, and never takes a group from an account.
LEMMA CommitKeeps ==
  ASSUME FleetInv, NEW r \in Requests, Commit(r)
  PROVE  FleetInv'
<1>0. /\ TypeOK /\ OwnDevice /\ DeviceInOrder /\ LinkedIsGrouped /\ Feed!StoredOnce
      /\ SessionsFit /\ OneMaker /\ PollOwn /\ NoneNewer
  BY DEF FleetInv
<1>1. sess[r] \in Session /\ sess[r] # Idle /\ SessionFits(sess[r]) /\ sess[r].at = "commit"
  BY <1>0, SessionKind DEF Commit, SessionsFit
<1>2. PICK v \in Vehicles : v = sess[r].vehicle
  BY <1>1 DEF Session
<1>3. /\ \A q \in Requests : sess'[q] = IF q = r THEN Idle ELSE sess[q]
      /\ UNCHANGED <<uid, fix, madeFor, log, poll>>
  BY <1>0 DEF Commit, TypeOK
<1>4. \/ UNCHANGED <<vehicle, link, account>>
      \/ /\ vehicle' = [vehicle EXCEPT ![v] = "row"]
         /\ link' = [link EXCEPT ![v] = sess[r].device]
         /\ WriteAccount(r)
  BY <1>2 DEF Commit, DeviceLink
<1>5. CompanyOf[v] \in Companies /\ company(r) = CompanyOf[v]
  BY <1>2, CompanyType DEF company
<1>6. TypeOK'
  <2>1. sess' \in [Requests -> {Idle} \cup Session]
    BY <1>0 DEF Commit, TypeOK
  <2>2. vehicle' \in [Vehicles -> {"none", "row", "gone"}] /\ link' \in [Vehicles -> Devices \cup {NoDevice}]
    BY <1>0, <1>1, <1>4 DEF TypeOK, Session
  <2>3. account' \in [Companies -> Account]
    BY <1>0, <1>1, <1>4, <1>5 DEF TypeOK, Session, WriteAccount
  <2>4. QED
    BY <1>0, <1>3, <2>1, <2>2, <2>3 DEF TypeOK
<1>7. ASSUME NEW c \in Companies
      PROVE  /\ account[c] # "none" => account'[c] # "none"
             /\ account[c] = "grouped" => account'[c] = "grouped"
             /\ account'[c] # account[c] => c = CompanyOf[v] /\ account'[c] = sess[r].account
  <2>1. account'[c] # account[c] =>
          /\ c = CompanyOf[v] /\ account'[c] = sess[r].account
          /\ sess[r].own \/ sess[r].account = "grouped"
    BY <1>0, <1>4, <1>5 DEF WriteAccount, TypeOK
  <2>2. QED
    BY <1>1, <1>2, <2>1 DEF SessionFits
<1>8. OwnDevice'
  <2>1. \A w \in Vehicles : link'[w] # link[w] => w = v /\ link'[w] = sess[r].device
    BY <1>0, <1>4 DEF TypeOK
  <2>2. sess[r].device # NoDevice => madeFor[sess[r].device] = v
    BY <1>1, <1>2 DEF SessionFits
  <2>3. QED
    BY <1>0, <1>3, <2>1, <2>2 DEF OwnDevice
<1>9. LinkedIsGrouped'
  <2>1. ASSUME NEW w \in Vehicles, link'[w] # NoDevice PROVE account'[CompanyOf[w]] = "grouped"
    <3>1. CASE link'[w] = link[w]
      BY <1>0, <1>7, <2>1, <3>1, CompanyType DEF LinkedIsGrouped
    <3>2. CASE link'[w] # link[w]
      <4>1. w = v /\ sess[r].device # NoDevice /\ WriteAccount(r)
        BY <1>0, <1>4, <2>1, <3>2 DEF TypeOK
      <4>2. sess[r].account = "grouped"
        BY <1>1, <4>1 DEF SessionFits
      <4>3. QED
        BY <1>0, <1>5, <4>1, <4>2 DEF WriteAccount, TypeOK
    <3>3. QED
      BY <3>1, <3>2
  <2>2. QED
    BY <2>1 DEF LinkedIsGrouped
<1>10. DeviceInOrder' /\ Feed!StoredOnce' /\ PollOwn' /\ NoneNewer'
  BY <1>0, <1>3 DEF DeviceInOrder, Feed!StoredOnce, PollOwn, NoneNewer
<1>11. SessionsFit'
  <2>1. ASSUME NEW q \in Requests, q # r, sess[q] # Idle PROVE SessionFits(sess[q])'
    <3>1. sess[q].vehicle \in Vehicles /\ sess'[q] = sess[q] /\ SessionFits(sess[q])
      BY <1>0, <1>3, <2>1, SessionKind DEF Session, SessionsFit
    <3>2. CompanyOf[sess[q].vehicle] \in Companies
      BY <3>1, CompanyType
    <3>3. sess[q].own => account'[CompanyOf[sess[q].vehicle]] = "none"
      <4>1. SUFFICES ASSUME sess[q].own,
                            account'[CompanyOf[sess[q].vehicle]] # account[CompanyOf[sess[q].vehicle]]
                     PROVE  FALSE
        BY <2>1, <3>1 DEF SessionFits
      <4>2. CompanyOf[sess[q].vehicle] = CompanyOf[v] /\ account[CompanyOf[v]] = "none"
        BY <1>7, <2>1, <3>1, <3>2, <4>1 DEF SessionFits
      <4>3. ~sess[r].own
        BY <1>0, <1>1, <1>2, <2>1, <4>1, <4>2 DEF OneMaker, company
      <4>4. sess[r].account = "none"
        BY <1>1, <1>2, <4>2, <4>3 DEF SessionFits, Session
      <4>5. QED
        BY <1>4, <4>1, <4>3, <4>4 DEF WriteAccount
    <3>4. QED
      BY <1>3, <1>7, <2>1, <3>1, <3>2, <3>3 DEF SessionFits
  <2>2. QED
    BY <1>3, <2>1 DEF SessionsFit, SessionFits
<1>12. OneMaker'
  BY <1>0, <1>3 DEF OneMaker, company
<1>13. QED
  BY <1>6, <1>8, <1>9, <1>10, <1>11, <1>12 DEF FleetInv

\* A deleted vehicle has no device and no positions.
LEMMA RemoveKeeps ==
  ASSUME FleetInv, NEW r \in Requests, Remove(r)
  PROVE  FleetInv' /\ Feed!Next
<1>0. /\ TypeOK /\ OwnDevice /\ DeviceInOrder /\ LinkedIsGrouped /\ Feed!StoredOnce
      /\ SessionsFit /\ OneMaker /\ PollOwn /\ NoneNewer
  BY DEF FleetInv
<1>1. sess[r] \in Session
  BY <1>0, SessionKind DEF Remove
<1>2. PICK v \in Vehicles : v = sess[r].vehicle
  BY <1>1 DEF Session
<1>3. /\ vehicle' = [vehicle EXCEPT ![v] = "gone"]
      /\ link' = [link EXCEPT ![v] = NoDevice]
      /\ log' = [log EXCEPT ![v] = <<>>]
      /\ \A q \in Requests : sess'[q] = IF q = r THEN Idle ELSE sess[q]
      /\ UNCHANGED <<account, uid, fix, madeFor, poll>>
  BY <1>0, <1>2 DEF Remove, TypeOK
<1>4. TypeOK'
  <2>1. sess' \in [Requests -> {Idle} \cup Session]
    BY <1>0 DEF Remove, TypeOK
  <2>2. <<>> \in Seq(Fixes)
    OBVIOUS
  <2>3. QED
    BY <1>0, <1>3, <2>1, <2>2 DEF TypeOK
<1>5. \A w \in Vehicles :
        /\ log'[w] = IF w = v THEN <<>> ELSE log[w]
        /\ link'[w] = IF w = v THEN NoDevice ELSE link[w]
  BY <1>0, <1>3 DEF TypeOK
<1>6. \A i : i \notin DOMAIN <<>>
  OBVIOUS
<1>7. OwnDevice' /\ DeviceInOrder' /\ LinkedIsGrouped' /\ Feed!StoredOnce'
  BY <1>0, <1>3, <1>5, <1>6 DEF OwnDevice, DeviceInOrder, LinkedIsGrouped, Feed!StoredOnce
<1>8. PollOwn' /\ SessionsFit' /\ OneMaker'
  BY <1>0, <1>3 DEF PollOwn, SessionsFit, SessionFits, OneMaker, company
<1>9. NoneNewer'
  <2>1. poll.at = "store" => \A d \in Devices : poll.vehicleOf[d] \in Vehicles \cup {NoVehicle}
    BY <1>0, PollKind DEF Storing
  <2>2. ASSUME NEW w \in Vehicles PROVE \A i \in DOMAIN log'[w] : i \in DOMAIN log[w] /\ log'[w] = log[w]
    BY <1>5, <1>6
  <2>3. \A w \in Vehicles : \A i \in DOMAIN log'[w] : log'[w][i].at <= fix'[log'[w][i].device]
    BY <1>0, <1>3, <2>2 DEF NoneNewer
  <2>4. ASSUME poll'.at = "store", NEW d \in Devices, poll'.latest[d] > 0
        PROVE  /\ poll'.vehicleOf[d] # NoVehicle
               /\ poll'.latest[d] <= fix'[d]
               /\ \A i \in DOMAIN log'[poll'.vehicleOf[d]] :
                    log'[poll'.vehicleOf[d]][i].device = d =>
                      log'[poll'.vehicleOf[d]][i].at <= poll'.latest[d]
    <3>1. poll' = poll /\ fix' = fix
      BY <1>3
    <3>2. poll.vehicleOf[d] \in Vehicles /\ poll.latest[d] <= fix[d]
      BY <1>0, <2>1, <2>4, <3>1 DEF NoneNewer
    <3>3. poll.vehicleOf[d] # NoVehicle
      BY <3>2, FleetAssumption
    <3>4. QED
      BY <1>0, <2>2, <2>4, <3>1, <3>2, <3>3 DEF NoneNewer
  <2>5. QED
    BY <2>3, <2>4 DEF NoneNewer
<1>10. Feed!Next
  BY <1>2, <1>3 DEF Feed!Next, Feed!Erase
<1>11. QED
  BY <1>4, <1>7, <1>8, <1>9, <1>10 DEF FleetInv

-----------------------------------------------------------------------------
(* The poll.                                                               *)

\* Reading, failing and reporting change the poll and Traccar's fixes, and no row.
LEMMA PollKeeps ==
  ASSUME FleetInv, PollRead \/ PollAnswer \/ PollFails \/ \E d \in Devices : Report(d)
  PROVE  FleetInv' /\ UNCHANGED log
<1>0. /\ TypeOK /\ OwnDevice /\ DeviceInOrder /\ LinkedIsGrouped /\ Feed!StoredOnce
      /\ SessionsFit /\ OneMaker /\ PollOwn /\ NoneNewer
  BY DEF FleetInv
<1>1. UNCHANGED <<vehicle, link, account, sess, uid, madeFor, log>>
  BY DEF PollRead, PollAnswer, PollFails, Report
<1>2. OwnDevice' /\ DeviceInOrder' /\ LinkedIsGrouped' /\ Feed!StoredOnce' /\ SessionsFit' /\ OneMaker'
  BY <1>0, <1>1
     DEF OwnDevice, DeviceInOrder, LinkedIsGrouped, Feed!StoredOnce, SessionsFit, SessionFits, OneMaker, company
<1>3. SUFFICES TypeOK' /\ PollOwn' /\ NoneNewer'
  BY <1>1, <1>2 DEF FleetInv
<1>4. \A v \in Vehicles : \A i \in DOMAIN log[v] :
        /\ log[v][i].device \in Devices
        /\ log[v][i].at <= fix[log[v][i].device]
  BY <1>0, StoredIsFix DEF NoneNewer
<1>5. CASE PollRead
  <2>1. /\ poll'.at = "ask" /\ poll' \in Asking
        /\ UNCHANGED fix
        /\ \A d \in Devices : poll'.vehicleOf[d] # NoVehicle =>
             poll'.vehicleOf[d] \in Vehicles /\ link[poll'.vehicleOf[d]] = d
    <3> DEFINE of == [d \in Devices |-> IF Linked(d) THEN CHOOSE v \in Vehicles : link[v] = d
                                                      ELSE NoVehicle]
    <3>1. \A d \in Devices : Linked(d) => of[d] \in Vehicles /\ link[of[d]] = d
      BY DEF Linked
    <3>2. \A d \in Devices : ~Linked(d) => of[d] = NoVehicle
      OBVIOUS
    <3>3. of \in [Devices -> Vehicles \cup {NoVehicle}]
      BY <3>1, <3>2
    <3>4. poll' = [at |-> "ask", vehicleOf |-> of] /\ UNCHANGED fix
      BY <1>5 DEF PollRead
    <3>5. QED
      BY <3>1, <3>2, <3>3, <3>4 DEF Asking
  <2>2. TypeOK'
    BY <1>0, <1>1, <2>1 DEF TypeOK
  <2>3. PollOwn'
    BY <1>0, <1>1, <2>1, FleetAssumption DEF PollOwn, OwnDevice
  <2>4. NoneNewer'
    BY <1>1, <1>4, <2>1 DEF NoneNewer
  <2>5. QED
    BY <2>2, <2>3, <2>4
<1>6. CASE PollAnswer
  <2>1. poll \in Asking /\ poll # Idle
    BY <1>0, <1>6, PollKind DEF PollAnswer
  <2>2. /\ poll' \in Storing
        /\ poll'.vehicleOf = poll.vehicleOf
        /\ UNCHANGED fix
        /\ \A d \in Devices : poll'.latest[d] > 0 =>
             poll.vehicleOf[d] # NoVehicle /\ poll'.latest[d] = fix[d]
    <3> DEFINE latest == [d \in Devices |->
                            IF poll.vehicleOf[d] # NoVehicle /\ uid[d] # NoUid THEN fix[d] ELSE 0]
    <3>1. latest \in [Devices -> 0..MaxFix]
      BY <1>0, FleetAssumption DEF TypeOK
    <3>2. poll' = [at |-> "store", vehicleOf |-> poll.vehicleOf, latest |-> latest] /\ UNCHANGED fix
      BY <1>6 DEF PollAnswer
    <3>3. QED
      BY <2>1, <3>1, <3>2 DEF Asking, Storing
  <2>3. TypeOK'
    BY <1>0, <1>1, <2>2 DEF TypeOK
  <2>4. PollOwn'
    BY <1>0, <1>1, <2>1, <2>2 DEF PollOwn
  <2>5. ASSUME NEW d \in Devices, poll'.latest[d] > 0
        PROVE  /\ poll'.vehicleOf[d] # NoVehicle
               /\ poll'.latest[d] <= fix'[d]
               /\ \A i \in DOMAIN log'[poll'.vehicleOf[d]] :
                    log'[poll'.vehicleOf[d]][i].device = d =>
                      log'[poll'.vehicleOf[d]][i].at <= poll'.latest[d]
    <3>1. poll.vehicleOf[d] \in Vehicles
      BY <2>1, <2>2, <2>5 DEF Asking
    <3>2. fix[d] \in 0..MaxFix
      BY <1>0 DEF TypeOK
    <3>3. QED
      BY <1>1, <1>4, <2>2, <2>5, <3>1, <3>2, FleetAssumption
  <2>6. NoneNewer'
    BY <1>1, <1>4, <2>2, <2>5 DEF NoneNewer
  <2>7. QED
    BY <2>3, <2>4, <2>6
<1>7. CASE PollFails
  <2>1. poll' = Idle /\ UNCHANGED fix
    BY <1>7 DEF PollFails
  <2>2. TypeOK' /\ PollOwn'
    BY <1>0, <1>1, <2>1 DEF TypeOK, PollOwn
  <2>3. NoneNewer'
    BY <1>0, <1>1, <2>1 DEF NoneNewer, Idle
  <2>4. QED
    BY <2>2, <2>3
<1>8. ASSUME NEW d \in Devices, Report(d) PROVE TypeOK' /\ PollOwn' /\ NoneNewer'
  <2>1. /\ fix[d] \in 0..MaxFix /\ fix[d] < MaxFix
        /\ fix' = [fix EXCEPT ![d] = @ + 1]
        /\ UNCHANGED poll
    BY <1>0, <1>8 DEF Report, TypeOK
  <2>2. fix' \in [Devices -> 0..MaxFix]
    BY <1>0, <2>1, FleetAssumption DEF TypeOK
  <2>3. \A e \in Devices : fix[e] \in 0..MaxFix /\ fix'[e] \in 0..MaxFix /\ fix[e] <= fix'[e]
    BY <1>0, <2>1, <2>2, FleetAssumption DEF TypeOK
  <2>4. TypeOK' /\ PollOwn'
    BY <1>0, <1>1, <2>1, <2>2 DEF TypeOK, PollOwn
  <2>5. \A v \in Vehicles : \A i \in DOMAIN log[v] : log[v][i].at <= fix'[log[v][i].device]
    <3>1. \A v \in Vehicles : \A i \in DOMAIN log[v] : log[v][i].at \in 1..MaxFix
      BY <1>0, StoredIsFix
    <3>2. QED
      BY <1>4, <2>3, <3>1, FleetAssumption
  <2>6. poll.at = "store" => \A e \in Devices : poll.latest[e] \in 0..MaxFix
    BY <1>0, PollKind DEF Storing
  <2>7. poll.at = "store" =>
          \A e \in Devices : poll.latest[e] > 0 => poll.latest[e] <= fix'[e]
    BY <1>0, <2>3, <2>6, FleetAssumption DEF NoneNewer
  <2>8. NoneNewer'
    BY <1>0, <1>1, <2>1, <2>5, <2>7 DEF NoneNewer
  <2>9. QED
    BY <2>4, <2>8
<1>9. QED
  BY <1>5, <1>6, <1>7, <1>8

\* The row the poll stores of a device.
Row(d) == [device |-> d, at |-> poll.latest[d]]

\* A step that stores adds to some vehicles' rows one fix each, of a device made for the
\* vehicle and with a time it has none of.
LEMMA StoreGrows ==
  ASSUME FleetInv, PollStore, log' # log
  PROVE  \E W \in SUBSET Vehicles, of \in [Vehicles -> Devices \cup {NoDevice}] :
           /\ \A v \in W : of[v] \in Devices /\ Fresh(of[v]) /\ poll.vehicleOf[of[v]] = v
           /\ log' = [v \in Vehicles |-> IF v \in W THEN Append(log[v], Row(of[v])) ELSE log[v]]
<1> DEFINE new == {d \in Devices : Fresh(d)}
           from(v) == {d \in new : poll.vehicleOf[d] = v}
           W == {v \in Vehicles : from(v) # {}}
           of == [v \in Vehicles |-> IF from(v) = {} THEN NoDevice ELSE CHOOSE d \in from(v) : TRUE]
<1>1. log' = [v \in Vehicles |->
                IF from(v) = {} THEN log[v]
                ELSE LET d == CHOOSE d \in from(v) : TRUE
                     IN  Append(log[v], [device |-> d, at |-> poll.latest[d]])]
  BY DEF PollStore
<1>2. \A v \in Vehicles : from(v) # {} => of[v] \in from(v)
  OBVIOUS
<1>3. of \in [Vehicles -> Devices \cup {NoDevice}]
  BY <1>2
<1>4. \A v \in W : of[v] \in Devices /\ Fresh(of[v]) /\ poll.vehicleOf[of[v]] = v
  BY <1>2
<1>5. log' = [v \in Vehicles |-> IF v \in W THEN Append(log[v], Row(of[v])) ELSE log[v]]
  BY <1>1 DEF Row
<1>6. QED
  BY <1>3, <1>4, <1>5

\* Storing keeps the invariant and is a step of PositionLog.
LEMMA StoreKeeps ==
  ASSUME FleetInv, PollStore
  PROVE  FleetInv' /\ (log' = log \/ Feed!Next)
<1>0. /\ TypeOK /\ OwnDevice /\ DeviceInOrder /\ LinkedIsGrouped /\ Feed!StoredOnce
      /\ SessionsFit /\ OneMaker /\ PollOwn /\ NoneNewer
  BY DEF FleetInv
<1>1. /\ poll.at = "store" /\ poll \in Storing /\ poll # Idle
      /\ poll' = Idle /\ poll'.at # "store"
      /\ UNCHANGED <<vehicle, link, account, sess, uid, fix, madeFor>>
  BY <1>0, PollKind DEF PollStore, Idle
<1>2. LinkedIsGrouped' /\ SessionsFit' /\ OneMaker' /\ PollOwn'
  BY <1>0, <1>1 DEF LinkedIsGrouped, SessionsFit, SessionFits, OneMaker, PollOwn, company
<1>3. CASE log' = log
  <2>1. TypeOK'
    BY <1>0, <1>1, <1>3 DEF TypeOK
  <2>2. OwnDevice' /\ DeviceInOrder' /\ Feed!StoredOnce' /\ NoneNewer'
    BY <1>0, <1>1, <1>3 DEF OwnDevice, DeviceInOrder, Feed!StoredOnce, NoneNewer
  <2>3. QED
    BY <1>2, <1>3, <2>1, <2>2 DEF FleetInv
<1>4. CASE log' # log
  <2>1. PICK W \in SUBSET Vehicles, of \in [Vehicles -> Devices \cup {NoDevice}] :
           /\ \A v \in W : of[v] \in Devices /\ Fresh(of[v]) /\ poll.vehicleOf[of[v]] = v
           /\ log' = [v \in Vehicles |-> IF v \in W THEN Append(log[v], Row(of[v])) ELSE log[v]]
    BY <1>4, StoreGrows
  <2>2. ASSUME NEW v \in W
        PROVE  /\ of[v] \in Devices /\ poll.vehicleOf[of[v]] = v /\ v \in Vehicles
               /\ poll.latest[of[v]] \in 1..MaxFix
               /\ \A i \in DOMAIN log[v] : log[v][i].at # poll.latest[of[v]]
               /\ madeFor[of[v]] = v
               /\ poll.latest[of[v]] <= fix[of[v]]
               /\ \A i \in DOMAIN log[v] :
                    log[v][i].device = of[v] => log[v][i].at < poll.latest[of[v]]
    <3>1. of[v] \in Devices /\ poll.vehicleOf[of[v]] = v /\ v \in Vehicles /\ v # NoVehicle
      BY <2>1, FleetAssumption
    <3>2. poll.latest[of[v]] \in 0..MaxFix /\ poll.latest[of[v]] > 0
      BY <1>1, <2>1, <3>1 DEF Storing, Fresh
    <3>3. \A i \in DOMAIN log[v] : log[v][i].at # poll.latest[of[v]]
      <4>1. poll.latest[of[v]] \notin TimesOf(v)
        BY <2>1, <3>1 DEF Fresh
      <4>2. QED
        BY <4>1 DEF TimesOf
    <3>4. madeFor[of[v]] = v
      BY <1>0, <1>1, <3>1 DEF PollOwn
    <3>5. /\ poll.latest[of[v]] <= fix[of[v]]
          /\ \A i \in DOMAIN log[v] :
               log[v][i].device = of[v] => log[v][i].at <= poll.latest[of[v]]
      BY <1>0, <1>1, <3>1, <3>2 DEF NoneNewer
    <3>6. \A i \in DOMAIN log[v] : log[v][i].at \in 1..MaxFix
      BY <1>0, <3>1, StoredIsFix
    <3>7. QED
      BY <3>1, <3>2, <3>3, <3>4, <3>5, <3>6, FleetAssumption
  <2>3. \A v \in W : Row(of[v]) \in Fixes
    BY <2>2 DEF Row, Fixes
  <2>4. \A v \in Vehicles : log[v] \in Seq(Fixes)
    BY <1>0 DEF TypeOK
  <2>5. ASSUME NEW v \in W
        PROVE  /\ log'[v] = Append(log[v], Row(of[v]))
               /\ log'[v] \in Seq(Fixes)
               /\ DOMAIN log'[v] = DOMAIN log[v] \cup {Len(log[v]) + 1}
               /\ \A i \in DOMAIN log[v] : i < Len(log[v]) + 1 /\ log'[v][i] = log[v][i]
               /\ log'[v][Len(log[v]) + 1] = Row(of[v])
    <3>1. log'[v] = Append(log[v], Row(of[v])) /\ log[v] \in Seq(Fixes) /\ Row(of[v]) \in Fixes
      BY <2>1, <2>3, <2>4
    <3>2. QED
      BY <3>1
  <2>6. \A v \in Vehicles \ W : log'[v] = log[v]
    BY <2>1
  <2>7. \A v \in W : Row(of[v]).device = of[v] /\ Row(of[v]).at = poll.latest[of[v]]
    BY DEF Row
  <2>8. TypeOK'
    <3>1. log' \in [Vehicles -> Seq(Fixes)]
      BY <2>1, <2>4, <2>5, <2>6
    <3>2. QED
      BY <1>0, <1>1, <3>1 DEF TypeOK
  <2>9. OwnDevice'
    <3>1. ASSUME NEW v \in W, NEW i \in DOMAIN log'[v] PROVE madeFor[log'[v][i].device] = v
      BY <1>0, <2>2, <2>5, <2>7 DEF OwnDevice
    <3>2. QED
      BY <1>0, <1>1, <2>6, <3>1 DEF OwnDevice
  <2>10. NoneNewer'
    <3>1. ASSUME NEW v \in W, NEW i \in DOMAIN log'[v]
          PROVE  log'[v][i].at <= fix[log'[v][i].device]
      BY <1>0, <2>2, <2>5, <2>7 DEF NoneNewer
    <3>2. QED
      BY <1>0, <1>1, <2>6, <3>1 DEF NoneNewer
  <2>11. DeviceInOrder'
    <3>1. ASSUME NEW v \in W, NEW i \in DOMAIN log'[v], NEW j \in DOMAIN log'[v],
                 i < j, log'[v][i].device = log'[v][j].device
          PROVE  log'[v][i].at < log'[v][j].at
      <4>1. log[v] \in Seq(Fixes) /\ Len(log[v]) \in Nat /\ DOMAIN log[v] = 1..Len(log[v])
        BY <2>4
      <4>2. i \in DOMAIN log[v]
        BY <2>5, <3>1, <4>1
      <4>3. CASE j \in DOMAIN log[v]
        BY <1>0, <2>5, <3>1, <4>2, <4>3 DEF DeviceInOrder
      <4>4. CASE j = Len(log[v]) + 1
        BY <2>2, <2>5, <2>7, <3>1, <4>2, <4>4
      <4>5. QED
        BY <2>5, <4>3, <4>4
    <3>2. QED
      BY <1>0, <2>6, <3>1 DEF DeviceInOrder
  <2>12. Feed!StoredOnce'
    <3>1. ASSUME NEW v \in W, NEW i \in DOMAIN log'[v], NEW j \in DOMAIN log'[v],
                 log'[v][i].at = log'[v][j].at
          PROVE  i = j
      <4>1. CASE i \in DOMAIN log[v] /\ j \in DOMAIN log[v]
        BY <1>0, <2>5, <3>1, <4>1 DEF Feed!StoredOnce
      <4>2. CASE i \notin DOMAIN log[v] \/ j \notin DOMAIN log[v]
        BY <2>2, <2>5, <2>7, <3>1, <4>2
      <4>3. QED
        BY <4>1, <4>2
    <3>2. QED
      BY <1>0, <2>6, <3>1 DEF Feed!StoredOnce
  <2>13. Feed!Next
    <3> DEFINE fixes == [v \in W |-> Row(of[v])]
    <3>1. fixes \in [W -> Fixes] /\ DOMAIN fixes = W
      BY <2>3
    <3>2. \A v \in W : fixes[v].at \notin Feed!Times(log[v])
      BY <2>2, <2>7 DEF Feed!Times
    <3>3. log' = [v \in Vehicles |-> IF v \in W THEN Append(log[v], fixes[v]) ELSE log[v]]
      BY <2>1
    <3>4. Feed!Store(fixes)
      BY <3>1, <3>2, <3>3 DEF Feed!Store
    <3>5. QED
      BY <3>1, <3>4 DEF Feed!Next
  <2>14. QED
    BY <1>2, <2>8, <2>9, <2>10, <2>11, <2>12, <2>13 DEF FleetInv
<1>5. QED
  BY <1>3, <1>4

-----------------------------------------------------------------------------
(* The theorems.                                                           *)

\* Every step keeps the invariant, and is a step of PositionLog or leaves it alone.
LEMMA NextKeeps == FleetInv /\ [Next]_vars => FleetInv' /\ [Feed!Next]_log
<1> SUFFICES ASSUME FleetInv, [Next]_vars PROVE FleetInv' /\ (log' = log \/ Feed!Next)
  OBVIOUS
<1>1. ASSUME NEW r \in Requests, NEW s, Free(r, s), SessionFits(s), Alone(r, s)
      PROVE  FleetInv' /\ log' = log
  BY <1>1, FreeKeeps DEF Free
<1>2. ASSUME NEW r \in Requests, Request(r) PROVE FleetInv' /\ (log' = log \/ Feed!Next)
  <2>1. CASE \/ \E v \in Vehicles, u \in Uids \cup {NoUid} : StartNew(r, v, u)
             \/ \E v \in Vehicles, u \in Uids : StartLink(r, v, u)
             \/ \E v \in Vehicles : StartDelete(r, v)
    BY <1>1, <2>1, StartIsFree
  <2>2. CASE \/ FindAccount(r) \/ InsertAccount(r) \/ MakeGroup(r) \/ TraccarFails(r)
             \/ EraseDevice(r) \/ Abort(r)
    BY <1>1, <2>2, ProceedIsFree
  <2>3. CASE \E d \in Devices : CreateDevice(r, d)
    BY <2>3, CreateKeeps DEF CreateDevice
  <2>4. CASE Commit(r)
    BY <2>4, CommitKeeps DEF Commit
  <2>5. CASE Remove(r)
    BY <2>5, RemoveKeeps
  <2>6. QED
    BY <1>2, <2>1, <2>2, <2>3, <2>4, <2>5 DEF Request, Register
<1>3. CASE PollRead \/ PollAnswer \/ PollFails \/ \E d \in Devices : Report(d)
  BY <1>3, PollKeeps
<1>4. CASE PollStore
  BY <1>4, StoreKeeps
<1>5. CASE UNCHANGED vars
  <2>1. UNCHANGED <<vehicle, link, account, sess, uid, fix, madeFor, log, poll>>
    BY <1>5 DEF vars
  <2>2. TypeOK' /\ OwnDevice' /\ DeviceInOrder' /\ LinkedIsGrouped' /\ Feed!StoredOnce'
    BY <2>1 DEF FleetInv, TypeOK, OwnDevice, DeviceInOrder, LinkedIsGrouped, Feed!StoredOnce
  <2>3. SessionsFit' /\ OneMaker' /\ PollOwn' /\ NoneNewer'
    BY <2>1 DEF FleetInv, SessionsFit, SessionFits, OneMaker, PollOwn, NoneNewer, company
  <2>4. QED
    BY <2>1, <2>2, <2>3 DEF FleetInv
<1>6. QED
  BY <1>2, <1>3, <1>4, <1>5 DEF Next, Poll

\* The initial states satisfy the invariant and are PositionLog's.
LEMMA InitKeeps == Init => FleetInv /\ Feed!Init
<1> SUFFICES ASSUME Init PROVE FleetInv /\ Feed!Init
  OBVIOUS
<1>0. <<>> \in Seq(Fixes)
  OBVIOUS
<1>1. \A v \in Vehicles : log[v] = <<>> /\ <<>> \in Seq(Fixes)
  BY <1>0 DEF Init
<1>2. \A i : i \notin DOMAIN <<>>
  OBVIOUS
<1>3. TypeOK
  BY FleetAssumption DEF Init, TypeOK, Account
<1>4. OwnDevice /\ DeviceInOrder /\ LinkedIsGrouped /\ Feed!StoredOnce
  BY <1>1, <1>2 DEF Init, OwnDevice, DeviceInOrder, LinkedIsGrouped, Feed!StoredOnce
<1>5. SessionsFit /\ OneMaker /\ PollOwn
  BY DEF Init, SessionsFit, SessionFits, OneMaker, PollOwn
<1>6. NoneNewer
  BY <1>1, <1>2 DEF Init, NoneNewer, Idle
<1>7. QED
  BY <1>3, <1>4, <1>5, <1>6 DEF FleetInv, Init, Feed!Init

\* Whatever the requests, Traccar and the poll do in whatever order, the invariant holds.
THEOREM FleetInvariant == Spec => []FleetInv
BY InitKeeps, NextKeeps, PTL DEF Spec

\* Rows, sessions, Traccar's tables and the poll keep their shape.
THEOREM TypeCorrect == Spec => []TypeOK
<1>1. FleetInv => TypeOK
  BY DEF FleetInv
<1>2. QED
  BY <1>1, FleetInvariant, PTL

\* No vehicle is linked to another one's device or has positions of it.
THEOREM DeviceIsOwn == Spec => []OwnDevice
<1>1. FleetInv => OwnDevice
  BY DEF FleetInv
<1>2. QED
  BY <1>1, FleetInvariant, PTL

\* Positions of a device are stored in the order they were taken, none of them twice.
THEOREM StoredInOrder == Spec => []DeviceInOrder /\ []Feed!StoredOnce
<1>1. FleetInv => DeviceInOrder /\ Feed!StoredOnce
  BY DEF FleetInv
<1>2. QED
  BY <1>1, FleetInvariant, PTL

\* A linked vehicle's company has its group, however its requests overlapped and failed.
THEOREM GroupIsThere == Spec => []LinkedIsGrouped
<1>1. FleetInv => LinkedIsGrouped
  BY DEF FleetInv
<1>2. QED
  BY <1>1, FleetInvariant, PTL

\* The fleet routes and the poll implement the table the pages read.
THEOREM ImplementsPositionLog == Spec => KeepsPositionLog
<1>1. Init => Feed!Init
  BY InitKeeps
<1>2. FleetInv /\ [Next]_vars => [Feed!Next]_log
  BY NextKeeps
<1>3. QED
  BY <1>1, <1>2, FleetInvariant, PTL DEF Spec, KeepsPositionLog, Feed!Spec
=============================================================================
