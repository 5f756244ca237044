--------------------------- MODULE AccountsProofs ---------------------------
(***************************************************************************)
(* Proofs about Accounts, for any number of people, names and requests.     *)
(***************************************************************************)
EXTENDS Accounts, TLAPS

\* The control point of a session tells which record it is.
LEMMA SessionKind ==
  ASSUME TypeOK, NEW r \in Requests
  PROVE  /\ sess[r].at = "idle" <=> sess[r] = Idle
         /\ sess[r].at = "save" => sess[r] \in Form
         /\ Registering(r) => sess[r] \in Registration
BY DEF TypeOK, Registering, Idle, Registration, Form

\* A candidate is a slug.
LEMMA CandidateType ==
  ASSUME NEW n \in Names, NEW k \in 0..MaxTries
  PROVE  Candidate(n, k) \in Slugs
BY AccountAssumption

\* Points of a check.
LEMMA DeltaType ==
  ASSUME NEW o
  PROVE  Delta("edrpou", o) \in {0, 35} /\ Delta("vies", o) \in {0, 30}
BY DEF Delta

-----------------------------------------------------------------------------
(* Steps that change one session and leave what the others rely on alone.  *)

\* What a step of r does that leaves users, companies and checks alone.
Free(r, s) ==
  /\ s \in {Idle} \cup Registration \cup Form
  /\ sess' = [sess EXCEPT ![r] = s]
  /\ profile' \in [Slugs -> Texting]
  /\ UNCHANGED <<users, companies, checks>>

\* If what it leaves fits and holds nobody else's keys, the invariant is kept.
LEMMA FreeKeeps ==
  ASSUME AccountInv, NEW r \in Requests, NEW s, Free(r, s),
         Fits(r)', \A q \in Requests \ {r} : Apart(q, r)'
  PROVE  AccountInv'
<1>1. TypeOK'
  BY DEF AccountInv, TypeOK, Free
<1>2. \A q \in Requests \ {r} : sess'[q] = sess[q]
  BY DEF AccountInv, TypeOK, Free
<1>3. OneOwner' /\ NumberedInOrder' /\ BadgeNeedsRegistry'
  BY DEF AccountInv, OneOwner, NumberedInOrder, BadgeNeedsRegistry, Taken, Free
<1>4. \A q \in Requests : Fits(q)'
  <2>1. ASSUME NEW q \in Requests, q # r PROVE Fits(q)'
    BY <1>2, <2>1 DEF AccountInv, Fits, HasCompany, HasUser, Registering, Taken, slug, Free
  <2>2. QED
    BY <2>1
<1>5. \A p, q \in Requests : p # q => Apart(p, q)'
  <2>1. ASSUME NEW p \in Requests, NEW q \in Requests, p # q PROVE Apart(p, q)'
    <3>1. CASE p # r /\ q # r
      BY <1>2, <2>1, <3>1 DEF AccountInv, Apart, HasCompany, HasUser, slug
    <3>2. CASE q = r
      BY <2>1, <3>2
    <3>3. CASE p = r
      <4>1. Apart(q, p)'
        BY <2>1, <3>3
      <4>2. QED
        BY <4>1 DEF Apart
    <3>4. QED
      BY <3>1, <3>2, <3>3
  <2>2. QED
    BY <2>1
<1>6. QED
  BY <1>1, <1>3, <1>4, <1>5 DEF AccountInv

\* A session outside a registration holds no key.
LEMMA OutsideFits ==
  ASSUME AccountInv, NEW r \in Requests, NEW s, Free(r, s), s.at \in {"idle", "save"}
  PROVE  AccountInv'
<1>1. sess'[r] = s
  BY DEF AccountInv, TypeOK, Free
<1>2. Fits(r)'
  BY <1>1 DEF Fits, HasCompany, HasUser, Registering
<1>3. \A q \in Requests \ {r} : Apart(q, r)'
  BY <1>1 DEF Apart, HasCompany, HasUser
<1>4. QED
  BY <1>2, <1>3, FreeKeeps

\* A registration that ends without a commit.
LEMMA EndKeeps ==
  ASSUME AccountInv, NEW r \in Requests, sess' = [sess EXCEPT ![r] = Idle], UNCHANGED rows
  PROVE  AccountInv'
<1>1. Free(r, Idle)
  BY DEF Free, rows, AccountInv, TypeOK
<1>2. Idle.at = "idle"
  BY DEF Idle
<1>3. QED
  BY <1>1, <1>2, OutsideFits

\* A registration that goes on: its record stays of its type, and it takes no key that
\* another one holds.
LEMMA GoesOn ==
  ASSUME AccountInv, NEW r \in Requests, NEW s \in Registration,
         sess' = [sess EXCEPT ![r] = s], UNCHANGED rows,
         Fits(r)',
         HasCompany(r)' => /\ s.name = sess[r].name /\ s.tries = sess[r].tries
                           /\ HasCompany(r) \/ ~WaitsSlug(r),
         HasUser(r)' => s.email = sess[r].email /\ (HasUser(r) \/ ~WaitsEmail(r))
  PROVE  AccountInv'
<1>1. Free(r, s)
  BY DEF Free, rows, AccountInv, TypeOK
<1>2. sess'[r] = s /\ \A q \in Requests \ {r} : sess'[q] = sess[q]
  BY DEF AccountInv, TypeOK
<1>3. ASSUME NEW q \in Requests \ {r} PROVE Apart(q, r)'
  <2>1. Apart(q, r) /\ sess'[q] = sess[q]
    BY <1>2, <1>3 DEF AccountInv
  <2>2. ASSUME HasCompany(q)', HasCompany(r)' PROVE slug(q)' # slug(r)'
    <3>1. HasCompany(q) /\ slug(q)' = slug(q)
      BY <2>1, <2>2 DEF HasCompany, slug
    <3>2. slug(r)' = slug(r)
      BY <1>2, <2>2 DEF slug
    <3>3. slug(q) # slug(r)
      BY <2>1, <2>2, <3>1 DEF Apart, WaitsSlug
    <3>4. QED
      BY <3>1, <3>2, <3>3
  <2>3. ASSUME HasUser(q)', HasUser(r)' PROVE sess'[q].email # sess'[r].email
    <3>1. HasUser(q)
      BY <2>1, <2>3 DEF HasUser
    <3>2. sess[q].email # sess[r].email
      BY <2>1, <2>3, <3>1 DEF Apart, WaitsEmail
    <3>3. QED
      BY <1>2, <2>1, <2>3, <3>2
  <2>4. QED
    BY <2>2, <2>3 DEF Apart
<1>4. QED
  BY <1>1, <1>3, FreeKeeps

-----------------------------------------------------------------------------
(* The actions, one lemma each where a step has something to show.          *)

\* Beginning a registration or opening the profile form.
LEMMA BeginsKeep ==
  ASSUME AccountInv, NEW r \in Requests,
         \/ \E e \in Emails, n \in Names, ids \in Ids : Start(r, e, n, ids)
         \/ \E e \in Emails, typed \in Texting : ReadProfile(r, e, typed)
  PROVE  AccountInv'
<1>0. TypeOK
  BY DEF AccountInv
<1>1. ASSUME NEW e \in Emails, NEW n \in Names, NEW ids \in Ids, Start(r, e, n, ids)
      PROVE  AccountInv'
  <2> DEFINE s == [at |-> "email", email |-> e, name |-> n, ids |-> ids, tries |-> 0,
                   checks |-> Unchecked, delta |-> 0]
  <2>1. s \in Registration
    BY AccountAssumption DEF Registration, Unchecked, Checks, Outcome
  <2>2. sess' = [sess EXCEPT ![r] = s] /\ UNCHANGED rows
    BY <1>1 DEF Start
  <2>3. sess'[r] = s
    BY <1>0, <2>2 DEF TypeOK
  <2>4. Fits(r)'
    BY <2>3 DEF Fits, HasCompany, HasUser, Registering, Delta, Unchecked, CheckType
  <2>5. ~HasCompany(r)' /\ ~HasUser(r)'
    BY <2>3 DEF HasCompany, HasUser
  <2>6. QED
    BY <2>1, <2>2, <2>4, <2>5, GoesOn
<1>2. ASSUME NEW e \in Emails, NEW typed \in Texting, ReadProfile(r, e, typed)
      PROVE  AccountInv'
  <2> DEFINE s == [at |-> "save", company |-> users[e], read |-> profile[users[e]], typed |-> typed]
  <2>1. users[e] \in Slugs /\ profile[users[e]] \in Texting
    BY <1>0, <1>2 DEF TypeOK, ReadProfile
  <2>2. s \in Form
    BY <2>1 DEF Form
  <2>3. Free(r, s)
    BY <1>0, <1>2, <2>2 DEF ReadProfile, Free, rows, TypeOK
  <2>4. QED
    BY <2>3, OutsideFits
<1>3. QED
  BY <1>1, <1>2

\* The two searches: a number that is skipped belongs to a company that stays.
LEMMA FindsKeep ==
  ASSUME AccountInv, NEW r \in Requests, FindEmail(r) \/ FindSlug(r)
  PROVE  AccountInv'
<1>0. TypeOK /\ Fits(r)
  BY DEF AccountInv
<1>1. sess[r] \in Registration /\ Registering(r)
  BY <1>0, SessionKind DEF FindEmail, FindSlug, Registering
<1>2. CASE FindEmail(r)
  <2>1. CASE users[sess[r].email] # NoSlug
    BY <1>2, <2>1, EndKeeps DEF FindEmail
  <2>2. CASE users[sess[r].email] = NoSlug
    <3> DEFINE s == [sess[r] EXCEPT !.at = "slug"]
    <3>1. s \in Registration
      BY <1>1 DEF Registration
    <3>2. sess' = [sess EXCEPT ![r] = s] /\ UNCHANGED rows
      BY <1>2, <2>2 DEF FindEmail
    <3>3. sess'[r] = s
      BY <1>0, <3>2 DEF TypeOK
    <3>4. ~HasCompany(r)' /\ ~HasUser(r)'
      BY <1>1, <3>3 DEF HasCompany, HasUser, Registration
    <3>5. Fits(r)'
      BY <1>0, <1>1, <1>2, <3>2, <3>3, <3>4 DEF FindEmail, Fits, Registering, rows, Taken, Registration
    <3>6. QED
      BY <3>1, <3>2, <3>4, <3>5, GoesOn
  <2>3. QED
    BY <2>1, <2>2
<1>3. CASE FindSlug(r)
  <2>1. CASE Taken(slug(r))
    <3> DEFINE s == [sess[r] EXCEPT !.tries = @ + 1]
    <3>1. s \in Registration
      BY <1>1, <1>3, <2>1, AccountAssumption DEF FindSlug, Registration
    <3>2. sess' = [sess EXCEPT ![r] = s] /\ UNCHANGED rows
      BY <1>3, <2>1 DEF FindSlug, NextSlug
    <3>3. sess'[r] = s
      BY <1>0, <3>2 DEF TypeOK
    <3>4. ~HasCompany(r)' /\ ~HasUser(r)'
      BY <1>1, <1>3, <3>3 DEF FindSlug, HasCompany, HasUser, Registration
    <3>5. \A k \in 0..(s.tries - 1) : Taken(Candidate(s.name, k))
      BY <1>0, <1>1, <2>1, AccountAssumption DEF Fits, slug, Registration
    <3>6. Fits(r)'
      BY <1>0, <1>1, <1>3, <3>2, <3>3, <3>4, <3>5
         DEF FindSlug, Fits, Registering, rows, Taken, Registration
    <3>7. QED
      BY <3>1, <3>2, <3>4, <3>6, GoesOn
  <2>2. CASE ~Taken(slug(r))
    <3> DEFINE s == [sess[r] EXCEPT !.at = "company"]
    <3>1. s \in Registration
      BY <1>1 DEF Registration
    <3>2. sess' = [sess EXCEPT ![r] = s] /\ UNCHANGED rows
      BY <1>3, <2>2 DEF FindSlug
    <3>3. sess'[r] = s
      BY <1>0, <3>2 DEF TypeOK
    <3>4. ~HasCompany(r)' /\ ~HasUser(r)'
      BY <1>1, <3>3 DEF HasCompany, HasUser, Registration
    <3>5. Fits(r)'
      BY <1>0, <1>1, <1>3, <3>2, <3>3, <3>4 DEF FindSlug, Fits, Registering, rows, Taken, Registration
    <3>6. QED
      BY <3>1, <3>2, <3>4, <3>5, GoesOn
  <2>3. QED
    BY <2>1, <2>2
<1>4. QED
  BY <1>2, <1>3

\* The two inserts: each takes a key that no other session holds and no row has.
LEMMA InsertsKeep ==
  ASSUME AccountInv, NEW r \in Requests, InsertCompany(r) \/ InsertUser(r)
  PROVE  AccountInv'
<1>0. TypeOK /\ Fits(r)
  BY DEF AccountInv
<1>1. sess[r] \in Registration /\ Registering(r)
  BY <1>0, SessionKind DEF InsertCompany, InsertUser, Registering
<1>2. CASE InsertCompany(r)
  <2>1. CASE Taken(slug(r))
    BY <1>2, <2>1, EndKeeps DEF InsertCompany
  <2>2. CASE ~Taken(slug(r))
    <3> DEFINE s == [sess[r] EXCEPT !.at = "user"]
    <3>1. s \in Registration
      BY <1>1 DEF Registration
    <3>2. sess' = [sess EXCEPT ![r] = s] /\ UNCHANGED rows
      BY <1>2, <2>2 DEF InsertCompany
    <3>3. sess'[r] = s
      BY <1>0, <3>2 DEF TypeOK
    <3>4. s.name = sess[r].name /\ s.tries = sess[r].tries /\ ~HasUser(r)'
      BY <1>1, <3>3 DEF HasUser, Registration
    <3>5. Fits(r)'
      BY <1>0, <1>1, <1>2, <2>2, <3>2, <3>3, <3>4
         DEF InsertCompany, Fits, Registering, rows, Taken, Registration, slug
    <3>6. QED
      BY <1>2, <3>1, <3>2, <3>4, <3>5, GoesOn DEF InsertCompany
  <2>3. QED
    BY <2>1, <2>2
<1>3. CASE InsertUser(r)
  <2>1. CASE users[sess[r].email] # NoSlug
    BY <1>3, <2>1, EndKeeps DEF InsertUser
  <2>2. CASE users[sess[r].email] = NoSlug
    <3> DEFINE s == [sess[r] EXCEPT !.at = "edrpou"]
    <3>1. s \in Registration
      BY <1>1 DEF Registration
    <3>2. sess' = [sess EXCEPT ![r] = s] /\ UNCHANGED rows
      BY <1>3, <2>2 DEF InsertUser
    <3>3. sess'[r] = s
      BY <1>0, <3>2 DEF TypeOK
    <3>4. s.name = sess[r].name /\ s.tries = sess[r].tries /\ s.email = sess[r].email
      BY <1>1 DEF Registration
    <3>5. HasCompany(r)
      BY <1>3 DEF InsertUser, HasCompany
    <3>6. Fits(r)'
      BY <1>0, <1>1, <1>3, <2>2, <3>2, <3>3, <3>4, <3>5
         DEF InsertUser, Fits, Registering, rows, Taken, Registration, slug, HasUser, HasCompany
    <3>7. QED
      BY <1>3, <3>1, <3>2, <3>4, <3>5, <3>6, GoesOn DEF InsertUser
  <2>3. QED
    BY <2>1, <2>2
<1>4. QED
  BY <1>2, <1>3

\* A check adds the points of its outcome, once.
LEMMA ChecksKeep ==
  ASSUME AccountInv, NEW r \in Requests, CheckEdrpou(r) \/ CheckVies(r)
  PROVE  AccountInv'
<1>0. TypeOK /\ Fits(r)
  BY DEF AccountInv
<1>1. sess[r] \in Registration /\ Registering(r) /\ HasCompany(r) /\ HasUser(r)
  BY <1>0, SessionKind DEF CheckEdrpou, CheckVies, Registering, HasCompany, HasUser
<1>2. PICK t \in CheckType, next \in {"vies", "commit"}, o \in Outcome \ {"unchecked"} :
        /\ Checked(r, t, next, o) /\ UNCHANGED rows
        /\ \/ sess[r].at = "edrpou" /\ t = "edrpou" /\ next = "vies"
           \/ sess[r].at = "vies" /\ t = "vies" /\ next = "commit"
  BY DEF CheckEdrpou, CheckVies, CheckType, Outcome, EdrpouCheck, ViesCheck, Lookup, Validate
<1> DEFINE g == sess[r]
           s == IF t \in g.ids
                THEN [g EXCEPT !.at = next, !.checks[t] = o, !.delta = @ + Delta(t, o)]
                ELSE [g EXCEPT !.at = next]
<1>3. g.checks \in Checks /\ g.delta = Delta("edrpou", g.checks["edrpou"]) + Delta("vies", g.checks["vies"])
  BY <1>0, <1>1 DEF Fits, Registration
<1>4. g.checks[t] = "unchecked"
  BY <1>0, <1>1, <1>2 DEF Fits
<1>5. s.checks \in Checks /\ s.delta = Delta("edrpou", s.checks["edrpou"]) + Delta("vies", s.checks["vies"])
  <2>1. CASE t \in g.ids
    <3>1. s.checks = [g.checks EXCEPT ![t] = o] /\ s.delta = g.delta + Delta(t, o)
      BY <1>1, <2>1 DEF Registration
    <3>2. Delta(t, g.checks[t]) = 0
      BY <1>4 DEF Delta
    <3>3. QED
      BY <1>3, <3>1, <3>2, DeltaType DEF Checks, CheckType
  <2>2. CASE t \notin g.ids
    BY <1>1, <1>3, <2>2 DEF Registration
  <2>3. QED
    BY <2>1, <2>2
<1>6. s.at = next /\ s.name = g.name /\ s.tries = g.tries /\ s.email = g.email
  BY <1>1 DEF Registration
<1>7. s \in Registration
  <2>1. s.delta \in {0, 30, 35, 65}
    BY <1>5, DeltaType
  <2>2. QED
    BY <1>1, <1>2, <1>5, <2>1 DEF Registration
<1>8. sess' = [sess EXCEPT ![r] = s] /\ sess'[r] = s /\ UNCHANGED rows
  BY <1>0, <1>2 DEF Checked, TypeOK
<1>9. next = "vies" => s.checks["vies"] = "unchecked"
  BY <1>0, <1>1, <1>2, <1>3 DEF Fits, Registration, Checks, CheckType
<1>10. Fits(r)'
  BY <1>0, <1>1, <1>2, <1>5, <1>6, <1>8, <1>9
     DEF Fits, Registering, HasCompany, HasUser, rows, Taken, slug
<1>11. QED
  BY <1>1, <1>6, <1>7, <1>8, <1>10, GoesOn

\* What a commit writes: the first row of its user, its company and its checks.
LEMMA Committed ==
  ASSUME AccountInv, NEW r \in Requests, Commit(r)
  PROVE  LET s == slug(r)
             g == sess[r]
         IN  /\ g \in Registration /\ s \in Slugs
             /\ ~Taken(s) /\ users[g.email] = NoSlug
             /\ \A e \in Emails : users'[e] = IF e = g.email THEN s ELSE users[e]
             /\ \A x \in Slugs : x # s => companies'[x] = companies[x] /\ checks'[x] = checks[x]
             /\ companies'[s] \in Company /\ checks'[s] = g.checks
             /\ companies'[s].owner = g.email /\ companies'[s].name = g.name
             /\ companies'[s].tries = g.tries /\ companies'[s].score = g.delta
             /\ companies'[s].verified <=> g.checks["edrpou"] = "passed"
<1> DEFINE g == sess[r]
           c == [owner |-> g.email, name |-> g.name, tries |-> g.tries, score |-> 0,
                 verified |-> FALSE]
<1>0. TypeOK /\ Fits(r)
  BY DEF AccountInv
<1>1. g \in Registration /\ Registering(r) /\ HasCompany(r) /\ HasUser(r)
  BY <1>0, SessionKind DEF Commit, Registering, HasCompany, HasUser
<1>2. slug(r) \in Slugs
  BY <1>1, CandidateType DEF slug, Registration
<1>3. ~Taken(slug(r)) /\ users[g.email] = NoSlug
  BY <1>0, <1>1 DEF Fits
<1>4. g.delta = Delta("edrpou", g.checks["edrpou"]) + Delta("vies", g.checks["vies"])
  BY <1>0, <1>1 DEF Fits
<1>6. g.delta >= 35 <=> g.checks["edrpou"] = "passed"
  BY <1>4 DEF Delta
<1>7. ApplyScore(c, g.delta) = [c EXCEPT !.score = g.delta, !.verified = g.delta >= 35]
  <2>1. g.delta \in {0, 30, 35, 65}
    BY <1>1 DEF Registration
  <2>2. c.score + g.delta = g.delta /\ g.delta < 100 /\ c.verified = FALSE
    BY <2>1
  <2> DEFINE score == IF c.score + g.delta < 100 THEN c.score + g.delta ELSE 100
  <2>3. ApplyScore(c, g.delta) = [c EXCEPT !.score = score, !.verified = @ \/ score >= 35]
    BY Zenon DEF ApplyScore, VerifiedThreshold
  <2>4. score = g.delta
    BY <2>2
  <2>5. (c.verified \/ score >= 35) = (g.delta >= 35)
    BY <2>2, <2>4
  <2> HIDE DEF c, score
  <2>6. [c EXCEPT !.score = score, !.verified = @ \/ score >= 35]
          = [c EXCEPT !.score = g.delta, !.verified = g.delta >= 35]
    BY <2>4, <2>5, Zenon
  <2>7. QED
    BY <2>3, <2>6
<1>8. companies'[slug(r)] = ApplyScore(c, g.delta)
  BY <1>0, <1>2 DEF Commit, TypeOK
<1>9. /\ companies'[slug(r)] \in Company
      /\ companies'[slug(r)].owner = g.email /\ companies'[slug(r)].name = g.name
      /\ companies'[slug(r)].tries = g.tries /\ companies'[slug(r)].score = g.delta
      /\ companies'[slug(r)].verified <=> g.checks["edrpou"] = "passed"
  <2> DEFINE a == [c EXCEPT !.score = g.delta, !.verified = g.delta >= 35]
  <2>1. a.owner = g.email /\ a.name = g.name /\ a.tries = g.tries /\ a.score = g.delta
    OBVIOUS
  <2>2. a.verified <=> g.delta >= 35
    OBVIOUS
  <2>3. c \in Company /\ g.delta \in 0..100 /\ (g.delta >= 35) \in BOOLEAN
    BY <1>1 DEF Company, Registration
  <2>4. a \in Company
    BY <2>3 DEF Company
  <2>5. QED
    BY <1>6, <1>7, <1>8, <2>1, <2>2, <2>4
<1>10. /\ \A e \in Emails : users'[e] = IF e = g.email THEN slug(r) ELSE users[e]
       /\ \A x \in Slugs : x # slug(r) => companies'[x] = companies[x] /\ checks'[x] = checks[x]
       /\ checks'[slug(r)] = g.checks
  BY <1>0, <1>2 DEF Commit, TypeOK
<1>11. QED
  BY <1>1, <1>2, <1>3, <1>9, <1>10

\* A commit keeps the invariant: its keys were free, and its numbers are counted.
LEMMA CommitKeeps ==
  ASSUME AccountInv, NEW r \in Requests, Commit(r)
  PROVE  AccountInv'
<1> DEFINE g == sess[r]
           s == slug(r)
<1>0. TypeOK /\ Fits(r) /\ AccountAssumption
  BY AccountAssumption DEF AccountInv
<1>1. /\ g \in Registration /\ s \in Slugs /\ ~Taken(s) /\ users[g.email] = NoSlug
      /\ \A e \in Emails : users'[e] = IF e = g.email THEN s ELSE users[e]
      /\ \A x \in Slugs : x # s => companies'[x] = companies[x] /\ checks'[x] = checks[x]
      /\ companies'[s] \in Company /\ checks'[s] = g.checks
      /\ companies'[s].owner = g.email /\ companies'[s].name = g.name
      /\ companies'[s].tries = g.tries /\ companies'[s].score = g.delta
      /\ companies'[s].verified <=> g.checks["edrpou"] = "passed"
  BY Committed
<1>2. g.email \in Emails /\ g.checks \in Checks
  BY <1>1 DEF Registration
<1>3. g.at = "commit" /\ Registering(r) /\ HasCompany(r) /\ HasUser(r)
  BY DEF Commit, Registering, HasCompany, HasUser
<1>4. \A q \in Requests : sess'[q] = IF q = r THEN Idle ELSE sess[q]
  BY <1>0 DEF Commit, TypeOK
<1>5. TypeOK'
  <2>1. users' \in [Emails -> Slugs \cup {NoSlug}]
    BY <1>0, <1>1, <1>2 DEF Commit, TypeOK
  <2>2. companies' \in [Slugs -> Company \cup {NoCompany}]
    <3>1. ASSUME NEW x \in Slugs PROVE companies'[x] \in Company \cup {NoCompany}
      BY <1>0, <1>1 DEF TypeOK
    <3>2. companies' = [companies EXCEPT ![s] = companies'[s]]
      BY <1>0, <1>1 DEF Commit, TypeOK
    <3>3. QED
      BY <1>0, <1>1, <3>2 DEF TypeOK
  <2>3. checks' \in [Slugs -> Checks]
    BY <1>0, <1>1, <1>2 DEF Commit, TypeOK
  <2>4. QED
    BY <1>0, <2>1, <2>2, <2>3 DEF Commit, TypeOK
<1>6. \A x \in Slugs : Taken(x)' <=> Taken(x) \/ x = s
  BY <1>0, <1>1, <1>2 DEF Taken, AccountAssumption
<1>7. OneOwner'
  <2>1. ASSUME NEW e \in Emails, users'[e] # NoSlug PROVE companies'[users'[e]].owner = e
    <3>1. CASE e = g.email
      BY <1>1, <3>1
    <3>2. CASE e # g.email
      <4>1. users'[e] = users[e] /\ users[e] \in Slugs /\ companies[users[e]].owner = e
        BY <1>0, <1>1, <2>1, <3>2 DEF AccountInv, OneOwner, TypeOK
      <4>2. users[e] # s
        BY <1>0, <1>1, <4>1 DEF Taken, AccountAssumption
      <4>3. QED
        BY <1>1, <4>1, <4>2
    <3>3. QED
      BY <3>1, <3>2
  <2>2. ASSUME NEW x \in Slugs, Taken(x)' PROVE users'[companies'[x].owner] = x
    <3>1. CASE x = s
      BY <1>1, <1>2, <3>1
    <3>2. CASE x # s
      <4>1. Taken(x) /\ companies'[x] = companies[x] /\ users[companies[x].owner] = x
        BY <1>1, <1>6, <2>2, <3>2 DEF AccountInv, OneOwner
      <4>2. companies[x].owner \in Emails
        BY <1>0, <4>1 DEF Taken, TypeOK, Company, NoCompany
      <4>3. companies[x].owner # g.email
        BY <1>0, <1>1, <4>1 DEF AccountAssumption
      <4>4. QED
        BY <1>1, <4>1, <4>2, <4>3
    <3>3. QED
      BY <3>1, <3>2
  <2>3. QED
    BY <2>1, <2>2 DEF OneOwner, Taken
<1>8. NumberedInOrder'
  <2>1. ASSUME NEW x \in Slugs, Taken(x)'
        PROVE  /\ x = Candidate(companies'[x].name, companies'[x].tries)
               /\ \A k \in 0..(companies'[x].tries - 1) :
                    companies'[Candidate(companies'[x].name, k)].owner # NoEmail
    <3>1. CASE x = s
      <4>1. x = Candidate(g.name, g.tries)
        BY <3>1 DEF slug
      <4>2. \A k \in 0..(g.tries - 1) : Taken(Candidate(g.name, k))
        BY <1>0, <1>3 DEF Fits
      <4>3. \A k \in 0..(g.tries - 1) : Candidate(g.name, k) \in Slugs
        BY <1>0, <1>1, CandidateType DEF Registration, AccountAssumption
      <4>4. QED
        BY <1>1, <1>6, <3>1, <4>1, <4>2, <4>3 DEF Taken
    <3>2. CASE x # s
      <4>1. Taken(x) /\ companies'[x] = companies[x]
        BY <1>1, <1>6, <2>1, <3>2
      <4>2. /\ x = Candidate(companies[x].name, companies[x].tries)
            /\ \A k \in 0..(companies[x].tries - 1) : Taken(Candidate(companies[x].name, k))
        BY <4>1 DEF AccountInv, NumberedInOrder
      <4>3. companies[x] \in Company
        BY <1>0, <4>1 DEF TypeOK, Taken, NoCompany
      <4>4. \A k \in 0..(companies[x].tries - 1) : Candidate(companies[x].name, k) \in Slugs
        BY <1>0, <4>3, CandidateType DEF Company, AccountAssumption
      <4>5. QED
        BY <1>6, <4>1, <4>2, <4>4 DEF Taken
    <3>3. QED
      BY <3>1, <3>2
  <2>2. QED
    BY <2>1 DEF NumberedInOrder, Taken
<1>9. BadgeNeedsRegistry'
  <2>1. g.delta = Delta("edrpou", g.checks["edrpou"]) + Delta("vies", g.checks["vies"])
    BY <1>0, <1>3 DEF Fits
  <2>2. ASSUME NEW x \in Slugs
        PROVE  /\ companies'[x].score =
                    Delta("edrpou", checks'[x]["edrpou"]) + Delta("vies", checks'[x]["vies"])
               /\ companies'[x].verified <=> checks'[x]["edrpou"] = "passed"
    BY <1>1, <2>1 DEF AccountInv, BadgeNeedsRegistry
  <2>3. QED
    BY <2>2 DEF BadgeNeedsRegistry
<1>10. \A q \in Requests : Fits(q)'
  <2>1. Fits(r)'
    BY <1>4 DEF Fits, HasCompany, HasUser, Registering, Idle
  <2>2. ASSUME NEW q \in Requests, q # r PROVE Fits(q)'
    <3>1. sess'[q] = sess[q] /\ Fits(q) /\ Apart(q, r)
      BY <1>4, <2>2 DEF AccountInv
    <3>2. HasCompany(q)' => ~Taken(slug(q))'
      <4>1. SUFFICES ASSUME HasCompany(q) PROVE ~(companies'[slug(q)].owner # NoEmail)
        BY <3>1 DEF HasCompany, Taken, slug
      <4>2. slug(q) # s /\ ~Taken(slug(q))
        BY <1>3, <3>1, <4>1 DEF Apart, Fits
      <4>3. sess[q] \in Registration
        BY <1>0, <4>1, SessionKind DEF HasCompany, Registering
      <4>4. slug(q) \in Slugs
        BY <4>3, CandidateType DEF slug, Registration
      <4>5. QED
        BY <1>1, <4>2, <4>4 DEF Taken
    <3>3. HasUser(q)' => users'[sess'[q].email] = NoSlug
      <4>1. SUFFICES ASSUME HasUser(q) PROVE users'[sess[q].email] = NoSlug
        BY <3>1 DEF HasUser
      <4>2. sess[q].email # g.email /\ users[sess[q].email] = NoSlug
        BY <1>3, <3>1, <4>1 DEF Apart, Fits
      <4>3. sess[q] \in Registration
        BY <1>0, <4>1, SessionKind DEF HasUser, Registering
      <4>4. QED
        BY <1>1, <4>2, <4>3 DEF Registration
    <3>4. Registering(q)' =>
            \A k \in 0..(sess'[q].tries - 1) :
              companies'[Candidate(sess'[q].name, k)].owner # NoEmail
      <4>1. SUFFICES ASSUME Registering(q), NEW k \in 0..(sess[q].tries - 1)
                     PROVE  companies'[Candidate(sess[q].name, k)].owner # NoEmail
        BY <3>1 DEF Registering
      <4>2. Taken(Candidate(sess[q].name, k))
        BY <3>1, <4>1 DEF Fits
      <4>3. sess[q] \in Registration
        BY <1>0, <4>1, SessionKind
      <4>4. Candidate(sess[q].name, k) \in Slugs
        BY <1>0, <4>1, <4>3, CandidateType DEF Registration, AccountAssumption
      <4>5. QED
        BY <1>6, <4>2, <4>4 DEF Taken
    <3>5. QED
      BY <3>1, <3>2, <3>3, <3>4 DEF AccountInv, Fits, Registering, Taken
  <2>3. QED
    BY <2>1, <2>2
<1>11. \A p, q \in Requests : p # q => Apart(p, q)'
  BY <1>4 DEF AccountInv, Apart, HasCompany, HasUser, slug, Idle
<1>12. QED
  BY <1>5, <1>7, <1>8, <1>9, <1>10, <1>11 DEF AccountInv

\* Saving the profile form writes text fields only.
LEMMA SaveKeeps ==
  ASSUME AccountInv, NEW r \in Requests, SaveProfile(r)
  PROVE  AccountInv'
<1>0. TypeOK
  BY DEF AccountInv
<1>1. sess[r] \in Form
  BY <1>0, SessionKind DEF SaveProfile
<1>2. profile[sess[r].company] \in Texting /\ sess[r].typed \in Texting
  BY <1>0, <1>1 DEF TypeOK, Form
<1>3. \A f \in Fields : Written(r, f) \in Texts \cup {Blank}
  BY <1>2 DEF Written, Texting
<1>4. profile' \in [Slugs -> Texting]
  BY <1>0, <1>3 DEF SaveProfile, TypeOK, Texting
<1>5. Free(r, Idle)
  BY <1>4 DEF Free, SaveProfile
<1>6. Idle.at = "idle"
  BY DEF Idle
<1>7. QED
  BY <1>5, <1>6, OutsideFits

-----------------------------------------------------------------------------
(* The invariant and what follows from it.                                 *)

LEMMA InitInv == Init => AccountInv
<1> SUFFICES ASSUME Init PROVE AccountInv
  OBVIOUS
<1>1. TypeOK
  BY DEF Init, TypeOK, Unchecked, Checks, Outcome, Texting
<1>2. \A s \in Slugs : ~Taken(s)
  BY DEF Init, Taken, NoCompany
<1>3. OneOwner /\ NumberedInOrder
  BY <1>2 DEF Init, OneOwner, NumberedInOrder
<1>4. BadgeNeedsRegistry
  BY DEF Init, BadgeNeedsRegistry, NoCompany, Unchecked, CheckType, Delta
<1>5. \A r \in Requests : sess[r].at = "idle"
  BY DEF Init, Idle
<1>6. QED
  BY <1>1, <1>2, <1>3, <1>4, <1>5 DEF AccountInv, Fits, Apart, HasCompany, HasUser, Registering

LEMMA StepKeeps == AccountInv /\ [Next]_vars => AccountInv'
<1> SUFFICES ASSUME AccountInv, [Next]_vars PROVE AccountInv'
  OBVIOUS
<1>1. ASSUME NEW r \in Requests, Proceed(r) PROVE AccountInv'
  BY <1>1, FindsKeep, InsertsKeep, ChecksKeep, CommitKeeps DEF Proceed
<1>2. ASSUME NEW r \in Requests, Abort(r) PROVE AccountInv'
  BY <1>2, EndKeeps DEF Abort
<1>3. CASE UNCHANGED vars
  BY <1>3 DEF vars, AccountInv, TypeOK, OneOwner, NumberedInOrder, BadgeNeedsRegistry, Taken,
              Fits, Apart, HasCompany, HasUser, Registering, slug
<1>4. QED
  BY <1>1, <1>2, <1>3, BeginsKeep, SaveKeeps DEF Next

LEMMA AccountInvariant == Spec => []AccountInv
BY InitInv, StepKeeps, PTL DEF Spec

\* Rows and sessions keep their shape: an outcome is one the enumeration names, a score never
\* passes 100, and a session's points are among those two checks can give.
THEOREM TypeCorrect == Spec => []TypeOK
<1>1. AccountInv => TypeOK
  BY DEF AccountInv
<1>2. QED
  BY <1>1, AccountInvariant, PTL

\* However many registrations race for an email or a name, users and companies stay in
\* one-to-one correspondence.
THEOREM OwnersMatch == Spec => []OneOwner
<1>1. AccountInv => OneOwner
  BY DEF AccountInv
<1>2. QED
  BY <1>1, AccountInvariant, PTL

\* The numbers of a name's slugs have no gap, whatever the other names' candidates are.
THEOREM SlugsInOrder == Spec => []NumberedInOrder
<1>1. AccountInv => NumberedInOrder
  BY DEF AccountInv
<1>2. QED
  BY <1>1, AccountInvariant, PTL

\* The badge stands for the Ukrainian registry, and the score for the stored checks.
THEOREM BadgeIsEarned == Spec => []BadgeNeedsRegistry
<1>1. AccountInv => BadgeNeedsRegistry
  BY DEF AccountInv
<1>2. QED
  BY <1>1, AccountInvariant, PTL

\* The two keys are inserted in one order, the slug before the email: a registration that has
\* both waits for nobody, and one that waits for an email waits for one that has both.
LEMMA HoldersGoOn ==
  ASSUME NEW r \in Requests, NEW q \in Requests, WaitsFor(r, q)
  PROVE  ~HasUser(r) /\ (HasCompany(r) => HasUser(q)) /\ HasCompany(q)
BY DEF WaitsFor, HasUser, HasCompany

\* However many registrations are in flight, no circle of them waits: in any set of them one
\* that is furthest, with both keys, with the company's, or with none, waits for no other.
THEOREM NoCircle == Spec => []NoCircularWait
<1>1. NoCircularWait
  <2>1. SUFFICES ASSUME NEW S \in SUBSET Requests, S # {}
                 PROVE  \E r \in S : \A q \in S : ~WaitsFor(r, q)
    BY DEF NoCircularWait
  <2>2. CASE \E r \in S : HasUser(r)
    BY <2>2, HoldersGoOn
  <2>3. CASE (\A r \in S : ~HasUser(r)) /\ \E r \in S : HasCompany(r)
    BY <2>3, HoldersGoOn
  <2>4. CASE \A r \in S : ~HasCompany(r)
    BY <2>1, <2>4, HoldersGoOn
  <2>5. QED
    BY <2>2, <2>3, <2>4
<1>2. QED
  BY <1>1, PTL

\* What a registration commits is new: users, companies and checks that are there stay as they
\* are, whoever registers meanwhile.
THEOREM NothingIsTaken == Spec => NothingTakenOver
<1>1. AccountInv /\ [Next]_vars => [TakesNothingOver]_vars
  <2> SUFFICES ASSUME AccountInv, Next PROVE TakesNothingOver
    BY DEF vars
  <2>0. SUFFICES ASSUME NEW e \in Emails, users[e] # NoSlug
                 PROVE  /\ users'[e] = users[e]
                        /\ companies'[users[e]] = companies[users[e]]
                        /\ checks'[users[e]] = checks[users[e]]
    BY DEF TakesNothingOver
  <2>1. CASE \E r \in Requests : Commit(r)
    <3>1. PICK r \in Requests : Commit(r)
      BY <2>1
    <3>2. users[e] \in Slugs /\ companies[users[e]].owner = e /\ e # NoEmail
      BY <2>0, AccountAssumption DEF AccountInv, TypeOK, OneOwner
    <3>3. users[e] # slug(r) /\ e # sess[r].email
      BY <2>0, <3>1, <3>2, Committed DEF Taken
    <3>4. QED
      BY <3>1, <3>2, <3>3, Committed
  <2>2. CASE ~\E r \in Requests : Commit(r)
    BY <2>2 DEF Next, Proceed, Start, FindEmail, FindSlug, InsertCompany, InsertUser, CheckEdrpou,
                CheckVies, Abort, ReadProfile, SaveProfile, rows
  <2>3. QED
    BY <2>1, <2>2
<1>2. QED
  BY <1>1, AccountInvariant, PTL DEF Spec, NothingTakenOver

\* A filled profile field stays filled: a form that was opened when it was blank writes it only
\* with what was typed.
THEOREM ProfileStaysFilled == Spec => FilledStays
<1>1. AccountInv /\ [Next]_vars => [KeepsFilled]_vars
  <2> SUFFICES ASSUME AccountInv, Next PROVE KeepsFilled
    BY DEF vars
  <2>1. CASE \E r \in Requests : SaveProfile(r)
    <3>1. PICK r \in Requests : SaveProfile(r)
      BY <2>1
    <3>2. sess[r] \in Form /\ profile \in [Slugs -> Texting]
      BY <3>1, SessionKind DEF AccountInv, TypeOK, SaveProfile
    <3>3. ASSUME NEW s \in Slugs, NEW f \in Fields, profile[s][f] # Blank
          PROVE  profile'[s][f] # Blank
      <4>1. CASE s # sess[r].company
        BY <3>1, <3>2, <3>3, <4>1 DEF SaveProfile
      <4>2. CASE s = sess[r].company
        <5>1. profile'[s][f] = Written(r, f)
          BY <3>1, <3>2, <4>2 DEF SaveProfile
        <5>2. QED
          BY <3>3, <4>2, <5>1 DEF Written
      <4>3. QED
        BY <4>1, <4>2
    <3>4. QED
      BY <3>3 DEF KeepsFilled
  <2>2. CASE ~\E r \in Requests : SaveProfile(r)
    <3>1. profile' = profile
      BY <2>2 DEF Next, Proceed, Start, FindEmail, FindSlug, InsertCompany, InsertUser, CheckEdrpou,
                  CheckVies, Commit, Abort, ReadProfile, rows
    <3>2. QED
      BY <3>1 DEF KeepsFilled
  <2>3. QED
    BY <2>1, <2>2
<1>2. QED
  BY <1>1, AccountInvariant, PTL DEF Spec, FilledStays

-----------------------------------------------------------------------------
(* The book.                                                               *)

\* A form is for a company that is there.
Edits(r) == sess[r].at = "save" => Taken(sess[r].company)

\* A company that is there stays.
LEMMA TakenStays ==
  ASSUME AccountInv, [Next]_vars, NEW s \in Slugs, Taken(s)
  PROVE  Taken(s)'
<1>1. ASSUME NEW r \in Requests, Commit(r) PROVE Taken(s)'
  BY <1>1, Committed DEF Taken
<1>2. CASE companies' = companies
  BY <1>2 DEF Taken
<1>3. QED
  BY <1>1, <1>2 DEF Next, vars, Proceed, Start, FindEmail, FindSlug, InsertCompany, InsertUser,
                    CheckEdrpou, CheckVies, Abort, ReadProfile, SaveProfile, rows

\* Only the read of a profile puts a session there.
LEMMA OnlyReadsEdit ==
  ASSUME TypeOK, NEW r \in Requests,
         \/ \E e \in Emails, n \in Names, ids \in Ids : Start(r, e, n, ids)
         \/ Proceed(r) \/ Abort(r) \/ SaveProfile(r)
  PROVE  sess'[r].at # "save" /\ \A q \in Requests \ {r} : sess'[q] = sess[q]
<1> DEFINE g == sess[r]
<1>1. CASE \E e \in Emails, n \in Names, ids \in Ids : Start(r, e, n, ids)
  BY <1>1 DEF Start, TypeOK
<1>2. CASE Commit(r) \/ Abort(r) \/ SaveProfile(r)
  BY <1>2 DEF Commit, Abort, SaveProfile, TypeOK, Idle
<1>3. CASE FindEmail(r) \/ FindSlug(r) \/ InsertCompany(r) \/ InsertUser(r)
  <2>1. g \in Registration
    BY <1>3, SessionKind DEF FindEmail, FindSlug, InsertCompany, InsertUser, Registering
  <2>2. NextSlug(r).at = g.at /\ g.at # "save"
    BY <2>1 DEF NextSlug, Registration
  <2>3. /\ [g EXCEPT !.at = "slug"].at = "slug" /\ [g EXCEPT !.at = "company"].at = "company"
        /\ [g EXCEPT !.at = "user"].at = "user" /\ [g EXCEPT !.at = "edrpou"].at = "edrpou"
    BY <2>1 DEF Registration
  <2>4. Idle.at = "idle"
    BY DEF Idle
  <2> HIDE DEF g
  <2>5. QED
    BY <1>3, <2>2, <2>3, <2>4 DEF FindEmail, FindSlug, InsertCompany, InsertUser, TypeOK, g
<1>4. ASSUME NEW t, NEW next, NEW outcome, next \in {"vies", "commit"}, g \in Registration,
             Checked(r, t, next, outcome)
      PROVE  sess'[r].at # "save" /\ \A q \in Requests \ {r} : sess'[q] = sess[q]
  <2>1. /\ [g EXCEPT !.at = next].at = next
        /\ [g EXCEPT !.at = next, !.checks[t] = outcome, !.delta = @ + Delta(t, outcome)].at = next
    BY <1>4 DEF Registration
  <2>2. sess'[r].at = next
    BY <1>4, <2>1 DEF Checked, TypeOK
  <2>3. QED
    BY <1>4, <2>2 DEF Checked, TypeOK
<1>5. CASE CheckEdrpou(r) \/ CheckVies(r)
  <2>1. g \in Registration
    BY <1>5, SessionKind DEF CheckEdrpou, CheckVies, Registering
  <2>2. QED
    BY <1>4, <1>5, <2>1 DEF CheckEdrpou, CheckVies
<1>6. QED
  BY <1>1, <1>2, <1>3, <1>5 DEF Proceed

\* So every form in flight is for a company that is there.
LEMMA EditsKeep ==
  ASSUME AccountInv, \A r \in Requests : Edits(r), [Next]_vars
  PROVE  \A r \in Requests : Edits(r)'
<1>0. TypeOK /\ OneOwner
  BY DEF AccountInv
<1> SUFFICES ASSUME NEW q \in Requests, sess'[q].at = "save"
             PROVE  companies'[sess'[q].company].owner # NoEmail
  BY DEF Edits, Taken
<1>1. CASE sess'[q] = sess[q]
  <2>1. sess[q] \in Form /\ Taken(sess[q].company)
    BY <1>0, <1>1, SessionKind DEF Edits
  <2>2. sess[q].company \in Slugs
    BY <2>1 DEF Form
  <2>3. QED
    BY <1>1, <2>1, <2>2, TakenStays DEF Taken
<1>2. ASSUME NEW r \in Requests, NEW e \in Emails, NEW typed \in Texting, ReadProfile(r, e, typed),
             sess'[q] # sess[q]
      PROVE  companies'[sess'[q].company].owner # NoEmail
  <2>1. q = r
    BY <1>0, <1>2 DEF ReadProfile, TypeOK
  <2>2. sess'[q].company = users[e] /\ users[e] # NoSlug /\ companies' = companies
    BY <1>0, <1>2, <2>1 DEF ReadProfile, TypeOK, rows
  <2>3. users[e] \in Slugs /\ companies[users[e]].owner = e /\ e # NoEmail
    BY <1>0, <2>2, AccountAssumption DEF TypeOK, OneOwner
  <2>4. QED
    BY <2>2, <2>3
<1>3. QED
  BY <1>0, <1>1, <1>2, OnlyReadsEdit DEF Next, vars

\* The commit of a registration enters the account.
LEMMA CommitEnters ==
  ASSUME AccountInv, AccountInv', NEW r \in Requests, Commit(r)
  PROVE  Book!Next
<1> DEFINE g == sess[r]
           s == slug(r)
           owners == [x \in Slugs |-> companies[x].owner]
           badges == {x \in Slugs : companies[x].verified}
<1>1. /\ g \in Registration /\ s \in Slugs /\ ~Taken(s) /\ users[g.email] = NoSlug
      /\ \A x \in Slugs : x # s => companies'[x] = companies[x]
      /\ companies'[s].owner = g.email
  BY Committed
<1>2. g.email \in Emails /\ g.name \in Names /\ g.tries \in 0..MaxTries
  BY <1>1 DEF Registration
<1>3. s = Candidate(g.name, g.tries)
  BY DEF slug
<1>4. \A j \in 0..(g.tries - 1) : Taken(Candidate(g.name, j)) /\ Candidate(g.name, j) \in Slugs
  <2>1. \A j \in 0..(g.tries - 1) : Taken(Candidate(g.name, j))
    BY SessionKind DEF AccountInv, Fits, Commit, Registering
  <2>2. \A j \in 0..(g.tries - 1) : j \in 0..MaxTries
    BY <1>2, AccountAssumption
  <2>3. QED
    BY <1>2, <2>1, <2>2, CandidateType
<1>5. owners' = [owners EXCEPT ![s] = g.email]
  BY <1>1
<1>6. badges' = badges \/ badges' = badges \cup {s}
  <2>1. CASE companies'[s].verified
    <3>1. badges' = badges \cup {s}
      BY <1>1, <2>1
    <3>2. QED
      BY <3>1
  <2>2. CASE ~companies'[s].verified
    <3>1. companies[s] \in Company \cup {NoCompany} /\ companies[s].owner = NoEmail
      BY <1>1 DEF AccountInv, TypeOK, Taken
    <3>2. s \notin badges
      BY <3>1, AccountAssumption DEF Company, NoCompany
    <3>3. badges' = badges
      BY <1>1, <2>2, <3>2
    <3>4. QED
      BY <3>3
  <2>3. QED
    BY <2>1, <2>2
<1>7. users' = [users EXCEPT ![g.email] = s] /\ profile' = profile
  BY DEF Commit
<1>8. owners[s] = NoEmail /\ \A j \in 0..(g.tries - 1) : owners[Candidate(g.name, j)] # NoEmail
  BY <1>1, <1>4 DEF Taken
<1> HIDE DEF g, s, owners, badges
<1>9. PICK e \in Emails, n \in Names, k \in 0..MaxTries :
        e = g.email /\ n = g.name /\ k = g.tries
  BY <1>2
<1>10. Book!Register(e, n, k)
  BY <1>1, <1>3, <1>5, <1>6, <1>7, <1>8, <1>9 DEF Book!Register, Book!Taken, owners, badges
<1>11. QED
  BY <1>10 DEF Book!Next

\* The commit of a form fills in the profile.
LEMMA SaveFillsIn ==
  ASSUME AccountInv, NEW r \in Requests, Edits(r), SaveProfile(r)
  PROVE  Book!Next
<1> DEFINE s == sess[r].company
           page == [f \in Fields |-> Written(r, f)]
           owners == [x \in Slugs |-> companies[x].owner]
<1>0. TypeOK
  BY DEF AccountInv
<1>1. sess[r] \in Form /\ s \in Slugs /\ Taken(s)
  BY <1>0, SessionKind DEF SaveProfile, Edits, Form
<1>2. profile[s] \in Texting /\ sess[r].typed \in Texting
  BY <1>0, <1>1 DEF TypeOK, Form
<1>3. \A f \in Fields : Written(r, f) = profile[s][f] \/ Written(r, f) \in Texts
  BY <1>2 DEF Written, Texting
<1>4. page \in [Fields -> Texts \cup {Blank}]
  BY <1>2, <1>3 DEF Texting
<1>5. \A f \in Fields : page[f] # profile[s][f] => page[f] \in Texts
  BY <1>3
<1>6. profile' = [profile EXCEPT ![s] = page] /\ UNCHANGED <<users, companies>>
  BY DEF SaveProfile
<1>7. owners[s] # NoEmail
  BY <1>1 DEF Taken
<1> HIDE DEF s, page
<1>8. Book!FillIn(s)
  BY <1>4, <1>5, <1>6, <1>7 DEF Book!FillIn, Book!Taken
<1>9. QED
  BY <1>1, <1>8 DEF Book!Next, s

\* Registrations and forms that overlap change the accounts as if each came in one step.
THEOREM ImplementsBook == Spec => KeepsBook
<1> DEFINE Editing == \A r \in Requests : Edits(r)
<1>1. Init => Book!Init /\ Editing
  BY DEF Init, Book!Init, Edits, Idle, NoCompany
<1>2. AccountInv /\ Editing /\ [Next]_vars => Editing'
  BY EditsKeep
<1>3. AccountInv /\ AccountInv' /\ Editing /\ [Next]_vars => [Book!Next]_Book!book
  <2> SUFFICES ASSUME AccountInv, AccountInv', Editing, [Next]_vars
               PROVE  [Book!Next]_Book!book
    OBVIOUS
  <2>1. ASSUME NEW r \in Requests, Commit(r) PROVE [Book!Next]_Book!book
    BY <2>1, CommitEnters
  <2>2. ASSUME NEW r \in Requests, SaveProfile(r) PROVE [Book!Next]_Book!book
    BY <2>2, SaveFillsIn
  <2>3. CASE UNCHANGED <<users, companies, profile>>
    BY <2>3 DEF Book!book
  <2>4. QED
    BY <2>1, <2>2, <2>3 DEF Next, vars, rows, Proceed, Start, FindEmail, FindSlug, InsertCompany,
                            InsertUser, CheckEdrpou, CheckVies, Abort, ReadProfile
<1>4. QED
  BY <1>1, <1>2, <1>3, AccountInvariant, PTL DEF Spec, KeepsBook, Book!Spec
=============================================================================
