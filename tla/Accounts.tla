------------------------------ MODULE Accounts ------------------------------
(***************************************************************************)
(* Registration with its company check, and the profile form.               *)
(*                                                                          *)
(* register_submit looks for the email and for a free slug, inserts the     *)
(* company and then the user, asks the two registries while both rows are   *)
(* uncommitted, and commits everything at once.  Both searches see only     *)
(* committed rows; what keeps emails and slugs unique is the database,      *)
(* which makes an insert wait for an open one of the same key and refuses   *)
(* it if that one commits.                                                  *)
(***************************************************************************)
EXTENDS Naturals

CONSTANTS
  Emails, Names,        \* what people type
  Candidate(_, _),      \* the slug tried for a name: its slug form, then with -1, -2, ...
  Slugs,
  MaxTries,             \* bound: the last number tried
  Fields, Texts, Blank, \* profile form: its fields, what may be typed, and nothing
  Ids,                  \* which of the two numbers may be typed: sets of check types
  Requests,             \* slots for requests in flight at once
  NoSlug, NoEmail, NoName

CheckType == {"edrpou", "vies"}

ASSUME AccountAssumption ==
  /\ NoSlug \notin Slugs /\ NoEmail \notin Emails /\ NoName \notin Names /\ Blank \notin Texts
  /\ MaxTries \in Nat /\ Ids \subseteq SUBSET CheckType
  /\ \A n \in Names, k \in 0..MaxTries : Candidate(n, k) \in Slugs

VARIABLES
  users,      \* users: the company (by its slug) of each email, NoSlug without a row
  companies,  \* companies, by slug: owner (NoEmail without a row), name, score and badge
  checks,     \* verification_checks rows of the company, by check type
  profile,    \* the text fields of the company
  sess        \* per slot, the registration or the profile form in flight

vars == <<users, companies, checks, profile, sess>>

Outcome == {"unchecked", "passed", "failed", "manual_required"}
Checks == [CheckType -> Outcome]
Unchecked == [t \in CheckType |-> "unchecked"]

Company == [owner: Emails, name: Names, tries: 0..MaxTries, score: 0..100, verified: BOOLEAN]
NoCompany == [owner |-> NoEmail, name |-> NoName, tries |-> 0, score |-> 0, verified |-> FALSE]

Idle == [at |-> "idle"]
Registration == [at: {"email", "slug", "company", "user", "edrpou", "vies", "commit"},
                 email: Emails, name: Names, ids: SUBSET CheckType, tries: 0..MaxTries,
                 checks: Checks, delta: {0, 30, 35, 65}]
Texting == [Fields -> Texts \cup {Blank}]
Form == [at: {"save"}, company: Slugs, read: Texting, typed: Texting]

TypeOK ==
  /\ users \in [Emails -> Slugs \cup {NoSlug}]
  /\ companies \in [Slugs -> Company \cup {NoCompany}]
  /\ checks \in [Slugs -> Checks]
  /\ profile \in [Slugs -> Texting]
  /\ sess \in [Requests -> {Idle} \cup Registration \cup Form]

Init ==
  /\ users = [e \in Emails |-> NoSlug]
  /\ companies = [s \in Slugs |-> NoCompany]
  /\ checks = [s \in Slugs |-> Unchecked]
  /\ profile = [s \in Slugs |-> [f \in Fields |-> Blank]]
  /\ sess = [r \in Requests |-> Idle]

-----------------------------------------------------------------------------
(* Registration.                                                           *)

rows == <<users, companies, checks, profile>>
Taken(s) == companies[s].owner # NoEmail
slug(r) == Candidate(sess[r].name, sess[r].tries)

\* ids: which of the two numbers was typed in.
Start(r, e, n, ids) ==
  /\ sess[r] = Idle
  /\ sess' = [sess EXCEPT ![r] = [at |-> "email", email |-> e, name |-> n, ids |-> ids, tries |-> 0,
                                checks |-> Unchecked, delta |-> 0]]
  /\ UNCHANGED rows

\* An email that is registered gets the form back.
FindEmail(r) ==
  /\ sess[r].at = "email"
  /\ sess' = [sess EXCEPT ![r] = IF users[sess[r].email] # NoSlug THEN Idle
                                ELSE [sess[r] EXCEPT !.at = "slug"]]
  /\ UNCHANGED rows

\* Seeded bug: a number is left out.
SkipNumber(r) == [sess[r] EXCEPT !.tries = @ + 2]

NextSlug(r) == [sess[r] EXCEPT !.tries = @ + 1]

\* One turn of the loop.
FindSlug(r) ==
  /\ sess[r].at = "slug"
  /\ Taken(slug(r)) => sess[r].tries < MaxTries
  /\ sess' = [sess EXCEPT ![r] = IF Taken(slug(r)) THEN NextSlug(r)
                                ELSE [sess[r] EXCEPT !.at = "company"]]
  /\ UNCHANGED rows

HasCompany(r) == sess[r].at \in {"user", "edrpou", "vies", "commit"}

\* Seeded bug: the user is inserted before the company.
UserFirst(r) == sess[r].at \in {"company", "user", "edrpou", "vies", "commit"}

HasUser(r) == sess[r].at \in {"edrpou", "vies", "commit"}

\* Seeded bug: no unique constraint on emails, so nothing to wait for.
NoWaitEmail(r) == FALSE

\* Another open transaction has inserted a company of this slug, a user of this email.
WaitsSlug(r) == \E q \in Requests \ {r} : HasCompany(q) /\ slug(q) = slug(r)
WaitsEmail(r) == \E q \in Requests \ {r} : HasUser(q) /\ sess[q].email = sess[r].email

InsertCompany(r) ==
  /\ sess[r].at = "company"
  /\ ~WaitsSlug(r)
  /\ sess' = [sess EXCEPT ![r] = IF Taken(slug(r)) THEN Idle  \* IntegrityError
                                ELSE [sess[r] EXCEPT !.at = "user"]]
  /\ UNCHANGED rows

\* Seeded bug: the company is committed before its user is.
CommitCompany(r) ==
  /\ sess[r].at = "user"
  /\ companies' = [companies EXCEPT ![slug(r)] =
                     [owner |-> sess[r].email, name |-> sess[r].name, tries |-> sess[r].tries,
                      score |-> 0, verified |-> FALSE]]
  /\ sess' = [sess EXCEPT ![r] = IF users[sess[r].email] # NoSlug THEN Idle
                                ELSE [sess[r] EXCEPT !.at = "edrpou"]]
  /\ UNCHANGED <<users, checks, profile>>

InsertUser(r) ==
  /\ sess[r].at = "user"
  /\ ~WaitsEmail(r)
  /\ sess' = [sess EXCEPT ![r] = IF users[sess[r].email] # NoSlug THEN Idle  \* IntegrityError
                                ELSE [sess[r] EXCEPT !.at = "edrpou"]]
  /\ UNCHANGED rows

-----------------------------------------------------------------------------
(* Verification, inside the registration's transaction.                    *)

\* What the registries' adapters return: whatever goes wrong is None, a malformed VAT
\* number is invalid.
Lookup == {"active", "inactive", "None"}
Validate == {"valid", "invalid", "None"}

\* Seeded bug: the registry's own word is stored as the outcome.
RegistryWord == [active |-> "active", inactive |-> "inactive", None |-> "None"]

EdrpouCheck == [active |-> "passed", inactive |-> "failed", None |-> "manual_required"]
ViesCheck == [valid |-> "passed", invalid |-> "failed", None |-> "manual_required"]

Delta(t, outcome) ==
  IF outcome # "passed" THEN 0 ELSE IF t = "edrpou" THEN 35 ELSE 30

\* A check that applies leaves a row and adds its points; one that does not, neither.
Checked(r, t, next, outcome) ==
  sess' = [sess EXCEPT ![r] =
            IF t \in sess[r].ids
            THEN [sess[r] EXCEPT !.at = next, !.checks[t] = outcome, !.delta = @ + Delta(t, outcome)]
            ELSE [sess[r] EXCEPT !.at = next]]

CheckEdrpou(r) ==
  /\ sess[r].at = "edrpou"
  /\ \E answer \in Lookup : Checked(r, "edrpou", "vies", EdrpouCheck[answer])
  /\ UNCHANGED rows

CheckVies(r) ==
  /\ sess[r].at = "vies"
  /\ \E answer \in Validate : Checked(r, "vies", "commit", ViesCheck[answer])
  /\ UNCHANGED rows

VerifiedThreshold == 35

\* Seeded bug: any points give the badge.
AnyPoints(c, delta) == [c EXCEPT !.score = delta, !.verified = delta > 0]

\* The new company has 0 points; the email bonus needs a confirmed email, which nobody has.
ApplyScore(c, delta) ==
  LET total == c.score + delta
      score == IF total < 100 THEN total ELSE 100
  IN  [c EXCEPT !.score = score, !.verified = @ \/ score >= VerifiedThreshold]

Commit(r) ==
  LET s == slug(r)
      g == sess[r]
  IN  /\ g.at = "commit"
      /\ users' = [users EXCEPT ![g.email] = s]
      /\ companies' = [companies EXCEPT ![s] =
           ApplyScore([owner |-> g.email, name |-> g.name, tries |-> g.tries, score |-> 0,
                       verified |-> FALSE], g.delta)]
      /\ checks' = [checks EXCEPT ![s] = g.checks]
      /\ sess' = [sess EXCEPT ![r] = Idle]
      /\ UNCHANGED profile

\* The process or the connection is lost: the rows inserted so far are rolled back.
Abort(r) ==
  /\ sess[r] # Idle
  /\ sess' = [sess EXCEPT ![r] = Idle]
  /\ UNCHANGED rows

-----------------------------------------------------------------------------
(* POST /onboarding/complete.                                              *)

\* A logged-in user's company is read.
ReadProfile(r, e, typed) ==
  /\ sess[r] = Idle
  /\ users[e] # NoSlug
  /\ sess' = [sess EXCEPT ![r] = [at |-> "save", company |-> users[e], read |-> profile[users[e]],
                                  typed |-> typed]]
  /\ UNCHANGED rows

\* Seeded bug: every column is written, those left blank as they were read.
WriteAll(r, f) == IF sess[r].typed[f] = Blank THEN sess[r].read[f] ELSE sess[r].typed[f]

\* A field left blank keeps the value read, and a value that was read is not written.
Written(r, f) ==
  IF sess[r].typed[f] \in {Blank, sess[r].read[f]} THEN profile[sess[r].company][f] ELSE sess[r].typed[f]

SaveProfile(r) ==
  /\ sess[r].at = "save"
  /\ profile' = [profile EXCEPT ![sess[r].company] = [f \in Fields |-> Written(r, f)]]
  /\ sess' = [sess EXCEPT ![r] = Idle]
  /\ UNCHANGED <<users, companies, checks>>

-----------------------------------------------------------------------------

\* What a registration does without the user.
Proceed(r) ==
  \/ FindEmail(r) \/ FindSlug(r) \/ InsertCompany(r) \/ InsertUser(r)
  \/ CheckEdrpou(r) \/ CheckVies(r) \/ Commit(r)

Next ==
  \/ \E r \in Requests :
       \/ \E e \in Emails, n \in Names, ids \in Ids : Start(r, e, n, ids)
       \/ Proceed(r) \/ Abort(r)
       \/ \E e \in Emails, typed \in Texting : ReadProfile(r, e, typed)
       \/ SaveProfile(r)

Spec == Init /\ [][Next]_vars

-----------------------------------------------------------------------------
(* Properties.                                                             *)

\* Every user has a company of his own and every company its user: a registration that
\* fails at the user, at a registry or at the commit leaves no company behind, and the one
\* that loses the race for an email takes nothing from the one that wins.
OneOwner ==
  /\ \A e \in Emails : users[e] # NoSlug => companies[users[e]].owner = e
  /\ \A s \in Slugs : Taken(s) => users[companies[s].owner] = s

\* Slugs of one name are numbered without a gap, also if one is the slug of another name.
NumberedInOrder ==
  \A s \in Slugs : Taken(s) =>
    LET c == companies[s]
    IN  /\ s = Candidate(c.name, c.tries)
        /\ \A k \in 0..(c.tries - 1) : Taken(Candidate(c.name, k))

\* The score is what the stored checks add up to, and the badge stands for a company found
\* active in the Ukrainian registry: the points of the VAT registry alone are not enough.
BadgeNeedsRegistry ==
  \A s \in Slugs :
    /\ companies[s].score = Delta("edrpou", checks[s]["edrpou"]) + Delta("vies", checks[s]["vies"])
    /\ companies[s].verified <=> checks[s]["edrpou"] = "passed"

\* A registration never changes a user, a company or a check that is there.
TakesNothingOver ==
  \A e \in Emails : users[e] # NoSlug =>
    /\ users'[e] = users[e]
    /\ companies'[users[e]] = companies[users[e]]
    /\ checks'[users[e]] = checks[users[e]]
NothingTakenOver == [][TakesNothingOver]_vars

\* A profile field that was filled in is never blank again, however stale the form.
KeepsFilled ==
  \A s \in Slugs, f \in Fields : profile[s][f] # Blank => profile'[s][f] # Blank
FilledStays == [][KeepsFilled]_vars

WaitsFor(r, q) ==
  /\ q # r
  /\ \/ sess[r].at = "company" /\ HasCompany(q) /\ slug(q) = slug(r)
     \/ sess[r].at = "user" /\ HasUser(q) /\ sess[q].email = sess[r].email

\* Registrations never wait for each other in a circle, of any length: among any that are in
\* flight there is one that waits for none of the others, for a slug or for an email, although
\* register_submit inserts two keys and waits for the second while it holds the first.
NoCircularWait ==
  \A S \in SUBSET Requests : S # {} => \E r \in S : \A q \in S : ~WaitsFor(r, q)

Book ==
  INSTANCE AccountBook WITH Emails <- Emails, Names <- Names, Candidate <- Candidate,
                            Slugs <- Slugs, MaxTries <- MaxTries, Fields <- Fields,
                            Texts <- Texts, Blank <- Blank, NoSlug <- NoSlug,
                            NoEmail <- NoEmail, users <- users,
                            owner <- [s \in Slugs |-> companies[s].owner],
                            badge <- {s \in Slugs : companies[s].verified},
                            profile <- profile

\* The searches, inserts, waits and registry checks of overlapping registrations amount to one
\* step each: the slug found long before the commit is still the first free one of its name.
KeepsBook == Book!Spec

\* The strengthening that makes these inductive.  The keys a registration has inserted are
\* free in the committed rows and nobody else's; the numbers it skipped are taken for good;
\* its points are those of the checks made so far.
Registering(r) == sess[r].at \notin {"idle", "save"}

Fits(r) ==
  LET g == sess[r]
  IN  /\ HasCompany(r) => ~Taken(slug(r))
      /\ HasUser(r) => users[g.email] = NoSlug
      /\ Registering(r) =>
           /\ \A k \in 0..(g.tries - 1) : Taken(Candidate(g.name, k))
           /\ g.delta = Delta("edrpou", g.checks["edrpou"]) + Delta("vies", g.checks["vies"])
           /\ g.at \notin {"vies", "commit"} => g.checks["edrpou"] = "unchecked"
           /\ g.at # "commit" => g.checks["vies"] = "unchecked"

Apart(q, r) ==
  /\ HasCompany(q) /\ HasCompany(r) => slug(q) # slug(r)
  /\ HasUser(q) /\ HasUser(r) => sess[q].email # sess[r].email

AccountInv ==
  /\ TypeOK /\ OneOwner /\ NumberedInOrder /\ BadgeNeedsRegistry
  /\ \A r \in Requests : Fits(r)
  /\ \A q, r \in Requests : q # r => Apart(q, r)
=============================================================================
