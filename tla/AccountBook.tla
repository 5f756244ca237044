---------------------------- MODULE AccountBook ----------------------------
(***************************************************************************)
(* What registration and the profile form promise their readers: an account *)
(* comes in at one moment, user and company together, under the first       *)
(* number of its name that is free at that moment.  It never goes or        *)
(* changes hands, its badge is settled, and its profile is only filled in.  *)
(***************************************************************************)
EXTENDS Naturals

CONSTANTS Emails, Names, Candidate(_, _), Slugs, MaxTries, Fields, Texts, Blank, NoSlug, NoEmail

VARIABLES
  users,   \* the company of each email, NoSlug without one
  owner,   \* the email of each company, NoEmail without one
  badge,   \* the companies that are verified
  profile  \* the text fields of each company

book == <<users, owner, badge, profile>>

Init ==
  /\ users = [e \in Emails |-> NoSlug]
  /\ owner = [s \in Slugs |-> NoEmail]
  /\ badge = {}
  /\ profile = [s \in Slugs |-> [f \in Fields |-> Blank]]

Taken(s) == owner[s] # NoEmail

Register(e, n, k) ==
  LET s == Candidate(n, k)
  IN  /\ users[e] = NoSlug
      /\ ~Taken(s) /\ \A j \in 0..(k - 1) : Taken(Candidate(n, j))
      /\ users' = [users EXCEPT ![e] = s]
      /\ owner' = [owner EXCEPT ![s] = e]
      /\ badge' \in {badge, badge \cup {s}}
      /\ UNCHANGED profile

\* Each field is left as it is or written with a text.
FillIn(s) ==
  /\ Taken(s)
  /\ \E page \in [Fields -> Texts \cup {Blank}] :
       /\ \A f \in Fields : page[f] # profile[s][f] => page[f] \in Texts
       /\ profile' = [profile EXCEPT ![s] = page]
  /\ UNCHANGED <<users, owner, badge>>

Next ==
  \/ \E e \in Emails, n \in Names, k \in 0..MaxTries : Register(e, n, k)
  \/ \E s \in Slugs : FillIn(s)

Spec == Init /\ [][Next]_book
=============================================================================
