----------------------------- MODULE MCAccounts -----------------------------
(* Instances of Accounts for TLC.                                          *)
EXTENDS Accounts, TLC

CONSTANTS e1, e2, n1, n2, f1, t1, r1, r2

\* Slugs are numbers: the second name is the first one with -1 ("Acme" and "Acme 1").
TwoNames(n, k) == IF n = n1 THEN k ELSE IF k = 0 THEN 1 ELSE 10 + k

\* Both numbers are typed in, or none.
AllOrNone == {{}, CheckType}

\* Emails and slots are interchangeable; names are not.
SlotSymmetry == Permutations(Emails) \cup Permutations(Requests)
=============================================================================
