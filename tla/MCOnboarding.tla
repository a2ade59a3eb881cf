------------------------------ MODULE MCOnboarding ------------------------------
(****************************************************************************)
(* Small instances of Onboarding for TLC: what clients submit and what      *)
(* deployments are configured with.                                         *)
(****************************************************************************)
EXTENDS Onboarding, TLC

CONSTANTS e1, e2, p1, p2, x1, x2, r1, r2, d1, d2

Person(e, p)    == [email |-> e, phone |-> p, password |-> x1]
Admin(e, p, x, b) == [email |-> e, phone |-> p, password |-> x, opening |-> b]

(* Customers who share a telephone number or an e-mail, and their retries;  *)
(* the administrator e2 with two configurations, one of which has the       *)
(* number of a customer, and another administrator who wants the number of  *)
(* the first.                                                               *)
Forms        == {Person(e1, p1), Person(e2, p1), Person(e2, p2)}
Environments == {Admin(e2, p2, x1, 1), Admin(e2, p1, x2, 0), Admin(e1, p2, x1, 0)}

(* Screening: the seed only competes for the number p1.                     *)
Customers == {Person(e1, p1), Person(e2, p1)}
OneAdmin  == {Admin(e2, p1, x1, 0)}

Symmetric == Permutations(Registration) \cup Permutations(Deploy)
================================================================================
