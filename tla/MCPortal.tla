------------------------------ MODULE MCPortal ------------------------------
(* A small instance of Portal for TLC: one browser, the seeded admin and   *)
(* student, an e-mail nobody has registered yet.                           *)
EXTENDS Portal, TLC

CONSTANTS b1, admin, student, e1, e2, e3, p1, p2, c1, c2

Seeded == admin :> [email |-> e1, role |-> "ADMIN"] @@ student :> [email |-> e2, role |-> "STUDENT"]

(* p1 has a policy, p2 has none. *)
OnePolicy == p1 :> 2

(* c2 is another spelling of c1. *)
OneCode == [c \in Codes |-> c1]

(* Nobody signed in, or the student since before. *)
Sessions == [Browsers -> {None, student}]
=============================================================================
