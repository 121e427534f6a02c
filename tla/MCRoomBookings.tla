-------------------------- MODULE MCRoomBookings --------------------------
(* Small instances of RoomBookings for TLC. *)
EXTENDS RoomBookings, TLC

CONSTANTS u1, u2, r1, r2, q1

OneAdmin == [u \in Users |-> IF u = u1 THEN "STUDENT" ELSE "ADMIN"]

(* Two holds for a student, one for anybody else. *)
TwoForStudents == {[role \in Role |-> IF role = "STUDENT" THEN 2 ELSE 1]}

(* w1 and w3 are adjacent, w2 overlaps both. *)
w1 == [start |-> 0, end |-> 2]
w2 == [start |-> 1, end |-> 3]
w3 == [start |-> 2, end |-> 4]
ThreeWindows == {w1, w2, w3}

reserve(u, r, w) == [op |-> "reserve", user |-> u, room |-> r, window |-> w]
cancel(u, r, q) == [op |-> "cancel", user |-> u, room |-> r, reservation |-> q]
update(r, s) == [op |-> "update", room |-> r, status |-> s]

(* One student books two rooms; an admin competes for adjacent and for     *)
(* clashing slots of the first, releases for the student, and blocks and   *)
(* unblocks the second, which is made during the run.                      *)
RoomCalls ==
    { reserve(u1, r1, w1), reserve(u1, r2, w3), reserve(u2, r1, w2), reserve(u2, r1, w3),
      update(r2, "BLOCKED"), update(r2, "AVAILABLE"), update(r2, "NULL"),
      cancel(u1, r1, q1), cancel(u2, r1, q1) }

RaceCalls == { reserve(u1, r1, w1), reserve(u2, r1, w1) }
=============================================================================
