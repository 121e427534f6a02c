------------------------ MODULE MCCourseRegistration ------------------------
(* Small instances of CourseRegistration for TLC. *)
EXTENDS CourseRegistration, TLC

CONSTANTS s1, s2, s3, s4, o1, o2

c(op, s, o) == [op |-> op, student |-> s, offering |-> o]
entry(s, o, n) == [student |-> s, offering |-> o, created_at |-> n]

(* o1 and o2 meet on Mondays for an hour in common.                        *)
Hours == [o \in Offerings |->
    IF o = o1 THEN [days |-> {"M", "W"}, start_time |-> 9, end_time |-> 11]
              ELSE [days |-> {"M"}, start_time |-> 10, end_time |-> 12]]

(* Two seats in o1, taken by s1 and s2; s3 and then s4 wait.  o2 has one   *)
(* free seat.                                                              *)
TwoSeats == o1 :> 2 @@ o2 :> 1
FullOne == {<<s1, o1>>, <<s2, o1>>}
TwoWait == {entry(s3, o1, 1), entry(s4, o1, 2)}

(* Drops side by side, and what keeps a queued student busy meanwhile.     *)
SeatCalls ==
    { c("drop", s1, o1), c("drop", s2, o1), c("join", s1, o1), c("register", s1, o1),
      c("register", s3, o1), c("register", s3, o2), c("join", s3, o1), c("leave", s3, o1),
      c("join", s3, o2), c("register", s4, o2) }

(* One seat in o1, taken by s1; s2 waits, s3 is not in the queue.          *)
OneSeat == o1 :> 1
FullByOne == {<<s1, o1>>}
OneWaits == {entry(s2, o1, 1)}
QueueCalls ==
    { c("drop", s1, o1), c("join", s1, o1), c("register", s2, o2), c("leave", s2, o1),
      c("register", s3, o1), c("join", s3, o1), c("leave", s3, o1) }

(* Every kind of wait once: for a student, for a section, past a candidate.*)
WaitingCalls == { c("drop", s1, o1), c("join", s3, o1), c("register", s2, o2),
                  c("leave", s2, o1), c("drop", s2, o1) }

Symmetry == Permutations(Requests)
=============================================================================
