-------------------------- MODULE CourseLedgerProofs --------------------------
(***************************************************************************)
(* CourseRegistration implements SeatLedger: every COMMIT is one step of   *)
(* the ledger and every other statement leaves what it shows as it was.    *)
(***************************************************************************)
EXTENDS CourseRegistrationProofs

(* What the tables show of the ledger (the substitution of Ledger).        *)
ShownCapacity == [o \in Offerings |-> IF Exists(o) THEN offerings[o].capacity ELSE None]
ShownSeats == { p \in Students \X Offerings : enrollments[p] = "ACTIVE" }
ShownQueue == { <<e.student, e.offering>> : e \in waitlist }
MeetingPairs == { p \in Offerings \X Offerings : Clashes(p[1], p[2]) }

LEMMA TakenIsSeated == \A o \in Offerings : Ledger!Taken(o) = Cardinality(Seated(o))
<1>1. \A S : Ledger!Cardinality(S) = Cardinality(S)
  BY DEF Ledger!Cardinality, Cardinality
<1> SUFFICES ASSUME NEW o \in Offerings PROVE Ledger!Taken(o) = Cardinality(Seated(o))
  OBVIOUS
<1>2. { s \in Students : <<s, o>> \in ShownSeats } = Seated(o)
  BY DEF ShownSeats, Seated, Enrolled
<1> QED
  BY <1>1, <1>2 DEF Ledger!Taken, ShownSeats

LEMMA MayTakeIsMaySit ==
    ASSUME NEW q, NEW s \in Students, NEW o \in Offerings, MayTake(q, s, o)
    PROVE  Ledger!MaySit(s, o)
<1>1. <<s, o>> \notin ShownSeats
  BY DEF MayTake, ShownSeats, Enrolled
<1>2. \A p \in Offerings : <<s, p>> \in ShownSeats => <<p, o>> \notin MeetingPairs
  BY DEF MayTake, conflicting_offering, ShownSeats, MeetingPairs, Enrolled
<1> QED
  BY <1>1, <1>2 DEF Ledger!MaySit, ShownSeats, MeetingPairs

(* A row is in ShownQueue when the student waits for the section.          *)
LEMMA QueuedIsShown ==
    \A s \in Students, o \in Offerings : Queued(s, o) <=> <<s, o>> \in ShownQueue
BY DEF Queued, EntriesOf, ShownQueue

LEMMA InvIsLedgerInit == CourseInv => Ledger!Init
<1> SUFFICES ASSUME CourseInv PROVE Ledger!Init
  OBVIOUS
<1> USE DEF CourseInv
<1>1. /\ offerings \in [Offerings -> OfferingRow \cup {None}]
      /\ waitlist \subseteq Entry
  BY DEF Typed, TypeOK
<1>2. ShownCapacity \in [Offerings -> Nat \cup {None}]
  BY <1>1 DEF ShownCapacity, Exists, OfferingRow
<1>3. \A o \in Offerings : Exists(o) => ShownCapacity[o] # None
  BY <1>1, SentinelsApart DEF ShownCapacity, Exists, OfferingRow
<1>4. \A o \in Offerings : ShownCapacity[o] # None =>
         Exists(o) /\ ShownCapacity[o] = offerings[o].capacity
  BY DEF ShownCapacity
<1>5. ShownSeats \subseteq { p \in Students \X Offerings : ShownCapacity[p[2]] # None }
  BY <1>3 DEF ShownSeats, Counted, Enrolled
<1>6. ShownQueue \subseteq Students \X Offerings
  BY <1>1 DEF ShownQueue, Entry
<1>7. ShownQueue \subseteq { p \in Students \X Offerings : ShownCapacity[p[2]] # None }
  BY <1>3, <1>6, QueuedIsShown DEF Counted
<1>8. ShownSeats \cap ShownQueue = {}
  BY QueuedIsShown DEF ShownSeats, OneClaim, Enrolled
<1>9. \A o \in Offerings : ShownCapacity[o] # None => Ledger!Taken(o) <= ShownCapacity[o]
  BY <1>4, TakenIsSeated DEF Counted
<1>10. \A p, r \in ShownSeats : p[1] = r[1] => <<p[2], r[2]>> \notin MeetingPairs
  BY DEF ShownSeats, MeetingPairs, NoScheduleClash, Enrolled
<1> QED
  BY <1>2, <1>5, <1>7, <1>8, <1>9, <1>10
     DEF Ledger!Init, ShownCapacity, ShownSeats, ShownQueue, MeetingPairs

(* A COMMIT moves a counter, never a capacity.                             *)
LEMMA CapacityKept ==
    ASSUME NEW o \in Offerings, Exists(o), Exists(o)',
           offerings'[o].capacity = offerings[o].capacity,
           \A r \in Offerings : r # o => offerings'[r] = offerings[r]
    PROVE  ShownCapacity' = ShownCapacity
<1>1. ASSUME NEW r \in Offerings
      PROVE  (IF Exists(r) THEN offerings[r].capacity ELSE None)' =
              IF Exists(r) THEN offerings[r].capacity ELSE None
  BY DEF Exists
<1> QED
  BY <1>1 DEF ShownCapacity

LEMMA RegisterIsTake ==
    ASSUME CourseInv, NEW q \in Requests, RegisterCommit(q)
    PROVE  \E s \in Students, o \in Offerings : Ledger!Take(s, o)
<1> USE DEF CourseInv
<1>1. PICK s \in Students, o \in Offerings : SeatTakenBy(q, s, o)
  BY SeatTaken
<1>2. ShownCapacity' = ShownCapacity
  <2>1. /\ Exists(o) /\ Exists(o)' /\ offerings'[o].capacity = offerings[o].capacity
        /\ \A r \in Offerings : r # o => offerings'[r] = offerings[r]
    BY <1>1, RegisterWrites, SentinelsApart DEF Exists, SeatTakenBy
  <2> QED
    BY <2>1, CapacityKept
<1>3. ShownSeats' = ShownSeats \cup {<<s, o>>}
  BY <1>1 DEF ShownSeats, SeatTakenBy, Enrolled
<1>4. waitlist \subseteq Entry
  BY DEF Typed, TypeOK
<1>5. ShownQueue' = ShownQueue \ {<<s, o>>}
  BY <1>1, <1>4 DEF ShownQueue, SeatTakenBy
<1>6. ShownCapacity[o] # None /\ ~Ledger!Full(o)
  <2>1. ShownCapacity[o] = offerings[o].capacity /\ offerings[o].capacity \in Nat
    BY <1>1 DEF ShownCapacity, SeatTakenBy, OfferingRow
  <2>2. Ledger!Taken(o) < ShownCapacity[o] /\ Ledger!Taken(o) \in Nat
    BY <1>1, <2>1, TakenIsSeated, SeatedFinite DEF Counted, SeatTakenBy, SeatFree
  <2>3. ~(Ledger!Taken(o) >= ShownCapacity[o])
    BY <2>1, <2>2
  <2> QED
    BY <2>1, <2>3, SentinelsApart DEF Ledger!Full, ShownCapacity
<1>7. Ledger!MaySit(s, o)
  BY <1>1, MayTakeIsMaySit DEF SeatTakenBy
<1>8. Ledger!Take(s, o)
  BY <1>2, <1>3, <1>5, <1>6, <1>7 DEF Ledger!Take, ShownCapacity, ShownSeats, ShownQueue
<1> QED
  BY <1>8

LEMMA DropIsGiveOrHand ==
    ASSUME CourseInv, NEW q \in Requests, DropCommit(q)
    PROVE  \/ \E s \in Students, o \in Offerings : Ledger!Give(s, o)
           \/ \E s \in Students, t \in Students, o \in Offerings : Ledger!Hand(s, t, o)
<1> USE DEF CourseInv
<1>1. PICK s \in Students, t \in Students \cup {None}, o \in Offerings :
         SeatMovedBy(q, s, t, o)
  BY SeatMoved
<1>2. ShownCapacity' = ShownCapacity
  <2>1. /\ Exists(o) /\ Exists(o)' /\ offerings'[o].capacity = offerings[o].capacity
        /\ \A r \in Offerings : r # o => offerings'[r] = offerings[r]
    BY <1>1, DropWrites, SentinelsApart DEF Exists, SeatMovedBy
  <2> QED
    BY <2>1, CapacityKept
<1>3. <<s, o>> \in ShownSeats
  BY <1>1 DEF ShownSeats, SeatMovedBy, Enrolled
<1>4. waitlist \subseteq Entry
  BY DEF Typed, TypeOK
<1>5. CASE t = None
  <2>1. ShownSeats' = ShownSeats \ {<<s, o>>}
    BY <1>1, <1>5, SentinelsApart DEF ShownSeats, SeatMovedBy, Enrolled
  <2>2. \A e \in waitlist : e.student # None
    BY <1>4, SentinelsApart DEF Entry
  <2>3. waitlist' = waitlist
    BY <1>1, <1>5, <2>2 DEF SeatMovedBy
  <2>4. Ledger!Give(s, o)
    BY <1>2, <1>3, <2>1, <2>3 DEF Ledger!Give, ShownCapacity, ShownSeats
  <2> QED
    BY <2>4
<1>6. CASE t # None
  <2>1. t \in Students
    BY <1>6
  <2>2. ShownSeats' = (ShownSeats \ {<<s, o>>}) \cup {<<t, o>>}
    BY <1>1, <1>6 DEF ShownSeats, SeatMovedBy, Enrolled
  <2>3. ShownQueue' = ShownQueue \ {<<t, o>>}
    BY <1>1, <1>4 DEF ShownQueue, SeatMovedBy
  <2>4. <<t, o>> \in ShownQueue
    BY <1>1, <1>6, <2>1, QueuedIsShown DEF SeatMovedBy
  <2>5. Ledger!MaySit(t, o)
    BY <1>1, <1>6, <2>1, MayTakeIsMaySit DEF SeatMovedBy
  <2>6. Ledger!Hand(s, t, o)
    BY <1>2, <1>3, <2>2, <2>3, <2>4, <2>5
       DEF Ledger!Hand, ShownCapacity, ShownSeats, ShownQueue
  <2> QED
    BY <2>1, <2>6
<1> QED
  BY <1>5, <1>6

LEMMA JoinIsWait ==
    ASSUME CourseInv, NEW q \in Requests, JoinCommit(q)
    PROVE  \E s \in Students, o \in Offerings : Ledger!Wait(s, o)
<1> USE DEF CourseInv
<1>1. PICK s \in Students, o \in Offerings, e \in Entry :
         /\ s = call[q].student /\ o = call[q].offering
         /\ e = OwnEntry(q) /\ e.student = s /\ e.offering = o
         /\ Exists(o) /\ offerings[o] \in OfferingRow
  BY CallTyped, OwnEntryTyped DEF JoinCommit, InFlight
<1>2. ~Enrolled(s, o) /\ ~Queued(s, o) /\ ~SeatFree(offerings[o])
  BY <1>1 DEF JoinCommit, Decided
<1>3. waitlist' = waitlist \cup {e} /\ enrollments' = enrollments /\ offerings' = offerings
  BY <1>1 DEF JoinCommit
<1>4. ShownQueue' = ShownQueue \cup {<<s, o>>}
  BY <1>1, <1>3 DEF ShownQueue
<1>5. ShownCapacity' = ShownCapacity /\ ShownSeats' = ShownSeats
  BY <1>3 DEF ShownCapacity, ShownSeats, Exists
<1>6. <<s, o>> \notin ShownSeats \cup ShownQueue
  BY <1>2, QueuedIsShown DEF ShownSeats, Enrolled
<1>7. ShownCapacity[o] # None /\ Ledger!Full(o)
  <2>1. ShownCapacity[o] = offerings[o].capacity /\ offerings[o].capacity \in Nat
    BY <1>1 DEF ShownCapacity, OfferingRow
  <2>2. Ledger!Taken(o) >= ShownCapacity[o]
    BY <1>1, <1>2, <2>1, TakenIsSeated, SeatedFinite DEF Counted, SeatFree
  <2> QED
    BY <2>1, <2>2, SentinelsApart DEF Ledger!Full, ShownCapacity
<1>8. Ledger!Wait(s, o)
  BY <1>4, <1>5, <1>6, <1>7 DEF Ledger!Wait, ShownCapacity, ShownSeats, ShownQueue
<1> QED
  BY <1>8

LEMMA LeaveIsLeave ==
    ASSUME CourseInv, NEW q \in Requests, LeaveCommit(q)
    PROVE  \E s \in Students, o \in Offerings : Ledger!Leave(s, o)
<1> USE DEF CourseInv
<1>1. PICK s \in Students, o \in Offerings : s = call[q].student /\ o = call[q].offering
  BY CallTyped DEF LeaveCommit, InFlight
<1>2. Queued(s, o)
  BY <1>1 DEF LeaveCommit, Decided
<1>3. /\ waitlist' = waitlist \ EntriesOf(s, o)
      /\ enrollments' = enrollments /\ offerings' = offerings
  BY <1>1 DEF LeaveCommit
<1>4. ShownQueue' = ShownQueue \ {<<s, o>>}
  BY <1>3 DEF ShownQueue, EntriesOf
<1>5. ShownCapacity' = ShownCapacity /\ ShownSeats' = ShownSeats
  BY <1>3 DEF ShownCapacity, ShownSeats, Exists
<1>6. Ledger!Leave(s, o)
  BY <1>2, <1>4, <1>5, QueuedIsShown DEF Ledger!Leave, ShownCapacity, ShownSeats, ShownQueue
<1> QED
  BY <1>6

LEMMA CreateIsOpen ==
    ASSUME CourseInv, NEW o \in Offerings, NEW n \in Capacities, CreateOffering(o, n)
    PROVE  Ledger!Open(o)
<1>1. /\ offerings[o] = None /\ n \in Nat
      /\ offerings'[o].capacity = n /\ Exists(o)'
      /\ \A r \in Offerings : r # o => offerings'[r] = offerings[r]
      /\ enrollments' = enrollments /\ waitlist' = waitlist
  BY OpenedRow, PolicyTyped DEF CourseInv, CreateOffering
<1>2. ShownCapacity[o] = None /\ ShownCapacity'[o] = n
  BY <1>1 DEF ShownCapacity, Exists
<1>3. ShownCapacity' = [ShownCapacity EXCEPT ![o] = ShownCapacity'[o]]
  BY <1>1, <1>2 DEF ShownCapacity, Exists
<1>4. ShownSeats' = ShownSeats /\ ShownQueue' = ShownQueue
  BY <1>1 DEF ShownSeats, ShownQueue
<1> QED
  BY <1>1, <1>2, <1>3, <1>4 DEF Ledger!Open, ShownCapacity, ShownSeats, ShownQueue

LEMMA StepIsLedger ==
    ASSUME CourseInv, [Next]_vars
    PROVE  [Ledger!Next]_(Ledger!ledger)
<1>1. UNCHANGED tables => UNCHANGED Ledger!ledger
  BY DEF tables, Ledger!ledger, Exists
<1>2. ASSUME NEW q \in Requests, RegisterCommit(q) PROVE Ledger!Next
  BY <1>2, RegisterIsTake DEF Ledger!Next
<1>3. ASSUME NEW q \in Requests, DropCommit(q) PROVE Ledger!Next
  BY <1>3, DropIsGiveOrHand DEF Ledger!Next
<1>4. ASSUME NEW q \in Requests, JoinCommit(q) PROVE Ledger!Next
  BY <1>4, JoinIsWait DEF Ledger!Next
<1>5. ASSUME NEW q \in Requests, LeaveCommit(q) PROVE Ledger!Next
  BY <1>5, LeaveIsLeave DEF Ledger!Next
<1>6. ASSUME NEW o \in Offerings, NEW n \in Capacities, CreateOffering(o, n) PROVE Ledger!Next
  BY <1>6, CreateIsOpen DEF Ledger!Next
<1>7. ASSUME NEW n \in Limits, PutQuota(n) PROVE UNCHANGED Ledger!ledger
  BY <1>7 DEF PutQuota, Ledger!ledger, Exists
<1>8. UNCHANGED vars => UNCHANGED tables
  BY DEF vars, tables
<1>9. ASSUME NEW q \in Requests, NEW c \in Calls, Arrive(q, c) \/ ArriveNotFound(q, c)
      PROVE  UNCHANGED tables
  BY <1>9 DEF Arrive, ArriveNotFound
<1> QED
  BY <1>1, <1>2, <1>3, <1>4, <1>5, <1>6, <1>7, <1>8, <1>9, OnlyCommitsWrite
     DEF Next, Runs, Admin, Commits, CourseInv

(* What the service commits is the promise of SeatLedger: a seat is taken, *)
(* given back or handed on in one step, with nothing of it to be seen half *)
(* done, whatever the requests in between have read and locked.            *)
THEOREM CoursesImplementLedger == Spec => ImplementsLedger
<1>1. Init => Ledger!Init
  BY InitCourseInv, InvIsLedgerInit
<1> QED
  BY <1>1, StepIsLedger, CourseInvariant, PTL DEF Spec, ImplementsLedger
===============================================================================
