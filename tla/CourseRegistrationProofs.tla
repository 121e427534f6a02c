----------------------- MODULE CourseRegistrationProofs -----------------------
(***************************************************************************)
(* Theorems about CourseRegistration, for all sets of students, offerings  *)
(* and calls, any finite number of requests, every timetable and policy.   *)
(***************************************************************************)
EXTENDS CourseRegistration, FiniteSetTheorems, TLAPS

(***************************************************************************)
(* What a request knows at each of its statements.                         *)
(***************************************************************************)
Ops == [step \in Step |->
    CASE step = "gates" -> {"register"}
      [] step = "lockSeat" -> {"register", "drop"}
      [] step \in {"checkSeat", "promote"} -> {"drop"}
      [] step \in {"checkSeated", "position"} -> {"join"}
      [] step \in {"lockShare", "findEntry"} -> {"join", "leave"}
      [] step = "commit" -> {"register", "join", "leave"}
      [] step = "refresh" -> {"register", "drop", "join"}
      [] OTHER -> {"register", "drop", "join", "leave"}]

(* The statements that run under the offering's row lock.                  *)
WritesSeat(q) ==
    \/ pc[q] = "commit" /\ call[q].op = "register"
    \/ pc[q] \in {"checkSeat", "promote"}

ReadsSeat(q) ==
    \/ pc[q] = "commit" /\ call[q].op \in {"join", "leave"}
    \/ pc[q] = "findEntry"

SessionOK(q) ==
    /\ pc[q] = "idle" => call[q] = None
    /\ pc[q] # "idle" => call[q] \in Call
    /\ InFlight(q) => Exists(call[q].offering) /\ call[q].op \in Ops[pc[q]]
    /\ WritesSeat(q) => seen[q] \in OfferingRow
    /\ pc[q] # "promote" /\ ~(pc[q] = "refresh" /\ call[q].op = "drop") =>
          promoted[q] = None /\ todo[q] = {} /\ passed[q] = {}
    /\ pc[q] = "promote" /\ promoted[q] # None => todo[q] = {}
    /\ reply[q] # None => pc[q] = "done"

Typed == TypeOK /\ \A q \in Requests : SessionOK(q)

LEMMA SeedCount ==
    ASSUME NEW o \in Offerings
    PROVE  LET S == { s \in Students : <<s, o>> \in SeededSeats }
           IN  IsFiniteSet(S) /\ Cardinality(S) \in Nat
<1> DEFINE S == { s \in Students : <<s, o>> \in SeededSeats }
<1>1. IsFiniteSet(S)
  BY PopulationFinite, FS_Subset
<1> QED
  BY <1>1, FS_CardinalityType

LEMMA InitTyped == Init => Typed
<1> SUFFICES ASSUME Init PROVE Typed
  OBVIOUS
<1>1. offerings \in [Offerings -> OfferingRow \cup {None}]
  <2> DEFINE S(o) == { s \in Students : <<s, o>> \in SeededSeats }
  <2>1. ASSUME NEW o \in DOMAIN SeededCapacity
        PROVE  /\ Cardinality(S(o)) \in Nat
               /\ [capacity |-> SeededCapacity[o], enrolled_count |-> Cardinality(S(o))]
                     \in OfferingRow
    <3>1. o \in Offerings /\ SeededCapacity[o] \in Nat
      BY SeedTyped
    <3>2. Cardinality(S(o)) \in Nat
      BY <3>1, SeedCount
    <3> HIDE DEF S
    <3> QED
      BY <3>1, <3>2 DEF OfferingRow
  <2>2. offerings = [o \in Offerings |->
          IF o \in DOMAIN SeededCapacity
          THEN [capacity |-> SeededCapacity[o], enrolled_count |-> Cardinality(S(o))]
          ELSE None]
    BY DEF Init
  <2> HIDE DEF S
  <2> QED
    BY <2>1, <2>2
<1>2. enrollments \in [Students \X Offerings -> EnrollmentStatus \cup {None}]
  BY DEF Init, EnrollmentStatus
<1>3. TypeOK
  BY <1>1, <1>2, SeedTyped, PolicyTyped DEF Init, TypeOK, Step, Limit
<1>4. \A q \in Requests : SessionOK(q)
  BY DEF Init, SessionOK, WritesSeat, InFlight
<1> QED
  BY <1>3, <1>4 DEF Typed

-----------------------------------------------------------------------------
(* The kinds of step a request takes.                                      *)

Refused(q) == InFlight(q) /\ \E code \in Code : Refuse(q, code)

Reads(q) ==
    \/ RegisterAdmitted(q) \/ DropFrees(q) \/ CandidateBusy(q)
    \/ JoinNotSeated(q) \/ JoinFresh(q) \/ JoinReread(q) \/ LeaveFound(q)

Locks(q) ==
    \/ LockStudent(q) \/ RegisterLockSeat(q) \/ DropLockSeat(q)
    \/ CandidateUnfit(q) \/ CandidateSeated(q)
    \/ JoinLockShare(q) \/ LeaveLockShare(q)

Commits(q) ==
    RegisterCommit(q) \/ DropCommit(q) \/ JoinCommit(q) \/ LeaveCommit(q)

Runs(q) == Serve(q) \/ ConnectionLost(q)

LEMMA StepKinds ==
    ASSUME Typed, NEW q \in Requests, Runs(q)
    PROVE  Refused(q) \/ Reads(q) \/ Locks(q) \/ Commits(q)
<1> USE DEF Refused, InFlight, Code
<1>1. CASE RegisterRefused(q)
  <2>1. QuotaRefusal(call[q].student) \in {None, "QUOTA_NOT_CONFIGURED", "QUOTA_EXCEEDED"}
    BY DEF QuotaRefusal
  <2> QED
    BY <1>1, <2>1 DEF RegisterRefused
<1>2. CASE RegisterFull(q) \/ DropNothing(q) \/ JoinSeated(q) \/ JoinNotFull(q)
  BY <1>2 DEF RegisterFull, DropNothing, JoinSeated, JoinNotFull
<1>3. CASE JoinTwice(q) \/ JoinPosition(q) \/ JoinEntryGone(q) \/ LeaveNothing(q)
  BY <1>3 DEF JoinTwice, JoinPosition, JoinEntryGone, LeaveNothing
<1>4. CASE EnrollmentAnswer(q)
  BY <1>4 DEF EnrollmentAnswer, Refuse
<1>5. CASE ConnectionLost(q)
  BY <1>5 DEF ConnectionLost
<1> QED
  BY <1>1, <1>2, <1>3, <1>4, <1>5 DEF Runs, Serve, Reads, Locks, Commits

LEMMA RefusedTyped ==
    ASSUME Typed, NEW q \in Requests, Refused(q)
    PROVE  Typed'
<1> USE DEF Refused, Refuse, Answer, Forget, Goto, ReleaseAll, tables, InFlight
<1>1. TypeOK'
  BY DEF Typed, TypeOK, Step, Limit
<1>2. ASSUME NEW p \in Requests PROVE SessionOK(p)'
  BY DEF Typed, TypeOK, SessionOK, WritesSeat, Exists
<1> QED
  BY <1>1, <1>2 DEF Typed

LEMMA NowTyped == Now \in Nat
<1>1. Cardinality(SeededQueue) \in Nat
  BY SeedTyped, FS_CardinalityType
<1> DEFINE J == { q \in Requests : call[q] # None /\ call[q].op = "join" }
<1>2. IsFiniteSet(J)
  BY PopulationFinite, FS_Subset
<1>3. Cardinality(J) \in Nat
  BY <1>2, FS_CardinalityType
<1> QED
  BY <1>1, <1>3 DEF Now

LEMMA ArriveTyped ==
    ASSUME Typed, NEW q \in Requests, NEW c \in Calls, Arrive(q, c) \/ ArriveNotFound(q, c)
    PROVE  Typed'
<1> USE DEF Arrive, ArriveNotFound, Goto, tables, notes, promotion
<1>0. c \in Call /\ c.op \in {"register", "drop", "join", "leave"}
  BY CallsTyped DEF Call
<1>1. TypeOK'
  BY <1>0, NowTyped DEF Typed, TypeOK, Step, Code
<1>2. ASSUME NEW p \in Requests PROVE SessionOK(p)'
  BY <1>0 DEF Typed, TypeOK, SessionOK, WritesSeat, Exists, InFlight, Ops, Step
<1> QED
  BY <1>1, <1>2 DEF Typed

(* The enrollment a call names is an element of the table.                 *)
LEMMA CallTyped ==
    ASSUME Typed, NEW q \in Requests, InFlight(q)
    PROVE  /\ call[q] \in Call /\ call[q].student \in Students
           /\ call[q].offering \in Offerings /\ Exists(call[q].offering)
           /\ offerings[call[q].offering] \in OfferingRow
           /\ enrollments[<<call[q].student, call[q].offering>>]
                 \in EnrollmentStatus \cup {None}
BY DEF Typed, TypeOK, SessionOK, Call, Exists, InFlight

(* ORDER BY created_at has a first row.                                    *)
LEMMA OldestExists ==
    ASSUME NEW S \in SUBSET Entry, S # {}
    PROVE  OldestEntry(S) \in S /\ \A f \in S : OldestEntry(S).created_at <= f.created_at
<1> DEFINE T == { e.created_at : e \in S }
<1>1. T \subseteq Nat /\ T # {}
  BY DEF Entry
<1> DEFINE Less == { ss \in Nat \X Nat : ss[1] < ss[2] }
<1>0. IsWellFoundedOn(Less, Nat)
  BY NatLessThanWellFounded, Zenon DEF OpToRel
<1> HIDE DEF T, Less
<1>2. \E n \in T : \A m \in T : ~(<<m, n>> \in Less)
  BY <1>0, <1>1, WFMin
<1>3. PICK n \in T : \A m \in T : n <= m
  <2>1. ASSUME NEW m \in Nat, NEW n \in Nat, <<m, n>> \notin Less PROVE n <= m
    BY <2>1 DEF Less
  <2> QED
    BY <1>1, <1>2, <2>1
<1> USE DEF T
<1>4. \E e \in S : \A f \in S : e.created_at <= f.created_at
  BY <1>3
<1> QED
  BY <1>4 DEF OldestEntry

LEMMA NextEntryTyped ==
    ASSUME Typed, NEW q \in Requests, todo[q] # {}
    PROVE  /\ NextEntry(q) \in todo[q] /\ NextEntry(q) \in Entry
           /\ NextEntry(q).student \in Students
           /\ \A f \in todo[q] : NextEntry(q).created_at <= f.created_at
<1>1. todo[q] \in SUBSET Entry
  BY DEF Typed, TypeOK
<1> QED
  BY <1>1, OldestExists DEF NextEntry, Entry

(* A candidate not seated is recorded with its reason.                     *)
LEMMA PassOverTyped ==
    ASSUME Typed, NEW q \in Requests, NEW reason \in Reason, PassOver(q, reason),
           pc[q] = "promote", todo[q] # {}
    PROVE  /\ todo' \in [Requests -> SUBSET Entry]
           /\ passed' \in [Requests -> SUBSET (Students \X Reason)]
           /\ promoted[q] = None
           /\ \A p \in Requests : p # q => todo'[p] = todo[p] /\ passed'[p] = passed[p]
           /\ todo'[q] = todo[q] \ {NextEntry(q)}
           /\ passed'[q] = passed[q] \cup {<<NextEntry(q).student, reason>>}
<1>1. <<NextEntry(q).student, reason>> \in Students \X Reason
  BY NextEntryTyped
<1>2. promoted[q] = None
  BY DEF Typed, SessionOK
<1> QED
  BY <1>1, <1>2 DEF PassOver, Typed, TypeOK

LEMMA ReasonTyped == \A s, o : WhyNot(s, o) \in {None, "SEATED", "QUOTA", "CLASH"}
BY DEF WhyNot

LEMMA ReadTyped ==
    ASSUME Typed, NEW q \in Requests, Reads(q)
    PROVE  Typed'
<1> USE DEF Goto, tables, notes, promotion
<1>1. CASE CandidateBusy(q)
  <2>1. /\ pc[q] = "promote" /\ todo[q] # {} /\ PassOver(q, "BUSY") /\ locks' = locks
        /\ "BUSY" \in Reason
    BY <1>1 DEF CandidateBusy, Reason
  <2>2. TypeOK'
    BY <2>1, PassOverTyped DEF Typed, TypeOK, PassOver
  <2>3. ASSUME NEW p \in Requests PROVE SessionOK(p)'
    BY <2>1, PassOverTyped
       DEF PassOver, Typed, TypeOK, SessionOK, WritesSeat, Exists, InFlight
  <2> QED
    BY <2>2, <2>3 DEF Typed
<1>2. CASE DropFrees(q)
  <2> USE CallTyped DEF DropFrees, InFlight
  <2>0. Candidates(call[q].offering) \subseteq Entry
    BY DEF Typed, TypeOK, Candidates, Queue
  <2>1. TypeOK'
    BY <1>2, <2>0 DEF Typed, TypeOK, Step, EnrollmentStatus
  <2>2. ASSUME NEW p \in Requests PROVE SessionOK(p)'
    BY <1>2 DEF Typed, TypeOK, SessionOK, WritesSeat, Exists, Ops, Step
  <2> QED
    BY <2>1, <2>2 DEF Typed
<1>3. CASE RegisterAdmitted(q)
  <2> USE CallTyped DEF RegisterAdmitted, InFlight
  <2>1. TypeOK'
    BY <1>3 DEF Typed, TypeOK, Step
  <2>2. ASSUME NEW p \in Requests PROVE SessionOK(p)'
    BY <1>3 DEF Typed, TypeOK, SessionOK, WritesSeat, Exists, Ops, Step
  <2> QED
    BY <2>1, <2>2 DEF Typed
<1>4. CASE JoinNotSeated(q) \/ JoinFresh(q) \/ JoinReread(q) \/ LeaveFound(q)
  <2>0. PICK to \in {"lockShare", "commit", "position"} :
           /\ pc' = [pc EXCEPT ![q] = to] /\ pc[q] \in {"checkSeated", "findEntry", "refresh"}
           /\ to \in {"lockShare", "position"} => call[q].op = "join"
           /\ to = "commit" => call[q].op \in {"join", "leave"}
           /\ to = "position" => pc[q] = "refresh"
           /\ UNCHANGED <<tables, locks, call, notes, reply>>
    BY <1>4 DEF JoinNotSeated, JoinFresh, JoinReread, LeaveFound, Typed, SessionOK, InFlight,
                Ops, Step
  <2>1. TypeOK'
    BY <2>0 DEF Typed, TypeOK, Step
  <2>2. ASSUME NEW p \in Requests PROVE SessionOK(p)'
    <3>1. CASE p # q
      BY <2>0, <3>1 DEF Typed, TypeOK, SessionOK, WritesSeat, Exists, InFlight
    <3>2. CASE p = q
      BY <2>0, <3>2 DEF Typed, TypeOK, SessionOK, WritesSeat, Exists, InFlight, Ops, Step
    <3> QED
      BY <3>1, <3>2
  <2> QED
    BY <2>1, <2>2 DEF Typed
<1> QED
  BY <1>1, <1>2, <1>3, <1>4 DEF Reads

-----------------------------------------------------------------------------
(* Lock statements.                                                        *)

LEMMA RowsLocked ==
    /\ \A s \in Students : UserRow(s) \in LockRow
    /\ \A o \in Offerings : SeatRow(o) \in LockRow
BY DEF UserRow, SeatRow, LockRow

LEMMA GrantTyped ==
    ASSUME TypeOK, NEW q \in Requests, NEW row \in LockRow, NEW mode \in LockMode,
           Lock(q, row, mode)
    PROVE  locks' \subseteq [tx : Requests, row : LockRow, mode : LockMode]
BY DEF TypeOK, Lock, Grant

(* The one statement that q executes, with the row and the mode it asks.   *)
LEMMA LockTaken ==
    ASSUME Typed, NEW q \in Requests, Locks(q)
    PROVE  \E row \in LockRow, mode \in LockMode : Lock(q, row, mode)
<1> USE RowsLocked, CallTyped, NextEntryTyped DEF LockMode, InFlight
<1>1. CASE LockStudent(q)
  BY <1>1 DEF LockStudent
<1>2. CASE RegisterLockSeat(q) \/ DropLockSeat(q)
  BY <1>2 DEF RegisterLockSeat, DropLockSeat, LockSeat
<1>3. CASE CandidateUnfit(q) \/ CandidateSeated(q)
  BY <1>3 DEF CandidateUnfit, CandidateSeated, LockCandidate
<1>4. CASE JoinLockShare(q) \/ LeaveLockShare(q)
  BY <1>4 DEF JoinLockShare, LeaveLockShare, LockShare
<1> QED
  BY <1>1, <1>2, <1>3, <1>4 DEF Locks

LEMMA LockTyped ==
    ASSUME Typed, NEW q \in Requests, Locks(q)
    PROVE  Typed'
<1> USE DEF Goto, tables, notes, promotion
<1>0. locks' \subseteq [tx : Requests, row : LockRow, mode : LockMode]
  BY LockTaken, GrantTyped DEF Typed
<1>1. CASE LockStudent(q)
  <2>0. pc[q] = "lockStudent" /\ call[q] \in Call
        /\ call[q].op \in {"register", "drop", "join", "leave"}
    BY <1>1, CallTyped DEF LockStudent, InFlight, Call
  <2>1. TypeOK'
    BY <1>0, <1>1, <2>0 DEF LockStudent, AfterStudent, Typed, TypeOK, Step
  <2>2. ASSUME NEW p \in Requests PROVE SessionOK(p)'
    <3>1. PICK to \in {"gates", "lockSeat", "checkSeated", "lockShare"} :
             pc' = [pc EXCEPT ![q] = to] /\ call[q].op \in Ops[to]
      <4>1. pc' = [pc EXCEPT ![q] = AfterStudent[call[q].op]]
        BY <1>1 DEF LockStudent
      <4>2. CASE call[q].op = "register"
        BY <4>1, <4>2 DEF AfterStudent, Ops, Step
      <4>3. CASE call[q].op = "drop"
        BY <4>1, <4>3 DEF AfterStudent, Ops, Step
      <4>4. CASE call[q].op = "join"
        BY <4>1, <4>4 DEF AfterStudent, Ops, Step
      <4>5. CASE call[q].op = "leave"
        BY <4>1, <4>5 DEF AfterStudent, Ops, Step
      <4> QED
        BY <2>0, <4>2, <4>3, <4>4, <4>5
    <3>2. UNCHANGED <<offerings, call, seen, todo, passed, promoted, reply>>
      BY <1>1 DEF LockStudent
    <3>3. pc'[p] = IF p = q THEN to ELSE pc[p]
      BY <3>1 DEF Typed, TypeOK
    <3> QED
      BY <2>0, <3>1, <3>2, <3>3 DEF Typed, SessionOK, WritesSeat, Exists, InFlight
  <2> QED
    BY <2>1, <2>2 DEF Typed
<1>2. CASE RegisterLockSeat(q) \/ DropLockSeat(q)
  <2>0. PICK to \in {"commit", "checkSeat"} :
           /\ pc' = [pc EXCEPT ![q] = to] /\ pc[q] = "lockSeat"
           /\ to = "commit" => call[q].op = "register"
           /\ to = "checkSeat" => call[q].op = "drop"
           /\ seen' = [seen EXCEPT ![q] = offerings[call[q].offering]]
           /\ offerings[call[q].offering] \in OfferingRow
           /\ UNCHANGED <<tables, call, began, existing, limitRead, promotion, reply>>
    BY <1>2, CallTyped DEF RegisterLockSeat, DropLockSeat, LockSeat, InFlight
  <2>1. TypeOK'
    BY <1>0, <2>0 DEF Typed, TypeOK, Step
  <2>2. ASSUME NEW p \in Requests PROVE SessionOK(p)'
    BY <2>0 DEF Typed, TypeOK, SessionOK, WritesSeat, Exists, InFlight, Ops, Step
  <2> QED
    BY <2>1, <2>2 DEF Typed
<1>3. CASE CandidateUnfit(q)
  <2>1. PICK reason \in Reason : PassOver(q, reason)
    BY <1>3, ReasonTyped DEF CandidateUnfit, Reason
  <2>2. pc[q] = "promote" /\ todo[q] # {}
    BY <1>3 DEF CandidateUnfit
  <2>3. TypeOK'
    BY <1>0, <2>1, <2>2, PassOverTyped DEF Typed, TypeOK, PassOver
  <2>4. ASSUME NEW p \in Requests PROVE SessionOK(p)'
    BY <2>1, <2>2, PassOverTyped
       DEF PassOver, Typed, TypeOK, SessionOK, WritesSeat, Exists, InFlight
  <2> QED
    BY <2>3, <2>4 DEF Typed
<1>4. CASE CandidateSeated(q)
  <2>1. pc[q] = "promote" /\ todo[q] # {}
    BY <1>4 DEF CandidateSeated
  <2>2. TypeOK'
    BY <1>0, <1>4, <2>1, NextEntryTyped DEF CandidateSeated, Typed, TypeOK
  <2>3. ASSUME NEW p \in Requests PROVE SessionOK(p)'
    BY <1>4, <2>1
       DEF CandidateSeated, Typed, TypeOK, SessionOK, WritesSeat, Exists, InFlight
  <2> QED
    BY <2>2, <2>3 DEF Typed
<1>5. CASE JoinLockShare(q) \/ LeaveLockShare(q)
  <2> USE DEF JoinLockShare, LeaveLockShare, LockShare
  <2>1. TypeOK'
    BY <1>0, <1>5 DEF Typed, TypeOK, Step
  <2>2. ASSUME NEW p \in Requests PROVE SessionOK(p)'
    BY <1>5 DEF Typed, TypeOK, SessionOK, WritesSeat, Exists, InFlight, Ops, Step
  <2> QED
    BY <2>1, <2>2 DEF Typed
<1> QED
  BY <1>1, <1>2, <1>3, <1>4, <1>5 DEF Locks

-----------------------------------------------------------------------------
(* COMMITs, row by row.                                                    *)

(* An UPDATE of the counter leaves the capacity and the other rows alone.  *)
LEMMA CountWritten ==
    ASSUME Typed, NEW o \in Offerings, offerings[o] \in OfferingRow, NEW n \in Int,
           offerings' = [offerings EXCEPT ![o].enrolled_count = n]
    PROVE  /\ offerings' \in [Offerings -> OfferingRow \cup {None}]
           /\ offerings'[o] \in OfferingRow
           /\ offerings'[o].enrolled_count = n
           /\ offerings'[o].capacity = offerings[o].capacity
           /\ \A r \in Offerings : r # o => offerings'[r] = offerings[r]
<1>1. offerings \in [Offerings -> OfferingRow \cup {None}]
  BY DEF Typed, TypeOK
<1> DEFINE row == [offerings[o] EXCEPT !.enrolled_count = n]
<1>2. /\ row \in OfferingRow /\ row.enrolled_count = n
      /\ row.capacity = offerings[o].capacity
  BY DEF OfferingRow
<1>3. offerings' = [offerings EXCEPT ![o] = row]
  OBVIOUS
<1> HIDE DEF row
<1> QED
  BY <1>1, <1>2, <1>3

LEMMA RegisterWrites ==
    ASSUME Typed, NEW q \in Requests, RegisterCommit(q)
    PROVE  LET s == call[q].student  o == call[q].offering IN
           /\ pc[q] = "commit" /\ call[q].op = "register"
           /\ s \in Students /\ o \in Offerings
           /\ enrollments' \in [Students \X Offerings -> EnrollmentStatus \cup {None}]
           /\ \A t \in Students, r \in Offerings :
                 Enrolled(t, r)' <=> (Enrolled(t, r) \/ (t = s /\ r = o))
           /\ \A t \in Students, r \in Offerings :
                 t # s \/ r # o => enrollments'[<<t, r>>] = enrollments[<<t, r>>]
           /\ offerings' \in [Offerings -> OfferingRow \cup {None}]
           /\ offerings'[o] \in OfferingRow
           /\ offerings'[o].enrolled_count = seen[q].enrolled_count + 1
           /\ offerings'[o].capacity = offerings[o].capacity
           /\ \A r \in Offerings : r # o => offerings'[r] = offerings[r]
           /\ waitlist' = waitlist \ EntriesOf(s, o)
           /\ limit' = limit
<1>0. PICK s \in Students, o \in Offerings, n \in Int :
         /\ s = call[q].student /\ o = call[q].offering
         /\ n = seen[q].enrolled_count + 1
         /\ offerings[o] \in OfferingRow
  BY CallTyped DEF RegisterCommit, InFlight, Typed, SessionOK, WritesSeat, OfferingRow
<1>1. /\ pc[q] = "commit" /\ call[q].op = "register"
      /\ enrollments' = [enrollments EXCEPT ![<<s, o>>] = "ACTIVE"]
      /\ offerings' = [offerings EXCEPT ![o].enrolled_count = n]
      /\ waitlist' = waitlist \ EntriesOf(s, o)
      /\ limit' = limit
  BY <1>0 DEF RegisterCommit
<1>2. enrollments \in [Students \X Offerings -> EnrollmentStatus \cup {None}]
  BY DEF Typed, TypeOK
<1>3. /\ enrollments' \in [Students \X Offerings -> EnrollmentStatus \cup {None}]
      /\ enrollments'[<<s, o>>] = "ACTIVE"
      /\ \A t \in Students, r \in Offerings :
            t # s \/ r # o => enrollments'[<<t, r>>] = enrollments[<<t, r>>]
  BY <1>1, <1>2 DEF EnrollmentStatus
<1>4. \A t \in Students, r \in Offerings :
         Enrolled(t, r)' <=> (Enrolled(t, r) \/ (t = s /\ r = o))
  BY <1>3 DEF Enrolled
<1>5. /\ offerings' \in [Offerings -> OfferingRow \cup {None}]
      /\ offerings'[o] \in OfferingRow
      /\ offerings'[o].enrolled_count = n
      /\ offerings'[o].capacity = offerings[o].capacity
      /\ \A r \in Offerings : r # o => offerings'[r] = offerings[r]
  BY <1>0, <1>1, CountWritten
<1> QED
  BY <1>0, <1>1, <1>3, <1>4, <1>5

LEMMA DropWrites ==
    ASSUME Typed, NEW q \in Requests, DropCommit(q)
    PROVE  LET s == call[q].student  o == call[q].offering IN
           /\ pc[q] = "promote" /\ call[q].op = "drop" /\ todo[q] = {}
           /\ s \in Students /\ o \in Offerings
           /\ enrollments' \in [Students \X Offerings -> EnrollmentStatus \cup {None}]
           /\ \A t \in Students, r \in Offerings :
                 Enrolled(t, r)' <=> /\ ~(t = s /\ r = o)
                                     /\ Enrolled(t, r) \/ (t = promoted[q] /\ r = o)
           /\ \A t \in Students, r \in Offerings :
                 (t # s /\ t # promoted[q]) \/ r # o =>
                    enrollments'[<<t, r>>] = enrollments[<<t, r>>]
           /\ offerings' \in [Offerings -> OfferingRow \cup {None}]
           /\ offerings'[o] \in OfferingRow
           /\ offerings'[o].enrolled_count =
                 IF promoted[q] = None THEN seen[q].enrolled_count - 1
                                       ELSE seen[q].enrolled_count
           /\ offerings'[o].capacity = offerings[o].capacity
           /\ \A r \in Offerings : r # o => offerings'[r] = offerings[r]
           /\ waitlist' = waitlist \ Leaving(q)
           /\ limit' = limit
<1> DEFINE count == IF promoted[q] = None THEN seen[q].enrolled_count - 1
                                          ELSE seen[q].enrolled_count
<1>0. PICK s \in Students, o \in Offerings, n \in Int :
         /\ s = call[q].student /\ o = call[q].offering /\ n = count
         /\ offerings[o] \in OfferingRow
  <2>1. pc[q] = "promote"
    BY DEF DropCommit
  <2>2. count \in Int
    BY <2>1 DEF Typed, SessionOK, WritesSeat, OfferingRow
  <2> QED
    BY <2>1, <2>2, CallTyped DEF InFlight
<1>1. /\ pc[q] = "promote" /\ todo[q] = {}
      /\ enrollments' = [p \in Students \X Offerings |->
             CASE p = <<s, o>> -> "DROPPED"
               [] p # <<s, o>> /\ p = <<promoted[q], o>> -> "ACTIVE"
               [] OTHER -> enrollments[p]]
      /\ offerings' = [offerings EXCEPT ![o].enrolled_count = n]
      /\ waitlist' = waitlist \ Leaving(q)
      /\ limit' = limit
  BY <1>0 DEF DropCommit
<1>2. call[q].op = "drop"
  BY <1>1 DEF Typed, SessionOK, InFlight, Ops, Step
<1>3. enrollments \in [Students \X Offerings -> EnrollmentStatus \cup {None}]
  BY DEF Typed, TypeOK
<1>4. \A t \in Students, r \in Offerings :
         enrollments'[<<t, r>>] =
            CASE t = s /\ r = o -> "DROPPED"
              [] ~(t = s /\ r = o) /\ t = promoted[q] /\ r = o -> "ACTIVE"
              [] OTHER -> enrollments[<<t, r>>]
  BY <1>1
<1>5. enrollments' \in [Students \X Offerings -> EnrollmentStatus \cup {None}]
  BY <1>1, <1>3 DEF EnrollmentStatus
<1>6. /\ \A t \in Students, r \in Offerings :
            Enrolled(t, r)' <=> /\ ~(t = s /\ r = o)
                                /\ Enrolled(t, r) \/ (t = promoted[q] /\ r = o)
      /\ \A t \in Students, r \in Offerings :
            (t # s /\ t # promoted[q]) \/ r # o =>
               enrollments'[<<t, r>>] = enrollments[<<t, r>>]
  BY <1>4 DEF Enrolled
<1> HIDE DEF count
<1>7. offerings' = [offerings EXCEPT ![o].enrolled_count = n]
  BY <1>1
<1>8. /\ offerings' \in [Offerings -> OfferingRow \cup {None}]
      /\ offerings'[o] \in OfferingRow
      /\ offerings'[o].enrolled_count = n
      /\ offerings'[o].capacity = offerings[o].capacity
      /\ \A r \in Offerings : r # o => offerings'[r] = offerings[r]
  BY <1>0, <1>7, CountWritten
<1> QED
  BY <1>0, <1>1, <1>2, <1>5, <1>6, <1>8 DEF count

LEMMA OwnEntryTyped ==
    ASSUME Typed, NEW q \in Requests, InFlight(q)
    PROVE  /\ OwnEntry(q) \in Entry
           /\ OwnEntry(q).student = call[q].student
           /\ OwnEntry(q).offering = call[q].offering
BY CallTyped DEF OwnEntry, Entry, Typed, TypeOK

LEMMA CommitTyped ==
    ASSUME Typed, NEW q \in Requests, Commits(q)
    PROVE  Typed'
<1>1. CASE RegisterCommit(q) \/ DropCommit(q) \/ JoinCommit(q)
  <2>1. /\ Commit(q, "refresh")
        /\ \/ pc[q] = "commit" /\ call[q].op \in {"register", "join"}
           \/ pc[q] = "promote" /\ call[q].op = "drop"
    BY <1>1 DEF RegisterCommit, DropCommit, JoinCommit, Typed, SessionOK, InFlight, Ops, Step
  <2>2. /\ enrollments' \in [Students \X Offerings -> EnrollmentStatus \cup {None}]
        /\ offerings' \in [Offerings -> OfferingRow \cup {None}]
        /\ \A r \in Offerings : Exists(r) => Exists(r)'
        /\ waitlist' \subseteq Entry
        /\ limit' = limit
    <3>1. CASE RegisterCommit(q)
      BY <3>1, RegisterWrites, SentinelsApart DEF Exists, Typed, TypeOK
    <3>2. CASE DropCommit(q)
      BY <3>2, DropWrites, SentinelsApart DEF Exists, Typed, TypeOK
    <3>3. CASE JoinCommit(q)
      BY <2>1, <3>3, OwnEntryTyped DEF JoinCommit, Exists, InFlight, Typed, TypeOK
    <3> QED
      BY <1>1, <3>1, <3>2, <3>3
  <2> USE DEF Commit, Goto, ReleaseAll, notes, promotion
  <2>3. TypeOK'
    BY <2>1, <2>2 DEF Typed, TypeOK, Step
  <2>4. ASSUME NEW p \in Requests PROVE SessionOK(p)'
    <3>1. CASE p # q
      BY <2>1, <2>2, <3>1 DEF Typed, TypeOK, SessionOK, WritesSeat, InFlight, Call
    <3>2. CASE p = q
      BY <2>1, <2>2, <3>2 DEF Typed, TypeOK, SessionOK, WritesSeat, InFlight, Ops, Step, Call
    <3> QED
      BY <3>1, <3>2
  <2> QED
    BY <2>3, <2>4 DEF Typed
<1>2. CASE LeaveCommit(q)
  <2> USE DEF LeaveCommit, Answer, Forget, Goto, ReleaseAll
  <2>1. TypeOK'
    BY <1>2 DEF Typed, TypeOK, Step, Limit, Code
  <2>2. ASSUME NEW p \in Requests PROVE SessionOK(p)'
    BY <1>2 DEF Typed, TypeOK, SessionOK, WritesSeat, Exists, InFlight
  <2> QED
    BY <2>1, <2>2 DEF Typed
<1> QED
  BY <1>1, <1>2 DEF Commits

LEMMA OpenedRow ==
    ASSUME Typed, NEW o \in Offerings, NEW n \in Capacities, CreateOffering(o, n)
    PROVE  /\ offerings[o] = None
           /\ offerings' \in [Offerings -> OfferingRow \cup {None}]
           /\ offerings'[o] = [capacity |-> n, enrolled_count |-> 0]
           /\ offerings'[o] \in OfferingRow /\ Exists(o)'
           /\ offerings'[o].capacity = n /\ offerings'[o].enrolled_count = 0
           /\ \A r \in Offerings : r # o => offerings'[r] = offerings[r]
           /\ UNCHANGED <<enrollments, waitlist, limit, session>>
<1>1. [capacity |-> n, enrolled_count |-> 0] \in OfferingRow
  BY PolicyTyped DEF OfferingRow
<1> QED
  BY <1>1, SentinelsApart DEF CreateOffering, Exists, Typed, TypeOK

LEMMA AdminTyped == ASSUME Typed, Admin PROVE Typed'
<1> USE DEF session, notes, promotion
<1>1. ASSUME NEW o \in Offerings, NEW n \in Capacities, CreateOffering(o, n) PROVE Typed'
  <2>1. /\ \A r \in Offerings : Exists(r) => Exists(r)'
        /\ UNCHANGED <<pc, call, seen, todo, passed, promoted, reply>>
    BY <1>1, OpenedRow DEF Exists
  <2>2. TypeOK'
    BY <1>1, OpenedRow DEF Typed, TypeOK
  <2>3. ASSUME NEW p \in Requests PROVE SessionOK(p)'
    <3>1. SessionOK(p) /\ (InFlight(p) => call[p].offering \in Offerings)
      BY CallTyped DEF Typed
    <3> QED
      BY <2>1, <3>1 DEF SessionOK, WritesSeat, InFlight
  <2> QED
    BY <2>2, <2>3 DEF Typed
<1>2. ASSUME NEW n \in Limits, PutQuota(n) PROVE Typed'
  <2>1. TypeOK'
    BY <1>2, PolicyTyped DEF PutQuota, Typed, TypeOK, Limit
  <2>2. ASSUME NEW p \in Requests PROVE SessionOK(p)'
    BY <1>2 DEF PutQuota, Typed, TypeOK, SessionOK, WritesSeat, InFlight, Exists
  <2> QED
    BY <2>1, <2>2 DEF Typed
<1> QED
  BY <1>1, <1>2 DEF Admin

LEMMA StutterTyped == ASSUME Typed, UNCHANGED vars PROVE Typed'
<1>1. TypeOK'
  BY DEF vars, Typed, TypeOK
<1>2. ASSUME NEW p \in Requests PROVE SessionOK(p)'
  BY DEF vars, Typed, SessionOK, WritesSeat, InFlight, Exists
<1> QED
  BY <1>1, <1>2 DEF Typed

LEMMA NextTyped == Typed /\ [Next]_vars => Typed'
<1> SUFFICES ASSUME Typed, [Next]_vars PROVE Typed'
  OBVIOUS
<1>1. ASSUME NEW q \in Requests, Runs(q) PROVE Typed'
  BY <1>1, StepKinds, RefusedTyped, ReadTyped, LockTyped, CommitTyped
<1> QED
  BY <1>1, ArriveTyped, AdminTyped, StutterTyped DEF Next, Runs

(* Type correctness: in every behaviour each variable has its type, and no *)
(* enrollment is ever WAITLISTED.                                          *)
THEOREM TypeCorrect == Spec => []TypeOK
<1>1. Spec => []Typed
  BY InitTyped, NextTyped, PTL DEF Spec
<1>2. Typed => TypeOK
  BY DEF Typed
<1> QED
  BY <1>1, <1>2, PTL

-----------------------------------------------------------------------------
(* What a step of one request leaves alone.                                *)

Same(p) ==
    /\ pc'[p] = pc[p] /\ call'[p] = call[p] /\ reply'[p] = reply[p]
    /\ existing'[p] = existing[p] /\ seen'[p] = seen[p] /\ limitRead'[p] = limitRead[p]
    /\ todo'[p] = todo[p] /\ passed'[p] = passed[p] /\ promoted'[p] = promoted[p]

SameLocks(p) == \A l : l.tx = p => (l \in locks' <=> l \in locks)

LEMMA OthersUntouched ==
    ASSUME Typed, NEW q \in Requests, Runs(q), NEW p \in Requests, p # q
    PROVE  Same(p) /\ SameLocks(p) /\ call' = call
<1> USE DEF Same, SameLocks, Typed, TypeOK, Goto, notes, promotion
<1>1. CASE Refused(q)
  BY <1>1 DEF Refused, Refuse, Answer, Forget, ReleaseAll
<1>2. CASE Reads(q)
  <2>1. CASE CandidateBusy(q)
    BY <2>1 DEF CandidateBusy, PassOver
  <2>2. CASE RegisterAdmitted(q) \/ DropFrees(q)
    BY <2>2 DEF RegisterAdmitted, DropFrees
  <2>3. CASE JoinNotSeated(q) \/ JoinFresh(q) \/ JoinReread(q) \/ LeaveFound(q)
    BY <2>3 DEF JoinNotSeated, JoinFresh, JoinReread, LeaveFound
  <2> QED
    BY <1>2, <2>1, <2>2, <2>3 DEF Reads
<1>3. CASE Locks(q)
  <2>1. SameLocks(p)
    <3>1. PICK row \in LockRow, mode \in LockMode : Lock(q, row, mode)
      BY <1>3, LockTaken
    <3> QED
      BY <3>1 DEF Lock, Grant
  <2>2. CASE LockStudent(q)
    BY <2>1, <2>2 DEF LockStudent
  <2>3. CASE RegisterLockSeat(q) \/ DropLockSeat(q)
    BY <2>1, <2>3 DEF RegisterLockSeat, DropLockSeat, LockSeat
  <2>4. CASE CandidateUnfit(q)
    BY <2>1, <2>4 DEF CandidateUnfit, PassOver
  <2>5. CASE CandidateSeated(q)
    BY <2>1, <2>5 DEF CandidateSeated
  <2>6. CASE JoinLockShare(q) \/ LeaveLockShare(q)
    BY <2>1, <2>6 DEF JoinLockShare, LeaveLockShare, LockShare
  <2> QED
    BY <1>3, <2>2, <2>3, <2>4, <2>5, <2>6 DEF Locks
<1>4. CASE Commits(q)
  <2>1. CASE LeaveCommit(q)
    BY <2>1 DEF LeaveCommit, Answer, Forget, ReleaseAll
  <2>2. CASE RegisterCommit(q) \/ DropCommit(q) \/ JoinCommit(q)
    <3>1. Commit(q, "refresh")
      BY <2>2 DEF RegisterCommit, DropCommit, JoinCommit
    <3> QED
      BY <3>1 DEF Commit, ReleaseAll
  <2> QED
    BY <1>4, <2>1, <2>2 DEF Commits
<1> QED
  BY <1>1, <1>2, <1>3, <1>4, StepKinds

(* Only the COMMITs write the tables.                                      *)
LEMMA OnlyCommitsWrite ==
    ASSUME Typed, NEW q \in Requests, Runs(q)
    PROVE  UNCHANGED tables \/ Commits(q)
<1>1. CASE Refused(q)
  BY <1>1 DEF Refused, Refuse
<1>2. CASE Reads(q)
  BY <1>2 DEF Reads, RegisterAdmitted, DropFrees, CandidateBusy, PassOver, JoinNotSeated,
              JoinFresh, JoinReread, LeaveFound
<1>3. CASE Locks(q)
  BY <1>3 DEF Locks, LockStudent, RegisterLockSeat, DropLockSeat, LockSeat, CandidateUnfit,
              CandidateSeated, PassOver, JoinLockShare, LeaveLockShare, LockShare
<1> QED
  BY <1>1, <1>2, <1>3, StepKinds

-----------------------------------------------------------------------------
(* Row locks.                                                              *)

(* The statements after the caller's own row is locked, up to COMMIT.      *)
AfterUser == {"gates", "lockSeat", "checkSeat", "promote", "checkSeated", "lockShare",
              "findEntry", "commit"}

(* The locks that the statements from one to COMMIT rely on.               *)
LocksOK(q) ==
    /\ pc[q] \in AfterUser => Holds(locks, q, UserRow(call[q].student), "UPDATE")
    /\ WritesSeat(q) => Holds(locks, q, SeatRow(call[q].offering), "UPDATE")
    /\ ReadsSeat(q) => Holds(locks, q, SeatRow(call[q].offering), "SHARE")
    /\ pc[q] = "promote" =>
          /\ promoted[q] # None => Holds(locks, q, UserRow(promoted[q]), "UPDATE")
          /\ \A x \in passed[q] : x[2] # "BUSY" => Holds(locks, q, UserRow(x[1]), "UPDATE")

(* And it holds nothing else: no lock outlives COMMIT, and none is taken   *)
(* before the caller's own row.                                            *)
NoLocksElse(q) ==
    \A l \in locks : l.tx = q =>
        /\ pc[q] \in AfterUser
        /\ l.row[1] = "course_offerings" => WritesSeat(q) \/ ReadsSeat(q)

LocksHeld ==
    /\ \A q \in Requests : LocksOK(q) /\ NoLocksElse(q)
    /\ ~Clash(locks)

LEMMA ModesExclude ==
    ASSUME NEW m \in LockMode, NEW n \in LockMode
    PROVE  /\ m \in Excluding[n] <=> n \in Excluding[m]
           /\ m \in Excluding["UPDATE"]
BY DEF LockMode, Excluding

(* A granted lock excludes no lock of another transaction.                 *)
LEMMA LockIsFree ==
    ASSUME TypeOK, ~Clash(locks), NEW q \in Requests, NEW row \in LockRow,
           NEW mode \in LockMode, Lock(q, row, mode)
    PROVE  /\ locks' = locks \cup {[tx |-> q, row |-> row, mode |-> mode]}
           /\ Holds(locks', q, row, mode)
           /\ ~Clash(locks')
<1>1. locks' = locks \cup {[tx |-> q, row |-> row, mode |-> mode]}
  BY DEF Lock, Grant
<1>2. \A k \in locks : k.row = row /\ k.tx # q => k.mode \notin Excluding[mode]
  BY DEF Lock, Free, Blockers
<1>3. ~Clash(locks')
  <2> SUFFICES ASSUME NEW k \in locks', NEW l \in locks', k.row = l.row, k.tx # l.tx,
                      k.mode \in Excluding[l.mode]
               PROVE  FALSE
    BY DEF Clash
  <2>1. k.mode \in LockMode /\ l.mode \in LockMode
    BY <1>1 DEF TypeOK
  <2>2. CASE k \in locks /\ l \in locks
    BY <2>2 DEF Clash
  <2>3. CASE k \in locks /\ l \notin locks
    BY <1>1, <1>2, <2>3
  <2>4. CASE k \notin locks
    BY <1>1, <1>2, <2>1, <2>4, ModesExclude
  <2> QED
    BY <2>2, <2>3, <2>4
<1> QED
  BY <1>1, <1>3 DEF Holds

LEMMA FewerLocksNoClash ==
    ASSUME ~Clash(locks), locks' \subseteq locks PROVE ~Clash(locks')
BY DEF Clash

(* Two requests never hold one row, one of them FOR UPDATE and the other   *)
(* FOR UPDATE or FOR SHARE.                                                *)
LEMMA Exclusive ==
    ASSUME ~Clash(locks), NEW p, NEW q, p # q, NEW row,
           Holds(locks, p, row, "UPDATE"),
           Holds(locks, q, row, "UPDATE") \/ Holds(locks, q, row, "SHARE")
    PROVE  FALSE
BY ModesExclude DEF Clash, Holds, LockMode

(* A request that ends its transaction keeps no lock.                      *)
LEMMA Released ==
    ASSUME Typed, NEW q \in Requests, Refused(q) \/ Commits(q)
    PROVE  /\ locks' = ReleaseAll(locks, q)
           /\ pc'[q] \in {"refresh", "done"}
<1>1. CASE Refused(q)
  BY <1>1 DEF Refused, Refuse, Answer, Goto, Typed, TypeOK
<1>2. CASE LeaveCommit(q)
  BY <1>2 DEF LeaveCommit, Answer, Goto, Typed, TypeOK
<1>3. CASE RegisterCommit(q) \/ DropCommit(q) \/ JoinCommit(q)
  <2>1. Commit(q, "refresh")
    BY <1>3 DEF RegisterCommit, DropCommit, JoinCommit
  <2> QED
    BY <2>1 DEF Commit, Goto, Typed, TypeOK
<1> QED
  BY <1>1, <1>2, <1>3 DEF Commits

LEMMA ReadLocks ==
    ASSUME Typed, LocksHeld, NEW q \in Requests, Reads(q)
    PROVE  locks' = locks /\ LocksOK(q)' /\ NoLocksElse(q)'
<1> USE DEF LocksHeld, LocksOK, NoLocksElse, AfterUser, WritesSeat, ReadsSeat, Typed, TypeOK,
            Goto, notes, promotion
<1>1. CASE CandidateBusy(q)
  <2>1. /\ pc[q] = "promote" /\ todo[q] # {} /\ PassOver(q, "BUSY") /\ "BUSY" \in Reason
        /\ locks' = locks /\ call' = call /\ pc' = pc /\ promoted' = promoted
    BY <1>1 DEF CandidateBusy, PassOver, Reason
  <2>2. passed'[q] = passed[q] \cup {<<NextEntry(q).student, "BUSY">>}
    BY <2>1, PassOverTyped
  <2> QED
    BY <2>1, <2>2
<1>2. CASE DropFrees(q)
  BY <1>2 DEF DropFrees, SessionOK
<1>3. CASE RegisterAdmitted(q)
  BY <1>3 DEF RegisterAdmitted
<1>4. CASE JoinNotSeated(q) \/ JoinFresh(q) \/ JoinReread(q) \/ LeaveFound(q)
  BY <1>4 DEF JoinNotSeated, JoinFresh, JoinReread, LeaveFound
<1> QED
  BY <1>1, <1>2, <1>3, <1>4 DEF Reads

LEMMA LockLocks ==
    ASSUME Typed, LocksHeld, NEW q \in Requests, Locks(q)
    PROVE  ~Clash(locks') /\ LocksOK(q)' /\ NoLocksElse(q)'
<1> USE RowsLocked DEF LockMode
<1>1. CASE LockStudent(q)
  <2> DEFINE row == UserRow(call[q].student)
  <2>1. /\ pc[q] = "lockStudent" /\ Lock(q, row, "UPDATE") /\ row \in LockRow
        /\ pc' = [pc EXCEPT ![q] = AfterStudent[call[q].op]]
        /\ call' = call
        /\ row[1] = "users"
        /\ call[q].op \in {"register", "drop", "join", "leave"}
    BY <1>1, CallTyped DEF LockStudent, Goto, InFlight, Call, UserRow
  <2>2. /\ locks' = locks \cup {[tx |-> q, row |-> row, mode |-> "UPDATE"]}
        /\ Holds(locks', q, row, "UPDATE") /\ ~Clash(locks')
    BY <2>1, LockIsFree DEF LocksHeld, Typed
  <2>3. pc'[q] \in {"gates", "lockSeat", "checkSeated", "lockShare"}
    BY <2>1 DEF AfterStudent, Typed, TypeOK
  <2>4. \A l \in locks : l.tx # q
    BY <2>1 DEF LocksHeld, NoLocksElse, AfterUser
  <2> QED
    BY <2>1, <2>2, <2>3, <2>4 DEF LocksOK, NoLocksElse, AfterUser, WritesSeat, ReadsSeat
<1>2. CASE RegisterLockSeat(q) \/ DropLockSeat(q)
  <2> DEFINE row == SeatRow(call[q].offering)
  <2>1. /\ pc[q] = "lockSeat" /\ Lock(q, row, "UPDATE") /\ row \in LockRow
        /\ pc' = [pc EXCEPT ![q] = IF call[q].op = "register" THEN "commit" ELSE "checkSeat"]
        /\ call' = call
    BY <1>2, CallTyped DEF RegisterLockSeat, DropLockSeat, LockSeat, Goto, InFlight
  <2>2. /\ locks' = locks \cup {[tx |-> q, row |-> row, mode |-> "UPDATE"]}
        /\ Holds(locks', q, row, "UPDATE") /\ ~Clash(locks')
    BY <2>1, LockIsFree DEF LocksHeld, Typed
  <2>3. \/ pc'[q] = "commit" /\ call[q].op = "register"
        \/ pc'[q] = "checkSeat"
    BY <2>1 DEF Typed, TypeOK
  <2>4. Holds(locks', q, UserRow(call[q].student), "UPDATE")
    BY <2>1, <2>2 DEF LocksHeld, LocksOK, AfterUser, Holds
  <2> QED
    BY <2>1, <2>2, <2>3, <2>4 DEF LocksOK, NoLocksElse, AfterUser, WritesSeat, ReadsSeat
<1>3. CASE CandidateUnfit(q) \/ CandidateSeated(q)
  <2> DEFINE row == UserRow(NextEntry(q).student)
  <2>1. /\ pc[q] = "promote" /\ todo[q] # {}
        /\ Lock(q, row, "UPDATE") /\ row \in LockRow /\ row[1] = "users"
        /\ call' = call /\ pc' = pc
    BY <1>3, NextEntryTyped
       DEF CandidateUnfit, CandidateSeated, LockCandidate, PassOver, UserRow
  <2>2. /\ locks' = locks \cup {[tx |-> q, row |-> row, mode |-> "UPDATE"]}
        /\ Holds(locks', q, row, "UPDATE") /\ ~Clash(locks')
    BY <2>1, LockIsFree DEF LocksHeld, Typed
  <2>3. \/ promoted'[q] = promoted[q]
        \/ promoted'[q] = NextEntry(q).student
    BY <1>3 DEF CandidateUnfit, CandidateSeated, PassOver, Typed, TypeOK
  <2>4. \A x \in passed'[q] : x \in passed[q] \/ x[1] = NextEntry(q).student
    <3>1. CASE CandidateUnfit(q)
      <4>1. PICK reason \in Reason : PassOver(q, reason)
        BY <3>1, ReasonTyped DEF CandidateUnfit, Reason
      <4>2. passed'[q] = passed[q] \cup {<<NextEntry(q).student, reason>>}
        BY <2>1, <4>1, PassOverTyped
      <4> QED
        BY <4>2
    <3>2. CASE CandidateSeated(q)
      BY <3>2 DEF CandidateSeated
    <3> QED
      BY <1>3, <3>1, <3>2
  <2> HIDE DEF row
  <2>5. \A r, m : Holds(locks, q, r, m) => Holds(locks', q, r, m)
    BY <2>2 DEF Holds
  <2>6. LocksOK(q) /\ NoLocksElse(q)
    BY DEF LocksHeld
  <2>7. LocksOK(q)'
    BY <2>1, <2>2, <2>3, <2>4, <2>5, <2>6 DEF LocksOK, WritesSeat, ReadsSeat, row
  <2>8. NoLocksElse(q)'
    BY <2>1, <2>2, <2>6 DEF NoLocksElse, WritesSeat, AfterUser
  <2> QED
    BY <2>2, <2>7, <2>8
<1>4. CASE JoinLockShare(q) \/ LeaveLockShare(q)
  <2> DEFINE row == SeatRow(call[q].offering)
  <2>1. /\ pc[q] = "lockShare" /\ Lock(q, row, "SHARE") /\ row \in LockRow
        /\ pc' = [pc EXCEPT ![q] = "findEntry"]
        /\ call' = call
    BY <1>4, CallTyped DEF JoinLockShare, LeaveLockShare, LockShare, Goto, InFlight
  <2>2. /\ locks' = locks \cup {[tx |-> q, row |-> row, mode |-> "SHARE"]}
        /\ Holds(locks', q, row, "SHARE") /\ ~Clash(locks')
    BY <2>1, LockIsFree DEF LocksHeld, Typed
  <2>3. pc'[q] = "findEntry"
    BY <2>1 DEF Typed, TypeOK
  <2>4. Holds(locks', q, UserRow(call[q].student), "UPDATE")
    BY <2>1, <2>2 DEF LocksHeld, LocksOK, AfterUser, Holds
  <2> QED
    BY <2>1, <2>2, <2>3, <2>4 DEF LocksOK, NoLocksElse, AfterUser, WritesSeat, ReadsSeat
<1> QED
  BY <1>1, <1>2, <1>3, <1>4 DEF Locks

LEMMA LocksHeldInductive ==
    ASSUME Typed, LocksHeld, [Next]_vars
    PROVE  LocksHeld'
<1>1. ASSUME NEW q \in Requests, Runs(q)
      PROVE  ~Clash(locks') /\ LocksOK(q)' /\ NoLocksElse(q)'
  <2>1. CASE Refused(q) \/ Commits(q)
    <3>1. /\ locks' \subseteq locks /\ pc'[q] \in {"refresh", "done"}
          /\ \A l \in locks' : l.tx # q
      BY <2>1, Released DEF ReleaseAll
    <3> QED
      BY <3>1, FewerLocksNoClash
         DEF LocksHeld, LocksOK, NoLocksElse, AfterUser, WritesSeat, ReadsSeat
  <2>2. CASE Reads(q)
    BY <2>2, ReadLocks DEF LocksHeld, Clash
  <2>3. CASE Locks(q)
    BY <2>3, LockLocks
  <2> QED
    BY <1>1, <2>1, <2>2, <2>3, StepKinds
<1>2. ASSUME NEW q \in Requests, Runs(q), NEW p \in Requests, p # q
      PROVE  LocksOK(p)' /\ NoLocksElse(p)'
  <2>1. Same(p) /\ SameLocks(p)
    BY <1>2, OthersUntouched
  <2>2. /\ \A row, mode : Holds(locks, p, row, mode) => Holds(locks', p, row, mode)
        /\ \A l \in locks' : l.tx = p => l \in locks
    BY <2>1 DEF SameLocks, Holds
  <2>3. LocksOK(p) /\ NoLocksElse(p)
    BY DEF LocksHeld
  <2>4. LocksOK(p)'
    BY <2>1, <2>2, <2>3 DEF Same, LocksOK, WritesSeat, ReadsSeat
  <2>5. NoLocksElse(p)'
    BY <2>1, <2>2, <2>3 DEF Same, NoLocksElse, WritesSeat, ReadsSeat
  <2> QED
    BY <2>4, <2>5
<1>3. ASSUME NEW q \in Requests, NEW c \in Calls, Arrive(q, c) \/ ArriveNotFound(q, c)
      PROVE  LocksHeld'
  BY <1>3 DEF Arrive, ArriveNotFound, LocksHeld, LocksOK, NoLocksElse, Clash, Goto, Typed,
              TypeOK, AfterUser, WritesSeat, ReadsSeat, notes, promotion
<1>4. ASSUME Admin \/ UNCHANGED vars
      PROVE  LocksHeld'
  <2>1. UNCHANGED <<locks, pc, call, promoted, passed>>
    BY <1>4 DEF Admin, CreateOffering, PutQuota, session, notes, promotion, vars
  <2> QED
    BY <2>1 DEF LocksHeld, LocksOK, NoLocksElse, Clash, WritesSeat, ReadsSeat
<1> QED
  BY <1>1, <1>2, <1>3, <1>4 DEF Next, LocksHeld, Runs

(* Whoever is waited for holds a lock, and whoever holds an offering does  *)
(* not wait: a promotion skips the candidates that are locked.             *)
LEMMA WaitsAreShort ==
    ASSUME Typed, LocksHeld, NEW t \in Requests, NEW u \in Requests, u \in WaitsFor(t)
    PROVE  /\ pc[t] \in {"lockStudent", "lockSeat", "lockShare"}
           /\ pc[u] \in AfterUser
           /\ pc[t] \in {"lockSeat", "lockShare"} => WritesSeat(u) \/ ReadsSeat(u)
<1>1. CASE pc[t] = "lockStudent"
  BY <1>1 DEF WaitsFor, Blockers, LocksHeld, NoLocksElse
<1>2. CASE pc[t] \in {"lockSeat", "lockShare"}
  <2>1. PICK l \in locks : l.tx = u /\ l.row = SeatRow(call[t].offering)
    BY <1>2 DEF WaitsFor, Blockers
  <2> QED
    BY <1>2, <2>1 DEF SeatRow, LocksHeld, NoLocksElse
<1>3. CASE pc[t] = "promote"
  BY <1>3 DEF WaitsFor, Skipped, Free
<1>4. CASE pc[t] \notin {"lockStudent", "lockSeat", "lockShare", "promote"}
  BY <1>4 DEF WaitsFor
<1> QED
  BY <1>1, <1>2, <1>3, <1>4

LEMMA NoCircle == ASSUME Typed, LocksHeld PROVE NoDeadlock
<1> SUFFICES ASSUME NEW S \in SUBSET Requests, Stuck(waits, S) PROVE FALSE
  BY DEF NoDeadlock
<1>1. ASSUME NEW t \in S PROVE \E u \in S : u \in WaitsFor(t)
  BY DEF Stuck, waits
<1>2. PICK t \in S : TRUE
  BY DEF Stuck
<1>3. PICK u \in S : u \in WaitsFor(t)
  BY <1>1
<1>4. PICK v \in S : v \in WaitsFor(u)
  BY <1>1
<1>5. PICK w \in S : w \in WaitsFor(v)
  BY <1>1
<1>6. pc[u] \in {"lockSeat", "lockShare"}
  BY <1>3, <1>4, WaitsAreShort DEF AfterUser
<1>7. WritesSeat(v) \/ ReadsSeat(v)
  BY <1>4, <1>6, WaitsAreShort
<1>8. pc[v] \in {"lockStudent", "lockSeat", "lockShare"}
  BY <1>5, WaitsAreShort
<1> QED
  BY <1>7, <1>8 DEF WritesSeat, ReadsSeat

-----------------------------------------------------------------------------
(* What a transaction has locked, nobody else changes.                     *)

LEMMA WritesAreLocked ==
    ASSUME Typed, LocksHeld, NEW q \in Requests, Runs(q)
    PROVE  /\ limit' = limit
           /\ \A s \in Students, o \in Offerings :
                 enrollments'[<<s, o>>] # enrollments[<<s, o>>] =>
                    /\ Holds(locks, q, UserRow(s), "UPDATE")
                    /\ Holds(locks, q, SeatRow(o), "UPDATE")
           /\ \A o \in Offerings :
                 offerings'[o] # offerings[o] => Holds(locks, q, SeatRow(o), "UPDATE")
           /\ \A e : ~(e \in waitlist' <=> e \in waitlist) =>
                 /\ Holds(locks, q, UserRow(e.student), "UPDATE")
                 /\ \/ Holds(locks, q, SeatRow(e.offering), "UPDATE")
                    \/ Holds(locks, q, SeatRow(e.offering), "SHARE")
<1>0. LocksOK(q)
  BY DEF LocksHeld
<1>1. CASE RegisterCommit(q)
  BY <1>0, <1>1, RegisterWrites DEF LocksOK, WritesSeat, AfterUser, EntriesOf
<1>2. CASE DropCommit(q)
  <2>1. ASSUME NEW e \in Leaving(q)
        PROVE  e.offering = call[q].offering /\ Holds(locks, q, UserRow(e.student), "UPDATE")
    <3>1. e.student \in Students /\ e.student # None /\ e.offering = call[q].offering
      BY SentinelsApart DEF Leaving, Queue, Typed, TypeOK, Entry
    <3>2. CASE e.student = promoted[q]
      BY <1>0, <1>2, <3>1, <3>2, DropWrites DEF LocksOK
    <3>3. CASE e.student \in Stale(q)
      <4>1. <<e.student, "SEATED">> \in passed[q]
        BY <3>3 DEF Stale
      <4>2. \A x \in passed[q] : x[2] # "BUSY" => Holds(locks, q, UserRow(x[1]), "UPDATE")
        BY <1>0, <1>2, DropWrites DEF LocksOK
      <4> QED
        BY <3>1, <4>1, <4>2
    <3> QED
      BY <3>1, <3>2, <3>3 DEF Leaving
  <2>2. /\ Holds(locks, q, UserRow(call[q].student), "UPDATE")
        /\ Holds(locks, q, SeatRow(call[q].offering), "UPDATE")
        /\ promoted[q] # None => Holds(locks, q, UserRow(promoted[q]), "UPDATE")
    BY <1>0, <1>2, DropWrites DEF LocksOK, WritesSeat, AfterUser
  <2>3. \A s \in Students, o \in Offerings :
           enrollments'[<<s, o>>] # enrollments[<<s, o>>] =>
              s \in {call[q].student, promoted[q]} /\ o = call[q].offering
    BY <1>2, DropWrites
  <2>4. \A o \in Offerings : offerings'[o] # offerings[o] => o = call[q].offering
    BY <1>2, DropWrites
  <2>5. waitlist' = waitlist \ Leaving(q) /\ limit' = limit
    BY <1>2, DropWrites
  <2>6. \A s \in Students : s = promoted[q] => promoted[q] # None
    BY SentinelsApart
  <2> QED
    BY <2>1, <2>2, <2>3, <2>4, <2>5, <2>6
<1>3. CASE JoinCommit(q)
  BY <1>0, <1>3, OwnEntryTyped
     DEF JoinCommit, LocksOK, ReadsSeat, AfterUser, InFlight
<1>4. CASE LeaveCommit(q)
  BY <1>0, <1>4 DEF LeaveCommit, LocksOK, ReadsSeat, AfterUser, EntriesOf
<1>5. CASE UNCHANGED tables
  BY <1>5 DEF tables
<1> QED
  BY <1>1, <1>2, <1>3, <1>4, <1>5, OnlyCommitsWrite DEF Commits

(* All that is known of a student, and of a section.                       *)
StudentKept(s) ==
    /\ \A o \in Offerings : enrollments'[<<s, o>>] = enrollments[<<s, o>>]
    /\ \A e : e.student = s => (e \in waitlist' <=> e \in waitlist)

SeatsKept(o) ==
    /\ offerings'[o] = offerings[o]
    /\ \A s \in Students : enrollments'[<<s, o>>] = enrollments[<<s, o>>]

QueueKept(o) == \A e : e.offering = o => (e \in waitlist' <=> e \in waitlist)

LEMMA RowsKept ==
    ASSUME Typed, LocksHeld, NEW q \in Requests, Runs(q), NEW p \in Requests, p # q
    PROVE  /\ \A s \in Students :
                 Holds(locks, p, UserRow(s), "UPDATE") => StudentKept(s)
           /\ \A o \in Offerings :
                 Holds(locks, p, SeatRow(o), "UPDATE") => SeatsKept(o) /\ QueueKept(o)
           /\ \A o \in Offerings :
                 Holds(locks, p, SeatRow(o), "SHARE") => SeatsKept(o)
<1>1. \A row : /\ Holds(locks, p, row, "UPDATE") => /\ ~Holds(locks, q, row, "UPDATE")
                                                   /\ ~Holds(locks, q, row, "SHARE")
               /\ Holds(locks, p, row, "SHARE") => ~Holds(locks, q, row, "UPDATE")
  BY Exclusive DEF LocksHeld
<1> QED
  BY <1>1, WritesAreLocked DEF StudentKept, SeatsKept, QueueKept

LEMMA StudentFacts ==
    ASSUME NEW s \in Students, StudentKept(s)
    PROVE  /\ \A o \in Offerings : Enrolled(s, o)' <=> Enrolled(s, o)
           /\ held_course_enrollments(s)' = held_course_enrollments(s)
           /\ \A o : conflicting_offering(s, o)' <=> conflicting_offering(s, o)
           /\ \A o : EntriesOf(s, o)' = EntriesOf(s, o)
           /\ \A o : Queued(s, o)' <=> Queued(s, o)
<1>1. \A o \in Offerings : Enrolled(s, o)' <=> Enrolled(s, o)
  BY DEF StudentKept, Enrolled
<1>2. \A o : EntriesOf(s, o)' = EntriesOf(s, o)
  BY DEF StudentKept, EntriesOf
<1>3. { o \in Offerings : Enrolled(s, o) }' = { o \in Offerings : Enrolled(s, o) }
  BY <1>1
<1> QED
  BY <1>1, <1>2, <1>3 DEF held_course_enrollments, conflicting_offering, Queued

-----------------------------------------------------------------------------
(* The invariants of the tables, and what a request may rely on.           *)

(* The counter is the number of seats, never more than there are; only     *)
(* sections that exist are taken or queued for.                            *)
Counted ==
    \A o \in Offerings :
        /\ Exists(o) => /\ offerings[o].enrolled_count = Cardinality(Seated(o))
                        /\ Cardinality(Seated(o)) <= offerings[o].capacity
        /\ \A s \in Students : Enrolled(s, o) \/ Queued(s, o) => Exists(o)

(* One claim to a seat per student: the seat itself or one entry.          *)
OneClaim ==
    /\ \A s \in Students, o \in Offerings : ~(Enrolled(s, o) /\ Queued(s, o))
    /\ \A e, f \in waitlist : e.student = f.student /\ e.offering = f.offering => e = f

(* What a gate establishes for the student it admits.                      *)
MayTake(q, s, o) ==
    /\ ~Enrolled(s, o) /\ ~conflicting_offering(s, o)
    /\ \/ limitRead[q] = Unlimited
       \/ limitRead[q] \in Nat /\ held_course_enrollments(s) + 1 <= limitRead[q]

Decided(q) ==
    LET s == call[q].student  o == call[q].offering IN
    /\ pc[q] \in {"lockSeat", "commit"} /\ call[q].op = "register" =>
          enrollments[<<s, o>>] = existing[q] /\ MayTake(q, s, o)
    /\ WritesSeat(q) => offerings[o] = seen[q]
    /\ pc[q] = "commit" /\ call[q].op = "register" => SeatFree(seen[q])
    /\ pc[q] = "promote" =>
          /\ Enrolled(s, o) /\ todo[q] \subseteq Queue(o)
          /\ promoted[q] # None => Queued(promoted[q], o) /\ MayTake(q, promoted[q], o)
          /\ \A x \in passed[q] : /\ x[2] # "SEATED"
                                  /\ x[2] = "CLASH" => conflicting_offering(x[1], o)
    /\ pc[q] \in {"lockShare", "findEntry", "commit"} /\ call[q].op = "join" =>
          ~Enrolled(s, o)
    /\ pc[q] \in {"findEntry", "commit"} /\ call[q].op = "join" => ~SeatFree(offerings[o])
    /\ pc[q] = "commit" /\ call[q].op = "join" => ~Queued(s, o)
    /\ pc[q] = "commit" /\ call[q].op = "leave" => Queued(s, o)

(* A promotion tries the entries in the order of the queue: each is still  *)
(* to try, or was passed over, or comes after the one it seats.            *)
WasPassed(q, e) == \E reason \in Reason : <<e.student, reason>> \in passed[q]

InOrder(q) ==
    LET o == call[q].offering IN
    pc[q] = "promote" =>
        /\ promoted[q] = None => \A e \in Queue(o) : e \in todo[q] \/ WasPassed(q, e)
        /\ promoted[q] # None =>
              \E f \in Queue(o) :
                  /\ f.student = promoted[q]
                  /\ \A e \in Queue(o) : f.created_at <= e.created_at \/ WasPassed(q, e)

CourseInv ==
    /\ Typed /\ LocksHeld /\ Counted /\ OneClaim /\ NoScheduleClash
    /\ \A q \in Requests : Decided(q) /\ InOrder(q)

LEMMA OthersDecided ==
    ASSUME Typed, LocksHeld, NEW q \in Requests, Runs(q), NEW p \in Requests, p # q, Decided(p)
    PROVE  Decided(p)'
<1>1. Same(p) /\ LocksOK(p)
  BY OthersUntouched DEF LocksHeld
<1>2. CASE ~InFlight(p)
  BY <1>1, <1>2 DEF Same, InFlight, Decided, WritesSeat
<1>3. CASE InFlight(p)
  <2>1. PICK s \in Students, o \in Offerings : s = call[p].student /\ o = call[p].offering
    BY <1>3, CallTyped
  <2>2. s = call'[p].student /\ o = call'[p].offering
    BY <1>1, <2>1 DEF Same
  <2>3. pc[p] \in AfterUser => StudentKept(s)
    BY <1>1, <2>1, RowsKept DEF LocksOK
  <2>4. pc[p] \in AfterUser =>
           /\ enrollments'[<<s, o>>] = enrollments[<<s, o>>]
           /\ Enrolled(s, o)' <=> Enrolled(s, o)
           /\ held_course_enrollments(s)' = held_course_enrollments(s)
           /\ conflicting_offering(s, o)' <=> conflicting_offering(s, o)
           /\ Queued(s, o)' <=> Queued(s, o)
    BY <2>3, StudentFacts DEF StudentKept
  <2>5. WritesSeat(p) => offerings'[o] = offerings[o] /\ Queue(o)' = Queue(o)
    BY <1>1, <2>1, RowsKept DEF LocksOK, SeatsKept, QueueKept, Queue
  <2>6. ReadsSeat(p) => offerings'[o] = offerings[o]
    BY <1>1, <2>1, RowsKept DEF LocksOK, SeatsKept
  <2>7. ASSUME NEW t \in Students, pc[p] = "promote", promoted[p] = t,
               Queued(t, o), MayTake(p, t, o)
        PROVE  Queued(t, o)' /\ MayTake(p, t, o)'
    <3>1. t # None
      BY SentinelsApart
    <3>2. StudentKept(t)
      BY <1>1, <2>7, <3>1, RowsKept DEF LocksOK
    <3> QED
      BY <1>1, <2>7, <3>2, StudentFacts DEF MayTake, Same
  <2>8. ASSUME NEW t \in Students, NEW reason, pc[p] = "promote", <<t, reason>> \in passed[p],
               reason = "CLASH", conflicting_offering(t, o)
        PROVE  conflicting_offering(t, o)'
    <3>1. StudentKept(t)
      BY <1>1, <2>8, RowsKept DEF LocksOK
    <3> QED
      BY <2>8, <3>1, StudentFacts
  <2>9. pc[p] \in AfterUser /\ MayTake(p, s, o) => MayTake(p, s, o)'
    BY <1>1, <2>4 DEF MayTake, Same
  <2>10. passed[p] \subseteq Students \X Reason /\ promoted[p] \in Students \cup {None}
    BY DEF Typed, TypeOK
  <2> QED
    BY <1>1, <2>1, <2>2, <2>4, <2>5, <2>6, <2>7, <2>8, <2>9, <2>10
       DEF Same, Decided, WritesSeat, ReadsSeat, AfterUser, SeatFree
<1> QED
  BY <1>2, <1>3

LEMMA LoadTyped == \A s : held_course_enrollments(s) \in Nat
<1> SUFFICES ASSUME NEW s PROVE held_course_enrollments(s) \in Nat
  OBVIOUS
<1> DEFINE S == { o \in Offerings : Enrolled(s, o) }
<1>1. IsFiniteSet(S)
  BY PopulationFinite, FS_Subset
<1> QED
  BY <1>1, FS_CardinalityType DEF held_course_enrollments

(* The gate lets one more seat through.                                    *)
LEMMA GateOpen ==
    ASSUME Typed, NEW s, QuotaRefusal(s) = None
    PROVE  \/ limit = Unlimited
           \/ limit \in Nat /\ held_course_enrollments(s) + 1 <= limit
<1>1. limit \in Nat \cup {Unlimited, None}
  BY DEF Typed, TypeOK, Limit
<1>2. limit # None
  BY SentinelsApart DEF QuotaRefusal, Code
<1>3. limit \in Nat => ~(held_course_enrollments(s) + 1 > limit)
  BY <1>2, SentinelsApart DEF QuotaRefusal, Code
<1> QED
  BY <1>1, <1>2, <1>3, LoadTyped

LEMMA TablesSame ==
    ASSUME UNCHANGED tables
    PROVE  \A s \in Students : \A o :
              /\ o \in Offerings => (Enrolled(s, o)' <=> Enrolled(s, o))
              /\ held_course_enrollments(s)' = held_course_enrollments(s)
              /\ conflicting_offering(s, o)' <=> conflicting_offering(s, o)
              /\ Queued(s, o)' <=> Queued(s, o)
BY StudentFacts DEF tables, StudentKept

(* The candidate tried next waits in the queue without the seat.           *)
LEMMA CandidateQueued ==
    ASSUME CourseInv, NEW q \in Requests, pc[q] = "promote", todo[q] # {}
    PROVE  LET s == NextEntry(q).student  o == call[q].offering IN
           /\ NextEntry(q) \in Queue(o) /\ s \in Students /\ o \in Offerings
           /\ Queued(s, o) /\ ~Enrolled(s, o)
<1>1. NextEntry(q) \in Queue(call[q].offering)
  BY NextEntryTyped DEF CourseInv, Decided
<1>2. NextEntry(q).student \in Students /\ call[q].offering \in Offerings
  BY NextEntryTyped, CallTyped DEF CourseInv, InFlight
<1>3. Queued(NextEntry(q).student, call[q].offering)
  BY <1>1 DEF Queue, Queued, EntriesOf
<1> QED
  BY <1>1, <1>2, <1>3 DEF CourseInv, OneClaim

LEMMA WhyNotMeans ==
    ASSUME NEW s \in Students, NEW o \in Offerings, ~Enrolled(s, o)
    PROVE  /\ WhyNot(s, o) \in {None, "QUOTA", "CLASH"}
           /\ WhyNot(s, o) = "CLASH" => conflicting_offering(s, o)
           /\ WhyNot(s, o) = None => QuotaRefusal(s) = None /\ ~conflicting_offering(s, o)
<1>1. None \notin {"QUOTA", "CLASH", "SEATED"}
  BY SentinelsApart DEF Reason
<1> QED
  BY <1>1 DEF WhyNot

LEMMA OwnDecided ==
    ASSUME CourseInv, NEW q \in Requests, Runs(q)
    PROVE  Decided(q)'
<1> USE DEF Goto, notes, promotion
<1>1. CASE Refused(q) \/ Commits(q)
  BY <1>1, Released DEF CourseInv, Decided, WritesSeat
<1>2. CASE Reads(q) \/ Locks(q)
  <2>0. Typed /\ LocksHeld /\ Decided(q) /\ InFlight(q)
    BY <1>2 DEF CourseInv, InFlight, Reads, RegisterAdmitted, DropFrees, CandidateBusy,
                JoinNotSeated, JoinFresh, JoinReread, LeaveFound, Locks, LockStudent,
                RegisterLockSeat, DropLockSeat, CandidateUnfit, CandidateSeated,
                JoinLockShare, LeaveLockShare
  <2>1. PICK s \in Students, o \in Offerings : s = call[q].student /\ o = call[q].offering
    BY <2>0, CallTyped
  <2>2. UNCHANGED tables /\ call' = call
    BY <1>2 DEF Reads, RegisterAdmitted, DropFrees, CandidateBusy, PassOver, JoinNotSeated,
                JoinFresh, JoinReread, LeaveFound, Locks, LockStudent, RegisterLockSeat,
                DropLockSeat, LockSeat, CandidateUnfit, CandidateSeated, JoinLockShare,
                LeaveLockShare, LockShare, tables
  <2>3. /\ enrollments' = enrollments /\ offerings' = offerings /\ waitlist' = waitlist
        /\ s = call'[q].student /\ o = call'[q].offering
        /\ Queue(o)' = Queue(o)
        /\ \A t \in Students :
              /\ Enrolled(t, o)' <=> Enrolled(t, o)
              /\ held_course_enrollments(t)' = held_course_enrollments(t)
              /\ conflicting_offering(t, o)' <=> conflicting_offering(t, o)
              /\ Queued(t, o)' <=> Queued(t, o)
    BY <2>1, <2>2, TablesSame DEF tables, Queue
  <2> USE DEF Typed, TypeOK
  <2>4. CASE LockStudent(q)
    <3>1. pc'[q] \in {"gates", "lockSeat", "checkSeated", "lockShare"}
          /\ (pc'[q] = "lockSeat" => call[q].op = "drop")
          /\ (pc'[q] = "lockShare" => call[q].op = "leave")
      BY <2>0, <2>4, CallTyped DEF LockStudent, AfterStudent, Call
    <3> QED
      BY <2>3, <3>1, <2>2 DEF Decided, WritesSeat
  <2>5. CASE RegisterAdmitted(q)
    <3>1. /\ pc'[q] = "lockSeat" /\ call[q].op = "register"
          /\ existing'[q] = enrollments[<<s, o>>] /\ limitRead'[q] = limit
          /\ ~Enrolled(s, o) /\ QuotaRefusal(s) = None /\ ~conflicting_offering(s, o)
      BY <2>0, <2>1, <2>5 DEF RegisterAdmitted, SessionOK, Ops, Step
    <3>2. MayTake(q, s, o)'
      BY <2>0, <2>3, <3>1, GateOpen DEF MayTake
    <3> QED
      BY <2>2, <2>3, <3>1, <3>2 DEF Decided, WritesSeat
  <2>6. CASE RegisterLockSeat(q) \/ DropLockSeat(q)
    <3>1. /\ pc[q] = "lockSeat" /\ seen'[q] = offerings[o]
          /\ \/ pc'[q] = "commit" /\ call[q].op = "register" /\ SeatFree(offerings[o])
             \/ pc'[q] = "checkSeat" /\ call[q].op = "drop"
          /\ existing' = existing /\ limitRead' = limitRead
      BY <2>0, <2>1, <2>6 DEF RegisterLockSeat, DropLockSeat, LockSeat
    <3>2. MayTake(q, s, o) => MayTake(q, s, o)'
      BY <2>3, <3>1 DEF MayTake
    <3> QED
      BY <2>0, <2>1, <2>2, <2>3, <3>1, <3>2 DEF Decided, WritesSeat, SeatFree
  <2>7. CASE DropFrees(q)
    <3>1. /\ pc[q] = "checkSeat" /\ pc'[q] = "promote" /\ Enrolled(s, o)
          /\ todo'[q] \subseteq Queue(o)
          /\ seen' = seen /\ passed' = passed /\ promoted' = promoted
      BY <2>0, <2>1, <2>7 DEF DropFrees, Candidates
    <3>2. passed[q] = {} /\ promoted[q] = None
      BY <2>0, <3>1 DEF SessionOK
    <3> QED
      BY <2>0, <2>1, <2>2, <2>3, <3>1, <3>2 DEF Decided, WritesSeat
  <2>8. CASE CandidateBusy(q) \/ CandidateUnfit(q)
    <3>1. /\ pc[q] = "promote" /\ todo[q] # {} /\ pc' = pc
          /\ seen' = seen /\ promoted' = promoted
      BY <2>8 DEF CandidateBusy, CandidateUnfit, PassOver
    <3>2. PICK t \in Students : /\ t = NextEntry(q).student
                                /\ Queued(t, o) /\ ~Enrolled(t, o)
      BY <2>1, <3>1, CandidateQueued
    <3>3. PICK reason \in Reason :
             /\ PassOver(q, reason)
             /\ reason # "SEATED"
             /\ reason = "CLASH" => conflicting_offering(t, o)
      BY <2>1, <2>8, <3>2, WhyNotMeans DEF CandidateBusy, CandidateUnfit, Reason
    <3>4. /\ promoted[q] = None
          /\ todo'[q] \subseteq todo[q]
          /\ passed'[q] = passed[q] \cup {<<t, reason>>}
      BY <2>0, <3>1, <3>2, <3>3, PassOverTyped
    <3>5. passed[q] \subseteq Students \X Reason
      BY <2>0
    <3> QED
      BY <2>0, <2>1, <2>2, <2>3, <3>1, <3>3, <3>4, <3>5 DEF Decided, WritesSeat
  <2>9. CASE CandidateSeated(q)
    <3>1. /\ pc[q] = "promote" /\ todo[q] # {} /\ pc' = pc
          /\ seen' = seen /\ todo'[q] = {} /\ passed' = passed
          /\ limitRead'[q] = limit
      BY <2>0, <2>9 DEF CandidateSeated
    <3>2. PICK t \in Students : /\ t = NextEntry(q).student
                                /\ Queued(t, o) /\ ~Enrolled(t, o)
      BY <2>1, <3>1, CandidateQueued
    <3>3. /\ promoted'[q] = t
          /\ WhyNot(t, o) = None
      BY <2>0, <2>1, <2>9, <3>2 DEF CandidateSeated
    <3>4. QuotaRefusal(t) = None /\ ~conflicting_offering(t, o)
      BY <3>2, <3>3, WhyNotMeans
    <3>5. MayTake(q, t, o)'
      BY <2>0, <2>3, <3>1, <3>2, <3>4, GateOpen DEF MayTake
    <3>6. passed[q] \subseteq Students \X Reason
      BY <2>0
    <3> QED
      BY <2>0, <2>1, <2>2, <2>3, <3>1, <3>2, <3>3, <3>5, <3>6 DEF Decided, WritesSeat
  <2>10. CASE JoinNotSeated(q) \/ JoinLockShare(q) \/ LeaveLockShare(q)
    <3>1. /\ pc'[q] \in {"lockShare", "findEntry"}
          /\ call[q].op = "join" =>
                /\ pc'[q] = "lockShare" => ~Enrolled(s, o)
                /\ pc'[q] = "findEntry" => /\ pc[q] = "lockShare"
                                           /\ ~SeatFree(offerings[o])
      BY <2>0, <2>1, <2>10 DEF JoinNotSeated, JoinLockShare, LeaveLockShare, LockShare
    <3> QED
      BY <2>0, <2>1, <2>2, <2>3, <3>1 DEF Decided, WritesSeat, SeatFree
  <2>11. CASE JoinFresh(q) \/ LeaveFound(q)
    <3>1. /\ pc[q] = "findEntry" /\ pc'[q] = "commit" /\ call[q].op \in {"join", "leave"}
          /\ call[q].op = "join" => ~Queued(s, o)
          /\ call[q].op = "leave" => Queued(s, o)
      BY <2>0, <2>1, <2>11 DEF JoinFresh, LeaveFound
    <3> QED
      BY <2>0, <2>1, <2>2, <2>3, <3>1 DEF Decided, WritesSeat, SeatFree
  <2>12. CASE JoinReread(q)
    <3>1. pc'[q] = "position"
      BY <2>0, <2>12 DEF JoinReread
    <3> QED
      BY <3>1 DEF Decided, WritesSeat
  <2> QED
    BY <1>2, <2>4, <2>5, <2>6, <2>7, <2>8, <2>9, <2>10, <2>11, <2>12 DEF Reads, Locks
<1> QED
  BY <1>1, <1>2, StepKinds DEF CourseInv

LEMMA OthersInOrder ==
    ASSUME Typed, LocksHeld, NEW q \in Requests, Runs(q), NEW p \in Requests, p # q, InOrder(p)
    PROVE  InOrder(p)'
<1>1. Same(p) /\ LocksOK(p)
  BY OthersUntouched DEF LocksHeld
<1>2. CASE pc[p] # "promote"
  BY <1>1, <1>2 DEF Same, InOrder
<1>3. CASE pc[p] = "promote"
  <2>1. PICK o \in Offerings : o = call[p].offering
    BY <1>3, CallTyped DEF InFlight
  <2>2. o = call'[p].offering
    BY <1>1, <2>1 DEF Same
  <2>3. Queue(o)' = Queue(o)
    BY <1>1, <1>3, <2>1, RowsKept DEF LocksOK, WritesSeat, QueueKept, Queue
  <2>4. \A e : WasPassed(p, e)' <=> WasPassed(p, e)
    BY <1>1 DEF WasPassed, Same
  <2> QED
    BY <1>1, <1>3, <2>1, <2>2, <2>3, <2>4 DEF InOrder, Same
<1> QED
  BY <1>2, <1>3

LEMMA OwnInOrder ==
    ASSUME CourseInv, NEW q \in Requests, Runs(q)
    PROVE  InOrder(q)'
<1> USE DEF Goto, notes, promotion
<1>1. CASE pc'[q] # "promote"
  BY <1>1 DEF InOrder
<1>2. CASE pc'[q] = "promote"
  <2>1. DropFrees(q) \/ CandidateBusy(q) \/ CandidateUnfit(q) \/ CandidateSeated(q)
    <3>1. ~Refused(q) /\ ~Commits(q)
      BY <1>2, Released DEF CourseInv
    <3>2. Reads(q) \/ Locks(q)
      BY <3>1, StepKinds DEF CourseInv
    <3>3. ~LockStudent(q)
      BY <1>2, CallTyped
         DEF LockStudent, AfterStudent, InFlight, CourseInv, Typed, TypeOK, Call
    <3>4. ~RegisterLockSeat(q) /\ ~DropLockSeat(q)
      BY <1>2 DEF RegisterLockSeat, DropLockSeat, LockSeat, CourseInv, Typed, TypeOK
    <3>5. ~JoinLockShare(q) /\ ~LeaveLockShare(q)
      BY <1>2 DEF JoinLockShare, LeaveLockShare, LockShare, CourseInv, Typed, TypeOK
    <3>6. ~RegisterAdmitted(q)
      BY <1>2 DEF RegisterAdmitted, CourseInv, Typed, TypeOK
    <3>7. ~JoinNotSeated(q) /\ ~JoinFresh(q) /\ ~JoinReread(q) /\ ~LeaveFound(q)
      BY <1>2 DEF JoinNotSeated, JoinFresh, JoinReread, LeaveFound, CourseInv, Typed, TypeOK
    <3> QED
      BY <3>2, <3>3, <3>4, <3>5, <3>6, <3>7 DEF Reads, Locks
  <2>2. /\ waitlist' = waitlist /\ call' = call
        /\ pc[q] \in {"checkSeat", "promote"}
    BY <2>1 DEF DropFrees, CandidateBusy, CandidateUnfit, CandidateSeated, PassOver, tables
  <2>3. PICK o \in Offerings : /\ o = call[q].offering /\ Exists(o)
                               /\ offerings[o] \in OfferingRow
    BY <2>2, CallTyped DEF InFlight, CourseInv
  <2>4. o = call'[q].offering /\ Queue(o)' = Queue(o)
    BY <2>2, <2>3 DEF Queue
  <2> USE DEF CourseInv, Typed, TypeOK
  <2>5. CASE DropFrees(q)
    <3>1. offerings[o] = seen[q]
      BY <2>2, <2>3 DEF Decided, WritesSeat
    <3>2. /\ offerings[o].enrolled_count = Cardinality(Seated(o))
          /\ Cardinality(Seated(o)) <= offerings[o].capacity
      BY <2>3 DEF Counted
    <3>3. ~(seen[q].enrolled_count - 1 >= seen[q].capacity)
      BY <2>3, <3>1, <3>2 DEF OfferingRow
    <3>4. todo'[q] = Queue(o) /\ promoted'[q] = promoted[q] /\ pc[q] = "checkSeat"
      BY <2>3, <2>5, <3>3 DEF DropFrees, Candidates
    <3>5. promoted[q] = None
      BY <3>4 DEF SessionOK
    <3> QED
      BY <2>4, <3>4, <3>5 DEF InOrder
  <2>6. CASE CandidateBusy(q) \/ CandidateUnfit(q)
    <3>1. pc[q] = "promote" /\ todo[q] # {} /\ promoted' = promoted
      BY <2>6 DEF CandidateBusy, CandidateUnfit, PassOver
    <3>2. PICK reason \in Reason : PassOver(q, reason)
      BY <2>6, ReasonTyped DEF CandidateBusy, CandidateUnfit, Reason
    <3>3. /\ promoted[q] = None
          /\ todo'[q] = todo[q] \ {NextEntry(q)}
          /\ passed'[q] = passed[q] \cup {<<NextEntry(q).student, reason>>}
      BY <3>1, <3>2, PassOverTyped
    <3>4. ASSUME NEW e \in Queue(o) PROVE e \in todo'[q] \/ WasPassed(q, e)'
      BY <2>3, <3>1, <3>3 DEF InOrder, WasPassed
    <3> QED
      BY <2>4, <3>1, <3>3, <3>4 DEF InOrder
  <2>7. CASE CandidateSeated(q)
    <3>1. /\ pc[q] = "promote" /\ todo[q] # {} /\ passed' = passed
          /\ promoted'[q] = NextEntry(q).student
      BY <2>7 DEF CandidateSeated
    <3>2. promoted[q] = None
      BY <3>1 DEF SessionOK
    <3>3. PICK f : f = NextEntry(q)
      OBVIOUS
    <3>4. f \in Queue(o) /\ \A e \in todo[q] : f.created_at <= e.created_at
      BY <2>3, <3>1, <3>3, CandidateQueued, NextEntryTyped
    <3>5. \A e : WasPassed(q, e)' <=> WasPassed(q, e)
      BY <3>1 DEF WasPassed
    <3>6. \A e \in Queue(o) : f.created_at <= e.created_at \/ WasPassed(q, e)
      BY <2>3, <3>1, <3>2, <3>4 DEF InOrder
    <3>7. promoted'[q] # None
      BY <3>1, NextEntryTyped, SentinelsApart
    <3> QED
      BY <2>4, <3>1, <3>3, <3>4, <3>5, <3>6, <3>7 DEF InOrder
  <2> QED
    BY <2>1, <2>5, <2>6, <2>7
<1> QED
  BY <1>1, <1>2

(* A step that leaves the rows of its section alone leaves a request alone.*)
LEMMA QuietDecided ==
    ASSUME Typed, NEW p \in Requests, Same(p), enrollments' = enrollments, waitlist' = waitlist,
           InFlight(p) => offerings'[call[p].offering] = offerings[call[p].offering],
           Decided(p), InOrder(p)
    PROVE  Decided(p)' /\ InOrder(p)'
<1>1. CASE ~InFlight(p)
  BY <1>1 DEF Same, InFlight, Decided, InOrder, WritesSeat
<1>2. CASE InFlight(p)
  <2>1. PICK s \in Students, o \in Offerings : s = call[p].student /\ o = call[p].offering
    BY <1>2, CallTyped
  <2>2. s = call'[p].student /\ o = call'[p].offering /\ offerings'[o] = offerings[o]
    BY <1>2, <2>1 DEF Same
  <2>3. \A t \in Students : StudentKept(t)
    BY DEF StudentKept
  <2>4. \A t \in Students :
            /\ Enrolled(t, o)' <=> Enrolled(t, o)
            /\ conflicting_offering(t, o)' <=> conflicting_offering(t, o)
            /\ Queued(t, o)' <=> Queued(t, o)
            /\ MayTake(p, t, o)' <=> MayTake(p, t, o)
    BY <2>3, StudentFacts DEF MayTake, Same
  <2>5. Queue(o)' = Queue(o) /\ \A e : WasPassed(p, e)' <=> WasPassed(p, e)
    BY DEF Queue, WasPassed, Same
  <2>6. passed[p] \subseteq Students \X Reason /\ promoted[p] \in Students \cup {None}
    BY DEF Typed, TypeOK
  <2>7. Decided(p)'
    BY <2>1, <2>2, <2>4, <2>5, <2>6 DEF Same, Decided, WritesSeat, SeatFree
  <2>8. InOrder(p)'
    BY <2>1, <2>2, <2>5 DEF Same, InOrder
  <2> QED
    BY <2>7, <2>8
<1> QED
  BY <1>1, <1>2

LEMMA DecidedInductive ==
    ASSUME CourseInv, [Next]_vars
    PROVE  \A q \in Requests : Decided(q)' /\ InOrder(q)'
<1> USE DEF CourseInv
<1>1. ASSUME NEW q \in Requests, Runs(q), NEW p \in Requests
      PROVE  Decided(p)' /\ InOrder(p)'
  BY <1>1, OwnDecided, OwnInOrder, OthersDecided, OthersInOrder
<1>2. ASSUME NEW q \in Requests, NEW c \in Calls, Arrive(q, c) \/ ArriveNotFound(q, c),
             NEW p \in Requests
      PROVE  Decided(p)' /\ InOrder(p)'
  <2> USE DEF Arrive, ArriveNotFound, Goto, notes, promotion, tables, Typed, TypeOK
  <2>1. CASE p = q
    <3>1. pc'[p] \in {"lockStudent", "done"}
      BY <1>2, <2>1
    <3> QED
      BY <3>1 DEF Decided, WritesSeat, InOrder
  <2>2. CASE p # q
    <3>1. /\ Same(p) /\ UNCHANGED tables
      BY <1>2, <2>2 DEF Same
    <3> QED
      BY <3>1, QuietDecided
  <2> QED
    BY <2>1, <2>2
<1>3. ASSUME Admin \/ UNCHANGED vars, NEW p \in Requests
      PROVE  Decided(p)' /\ InOrder(p)'
  <2>1. /\ Same(p) /\ enrollments' = enrollments /\ waitlist' = waitlist
    BY <1>3 DEF Admin, CreateOffering, PutQuota, session, notes, promotion, vars, Same
  <2>2. ASSUME InFlight(p)
        PROVE  offerings'[call[p].offering] = offerings[call[p].offering]
    <3>1. call[p].offering \in Offerings /\ Exists(call[p].offering)
      BY <2>2, CallTyped
    <3> QED
      BY <1>3, <3>1, OpenedRow DEF Admin, PutQuota, vars, Exists
  <2> QED
    BY <2>1, <2>2, QuietDecided
<1> QED
  BY <1>1, <1>2, <1>3 DEF Next, Runs

-----------------------------------------------------------------------------
(* Seats, claims and hours.                                                *)

LEMMA SeatedFinite == \A o : IsFiniteSet(Seated(o)) /\ Cardinality(Seated(o)) \in Nat
<1> SUFFICES ASSUME NEW o PROVE IsFiniteSet(Seated(o)) /\ Cardinality(Seated(o)) \in Nat
  OBVIOUS
<1>1. IsFiniteSet(Seated(o))
  BY PopulationFinite, FS_Subset DEF Seated
<1> QED
  BY <1>1, FS_CardinalityType

(* The two COMMITs that move seats, with what was decided before them.     *)
SeatTakenBy(q, s, o) ==
    /\ s = call[q].student /\ o = call[q].offering
    /\ Exists(o) /\ offerings[o] \in OfferingRow
    /\ MayTake(q, s, o) /\ offerings[o] = seen[q] /\ SeatFree(offerings[o])
    /\ \A t \in Students, r \in Offerings :
          Enrolled(t, r)' <=> (Enrolled(t, r) \/ (t = s /\ r = o))
    /\ \A e : e \in waitlist' <=> e \in waitlist /\ ~(e.offering = o /\ e.student = s)

LEMMA SeatTaken ==
    ASSUME CourseInv, NEW q \in Requests, RegisterCommit(q)
    PROVE  \E s \in Students, o \in Offerings : SeatTakenBy(q, s, o)
<1>1. InFlight(q) /\ pc[q] = "commit" /\ call[q].op = "register"
  BY DEF RegisterCommit, InFlight
<1>2. PICK s \in Students, o \in Offerings : s = call[q].student /\ o = call[q].offering
  BY <1>1, CallTyped DEF CourseInv
<1>3. Exists(o) /\ offerings[o] \in OfferingRow
  BY <1>1, <1>2, CallTyped DEF CourseInv
<1>4. MayTake(q, s, o) /\ offerings[o] = seen[q] /\ SeatFree(offerings[o])
  BY <1>1, <1>2 DEF CourseInv, Decided, WritesSeat
<1>5. \A t \in Students, r \in Offerings :
         Enrolled(t, r)' <=> (Enrolled(t, r) \/ (t = s /\ r = o))
  BY <1>2, RegisterWrites DEF CourseInv
<1>6. \A e : e \in waitlist' <=> e \in waitlist /\ ~(e.offering = o /\ e.student = s)
  BY <1>2, RegisterWrites DEF CourseInv, EntriesOf
<1> QED
  BY <1>2, <1>3, <1>4, <1>5, <1>6 DEF SeatTakenBy

(* t is the student promoted, None if the seat stays free.                 *)
SeatMovedBy(q, s, t, o) ==
    /\ s = call[q].student /\ o = call[q].offering /\ t = promoted[q]
    /\ Exists(o) /\ offerings[o] \in OfferingRow
    /\ Enrolled(s, o) /\ offerings[o] = seen[q]
    /\ t # None => /\ t \in Students /\ t # s
                   /\ Queued(t, o) /\ MayTake(q, t, o)
    /\ \A u \in Students, r \in Offerings :
          Enrolled(u, r)' <=> /\ ~(u = s /\ r = o)
                              /\ Enrolled(u, r) \/ (u = t /\ r = o)
    /\ \A e : e \in waitlist' <=> e \in waitlist /\ ~(e.offering = o /\ e.student = t)

LEMMA SeatMoved ==
    ASSUME CourseInv, NEW q \in Requests, DropCommit(q)
    PROVE  \E s \in Students, t \in Students \cup {None}, o \in Offerings :
              SeatMovedBy(q, s, t, o)
<1>1. InFlight(q) /\ pc[q] = "promote"
  BY DEF DropCommit, InFlight
<1>2. PICK s \in Students, t \in Students \cup {None}, o \in Offerings :
         s = call[q].student /\ o = call[q].offering /\ t = promoted[q]
  BY <1>1, CallTyped DEF CourseInv, Typed, TypeOK
<1>3. Exists(o) /\ offerings[o] \in OfferingRow
  BY <1>1, <1>2, CallTyped DEF CourseInv
<1>4. /\ Enrolled(s, o) /\ offerings[o] = seen[q]
      /\ t # None => Queued(t, o) /\ MayTake(q, t, o)
      /\ \A x \in passed[q] : x[2] # "SEATED"
  BY <1>1, <1>2 DEF CourseInv, Decided, WritesSeat
<1>5. t # None => t \in Students /\ t # s
  BY <1>4 DEF MayTake
<1>6. \A u \in Students, r \in Offerings :
         Enrolled(u, r)' <=> /\ ~(u = s /\ r = o)
                             /\ Enrolled(u, r) \/ (u = t /\ r = o)
  BY <1>2, DropWrites DEF CourseInv
<1>7. Stale(q) = {}
  BY <1>4 DEF Stale
<1>8. \A e : e \in waitlist' <=> e \in waitlist /\ ~(e.offering = o /\ e.student = t)
  BY <1>2, <1>7, DropWrites DEF Leaving, Queue, CourseInv
<1> QED
  BY <1>2, <1>3, <1>4, <1>5, <1>6, <1>8 DEF SeatMovedBy

(* How many sit in a section, after either.                                *)
LEMMA OneMore ==
    ASSUME NEW q, NEW s \in Students, NEW o \in Offerings, SeatTakenBy(q, s, o)
    PROVE  /\ Cardinality(Seated(o))' = Cardinality(Seated(o)) + 1
           /\ \A r \in Offerings : r # o => Seated(r)' = Seated(r)
<1>1. Seated(o)' = Seated(o) \cup {s} /\ s \notin Seated(o)
  BY DEF Seated, SeatTakenBy, MayTake
<1>2. Cardinality(Seated(o) \cup {s}) = Cardinality(Seated(o)) + 1
  BY <1>1, SeatedFinite, FS_AddElement
<1>3. \A r \in Offerings : r # o => Seated(r)' = Seated(r)
  BY DEF SeatTakenBy, Seated
<1> QED
  BY <1>1, <1>2, <1>3

LEMMA OneLessOrSame ==
    ASSUME NEW q, NEW s \in Students, NEW t \in Students \cup {None}, NEW o \in Offerings,
           SeatMovedBy(q, s, t, o)
    PROVE  /\ t = None => Cardinality(Seated(o))' = Cardinality(Seated(o)) - 1
           /\ t # None => Cardinality(Seated(o))' = Cardinality(Seated(o))
           /\ \A r \in Offerings : r # o => Seated(r)' = Seated(r)
<1> DEFINE S == Seated(o) \ {s}
<1>1. s \in Seated(o)
  BY DEF Seated, SeatMovedBy
<1>2. IsFiniteSet(S) /\ Cardinality(S) = Cardinality(Seated(o)) - 1
  BY <1>1, SeatedFinite, FS_RemoveElement
<1>3. Cardinality(Seated(o)) \in Nat
  BY SeatedFinite
<1>4. \A r \in Offerings : r # o => Seated(r)' = Seated(r)
  BY DEF SeatMovedBy, Seated
<1>5. CASE t = None
  <2>1. Seated(o)' = S
    BY <1>5, SentinelsApart DEF Seated, SeatMovedBy
  <2> QED
    BY <1>2, <1>4, <1>5, <2>1
<1>6. CASE t # None
  <2>1. Seated(o)' = S \cup {t} /\ t \notin S
    BY <1>6 DEF Seated, SeatMovedBy, MayTake
  <2>2. Cardinality(S \cup {t}) = Cardinality(S) + 1
    BY <1>2, <2>1, FS_AddElement
  <2>3. Cardinality(Seated(o)') = Cardinality(Seated(o))
    <3> HIDE DEF S
    <3> QED
      BY <1>2, <1>3, <2>1, <2>2
  <2> QED
    BY <1>4, <1>6, <2>3
<1> QED
  BY <1>5, <1>6

LEMMA CountedInductive ==
    ASSUME CourseInv, [Next]_vars
    PROVE  Counted'
<1> USE DEF CourseInv
<1>1. ASSUME NEW q \in Requests, RegisterCommit(q) PROVE Counted'
  <2>1. PICK s \in Students, o \in Offerings : SeatTakenBy(q, s, o)
    BY <1>1, SeatTaken
  <2>2. /\ offerings'[o].enrolled_count = offerings[o].enrolled_count + 1
        /\ offerings'[o].capacity = offerings[o].capacity
        /\ Exists(o)'
        /\ \A r \in Offerings : r # o => offerings'[r] = offerings[r]
    BY <1>1, <2>1, RegisterWrites, SentinelsApart DEF Exists, SeatTakenBy
  <2>3. \A t, r : Queued(t, r)' => Queued(t, r)
    BY <2>1 DEF Queued, EntriesOf, SeatTakenBy
  <2>4. Cardinality(Seated(o)) \in Nat
    BY SeatedFinite
  <2> SUFFICES ASSUME NEW r \in Offerings
               PROVE  /\ Exists(r)' =>
                           /\ offerings'[r].enrolled_count = Cardinality(Seated(r))'
                           /\ Cardinality(Seated(r))' <= offerings'[r].capacity
                      /\ \A t \in Students : Enrolled(t, r)' \/ Queued(t, r)' => Exists(r)'
    BY DEF Counted
  <2>5. CASE r = o
    <3>1. /\ Cardinality(Seated(o))' = Cardinality(Seated(o)) + 1
          /\ offerings[o].enrolled_count = Cardinality(Seated(o))
          /\ offerings[o].enrolled_count < offerings[o].capacity
          /\ offerings[o].capacity \in Nat
      BY <2>1, OneMore DEF Counted, SeatTakenBy, SeatFree, OfferingRow
    <3> QED
      BY <2>2, <2>4, <2>5, <3>1
  <2>6. CASE r # o
    <3>1. /\ Seated(r)' = Seated(r) /\ (Exists(r)' <=> Exists(r))
          /\ \A t \in Students : Enrolled(t, r)' <=> Enrolled(t, r)
      BY <2>1, <2>2, <2>6, OneMore DEF Exists, SeatTakenBy
    <3> QED
      BY <2>2, <2>3, <2>6, <3>1 DEF Counted
  <2> QED
    BY <2>5, <2>6
<1>2. ASSUME NEW q \in Requests, DropCommit(q) PROVE Counted'
  <2>1. PICK s \in Students, t \in Students \cup {None}, o \in Offerings :
           SeatMovedBy(q, s, t, o)
    BY <1>2, SeatMoved
  <2>2. /\ offerings'[o].enrolled_count = IF t = None THEN offerings[o].enrolled_count - 1
                                                      ELSE offerings[o].enrolled_count
        /\ offerings'[o].capacity = offerings[o].capacity
        /\ Exists(o)'
        /\ \A r \in Offerings : r # o => offerings'[r] = offerings[r]
    BY <1>2, <2>1, DropWrites, SentinelsApart DEF Exists, SeatMovedBy
  <2>3. \A u, r : Queued(u, r)' => Queued(u, r)
    BY <2>1 DEF Queued, EntriesOf, SeatMovedBy
  <2>4. Cardinality(Seated(o)) \in Nat
    BY SeatedFinite
  <2> SUFFICES ASSUME NEW r \in Offerings
               PROVE  /\ Exists(r)' =>
                           /\ offerings'[r].enrolled_count = Cardinality(Seated(r))'
                           /\ Cardinality(Seated(r))' <= offerings'[r].capacity
                      /\ \A u \in Students : Enrolled(u, r)' \/ Queued(u, r)' => Exists(r)'
    BY DEF Counted
  <2>5. CASE r = o
    <3>1. /\ offerings[o].enrolled_count = Cardinality(Seated(o))
          /\ Cardinality(Seated(o)) <= offerings[o].capacity
          /\ offerings[o].capacity \in Nat
      BY <2>1 DEF Counted, SeatMovedBy, OfferingRow
    <3> QED
      BY <2>1, <2>2, <2>4, <2>5, <3>1, OneLessOrSame
  <2>6. CASE r # o
    <3>1. /\ Seated(r)' = Seated(r) /\ (Exists(r)' <=> Exists(r))
          /\ \A u \in Students : Enrolled(u, r)' <=> Enrolled(u, r)
      BY <2>1, <2>2, <2>6, OneLessOrSame DEF Exists, SeatMovedBy
    <3> QED
      BY <2>2, <2>3, <2>6, <3>1 DEF Counted
  <2> QED
    BY <2>5, <2>6
<1>3. ASSUME NEW q \in Requests, JoinCommit(q) PROVE Counted'
  <2>1. /\ Exists(call[q].offering) /\ OwnEntry(q).offering = call[q].offering
        /\ waitlist' = waitlist \cup {OwnEntry(q)}
        /\ offerings' = offerings /\ enrollments' = enrollments
    BY <1>3, CallTyped, OwnEntryTyped DEF JoinCommit, InFlight
  <2>2. \A t, r : Queued(t, r)' => Queued(t, r) \/ r = call[q].offering
    BY <2>1 DEF Queued, EntriesOf
  <2> QED
    BY <2>1, <2>2 DEF Counted, Exists, Seated, Enrolled
<1>4. ASSUME NEW q \in Requests, LeaveCommit(q) PROVE Counted'
  BY <1>4 DEF LeaveCommit, Counted, Exists, Seated, Enrolled, Queued, EntriesOf
<1>5. ASSUME UNCHANGED tables PROVE Counted'
  BY <1>5 DEF tables, Counted, Exists, Seated, Enrolled, Queued, EntriesOf
<1>6. ASSUME NEW o \in Offerings, NEW n \in Capacities, CreateOffering(o, n) PROVE Counted'
  <2>1. /\ enrollments' = enrollments /\ waitlist' = waitlist /\ ~Exists(o)
        /\ offerings'[o].capacity = n /\ offerings'[o].enrolled_count = 0 /\ Exists(o)'
        /\ \A r \in Offerings : r # o => offerings'[r] = offerings[r]
        /\ n \in Nat
    BY <1>6, OpenedRow, PolicyTyped DEF CreateOffering
  <2>2. Seated(o) = {}
    BY <2>1 DEF Counted, Seated
  <2>3. Cardinality(Seated(o)) = 0
    BY <2>2, FS_EmptySet
  <2>4. \A r : Seated(r)' = Seated(r) /\ \A t : Queued(t, r)' <=> Queued(t, r)
    BY <2>1 DEF Seated, Enrolled, Queued, EntriesOf
  <2> QED
    BY <2>1, <2>3, <2>4 DEF Counted, Exists, Enrolled
<1>7. ASSUME NEW n \in Limits, PutQuota(n) PROVE Counted'
  BY <1>7 DEF PutQuota, Counted, Exists, Seated, Enrolled, Queued, EntriesOf
<1>8. UNCHANGED vars => UNCHANGED tables
  BY DEF vars, tables
<1>9. ASSUME NEW q \in Requests, NEW c \in Calls, Arrive(q, c) \/ ArriveNotFound(q, c)
      PROVE  UNCHANGED tables
  BY <1>9 DEF Arrive, ArriveNotFound
<1> QED
  BY <1>1, <1>2, <1>3, <1>4, <1>5, <1>6, <1>7, <1>8, <1>9, OnlyCommitsWrite
     DEF Next, Runs, Admin, Commits

LEMMA OneClaimInductive ==
    ASSUME CourseInv, [Next]_vars
    PROVE  OneClaim'
<1> USE DEF CourseInv
<1>0. waitlist \subseteq Entry
  BY DEF Typed, TypeOK
<1>1. ASSUME NEW q \in Requests, RegisterCommit(q) PROVE OneClaim'
  <2>1. PICK s \in Students, o \in Offerings : SeatTakenBy(q, s, o)
    BY <1>1, SeatTaken
  <2> QED
    BY <1>0, <2>1 DEF SeatTakenBy, OneClaim, Queued, EntriesOf
<1>2. ASSUME NEW q \in Requests, DropCommit(q) PROVE OneClaim'
  <2>1. PICK s \in Students, t \in Students \cup {None}, o \in Offerings :
           SeatMovedBy(q, s, t, o)
    BY <1>2, SeatMoved
  <2> QED
    BY <1>0, <2>1 DEF SeatMovedBy, OneClaim, Queued, EntriesOf
<1>3. ASSUME NEW q \in Requests, JoinCommit(q) PROVE OneClaim'
  <2>1. PICK s \in Students, o \in Offerings, e \in Entry :
           /\ s = call[q].student /\ o = call[q].offering
           /\ e = OwnEntry(q) /\ e.student = s /\ e.offering = o
    BY <1>3, CallTyped, OwnEntryTyped DEF JoinCommit, InFlight
  <2>2. ~Enrolled(s, o) /\ ~Queued(s, o)
    BY <1>3, <2>1 DEF JoinCommit, Decided
  <2>3. waitlist' = waitlist \cup {e} /\ enrollments' = enrollments
    BY <1>3, <2>1 DEF JoinCommit
  <2>4. \A f \in waitlist : ~(f.student = s /\ f.offering = o)
    BY <2>2 DEF Queued, EntriesOf
  <2>5. \A t \in Students, r \in Offerings :
            Queued(t, r)' => Queued(t, r) \/ (t = s /\ r = o)
    BY <2>1, <2>3 DEF Queued, EntriesOf
  <2>6. \A t \in Students, r \in Offerings : Enrolled(t, r)' <=> Enrolled(t, r)
    BY <2>3 DEF Enrolled
  <2> QED
    BY <2>1, <2>2, <2>3, <2>4, <2>5, <2>6 DEF OneClaim
<1>4. ASSUME NEW q \in Requests, LeaveCommit(q) PROVE OneClaim'
  BY <1>4 DEF LeaveCommit, OneClaim, Enrolled, Queued, EntriesOf
<1>5. ASSUME enrollments' = enrollments, waitlist' = waitlist PROVE OneClaim'
  BY <1>5 DEF OneClaim, Enrolled, Queued, EntriesOf
<1>6. ASSUME UNCHANGED tables \/ Admin \/ UNCHANGED vars
      PROVE  enrollments' = enrollments /\ waitlist' = waitlist
  BY <1>6 DEF tables, vars, Admin, CreateOffering, PutQuota
<1>7. ASSUME NEW q \in Requests, NEW c \in Calls, Arrive(q, c) \/ ArriveNotFound(q, c)
      PROVE  UNCHANGED tables
  BY <1>7 DEF Arrive, ArriveNotFound
<1> QED
  BY <1>1, <1>2, <1>3, <1>4, <1>5, <1>6, <1>7, OnlyCommitsWrite DEF Next, Runs, Commits

LEMMA ClashesBothWays == \A a, b : Clashes(a, b) => Clashes(b, a)
BY DEF Clashes, days_overlap, times_overlap

LEMMA NoScheduleClashInductive ==
    ASSUME CourseInv, [Next]_vars
    PROVE  NoScheduleClash'
<1> USE DEF CourseInv
<1>0. \A a : ~Clashes(a, a)
  BY DEF Clashes
<1>1. ASSUME NEW q \in Requests, RegisterCommit(q) PROVE NoScheduleClash'
  <2>1. PICK s \in Students, o \in Offerings : SeatTakenBy(q, s, o)
    BY <1>1, SeatTaken
  <2>2. \A a \in Offerings : Enrolled(s, a) => ~Clashes(a, o) /\ ~Clashes(o, a)
    BY <2>1, ClashesBothWays DEF SeatTakenBy, MayTake, conflicting_offering
  <2> SUFFICES ASSUME NEW u \in Students, NEW a \in Offerings, NEW b \in Offerings,
                      Enrolled(u, a)', Enrolled(u, b)'
               PROVE  ~Clashes(a, b)
    BY DEF NoScheduleClash, Clashes, days_overlap, times_overlap
  <2>3. /\ Enrolled(u, a) \/ (u = s /\ a = o)
        /\ Enrolled(u, b) \/ (u = s /\ b = o)
    BY <2>1 DEF SeatTakenBy
  <2> QED
    BY <1>0, <2>2, <2>3 DEF NoScheduleClash
<1>2. ASSUME NEW q \in Requests, DropCommit(q) PROVE NoScheduleClash'
  <2>1. PICK s \in Students, t \in Students \cup {None}, o \in Offerings :
           SeatMovedBy(q, s, t, o)
    BY <1>2, SeatMoved
  <2>2. \A a \in Offerings : t \in Students /\ Enrolled(t, a) => ~Clashes(a, o) /\ ~Clashes(o, a)
    BY <2>1, ClashesBothWays, SentinelsApart DEF SeatMovedBy, MayTake, conflicting_offering
  <2> SUFFICES ASSUME NEW u \in Students, NEW a \in Offerings, NEW b \in Offerings,
                      Enrolled(u, a)', Enrolled(u, b)'
               PROVE  ~Clashes(a, b)
    BY DEF NoScheduleClash, Clashes, days_overlap, times_overlap
  <2>3. /\ Enrolled(u, a) \/ (u = t /\ a = o)
        /\ Enrolled(u, b) \/ (u = t /\ b = o)
    BY <2>1 DEF SeatMovedBy
  <2> QED
    BY <1>0, <2>2, <2>3 DEF NoScheduleClash
<1>3. ASSUME enrollments' = enrollments PROVE NoScheduleClash'
  BY <1>3 DEF NoScheduleClash, Enrolled, Clashes, days_overlap, times_overlap
<1>4. ASSUME NEW q \in Requests, JoinCommit(q) \/ LeaveCommit(q) PROVE enrollments' = enrollments
  BY <1>4 DEF JoinCommit, LeaveCommit
<1>5. ASSUME UNCHANGED tables \/ Admin \/ UNCHANGED vars PROVE enrollments' = enrollments
  BY <1>5 DEF tables, vars, Admin, CreateOffering, PutQuota
<1>6. ASSUME NEW q \in Requests, NEW c \in Calls, Arrive(q, c) \/ ArriveNotFound(q, c)
      PROVE  UNCHANGED tables
  BY <1>6 DEF Arrive, ArriveNotFound
<1> QED
  BY <1>1, <1>2, <1>3, <1>4, <1>5, <1>6, OnlyCommitsWrite DEF Next, Runs, Commits

LEMMA InitCourseInv == Init => CourseInv
<1> SUFFICES ASSUME Init PROVE CourseInv
  OBVIOUS
<1>1. Typed
  BY InitTyped
<1>2. LocksHeld
  BY DEF Init, LocksHeld, LocksOK, NoLocksElse, AfterUser, WritesSeat, ReadsSeat, Clash
<1>3. /\ \A s \in Students, o \in Offerings : Enrolled(s, o) <=> <<s, o>> \in SeededSeats
      /\ waitlist = SeededQueue
  BY SentinelsApart DEF Init, Enrolled, EnrollmentStatus
<1>4. \A o \in Offerings : Exists(o) <=> o \in DOMAIN SeededCapacity
  <2> DEFINE S(o) == { s \in Students : <<s, o>> \in SeededSeats }
             Row(o) == [capacity |-> SeededCapacity[o], enrolled_count |-> Cardinality(S(o))]
  <2>1. ASSUME NEW o \in DOMAIN SeededCapacity PROVE Row(o) # None
    <3>1. Row(o) \in OfferingRow
      BY SeedCount, SeedTyped DEF OfferingRow
    <3> HIDE DEF Row
    <3> QED
      BY <3>1, SentinelsApart
  <2>2. \A o \in Offerings :
           offerings[o] = IF o \in DOMAIN SeededCapacity THEN Row(o) ELSE None
    BY DEF Init
  <2> HIDE DEF Row
  <2> QED
    BY <2>1, <2>2 DEF Exists
<1>5. Counted
  <2> SUFFICES ASSUME NEW o \in Offerings
               PROVE  /\ Exists(o) =>
                           /\ offerings[o].enrolled_count = Cardinality(Seated(o))
                           /\ Cardinality(Seated(o)) <= offerings[o].capacity
                      /\ \A s \in Students : Enrolled(s, o) \/ Queued(s, o) => Exists(o)
    BY DEF Counted
  <2> DEFINE S == { s \in Students : <<s, o>> \in SeededSeats }
  <2>1. Seated(o) = S
    BY <1>3 DEF Seated
  <2>2. Exists(o) => /\ offerings[o].enrolled_count = Cardinality(S)
                     /\ offerings[o].capacity = SeededCapacity[o]
    BY <1>4 DEF Init
  <2>3. Exists(o) => Cardinality(S) <= SeededCapacity[o]
    BY <1>4, SeedLegal
  <2>4. \A s \in Students : Enrolled(s, o) \/ Queued(s, o) => Exists(o)
    BY <1>3, <1>4, SeedTyped, SeedLegal DEF Queued, EntriesOf
  <2> QED
    BY <2>1, <2>2, <2>3, <2>4
<1>6. OneClaim
  BY <1>3, SeedLegal DEF OneClaim, Queued, EntriesOf
<1>7. NoScheduleClash
  <2>1. \A s \in Students, a, b \in Offerings :
           <<s, a>> \in SeededSeats /\ <<s, b>> \in SeededSeats => ~Clashes(a, b)
    BY SeedLegal
  <2> QED
    BY <1>3, <2>1 DEF NoScheduleClash
<1>8. \A q \in Requests : Decided(q) /\ InOrder(q)
  BY DEF Init, Decided, InOrder, WritesSeat
<1> QED
  BY <1>1, <1>2, <1>5, <1>6, <1>7, <1>8 DEF CourseInv

LEMMA CourseInductive == ASSUME CourseInv, [Next]_vars PROVE CourseInv'
<1>1. Typed'
  BY NextTyped DEF CourseInv
<1>2. LocksHeld'
  BY LocksHeldInductive DEF CourseInv
<1> QED
  BY <1>1, <1>2, CountedInductive, OneClaimInductive, NoScheduleClashInductive,
     DecidedInductive DEF CourseInv

LEMMA CourseInvariant == Spec => []CourseInv
BY InitCourseInv, CourseInductive, PTL DEF Spec

-----------------------------------------------------------------------------
(* The counter of an offering's row is the number of ACTIVE enrollments,   *)
(* for any number of students, sections and requests (register, drop).     *)
THEOREM CounterIsSeats == Spec => []CounterMatchesSeats
<1>1. CourseInv => CounterMatchesSeats
  BY DEF CourseInv, Counted, CounterMatchesSeats
<1> QED
  BY <1>1, CourseInvariant, PTL

(* No section seats more students than its capacity.                       *)
THEOREM NeverOverbooked == Spec => []NoOverbooking
<1>1. CourseInv => NoOverbooking
  BY DEF CourseInv, Counted, NoOverbooking
<1> QED
  BY <1>1, CourseInvariant, PTL

(* A student has a seat or one entry in the queue, never both nor two      *)
(* entries: what no unique constraint of either table alone enforces.      *)
THEOREM SeatOrQueue == Spec => []SeatXorQueue
<1>1. CourseInv => SeatXorQueue
  <2> SUFFICES ASSUME CourseInv, NEW s \in Students, NEW o \in Offerings
               PROVE  Cardinality(EntriesOf(s, o)) <= 1
    BY DEF CourseInv, OneClaim, SeatXorQueue
  <2>1. \A e, f \in EntriesOf(s, o) : e = f
    BY DEF CourseInv, OneClaim, EntriesOf
  <2>2. CASE EntriesOf(s, o) = {}
    BY <2>2, FS_EmptySet
  <2>3. CASE EntriesOf(s, o) # {}
    <3>1. PICK e : EntriesOf(s, o) = {e}
      BY <2>1, <2>3
    <3>2. Cardinality({e}) = 1
      BY FS_Singleton
    <3> QED
      BY <3>1, <3>2
  <2> QED
    BY <2>2, <2>3
<1> QED
  BY <1>1, CourseInvariant, PTL

(* No student is ever seated in two sections that meet at one time.        *)
THEOREM HoursNeverClash == Spec => []NoScheduleClash
<1>1. CourseInv => NoScheduleClash
  BY DEF CourseInv
<1> QED
  BY <1>1, CourseInvariant, PTL

(* The course load a gate let through is still within the limit it read    *)
(* when the seat is taken, for the caller and for the student promoted.    *)
THEOREM LoadStaysSecured == Spec => []LoadSecured
<1>1. CourseInv => LoadSecured
  BY DEF CourseInv, Decided, MayTake, LoadSecured
<1> QED
  BY <1>1, CourseInvariant, PTL

(* What a request read under its locks is still so when it commits.        *)
THEOREM DecisionsStayCurrent == Spec => []DecidedOnCurrentRows
<1>1. CourseInv => DecidedOnCurrentRows
  <2> SUFFICES ASSUME CourseInv, NEW q \in Requests, InFlight(q), Decided(q)
               PROVE  LET s == call[q].student  o == call[q].offering IN
                      /\ call[q].op = "register" /\ pc[q] \in {"lockSeat", "commit"} =>
                            enrollments[<<s, o>>] = existing[q]
                      /\ call[q].op = "register" /\ pc[q] = "commit" =>
                            offerings[o] = seen[q] /\ SeatFree(seen[q])
                      /\ pc[q] \in {"checkSeat", "promote"} => offerings[o] = seen[q]
                      /\ pc[q] = "promote" => /\ Enrolled(s, o)
                                              /\ todo[q] \subseteq Queue(o)
                                              /\ promoted[q] # None => Queued(promoted[q], o)
                      /\ call[q].op = "join" /\ pc[q] \in {"findEntry", "commit"} =>
                            ~SeatFree(offerings[o]) /\ ~Enrolled(s, o)
    BY DEF CourseInv, DecidedOnCurrentRows
  <2> QED
    BY DEF Decided, WritesSeat
<1> QED
  BY <1>1, CourseInvariant, PTL

(* No circle of waiting requests can form, whatever their number: one that *)
(* holds an offering's row waits for nobody.                               *)
THEOREM NeverStuck == Spec => []NoDeadlock
<1>1. CourseInv => NoDeadlock
  BY NoCircle DEF CourseInv
<1> QED
  BY <1>1, CourseInvariant, PTL

(* Only its COMMIT takes a request from a promotion to its answer.         *)
LEMMA PromotionCommits ==
    ASSUME Typed, [Next]_vars, NEW q \in Requests, pc[q] = "promote", pc'[q] = "refresh"
    PROVE  DropCommit(q)
<1> USE DEF Typed, TypeOK, Goto
<1>1. PICK p \in Requests : Runs(p)
  <2>1. ~UNCHANGED vars /\ ~Admin
    BY DEF vars, Admin, CreateOffering, PutQuota, session
  <2>2. ASSUME NEW p \in Requests, NEW c \in Calls, Arrive(p, c) \/ ArriveNotFound(p, c)
        PROVE  FALSE
    BY <2>2 DEF Arrive, ArriveNotFound
  <2> QED
    BY <2>1, <2>2 DEF Next, Runs
<1>2. p = q
  BY <1>1, OthersUntouched DEF Same
<1>3. ~Refused(q)
  BY DEF Refused, Refuse, Answer
<1>4. ~Reads(q) /\ ~Locks(q)
  BY DEF Reads, RegisterAdmitted, DropFrees, CandidateBusy, PassOver, JoinNotSeated,
         JoinFresh, JoinReread, LeaveFound, Locks, LockStudent, RegisterLockSeat, DropLockSeat,
         CandidateUnfit, CandidateSeated, JoinLockShare, LeaveLockShare
<1>5. ~RegisterCommit(q) /\ ~JoinCommit(q) /\ ~LeaveCommit(q)
  BY DEF RegisterCommit, JoinCommit, LeaveCommit
<1> QED
  BY <1>1, <1>2, <1>3, <1>4, <1>5, StepKinds DEF Commits

(* A promotion seats the oldest queued student it may, or nobody: who was  *)
(* queued before was busy, at the limit, or has a class at that time       *)
(* (_promote_one).                                                         *)
THEOREM PromotesOldestEligible == Spec => OldestEligible
<1> DEFINE Told(q) ==
      pc[q] = "promote" /\ pc'[q] = "refresh" =>
      LET o == call[q].offering IN
      \A e \in Queue(o) :
          \/ \E f \in Queue(o) : f.student = promoted[q] /\ f.created_at <= e.created_at
          \/ <<e.student, "BUSY">> \in passed[q]
          \/ <<e.student, "QUOTA">> \in passed[q]
          \/ conflicting_offering(e.student, o)
<1>1. ASSUME CourseInv, [Next]_vars PROVE \A q \in Requests : Told(q)
  <2> SUFFICES ASSUME NEW q \in Requests, pc[q] = "promote", pc'[q] = "refresh",
                      NEW o, o = call[q].offering, NEW e \in Queue(o)
               PROVE  \/ \E f \in Queue(o) : f.student = promoted[q] /\ f.created_at <= e.created_at
                      \/ <<e.student, "BUSY">> \in passed[q]
                      \/ <<e.student, "QUOTA">> \in passed[q]
                      \/ conflicting_offering(e.student, o)
    OBVIOUS
  <2>1. todo[q] = {}
    BY <1>1, PromotionCommits DEF CourseInv, DropCommit
  <2>2. \/ \E f \in Queue(o) : f.student = promoted[q] /\ f.created_at <= e.created_at
        \/ WasPassed(q, e)
    BY <1>1, <2>1 DEF CourseInv, InOrder
  <2>3. ASSUME NEW reason \in Reason, <<e.student, reason>> \in passed[q]
        PROVE  \/ reason \in {"BUSY", "QUOTA"}
               \/ conflicting_offering(e.student, o)
    BY <1>1, <2>3 DEF CourseInv, Decided, Reason
  <2> QED
    BY <2>2, <2>3 DEF WasPassed
<1>2. CourseInv /\ [Next]_vars => [\A q \in Requests : Told(q)]_vars
  BY <1>1
<1> QED
  BY <1>2, CourseInvariant, PTL DEF Spec, OldestEligible
====
