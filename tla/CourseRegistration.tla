------------------------- MODULE CourseRegistration -------------------------
(***************************************************************************)
(* The course half of the campus resource system: register, drop (with     *)
(* the promotion it carries), join_waitlist and leave_waitlist of          *)
(* app/courses/service.py.                                                 *)
(*                                                                         *)
(* As in GpuReservations a process is one HTTP request with one session, a *)
(* step is one SQL statement of its transaction or its COMMIT, tables hold *)
(* what is committed, and what the session has read or decided is in the   *)
(* request's own variables.  Statements that only read rows of the student *)
(* whose row the request has just locked form one step.                    *)
(***************************************************************************)
EXTENDS RowLocks, Integers, FiniteSets

CONSTANTS
    Students, Offerings,
    Requests,       \* the HTTP requests served, each once
    Calls,          \* what students may ask for: records of Call below
    Timetable,      \* days, start_time and end_time of each offering; never edited
    Capacities,     \* capacity values an admin may open an offering with
    Limits,         \* max_units values an admin may PUT for (STUDENT, COURSE)
    SeededCapacity, \* the offerings there are at the start, with their capacity
    SeededSeats,    \* <<student, offering>> pairs enrolled at the start
    SeededQueue,    \* waitlist_entries at the start
    InitialLimits,  \* the policies to start with
    None,           \* no row, no value
    Unlimited       \* max_units IS NULL

DAY_CODES == {"M", "T", "W", "R", "F", "S", "U"}

(* Known days, each once, and a start before the end, times in minutes:    *)
(* on zero-padded "HH:MM" the order of the strings is that of the times.   *)
CourseOfferingCreate ==
    { t \in [days : SUBSET DAY_CODES \ {{}}, start_time : Nat, end_time : Nat] :
        t.start_time < t.end_time }

EnrollmentStatus == {"ACTIVE", "DROPPED"}
Call == [op : {"register", "drop", "join", "leave"},
         student : Students, offering : Offerings]
Entry == [student : Students, offering : Offerings, created_at : Nat]
OfferingRow == [capacity : Nat, enrolled_count : Int]
Limit == Nat \cup {Unlimited, None}

ASSUME PopulationFinite ==
    IsFiniteSet(Students) /\ IsFiniteSet(Offerings) /\ IsFiniteSet(Requests)
ASSUME CallsTyped == Calls \subseteq Call
ASSUME TimetableTyped == Timetable \in [Offerings -> CourseOfferingCreate]
ASSUME PolicyTyped == /\ Capacities \subseteq Nat \ {0}
                      /\ Limits \subseteq Nat \cup {Unlimited}
                      /\ InitialLimits \subseteq Limit
ASSUME SeedTyped ==
    /\ DOMAIN SeededCapacity \subseteq Offerings
    /\ \A o \in DOMAIN SeededCapacity : SeededCapacity[o] \in Nat \ {0}
    /\ SeededSeats \subseteq Students \X DOMAIN SeededCapacity
    /\ SeededQueue \subseteq Entry /\ IsFiniteSet(SeededQueue)

VARIABLES
    offerings,      \* table course_offerings
    enrollments,    \* table enrollments: status by (student, offering)
    waitlist,       \* table waitlist_entries
    limit,          \* role_quotas.max_units of (STUDENT, COURSE)
    locks,          \* the row locks held (RowLocks)
    pc,             \* the statement each request executes next
    call,           \* what each request asks for
    began,          \* start of a join's transaction, the created_at of its entry
    existing,       \* the enrollment a request read for the student it seats
    seen,           \* the offering row a request read under its lock
    limitRead,      \* the limit the quota gate of a request read
    todo,           \* the entries a promotion has still to try
    passed,         \* <<student, reason>> of the entries it passed over
    promoted,       \* the student it seats, or None
    reply           \* the response code of each request, None before it

tables == <<offerings, enrollments, waitlist, limit>>
promotion == <<todo, passed, promoted>>
notes == <<began, existing, seen, limitRead, promotion>>
session == <<locks, pc, call, notes, reply>>
vars == <<offerings, enrollments, waitlist, limit, locks, pc, call, began,
          existing, seen, limitRead, todo, passed, promoted, reply>>

-----------------------------------------------------------------------------
(* Types.                                                                  *)

UserRow(s) == <<"users", s>>
SeatRow(o) == <<"course_offerings", o>>
LockRow == ({"users"} \X Students) \cup ({"course_offerings"} \X Offerings)

Step == {"idle", "lockStudent", "gates", "lockSeat", "checkSeat", "promote",
         "checkSeated", "lockShare", "findEntry", "commit", "refresh",
         "position", "done"}

Reason == {"BUSY", "SEATED", "QUOTA", "CLASH"}

Code == {"CREATED", "OK", "NOT_FOUND", "ALREADY_ENROLLED", "QUOTA_EXCEEDED",
         "QUOTA_NOT_CONFIGURED", "SCHEDULE_CONFLICT", "CAPACITY_EXHAUSTED",
         "NOT_ENROLLED", "OFFERING_NOT_FULL", "ALREADY_WAITLISTED",
         "NOT_WAITLISTED", "ENTRY_GONE", "ERROR"}

ASSUME SentinelsApart ==
    /\ None # Unlimited /\ None \notin Nat /\ Unlimited \notin Nat
    /\ None \notin EnrollmentStatus \cup OfferingRow \cup Students \cup Call
                \cup Code \cup Reason

-----------------------------------------------------------------------------
(* What the statements compute.                                            *)

Exists(o) == offerings[o] # None
Enrolled(s, o) == enrollments[<<s, o>>] = "ACTIVE"
Seated(o) == { s \in Students : Enrolled(s, o) }

EntriesOf(s, o) == { e \in waitlist : e.student = s /\ e.offering = o }
Queued(s, o) == EntriesOf(s, o) # {}
Queue(o) == { e \in waitlist : e.offering = o }

held_course_enrollments(s) == Cardinality({ o \in Offerings : Enrolled(s, o) })

(* limit_for and enforce_course_quota, one more seat asked for.            *)
QuotaRefusal(s) ==
    CASE limit = None -> "QUOTA_NOT_CONFIGURED"
      [] limit \in Nat /\ held_course_enrollments(s) + 1 > limit -> "QUOTA_EXCEEDED"
      [] OTHER -> None

days_overlap(a, b) == Timetable[a].days \cap Timetable[b].days # {}

(* Half-open: a class that ends when the other starts does not clash.      *)
times_overlap(a, b) == /\ Timetable[a].start_time < Timetable[b].end_time
                       /\ Timetable[b].start_time < Timetable[a].end_time

Clashes(a, b) == a # b /\ days_overlap(a, b) /\ times_overlap(a, b)

conflicting_offering(s, target) ==
    \E o \in Offerings : Enrolled(s, o) /\ Clashes(o, target)

(* The tables of the start are ones the service itself may have left.      *)
ASSUME SeedLegal ==
    /\ \A o \in DOMAIN SeededCapacity :
          Cardinality({ s \in Students : <<s, o>> \in SeededSeats }) <= SeededCapacity[o]
    /\ \A x, y \in SeededSeats : x[1] = y[1] => ~Clashes(x[2], y[2])
    /\ \A e \in SeededQueue : /\ e.offering \in DOMAIN SeededCapacity
                              /\ <<e.student, e.offering>> \notin SeededSeats
    /\ \A e, f \in SeededQueue :
          e.student = f.student /\ e.offering = f.offering => e = f

(* now() is the start of the transaction: get_current_user's read.  Only   *)
(* the order of the joins is told apart, so only they advance it.          *)
Now == 1 + Cardinality(SeededQueue)
         + Cardinality({ q \in Requests : call[q] # None /\ call[q].op = "join" })

-----------------------------------------------------------------------------
(* How a request moves on.                                                 *)

Goto(q, step) == pc' = [pc EXCEPT ![q] = step]

Forget(q) ==
    /\ began' = [began EXCEPT ![q] = 0]
    /\ existing' = [existing EXCEPT ![q] = None]
    /\ seen' = [seen EXCEPT ![q] = None]
    /\ limitRead' = [limitRead EXCEPT ![q] = None]
    /\ todo' = [todo EXCEPT ![q] = {}]
    /\ passed' = [passed EXCEPT ![q] = {}]
    /\ promoted' = [promoted EXCEPT ![q] = None]

(* Mutant: The session is not closed when the handler raises. *)
AnswerKeepsLocks(q, code) ==
    /\ reply' = [reply EXCEPT ![q] = code]
    /\ Forget(q)
    /\ Goto(q, "done")
    /\ UNCHANGED <<call, locks>>

(* The session is closed: what was not committed is rolled back, every     *)
(* lock is gone, and the client has its answer.                            *)
Answer(q, code) ==
    /\ reply' = [reply EXCEPT ![q] = code]
    /\ locks' = ReleaseAll(locks, q)
    /\ Forget(q)
    /\ Goto(q, "done")
    /\ UNCHANGED call

Refuse(q, code) == Answer(q, code) /\ UNCHANGED tables

Lock(q, row, mode) ==
    /\ Free(locks, q, row, mode)
    /\ locks' = Grant(locks, q, row, mode)

(* COMMIT: the writes are in the tables, the locks are gone.               *)
Commit(q, next) ==
    /\ locks' = ReleaseAll(locks, q)
    /\ Goto(q, next)
    /\ UNCHANGED <<call, notes, reply>>

-----------------------------------------------------------------------------
(* Every endpoint starts alike: the offering is looked up without a lock   *)
(* (offerings are never deleted), then the caller's own row is locked.     *)

Arrive(q, c) ==
    /\ pc[q] = "idle"
    /\ Exists(c.offering)
    /\ call' = [call EXCEPT ![q] = c]
    /\ began' = [began EXCEPT ![q] = IF c.op = "join" THEN Now ELSE 0]
    /\ Goto(q, "lockStudent")
    /\ UNCHANGED <<tables, locks, existing, seen, limitRead, promotion, reply>>

ArriveNotFound(q, c) ==
    /\ pc[q] = "idle"
    /\ ~Exists(c.offering)
    /\ call' = [call EXCEPT ![q] = c]
    /\ reply' = [reply EXCEPT ![q] = "NOT_FOUND"]
    /\ Goto(q, "done")
    /\ UNCHANGED <<tables, locks, notes>>

AfterStudent == [op \in {"register", "drop", "join", "leave"} |->
    CASE op = "register" -> "gates"
      [] op = "drop"     -> "lockSeat"
      [] op = "join"     -> "checkSeated"
      [] op = "leave"    -> "lockShare"]

(* Mutant: The student's row is not locked. *)
LockStudentSkipped(q) ==
    /\ pc[q] = "lockStudent"
    /\ Goto(q, AfterStudent[call[q].op])
    /\ UNCHANGED <<tables, locks, call, notes, reply>>

LockStudent(q) ==
    /\ pc[q] = "lockStudent"
    /\ Lock(q, UserRow(call[q].student), "UPDATE")
    /\ Goto(q, AfterStudent[call[q].op])
    /\ UNCHANGED <<tables, call, notes, reply>>

-----------------------------------------------------------------------------
(* POST /offerings/{id}/register : register.                               *)

(* The student's rows: an existing enrollment, the course load, a clash.   *)
RegisterAdmitted(q) ==
    /\ pc[q] = "gates"
    /\ LET s == call[q].student  o == call[q].offering IN
       /\ ~Enrolled(s, o)
       /\ QuotaRefusal(s) = None
       /\ ~conflicting_offering(s, o)
       /\ existing' = [existing EXCEPT ![q] = enrollments[<<s, o>>]]
    /\ limitRead' = [limitRead EXCEPT ![q] = limit]
    /\ Goto(q, "lockSeat")
    /\ UNCHANGED <<tables, locks, call, began, seen, promotion, reply>>

RegisterRefused(q) ==
    /\ pc[q] = "gates"
    /\ LET s == call[q].student  o == call[q].offering IN
       \/ Enrolled(s, o) /\ Refuse(q, "ALREADY_ENROLLED")
       \/ /\ ~Enrolled(s, o) /\ QuotaRefusal(s) # None
          /\ Refuse(q, QuotaRefusal(s))
       \/ /\ ~Enrolled(s, o) /\ QuotaRefusal(s) = None
          /\ conflicting_offering(s, o)
          /\ Refuse(q, "SCHEDULE_CONFLICT")

(* Mutant: One more than the section holds. *)
SeatFreeOffByOne(row) == row.enrolled_count <= row.capacity

SeatFree(row) == row.enrolled_count < row.capacity

(* Mutant: BENCHMARK_UNSAFE_NO_OFFERING_LOCK. *)
LockSeatPlainRead(q) ==
    /\ Goto(q, IF call[q].op = "register" THEN "commit" ELSE "checkSeat")
    /\ seen' = [seen EXCEPT ![q] = offerings[call[q].offering]]
    /\ UNCHANGED <<tables, locks, call, began, existing, limitRead, promotion, reply>>

(* SELECT ... FOR UPDATE with populate_existing: the newest committed row. *)
LockSeat(q) ==
    /\ Lock(q, SeatRow(call[q].offering), "UPDATE")
    /\ seen' = [seen EXCEPT ![q] = offerings[call[q].offering]]
    /\ Goto(q, IF call[q].op = "register" THEN "commit" ELSE "checkSeat")
    /\ UNCHANGED <<tables, call, began, existing, limitRead, promotion, reply>>

RegisterLockSeat(q) ==
    /\ pc[q] = "lockSeat" /\ call[q].op = "register"
    /\ SeatFree(offerings[call[q].offering])
    /\ LockSeat(q)

RegisterFull(q) ==
    /\ pc[q] = "lockSeat" /\ call[q].op = "register"
    /\ Free(locks, q, SeatRow(call[q].offering), "UPDATE")
    /\ ~SeatFree(offerings[call[q].offering])
    /\ Refuse(q, "CAPACITY_EXHAUSTED")

(* INSERT or, over a DROPPED row, UPDATE; enrollment_unique never fires as *)
(* long as `existing` is still the row (DecidedOnCurrentRows).             *)
RegisterCommit(q) ==
    /\ pc[q] = "commit" /\ call[q].op = "register"
    /\ LET s == call[q].student  o == call[q].offering IN
       /\ enrollments' = [enrollments EXCEPT ![<<s, o>>] = "ACTIVE"]
       /\ offerings' = [offerings EXCEPT ![o].enrolled_count = seen[q].enrolled_count + 1]
       /\ waitlist' = waitlist \ EntriesOf(s, o)
    /\ UNCHANGED limit
    /\ Commit(q, "refresh")

(* db.refresh() after COMMIT; an enrollment row is never deleted.          *)
EnrollmentAnswer(q) ==
    /\ pc[q] = "refresh" /\ call[q].op \in {"register", "drop"}
    /\ Answer(q, IF call[q].op = "register" THEN "CREATED" ELSE "OK")
    /\ UNCHANGED tables

-----------------------------------------------------------------------------
(* DELETE /offerings/{id}/drop : drop and _promote_one.                    *)

DropLockSeat(q) ==
    /\ pc[q] = "lockSeat" /\ call[q].op = "drop"
    /\ LockSeat(q)

(* Read under the offering's lock, tried in the order (created_at, id).    *)
Candidates(o) == Queue(o)

(* The enrollment is read under both locks.  What is now pending in the    *)
(* session (DROPPED, enrolled_count - 1) is written by the COMMIT: with    *)
(* autoflush off the statements of the promotion do not see it.            *)
DropFrees(q) ==
    /\ pc[q] = "checkSeat"
    /\ Enrolled(call[q].student, call[q].offering)
    /\ existing' = [existing EXCEPT ![q] = "ACTIVE"]
    /\ todo' = [todo EXCEPT ![q] =
          IF seen[q].enrolled_count - 1 >= seen[q].capacity
          THEN {} ELSE Candidates(call[q].offering)]
    /\ Goto(q, "promote")
    /\ UNCHANGED <<tables, locks, call, began, seen, limitRead, passed, promoted, reply>>

DropNothing(q) ==
    /\ pc[q] = "checkSeat"
    /\ LET row == enrollments[<<call[q].student, call[q].offering>>] IN
       \/ row = None /\ Refuse(q, "NOT_ENROLLED")
       \/ row = "DROPPED" /\ Refuse(q, "OK")

(* Mutant: ORDER BY created_at DESC. *)
NewestEntry(S) == CHOOSE e \in S : \A f \in S : e.created_at >= f.created_at

OldestEntry(S) == CHOOSE e \in S : \A f \in S : e.created_at <= f.created_at

NextEntry(q) == OldestEntry(todo[q])

(* Mutant: FOR UPDATE without SKIP LOCKED. *)
SkippedNever(q, s) == FALSE

(* FOR UPDATE SKIP LOCKED returns no row.                                  *)
Skipped(q, s) == ~Free(locks, q, UserRow(s), "UPDATE")

PassOver(q, reason) ==
    /\ todo' = [todo EXCEPT ![q] = @ \ {NextEntry(q)}]
    /\ passed' = [passed EXCEPT ![q] = @ \cup {<<NextEntry(q).student, reason>>}]
    /\ UNCHANGED <<tables, pc, call, began, existing, seen, limitRead, promoted, reply>>

CandidateBusy(q) ==
    /\ pc[q] = "promote" /\ todo[q] # {}
    /\ Skipped(q, NextEntry(q).student)
    /\ PassOver(q, "BUSY")
    /\ UNCHANGED locks

(* Mutant: Promotion asks for the course load but not for the timetable. *)
WhyNotQuotaOnly(s, o) ==
    CASE Enrolled(s, o) -> "SEATED"
      [] ~Enrolled(s, o) /\ QuotaRefusal(s) # None -> "QUOTA"
      [] OTHER -> None

WhyNot(s, o) ==
    CASE Enrolled(s, o) -> "SEATED"
      [] ~Enrolled(s, o) /\ QuotaRefusal(s) # None -> "QUOTA"
      [] ~Enrolled(s, o) /\ QuotaRefusal(s) = None /\ conflicting_offering(s, o) -> "CLASH"
      [] OTHER -> None

(* Mutant: Promotion reads the candidate's rows without locking the candidate. *)
LockCandidatePlainRead(q, s) == UNCHANGED locks

LockCandidate(q, s) == Lock(q, UserRow(s), "UPDATE")

(* A candidate passed over keeps locked until COMMIT.                      *)
CandidateUnfit(q) ==
    /\ pc[q] = "promote" /\ todo[q] # {}
    /\ LET s == NextEntry(q).student
           reason == WhyNot(s, call[q].offering) IN
       /\ LockCandidate(q, s)
       /\ reason # None
       /\ PassOver(q, reason)

CandidateSeated(q) ==
    /\ pc[q] = "promote" /\ todo[q] # {}
    /\ LET s == NextEntry(q).student IN
       /\ LockCandidate(q, s)
       /\ WhyNot(s, call[q].offering) = None
       /\ promoted' = [promoted EXCEPT ![q] = s]
    /\ limitRead' = [limitRead EXCEPT ![q] = limit]
    /\ todo' = [todo EXCEPT ![q] = {}]
    /\ UNCHANGED <<tables, pc, call, began, existing, seen, passed, reply>>

(* Entries that described a seat the student already has are deleted.      *)
Stale(q) == { s \in Students : <<s, "SEATED">> \in passed[q] }

(* Mutant: The promoted student's entry is not deleted. *)
LeavingNobody(q) == {}

Leaving(q) == { e \in Queue(call[q].offering) :
                    e.student = promoted[q] \/ e.student \in Stale(q) }

(* The seat moves: -1 and +1 are one UPDATE of one COMMIT.                 *)
DropCommit(q) ==
    /\ pc[q] = "promote" /\ todo[q] = {}
    /\ LET s == call[q].student  o == call[q].offering IN
       /\ enrollments' = [p \in Students \X Offerings |->
             CASE p = <<s, o>> -> "DROPPED"
               [] p # <<s, o>> /\ p = <<promoted[q], o>> -> "ACTIVE"
               [] OTHER -> enrollments[p]]
       /\ offerings' = [offerings EXCEPT ![o].enrolled_count =
             IF promoted[q] = None THEN seen[q].enrolled_count - 1
                                   ELSE seen[q].enrolled_count]
    /\ waitlist' = waitlist \ Leaving(q)
    /\ UNCHANGED limit
    /\ Commit(q, "refresh")

-----------------------------------------------------------------------------
(* POST /offerings/{id}/waitlist : join_waitlist.                          *)

JoinNotSeated(q) ==
    /\ pc[q] = "checkSeated"
    /\ ~Enrolled(call[q].student, call[q].offering)
    /\ Goto(q, "lockShare")
    /\ UNCHANGED <<tables, locks, call, notes, reply>>

JoinSeated(q) ==
    /\ pc[q] = "checkSeated"
    /\ Enrolled(call[q].student, call[q].offering)
    /\ Refuse(q, "ALREADY_ENROLLED")

(* Mutant: leave_waitlist without the offering's lock. *)
LockShareJoinOnly(q) ==
    /\ IF call[q].op = "join" THEN Lock(q, SeatRow(call[q].offering), "SHARE")
                              ELSE UNCHANGED locks
    /\ Goto(q, "findEntry")
    /\ UNCHANGED <<tables, call, notes, reply>>

(* FOR SHARE: the offering is read, never written.                         *)
LockShare(q) ==
    /\ Lock(q, SeatRow(call[q].offering), "SHARE")
    /\ Goto(q, "findEntry")
    /\ UNCHANGED <<tables, call, notes, reply>>

JoinLockShare(q) ==
    /\ pc[q] = "lockShare" /\ call[q].op = "join"
    /\ ~SeatFree(offerings[call[q].offering])
    /\ LockShare(q)

JoinNotFull(q) ==
    /\ pc[q] = "lockShare" /\ call[q].op = "join"
    /\ Free(locks, q, SeatRow(call[q].offering), "SHARE")
    /\ SeatFree(offerings[call[q].offering])
    /\ Refuse(q, "OFFERING_NOT_FULL")

JoinFresh(q) ==
    /\ pc[q] = "findEntry" /\ call[q].op = "join"
    /\ ~Queued(call[q].student, call[q].offering)
    /\ Goto(q, "commit")
    /\ UNCHANGED <<tables, locks, call, notes, reply>>

JoinTwice(q) ==
    /\ pc[q] = "findEntry" /\ call[q].op = "join"
    /\ Queued(call[q].student, call[q].offering)
    /\ Refuse(q, "ALREADY_WAITLISTED")

OwnEntry(q) == [student |-> call[q].student, offering |-> call[q].offering,
                created_at |-> began[q]]

(* Mutant: The join also writes the enum's third value, an enrollment WAITLISTED. *)
JoinCommitWaitlisted(q) ==
    /\ pc[q] = "commit" /\ call[q].op = "join"
    /\ waitlist' = waitlist \cup {OwnEntry(q)}
    /\ enrollments' = [enrollments EXCEPT
          ![<<call[q].student, call[q].offering>>] = "WAITLISTED"]
    /\ UNCHANGED <<offerings, limit>>
    /\ Commit(q, "refresh")

JoinCommit(q) ==
    /\ pc[q] = "commit" /\ call[q].op = "join"
    /\ waitlist' = waitlist \cup {OwnEntry(q)}
    /\ UNCHANGED <<offerings, enrollments, limit>>
    /\ Commit(q, "refresh")

(* db.refresh() and then _positions(), each a statement of its own after   *)
(* COMMIT: without the row the first raises InvalidRequestError, the       *)
(* second runs out of entries; neither is caught.                          *)
JoinReread(q) ==
    /\ pc[q] = "refresh" /\ call[q].op = "join"
    /\ OwnEntry(q) \in waitlist
    /\ Goto(q, "position")
    /\ UNCHANGED <<tables, locks, call, notes, reply>>

JoinPosition(q) ==
    /\ pc[q] = "position"
    /\ OwnEntry(q) \in waitlist
    /\ Refuse(q, "CREATED")

JoinEntryGone(q) ==
    /\ pc[q] \in {"refresh", "position"} /\ call[q].op = "join"
    /\ OwnEntry(q) \notin waitlist
    /\ Refuse(q, "ENTRY_GONE")

-----------------------------------------------------------------------------
(* DELETE /offerings/{id}/waitlist : leave_waitlist.  The position in its  *)
(* answer, read before the locks, is left out.                             *)

LeaveLockShare(q) ==
    /\ pc[q] = "lockShare" /\ call[q].op = "leave"
    /\ LockShare(q)

LeaveNothing(q) ==
    /\ pc[q] = "findEntry" /\ call[q].op = "leave"
    /\ ~Queued(call[q].student, call[q].offering)
    /\ Refuse(q, "NOT_WAITLISTED")

LeaveFound(q) ==
    /\ pc[q] = "findEntry" /\ call[q].op = "leave"
    /\ Queued(call[q].student, call[q].offering)
    /\ Goto(q, "commit")
    /\ UNCHANGED <<tables, locks, call, notes, reply>>

LeaveCommit(q) ==
    /\ pc[q] = "commit" /\ call[q].op = "leave"
    /\ waitlist' = waitlist \ EntriesOf(call[q].student, call[q].offering)
    /\ UNCHANGED <<offerings, enrollments, limit>>
    /\ Answer(q, "OK")

-----------------------------------------------------------------------------
(* POST /offerings : create_offering; PUT /admin/quotas/STUDENT/COURSE.    *)

(* That the course is unknown, or the instructor is or is not FACULTY, is  *)
(* answered before anything is written or locked: a stutter here.          *)
CreateOffering(o, n) ==
    /\ ~Exists(o)
    /\ offerings' = [offerings EXCEPT ![o] = [capacity |-> n, enrolled_count |-> 0]]
    /\ UNCHANGED <<enrollments, waitlist, limit, session>>

PutQuota(n) ==
    /\ limit # n
    /\ limit' = n
    /\ UNCHANGED <<offerings, enrollments, waitlist, session>>

-----------------------------------------------------------------------------
(* The environment, as in GpuReservations.                                 *)

InFlight(q) == pc[q] \notin {"idle", "done"}

ConnectionLost(q) == InFlight(q) /\ Refuse(q, "ERROR")

(* Whom the next statement of q waits for: a row that is not skipped.      *)
WaitsFor(q) ==
    CASE pc[q] = "lockStudent" -> Blockers(locks, q, UserRow(call[q].student), "UPDATE")
      [] pc[q] = "lockSeat"    -> Blockers(locks, q, SeatRow(call[q].offering), "UPDATE")
      [] pc[q] = "lockShare"   -> Blockers(locks, q, SeatRow(call[q].offering), "SHARE")
      [] pc[q] = "promote" /\ todo[q] # {} ->
            IF Skipped(q, NextEntry(q).student) THEN {}
            ELSE Blockers(locks, q, UserRow(NextEntry(q).student), "UPDATE")
      [] OTHER -> {}

waits == [q \in Requests |-> WaitsFor(q)]

-----------------------------------------------------------------------------
Init ==
    /\ offerings = [o \in Offerings |->
          IF o \in DOMAIN SeededCapacity
          THEN [capacity |-> SeededCapacity[o],
                enrolled_count |-> Cardinality({ s \in Students : <<s, o>> \in SeededSeats })]
          ELSE None]
    /\ enrollments = [p \in Students \X Offerings |->
          IF p \in SeededSeats THEN "ACTIVE" ELSE None]
    /\ waitlist = SeededQueue
    /\ limit \in InitialLimits
    /\ locks = {}
    /\ pc = [q \in Requests |-> "idle"]
    /\ call = [q \in Requests |-> None]
    /\ began = [q \in Requests |-> 0]
    /\ existing = [q \in Requests |-> None]
    /\ seen = [q \in Requests |-> None]
    /\ limitRead = [q \in Requests |-> None]
    /\ todo = [q \in Requests |-> {}]
    /\ passed = [q \in Requests |-> {}]
    /\ promoted = [q \in Requests |-> None]
    /\ reply = [q \in Requests |-> None]

Serve(q) ==
    \/ LockStudent(q)
    \/ RegisterAdmitted(q) \/ RegisterRefused(q) \/ RegisterLockSeat(q)
    \/ RegisterFull(q) \/ RegisterCommit(q) \/ EnrollmentAnswer(q)
    \/ DropLockSeat(q) \/ DropFrees(q) \/ DropNothing(q)
    \/ CandidateBusy(q) \/ CandidateUnfit(q) \/ CandidateSeated(q) \/ DropCommit(q)
    \/ JoinNotSeated(q) \/ JoinSeated(q) \/ JoinLockShare(q) \/ JoinNotFull(q)
    \/ JoinFresh(q) \/ JoinTwice(q) \/ JoinCommit(q)
    \/ JoinReread(q) \/ JoinPosition(q) \/ JoinEntryGone(q)
    \/ LeaveLockShare(q) \/ LeaveNothing(q) \/ LeaveFound(q) \/ LeaveCommit(q)

Admin ==
    \/ \E o \in Offerings, n \in Capacities : CreateOffering(o, n)
    \/ \E n \in Limits : PutQuota(n)

Next ==
    \/ \E q \in Requests, c \in Calls : Arrive(q, c) \/ ArriveNotFound(q, c)
    \/ \E q \in Requests : Serve(q) \/ ConnectionLost(q)
    \/ Admin

Spec == Init /\ [][Next]_vars

(* A worker thread keeps executing its request.  No lock wait is a circle  *)
(* (NoDeadlock), so the server never has to abort one.                     *)
FairSpec == Spec /\ \A q \in Requests : WF_vars(Serve(q))
-----------------------------------------------------------------------------
(* Properties.                                                             *)

(* Every variable has its type; no enrollment is ever WAITLISTED           *)
(* (DECISIONS.md, item 7).                                                 *)
TypeOK ==
    /\ offerings \in [Offerings -> OfferingRow \cup {None}]
    /\ enrollments \in [Students \X Offerings -> EnrollmentStatus \cup {None}]
    /\ waitlist \subseteq Entry
    /\ limit \in Limit
    /\ locks \subseteq [tx : Requests, row : LockRow, mode : LockMode]
    /\ pc \in [Requests -> Step]
    /\ call \in [Requests -> Call \cup {None}]
    /\ began \in [Requests -> Nat]
    /\ existing \in [Requests -> EnrollmentStatus \cup {None}]
    /\ seen \in [Requests -> OfferingRow \cup {None}]
    /\ limitRead \in [Requests -> Limit]
    /\ todo \in [Requests -> SUBSET Entry]
    /\ passed \in [Requests -> SUBSET (Students \X Reason)]
    /\ promoted \in [Requests -> Students \cup {None}]
    /\ reply \in [Requests -> Code \cup {None}]

(* enrolled_count, moved by += and -= on a row read earlier, is the number *)
(* of ACTIVE enrollments, promotions included (register, drop).            *)
CounterMatchesSeats ==
    \A o \in Offerings : Exists(o) =>
        offerings[o].enrolled_count = Cardinality(Seated(o))

(* No section seats more students than it has room for, whatever           *)
(* registrations, drops and promotions interleave.                         *)
NoOverbooking ==
    \A o \in Offerings : Exists(o) => Cardinality(Seated(o)) <= offerings[o].capacity

(* A seat and a place in the queue for it exclude each other, although one *)
(* is a row of enrollments and the other of waitlist_entries, and a        *)
(* student queues once (join_waitlist, "why the user row is locked").      *)
SeatXorQueue ==
    \A s \in Students, o \in Offerings :
        /\ ~(Enrolled(s, o) /\ Queued(s, o))
        /\ Cardinality(EntriesOf(s, o)) <= 1

(* No student holds two seats that meet at one time, however they were     *)
(* obtained: by two registrations at once, or by a promotion meanwhile.    *)
NoScheduleClash ==
    \A s \in Students, a, b \in Offerings :
        Enrolled(s, a) /\ Enrolled(s, b) => ~Clashes(a, b)

(* From a gate to the COMMIT it guards, the student's course load plus the *)
(* new seat stays within the limit read, for the caller of register and    *)
(* for the student a promotion seats.                                      *)
LoadSecured ==
    \A q \in Requests :
        LET Secured(s) == \/ limitRead[q] = Unlimited
                          \/ /\ limitRead[q] \in Nat
                             /\ held_course_enrollments(s) + 1 <= limitRead[q] IN
        /\ call[q] # None /\ call[q].op = "register" /\ pc[q] \in {"lockSeat", "commit"}
           => Secured(call[q].student)
        /\ pc[q] = "promote" /\ promoted[q] # None => Secured(promoted[q])

(* What a request read and acts on at COMMIT is still so: the offering's   *)
(* row, the enrollment it updates or inserts, the queue a promotion walks, *)
(* and for a join that the section is full.                                *)
DecidedOnCurrentRows ==
    \A q \in Requests : InFlight(q) =>
        LET s == call[q].student  o == call[q].offering IN
        /\ call[q].op = "register" /\ pc[q] \in {"lockSeat", "commit"} =>
              enrollments[<<s, o>>] = existing[q]
        /\ call[q].op = "register" /\ pc[q] = "commit" =>
              offerings[o] = seen[q] /\ SeatFree(seen[q])
        /\ pc[q] \in {"checkSeat", "promote"} => offerings[o] = seen[q]
        /\ pc[q] = "promote" => /\ Enrolled(s, o)
                                /\ todo[q] \subseteq Queue(o)
                                /\ promoted[q] # None => Queued(promoted[q], o)
        /\ call[q].op = "join" /\ pc[q] \in {"findEntry", "commit"} =>
              ~SeatFree(offerings[o]) /\ ~Enrolled(s, o)

(* "Give the freed seat to the oldest ELIGIBLE queued student, or nobody": *)
(* whoever still waits when a drop commits, and was there before the       *)
(* student it seats, was busy, at the limit, or has a class at that time.  *)
OldestEligible ==
    [][\A q \in Requests : pc[q] = "promote" /\ pc'[q] = "refresh" =>
          LET o == call[q].offering IN
          \A e \in Queue(o) :
              \/ \E f \in Queue(o) : f.student = promoted[q] /\ f.created_at <= e.created_at
              \/ <<e.student, "BUSY">> \in passed[q]
              \/ <<e.student, "QUOTA">> \in passed[q]
              \/ conflicting_offering(e.student, o)]_vars

(* Requests never wait for each other in a circle, although a promotion    *)
(* takes a user row after the offering's: "a transaction that never blocks *)
(* on a user row cannot appear in a cycle at all" (_promote_one).          *)
NoDeadlock == ~ \E S \in SUBSET Requests : Stuck(waits, S)

(* Every request that is being served is answered.                         *)
EveryRequestAnswered ==
    \A q \in Requests : InFlight(q) ~> pc[q] = "done"

(* "A queued student cannot lose their place to someone refreshing the     *)
(* page": nobody registers past a student who waits and could be seated.   *)
PlaceKept ==
    [][\A q \in Requests :
          pc[q] = "commit" /\ call[q].op = "register" /\ pc'[q] = "refresh" =>
          LET o == call[q].offering IN
          Queued(call[q].student, o)
          \/ \A e \in Queue(o) : WhyNot(e.student, o) # None]_vars

(* "201 with the entry and its position": a join that committed is told so.*)
JoinIsAnswered == \A q \in Requests : reply[q] # "ENTRY_GONE"

-----------------------------------------------------------------------------
(* The committed rows, without the counter, are the ledger of SeatLedger.  *)
Ledger == INSTANCE SeatLedger WITH
    Clashing <- { p \in Offerings \X Offerings : Clashes(p[1], p[2]) },
    capacity <- [o \in Offerings |-> IF Exists(o) THEN offerings[o].capacity ELSE None],
    seats    <- { p \in Students \X Offerings : enrollments[p] = "ACTIVE" },
    queued   <- { <<e.student, e.offering>> : e \in waitlist }

(* Every COMMIT is one step of the ledger and shows a seat change hands at *)
(* once; every other statement changes nothing that can be seen.           *)
ImplementsLedger == Ledger!Init /\ [][Ledger!Next]_(Ledger!ledger)
=============================================================================
