---------------------------- MODULE RoomBookings ----------------------------
(***************************************************************************)
(* The room half of the campus resource system: reserve_room,              *)
(* cancel_reservation, update_room and create_room of                      *)
(* app/rooms/service.py, and the pool of connections they run on.          *)
(*                                                                         *)
(* As in GpuReservations a process is one HTTP request and a step is one   *)
(* SQL statement or COMMIT.  Two things differ.  No application lock       *)
(* guards the slots: an INSERT puts its row into the index of the          *)
(* exclusion constraint first and looks for overlapping rows second, and a *)
(* row of another open transaction is waited for.  And the connection a    *)
(* transaction runs on is modelled: it is taken from the pool at the first *)
(* statement, given back by COMMIT, and taken again by the refresh after.  *)
(***************************************************************************)
EXTENDS RowLocks, Integers, FiniteSets

CONSTANTS
    Users, Rooms,
    Requests,       \* the HTTP requests served, each once
    Calls,          \* what clients may ask for: records of Call below
    RoleOf,         \* users.role, which no endpoint changes
    Windows,        \* the intervals [start_time, end_time) clients book
    SeededRooms,    \* the rooms there are at the start
    InitialQuotas,  \* the policies there may be at the start, by role
    Limits,         \* the limits an admin may PUT
    PoolSize,       \* pool_size + max_overflow of the engine
    MaxLost,        \* bound: none breaks once so many ERRORs were answered
    None,           \* no row, no value
    Unlimited       \* max_units IS NULL

Role == {"STUDENT", "FACULTY", "ADMIN"}
ResourceStatus == {"AVAILABLE", "BLOCKED"}
ReservationStatus == {"ACTIVE", "CANCELLED"}

(* ReservationCreate: an interval, start before end, both instants in UTC. *)
ReservationCreate == { w \in [start : Nat, end : Nat] : w.start < w.end }

(* Limit: max_units of one row, None where the role has no row.            *)
Limit == Nat \cup {Unlimited, None}

(* A PATCH sends a status, an explicit null, or no such field (None).      *)
Call ==
    [op : {"reserve"}, user : Users, room : Rooms, window : Windows]
    \cup [op : {"cancel"}, user : Users, room : Rooms, reservation : Requests]
    \cup [op : {"update"}, room : Rooms, status : ResourceStatus \cup {"NULL", None}]

Reservation == [room : Rooms, user : Users, window : Windows, status : ReservationStatus]

ASSUME RequestsFinite == IsFiniteSet(Requests)
ASSUME CallsTyped == Calls \subseteq Call
ASSUME WindowsOrdered == \A w \in Windows : w \in ReservationCreate
ASSUME PolicyTyped == /\ RoleOf \in [Users -> Role]
                      /\ InitialQuotas \subseteq [Role -> Limit]
                      /\ Limits \subseteq Nat \cup {Unlimited}
ASSUME BoundsTyped == PoolSize \in Nat \ {0} /\ MaxLost \in Nat

VARIABLES
    rooms,          \* resources.status of each room, None before it exists
    bookings,       \* table reservations, by the request that inserted the row
    quotas,         \* table role_quotas, its ROOM rows, by role
    locks,          \* the row locks held (RowLocks)
    pc,             \* the statement each request executes next
    call,           \* what each request asks for
    seen,           \* the room's status as a PATCH read it, without a lock
    limitRead,      \* the limit the quota gate of a request read
    reply           \* the response code of each request, None before it

tables == <<rooms, bookings, quotas>>
session == <<locks, pc, call, seen, limitRead, reply>>
vars == <<rooms, bookings, quotas, locks, pc, call, seen, limitRead, reply>>

-----------------------------------------------------------------------------
(* Types.                                                                  *)

UserRow(u) == <<"users", u>>
RoomRow(r) == <<"resources", r>>
LockRow == ({"users"} \X Users) \cup ({"resources"} \X Rooms)

Step == {"idle", "connect", "lockUser", "quotaGate", "lockRoom", "insert",
         "overlap", "commit", "lockOwner", "recheck", "release", "edit",
         "refresh", "done"}

(* DEADLOCK and ERROR are both a plain 500 to the client: an exception the *)
(* handler does not catch, raised by the lock manager or by anything else. *)
Code == {"CREATED", "OK", "NOT_FOUND", "FORBIDDEN", "RESOURCE_BLOCKED",
         "INTERVAL_CONFLICT", "QUOTA_EXCEEDED", "QUOTA_NOT_CONFIGURED",
         "DEADLOCK", "ERROR"}

ASSUME SentinelsApart ==
    /\ None # Unlimited /\ None \notin Nat /\ Unlimited \notin Nat
    /\ None \notin ResourceStatus \cup Call \cup Code \cup Reservation

-----------------------------------------------------------------------------
(* What the statements compute.                                            *)

Exists(r) == rooms[r] # None

(* Mutant: '[]' for '[)': a booking ending at noon clashes with the next. *)
OverlapClosed(v, w) == v.start <= w.end /\ w.start <= v.end

(* tstzrange(start, end, '[)') && tstzrange(...): half-open intervals.     *)
Overlap(v, w) == v.start < w.end /\ w.start < v.end

Active(q) == bookings[q] # None /\ bookings[q].status = "ACTIVE"

(* What the constraint and GET /rooms/{id}/availability both look up.      *)
conflicting_reservations(room, window) ==
    { q \in Requests : /\ Active(q)
                       /\ bookings[q].room = room
                       /\ Overlap(bookings[q].window, window) }

held_room_reservations(u) ==
    Cardinality({ q \in Requests : Active(q) /\ bookings[q].user = u })

(* limit_for and enforce_room_quota, one more hold asked for.              *)
QuotaRefusal(u) ==
    LET limit == quotas[RoleOf[u]] IN
    CASE limit = None -> "QUOTA_NOT_CONFIGURED"
      [] limit \in Nat /\ held_room_reservations(u) + 1 > limit -> "QUOTA_EXCEEDED"
      [] OTHER -> None

(* The row of q is in the index of the constraint, not yet committed.      *)
Inserted(q) == pc[q] \in {"overlap", "commit"}

(* The uncommitted rows the constraint check of q finds in its slot.       *)
Rivals(q) ==
    { p \in Requests \ {q} : /\ Inserted(p)
                             /\ call[p].room = call[q].room
                             /\ Overlap(call[p].window, call[q].window) }

-----------------------------------------------------------------------------
(* The pool.  A request holds a connection while its transaction is open.  *)

Connected == { q \in Requests : pc[q] \notin {"idle", "connect", "refresh", "done"} }

ConnectionFree == Cardinality(Connected) < PoolSize

-----------------------------------------------------------------------------
(* How a request moves on.                                                 *)

Goto(q, step) == pc' = [pc EXCEPT ![q] = step]

(* The session is closed: what was not committed is rolled back, every     *)
(* lock is gone, and the client has its answer.                            *)
Answer(q, code) ==
    /\ reply' = [reply EXCEPT ![q] = code]
    /\ locks' = ReleaseAll(locks, q)
    /\ seen' = [seen EXCEPT ![q] = None]
    /\ limitRead' = [limitRead EXCEPT ![q] = None]
    /\ Goto(q, "done")
    /\ UNCHANGED call

Refuse(q, code) == Answer(q, code) /\ UNCHANGED tables

Lock(q, row, mode) ==
    /\ Free(locks, q, row, mode)
    /\ locks' = Grant(locks, q, row, mode)

(* Mutant: The refresh is taken for part of the transaction. *)
CommitKeepsLocks(q) ==
    /\ Goto(q, "refresh")
    /\ UNCHANGED <<locks, call, seen, limitRead, reply>>

(* COMMIT: the locks are gone, the connection is back in the pool, what    *)
(* was read is not used again, and the refresh for the answer begins a new *)
(* transaction.                                                            *)
Commit(q) ==
    /\ locks' = ReleaseAll(locks, q)
    /\ seen' = [seen EXCEPT ![q] = None]
    /\ limitRead' = [limitRead EXCEPT ![q] = None]
    /\ Goto(q, "refresh")
    /\ UNCHANGED <<call, reply>>

Arrive(q, c) ==
    /\ pc[q] = "idle"
    /\ call' = [call EXCEPT ![q] = c]
    /\ Goto(q, "connect")
    /\ UNCHANGED <<tables, locks, seen, limitRead, reply>>

(* get_current_user's SELECT takes a connection; what the handler reads    *)
(* without a lock it reads on it too.                                      *)
Connect(q, op) == pc[q] = "connect" /\ call[q].op = op /\ ConnectionFree

Refresh(q) ==
    /\ pc[q] = "refresh"
    /\ ConnectionFree
    /\ Refuse(q, IF call[q].op = "reserve" THEN "CREATED" ELSE "OK")

-----------------------------------------------------------------------------
(* POST /rooms/{id}/reservations : reserve_room.                           *)

Reserve(q) ==
    /\ Connect(q, "reserve")
    /\ Goto(q, "lockUser")
    /\ UNCHANGED <<tables, locks, call, seen, limitRead, reply>>

(* Mutant: Rooms need no user lock, the constraint decides. *)
LockUserSkipped(q) ==
    /\ pc[q] = "lockUser"
    /\ Goto(q, "quotaGate")
    /\ UNCHANGED <<tables, locks, call, seen, limitRead, reply>>

LockUser(q) ==
    /\ pc[q] = "lockUser"
    /\ Lock(q, UserRow(call[q].user), "UPDATE")
    /\ Goto(q, "quotaGate")
    /\ UNCHANGED <<tables, call, seen, limitRead, reply>>

QuotaGate(q) ==
    /\ pc[q] = "quotaGate"
    /\ LET refusal == QuotaRefusal(call[q].user) IN
       \/ refusal # None /\ Refuse(q, refusal)
       \/ /\ refusal = None
          /\ limitRead' = [limitRead EXCEPT ![q] = quotas[RoleOf[call[q].user]]]
          /\ Goto(q, "lockRoom")
          /\ UNCHANGED <<tables, locks, call, seen, reply>>

(* Mutant: The gate reads the room without FOR SHARE. *)
LockRoomPlainRead(q) ==
    /\ pc[q] = "lockRoom"
    /\ rooms[call[q].room] = "AVAILABLE"
    /\ Goto(q, "insert")
    /\ UNCHANGED <<tables, locks, call, seen, limitRead, reply>>

(* SELECT ... FOR SHARE: other bookers pass, a PATCH waits.                *)
LockRoom(q) ==
    /\ pc[q] = "lockRoom"
    /\ rooms[call[q].room] = "AVAILABLE"
    /\ Lock(q, RoomRow(call[q].room), "SHARE")
    /\ Goto(q, "insert")
    /\ UNCHANGED <<tables, call, seen, limitRead, reply>>

(* Mutant: The room's status is sent where the error code belongs. *)
LockRoomRefusesStatus(q) ==
    /\ pc[q] = "lockRoom"
    /\ Free(locks, q, RoomRow(call[q].room), "SHARE")
    /\ \/ ~Exists(call[q].room) /\ Refuse(q, "NOT_FOUND")
       \/ rooms[call[q].room] = "BLOCKED" /\ Refuse(q, rooms[call[q].room])

LockRoomRefuses(q) ==
    /\ pc[q] = "lockRoom"
    /\ Free(locks, q, RoomRow(call[q].room), "SHARE")
    /\ \/ ~Exists(call[q].room) /\ Refuse(q, "NOT_FOUND")
       \/ rooms[call[q].room] = "BLOCKED" /\ Refuse(q, "RESOURCE_BLOCKED")

(* The INSERT: its row is in the index before it has looked for others.    *)
Insert(q) ==
    /\ pc[q] = "insert"
    /\ Goto(q, "overlap")
    /\ UNCHANGED <<tables, locks, call, seen, limitRead, reply>>

(* Mutant: A SELECT for a free slot before the INSERT, and no constraint. *)
OverlapUnchecked(q) ==
    /\ pc[q] = "overlap"
    /\ conflicting_reservations(call[q].room, call[q].window) = {}
    /\ Goto(q, "commit")
    /\ UNCHANGED <<tables, locks, call, seen, limitRead, reply>>

(* no_overlapping_room_reservations: no committed row and no open one.     *)
OverlapNone(q) ==
    /\ pc[q] = "overlap"
    /\ conflicting_reservations(call[q].room, call[q].window) = {}
    /\ Rivals(q) = {}
    /\ Goto(q, "commit")
    /\ UNCHANGED <<tables, locks, call, seen, limitRead, reply>>

(* Mutant: A slot somebody is about to take is answered as taken. *)
OverlapFoundOpen(q) ==
    /\ pc[q] = "overlap"
    /\ \/ conflicting_reservations(call[q].room, call[q].window) # {}
       \/ \E p \in Rivals(q) : pc[p] = "commit"
    /\ Refuse(q, "INTERVAL_CONFLICT")

(* IntegrityError of that constraint: rolled back, RoomIntervalConflict.   *)
OverlapFound(q) ==
    /\ pc[q] = "overlap"
    /\ conflicting_reservations(call[q].room, call[q].window) # {}
    /\ Refuse(q, "INTERVAL_CONFLICT")

ReserveCommit(q) ==
    /\ pc[q] = "commit"
    /\ bookings' = [bookings EXCEPT ![q] =
          [room |-> call[q].room, user |-> call[q].user,
           window |-> call[q].window, status |-> "ACTIVE"]]
    /\ UNCHANGED <<rooms, quotas>>
    /\ Commit(q)

-----------------------------------------------------------------------------
(* DELETE /rooms/{id}/reservations/{rid} : cancel_reservation.             *)

Owner(q) == bookings[call[q].reservation].user
Listed(q) == LET b == bookings[call[q].reservation] IN b # None /\ b.room = call[q].room
MayCancel(q) == Owner(q) = call[q].user \/ RoleOf[call[q].user] = "ADMIN"

(* Reads without a lock; a row's user and room never change afterwards.    *)
Cancel(q) ==
    /\ Connect(q, "cancel")
    /\ Listed(q) /\ MayCancel(q) /\ Active(call[q].reservation)
    /\ Goto(q, "lockOwner")
    /\ UNCHANGED <<tables, locks, call, seen, limitRead, reply>>

CancelNothingToDo(q) ==
    /\ Connect(q, "cancel")
    /\ \/ ~Listed(q) /\ Refuse(q, "NOT_FOUND")
       \/ Listed(q) /\ ~MayCancel(q) /\ Refuse(q, "FORBIDDEN")
       \/ /\ Listed(q) /\ MayCancel(q) /\ ~Active(call[q].reservation)
          /\ Refuse(q, "OK")

(* Mutant: No lock, as before Deadline 6. *)
LockOwnerSkipped(q) ==
    /\ pc[q] = "lockOwner"
    /\ Goto(q, "recheck")
    /\ UNCHANGED <<tables, locks, call, seen, limitRead, reply>>

(* Mutant: The caller's row is locked, an admin's own. *)
LockOwnerCaller(q) ==
    /\ pc[q] = "lockOwner"
    /\ Lock(q, UserRow(call[q].user), "UPDATE")
    /\ Goto(q, "recheck")
    /\ UNCHANGED <<tables, call, seen, limitRead, reply>>

LockOwner(q) ==
    /\ pc[q] = "lockOwner"
    /\ Lock(q, UserRow(Owner(q)), "UPDATE")
    /\ Goto(q, "recheck")
    /\ UNCHANGED <<tables, call, seen, limitRead, reply>>

Recheck(q) ==
    /\ pc[q] = "recheck"
    /\ \/ ~Active(call[q].reservation) /\ Refuse(q, "OK")
       \/ /\ Active(call[q].reservation)
          /\ Goto(q, "release")
          /\ UNCHANGED <<tables, locks, call, seen, limitRead, reply>>

(* The UPDATE of the row and the COMMIT.                                   *)
CancelCommit(q) ==
    /\ pc[q] = "release"
    /\ bookings' = [bookings EXCEPT ![call[q].reservation].status = "CANCELLED"]
    /\ UNCHANGED <<rooms, quotas>>
    /\ Commit(q)

-----------------------------------------------------------------------------
(* PATCH /rooms/{id} and POST /rooms.                                       *)

Update(q) ==
    /\ Connect(q, "update")
    /\ Exists(call[q].room)
    /\ seen' = [seen EXCEPT ![q] = rooms[call[q].room]]
    /\ Goto(q, "edit")
    /\ UNCHANGED <<tables, locks, call, limitRead, reply>>

UpdateNotFound(q) ==
    /\ Connect(q, "update")
    /\ ~Exists(call[q].room)
    /\ Refuse(q, "NOT_FOUND")

(* setattr of a value equal to the loaded one emits no UPDATE; nor does an *)
(* empty body.                                                             *)
UpdateUnchanged(q) ==
    /\ pc[q] = "edit"
    /\ call[q].status \in {None, seen[q]}
    /\ UNCHANGED tables
    /\ Commit(q)

(* SET status = NULL fails on NOT NULL, before it looks for a row lock.    *)
UpdateNull(q) ==
    /\ pc[q] = "edit"
    /\ call[q].status = "NULL"
    /\ Refuse(q, "ERROR")

Dirty(q) == call[q].status \in ResourceStatus \ {seen[q]}

(* Mutant: The UPDATE does not wait for the bookers' FOR SHARE. *)
UpdateCommitUnblocked(q) ==
    /\ pc[q] = "edit"
    /\ Dirty(q)
    /\ rooms' = [rooms EXCEPT ![call[q].room] = call[q].status]
    /\ UNCHANGED <<bookings, quotas>>
    /\ Commit(q)

(* The UPDATE waits for the bookers that hold the row FOR SHARE.           *)
UpdateCommit(q) ==
    /\ pc[q] = "edit"
    /\ Dirty(q)
    /\ Free(locks, q, RoomRow(call[q].room), "NO KEY UPDATE")
    /\ rooms' = [rooms EXCEPT ![call[q].room] = call[q].status]
    /\ UNCHANGED <<bookings, quotas>>
    /\ Commit(q)

CreateRoom(r) ==
    /\ ~Exists(r)
    /\ rooms' = [rooms EXCEPT ![r] = "AVAILABLE"]
    /\ UNCHANGED <<bookings, quotas, session>>

(* PUT /admin/quotas/{role}/ROOM: up or down, whoever holds what.          *)
PutQuota(role, limit) ==
    /\ quotas[role] # limit
    /\ quotas' = [quotas EXCEPT ![role] = limit]
    /\ UNCHANGED <<rooms, bookings, session>>

-----------------------------------------------------------------------------
(* The environment.                                                        *)

InFlight(q) == pc[q] \notin {"idle", "done"}

ConnectionLost(q) ==
    /\ q \in Connected
    /\ Cardinality({ p \in Requests : reply[p] = "ERROR" }) < MaxLost
    /\ Refuse(q, "ERROR")

(* Nobody gave a connection back for pool_timeout seconds: TimeoutError.   *)
PoolTimeout(q) ==
    /\ pc[q] \in {"connect", "refresh"}
    /\ ~ConnectionFree
    /\ Refuse(q, "ERROR")

(* Whom the next statement of q waits for, in the database.                *)
WaitsFor(q) ==
    CASE pc[q] = "lockUser"  -> Blockers(locks, q, UserRow(call[q].user), "UPDATE")
      [] pc[q] = "lockRoom"  -> Blockers(locks, q, RoomRow(call[q].room), "SHARE")
      [] pc[q] = "overlap" /\ conflicting_reservations(call[q].room, call[q].window) = {}
                             -> Rivals(q)
      [] pc[q] = "lockOwner" -> Blockers(locks, q, UserRow(Owner(q)), "UPDATE")
      [] pc[q] = "edit" /\ Dirty(q)
                             -> Blockers(locks, q, RoomRow(call[q].room), "NO KEY UPDATE")
      [] OTHER               -> {}

waits == [q \in Requests |-> WaitsFor(q)]

(* psycopg's DeadlockDetected is an OperationalError, not an               *)
(* IntegrityError: nothing in reserve_room catches it.                     *)
DeadlockVictim(q) ==
    /\ WaitsFor(q) # {}
    /\ \E S \in SUBSET Requests : q \in S /\ Cycle(waits, S)
    /\ Refuse(q, "DEADLOCK")

-----------------------------------------------------------------------------
Init ==
    /\ rooms = [r \in Rooms |-> IF r \in SeededRooms THEN "AVAILABLE" ELSE None]
    /\ bookings = [q \in Requests |-> None]
    /\ quotas \in InitialQuotas
    /\ locks = {}
    /\ pc = [q \in Requests |-> "idle"]
    /\ call = [q \in Requests |-> None]
    /\ seen = [q \in Requests |-> None]
    /\ limitRead = [q \in Requests |-> None]
    /\ reply = [q \in Requests |-> None]

(* One statement of a request that is being served.                        *)
Serve(q) ==
    \/ Reserve(q) \/ LockUser(q) \/ QuotaGate(q) \/ LockRoom(q) \/ LockRoomRefuses(q)
    \/ Insert(q) \/ OverlapNone(q) \/ OverlapFound(q) \/ ReserveCommit(q)
    \/ Cancel(q) \/ CancelNothingToDo(q) \/ LockOwner(q) \/ Recheck(q) \/ CancelCommit(q)
    \/ Update(q) \/ UpdateNotFound(q) \/ UpdateUnchanged(q) \/ UpdateNull(q)
    \/ UpdateCommit(q) \/ Refresh(q)

Environment(q) == ConnectionLost(q) \/ PoolTimeout(q) \/ DeadlockVictim(q)

Next ==
    \/ \E q \in Requests : (\E c \in Calls : Arrive(q, c)) \/ Serve(q) \/ Environment(q)
    \/ \E r \in Rooms : CreateRoom(r)
    \/ \E role \in { RoleOf[u] : u \in Users }, limit \in Limits : PutQuota(role, limit)

Spec == Init /\ [][Next]_vars

(* The worker threads do not all stand still while one of them can execute *)
(* its next statement, and the server ends a cycle once a wait has lasted  *)
(* deadlock_timeout.  A request has finitely many statements, so it does   *)
(* not matter which thread is run.  That pool_timeout ever fires is not    *)
(* assumed: a wait for a connection ends without it.                       *)
FairSpec == Spec /\ WF_vars(\E q \in Requests : Serve(q) \/ DeadlockVictim(q))

-----------------------------------------------------------------------------
(* Properties.                                                             *)

(* Every variable has its type.                                            *)
TypeOK ==
    /\ rooms \in [Rooms -> ResourceStatus \cup {None}]
    /\ bookings \in [Requests -> Reservation \cup {None}]
    /\ quotas \in [Role -> Limit]
    /\ locks \subseteq [tx : Requests, row : LockRow, mode : LockMode]
    /\ pc \in [Requests -> Step]
    /\ call \in [Requests -> Call \cup {None}]
    /\ seen \in [Requests -> ResourceStatus \cup {None}]
    /\ limitRead \in [Requests -> Limit]
    /\ reply \in [Requests -> Code \cup {None}]

(* The moments, in units of the smallest step, at which a window is open.  *)
Instants(w) == w.start .. (w.end - 1)

(* No room is held twice at one instant, though no application lock takes  *)
(* part in deciding it (reserve_room, no_overlapping_room_reservations).   *)
NoDoubleBooking ==
    \A q, p \in Requests :
        /\ Active(q) /\ Active(p) /\ q # p
        /\ bookings[q].room = bookings[p].room
        => Instants(bookings[q].window) \cap Instants(bookings[p].window) = {}

(* Adjacent bookings succeed: an INTERVAL_CONFLICT is answered only to a   *)
(* client whose interval shares an instant with a booking that was really  *)
(* made, not with one that touches it or was still to be rolled back.      *)
ConflictMeansBooking ==
    \A q \in Requests : reply[q] = "INTERVAL_CONFLICT" =>
        \E p \in Requests :
            /\ bookings[p] # None
            /\ bookings[p].room = call[q].room
            /\ Instants(bookings[p].window) \cap Instants(call[q].window) # {}

(* Two bookings of two different rooms meet on no common row, and still,   *)
(* from the quota gate to COMMIT, the user's holds plus the new one stay   *)
(* within the limit the gate read (enforce_room_quota).  A PUT may lower   *)
(* the limit at any moment: it binds from the next gate on (put_quota).    *)
QuotaSecured ==
    \A q \in Requests : pc[q] \in {"lockRoom", "insert", "overlap", "commit"} =>
        \/ limitRead[q] = Unlimited
        \/ /\ limitRead[q] \in Nat
           /\ held_room_reservations(call[q].user) + 1 <= limitRead[q]

AwaitsConnection(q) == pc[q] \in {"connect", "refresh"} /\ ~ConnectionFree

Waiting == { q \in Requests : WaitsFor(q) # {} \/ AwaitsConnection(q) }

(* A request that waits for a connection can go on as soon as one holder   *)
(* can; one that waits in the database needs those it waits for.           *)
Wedged(S) ==
    /\ S # {}
    /\ \A q \in S : \/ WaitsFor(q) \cap S # {}
                    \/ AwaitsConnection(q) /\ Connected \subseteq S

(* Requests wait for each other in a circle over one thing only, the       *)
(* overlapping rows of bookers that insert at one time: never over row     *)
(* locks, and never over the connections of the pool.                      *)
CirclesOnlyOnSlots ==
    \A S \in SUBSET Waiting : Wedged(S) =>
        \E T \in SUBSET S : Cycle(waits, T) /\ \A q \in T : pc[q] = "overlap"

(* No booking becomes durable on a room that is BLOCKED at that moment:    *)
(* a PATCH lands before the gate or after the COMMIT (update_room).        *)
NoneOnBlocked ==
    [][\A q \in Requests : bookings[q] = None /\ bookings'[q] # None =>
          rooms'[bookings'[q].room] = "AVAILABLE"]_vars

(* Nobody is told to be at quota by a hold whose release has passed its    *)
(* last check (cancel_reservation).                                        *)
RefusedOnSettledRows ==
    [][\A q, p \in Requests :
          /\ reply[q] = None /\ reply'[q] = "QUOTA_EXCEEDED"
          /\ pc[p] = "release"
          => Owner(p) # call[q].user]_vars

(* Every request that is being served is answered, bookers in a circle and *)
(* requests that wait for a connection included: whoever is in flight now, *)
(* there comes a moment when nobody is (get_db, engine).                   *)
EveryRequestAnswered == []<>(\A q \in Requests : ~InFlight(q))

(* Of simultaneous bookings of one slot the losers get 409, "no 500s"      *)
(* (scripts/check_rooms.py): none dies as the victim of a deadlock.        *)
LosersGetConflict ==
    \A q \in Requests : reply[q] # "DEADLOCK"

-----------------------------------------------------------------------------
(* The committed tables, cancelled rows left out, are a RoomCalendar.      *)
Calendar == INSTANCE RoomCalendar WITH
    Bookers  <- Users,
    Ids      <- Requests,
    Overlapping <- { vw \in Windows \X Windows : Overlap(vw[1], vw[2]) },
    status   <- rooms,
    calendar <- [q \in Requests |-> IF Active(q)
                    THEN [room |-> bookings[q].room, user |-> bookings[q].user,
                          window |-> bookings[q].window]
                    ELSE None]

(* Every COMMIT is one booking, return, opening or mark of the calendar,   *)
(* and every other statement changes nothing that can be seen.             *)
ImplementsCalendar == Calendar!Init /\ [][Calendar!Next]_(Calendar!diary)
=============================================================================
