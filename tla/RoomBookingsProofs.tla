------------------------- MODULE RoomBookingsProofs -------------------------
(***************************************************************************)
(* Theorems about RoomBookings, for all sets of users, rooms, windows and  *)
(* requests, every policy, and a pool of any size.                         *)
(***************************************************************************)
EXTENDS RoomBookings, FiniteSetTheorems, WellFoundedInduction, TLAPS

(***************************************************************************)
(* What a request knows at each of its statements, because rows are never  *)
(* deleted and their room, user and window never change.                   *)
(***************************************************************************)
ReserveCall == [op : {"reserve"}, user : Users, room : Rooms, window : Windows]
CancelCall == [op : {"cancel"}, user : Users, room : Rooms, reservation : Requests]
UpdateCall == [op : {"update"}, room : Rooms, status : ResourceStatus \cup {"NULL", None}]

ReserveSteps == {"lockUser", "quotaGate", "lockRoom", "insert", "overlap", "commit"}
CancelSteps == {"lockOwner", "recheck", "release"}

SessionOK(q) ==
    /\ pc[q] = "idle" => bookings[q] = None
    /\ pc[q] # "idle" => call[q] \in Call
    /\ pc[q] = "connect" => bookings[q] = None
    /\ pc[q] \in ReserveSteps => call[q] \in ReserveCall /\ bookings[q] = None
    /\ pc[q] \in CancelSteps => call[q] \in CancelCall /\ Listed(q)
    /\ pc[q] = "edit" => call[q] \in UpdateCall /\ Exists(call[q].room)
    /\ reply[q] # None => pc[q] = "done"

(* A row carries the columns of the request that inserted it.              *)
RowOK(r) ==
    bookings[r] # None =>
        /\ call[r] \in ReserveCall
        /\ bookings[r].room = call[r].room
        /\ bookings[r].user = call[r].user
        /\ bookings[r].window = call[r].window
        /\ pc[r] \in {"refresh", "done"}

SessionsOK == \A q \in Requests : SessionOK(q) /\ RowOK(q)

Typed == TypeOK /\ SessionsOK

(* The op field of a call tells which of the three records it is.          *)
LEMMA CallKinds ==
    ASSUME NEW c \in Call
    PROVE  /\ c.op = "reserve" => c \in ReserveCall
           /\ c.op = "cancel" => c \in CancelCall
           /\ c.op = "update" => c \in UpdateCall
BY DEF Call, ReserveCall, CancelCall, UpdateCall

LEMMA InitTyped == Init => Typed
<1> SUFFICES ASSUME Init PROVE Typed
  OBVIOUS
<1>1. TypeOK
  BY PolicyTyped DEF Init, TypeOK, Step, ResourceStatus, Limit
<1>2. SessionsOK
  BY DEF Init, SessionsOK, SessionOK, RowOK, ReserveSteps, CancelSteps
<1> QED
  BY <1>1, <1>2 DEF Typed

-----------------------------------------------------------------------------
(* The kinds of step a request takes.                                      *)

Refused(q) == InFlight(q) /\ \E code \in Code : Refuse(q, code)

Moves(q, from, to) ==
    /\ pc[q] = from
    /\ Goto(q, to)
    /\ UNCHANGED <<tables, locks, call, reply>>

QuotaAdmits(q) ==
    /\ Moves(q, "quotaGate", "lockRoom")
    /\ QuotaRefusal(call[q].user) = None
    /\ limitRead' = [limitRead EXCEPT ![q] = quotas[RoleOf[call[q].user]]]
    /\ UNCHANGED seen

RecheckHeld(q) == Moves(q, "recheck", "release") /\ UNCHANGED <<seen, limitRead>>

Reads(q) ==
    \/ Reserve(q) \/ QuotaAdmits(q) \/ Insert(q) \/ OverlapNone(q)
    \/ Cancel(q) \/ RecheckHeld(q) \/ Update(q)

Locks(q) == LockUser(q) \/ LockRoom(q) \/ LockOwner(q)

Commits(q) ==
    ReserveCommit(q) \/ CancelCommit(q) \/ UpdateUnchanged(q) \/ UpdateCommit(q)

LEMMA StepKinds ==
    ASSUME Typed, NEW q \in Requests, Serve(q) \/ Environment(q)
    PROVE  Refused(q) \/ Reads(q) \/ Locks(q) \/ Commits(q)
<1> USE DEF Refused, InFlight, Code
<1>1. CASE QuotaGate(q)
  <2>1. QuotaRefusal(call[q].user) \in {None, "QUOTA_NOT_CONFIGURED", "QUOTA_EXCEEDED"}
    BY DEF QuotaRefusal
  <2> QED
    BY <1>1, <2>1 DEF QuotaGate, Reads, QuotaAdmits, Moves
<1>2. CASE Recheck(q)
  BY <1>2 DEF Recheck, Reads, RecheckHeld, Moves
<1>3. CASE LockRoomRefuses(q) \/ OverlapFound(q)
  BY <1>3 DEF LockRoomRefuses, OverlapFound
<1>4. CASE CancelNothingToDo(q) \/ UpdateNotFound(q) \/ UpdateNull(q)
  BY <1>4 DEF CancelNothingToDo, UpdateNotFound, UpdateNull, Connect
<1>5. CASE Refresh(q)
  BY <1>5 DEF Refresh
<1>6. CASE Environment(q)
  <2>1. CASE ConnectionLost(q)
    BY <2>1 DEF ConnectionLost, Connected
  <2>2. CASE PoolTimeout(q)
    BY <2>2 DEF PoolTimeout
  <2>3. CASE DeadlockVictim(q)
    BY <2>3 DEF DeadlockVictim, WaitsFor
  <2> QED
    BY <1>6, <2>1, <2>2, <2>3 DEF Environment
<1> QED
  BY <1>1, <1>2, <1>3, <1>4, <1>5, <1>6 DEF Serve, Reads, Locks, Commits

LEMMA RefusedTyped ==
    ASSUME Typed, NEW q \in Requests, Refused(q)
    PROVE  Typed'
<1> USE DEF Refused, Refuse, Answer, Goto, ReleaseAll, tables, InFlight
<1>1. TypeOK'
  BY DEF Typed, TypeOK, Step, Limit
<1>2. SessionsOK'
  BY DEF Typed, TypeOK, SessionsOK, SessionOK, RowOK, Exists, Listed, ReserveSteps, CancelSteps
<1> QED
  BY <1>1, <1>2 DEF Typed

LEMMA ArriveTyped ==
    ASSUME Typed, NEW q \in Requests, NEW c \in Calls, Arrive(q, c)
    PROVE  Typed'
<1> USE DEF Arrive, Goto, tables
<1>1. TypeOK'
  BY CallsTyped DEF Typed, TypeOK, Step
<1>2. SessionsOK'
  BY CallsTyped DEF Typed, TypeOK, SessionsOK, SessionOK, RowOK, Exists, Listed,
                    ReserveSteps, CancelSteps
<1> QED
  BY <1>1, <1>2 DEF Typed

LEMMA ReadTyped ==
    ASSUME Typed, NEW q \in Requests, Reads(q)
    PROVE  Typed'
<1> USE DEF Typed, TypeOK, Goto, tables, Moves
<1>0. limitRead' \in [Requests -> Limit]
  <2>1. ASSUME QuotaAdmits(q) PROVE quotas[RoleOf[call[q].user]] \in Limit
    BY <2>1, PolicyTyped DEF QuotaAdmits, SessionsOK, SessionOK, ReserveSteps, ReserveCall
  <2> QED
    BY <2>1 DEF Reads, Reserve, QuotaAdmits, Insert, OverlapNone, Cancel, RecheckHeld, Update
<1>1. TypeOK'
  BY <1>0, SentinelsApart
     DEF Reads, Reserve, QuotaAdmits, Insert, OverlapNone, Cancel, RecheckHeld, Update,
         Connect, SessionsOK, SessionOK, Call, Step, Exists
<1> USE DEF SessionsOK, SessionOK, RowOK, Exists, Listed, ReserveSteps, CancelSteps
<1>2. CASE Reserve(q) \/ Cancel(q) \/ Update(q)
  <2>1. call[q] \in Call /\ pc[q] = "connect" /\ UNCHANGED <<tables, call, reply>>
    BY <1>2 DEF Reserve, Cancel, Update, Connect
  <2>2. CASE Reserve(q)
    BY <1>1, <2>1, <2>2, CallKinds DEF Reserve, Connect
  <2>3. CASE Cancel(q)
    BY <1>1, <2>1, <2>3, CallKinds DEF Cancel, Connect
  <2>4. CASE Update(q)
    BY <1>1, <2>1, <2>4, CallKinds DEF Update, Connect
  <2> QED
    BY <1>2, <2>2, <2>3, <2>4
<1>3. CASE QuotaAdmits(q) \/ Insert(q) \/ OverlapNone(q) \/ RecheckHeld(q)
  BY <1>1, <1>3 DEF QuotaAdmits, Insert, OverlapNone, RecheckHeld
<1> QED
  BY <1>2, <1>3 DEF Reads

-----------------------------------------------------------------------------
(* Lock statements.                                                        *)

LEMMA RowsLocked ==
    /\ \A u \in Users : UserRow(u) \in LockRow
    /\ \A r \in Rooms : RoomRow(r) \in LockRow
BY DEF UserRow, RoomRow, LockRow

LEMMA OwnerTyped ==
    ASSUME Typed, NEW q \in Requests, pc[q] \in CancelSteps
    PROVE  /\ call[q].reservation \in Requests
           /\ bookings[call[q].reservation] \in Reservation
           /\ Owner(q) \in Users
BY DEF Typed, TypeOK, SessionsOK, SessionOK, CancelCall, Listed, Owner, Reservation

(* The one statement that q executes, with the row and the mode it asks.   *)
LEMMA LockTaken ==
    ASSUME Typed, NEW q \in Requests, Locks(q)
    PROVE  \E row \in LockRow, mode \in LockMode, to \in Step :
              /\ Lock(q, row, mode)
              /\ Goto(q, to)
              /\ UNCHANGED <<tables, call, seen, limitRead, reply>>
<1> USE RowsLocked DEF Typed, TypeOK, SessionsOK, SessionOK, LockMode, Step, ReserveSteps, CancelSteps
<1>1. CASE LockUser(q)
  BY <1>1 DEF LockUser, ReserveCall
<1>2. CASE LockRoom(q)
  BY <1>2 DEF LockRoom, ReserveCall
<1>3. CASE LockOwner(q)
  BY <1>3, OwnerTyped DEF LockOwner
<1> QED
  BY <1>1, <1>2, <1>3 DEF Locks

LEMMA LockTyped ==
    ASSUME Typed, NEW q \in Requests, Locks(q)
    PROVE  Typed'
<1> PICK row \in LockRow, mode \in LockMode, to \in Step :
              /\ Lock(q, row, mode)
              /\ Goto(q, to)
              /\ UNCHANGED <<tables, call, seen, limitRead, reply>>
  BY LockTaken
<1>1. TypeOK'
  BY DEF Typed, TypeOK, Lock, Grant, Goto, tables
<1>2. SessionsOK'
  BY DEF Locks, LockUser, LockRoom, LockOwner, Typed, TypeOK, Goto, tables, SessionsOK,
         SessionOK, RowOK, Exists, Listed, ReserveSteps, CancelSteps
<1> QED
  BY <1>1, <1>2 DEF Typed

-----------------------------------------------------------------------------
(* COMMITs.                                                                *)

(* The row a booking writes, and the row a release leaves.                 *)
LEMMA Booked ==
    ASSUME Typed, NEW q \in Requests, ReserveCommit(q)
    PROVE  /\ pc[q] = "commit" /\ bookings[q] = None /\ call[q] \in ReserveCall
           /\ rooms' = rooms /\ quotas' = quotas
           /\ bookings' = [bookings EXCEPT ![q] =
                 [room |-> call[q].room, user |-> call[q].user,
                  window |-> call[q].window, status |-> "ACTIVE"]]
           /\ bookings'[q] \in Reservation
BY DEF ReserveCommit, Typed, TypeOK, SessionsOK, SessionOK, ReserveSteps, ReserveCall,
       Reservation, ReservationStatus

LEMMA Released ==
    ASSUME Typed, NEW q \in Requests, CancelCommit(q)
    PROVE  \E t \in Requests :
           /\ t = call[q].reservation /\ pc[q] = "release"
           /\ bookings[t] \in Reservation
           /\ rooms' = rooms /\ quotas' = quotas
           /\ bookings' = [bookings EXCEPT ![t] =
                 [room |-> bookings[t].room, user |-> bookings[t].user,
                  window |-> bookings[t].window, status |-> "CANCELLED"]]
           /\ bookings'[t] \in Reservation
<1> DEFINE t == call[q].reservation
           row == bookings[t]
<1>1. /\ pc[q] = "release" /\ rooms' = rooms /\ quotas' = quotas
      /\ bookings' = [bookings EXCEPT ![t] = [row EXCEPT !.status = "CANCELLED"]]
  BY DEF CancelCommit
<1>2. t \in Requests /\ row \in Reservation
  BY <1>1, OwnerTyped DEF CancelSteps
<1>3. bookings \in [Requests -> Reservation \cup {None}]
  BY DEF Typed, TypeOK
<1> HIDE DEF row
<1>4. [row EXCEPT !.status = "CANCELLED"]
        = [room |-> row.room, user |-> row.user, window |-> row.window,
           status |-> "CANCELLED"]
  BY <1>2 DEF Reservation
<1>5. [room |-> row.room, user |-> row.user, window |-> row.window,
       status |-> "CANCELLED"] \in Reservation
  BY <1>2 DEF Reservation, ReservationStatus
<1> HIDE DEF t
<1> QED
  BY <1>1, <1>2, <1>3, <1>4, <1>5 DEF row, t

(* Only these two write the bookings; a row keeps all but its status.      *)
LEMMA CommitTyped ==
    ASSUME Typed, NEW q \in Requests, Commits(q)
    PROVE  Typed'
<1> USE DEF Commit, Goto, ReleaseAll
<1>1. UNCHANGED <<call, reply>> /\ locks' \subseteq locks
      /\ pc' = [pc EXCEPT ![q] = "refresh"]
      /\ pc[q] \in {"commit", "release", "edit"}
  BY DEF Commits, ReserveCommit, CancelCommit, UpdateUnchanged, UpdateCommit
<1>2. /\ pc' \in [Requests -> Step]
      /\ seen' \in [Requests -> ResourceStatus \cup {None}]
      /\ limitRead' \in [Requests -> Limit]
  <2>1. /\ seen' = [seen EXCEPT ![q] = None]
        /\ limitRead' = [limitRead EXCEPT ![q] = None]
    BY DEF Commits, ReserveCommit, CancelCommit, UpdateUnchanged, UpdateCommit
  <2> QED
    BY <1>1, <2>1 DEF Typed, TypeOK, Step, Limit
<1>3. CASE ReserveCommit(q)
  <2>1. TypeOK'
    BY <1>1, <1>2, <1>3, Booked DEF Typed, TypeOK
  <2>2. SessionsOK'
    BY <1>1, <1>3, Booked, SentinelsApart
       DEF Typed, TypeOK, SessionsOK, SessionOK, RowOK, Exists, Listed, ReserveSteps,
           CancelSteps, CancelCall
  <2> QED
    BY <2>1, <2>2 DEF Typed
<1>4. CASE CancelCommit(q)
  <2>0. PICK t \in Requests :
           /\ t = call[q].reservation /\ pc[q] = "release"
           /\ bookings[t] \in Reservation
           /\ rooms' = rooms /\ quotas' = quotas
           /\ bookings' = [bookings EXCEPT ![t] =
                 [room |-> bookings[t].room, user |-> bookings[t].user,
                  window |-> bookings[t].window, status |-> "CANCELLED"]]
           /\ bookings'[t] \in Reservation
    BY <1>4, Released
  <2>1. TypeOK'
    BY <1>1, <1>2, <2>0 DEF Typed, TypeOK
  <2>2. SessionsOK'
    BY <1>1, <2>0, SentinelsApart
       DEF Typed, TypeOK, SessionsOK, SessionOK, RowOK, Exists, Listed, ReserveSteps,
           CancelSteps, CancelCall
  <2> QED
    BY <2>1, <2>2 DEF Typed
<1>5. CASE UpdateUnchanged(q) \/ UpdateCommit(q)
  <2>1. call[q] \in UpdateCall /\ pc[q] = "edit"
    BY <1>5 DEF UpdateUnchanged, UpdateCommit, Typed, SessionsOK, SessionOK
  <2>2. UNCHANGED <<bookings, quotas>> /\ rooms' \in [Rooms -> ResourceStatus \cup {None}]
        /\ \A r \in Rooms : rooms[r] # None => rooms'[r] # None
    BY <1>5, <2>1, SentinelsApart
       DEF UpdateUnchanged, UpdateCommit, tables, Typed, TypeOK, UpdateCall, Dirty
  <2>3. TypeOK'
    BY <1>1, <1>2, <2>2 DEF Typed, TypeOK
  <2>4. SessionsOK'
    BY <1>1, <2>1, <2>2
       DEF Typed, TypeOK, SessionsOK, SessionOK, RowOK, Exists, Listed, ReserveSteps,
           CancelSteps, UpdateCall
  <2> QED
    BY <2>3, <2>4 DEF Typed
<1> QED
  BY <1>3, <1>4, <1>5 DEF Commits

LEMMA NextTyped == Typed /\ [Next]_vars => Typed'
<1> SUFFICES ASSUME Typed, [Next]_vars PROVE Typed'
  OBVIOUS
<1>1. ASSUME NEW q \in Requests, Serve(q) \/ Environment(q)
      PROVE  Typed'
  BY <1>1, StepKinds, RefusedTyped, ReadTyped, LockTyped, CommitTyped
<1>2. ASSUME NEW r \in Rooms, CreateRoom(r) PROVE Typed'
  BY <1>2 DEF CreateRoom, session, Typed, TypeOK, SessionsOK, SessionOK, RowOK, Exists, Listed,
              ResourceStatus, UpdateCall
<1>3. ASSUME NEW role, NEW limit \in Limits, PutQuota(role, limit) PROVE Typed'
  BY <1>3, PolicyTyped DEF PutQuota, session, Typed, TypeOK, Limit, SessionsOK, SessionOK, RowOK,
                           Exists, Listed
<1>4. CASE UNCHANGED vars
  BY <1>4 DEF vars, Typed, TypeOK, SessionsOK, SessionOK, RowOK, Exists, Listed
<1> QED
  BY <1>1, <1>2, <1>3, <1>4, ArriveTyped DEF Next

(* Type correctness: in every behaviour each variable has its type.        *)
THEOREM TypeCorrect == Spec => []TypeOK
<1>1. Spec => []Typed
  BY InitTyped, NextTyped, PTL DEF Spec
<1>2. Typed => TypeOK
  BY DEF Typed
<1> QED
  BY <1>1, <1>2, PTL

-----------------------------------------------------------------------------
(* What a step leaves alone.                                               *)

LEMMA OthersUntouched ==
    ASSUME Typed, NEW q \in Requests, Serve(q) \/ Environment(q),
           NEW p \in Requests, p # q
    PROVE  /\ pc'[p] = pc[p] /\ call' = call /\ reply'[p] = reply[p]
           /\ limitRead'[p] = limitRead[p]
           /\ \A l : l.tx = p => (l \in locks' <=> l \in locks)
<1> USE DEF Typed, TypeOK, Goto
<1>1. CASE Refused(q)
  BY <1>1 DEF Refused, Refuse, Answer, ReleaseAll
<1>2. CASE Reads(q)
  BY <1>2 DEF Reads, Reserve, QuotaAdmits, Insert, OverlapNone, Cancel, RecheckHeld, Update,
              Moves
<1>3. CASE Locks(q)
  <2>1. PICK row \in LockRow, mode \in LockMode, to \in Step :
              /\ Lock(q, row, mode)
              /\ Goto(q, to)
              /\ UNCHANGED <<tables, call, seen, limitRead, reply>>
    BY <1>3, LockTaken
  <2> QED
    BY <2>1 DEF Lock, Grant
<1>4. CASE Commits(q)
  BY <1>4 DEF Commits, ReserveCommit, CancelCommit, UpdateUnchanged, UpdateCommit, Commit,
              ReleaseAll
<1> QED
  BY <1>1, <1>2, <1>3, <1>4, StepKinds

(* Only three statements of a request write the tables.                    *)
LEMMA OnlyCommitsWrite ==
    ASSUME Typed, NEW q \in Requests, Serve(q) \/ Environment(q)
    PROVE  UNCHANGED tables \/ ReserveCommit(q) \/ CancelCommit(q) \/ UpdateCommit(q)
BY StepKinds
   DEF Refused, Refuse, Reads, Reserve, QuotaAdmits, Insert, OverlapNone, Cancel, RecheckHeld,
       Update, Moves, Locks, LockUser, LockRoom, LockOwner, Commits, UpdateUnchanged, tables

(* A row, once there, keeps its room, its user and its window.             *)
LEMMA RowsStable ==
    ASSUME Typed, [Next]_vars, NEW r \in Requests, bookings[r] # None
    PROVE  /\ bookings'[r] # None
           /\ bookings'[r].room = bookings[r].room
           /\ bookings'[r].user = bookings[r].user
           /\ bookings'[r].window = bookings[r].window
<1>1. ASSUME NEW q \in Requests, ReserveCommit(q) PROVE bookings'[r] = bookings[r]
  BY <1>1, Booked DEF Typed, TypeOK
<1>2. ASSUME NEW q \in Requests, CancelCommit(q)
      PROVE  /\ bookings'[r] # None
             /\ bookings'[r].room = bookings[r].room
             /\ bookings'[r].user = bookings[r].user
             /\ bookings'[r].window = bookings[r].window
  <2>1. PICK t \in Requests :
           /\ bookings[t] \in Reservation
           /\ bookings' = [bookings EXCEPT ![t] =
                 [room |-> bookings[t].room, user |-> bookings[t].user,
                  window |-> bookings[t].window, status |-> "CANCELLED"]]
           /\ bookings'[t] \in Reservation
    BY <1>2, Released
  <2> QED
    BY <2>1, SentinelsApart DEF Typed, TypeOK
<1>3. ASSUME NEW q \in Requests, UpdateCommit(q) PROVE bookings' = bookings
  BY <1>3 DEF UpdateCommit
<1>4. CASE UNCHANGED tables
  BY <1>4 DEF tables
<1>5. ASSUME NEW q \in Requests, NEW c \in Calls, Arrive(q, c) PROVE UNCHANGED tables
  BY <1>5 DEF Arrive
<1>6. ASSUME NEW s \in Rooms, CreateRoom(s) PROVE bookings' = bookings
  BY <1>6 DEF CreateRoom
<1>7. ASSUME NEW role, NEW limit, PutQuota(role, limit) PROVE bookings' = bookings
  BY <1>7 DEF PutQuota
<1>8. UNCHANGED vars => UNCHANGED tables
  BY DEF vars, tables
<1> QED
  BY <1>1, <1>2, <1>3, <1>4, <1>5, <1>6, <1>7, <1>8, OnlyCommitsWrite DEF Next

-----------------------------------------------------------------------------
(* Row locks.                                                              *)

(* The locks that the statements from one to COMMIT rely on.               *)
LocksOK(q) ==
    /\ pc[q] \in ReserveSteps \ {"lockUser"} =>
          Holds(locks, q, UserRow(call[q].user), "UPDATE")
    /\ pc[q] \in {"insert", "overlap", "commit"} =>
          Holds(locks, q, RoomRow(call[q].room), "SHARE")
    /\ pc[q] \in {"recheck", "release"} => Holds(locks, q, UserRow(Owner(q)), "UPDATE")

LocksHeld == (\A q \in Requests : LocksOK(q)) /\ ~Clash(locks)

LEMMA ModesExclude ==
    ASSUME NEW m \in LockMode, NEW n \in LockMode
    PROVE  /\ m \in Excluding[n] <=> n \in Excluding[m]
           /\ m \in Excluding["UPDATE"]
BY DEF LockMode, Excluding

(* A granted lock excludes no lock of another transaction.                 *)
LEMMA LockIsFree ==
    ASSUME TypeOK, ~Clash(locks), NEW q \in Requests, NEW row \in LockRow,
           NEW mode \in LockMode, Lock(q, row, mode)
    PROVE  /\ locks \subseteq locks'
           /\ Holds(locks', q, row, mode)
           /\ ~Clash(locks')
<1>1. locks' = locks \cup {[tx |-> q, row |-> row, mode |-> mode]}
  BY DEF Lock, Grant
<1>2. \A k \in locks : k.row = row /\ k.tx # q => k.mode \notin Excluding[mode]
  BY DEF Lock, Free, Blockers
<1>3. ~Clash(locks')
  <2> SUFFICES ASSUME NEW k \in locks', NEW l \in locks', k.row = l.row, k.tx # l.tx,
                      k.mode \in Excluding[l.mode]
               PROVE  FALSE
    BY DEF Clash
  <2>1. k.mode \in LockMode /\ l.mode \in LockMode
    BY <1>1 DEF TypeOK
  <2>2. CASE k \in locks /\ l \in locks
    BY <2>2 DEF Clash
  <2>3. CASE k \in locks /\ l \notin locks
    BY <1>1, <1>2, <2>3
  <2>4. CASE k \notin locks
    BY <1>1, <1>2, <2>1, <2>4, ModesExclude
  <2> QED
    BY <2>2, <2>3, <2>4
<1> QED
  BY <1>1, <1>3 DEF Holds

(* A row that is free for one mode is held by nobody else in a mode that   *)
(* excludes it.                                                            *)
LEMMA HeldByNobodyElse ==
    ASSUME NEW q, NEW row, NEW mode, Free(locks, q, row, mode),
           NEW p, p # q, NEW other \in Excluding[mode]
    PROVE  ~Holds(locks, p, row, other)
<1>1. \A k \in locks : k.row = row /\ k.tx # q => k.mode \notin Excluding[mode]
  BY DEF Free, Blockers
<1> QED
  BY <1>1 DEF Holds

LEMMA FewerLocksNoClash ==
    ASSUME ~Clash(locks), locks' \subseteq locks PROVE ~Clash(locks')
BY DEF Clash

LEMMA Exclusive ==
    ASSUME ~Clash(locks), NEW p, NEW q, p # q, NEW row,
           Holds(locks, p, row, "UPDATE"), Holds(locks, q, row, "UPDATE")
    PROVE  FALSE
BY ModesExclude DEF Clash, Holds, LockMode

(* The owner of the booking a request releases never changes.              *)
LEMMA OwnerStays ==
    ASSUME Typed, [Next]_vars, NEW q \in Requests, pc[q] \in CancelSteps, call'[q] = call[q]
    PROVE  Owner(q)' = Owner(q)
BY OwnerTyped, RowsStable, SentinelsApart DEF Owner

LEMMA LocksHeldInductive ==
    ASSUME Typed, LocksHeld, [Next]_vars
    PROVE  LocksHeld'
<1>1. ASSUME NEW q \in Requests, Serve(q) \/ Environment(q)
      PROVE  ~Clash(locks') /\ LocksOK(q)'
  <2> USE DEF Typed, TypeOK, Goto
  <2>1. CASE Refused(q)
    <3>1. locks' \subseteq locks /\ pc'[q] = "done"
      BY <2>1 DEF Refused, Refuse, Answer, ReleaseAll
    <3> QED
      BY <3>1, FewerLocksNoClash DEF LocksHeld, LocksOK, ReserveSteps
  <2>2. CASE Reads(q)
    <3>1. locks' = locks /\ call' = call /\ tables' = tables
      BY <2>2 DEF Reads, Reserve, QuotaAdmits, Insert, OverlapNone, Cancel, RecheckHeld,
                  Update, Moves, tables
    <3>2. LocksOK(q)'
      BY <2>2, <3>1
         DEF LocksHeld, LocksOK, Reads, Reserve, QuotaAdmits, Insert, OverlapNone, Cancel,
             RecheckHeld, Update, Moves, ReserveSteps, Owner, tables
    <3> QED
      BY <3>1, <3>2 DEF LocksHeld, Clash
  <2>3. CASE Locks(q)
    <3> USE RowsLocked DEF LocksHeld, SessionsOK, SessionOK, ReserveSteps, CancelSteps, LocksOK
    <3>0. "UPDATE" \in LockMode /\ "SHARE" \in LockMode
      BY DEF LockMode
    <3>1. CASE LockUser(q)
      BY <3>0, <3>1, LockIsFree DEF LockUser, ReserveCall, Holds
    <3>2. CASE LockRoom(q)
      BY <3>0, <3>2, LockIsFree DEF LockRoom, ReserveCall, Holds
    <3>3. CASE LockOwner(q)
      <4>1. Owner(q) \in Users /\ Owner(q)' = Owner(q)
        BY <3>3, OwnerTyped DEF LockOwner, Owner, tables
      <4> QED
        BY <3>0, <3>3, <4>1, LockIsFree DEF LockOwner, Holds
    <3> QED
      BY <2>3, <3>1, <3>2, <3>3 DEF Locks
  <2>4. CASE Commits(q)
    <3>1. locks' \subseteq locks /\ pc'[q] = "refresh"
      BY <2>4 DEF Commits, ReserveCommit, CancelCommit, UpdateUnchanged, UpdateCommit, Commit,
                  ReleaseAll
    <3> QED
      BY <3>1, FewerLocksNoClash DEF LocksHeld, LocksOK, ReserveSteps
  <2> QED
    BY <1>1, <2>1, <2>2, <2>3, <2>4, StepKinds
<1>2. ASSUME NEW q \in Requests, Serve(q) \/ Environment(q), NEW p \in Requests, p # q
      PROVE  LocksOK(p)'
  <2>1. /\ pc'[p] = pc[p] /\ call'[p] = call[p]
        /\ \A row, mode : Holds(locks, p, row, mode) => Holds(locks', p, row, mode)
    BY <1>2, OthersUntouched DEF Holds
  <2>2. pc[p] \in CancelSteps => Owner(p)' = Owner(p)
    BY <2>1, OwnerStays
  <2> QED
    BY <2>1, <2>2 DEF LocksHeld, LocksOK, CancelSteps
<1>3. ASSUME NEW q \in Requests, NEW c \in Calls, Arrive(q, c)
      PROVE  LocksHeld'
  BY <1>3 DEF Arrive, LocksHeld, LocksOK, Clash, Goto, Typed, TypeOK, ReserveSteps, Owner, tables
<1>4. ASSUME NEW r \in Rooms, CreateRoom(r)
      PROVE  LocksHeld'
  BY <1>4 DEF CreateRoom, session, LocksHeld, LocksOK, Clash, Owner
<1>5. ASSUME NEW role, NEW limit, PutQuota(role, limit)
      PROVE  LocksHeld'
  BY <1>5 DEF PutQuota, session, LocksHeld, LocksOK, Clash, Owner
<1>6. CASE UNCHANGED vars
  BY <1>6 DEF vars, LocksHeld, LocksOK, Clash, Owner
<1> QED
  BY <1>1, <1>2, <1>3, <1>4, <1>5, <1>6 DEF Next, LocksHeld

-----------------------------------------------------------------------------
(* The room stays open from the gate to COMMIT.                            *)

Opened ==
    \A q \in Requests :
        pc[q] \in {"insert", "overlap", "commit"} => rooms[call[q].room] = "AVAILABLE"

LEMMA OpenedInductive ==
    ASSUME Typed, LocksHeld, Opened, [Next]_vars
    PROVE  Opened'
<1> USE DEF Typed, TypeOK, Opened
<1>1. ASSUME NEW q \in Requests, Serve(q) \/ Environment(q), NEW p \in Requests, p # q,
             pc'[p] \in {"insert", "overlap", "commit"}
      PROVE  rooms'[call'[p].room] = "AVAILABLE"
  <2>1. /\ pc[p] = pc'[p] /\ call'[p] = call[p] /\ call[p] \in ReserveCall
        /\ Holds(locks, p, RoomRow(call[p].room), "SHARE")
    BY <1>1, OthersUntouched DEF LocksHeld, LocksOK, SessionsOK, SessionOK, ReserveSteps
  <2>2. CASE UpdateCommit(q)
    <3>1. "SHARE" \in Excluding["NO KEY UPDATE"]
      BY DEF Excluding, LockMode
    <3>2. Free(locks, q, RoomRow(call[q].room), "NO KEY UPDATE")
      BY <2>2 DEF UpdateCommit
    <3>3. ~Holds(locks, p, RoomRow(call[q].room), "SHARE")
      BY <1>1, <3>1, <3>2, HeldByNobodyElse
    <3>4. call[q].room # call[p].room
      BY <2>1, <3>3
    <3> QED
      BY <1>1, <2>1, <2>2, <3>4 DEF UpdateCommit, ReserveCall
  <2>3. CASE ReserveCommit(q) \/ CancelCommit(q) \/ UNCHANGED tables
    BY <1>1, <2>1, <2>3 DEF ReserveCommit, CancelCommit, tables
  <2> QED
    BY <1>1, <2>2, <2>3, OnlyCommitsWrite
<1>2. ASSUME NEW q \in Requests, Serve(q) \/ Environment(q),
             pc'[q] \in {"insert", "overlap", "commit"}
      PROVE  rooms'[call'[q].room] = "AVAILABLE"
  <2> USE DEF Goto
  <2>1. CASE Refused(q) \/ Commits(q)
    BY <1>2, <2>1 DEF Refused, Refuse, Answer, Commits, ReserveCommit, CancelCommit,
                      UpdateUnchanged, UpdateCommit, Commit
  <2>2. CASE Reads(q)
    BY <1>2, <2>2 DEF Reads, Reserve, QuotaAdmits, Insert, OverlapNone, Cancel, RecheckHeld,
                      Update, Moves, tables
  <2>3. CASE Locks(q)
    BY <1>2, <2>3 DEF Locks, LockUser, LockRoom, LockOwner, tables
  <2> QED
    BY <1>2, <2>1, <2>2, <2>3, StepKinds
<1>3. ASSUME NEW q \in Requests, NEW c \in Calls, Arrive(q, c) PROVE Opened'
  BY <1>3 DEF Arrive, Goto, tables
<1>4. ASSUME NEW r \in Rooms, CreateRoom(r) PROVE Opened'
  BY <1>4 DEF CreateRoom, session, SessionsOK, SessionOK, ReserveSteps, ReserveCall
<1>5. ASSUME NEW role, NEW limit, PutQuota(role, limit) PROVE Opened'
  BY <1>5 DEF PutQuota, session
<1>6. CASE UNCHANGED vars
  BY <1>6 DEF vars
<1> QED
  BY <1>1, <1>2, <1>3, <1>4, <1>5, <1>6 DEF Next

-----------------------------------------------------------------------------
(* Slots.                                                                  *)

(* What the check of the constraint found is still so until COMMIT.        *)
Slotted ==
    /\ \A q \in Requests :
          pc[q] = "commit" => conflicting_reservations(call[q].room, call[q].window) = {}
    /\ \A q, p \in Requests :
          /\ pc[q] = "commit" /\ pc[p] = "commit" /\ q # p
          /\ call[q].room = call[p].room
          => ~Overlap(call[q].window, call[p].window)

(* NoDoubleBooking, said with the operator the constraint uses.            *)
Apart ==
    \A q, p \in Requests :
        /\ Active(q) /\ Active(p) /\ q # p
        /\ bookings[q].room = bookings[p].room
        => ~Overlap(bookings[q].window, bookings[p].window)

(* Intervals overlap exactly when some instant lies in both.               *)
LEMMA InstantsMeet ==
    ASSUME NEW v \in ReservationCreate, NEW w \in ReservationCreate
    PROVE  Instants(v) \cap Instants(w) # {} <=> Overlap(v, w)
<1>1. /\ v.start \in Nat /\ v.end \in Nat /\ v.start < v.end
      /\ w.start \in Nat /\ w.end \in Nat /\ w.start < w.end
  BY DEF ReservationCreate
<1>2. ASSUME Overlap(v, w) PROVE Instants(v) \cap Instants(w) # {}
  <2>1. CASE v.start <= w.start
    <3>1. w.start \in Instants(v) \cap Instants(w)
      BY <1>1, <1>2, <2>1 DEF Overlap, Instants
    <3> QED
      BY <3>1
  <2>2. CASE w.start <= v.start
    <3>1. v.start \in Instants(v) \cap Instants(w)
      BY <1>1, <1>2, <2>2 DEF Overlap, Instants
    <3> QED
      BY <3>1
  <2> QED
    BY <1>1, <2>1, <2>2
<1>3. ASSUME NEW i \in Instants(v) \cap Instants(w) PROVE Overlap(v, w)
  BY <1>1, <1>3 DEF Overlap, Instants
<1> QED
  BY <1>2, <1>3

LEMMA OverlapSymmetric == \A v, w : Overlap(v, w) <=> Overlap(w, v)
BY DEF Overlap

(* Only a check of the constraint that found nothing leads to COMMIT.      *)
LEMMA CommitEntered ==
    ASSUME Typed, NEW q \in Requests, Serve(q) \/ Environment(q), pc'[q] = "commit"
    PROVE  OverlapNone(q)
<1> USE DEF Goto, Typed, TypeOK
<1>1. CASE Refused(q) \/ Commits(q)
  BY <1>1 DEF Refused, Refuse, Answer, Commits, ReserveCommit, CancelCommit,
              UpdateUnchanged, UpdateCommit, Commit
<1>2. CASE Reads(q)
  BY <1>2 DEF Reads, Reserve, QuotaAdmits, Insert, Cancel, RecheckHeld, Update, Moves
<1>3. CASE Locks(q)
  BY <1>3 DEF Locks, LockUser, LockRoom, LockOwner
<1> QED
  BY <1>1, <1>2, <1>3, StepKinds

(* An answered request takes no further step.                              *)
LEMMA NothingAfterDone ==
    ASSUME Typed, NEW q \in Requests, Serve(q) \/ Environment(q)
    PROVE  pc[q] # "done"
<1>1. CASE Refused(q)
  BY <1>1 DEF Refused, InFlight
<1>2. CASE Reads(q)
  BY <1>2 DEF Reads, Reserve, QuotaAdmits, Insert, OverlapNone, Cancel, RecheckHeld, Update,
              Moves, Connect
<1>3. CASE Locks(q) \/ Commits(q)
  BY <1>3 DEF Locks, LockUser, LockRoom, LockOwner, Commits, ReserveCommit, CancelCommit,
              UpdateUnchanged, UpdateCommit
<1> QED
  BY <1>1, <1>2, <1>3, StepKinds

(* Only the quota gate lets a booker on to the room.                       *)
LEMMA GateOpened ==
    ASSUME Typed, NEW q \in Requests, Serve(q) \/ Environment(q),
           pc'[q] \in {"lockRoom", "insert", "overlap", "commit"}
    PROVE  /\ call'[q] = call[q]
           /\ \/ /\ pc[q] \in {"lockRoom", "insert", "overlap", "commit"}
                 /\ limitRead'[q] = limitRead[q]
              \/ QuotaAdmits(q)
<1> USE DEF Goto, Typed, TypeOK
<1>1. CASE Refused(q) \/ Commits(q)
  BY <1>1 DEF Refused, Refuse, Answer, Commits, ReserveCommit, CancelCommit,
              UpdateUnchanged, UpdateCommit, Commit
<1>2. CASE Reads(q)
  BY <1>2 DEF Reads, Reserve, QuotaAdmits, Insert, OverlapNone, Cancel, RecheckHeld, Update,
              Moves
<1>3. CASE Locks(q)
  BY <1>3 DEF Locks, LockUser, LockRoom, LockOwner
<1> QED
  BY <1>1, <1>2, <1>3, StepKinds

LEMMA CancelledRows ==
    ASSUME Typed, NEW q \in Requests, CancelCommit(q), NEW r \in Requests, Active(r)'
    PROVE  Active(r) /\ bookings'[r] = bookings[r]
<1>1. PICK t \in Requests :
           bookings' = [bookings EXCEPT ![t] =
                 [room |-> bookings[t].room, user |-> bookings[t].user,
                  window |-> bookings[t].window, status |-> "CANCELLED"]]
  BY Released
<1> QED
  BY <1>1 DEF Active, Typed, TypeOK

(* Requests at COMMIT after a step were there before, but for a request    *)
(* whose check found nothing.                                              *)
LEMMA SlotsInductive ==
    ASSUME Typed, Slotted, Apart, [Next]_vars
    PROVE  Slotted' /\ Apart'
<1>1. ASSUME NEW q \in Requests, ReserveCommit(q)
      PROVE  Slotted' /\ Apart'
  <2>1. /\ pc[q] = "commit" /\ call' = call
        /\ pc' = [pc EXCEPT ![q] = "refresh"]
        /\ bookings' = [bookings EXCEPT ![q] =
              [room |-> call[q].room, user |-> call[q].user,
               window |-> call[q].window, status |-> "ACTIVE"]]
    BY <1>1, Booked DEF ReserveCommit, Commit, Goto
  <2>2. /\ \A p \in Requests : pc'[p] = "commit" <=> p # q /\ pc[p] = "commit"
        /\ \A p \in Requests \ {q} : bookings'[p] = bookings[p]
        /\ bookings'[q].room = call[q].room /\ bookings'[q].window = call[q].window
    BY <2>1 DEF Typed, TypeOK
  <2>3. \A p \in Requests \ {q} :
           Active(p) /\ bookings[p].room = call[q].room
              => ~Overlap(bookings[p].window, call[q].window)
    BY <2>1 DEF Slotted, conflicting_reservations
  <2>4. Apart'
    BY <2>2, <2>3, OverlapSymmetric DEF Apart, Active
  <2>5. ASSUME NEW p \in Requests, pc'[p] = "commit"
        PROVE  conflicting_reservations(call[p].room, call[p].window)' = {}
    BY <2>1, <2>2, <2>5 DEF Slotted, conflicting_reservations, Active
  <2> QED
    BY <2>1, <2>2, <2>4, <2>5 DEF Slotted, conflicting_reservations, Active
<1>2. ASSUME NEW q \in Requests, CancelCommit(q)
      PROVE  Slotted' /\ Apart'
  <2>1. /\ call' = call /\ pc[q] = "release"
        /\ \A p \in Requests : pc'[p] = "commit" <=> pc[p] = "commit"
    BY <1>2 DEF CancelCommit, Commit, Goto, Typed, TypeOK
  <2>2. \A r \in Requests : Active(r)' => Active(r) /\ bookings'[r] = bookings[r]
    BY <1>2, CancelledRows
  <2>3. \A room, window : conflicting_reservations(room, window)'
                             \subseteq conflicting_reservations(room, window)
    BY <2>2 DEF conflicting_reservations
  <2>4. Slotted'
    BY <2>1, <2>3 DEF Slotted, conflicting_reservations
  <2>5. Apart'
    BY <2>2 DEF Apart
  <2> QED
    BY <2>4, <2>5
<1>3. ASSUME NEW q \in Requests, Serve(q) \/ Environment(q), bookings' = bookings
      PROVE  Slotted' /\ Apart'
  <2>1. call' = call
    BY <1>3, StepKinds
       DEF Refused, Refuse, Answer, Reads, Reserve, QuotaAdmits, Insert, OverlapNone, Cancel,
           RecheckHeld, Update, Moves, Locks, LockUser, LockRoom, LockOwner, Commits,
           ReserveCommit, CancelCommit, UpdateUnchanged, UpdateCommit, Commit
  <2>2. \A p \in Requests : pc'[p] = "commit" =>
           pc[p] = "commit" \/ (p = q /\ OverlapNone(q))
    <3>1. \A p \in Requests : p # q => pc'[p] = pc[p]
      BY <1>3, OthersUntouched
    <3>2. ASSUME pc'[q] = "commit" PROVE OverlapNone(q)
      BY <1>3, <3>2, CommitEntered
    <3> QED
      BY <3>1, <3>2
  <2>3. \A p \in Requests : Active(p)' <=> Active(p)
    BY <1>3 DEF Active
  <2>4. Apart'
    BY <1>3, <2>3 DEF Apart
  <2>5. OverlapNone(q) => \A p \in Requests \ {q} :
           pc[p] = "commit" /\ call[p].room = call[q].room
              => ~Overlap(call[p].window, call[q].window)
    BY DEF OverlapNone, Rivals, Inserted
  <2>6. OverlapNone(q) => conflicting_reservations(call[q].room, call[q].window) = {}
    BY DEF OverlapNone
  <2>7. ASSUME NEW p \in Requests, pc'[p] = "commit"
        PROVE  conflicting_reservations(call[p].room, call[p].window) = {}
    BY <2>2, <2>6, <2>7 DEF Slotted
  <2>8. ASSUME NEW p \in Requests, NEW r \in Requests, p # r,
               pc'[p] = "commit", pc'[r] = "commit", call[p].room = call[r].room
        PROVE  ~Overlap(call[p].window, call[r].window)
    BY <2>2, <2>5, <2>8, OverlapSymmetric DEF Slotted
  <2>9. Slotted'
    BY <1>3, <2>1, <2>7, <2>8 DEF Slotted, conflicting_reservations, Active
  <2> QED
    BY <2>4, <2>9
<1>4. ASSUME NEW q \in Requests, NEW c \in Calls, Arrive(q, c) PROVE Slotted' /\ Apart'
  BY <1>4 DEF Arrive, Goto, tables, Typed, TypeOK, Slotted, Apart, conflicting_reservations,
              Active
<1>5. ASSUME NEW r \in Rooms, CreateRoom(r) PROVE Slotted' /\ Apart'
  BY <1>5 DEF CreateRoom, session, Slotted, Apart, conflicting_reservations, Active
<1>6. ASSUME NEW role, NEW limit, PutQuota(role, limit) PROVE Slotted' /\ Apart'
  BY <1>6 DEF PutQuota, session, Slotted, Apart, conflicting_reservations, Active
<1>7. CASE UNCHANGED vars
  BY <1>7 DEF vars, Slotted, Apart, conflicting_reservations, Active
<1> QED
  BY <1>1, <1>2, <1>3, <1>4, <1>5, <1>6, <1>7, OnlyCommitsWrite DEF Next, tables, UpdateCommit

-----------------------------------------------------------------------------
(* What the client is told.                                                *)

(* These two answers have one source each.                                 *)
LEMMA AnswerSources ==
    ASSUME Typed, NEW q \in Requests, Serve(q) \/ Environment(q), reply[q] = None
    PROVE  /\ reply'[q] = "INTERVAL_CONFLICT" => OverlapFound(q)
           /\ reply'[q] = "QUOTA_EXCEEDED" => pc[q] = "quotaGate"
<1> USE SentinelsApart DEF Typed, TypeOK, Refuse, Answer, Code
<1>1. CASE OverlapFound(q)
  BY <1>1 DEF OverlapFound
<1>2. CASE QuotaGate(q)
  <2>1. QuotaRefusal(call[q].user) \in {None, "QUOTA_NOT_CONFIGURED", "QUOTA_EXCEEDED"}
    BY DEF QuotaRefusal
  <2> QED
    BY <1>2, <2>1 DEF QuotaGate
<1>3. CASE LockRoomRefuses(q) \/ CancelNothingToDo(q) \/ Recheck(q)
  BY <1>3 DEF LockRoomRefuses, CancelNothingToDo, Recheck
<1>4. CASE UpdateNotFound(q) \/ UpdateNull(q) \/ Refresh(q)
  BY <1>4 DEF UpdateNotFound, UpdateNull, Refresh
<1>5. CASE Environment(q)
  BY <1>5 DEF Environment, ConnectionLost, PoolTimeout, DeadlockVictim
<1>6. CASE Locks(q)
  BY <1>6 DEF Locks, LockUser, LockRoom, LockOwner
<1>7. CASE Commits(q)
  BY <1>7 DEF Commits, ReserveCommit, CancelCommit, UpdateUnchanged, UpdateCommit, Commit
<1>8. CASE Reserve(q) \/ Insert(q) \/ OverlapNone(q) \/ Cancel(q) \/ Update(q)
  BY <1>8 DEF Reserve, Insert, OverlapNone, Cancel, Update
<1> QED
  BY <1>1, <1>2, <1>3, <1>4, <1>5, <1>6, <1>7, <1>8 DEF Serve, Locks, Commits

(* ConflictMeansBooking, said with the operator the constraint uses.       *)
RefusedForBooking ==
    \A q \in Requests : reply[q] = "INTERVAL_CONFLICT" =>
        /\ call[q] \in ReserveCall
        /\ \E p \in Requests :
              /\ bookings[p] # None
              /\ bookings[p].room = call[q].room
              /\ Overlap(bookings[p].window, call[q].window)

LEMMA RefusedForBookingInductive ==
    ASSUME Typed, RefusedForBooking, [Next]_vars
    PROVE  RefusedForBooking'
<1> SUFFICES ASSUME NEW q \in Requests, reply'[q] = "INTERVAL_CONFLICT"
             PROVE  /\ call'[q] \in ReserveCall
                    /\ \E p \in Requests :
                          /\ bookings'[p] # None
                          /\ bookings'[p].room = call'[q].room
                          /\ Overlap(bookings'[p].window, call'[q].window)
  BY DEF RefusedForBooking
<1>1. CASE call'[q] = call[q] /\ reply'[q] = reply[q]
  <2>1. PICK p \in Requests :
              /\ bookings[p] # None
              /\ bookings[p].room = call[q].room
              /\ Overlap(bookings[p].window, call[q].window)
    BY <1>1 DEF RefusedForBooking
  <2>2. /\ bookings'[p] # None
        /\ bookings'[p].room = bookings[p].room
        /\ bookings'[p].window = bookings[p].window
    BY <2>1, RowsStable
  <2> QED
    BY <1>1, <2>1, <2>2 DEF RefusedForBooking
<1>2. CASE OverlapFound(q)
  <2>1. call'[q] = call[q] /\ bookings' = bookings /\ call[q] \in ReserveCall
    BY <1>2 DEF OverlapFound, Refuse, Answer, tables, Typed, SessionsOK, SessionOK, ReserveSteps
  <2>2. PICK p \in Requests : p \in conflicting_reservations(call[q].room, call[q].window)
    BY <1>2 DEF OverlapFound, conflicting_reservations
  <2> QED
    BY <2>1, <2>2 DEF conflicting_reservations, Active
<1>3. ASSUME NEW r \in Requests, Serve(r) \/ Environment(r)
      PROVE  (call'[q] = call[q] /\ reply'[q] = reply[q]) \/ OverlapFound(q)
  <2>1. CASE r # q
    BY <1>3, <2>1, OthersUntouched
  <2>2. CASE r = q /\ reply[q] = None
    BY <1>3, <2>2, AnswerSources
  <2>3. CASE r = q /\ reply[q] # None
    <3>1. pc[q] = "done"
      BY <2>3 DEF Typed, SessionsOK, SessionOK
    <3> QED
      BY <1>3, <2>3, <3>1, NothingAfterDone
  <2> QED
    BY <2>1, <2>2, <2>3
<1>4. ASSUME NEW r \in Requests, NEW c \in Calls, Arrive(r, c)
      PROVE  call'[q] = call[q] /\ reply'[q] = reply[q]
  <2>1. pc[q] = "done" /\ reply' = reply
    BY <1>4, SentinelsApart DEF Arrive, Typed, SessionsOK, SessionOK, Code
  <2> QED
    BY <1>4, <2>1 DEF Arrive, Typed, TypeOK
<1>5. ASSUME NEW r \in Rooms, CreateRoom(r)
      PROVE  call'[q] = call[q] /\ reply'[q] = reply[q]
  BY <1>5 DEF CreateRoom, session
<1>6. ASSUME NEW role, NEW limit, PutQuota(role, limit)
      PROVE  call'[q] = call[q] /\ reply'[q] = reply[q]
  BY <1>6 DEF PutQuota, session
<1> QED
  BY <1>1, <1>2, <1>3, <1>4, <1>5, <1>6 DEF Next, vars

-----------------------------------------------------------------------------
(* The limit.                                                              *)

Held(u) == { r \in Requests : Active(r) /\ bookings[r].user = u }

LEMMA HeldFinite ==
    ASSUME NEW u
    PROVE  IsFiniteSet(Held(u)) /\ held_room_reservations(u) = Cardinality(Held(u))
                                /\ held_room_reservations(u) \in Nat
BY RequestsFinite, FS_Subset, FS_CardinalityType DEF Held, held_room_reservations

LEMMA HeldAfterBooking ==
    ASSUME Typed, NEW q \in Requests, ReserveCommit(q), NEW u \in Users
    PROVE  held_room_reservations(u)' =
              held_room_reservations(u) + (IF u = call[q].user THEN 1 ELSE 0)
<1>1. /\ bookings[q] = None
      /\ bookings' = [bookings EXCEPT ![q] =
            [room |-> call[q].room, user |-> call[q].user,
             window |-> call[q].window, status |-> "ACTIVE"]]
      /\ bookings'[q] # None
  BY Booked, SentinelsApart
<1>2. /\ bookings'[q].user = call[q].user /\ bookings'[q].status = "ACTIVE"
      /\ \A r \in Requests \ {q} : bookings'[r] = bookings[r]
  BY <1>1 DEF Typed, TypeOK
<1>3. q \notin Held(u)
  BY <1>1 DEF Held, Active
<1>4. u = call[q].user => Held(u)' = Held(u) \cup {q}
  BY <1>1, <1>2 DEF Held, Active
<1>5. u # call[q].user => Held(u)' = Held(u)
  BY <1>1, <1>2 DEF Held, Active
<1>6. held_room_reservations(u)' = Cardinality(Held(u)')
  BY DEF Held, held_room_reservations
<1>7. u = call[q].user => Cardinality(Held(u)') = Cardinality(Held(u)) + 1
  BY <1>3, <1>4, HeldFinite, FS_AddElement
<1> QED
  BY <1>5, <1>6, <1>7, HeldFinite

LEMMA HeldAfterRelease ==
    ASSUME Typed, NEW q \in Requests, CancelCommit(q), NEW u \in Users
    PROVE  /\ held_room_reservations(u)' \in Nat
           /\ held_room_reservations(u)' <= held_room_reservations(u)
<1>1. Held(u)' \subseteq Held(u)
  BY CancelledRows DEF Held
<1>2. held_room_reservations(u)' = Cardinality(Held(u)')
  BY DEF Held, held_room_reservations
<1> QED
  BY <1>1, <1>2, HeldFinite, FS_Subset, FS_CardinalityType

(* What the quota gate found is still so until COMMIT.                     *)
LEMMA SecuredInductive ==
    ASSUME Typed, LocksHeld, QuotaSecured, [Next]_vars
    PROVE  QuotaSecured'
<1> DEFINE Gated(q) == pc[q] \in {"lockRoom", "insert", "overlap", "commit"}
<1> USE DEF QuotaSecured
<1>1. \A u : held_room_reservations(u) \in Nat
  BY HeldFinite
<1>2. ASSUME NEW p \in Requests, Gated(p)
      PROVE  /\ call[p].user \in Users
             /\ Holds(locks, p, UserRow(call[p].user), "UPDATE")
  BY <1>2 DEF LocksHeld, LocksOK, Typed, SessionsOK, SessionOK, ReserveSteps, ReserveCall
<1>3. ASSUME NEW q \in Requests, Serve(q) \/ Environment(q), NEW p \in Requests, p # q
      PROVE  pc'[p] = pc[p] /\ call'[p] = call[p] /\ limitRead'[p] = limitRead[p]
  BY <1>3, OthersUntouched
<1>4. ASSUME NEW q \in Requests, ReserveCommit(q)
      PROVE  QuotaSecured'
  <2>1. pc[q] = "commit" /\ ~Gated(q)'
    BY <1>4 DEF ReserveCommit, Commit, Goto, Typed, TypeOK
  <2>2. ASSUME NEW p \in Requests, Gated(p)'
        PROVE  /\ pc'[p] = pc[p] /\ call'[p] = call[p] /\ limitRead'[p] = limitRead[p]
               /\ call[p].user \in Users /\ call[p].user # call[q].user
    <3>1. p # q
      BY <2>1, <2>2
    <3>2. pc'[p] = pc[p] /\ call'[p] = call[p] /\ limitRead'[p] = limitRead[p]
      BY <1>3, <1>4, <3>1 DEF Serve
    <3>3. call[p].user # call[q].user
      BY <1>2, <2>1, <2>2, <3>1, <3>2, Exclusive DEF LocksHeld
    <3> QED
      BY <1>2, <2>2, <3>2, <3>3
  <2>3. \A u \in Users : u # call[q].user =>
           held_room_reservations(u)' = held_room_reservations(u)
    BY <1>1, <1>4, HeldAfterBooking
  <2> QED
    BY <2>2, <2>3
<1>5. ASSUME NEW q \in Requests, CancelCommit(q)
      PROVE  QuotaSecured'
  <2>1. ~Gated(q)'
    BY <1>5 DEF CancelCommit, Commit, Goto, Typed, TypeOK
  <2>2. ASSUME NEW p \in Requests, Gated(p)'
        PROVE  /\ pc'[p] = pc[p] /\ call'[p] = call[p] /\ limitRead'[p] = limitRead[p]
               /\ call[p].user \in Users
    BY <1>2, <1>3, <1>5, <2>1, <2>2 DEF Serve
  <2>3. \A u \in Users : /\ held_room_reservations(u)' \in Nat
                         /\ held_room_reservations(u)' <= held_room_reservations(u)
    BY <1>5, HeldAfterRelease
  <2> QED
    BY <1>1, <2>2, <2>3
<1>6. ASSUME bookings' = bookings
      PROVE  \A u : held_room_reservations(u)' = held_room_reservations(u)
  BY <1>6 DEF held_room_reservations, Active
<1>7. ASSUME NEW q \in Requests, QuotaAdmits(q)
      PROVE  \/ limitRead'[q] = Unlimited
             \/ /\ limitRead'[q] \in Nat
                /\ held_room_reservations(call[q].user) + 1 <= limitRead'[q]
  <2> DEFINE limit == quotas[RoleOf[call[q].user]]
             held == held_room_reservations(call[q].user)
  <2>1. limitRead'[q] = limit /\ limit \in Limit
    BY <1>7, PolicyTyped
       DEF QuotaAdmits, Moves, Typed, TypeOK, SessionsOK, SessionOK, ReserveSteps, ReserveCall
  <2>2. limit # None
    BY <1>7, SentinelsApart DEF QuotaAdmits, QuotaRefusal, Code
  <2>3. limit \in Nat => ~(held + 1 > limit)
    BY <1>7, SentinelsApart DEF QuotaAdmits, QuotaRefusal, Code
  <2> QED
    BY <1>1, <2>1, <2>2, <2>3 DEF Limit
<1>8. ASSUME NEW q \in Requests, Serve(q) \/ Environment(q), bookings' = bookings
      PROVE  QuotaSecured'
  <2>1. ASSUME Gated(q)'
        PROVE  /\ call'[q] = call[q]
               /\ (Gated(q) /\ limitRead'[q] = limitRead[q]) \/ QuotaAdmits(q)
    BY <1>8, <2>1, GateOpened
  <2> QED
    BY <1>3, <1>6, <1>7, <1>8, <2>1
<1>9. ASSUME NEW q \in Requests, NEW c \in Calls, Arrive(q, c)
      PROVE  QuotaSecured'
  <2>1. UNCHANGED <<bookings, limitRead>>
    BY <1>9 DEF Arrive, tables
  <2>2. \A p \in Requests : Gated(p)' => Gated(p) /\ call'[p] = call[p]
    BY <1>9 DEF Arrive, Goto, Typed, TypeOK
  <2> QED
    BY <1>6, <2>1, <2>2
<1>10. ASSUME UNCHANGED <<bookings, session>>
       PROVE  QuotaSecured'
  BY <1>6, <1>10 DEF session
<1> QED
  BY <1>4, <1>5, <1>8, <1>9, <1>10, OnlyCommitsWrite
     DEF Next, tables, vars, session, UpdateCommit, CreateRoom, PutQuota

-----------------------------------------------------------------------------
(* The invariant the theorems rest on.                                     *)
RoomInv ==
    /\ Typed /\ LocksHeld /\ Opened
    /\ Slotted /\ Apart /\ RefusedForBooking
    /\ QuotaSecured

LEMMA InitRoomInv == Init => RoomInv
<1> SUFFICES ASSUME Init PROVE RoomInv
  OBVIOUS
<1>1. /\ \A q \in Requests : pc[q] = "idle" /\ bookings[q] = None /\ reply[q] = None
      /\ locks = {}
  BY DEF Init
<1>2. LocksHeld /\ Opened /\ Slotted /\ Apart
  BY <1>1 DEF LocksHeld, LocksOK, Clash, Opened, Slotted, Apart, Active, ReserveSteps
<1>3. RefusedForBooking
  BY <1>1, SentinelsApart DEF RefusedForBooking, Code
<1>4. QuotaSecured
  BY <1>1 DEF QuotaSecured
<1> QED
  BY <1>2, <1>3, <1>4, InitTyped DEF RoomInv

LEMMA RoomInvariant == Spec => []RoomInv
<1>1. RoomInv /\ [Next]_vars => RoomInv'
  BY NextTyped, LocksHeldInductive, OpenedInductive, SlotsInductive,
     RefusedForBookingInductive, SecuredInductive DEF RoomInv
<1> QED
  BY <1>1, InitRoomInv, PTL DEF Spec

-----------------------------------------------------------------------------
(* No room is held twice at one instant, for any number of bookers that    *)
(* insert at any time: only the exclusion constraint decides.              *)
THEOREM NeverDoubleBooked == Spec => []NoDoubleBooking
<1>1. RoomInv => NoDoubleBooking
  <2> SUFFICES ASSUME RoomInv, NEW q \in Requests, NEW p \in Requests,
                      Active(q), Active(p), q # p, bookings[q].room = bookings[p].room
               PROVE  Instants(bookings[q].window) \cap Instants(bookings[p].window) = {}
    BY DEF NoDoubleBooking
  <2>1. ~Overlap(bookings[q].window, bookings[p].window)
    BY DEF RoomInv, Apart
  <2>2. bookings[q].window \in ReservationCreate /\ bookings[p].window \in ReservationCreate
    BY WindowsOrdered DEF RoomInv, Typed, TypeOK, Active, Reservation
  <2> QED
    BY <2>1, <2>2, InstantsMeet
<1> QED
  BY <1>1, RoomInvariant, PTL

(* A 409 INTERVAL_CONFLICT is answered only for a booking that was made.   *)
THEOREM OnlyTakenSlotsRefused == Spec => []ConflictMeansBooking
<1>1. RoomInv => ConflictMeansBooking
  <2> SUFFICES ASSUME RoomInv, NEW q \in Requests, reply[q] = "INTERVAL_CONFLICT"
               PROVE  \E p \in Requests :
                         /\ bookings[p] # None
                         /\ bookings[p].room = call[q].room
                         /\ Instants(bookings[p].window) \cap Instants(call[q].window) # {}
    BY DEF ConflictMeansBooking
  <2>1. call[q] \in ReserveCall
    BY DEF RoomInv, RefusedForBooking
  <2>2. PICK p \in Requests : /\ bookings[p] # None
                              /\ bookings[p].room = call[q].room
                              /\ Overlap(bookings[p].window, call[q].window)
    BY DEF RoomInv, RefusedForBooking
  <2>3. bookings[p].window \in ReservationCreate /\ call[q].window \in ReservationCreate
    BY <2>1, <2>2, WindowsOrdered DEF RoomInv, Typed, TypeOK, Reservation, ReserveCall
  <2> QED
    BY <2>2, <2>3, InstantsMeet
<1> QED
  BY <1>1, RoomInvariant, PTL

(* From the quota gate to COMMIT the user's holds plus the new one stay    *)
(* within the limit the gate read, whatever an admin PUTs meanwhile: two   *)
(* bookings of one user in two rooms still meet on the row of that user.   *)
THEOREM QuotaGateHolds == Spec => []QuotaSecured
<1>1. RoomInv => QuotaSecured
  BY DEF RoomInv
<1> QED
  BY <1>1, RoomInvariant, PTL

(* No booking becomes durable on a room that is BLOCKED at that moment.    *)
THEOREM BlockedRoomsStayFree == Spec => NoneOnBlocked
<1>1. ASSUME RoomInv, [Next]_vars, NEW q \in Requests,
             bookings[q] = None, bookings'[q] # None
      PROVE  rooms'[bookings'[q].room] = "AVAILABLE"
  <2>1. ASSUME NEW p \in Requests, Serve(p) \/ Environment(p)
        PROVE  rooms'[bookings'[q].room] = "AVAILABLE"
    <3>1. CASE ReserveCommit(p)
      <4>1. p = q /\ bookings'[q].room = call[q].room /\ rooms' = rooms /\ pc[q] = "commit"
        BY <1>1, <3>1, Booked DEF RoomInv, Typed, TypeOK
      <4> QED
        BY <1>1, <4>1 DEF RoomInv, Opened
    <3>2. CASE CancelCommit(p)
      <4>1. PICK t \in Requests :
              /\ bookings[t] \in Reservation
              /\ bookings' = [bookings EXCEPT ![t] =
                    [room |-> bookings[t].room, user |-> bookings[t].user,
                     window |-> bookings[t].window, status |-> "CANCELLED"]]
        BY <1>1, <3>2, Released DEF RoomInv
      <4> QED
        BY <1>1, <4>1, SentinelsApart DEF RoomInv, Typed, TypeOK
    <3>3. CASE UpdateCommit(p) \/ UNCHANGED tables
      BY <1>1, <3>3 DEF UpdateCommit, tables
    <3> QED
      BY <1>1, <2>1, <3>1, <3>2, <3>3, OnlyCommitsWrite DEF RoomInv
  <2>2. ASSUME NEW p \in Requests, NEW c \in Calls, Arrive(p, c) PROVE FALSE
    BY <1>1, <2>2 DEF Arrive, tables
  <2>3. ASSUME NEW r \in Rooms, CreateRoom(r) PROVE FALSE
    BY <1>1, <2>3 DEF CreateRoom
  <2>4. ASSUME NEW role, NEW limit, PutQuota(role, limit) PROVE FALSE
    BY <1>1, <2>4 DEF PutQuota
  <2> QED
    BY <1>1, <2>1, <2>2, <2>3, <2>4 DEF Next, vars
<1>2. RoomInv /\ [Next]_vars =>
         [\A q \in Requests : bookings[q] = None /\ bookings'[q] # None =>
             rooms'[bookings'[q].room] = "AVAILABLE"]_vars
  BY <1>1
<1> QED
  BY <1>2, RoomInvariant, PTL DEF Spec, NoneOnBlocked

(* Nobody is refused over quota by a hold whose release has passed its     *)
(* last check: gate and release need the same user's row.                  *)
THEOREM RefusalsAreSettled == Spec => RefusedOnSettledRows
<1>1. ASSUME RoomInv, [Next]_vars, NEW q \in Requests, NEW p \in Requests,
             reply[q] = None, reply'[q] = "QUOTA_EXCEEDED", pc[p] = "release"
      PROVE  Owner(p) # call[q].user
  <2>0. reply'[q] # reply[q]
    BY <1>1, SentinelsApart DEF Code
  <2>1. PICK r \in Requests : Serve(r) \/ Environment(r)
    BY <1>1, <2>0 DEF Next, vars, Arrive, CreateRoom, PutQuota, session
  <2>2. r = q
    BY <1>1, <2>0, <2>1, OthersUntouched DEF RoomInv
  <2>3. pc[q] = "quotaGate"
    BY <1>1, <2>1, <2>2, AnswerSources DEF RoomInv
  <2>4. /\ Holds(locks, q, UserRow(call[q].user), "UPDATE")
        /\ Holds(locks, p, UserRow(Owner(p)), "UPDATE")
        /\ ~Clash(locks) /\ p # q
    BY <1>1, <2>3 DEF RoomInv, LocksHeld, LocksOK, ReserveSteps
  <2> QED
    BY <2>4, Exclusive
<1>2. RoomInv /\ [Next]_vars =>
         [\A q, p \in Requests :
             /\ reply[q] = None /\ reply'[q] = "QUOTA_EXCEEDED"
             /\ pc[p] = "release"
             => Owner(p) # call[q].user]_vars
  BY <1>1
<1> QED
  BY <1>2, RoomInvariant, PTL DEF Spec, RefusedOnSettledRows

-----------------------------------------------------------------------------
(* The committed tables as the calendar of RoomCalendar.                   *)

Entry(q) ==
    IF Active(q) THEN [room |-> bookings[q].room, user |-> bookings[q].user,
                       window |-> bookings[q].window]
                 ELSE None

Entries == [q \in Requests |-> Entry(q)]

LEMMA InitIsCalendar == Init => Calendar!Init
BY DEF Init, Calendar!Init, Active

LEMMA BookIsCalendar ==
    ASSUME RoomInv, NEW q \in Requests, ReserveCommit(q)
    PROVE  Calendar!Book(q)
<1> DEFINE new == [room |-> call[q].room, user |-> call[q].user, window |-> call[q].window]
<1>1. /\ pc[q] = "commit" /\ bookings[q] = None /\ call[q] \in ReserveCall
      /\ rooms' = rooms
      /\ bookings' = [bookings EXCEPT ![q] =
            [room |-> call[q].room, user |-> call[q].user,
             window |-> call[q].window, status |-> "ACTIVE"]]
      /\ bookings'[q] # None
      /\ bookings \in [Requests -> Reservation \cup {None}]
  BY Booked, SentinelsApart DEF RoomInv, Typed, TypeOK
<1>2. Entry(q) = None /\ Entry(q)' = new
  BY <1>1 DEF Entry, Active
<1>3. \A p \in Requests : p # q => Entry(p)' = Entry(p)
  BY <1>1 DEF Entry, Active
<1>4. Entries' = [Entries EXCEPT ![q] = Entries'[q]]
  BY <1>2, <1>3 DEF Entries
<1>5. Entries[q] = None /\ Entries'[q] = new
  BY <1>2 DEF Entries
<1>6. rooms[new.room] = "AVAILABLE"
  BY <1>1 DEF RoomInv, Opened
<1>7. ASSUME NEW p \in Requests, Entries[p] # None, Entries[p].room = new.room
      PROVE  ~Overlap(Entries[p].window, new.window)
  <2>1. /\ Active(p) /\ bookings[p].room = call[q].room
        /\ Entries[p].window = bookings[p].window
    BY <1>7 DEF Entries, Entry
  <2>2. conflicting_reservations(call[q].room, call[q].window) = {}
    BY <1>1 DEF RoomInv, Slotted
  <2> QED
    BY <2>1, <2>2 DEF conflicting_reservations
<1>8. new \in [room : Rooms, user : Users, window : Windows]
  BY <1>1 DEF ReserveCall
<1> HIDE DEF new
<1> QED
  BY <1>1, <1>4, <1>5, <1>6, <1>7, <1>8
     DEF Calendar!Book, Calendar!Booking, Calendar!Taken, Entries, Entry

LEMMA ReleaseIsCalendar ==
    ASSUME RoomInv, NEW q \in Requests, CancelCommit(q)
    PROVE  (\E t \in Requests : Calendar!GiveBack(t)) \/ UNCHANGED Calendar!diary
<1>1. PICK t \in Requests :
           /\ rooms' = rooms
           /\ bookings[t] \in Reservation
           /\ bookings' = [bookings EXCEPT ![t] =
                 [room |-> bookings[t].room, user |-> bookings[t].user,
                  window |-> bookings[t].window, status |-> "CANCELLED"]]
  BY Released DEF RoomInv
<1>2. bookings \in [Requests -> Reservation \cup {None}]
  BY DEF RoomInv, Typed, TypeOK
<1>3. Entry(t)' = None /\ \A p \in Requests : p # t => Entry(p)' = Entry(p)
  BY <1>1, <1>2 DEF Entry, Active
<1>4. Entries' = [Entries EXCEPT ![t] = None] /\ Entries[t] = Entry(t)
  BY <1>3 DEF Entries
<1>5. CASE Entry(t) = None
  <2>1. Entries' = Entries
    BY <1>3, <1>5 DEF Entries
  <2> QED
    BY <1>1, <2>1 DEF Calendar!diary, Entries, Entry
<1>6. CASE Entry(t) # None
  BY <1>1, <1>4, <1>6 DEF Calendar!GiveBack, Entries, Entry
<1> QED
  BY <1>5, <1>6

LEMMA UpdateIsCalendar ==
    ASSUME RoomInv, NEW q \in Requests, UpdateCommit(q)
    PROVE  \E room \in Rooms : Calendar!Mark(room, "AVAILABLE") \/ Calendar!Mark(room, "BLOCKED")
<1>1. /\ call[q].room \in Rooms /\ rooms[call[q].room] # None
      /\ call[q].status \in ResourceStatus
  BY DEF UpdateCommit, Dirty, UpdateCall, Exists, RoomInv, Typed, SessionsOK, SessionOK
<1>2. bookings' = bookings /\ rooms' = [rooms EXCEPT ![call[q].room] = call[q].status]
  BY DEF UpdateCommit
<1>3. Entries' = Entries
  BY <1>2 DEF Entries, Entry, Active
<1> QED
  BY <1>1, <1>2, <1>3 DEF Calendar!Mark, ResourceStatus, Entries, Entry

(* Every COMMIT of the room service is one step of the calendar, and every *)
(* other statement changes nothing that can be seen: what reserve_room     *)
(* decides over several statements reads as one decision.                  *)
THEOREM RoomsImplementCalendar == Spec => ImplementsCalendar
<1>1. ASSUME RoomInv, [Next]_vars
      PROVE  [Calendar!Next]_(Calendar!diary)
  <2>1. UNCHANGED tables => UNCHANGED Calendar!diary
    BY DEF tables, Calendar!diary, Active
  <2>2. ASSUME NEW q \in Requests, Serve(q) \/ Environment(q)
        PROVE  [Calendar!Next]_(Calendar!diary)
    BY <1>1, <2>1, <2>2, OnlyCommitsWrite, BookIsCalendar, ReleaseIsCalendar, UpdateIsCalendar
       DEF Calendar!Next, RoomInv
  <2>3. ASSUME NEW q \in Requests, NEW c \in Calls, Arrive(q, c)
        PROVE  UNCHANGED Calendar!diary
    BY <2>1, <2>3 DEF Arrive
  <2>4. ASSUME NEW r \in Rooms, CreateRoom(r)
        PROVE  Calendar!Open(r)
    BY <2>4 DEF CreateRoom, Calendar!Open, Exists, Active
  <2>5. ASSUME NEW role, NEW limit, PutQuota(role, limit)
        PROVE  UNCHANGED Calendar!diary
    BY <2>5 DEF PutQuota, Calendar!diary, Active
  <2>6. UNCHANGED vars => UNCHANGED tables
    BY DEF vars, tables
  <2> QED
    BY <1>1, <2>1, <2>2, <2>3, <2>4, <2>5, <2>6 DEF Next, Calendar!Next
<1>2. RoomInv /\ [Next]_vars => [Calendar!Next]_(Calendar!diary)
  BY <1>1
<1> QED
  BY <1>2, InitIsCalendar, RoomInvariant, PTL DEF Spec, ImplementsCalendar

-----------------------------------------------------------------------------
(***************************************************************************)
(* Circles of waits.  Who holds a row: the user's, a request past its      *)
(* first lock; a room's, FOR SHARE, a booker at its INSERT or after it.    *)
(* Of those, only one at "overlap" waits, and only for others like it.     *)
(***************************************************************************)
HasUser == {"quotaGate", "lockRoom", "insert", "overlap", "commit", "recheck", "release"}
HasRoom == {"insert", "overlap", "commit"}

HolderOK(l) ==
    \/ /\ l.row \in {"users"} \X Users /\ l.mode = "UPDATE"
       /\ pc[l.tx] \in HasUser
    \/ /\ l.row \in {"resources"} \X Rooms /\ l.mode = "SHARE"
       /\ pc[l.tx] \in HasRoom

HoldersKnown == \A l \in locks : HolderOK(l)

LEMMA NewLock ==
    ASSUME NEW q, NEW row, NEW mode, Lock(q, row, mode), NEW l \in locks'
    PROVE  l \in locks \/ (l.tx = q /\ l.row = row /\ l.mode = mode)
<1>1. l \in locks \/ l = [tx |-> q, row |-> row, mode |-> mode]
  BY DEF Lock, Grant
<1> QED
  BY <1>1

LEMMA OwnLocks ==
    ASSUME Typed, HoldersKnown, NEW q \in Requests, Serve(q) \/ Environment(q),
           NEW l \in locks', l.tx = q
    PROVE  HolderOK(l)'
<1> USE DEF Typed, TypeOK, Goto, HolderOK, HasUser, HasRoom
<1>1. l \in locks => HolderOK(l)
  BY DEF HoldersKnown
<1>2. CASE Refused(q) \/ Commits(q)
  <2>1. locks' = ReleaseAll(locks, q)
    BY <1>2 DEF Refused, Refuse, Answer, Commits, ReserveCommit, CancelCommit,
                UpdateUnchanged, UpdateCommit, Commit
  <2> QED
    BY <2>1 DEF ReleaseAll
<1>3. CASE Reads(q)
  <2>1. /\ locks' = locks
        /\ pc[q] \in HasUser => pc'[q] \in HasUser
        /\ pc[q] \in HasRoom => pc'[q] \in HasRoom
    BY <1>3 DEF Reads, Reserve, QuotaAdmits, Insert, OverlapNone, Cancel, RecheckHeld, Update,
                Moves, Connect
  <2> QED
    BY <1>1, <2>1
<1>4. CASE LockUser(q) \/ LockOwner(q)
  <2>1. \E u \in Users : Lock(q, UserRow(u), "UPDATE")
    BY <1>4, OwnerTyped DEF LockUser, LockOwner, SessionsOK, SessionOK, ReserveSteps,
                            CancelSteps, ReserveCall
  <2>2. PICK u \in Users : Lock(q, UserRow(u), "UPDATE")
    BY <2>1
  <2>3. l \in locks \/ (l.row = UserRow(u) /\ l.mode = "UPDATE")
    BY <2>2, NewLock
  <2>4. UserRow(u) \in {"users"} \X Users
    BY DEF UserRow
  <2>5. pc[q] \in {"lockUser", "lockOwner"} /\ pc'[q] \in {"quotaGate", "recheck"}
    BY <1>4 DEF LockUser, LockOwner
  <2> QED
    BY <1>1, <2>3, <2>4, <2>5
<1>5. CASE LockRoom(q)
  <2>1. /\ call[q].room \in Rooms /\ Lock(q, RoomRow(call[q].room), "SHARE")
        /\ pc[q] = "lockRoom" /\ pc'[q] = "insert"
    BY <1>5 DEF LockRoom, SessionsOK, SessionOK, ReserveSteps, ReserveCall
  <2>2. l \in locks \/ (l.row = RoomRow(call[q].room) /\ l.mode = "SHARE")
    BY <2>1, NewLock
  <2>3. RoomRow(call[q].room) \in {"resources"} \X Rooms
    BY <2>1 DEF RoomRow
  <2> QED
    BY <1>1, <2>1, <2>2, <2>3
<1> QED
  BY <1>2, <1>3, <1>4, <1>5, StepKinds DEF Locks

LEMMA HoldersInductive == Typed /\ HoldersKnown /\ [Next]_vars => HoldersKnown'
<1> SUFFICES ASSUME Typed, HoldersKnown, [Next]_vars, NEW l \in locks' PROVE HolderOK(l)'
  BY DEF HoldersKnown
<1>1. ASSUME NEW q \in Requests, Serve(q) \/ Environment(q), l.tx # q PROVE HolderOK(l)'
  <2>1. l.tx \in Requests
    BY NextTyped DEF Typed, TypeOK
  <2>2. l \in locks /\ pc'[l.tx] = pc[l.tx]
    BY <1>1, <2>1, OthersUntouched
  <2> QED
    BY <2>2 DEF HoldersKnown, HolderOK
<1>2. ASSUME NEW q \in Requests, NEW c \in Calls, Arrive(q, c) PROVE HolderOK(l)'
  <2>1. locks' = locks /\ pc[q] = "idle" /\ \A p : p # q => pc'[p] = pc[p]
    BY <1>2 DEF Arrive, Goto, Typed, TypeOK
  <2> QED
    BY <2>1 DEF HoldersKnown, HolderOK, HasUser, HasRoom
<1>3. ASSUME NEW r \in Rooms, CreateRoom(r) PROVE HolderOK(l)'
  BY <1>3 DEF CreateRoom, session, HoldersKnown, HolderOK
<1>4. ASSUME NEW role, NEW limit, PutQuota(role, limit) PROVE HolderOK(l)'
  BY <1>4 DEF PutQuota, session, HoldersKnown, HolderOK
<1>5. CASE UNCHANGED vars
  BY <1>5 DEF vars, HoldersKnown, HolderOK
<1> QED
  BY <1>1, <1>2, <1>3, <1>4, <1>5, OwnLocks DEF Next

(* For whom a statement can wait.                                          *)
LEMMA WaitsKnown ==
    ASSUME Typed, HoldersKnown, NEW t \in Requests, NEW u \in WaitsFor(t)
    PROVE  /\ u \in Requests
           /\ \/ pc[t] \in {"lockUser", "lockOwner"} /\ pc[u] \in HasUser
              \/ pc[t] = "edit" /\ pc[u] \in HasRoom
              \/ pc[t] = "overlap" /\ pc[u] \in {"overlap", "commit"}
<1>1. ASSUME NEW row, NEW mode, u \in Blockers(locks, t, row, mode)
      PROVE  \E l \in locks : /\ l.tx = u /\ l.row = row /\ l.mode \in Excluding[mode]
                              /\ HolderOK(l) /\ u \in Requests
  <2>1. PICK l \in locks : l.tx = u /\ l.row = row /\ l.mode \in Excluding[mode]
    BY <1>1 DEF Blockers
  <2>2. u \in Requests
    BY <2>1 DEF Typed, TypeOK
  <2> QED
    BY <2>1, <2>2 DEF HoldersKnown
<1>2. /\ \A v : UserRow(v) \notin {"resources"} \X Rooms
      /\ \A r : RoomRow(r) \notin {"users"} \X Users
  BY DEF UserRow, RoomRow
<1>3. CASE pc[t] \in {"lockUser", "lockOwner"}
  <2>1. PICK v : u \in Blockers(locks, t, UserRow(v), "UPDATE")
    BY <1>3 DEF WaitsFor
  <2>2. PICK l \in locks : l.tx = u /\ l.row = UserRow(v) /\ HolderOK(l) /\ u \in Requests
    BY <1>1, <2>1
  <2> QED
    BY <1>2, <1>3, <2>2 DEF HolderOK
<1>4. CASE pc[t] = "lockRoom"
  <2>1. PICK r : u \in Blockers(locks, t, RoomRow(r), "SHARE")
    BY <1>4 DEF WaitsFor
  <2>2. PICK l \in locks : l.row = RoomRow(r) /\ l.mode \in Excluding["SHARE"] /\ HolderOK(l)
    BY <1>1, <2>1
  <2>3. "SHARE" \notin Excluding["SHARE"]
    BY DEF Excluding, LockMode
  <2> QED
    BY <1>2, <2>2, <2>3 DEF HolderOK
<1>5. CASE pc[t] = "edit"
  <2>1. PICK r : u \in Blockers(locks, t, RoomRow(r), "NO KEY UPDATE")
    BY <1>5 DEF WaitsFor
  <2>2. PICK l \in locks : l.tx = u /\ l.row = RoomRow(r) /\ HolderOK(l) /\ u \in Requests
    BY <1>1, <2>1
  <2> QED
    BY <1>2, <1>5, <2>2 DEF HolderOK
<1>6. CASE pc[t] = "overlap"
  BY <1>6 DEF WaitsFor, Rivals, Inserted
<1>7. CASE pc[t] \notin {"lockUser", "lockOwner", "lockRoom", "edit", "overlap"}
  BY <1>7 DEF WaitsFor
<1> QED
  BY <1>3, <1>4, <1>5, <1>6, <1>7

(* Every non-empty set of natural numbers has a least element.             *)
LEMMA LeastNatural ==
    ASSUME NEW K \in SUBSET Nat, K # {}
    PROVE  \E m \in K : \A n \in K : m <= n
<1>1. \A m, n \in Nat : <<n, m>> \in OpToRel(<, Nat) <=> n < m
  BY DEF OpToRel
<1>2. \E R : IsWellFoundedOn(R, Nat) /\ \A m, n \in Nat : <<n, m>> \in R <=> n < m
  <2> WITNESS OpToRel(<, Nat)
  <2> QED
    BY <1>1, NatLessThanWellFounded
<1>3. PICK R : IsWellFoundedOn(R, Nat) /\ \A m, n \in Nat : <<n, m>> \in R <=> n < m
  BY <1>2
<1>4. PICK m \in K : \A n \in K : ~(<<n, m>> \in R)
  BY <1>3, WFMin
<1>5. ASSUME NEW n \in K PROVE m <= n
  <2>1. m \in Nat /\ n \in Nat
    OBVIOUS
  <2>2. ~(n < m)
    BY <1>3, <1>4, <2>1
  <2> QED
    BY <2>1, <2>2
<1> QED
  BY <1>5

(* Where nobody can move there is a circle: a smallest such set.           *)
LEMMA CircleWithin ==
    ASSUME NEW w, NEW S, IsFiniteSet(S), Stuck(w, S)
    PROVE  \E T \in SUBSET S : Cycle(w, T)
<1> DEFINE Sets == { T \in SUBSET S : Stuck(w, T) }
           Sizes == { Cardinality(T) : T \in Sets }
<1>1. \A T \in SUBSET S : IsFiniteSet(T) /\ Cardinality(T) \in Nat
  BY FS_Subset, FS_CardinalityType
<1>2. Sizes \in SUBSET Nat /\ Sizes # {}
  <2>1. S \in Sets
    OBVIOUS
  <2> QED
    BY <1>1, <2>1
<1>3. PICK T \in Sets : \A U \in Sets : Cardinality(T) <= Cardinality(U)
  <2> HIDE DEF Sizes
  <2>1. PICK m \in Sizes : \A n \in Sizes : m <= n
    BY <1>2, LeastNatural
  <2> QED
    BY <2>1 DEF Sizes
<1>4. ASSUME NEW U \in SUBSET T, Stuck(w, U) PROVE U = T
  <2>1. U \in Sets
    BY <1>4
  <2>2. Cardinality(T) <= Cardinality(U) /\ Cardinality(U) <= Cardinality(T)
    BY <1>1, <1>3, <2>1, FS_Subset
  <2>3. Cardinality(T) = Cardinality(U)
    BY <1>1, <2>1, <2>2
  <2> QED
    BY <1>1, <2>3, FS_Subset
<1> QED
  BY <1>3, <1>4 DEF Cycle

LEMMA CircleOnSlots ==
    ASSUME Typed, HoldersKnown
    PROVE  CirclesOnlyOnSlots
<1> SUFFICES ASSUME NEW S \in SUBSET Waiting, Wedged(S)
             PROVE  \E T \in SUBSET S : Cycle(waits, T) /\ \A q \in T : pc[q] = "overlap"
  BY DEF CirclesOnlyOnSlots
<1> DEFINE T == { q \in S : pc[q] = "overlap" }
<1>1. S \subseteq Requests
  BY DEF Waiting
<1>2. ASSUME NEW q \in S
      PROVE  pc[q] \in {"connect", "refresh", "lockUser", "lockOwner", "edit", "overlap"}
  BY <1>1, WaitsKnown DEF Waiting, AwaitsConnection
<1>3. ASSUME NEW q \in S, pc[q] \in {"lockUser", "lockOwner", "edit", "overlap"}
      PROVE  \E u \in S : u \in WaitsFor(q) /\ pc[u] = "overlap"
  <2>1. PICK u \in S : u \in WaitsFor(q)
    BY <1>3 DEF Wedged, AwaitsConnection
  <2> QED
    BY <1>1, <1>2, <1>3, <2>1, WaitsKnown DEF HasUser, HasRoom
<1>4. T # {}
  <2>1. ASSUME NEW q \in S, pc[q] \in {"connect", "refresh"} PROVE T # {}
    <3>1. ~ConnectionFree /\ Connected \subseteq S
      <4>1. WaitsFor(q) = {}
        BY <1>1, <2>1, WaitsKnown
      <4> QED
        BY <2>1, <4>1 DEF Wedged, AwaitsConnection
    <3>2. Connected # {}
      <4>1. Cardinality({}) < PoolSize
        BY BoundsTyped, FS_EmptySet
      <4> QED
        BY <3>1, <4>1 DEF ConnectionFree
    <3>3. PICK p \in S : p \in Connected
      BY <3>1, <3>2
    <3>4. pc[p] \in {"lockUser", "lockOwner", "edit", "overlap"}
      BY <1>2, <3>3 DEF Connected
    <3> QED
      BY <1>3, <3>4
  <2>2. PICK q \in S : TRUE
    BY DEF Wedged
  <2> QED
    BY <1>2, <1>3, <2>1, <2>2
<1>5. Stuck(waits, T)
  <2>1. ASSUME NEW q \in T PROVE waits[q] \cap T # {}
    BY <1>1, <1>3, <2>1 DEF waits
  <2> QED
    BY <1>4, <2>1 DEF Stuck
<1>6. IsFiniteSet(T)
  BY <1>1, RequestsFinite, FS_Subset
<1> HIDE DEF T
<1>7. PICK U \in SUBSET T : Cycle(waits, U)
  BY <1>5, <1>6, CircleWithin
<1> QED
  BY <1>7 DEF T

(* Bookers, releases, edits and answers that wait for rows and for the     *)
(* connections of a pool of any size never wait in a circle, but for       *)
(* bookers whose rows enter the index of the constraint at one time        *)
(* (reserve_room: user row, then room row, then the INSERT).               *)
THEOREM OnlySlotsMakeCircles == Spec => []CirclesOnlyOnSlots
<1>1. Init => HoldersKnown
  BY DEF Init, HoldersKnown
<1>2. Typed /\ HoldersKnown /\ [Next]_vars => Typed' /\ HoldersKnown'
  BY NextTyped, HoldersInductive
<1>3. Typed /\ HoldersKnown => CirclesOnlyOnSlots
  BY CircleOnSlots
<1> QED
  BY <1>1, <1>2, <1>3, InitTyped, PTL DEF Spec
=============================================================================
