-------------------------- MODULE GpuRequestsProofs --------------------------
(***************************************************************************)
(* Theorems about what the requests of GpuReservations do to each other    *)
(* and to the rows: what an answer says of the tables, who may end a       *)
(* reservation, and which requests can wait for each other in a circle.    *)
(***************************************************************************)
EXTENDS GpuLedgerProofs

(***************************************************************************)
(* Answers.  A request that is done, or not yet begun, holds no lock, and  *)
(* its answer says whether it has a reservation.  An ERROR says nothing:   *)
(* the connection may have gone before COMMIT or after it.                 *)
(***************************************************************************)
Answered(q) ==
    /\ pc[q] \in {"idle", "done"} => \A l \in locks : l.tx # q
    /\ reply[q] # None =>
          /\ pc[q] = "done"
          /\ reply[q].code = "CREATED" => reservations[q] # None
          /\ reply[q].code \notin {"CREATED", "ERROR"} => reservations[q] = None

AnswerInv == KeyInv /\ \A q \in Requests : Answered(q)

(* Closing the session of a request with no row, or answering one that has *)
(* its row with 201 or 500.                                                *)
LEMMA ClosedSession ==
    ASSUME Typed, NEW q \in Requests, NEW code \in Code, NEW body \in Body \cup {None},
           Answer(q, code, body), UNCHANGED reservations,
           \/ code = "ERROR"
           \/ code = "CREATED" /\ reservations[q] # None
           \/ code # "CREATED" /\ reservations[q] = None
    PROVE  Answered(q)'
<1>1. reply'[q] = [code |-> code, body |-> body] /\ pc'[q] = "done"
  BY DEF Answer, Goto, Typed, TypeOK
<1>2. reply'[q].code = code
  BY <1>1
<1>3. \A l \in locks' : l.tx # q
  BY DEF Answer, ReleaseAll
<1> QED
  BY <1>1, <1>2, <1>3 DEF Answered

(* Only a request that has committed its reservation is at "refresh".      *)
LEMMA NoRowBefore ==
    ASSUME Typed, NEW q \in Requests, pc[q] \notin {"refresh", "done"}
    PROVE  reservations[q] = None
BY DEF Typed, SessionsOK, RowOK

LEMMA ArrivalAnswered ==
    ASSUME AnswerInv, NEW q \in Requests, Arrive(q)
    PROVE  Answered(q)'
<1> USE DEF AnswerInv, KeyInv
<1>1. PICK c \in Calls : \/ Reserve(q, c) \/ ReserveNotFound(q, c)
                         \/ Cancel(q, c)  \/ CancelNothingToDo(q, c)
                         \/ Update(q, c)
  BY DEF Arrive
<1>2. pc[q] = "idle"
  BY <1>1 DEF Reserve, ReserveNotFound, Cancel, CancelNothingToDo, Update
<1>3. reservations[q] = None /\ reply[q] = None /\ \A l \in locks : l.tx # q
  BY <1>2, NoRowBefore DEF Answered
<1>4. UNCHANGED <<reservations, locks>>
  BY <1>1 DEF Reserve, ReserveNotFound, Cancel, CancelNothingToDo, CancelAnswer, Update, tables
<1>5. CASE Reserve(q, c) \/ Cancel(q, c) \/ Update(q, c)
  BY <1>3, <1>4, <1>5 DEF Reserve, Cancel, Update, Answered
<1>6. CASE ReserveNotFound(q, c)
  <2>1. reply'[q] = [code |-> "NOT_FOUND", body |-> None] /\ pc'[q] = "done"
    BY <1>6 DEF ReserveNotFound, Goto, Typed, TypeOK
  <2>2. reply'[q].code = "NOT_FOUND"
    BY <2>1
  <2> QED
    BY <1>3, <1>4, <2>1, <2>2 DEF Answered
<1>7. CASE CancelNothingToDo(q, c)
  <2>1. \E code, body : /\ CancelAnswer(q, c, code, body)
                        /\ code \notin {"CREATED", "ERROR"}
    BY <1>7 DEF CancelNothingToDo
  <2>2. PICK code, body : /\ CancelAnswer(q, c, code, body)
                          /\ code \notin {"CREATED", "ERROR"}
    BY <2>1
  <2>3. reply'[q] = [code |-> code, body |-> body] /\ pc'[q] = "done"
    BY <2>2 DEF CancelAnswer, Goto, Typed, TypeOK
  <2>4. reply'[q].code = code
    BY <2>3
  <2> QED
    BY <1>3, <1>4, <2>2, <2>3, <2>4 DEF Answered
<1> QED
  BY <1>1, <1>5, <1>6, <1>7

(* A statement of a request that leaves it unanswered.                     *)
LEMMA GoingOn ==
    ASSUME AnswerInv, NEW q \in Requests, pc[q] \notin {"idle", "done"},
           \/ ClaimFresh(q) \/ ClaimUser(q) \/ LockUser(q) \/ QuotaAdmits(q)
           \/ LockClusterAdmits(q) \/ ReserveCommit(q) \/ LockOwner(q)
           \/ LockHeldCluster(q) \/ RecheckHeld(q) \/ CancelCommit(q) \/ LockEditAdmits(q)
    PROVE  Answered(q)'
<1>1. reply[q] = None
  BY DEF AnswerInv, Answered
<1>2. reply' = reply /\ pc'[q] \notin {"idle", "done"}
  BY DEF AnswerInv, KeyInv, Typed, TypeOK, Goto, Commit, ClaimFresh, ClaimUser, LockUser,
         QuotaAdmits, LockClusterAdmits, ReserveCommit, LockOwner, LockHeldCluster,
         RecheckHeld, CancelCommit, LockEditAdmits
<1> QED
  BY <1>1, <1>2 DEF Answered

LEMMA ServiceAnswered ==
    ASSUME AnswerInv, NEW q \in Requests, Serve(q) \/ ConnectionLost(q) \/ DeadlockVictim(q)
    PROVE  Answered(q)'
<1> USE DEF AnswerInv, KeyInv
<1>1. pc[q] \notin {"idle", "done"}
  <2>1. CASE Serve(q)
    BY <2>1 DEF Serve, ClaimFresh, ClaimTaken, ClaimUser, LockUser, QuotaAdmits, QuotaRefuses,
           LockClusterAdmits, LockClusterRefuses, ReserveCommit, ReserveAnswer, LockOwner,
           LockHeldCluster, RecheckHeld, RecheckGone, CancelCommit, CancelReread,
           LockEditAdmits, LockEditRefuses, UpdateCommit
  <2>2. CASE ConnectionLost(q) \/ DeadlockVictim(q)
    BY <2>2 DEF ConnectionLost, DeadlockVictim, InFlight
  <2> QED
    BY <2>1, <2>2
<1>2. /\ None \in Body \cup {None}
      /\ {"CREATED", "REPLAYED", "OK", "ERROR", "IDEMPOTENCY_KEY_REUSED",
          "IDEMPOTENCY_IN_PROGRESS", "QUOTA_NOT_CONFIGURED", "QUOTA_EXCEEDED",
          "RESOURCE_BLOCKED", "CAPACITY_EXHAUSTED", "NOT_FOUND",
          "CAPACITY_BELOW_ALLOCATED"} \subseteq Code
  BY DEF Code
<1>3. CASE ConnectionLost(q) \/ DeadlockVictim(q)
  BY <1>2, <1>3, ClosedSession DEF ConnectionLost, DeadlockVictim, Refuse, tables
<1>4. CASE ReserveAnswer(q)
  <2>1. pc[q] = "refresh" /\ reservations[q] \in ReservationRow /\ reservations[q] # None
    BY <1>4 DEF ReserveAnswer, Typed, TypeOK, SessionsOK, SessionOK
  <2>2. Rendered(q) \in Body
    BY <2>1 DEF Rendered, Body, ReservationRow
  <2> QED
    BY <1>2, <1>4, <2>1, <2>2, ClosedSession DEF ReserveAnswer, tables
<1>5. ASSUME NEW code \in Code, NEW body \in Body \cup {None}, pc[q] # "refresh",
             code # "CREATED", Answer(q, code, body), UNCHANGED reservations
      PROVE  Answered(q)'
  BY <1>1, <1>5, NoRowBefore, ClosedSession
<1>6. CASE ClaimTaken(q)
  <2>1. PICK code \in Code, body \in Body \cup {None} : Answer(q, code, body)
    BY <1>6, RefusalTyped
  <2>2. code # "CREATED"
    <3>1. reply'[q].code = code
      BY <2>1 DEF Answer, Typed, TypeOK
    <3>2. reply'[q].code # "CREATED"
      BY <1>6 DEF ClaimTaken, Answer, Typed, TypeOK
    <3> QED
      BY <3>1, <3>2
  <2> QED
    BY <1>5, <1>6, <2>1, <2>2 DEF ClaimTaken, tables
<1>7. CASE QuotaRefuses(q) \/ LockClusterRefuses(q) \/ LockEditRefuses(q)
  BY <1>2, <1>5, <1>7 DEF QuotaRefuses, LockClusterRefuses, LockEditRefuses, Refuse, tables
<1>8. CASE RecheckGone(q) \/ CancelReread(q)
  <2>1. pc[q] \in CancelSteps
    BY <1>8 DEF RecheckGone, CancelReread, CancelSteps
  <2>2. Rendered(call[q].reservation) \in Body
    BY <2>1 DEF Rendered, Body, ReservationRow, Typed, TypeOK, SessionsOK, SessionOK, Named,
                CancelCall
  <2> QED
    BY <1>2, <1>5, <1>8, <2>2 DEF RecheckGone, CancelReread, tables
<1>9. CASE UpdateCommit(q)
  BY <1>2, <1>5, <1>9 DEF UpdateCommit
<1>10. CASE \/ ClaimFresh(q) \/ ClaimUser(q) \/ LockUser(q) \/ QuotaAdmits(q)
            \/ LockClusterAdmits(q) \/ ReserveCommit(q) \/ LockOwner(q)
            \/ LockHeldCluster(q) \/ RecheckHeld(q) \/ CancelCommit(q) \/ LockEditAdmits(q)
  BY <1>1, <1>10, GoingOn
<1> QED
  BY <1>3, <1>4, <1>6, <1>7, <1>8, <1>9, <1>10 DEF Serve

LEMMA AnswersInductive == AnswerInv /\ [Next]_vars => AnswerInv'
<1> SUFFICES ASSUME AnswerInv, [Next]_vars, NEW p \in Requests PROVE Answered(p)'
  BY KeyInductive DEF AnswerInv
<1>1. Answered(p) /\ Typed
  BY DEF AnswerInv, KeyInv
<1>2. ASSUME UNCHANGED <<pc[p], reply[p]>>, \A l : l.tx = p => (l \in locks' <=> l \in locks),
             reservations'[p] # None <=> reservations[p] # None
      PROVE  Answered(p)'
  BY <1>1, <1>2 DEF Answered
<1>3. ASSUME NEW q \in Requests, Step1(q), p # q PROVE Answered(p)'
  <2>1. CASE ReserveCommit(q)
    BY <1>1, <1>2, <1>3, <2>1, OthersUntouched, Bought
  <2>2. CASE ~ReserveCommit(q)
    BY <1>1, <1>2, <1>3, <2>2, OthersUntouched, OnlyBookingsInsert
  <2> QED
    BY <2>1, <2>2
<1>4. CASE Step1(p)
  BY <1>4, ArrivalAnswered, ServiceAnswered DEF Step1
<1>5. CASE Admin \/ UNCHANGED vars
  BY <1>1, <1>5 DEF Admin, CreateCluster, PutQuota, session, vars, Answered
<1> QED
  BY <1>3, <1>4, <1>5 DEF Next, Step1

(* Whatever gate, lock or failure ends a request, a 201 has left a durable *)
(* reservation, a refusal neither a row nor a key, and none of them a lock *)
(* (get_db closes the session; the writes of reserve_gpu share a COMMIT).  *)
THEOREM AnswersAreTrue == Spec => []AnswersMatchTables
<1>1. Init => AnswerInv
  <2>1. Init => KeyInv
    BY InitTyped DEF Init, KeyInv, SlotsClaimed, Claiming, KeysBought
  <2> QED
    BY <2>1 DEF Init, AnswerInv, Answered
<1>2. AnswerInv => AnswersMatchTables
  <2> SUFFICES ASSUME AnswerInv, NEW q \in Requests, reply[q] # None
               PROVE  /\ reply[q].code = "CREATED" => reservations[q] # None
                      /\ reply[q].code \notin {"CREATED", "ERROR"} =>
                            /\ reservations[q] = None
                            /\ \A s \in Keys \X Users : keys[s] # None =>
                                  keys[s].response_body.id # q
                      /\ \A l \in locks : l.tx # q
    BY DEF AnswersMatchTables
  <2>1. Answered(q)
    BY DEF AnswerInv
  <2>2. ASSUME NEW s \in Keys \X Users, keys[s] # None
        PROVE  reservations[keys[s].response_body.id] # None
    BY <2>2 DEF AnswerInv, KeyInv, KeysBought, KeyOK, BoughtWith
  <2> QED
    BY <2>1, <2>2 DEF Answered
<1> QED
  BY <1>1, <1>2, AnswersInductive, PTL DEF Spec

-----------------------------------------------------------------------------
(***************************************************************************)
(* Releases.  The right to release was checked on a row read without a     *)
(* lock, statements before the COMMIT; the columns it depends on never     *)
(* change, and no other statement takes a reservation's units away.        *)
(***************************************************************************)
EndedByCancel(r) ==
    /\ reservations'[r] = [reservations[r] EXCEPT !.status = "CANCELLED"]
    /\ \E q \in Requests : /\ pc[q] = "release" /\ call[q].reservation = r
                           /\ \/ call[q].user = reservations[r].user
                              \/ RoleOf[call[q].user] = "ADMIN"

LEMMA RowChangesAreCancels ==
    ASSUME Typed, [Next]_vars, NEW r \in Requests, reservations[r] # None
    PROVE  reservations'[r] = reservations[r] \/ EndedByCancel(r)
<1>1. ASSUME NEW q \in Requests, ReserveCommit(q) PROVE reservations'[r] = reservations[r]
  BY <1>1, Bought
<1>2. ASSUME NEW q \in Requests, CancelCommit(q)
      PROVE  reservations'[r] = reservations[r] \/ EndedByCancel(r)
  <2>1. /\ pc[q] = "release"
        /\ reservations' = [reservations EXCEPT ![call[q].reservation].status = "CANCELLED"]
    BY <1>2 DEF CancelCommit
  <2>2. MayCancel(call[q])
    BY <2>1 DEF Typed, SessionsOK, SessionOK, CancelSteps
  <2>3. CASE call[q].reservation = r
    BY <2>1, <2>2, <2>3 DEF Typed, TypeOK, MayCancel, EndedByCancel
  <2>4. CASE call[q].reservation # r
    BY <2>1, <2>4 DEF Typed, TypeOK
  <2> QED
    BY <2>3, <2>4
<1>3. ASSUME NEW q \in Requests, UNCHANGED tables \/ UpdateCommit(q)
      PROVE  reservations'[r] = reservations[r]
  BY <1>3 DEF tables, UpdateCommit
<1>4. CASE Admin \/ UNCHANGED vars
  BY <1>4 DEF Admin, CreateCluster, PutQuota, vars
<1> QED
  BY <1>1, <1>2, <1>3, <1>4, OnlyCommitsWrite DEF Next, Step1

(* A reservation loses its units only by a cancel of its owner or of an    *)
(* admin, however PATCHes, policies and other cancels interleave, and a    *)
(* cancelled one never comes back (cancel_gpu_reservation).                *)
THEOREM ReleasesAreCancels == Spec => OnlyCancelReleases
<1>1. Typed /\ [Next]_vars =>
        [\A r \in Requests : reservations[r] # None =>
          \/ reservations'[r] = reservations[r]
          \/ /\ reservations'[r] = [reservations[r] EXCEPT !.status = "CANCELLED"]
             /\ \E q \in Requests : /\ pc[q] = "release" /\ call[q].reservation = r
                                    /\ \/ call[q].user = reservations[r].user
                                       \/ RoleOf[call[q].user] = "ADMIN"]_vars
  BY RowChangesAreCancels DEF EndedByCancel
<1> QED
  BY <1>1, InitTyped, NextTyped, PTL DEF Spec, OnlyCancelReleases

-----------------------------------------------------------------------------
(***************************************************************************)
(* Circles of waits.  Rows are locked in one order, user before cluster:   *)
(* whoever holds a cluster row waits for nobody, and whoever holds a user  *)
(* row exclusively waits for a cluster row at most.  The one lock taken out *)
(* of order is the KEY SHARE of a key's foreign key, before FOR UPDATE on  *)
(* the same row.                                                           *)
(***************************************************************************)
HasUser == {"quotaGate", "lockCluster", "commit", "lockHeld", "recheck", "release"}
HasCluster == {"commit", "recheck", "release", "edit"}
HasKey == {"lockUser", "quotaGate", "lockCluster", "commit"}

HolderOK(l) ==
    /\ l.mode \in {"UPDATE", "KEY SHARE"}
    /\ l.row[1] = "gpu_clusters" => pc[l.tx] \in HasCluster
    /\ l.row[1] = "users" /\ l.mode = "UPDATE" => pc[l.tx] \in HasUser
    /\ l.mode = "KEY SHARE" => /\ l.row = UserRow(call[l.tx].user)
                               /\ call[l.tx].key # None
                               /\ pc[l.tx] \in HasKey

HoldersKnown == \A l \in locks : HolderOK(l)

LEMMA RowTables ==
    /\ \A u : UserRow(u)[1] = "users"
    /\ \A c : ClusterLock(c)[1] = "gpu_clusters"
BY DEF UserRow, ClusterLock

(* What a statement of q leaves behind: no lock, or the ones it had and    *)
(* at most one more.                                                       *)
LEMMA LocksOfOthers ==
    ASSUME Typed, HoldersKnown, NEW q \in Requests, Step1(q),
           NEW l \in locks', l.tx # q
    PROVE  HolderOK(l)'
<1>1. l.tx \in Requests /\ l \in locks
  <2>1. l.tx \in Requests
    BY NextTyped DEF Next, Step1, Typed, TypeOK
  <2> QED
    BY <2>1, OthersUntouched
<1>2. pc'[l.tx] = pc[l.tx] /\ call'[l.tx] = call[l.tx]
  BY <1>1, OthersUntouched
<1> QED
  BY <1>1, <1>2 DEF HoldersKnown, HolderOK

LEMMA NewLock ==
    ASSUME NEW q, NEW row, NEW mode, Lock(q, row, mode), NEW l \in locks'
    PROVE  l \in locks \/ (l.tx = q /\ l.row = row /\ l.mode = mode)
<1>1. l \in locks \/ l = [tx |-> q, row |-> row, mode |-> mode]
  BY DEF Lock, Grant
<1> QED
  BY <1>1

LEMMA OwnLockTaken ==
    ASSUME Typed, HoldersKnown, NEW q \in Requests, NEW l \in locks', l.tx = q,
           \/ ClaimUser(q) \/ LockUser(q) \/ LockClusterAdmits(q)
           \/ LockOwner(q) \/ LockHeldCluster(q) \/ LockEditAdmits(q)
    PROVE  HolderOK(l)'
<1> USE DEF Typed, TypeOK, Goto, HolderOK, HasUser, HasCluster, HasKey
<1>1. l \in locks => HolderOK(l)
  BY DEF HoldersKnown
<1>2. CASE ClaimUser(q)
  <2>1. call[q].key # None
    BY <1>2 DEF ClaimUser, SessionsOK, SessionOK
  <2>2. \/ l \in locks
        \/ l.row = UserRow(call[q].user) /\ l.mode = "KEY SHARE"
    <3>1. PICK mode : mode = "KEY SHARE"
      OBVIOUS
    <3>2. Lock(q, UserRow(call[q].user), mode)
      BY <1>2, <3>1 DEF ClaimUser
    <3>3. l \in locks \/ (l.row = UserRow(call[q].user) /\ l.mode = mode)
      BY <3>2, NewLock
    <3> QED
      BY <3>1, <3>3
  <2>3. l.row = UserRow(call[q].user) => l.row[1] = "users"
    BY RowTables
  <2>4. pc[q] = "claimUser" /\ pc'[q] = "lockUser" /\ call' = call
    BY <1>2 DEF ClaimUser
  <2> QED
    BY <1>1, <2>1, <2>2, <2>3, <2>4
<1>3. ASSUME NEW row, LockUser(q) \/ LockOwner(q), Lock(q, row, "UPDATE"), row[1] = "users"
      PROVE  HolderOK(l)'
  <2>1. l \in locks \/ (l.row = row /\ l.mode = "UPDATE")
    BY <1>3, NewLock
  <2>2. /\ call' = call
        /\ \/ pc[q] = "lockUser" /\ pc'[q] = "quotaGate"
           \/ pc[q] = "lockOwner" /\ pc'[q] = "lockHeld"
    BY <1>3 DEF LockUser, LockOwner
  <2> QED
    BY <1>1, <1>3, <2>1, <2>2
<1>4. ASSUME NEW row, LockClusterAdmits(q) \/ LockHeldCluster(q) \/ LockEditAdmits(q),
             Lock(q, row, "UPDATE"), row[1] = "gpu_clusters"
      PROVE  HolderOK(l)'
  <2>1. l \in locks \/ (l.row = row /\ l.mode = "UPDATE")
    BY <1>4, NewLock
  <2>2. /\ call' = call
        /\ \/ pc[q] = "lockCluster" /\ pc'[q] = "commit"
           \/ pc[q] = "lockHeld" /\ pc'[q] = "recheck"
           \/ pc[q] = "lockEdit" /\ pc'[q] = "edit"
    BY <1>4 DEF LockClusterAdmits, LockHeldCluster, LockEditAdmits
  <2> QED
    BY <1>1, <1>4, <2>1, <2>2
<1>5. CASE LockUser(q)
  BY <1>3, <1>5, RowTables DEF LockUser
<1>6. CASE LockOwner(q)
  BY <1>3, <1>6, RowTables DEF LockOwner, CancelOrder
<1>7. CASE LockClusterAdmits(q)
  BY <1>4, <1>7, RowTables DEF LockClusterAdmits
<1>8. CASE LockHeldCluster(q)
  BY <1>4, <1>8, RowTables DEF LockHeldCluster, CancelOrder
<1>9. CASE LockEditAdmits(q)
  BY <1>4, <1>9, RowTables DEF LockEditAdmits
<1> QED
  BY <1>2, <1>5, <1>6, <1>7, <1>8, <1>9

LEMMA OwnLockKept ==
    ASSUME Typed, HoldersKnown, NEW q \in Requests, NEW l \in locks', l.tx = q, Step1(q),
           ~ (\/ ClaimUser(q) \/ LockUser(q) \/ LockClusterAdmits(q)
              \/ LockOwner(q) \/ LockHeldCluster(q) \/ LockEditAdmits(q))
    PROVE  HolderOK(l)'
<1> USE DEF Typed, TypeOK, Goto, HolderOK, HasUser, HasCluster, HasKey
<1>1. l \in locks => HolderOK(l)
  BY DEF HoldersKnown
<1>2. CASE Arrive(q)
  <2>1. locks' = locks /\ pc[q] = "idle"
    BY <1>2 DEF Arrive, Reserve, ReserveNotFound, Cancel, CancelNothingToDo, CancelAnswer,
                Update
  <2> QED
    BY <1>1, <2>1
<1>3. CASE ClaimFresh(q)
  BY <1>1, <1>3 DEF ClaimFresh
<1>4. CASE QuotaAdmits(q)
  BY <1>1, <1>4 DEF QuotaAdmits
<1>5. CASE RecheckHeld(q)
  BY <1>1, <1>5 DEF RecheckHeld
<1>6. CASE ReserveCommit(q) \/ CancelCommit(q) \/ UpdateCommit(q)
  BY <1>6 DEF ReserveCommit, CancelCommit, Commit, UpdateCommit, Answer, ReleaseAll
<1>7. CASE \/ ClaimTaken(q) \/ QuotaRefuses(q) \/ LockClusterRefuses(q)
           \/ ReserveAnswer(q) \/ RecheckGone(q) \/ CancelReread(q)
           \/ LockEditRefuses(q) \/ ConnectionLost(q) \/ DeadlockVictim(q)
  <2>1. PICK code \in Code, body \in Body \cup {None} : Answer(q, code, body)
    BY <1>7, RefusalTyped
  <2> QED
    BY <2>1 DEF Answer, ReleaseAll
<1> QED
  BY <1>2, <1>3, <1>4, <1>5, <1>6, <1>7 DEF Step1, Serve

LEMMA HoldersInductive == Typed /\ HoldersKnown /\ [Next]_vars => HoldersKnown'
<1> SUFFICES ASSUME Typed, HoldersKnown, [Next]_vars PROVE HoldersKnown'
  OBVIOUS
<1>1. ASSUME NEW q \in Requests, Step1(q), NEW l \in locks' PROVE HolderOK(l)'
  BY <1>1, LocksOfOthers, OwnLockTaken, OwnLockKept
<1>2. CASE Admin \/ UNCHANGED vars
  BY <1>2 DEF Admin, CreateCluster, PutQuota, session, vars, HoldersKnown, HolderOK
<1> QED
  BY <1>1, <1>2 DEF Next, Step1, HoldersKnown

(* For whom a statement can wait.                                          *)
LEMMA WaitsKnown ==
    ASSUME Typed, HoldersKnown, NEW t \in Requests, NEW u \in WaitsFor(t)
    PROVE  /\ u \in Requests /\ u # t
           /\ \/ /\ pc[t] = "claim"
                 /\ pc[u] \in {"claimUser"} \cup HasKey
                 /\ call[u].key # None
              \/ /\ pc[t] = "claimUser"
                 /\ pc[u] \in HasUser
              \/ /\ pc[t] \in {"lockUser", "lockOwner"}
                 /\ \/ pc[u] \in HasUser
                    \/ /\ pc[u] = "lockUser" /\ call[u].key # None
                       /\ pc[t] = "lockUser" => call[u].user = call[t].user
              \/ /\ pc[t] \in {"lockHeld", "lockCluster", "lockEdit"}
                 /\ pc[u] \in HasCluster
<1>1. CASE pc[t] = "claim"
  BY <1>1 DEF WaitsFor, SlotHolders, Claiming, HasKey
<1>2. ASSUME NEW row, NEW mode \in {"UPDATE", "KEY SHARE"},
             u \in Blockers(locks, t, row, mode)
      PROVE  \E l \in locks : /\ l.tx = u /\ l.tx # t /\ l.row = row
                              /\ l.mode \in Excluding[mode] /\ HolderOK(l)
                              /\ u \in Requests
  <2>1. PICK l \in locks : l.tx = u /\ l.tx # t /\ l.row = row /\ l.mode \in Excluding[mode]
    BY <1>2 DEF Blockers
  <2>2. u \in Requests
    BY <2>1 DEF Typed, TypeOK
  <2> QED
    BY <2>1, <2>2 DEF HoldersKnown
<1>3. Excluding["KEY SHARE"] = {"UPDATE"}
  BY DEF Excluding, LockMode
<1>4. CASE pc[t] = "claimUser"
  <2>1. u \in Blockers(locks, t, UserRow(call[t].user), "KEY SHARE")
    BY <1>4 DEF WaitsFor
  <2>2. PICK l \in locks : /\ l.tx = u /\ l.tx # t /\ l.row = UserRow(call[t].user)
                           /\ l.mode = "UPDATE" /\ HolderOK(l) /\ u \in Requests
    BY <1>2, <1>3, <2>1
  <2> QED
    BY <1>4, <2>2, RowTables DEF HolderOK
<1>5. CASE pc[t] \in {"lockUser", "lockOwner"}
  <2>1. PICK v : /\ u \in Blockers(locks, t, UserRow(v), "UPDATE")
                 /\ pc[t] = "lockUser" => v = call[t].user
    BY <1>5 DEF WaitsFor, CancelOrder
  <2>2. PICK l \in locks : /\ l.tx = u /\ l.tx # t /\ l.row = UserRow(v)
                           /\ HolderOK(l) /\ u \in Requests
    BY <1>2, <2>1
  <2>3. CASE l.mode = "UPDATE"
    BY <1>5, <2>2, <2>3, RowTables DEF HolderOK
  <2>4. CASE l.mode = "KEY SHARE"
    <3>1. UserRow(v) = UserRow(call[u].user) /\ call[u].key # None /\ pc[u] \in HasKey
      BY <2>2, <2>4 DEF HolderOK
    <3>2. v = call[u].user
      BY <3>1 DEF UserRow
    <3> QED
      BY <1>5, <2>1, <2>2, <3>1, <3>2 DEF HasKey, HasUser
  <2> QED
    BY <2>2, <2>3, <2>4 DEF HolderOK
<1>6. CASE pc[t] \in {"lockHeld", "lockCluster", "lockEdit"}
  <2>1. PICK c : u \in Blockers(locks, t, ClusterLock(c), "UPDATE")
    BY <1>6 DEF WaitsFor, CancelOrder
  <2>2. PICK l \in locks : /\ l.tx = u /\ l.tx # t /\ l.row = ClusterLock(c)
                           /\ HolderOK(l) /\ u \in Requests
    BY <1>2, <2>1
  <2> QED
    BY <1>6, <2>2, RowTables DEF HolderOK
<1>7. CASE pc[t] \notin {"claim", "claimUser", "lockUser", "lockOwner", "lockHeld",
                         "lockCluster", "lockEdit"}
  BY <1>7 DEF WaitsFor
<1> QED
  BY <1>1, <1>4, <1>5, <1>6, <1>7

(* Two requests of one user, each past the INSERT of its own key, both     *)
(* asking for the user row FOR UPDATE.                                     *)
TwoKeysOfOneUser(S) ==
    \E q, p \in S : /\ q # p
                    /\ pc[q] = "lockUser" /\ pc[p] = "lockUser"
                    /\ call[q].user = call[p].user
                    /\ call[q].key # None /\ call[p].key # None
                    /\ call[q].key # call[p].key

CirclesAreOfKeys == \A S \in SUBSET Requests : Stuck(waits, S) => TwoKeysOfOneUser(S)

LEMMA CircleFound == ASSUME KeyInv, HoldersKnown PROVE CirclesAreOfKeys
<1> SUFFICES ASSUME NEW S \in SUBSET Requests, Stuck(waits, S) PROVE TwoKeysOfOneUser(S)
  BY DEF CirclesAreOfKeys
<1> USE DEF KeyInv, HasUser, HasCluster, HasKey
<1>1. ASSUME NEW t \in S PROVE \E u \in S : u \in WaitsFor(t)
  BY DEF Stuck, waits
<1>2. ASSUME NEW t \in S
      PROVE  pc[t] \in {"claim", "claimUser", "lockUser", "lockOwner", "lockHeld",
                        "lockCluster", "lockEdit"}
  BY <1>1, WaitsKnown
<1>3. ASSUME NEW t \in S
      PROVE  pc[t] \in {"claim", "claimUser", "lockUser", "lockOwner"}
  <2>1. PICK u \in S : u \in WaitsFor(t)
    BY <1>1
  <2>2. pc[u] \notin HasCluster
    BY <1>2
  <2> QED
    BY <1>2, <2>1, <2>2, WaitsKnown
<1>4. ASSUME NEW t \in S, pc[t] # "claim"
      PROVE  \E u \in S : /\ u # t /\ pc[u] = "lockUser" /\ call[u].key # None
                          /\ pc[t] = "lockUser" => call[u].user = call[t].user
  <2>1. PICK u \in S : u \in WaitsFor(t)
    BY <1>1
  <2>2. pc[u] \notin HasUser
    BY <1>3
  <2> QED
    BY <1>3, <1>4, <2>1, <2>2, WaitsKnown
<1>5. \E t \in S : pc[t] # "claim"
  <2>1. PICK t \in S : TRUE
    BY DEF Stuck
  <2>2. PICK u \in S : u \in WaitsFor(t)
    BY <1>1
  <2> QED
    BY <2>2, WaitsKnown
<1>6. PICK q \in S : pc[q] = "lockUser" /\ call[q].key # None
  BY <1>4, <1>5
<1>7. PICK p \in S : /\ p # q /\ pc[p] = "lockUser" /\ call[p].key # None
                     /\ call[p].user = call[q].user
  BY <1>4, <1>6
<1>8. call[q].key # call[p].key
  <2>1. Claiming(q) /\ Claiming(p)
    BY <1>6, <1>7 DEF Claiming
  <2>2. Slot(q) # Slot(p)
    BY <1>7, <2>1 DEF SlotsClaimed
  <2> QED
    BY <1>7, <2>2 DEF Slot
<1> QED
  BY <1>6, <1>7, <1>8 DEF TwoKeysOfOneUser

LEMMA CirclesHold == Spec => [](KeyInv /\ HoldersKnown)
<1>1. Init => HoldersKnown
  BY DEF Init, HoldersKnown
<1>2. KeyInv /\ HoldersKnown /\ [Next]_vars => HoldersKnown'
  BY HoldersInductive DEF KeyInv
<1> QED
  BY <1>1, <1>2, KeyInvHolds, PTL DEF Spec

(* Requests wait for each other in a circle of any length only where two   *)
(* of them carry keys of their own for one user: the foreign key of        *)
(* idempotency_keys is the only lock out of order (claim, reserve_gpu).    *)
THEOREM OnlyKeysMakeCircles == Spec => []CirclesAreOfKeys
BY CircleFound, CirclesHold, PTL

(* Without keys "deadlock is structurally impossible rather than merely    *)
(* unlikely" (reserve_gpu): cancels, edits and reservations of any users   *)
(* on any clusters never wait in a circle.                                 *)
THEOREM UnkeyedNeverStuck ==
    ASSUME \A c \in Calls : c.op = "reserve" => c.key = None
    PROVE  Spec => []NoDeadlock
<1> DEFINE CallsOK == \A q \in Requests : call[q] = None \/ call[q] \in Calls
<1>1. Init => CallsOK
  BY DEF Init
<1>2. Typed /\ CallsOK /\ [Next]_vars => CallsOK'
  <2> SUFFICES ASSUME Typed, CallsOK, [Next]_vars, NEW q \in Requests
               PROVE  call'[q] = None \/ call'[q] \in Calls
    OBVIOUS
  <2>1. CASE pc[q] # "idle"
    BY <2>1, CallsOfRowsStay
  <2>2. CASE pc[q] = "idle" /\ Step1(q)
    <3>1. Arrive(q)
      BY <2>2 DEF Step1, Serve, ClaimFresh, ClaimTaken, ClaimUser, LockUser, QuotaAdmits,
             QuotaRefuses, LockClusterAdmits, LockClusterRefuses, ReserveCommit,
             ReserveAnswer, LockOwner, LockHeldCluster, RecheckHeld, RecheckGone,
             CancelCommit, CancelReread, LockEditAdmits, LockEditRefuses, UpdateCommit,
             ConnectionLost, DeadlockVictim, InFlight
    <3>2. PICK c \in Calls : call' = [call EXCEPT ![q] = c]
      BY <3>1 DEF Arrive, Reserve, ReserveNotFound, Cancel, CancelNothingToDo, CancelAnswer,
                  Update
    <3> QED
      BY <3>2 DEF Typed, TypeOK
  <2>3. ASSUME NEW p \in Requests, Step1(p), p # q PROVE call'[q] = call[q]
    BY <2>3, OthersUntouched
  <2>4. CASE Admin \/ UNCHANGED vars
    BY <2>4 DEF Admin, CreateCluster, PutQuota, session, vars
  <2> QED
    BY <2>1, <2>2, <2>3, <2>4 DEF Next, Step1
<1>3. Typed /\ CallsOK /\ CirclesAreOfKeys => NoDeadlock
  <2> SUFFICES ASSUME Typed, CallsOK, CirclesAreOfKeys,
                      NEW S \in SUBSET Requests, Stuck(waits, S)
               PROVE  FALSE
    BY DEF NoDeadlock
  <2>1. PICK q \in S : pc[q] = "lockUser" /\ call[q].key # None
    BY DEF CirclesAreOfKeys, TwoKeysOfOneUser
  <2>2. call[q] \in ReserveCall
    BY <2>1 DEF Typed, SessionsOK, SessionOK, ReserveSteps
  <2>3. call[q] # None /\ call[q].op = "reserve"
    BY <2>2, SentinelsApart DEF ReserveCall, Call
  <2> QED
    BY <2>1, <2>3
<1> HIDE DEF CallsOK
<1>4. Spec => []Typed
  BY InitTyped, NextTyped, PTL DEF Spec
<1> QED
  BY <1>1, <1>2, <1>3, <1>4, OnlyKeysMakeCircles, PTL DEF Spec
=============================================================================
