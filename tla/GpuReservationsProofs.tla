------------------------ MODULE GpuReservationsProofs ------------------------
(***************************************************************************)
(* Theorems about GpuReservations, for all sets of users, clusters, keys   *)
(* and requests, all policies and all capacities.                          *)
(***************************************************************************)
EXTENDS GpuReservations, UnitSumsProofs

(***************************************************************************)
(* What a request knows at each of its statements.  The guards that        *)
(* established it were evaluated statements ago; it still holds because    *)
(* rows are never deleted and their key columns never change.              *)
(***************************************************************************)
BeforeCommit == {"claim", "claimUser", "lockUser", "quotaGate", "lockCluster", "commit"}

SessionOK(q) ==
    /\ pc[q] = "idle" => call[q] = None /\ reservations[q] = None
    /\ pc[q] \in ReserveSteps => call[q] \in ReserveCall /\ Exists(call[q].cluster)
    /\ pc[q] \in BeforeCommit => reservations[q] = None
    /\ pc[q] = "refresh" => reservations[q] # None
    /\ pc[q] \in {"claim", "claimUser"} => call[q].key # None
    /\ pc[q] \in CancelSteps => /\ call[q] \in CancelCall
                                /\ Named(call[q]) /\ MayCancel(call[q])
    /\ pc[q] \in UpdateSteps => call[q] \in UpdateCall
    /\ pc[q] = "edit" => Exists(call[q].cluster)
    /\ pc[q] \in {"commit", "recheck", "release", "edit"} => seen[q] \in ClusterRow
    /\ pc[q] \in {"lockCluster", "commit"} => limitRead[q] # None

(* A reservation row carries the columns of the request that inserted it.  *)
RowOK(r) ==
    reservations[r] # None =>
        /\ call[r] \in ReserveCall
        /\ reservations[r].cluster = call[r].cluster
        /\ reservations[r].user = call[r].user
        /\ reservations[r].gpu_count = call[r].gpu_count
        /\ Exists(call[r].cluster)
        /\ pc[r] \in {"refresh", "done"}

SessionsOK == \A q \in Requests : SessionOK(q) /\ RowOK(q)

Typed == TypeOK /\ SessionsOK

(* The op field of a call tells which of the three records it is.          *)
LEMMA CallKinds ==
    ASSUME NEW c \in Calls
    PROVE  /\ c \in Call
           /\ c.op = "reserve" => c \in ReserveCall
           /\ c.op = "cancel" => c \in CancelCall
           /\ c.op = "update" => c \in UpdateCall
BY CallsTyped DEF Call, ReserveCall, CancelCall, UpdateCall

LEMMA InitTyped == Init => Typed
<1> SUFFICES ASSUME Init PROVE Typed
  OBVIOUS
<1>1. TypeOK
  BY SeededTyped, LimitsTyped DEF Init, TypeOK, ClusterRow, Step, ResourceStatus
<1>2. SessionsOK
  BY DEF Init, SessionsOK, SessionOK, RowOK, ReserveSteps, CancelSteps, UpdateSteps, BeforeCommit
<1> QED
  BY <1>1, <1>2 DEF Typed

-----------------------------------------------------------------------------
(* Answering a request only touches its own session.                       *)
LEMMA AnswerTyped ==
    ASSUME Typed, NEW q \in Requests, NEW code \in Code, NEW body \in Body \cup {None},
           InFlight(q), Answer(q, code, body), UNCHANGED tables
    PROVE  Typed'
<1> USE DEF Answer, Goto, ReleaseAll, tables, InFlight
<1>1. TypeOK'
  BY DEF Typed, TypeOK, Reply, Step
<1>2. SessionsOK'
  BY DEF Typed, TypeOK, SessionsOK, SessionOK, RowOK, Exists, Named, MayCancel,
         ReserveSteps, CancelSteps, UpdateSteps, BeforeCommit
<1> QED
  BY <1>1, <1>2 DEF Typed

LEMMA RefuseTyped ==
    ASSUME Typed, NEW q \in Requests, NEW code \in Code, InFlight(q), Refuse(q, code)
    PROVE  Typed'
BY AnswerTyped DEF Refuse

(* The steps of Arrive(q).                                                 *)
LEMMA ArriveTyped ==
    ASSUME Typed, NEW q \in Requests, Arrive(q)
    PROVE  Typed'
<1> PICK c \in Calls : \/ Reserve(q, c) \/ ReserveNotFound(q, c)
                       \/ Cancel(q, c)  \/ CancelNothingToDo(q, c)
                       \/ Update(q, c)
  BY DEF Arrive
<1> USE CallKinds, SentinelsApart
    DEF Goto, tables, Typed, TypeOK, Step, Reply, Code, Body, SessionsOK, SessionOK, RowOK,
        Exists, Named, MayCancel, Active, ReserveSteps, CancelSteps, UpdateSteps, BeforeCommit
<1>1. CASE Reserve(q, c)
  <2>1. c \in ReserveCall
    BY <1>1 DEF Reserve
  <2>2. TypeOK'
    BY <1>1, <2>1 DEF Reserve
  <2>3. SessionsOK'
    BY <1>1, <2>1 DEF Reserve
  <2> QED
    BY <2>2, <2>3
<1>2. CASE ReserveNotFound(q, c)
  BY <1>2 DEF ReserveNotFound
<1>3. CASE Cancel(q, c)
  <2>1. c \in CancelCall
    BY <1>3 DEF Cancel
  <2>2. TypeOK'
    BY <1>3, <2>1 DEF Cancel
  <2>3. SessionsOK'
    BY <1>3, <2>1 DEF Cancel
  <2> QED
    BY <2>2, <2>3
<1>4. CASE CancelNothingToDo(q, c)
  <2>1. c \in CancelCall
    BY <1>4 DEF CancelNothingToDo
  <2>2. \E code \in Code, body \in Body \cup {None} : CancelAnswer(q, c, code, body)
    BY <1>4, <2>1 DEF CancelNothingToDo, Rendered, CancelCall, ReservationRow
  <2>3. PICK code \in Code, body \in Body \cup {None} : CancelAnswer(q, c, code, body)
    BY <2>2
  <2>4. TypeOK'
    BY <1>4, <2>3 DEF CancelNothingToDo, CancelAnswer
  <2>5. SessionsOK'
    BY <1>4, <2>3 DEF CancelNothingToDo, CancelAnswer
  <2> QED
    BY <2>4, <2>5
<1>5. CASE Update(q, c)
  <2>1. c \in UpdateCall
    BY <1>5 DEF Update
  <2> QED
    BY <1>5, <2>1 DEF Update
<1> QED
  BY <1>1, <1>2, <1>3, <1>4, <1>5

-----------------------------------------------------------------------------
(* The statements that take a row lock.                                    *)
LEMMA GrantTyped ==
    ASSUME TypeOK, NEW q \in Requests, NEW row \in LockRow, NEW mode \in LockMode,
           Lock(q, row, mode)
    PROVE  /\ locks' \subseteq [tx : Requests, row : LockRow, mode : LockMode]
           /\ locks' = locks \cup {[tx |-> q, row |-> row, mode |-> mode]}
BY DEF TypeOK, Lock, Grant

LEMMA RowsLocked ==
    /\ \A u \in Users : UserRow(u) \in LockRow
    /\ \A c \in Clusters : ClusterLock(c) \in LockRow
BY DEF UserRow, ClusterLock, LockRow

LEMMA LockTyped ==
    ASSUME Typed, NEW q \in Requests,
           \/ ClaimUser(q) \/ LockUser(q) \/ LockClusterAdmits(q)
           \/ LockOwner(q) \/ LockHeldCluster(q) \/ LockEditAdmits(q)
    PROVE  Typed'
<1>1. "UPDATE" \in LockMode /\ "KEY SHARE" \in LockMode
  BY DEF LockMode
<1>2. pc[q] \in ReserveSteps => /\ call[q].user \in Users /\ call[q].cluster \in Clusters
                                /\ clusters[call[q].cluster] \in ClusterRow
  BY DEF Typed, TypeOK, SessionsOK, SessionOK, ReserveCall, Exists
<1>3. pc[q] \in CancelSteps => /\ call[q].reservation \in Requests
                               /\ Target(q).user \in Users /\ Target(q).cluster \in Clusters
                               /\ clusters[Target(q).cluster] \in ClusterRow
  BY DEF Typed, TypeOK, SessionsOK, SessionOK, RowOK, CancelCall, Named, Target,
         ReservationRow, Exists
<1>4. pc[q] \in UpdateSteps => /\ call[q].cluster \in Clusters
                               /\ Exists(call[q].cluster) => clusters[call[q].cluster] \in ClusterRow
  BY DEF Typed, TypeOK, SessionsOK, SessionOK, UpdateCall, Exists
<1>5. /\ tables' = tables /\ call' = call /\ reply' = reply /\ limitRead' = limitRead
      /\ locks' \subseteq [tx : Requests, row : LockRow, mode : LockMode]
      /\ seen' \in [Requests -> ClusterRow \cup {None}]
  <2> USE DEF Typed, TypeOK
  <2>1. CASE ClaimUser(q)
    BY <1>1, <1>2, <2>1, GrantTyped, RowsLocked DEF ClaimUser, ReserveSteps
  <2>2. CASE LockUser(q)
    BY <1>1, <1>2, <2>2, GrantTyped, RowsLocked DEF LockUser, ReserveSteps
  <2>3. CASE LockClusterAdmits(q)
    BY <1>1, <1>2, <2>3, GrantTyped, RowsLocked DEF LockClusterAdmits, ReserveSteps
  <2>4. CASE LockOwner(q)
    BY <1>1, <1>3, <2>4, GrantTyped, RowsLocked DEF LockOwner, CancelOrder, CancelSteps
  <2>5. CASE LockHeldCluster(q)
    BY <1>1, <1>3, <2>5, GrantTyped, RowsLocked DEF LockHeldCluster, CancelOrder, CancelSteps
  <2>6. CASE LockEditAdmits(q)
    BY <1>1, <1>4, <2>6, GrantTyped, RowsLocked DEF LockEditAdmits, UpdateSteps
  <2> QED
    BY <2>1, <2>2, <2>3, <2>4, <2>5, <2>6
<1>6. TypeOK'
  <2>1. pc' \in [Requests -> Step]
    BY DEF Typed, TypeOK, Step, Goto, ReserveSteps, CancelSteps, UpdateSteps, ClaimUser,
           LockUser, LockClusterAdmits, LockOwner, LockHeldCluster, LockEditAdmits
  <2> QED
    BY <1>5, <2>1 DEF Typed, TypeOK, tables
<1>7. SessionsOK'
  <2> USE DEF Goto, tables, Typed, TypeOK, SessionsOK, SessionOK, RowOK, Exists, Named,
          MayCancel, ReserveSteps, CancelSteps, UpdateSteps, BeforeCommit
  <2>1. CASE ClaimUser(q)
    <3> SUFFICES ASSUME NEW p \in Requests PROVE SessionOK(p)' /\ RowOK(p)'
      OBVIOUS
    <3>1. /\ UNCHANGED <<clusters, reservations, call, seen, limitRead>>
          /\ pc[q] = "claimUser" /\ pc' = [pc EXCEPT ![q] = "lockUser"]
      BY <2>1 DEF ClaimUser
    <3> QED
      BY <3>1
  <2>2. CASE LockUser(q)
    BY <2>2 DEF LockUser
  <2>3. CASE LockClusterAdmits(q)
    BY <1>2, <2>3 DEF LockClusterAdmits
  <2>4. CASE LockOwner(q)
    BY <2>4 DEF LockOwner
  <2>5. CASE LockHeldCluster(q)
    BY <1>3, <2>5 DEF LockHeldCluster
  <2>6. CASE LockEditAdmits(q)
    BY <1>4, <2>6 DEF LockEditAdmits
  <2> QED
    BY <2>1, <2>2, <2>3, <2>4, <2>5, <2>6
<1> QED
  BY <1>6, <1>7 DEF Typed

-----------------------------------------------------------------------------
(* The statements that end with an answer and write nothing.               *)
LEMMA RefusalTyped ==
    ASSUME Typed, NEW q \in Requests,
           \/ ClaimTaken(q) \/ QuotaRefuses(q) \/ LockClusterRefuses(q)
           \/ ReserveAnswer(q) \/ RecheckGone(q) \/ CancelReread(q)
           \/ LockEditRefuses(q) \/ ConnectionLost(q) \/ DeadlockVictim(q)
    PROVE  /\ InFlight(q)
           /\ UNCHANGED tables
           /\ \E code \in Code, body \in Body \cup {None} : Answer(q, code, body)
<1> USE DEF Refuse, InFlight, Code
<1>1. CASE ClaimTaken(q)
  <2>1. call[q] \in ReserveCall /\ call[q].key # None /\ pc[q] = "claim"
    BY <1>1 DEF ClaimTaken, Typed, SessionsOK, SessionOK, ReserveSteps
  <2>2. keys[Slot(q)] \in KeyRow
    BY <1>1, <2>1 DEF ClaimTaken, Typed, TypeOK, Slot, ReserveCall
  <2> QED
    BY <1>1, <2>1, <2>2 DEF ClaimTaken, KeyRow
<1>2. CASE QuotaRefuses(q)
  BY <1>2 DEF QuotaRefuses
<1>3. CASE LockClusterRefuses(q)
  BY <1>3 DEF LockClusterRefuses
<1>4. CASE ReserveAnswer(q)
  <2>1. reservations[q] \in ReservationRow
    BY <1>4 DEF ReserveAnswer, Typed, TypeOK, SessionsOK, SessionOK
  <2> QED
    BY <1>4, <2>1 DEF ReserveAnswer, Rendered, Body, ReservationRow
<1>5. CASE RecheckGone(q) \/ CancelReread(q)
  <2>1. pc[q] \in CancelSteps
    BY <1>5 DEF RecheckGone, CancelReread, CancelSteps
  <2>2. call[q].reservation \in Requests /\ reservations[call[q].reservation] \in ReservationRow
    BY <2>1 DEF Typed, TypeOK, SessionsOK, SessionOK, Named, CancelCall
  <2> QED
    BY <1>5, <2>2 DEF RecheckGone, CancelReread, Rendered, Body, ReservationRow
<1>6. CASE LockEditRefuses(q)
  BY <1>6 DEF LockEditRefuses
<1>7. CASE ConnectionLost(q) \/ DeadlockVictim(q)
  BY <1>7 DEF ConnectionLost, DeadlockVictim
<1> QED
  BY <1>1, <1>2, <1>3, <1>4, <1>5, <1>6, <1>7

(* The statements that only read.                                          *)
LEMMA ReadTyped ==
    ASSUME Typed, NEW q \in Requests, ClaimFresh(q) \/ QuotaAdmits(q) \/ RecheckHeld(q)
    PROVE  Typed'
<1> USE DEF Goto, tables, Typed, TypeOK, Step, SessionsOK, SessionOK, RowOK, Exists, Named,
            MayCancel, ReserveSteps, CancelSteps, UpdateSteps, BeforeCommit
<1>1. CASE ClaimFresh(q)
  BY <1>1 DEF ClaimFresh
<1>2. CASE QuotaAdmits(q)
  <2>1. quotas[RoleOf[call[q].user]] \in Nat \cup {Unlimited, None}
    BY <1>2, RolesTyped DEF QuotaAdmits, ReserveCall
  <2> QED
    BY <1>2, <2>1 DEF QuotaAdmits
<1>3. CASE RecheckHeld(q)
  BY <1>3 DEF RecheckHeld
<1> QED
  BY <1>1, <1>2, <1>3

-----------------------------------------------------------------------------
(* The statements that commit.                                             *)
LEMMA ReserveCommitTyped ==
    ASSUME Typed, NEW q \in Requests, ReserveCommit(q)
    PROVE  Typed'
<1> USE DEF Typed, TypeOK
<1>1. /\ pc[q] = "commit" /\ reservations[q] = None /\ call[q] \in ReserveCall
      /\ clusters[call[q].cluster] \in ClusterRow /\ seen[q] \in ClusterRow
      /\ clusters[call[q].cluster] # None
      /\ call[q].cluster \in Clusters /\ call[q].gpu_count \in Nat
  BY MaxUnitsIsNat DEF ReserveCommit, SessionsOK, SessionOK, ReserveSteps, BeforeCommit,
                       Exists, ReserveCall
<1>2. clusters' = [clusters EXCEPT
          ![call[q].cluster].allocated = seen[q].allocated + call[q].gpu_count]
  BY DEF ReserveCommit
<1>3. /\ clusters' \in [Clusters -> ClusterRow \cup {None}]
      /\ \A c \in Clusters : clusters'[c] # None <=> clusters[c] # None
  BY <1>1, <1>2, SentinelsApart DEF ClusterRow
<1>4. /\ reservations' \in [Requests -> ReservationRow \cup {None}]
      /\ \A p \in Requests \ {q} : reservations'[p] = reservations[p]
      /\ reservations'[q] = [cluster |-> call[q].cluster, user |-> call[q].user,
                             gpu_count |-> call[q].gpu_count, status |-> "ACTIVE"]
      /\ reservations'[q] # None
  BY <1>1, SentinelsApart DEF ReserveCommit, ReservationRow, ReservationStatus, ReserveCall
<1>5. keys' \in [Keys \X Users -> KeyRow \cup {None}]
  <2>1. KeyRowOf(q) \in KeyRow
    BY <1>1 DEF KeyRowOf, KeyRow, Body, request_fingerprint, ReserveCall, ReservationStatus
  <2> QED
    BY <2>1 DEF ReserveCommit
<1>6. /\ pc' = [pc EXCEPT ![q] = "refresh"] /\ locks' \subseteq locks
      /\ UNCHANGED <<quotas, call, seen, limitRead, reply>>
  BY DEF ReserveCommit, Commit, Goto, ReleaseAll
<1>7. TypeOK'
  BY <1>3, <1>4, <1>5, <1>6 DEF Step, ReserveSteps
<1>8. SessionsOK'
  <2> SUFFICES ASSUME NEW p \in Requests PROVE SessionOK(p)' /\ RowOK(p)'
    BY DEF SessionsOK
  <2>1. RowOK(p)'
    BY <1>1, <1>3, <1>4, <1>6 DEF SessionsOK, RowOK, Exists, ReserveCall
  <2>2. CASE p = q
    BY <1>1, <1>3, <1>4, <1>6, <2>1, <2>2
       DEF SessionOK, Exists, ReserveSteps, CancelSteps, UpdateSteps, BeforeCommit
  <2>3. CASE p # q
    <3>1. /\ SessionOK(p) /\ pc'[p] = pc[p] /\ call'[p] = call[p]
          /\ reservations'[p] = reservations[p] /\ seen' = seen /\ limitRead' = limitRead
      BY <1>4, <1>6, <2>3 DEF SessionsOK
    <3>2. pc[p] \in CancelSteps => Named(call[p])' /\ MayCancel(call[p])'
      BY <1>1, <1>4, <3>1 DEF SessionOK, Named, MayCancel, CancelCall
    <3>3. pc[p] \in ReserveSteps \/ pc[p] = "edit" => Exists(call[p].cluster)'
      BY <1>3, <3>1 DEF SessionOK, Exists, ReserveCall, UpdateCall, UpdateSteps
    <3>4. SessionOK(p)'
      BY <3>1, <3>2, <3>3 DEF SessionOK
    <3> QED
      BY <2>1, <3>4
  <2> QED
    BY <2>1, <2>2, <2>3
<1> QED
  BY <1>7, <1>8

LEMMA CancelCommitTyped ==
    ASSUME Typed, NEW q \in Requests, CancelCommit(q)
    PROVE  Typed'
<1> USE DEF Typed, TypeOK
<1> DEFINE r == call[q].reservation
<1>1. /\ pc[q] = "release" /\ call[q] \in CancelCall /\ r \in Requests
      /\ reservations[r] \in ReservationRow /\ reservations[r].gpu_count \in Nat
      /\ reservations[r].cluster \in Clusters
      /\ clusters[reservations[r].cluster] \in ClusterRow /\ seen[q] \in ClusterRow
  BY MaxUnitsIsNat DEF CancelCommit, SessionsOK, SessionOK, RowOK, CancelSteps, Named,
                       Exists, CancelCall, ReservationRow
<1>2. /\ clusters' \in [Clusters -> ClusterRow \cup {None}]
      /\ \A c \in Clusters : clusters'[c] # None <=> clusters[c] # None
  BY <1>1, SentinelsApart DEF CancelCommit, ClusterRow, Target
<1>3. reservations' = [reservations EXCEPT
                         ![r] = [cluster |-> reservations[r].cluster,
                                 user |-> reservations[r].user,
                                 gpu_count |-> reservations[r].gpu_count,
                                 status |-> "CANCELLED"]]
  <2>1. reservations' = [reservations EXCEPT
                           ![r] = [reservations[r] EXCEPT !.status = "CANCELLED"]]
    BY DEF CancelCommit
  <2>2. [reservations[r] EXCEPT !.status = "CANCELLED"]
          = [cluster |-> reservations[r].cluster, user |-> reservations[r].user,
             gpu_count |-> reservations[r].gpu_count, status |-> "CANCELLED"]
    <3> DEFINE row == reservations[r]
    <3>1. row \in ReservationRow
      BY <1>1
    <3> HIDE DEF row
    <3>2. [row EXCEPT !.status = "CANCELLED"]
            = [cluster |-> row.cluster, user |-> row.user,
               gpu_count |-> row.gpu_count, status |-> "CANCELLED"]
      BY <3>1 DEF ReservationRow
    <3> QED
      BY <3>2 DEF row
  <2> QED
    BY <2>1, <2>2
<1>4. /\ reservations' \in [Requests -> ReservationRow \cup {None}]
      /\ \A p \in Requests :
            /\ reservations'[p] # None <=> reservations[p] # None
            /\ reservations[p] # None =>
                  /\ reservations'[p].cluster = reservations[p].cluster
                  /\ reservations'[p].user = reservations[p].user
                  /\ reservations'[p].gpu_count = reservations[p].gpu_count
  BY <1>1, <1>3, SentinelsApart DEF ReservationRow, ReservationStatus
<1>5. /\ pc' = [pc EXCEPT ![q] = "reread"] /\ locks' \subseteq locks
      /\ UNCHANGED <<keys, quotas, call, seen, limitRead, reply>>
  BY DEF CancelCommit, Commit, Goto, ReleaseAll
<1>6. TypeOK'
  BY <1>2, <1>4, <1>5 DEF Step, CancelSteps
<1>7. SessionsOK'
  <2> SUFFICES ASSUME NEW p \in Requests PROVE SessionOK(p)' /\ RowOK(p)'
    BY DEF SessionsOK
  <2> HIDE DEF r
  <2>1. RowOK(p)'
    BY <1>2, <1>4, <1>5, <1>1 DEF SessionsOK, RowOK, Exists, ReserveCall, CancelSteps, SessionOK
  <2>2. SessionOK(p)'
    BY <1>1, <1>2, <1>4, <1>5
       DEF SessionsOK, SessionOK, Exists, Named, MayCancel, ReserveSteps, CancelSteps,
           UpdateSteps, BeforeCommit, CancelCall, ReserveCall, UpdateCall
  <2> QED
    BY <2>1, <2>2
<1> QED
  BY <1>6, <1>7

LEMMA UpdateCommitTyped ==
    ASSUME Typed, NEW q \in Requests, UpdateCommit(q)
    PROVE  Typed'
<1> USE DEF Typed, TypeOK
<1>1. /\ pc[q] = "edit" /\ call[q] \in UpdateCall /\ call[q].cluster \in Clusters
      /\ clusters[call[q].cluster] \in ClusterRow
  BY DEF UpdateCommit, SessionsOK, SessionOK, UpdateSteps, Exists, UpdateCall
<1>2. /\ clusters' \in [Clusters -> ClusterRow \cup {None}]
      /\ \A c \in Clusters : clusters'[c] # None <=> clusters[c] # None
  BY <1>1, SentinelsApart DEF UpdateCommit, ClusterRow, Given, UpdateCall
<1>3. /\ pc' = [pc EXCEPT ![q] = "done"] /\ locks' \subseteq locks
      /\ reply' \in [Requests -> Reply \cup {None}]
      /\ seen' = [seen EXCEPT ![q] = None] /\ limitRead' = [limitRead EXCEPT ![q] = None]
      /\ UNCHANGED <<reservations, keys, quotas, call>>
  BY DEF UpdateCommit, Answer, Goto, ReleaseAll, Reply, Code
<1>4. TypeOK'
  BY <1>2, <1>3 DEF Step
<1>5. SessionsOK'
  BY <1>1, <1>2, <1>3
     DEF SessionsOK, SessionOK, RowOK, Exists, Named, MayCancel, ReserveSteps, CancelSteps,
         UpdateSteps, BeforeCommit, ReserveCall, UpdateCall
<1> QED
  BY <1>4, <1>5

LEMMA AdminTyped ==
    ASSUME Typed, Admin
    PROVE  Typed'
<1> USE DEF Typed, TypeOK
<1>1. ASSUME NEW c \in Clusters, NEW n \in Capacities, CreateCluster(c, n)
      PROVE  Typed'
  <2>1. /\ clusters' \in [Clusters -> ClusterRow \cup {None}]
        /\ \A d \in Clusters : clusters[d] # None => clusters'[d] = clusters[d]
    BY <1>1, CapacitiesTyped DEF CreateCluster, ClusterRow, ResourceStatus, Exists
  <2>2. UNCHANGED <<reservations, keys, quotas, locks, pc, call, seen, limitRead, reply>>
    BY <1>1 DEF CreateCluster, session
  <2>3. SessionsOK'
    <3> SUFFICES ASSUME NEW p \in Requests PROVE SessionOK(p)' /\ RowOK(p)'
      BY DEF SessionsOK
    <3>1. pc[p] \in ReserveSteps \/ pc[p] = "edit" => Exists(call[p].cluster)'
      BY <2>1, <2>2 DEF SessionsOK, SessionOK, Exists, ReserveCall, UpdateCall, UpdateSteps
    <3>2. RowOK(p)'
      BY <2>1, <2>2 DEF SessionsOK, RowOK, Exists, ReserveCall
    <3> QED
      BY <2>2, <3>1, <3>2 DEF SessionsOK, SessionOK, Exists, Named, MayCancel
  <2> QED
    BY <2>1, <2>2, <2>3
<1>2. ASSUME NEW role \in Role, NEW limit \in Limits, PutQuota(role, limit)
      PROVE  Typed'
  BY <1>2, LimitsTyped DEF PutQuota, session, SessionsOK, SessionOK, RowOK, Exists, Named,
                           MayCancel
<1> QED
  BY <1>1, <1>2, RolesTyped DEF Admin

LEMMA NextTyped == Typed /\ [Next]_vars => Typed'
<1> SUFFICES ASSUME Typed, [Next]_vars PROVE Typed'
  OBVIOUS
<1>1. ASSUME NEW q \in Requests, Serve(q) \/ ConnectionLost(q) \/ DeadlockVictim(q)
      PROVE  Typed'
  BY <1>1, LockTyped, RefusalTyped, AnswerTyped, ReadTyped, ReserveCommitTyped,
     CancelCommitTyped, UpdateCommitTyped DEF Serve
<1>2. CASE UNCHANGED vars
  BY <1>2 DEF vars, Typed, TypeOK, SessionsOK, SessionOK, RowOK, Exists, Named, MayCancel
<1> QED
  BY <1>1, <1>2, ArriveTyped, AdminTyped DEF Next

(* Type correctness: in every behaviour each variable has its type, for    *)
(* any users, clusters, calls and policy.                                  *)
THEOREM TypeCorrect == Spec => []TypeOK
<1>1. Spec => []Typed
  BY InitTyped, NextTyped, PTL DEF Spec
<1>2. Typed => TypeOK
  BY DEF Typed
<1> QED
  BY <1>1, <1>2, PTL

-----------------------------------------------------------------------------
(* Row locks.                                                              *)

(* The locks that the statements from one to COMMIT rely on.               *)
LocksOK(q) ==
    /\ pc[q] \in {"quotaGate", "lockCluster", "commit"} =>
          Holds(locks, q, UserRow(call[q].user), "UPDATE")
    /\ pc[q] \in {"commit", "edit"} =>
          Holds(locks, q, ClusterLock(call[q].cluster), "UPDATE")
    /\ pc[q] \in {"lockHeld", "recheck", "release"} =>
          Holds(locks, q, UserRow(Target(q).user), "UPDATE")
    /\ pc[q] \in {"recheck", "release"} =>
          Holds(locks, q, ClusterLock(Target(q).cluster), "UPDATE")

LocksHeld == (\A q \in Requests : LocksOK(q)) /\ ~Clash(locks)

Step1(q) == Arrive(q) \/ Serve(q) \/ ConnectionLost(q) \/ DeadlockVictim(q)

LEMMA ModesExclude ==
    ASSUME NEW m \in LockMode, NEW n \in LockMode
    PROVE  /\ m \in Excluding[n] <=> n \in Excluding[m]
           /\ m \in Excluding["UPDATE"]
BY DEF LockMode, Excluding

(* What a lock statement does to the lock table, and what it saw there.    *)
LEMMA LockIsFree ==
    ASSUME ~Clash(locks), NEW q \in Requests, NEW row \in LockRow, NEW mode \in LockMode,
           TypeOK, Lock(q, row, mode)
    PROVE  /\ locks \subseteq locks'
           /\ Holds(locks', q, row, mode)
           /\ ~Clash(locks')
<1>1. locks' = locks \cup {[tx |-> q, row |-> row, mode |-> mode]}
  BY GrantTyped
<1>2. \A k \in locks : k.row = row /\ k.tx # q => k.mode \notin Excluding[mode]
  BY DEF Lock, Free, Blockers
<1>3. ~Clash(locks')
  <2> SUFFICES ASSUME NEW k \in locks', NEW l \in locks', k.row = l.row, k.tx # l.tx,
                      k.mode \in Excluding[l.mode]
               PROVE  FALSE
    BY DEF Clash
  <2>1. k.mode \in LockMode /\ l.mode \in LockMode
    BY <1>1 DEF TypeOK
  <2>2. CASE k \in locks /\ l \in locks
    BY <2>2 DEF Clash
  <2>3. CASE k \in locks /\ l \notin locks
    BY <1>1, <1>2, <2>3
  <2>4. CASE k \notin locks
    BY <1>1, <1>2, <2>1, <2>4, ModesExclude
  <2> QED
    BY <2>2, <2>3, <2>4
<1> QED
  BY <1>1, <1>3 DEF Holds

(* Requests do not touch each other's sessions.                            *)
LEMMA OthersUntouched ==
    ASSUME Typed, NEW q \in Requests, Step1(q), NEW p \in Requests, p # q
    PROVE  /\ pc'[p] = pc[p] /\ call'[p] = call[p]
           /\ seen'[p] = seen[p] /\ limitRead'[p] = limitRead[p] /\ reply'[p] = reply[p]
           /\ \A l : l.tx = p => (l \in locks' <=> l \in locks)
<1> USE DEF Typed, TypeOK, Goto, Lock, Grant, ReleaseAll, tables
<1>1. CASE Arrive(q)
  <2>1. PICK c \in Calls : \/ Reserve(q, c) \/ ReserveNotFound(q, c)
                           \/ Cancel(q, c)  \/ CancelNothingToDo(q, c)
                           \/ Update(q, c)
    BY <1>1 DEF Arrive
  <2>2. CASE Reserve(q, c) \/ ReserveNotFound(q, c) \/ Cancel(q, c) \/ Update(q, c)
    BY <2>2 DEF Reserve, ReserveNotFound, Cancel, Update
  <2>3. CASE CancelNothingToDo(q, c)
    <3>1. \E code, body : CancelAnswer(q, c, code, body)
      BY <2>3 DEF CancelNothingToDo
    <3> QED
      BY <3>1 DEF CancelAnswer
  <2> QED
    BY <2>1, <2>2, <2>3
<1>2. CASE \/ ClaimUser(q) \/ LockUser(q) \/ LockClusterAdmits(q)
           \/ LockOwner(q) \/ LockHeldCluster(q) \/ LockEditAdmits(q)
  <2>1. \E row, mode : locks' = locks \cup {[tx |-> q, row |-> row, mode |-> mode]}
    BY <1>2 DEF ClaimUser, LockUser, LockClusterAdmits, LockOwner, LockHeldCluster,
                LockEditAdmits
  <2>2. \A l : l.tx = p => (l \in locks' <=> l \in locks)
    BY <2>1
  <2> QED
    BY <1>2, <2>2 DEF ClaimUser, LockUser, LockClusterAdmits, LockOwner, LockHeldCluster,
                      LockEditAdmits
<1>3. CASE ClaimFresh(q) \/ QuotaAdmits(q) \/ RecheckHeld(q)
  BY <1>3 DEF ClaimFresh, QuotaAdmits, RecheckHeld
<1>4. CASE ReserveCommit(q) \/ CancelCommit(q)
  BY <1>4 DEF ReserveCommit, CancelCommit, Commit
<1>5. CASE UpdateCommit(q)
  BY <1>5 DEF UpdateCommit, Answer
<1>6. CASE \/ ClaimTaken(q) \/ QuotaRefuses(q) \/ LockClusterRefuses(q)
           \/ ReserveAnswer(q) \/ RecheckGone(q) \/ CancelReread(q)
           \/ LockEditRefuses(q) \/ ConnectionLost(q) \/ DeadlockVictim(q)
  <2>1. PICK code \in Code, body \in Body \cup {None} : Answer(q, code, body)
    BY <1>6, RefusalTyped
  <2> QED
    BY <2>1 DEF Answer
<1> QED
  BY <1>1, <1>2, <1>3, <1>4, <1>5, <1>6 DEF Step1, Serve

(* Only three statements of a request write the tables.                    *)
LEMMA OnlyCommitsWrite ==
    ASSUME Typed, NEW q \in Requests, Step1(q)
    PROVE  UNCHANGED tables \/ ReserveCommit(q) \/ CancelCommit(q) \/ UpdateCommit(q)
<1>1. CASE Arrive(q)
  BY <1>1 DEF Arrive, Reserve, ReserveNotFound, Cancel, CancelNothingToDo, CancelAnswer, Update
<1>2. CASE \/ ClaimUser(q) \/ LockUser(q) \/ LockClusterAdmits(q)
           \/ LockOwner(q) \/ LockHeldCluster(q) \/ LockEditAdmits(q)
  BY <1>2 DEF ClaimUser, LockUser, LockClusterAdmits, LockOwner, LockHeldCluster, LockEditAdmits
<1>3. CASE ClaimFresh(q) \/ QuotaAdmits(q) \/ RecheckHeld(q)
  BY <1>3 DEF ClaimFresh, QuotaAdmits, RecheckHeld
<1>4. CASE \/ ClaimTaken(q) \/ QuotaRefuses(q) \/ LockClusterRefuses(q)
           \/ ReserveAnswer(q) \/ RecheckGone(q) \/ CancelReread(q)
           \/ LockEditRefuses(q) \/ ConnectionLost(q) \/ DeadlockVictim(q)
  BY <1>4, RefusalTyped
<1> QED
  BY <1>1, <1>2, <1>3, <1>4 DEF Step1, Serve

(* What a release writes.                                                  *)
LEMMA Released ==
    ASSUME Typed, NEW q \in Requests, CancelCommit(q)
    PROVE  LET r == call[q].reservation IN
           /\ pc[q] = "release"
           /\ r \in Requests /\ reservations[r] \in ReservationRow
           /\ clusters[reservations[r].cluster] \in ClusterRow
           /\ seen[q] \in ClusterRow
           /\ reservations' = [reservations EXCEPT
                                 ![r] = [cluster |-> reservations[r].cluster,
                                         user |-> reservations[r].user,
                                         gpu_count |-> reservations[r].gpu_count,
                                         status |-> "CANCELLED"]]
           /\ clusters' = [clusters EXCEPT ![reservations[r].cluster].allocated =
                              seen[q].allocated - reservations[r].gpu_count]
<1> DEFINE row == reservations[call[q].reservation]
<1>1. /\ pc[q] = "release" /\ call[q].reservation \in Requests
      /\ row \in ReservationRow
      /\ clusters[row.cluster] \in ClusterRow /\ seen[q] \in ClusterRow
  BY DEF CancelCommit, Typed, TypeOK, SessionsOK, SessionOK, RowOK, CancelSteps, Named,
         Exists, CancelCall, ReservationRow
<1>2. /\ reservations' = [reservations EXCEPT
                            ![call[q].reservation] = [row EXCEPT !.status = "CANCELLED"]]
      /\ clusters' = [clusters EXCEPT ![row.cluster].allocated =
                         seen[q].allocated - row.gpu_count]
  BY DEF CancelCommit, Target
<1> HIDE DEF row
<1>3. [row EXCEPT !.status = "CANCELLED"]
        = [cluster |-> row.cluster, user |-> row.user,
           gpu_count |-> row.gpu_count, status |-> "CANCELLED"]
  BY <1>1 DEF ReservationRow
<1> QED
  BY <1>1, <1>2, <1>3 DEF row

(* A reservation row, once there, keeps every column but its status.       *)
LEMMA RowsStable ==
    ASSUME Typed, [Next]_vars, NEW r \in Requests, reservations[r] # None
    PROVE  /\ reservations'[r] # None
           /\ reservations'[r].cluster = reservations[r].cluster
           /\ reservations'[r].user = reservations[r].user
           /\ reservations'[r].gpu_count = reservations[r].gpu_count
<1> USE DEF Typed, TypeOK, tables
<1>1. ASSUME NEW q \in Requests, ReserveCommit(q) PROVE reservations'[r] = reservations[r]
  BY <1>1 DEF ReserveCommit, SessionsOK, SessionOK, BeforeCommit
<1>2. CASE \E q \in Requests : CancelCommit(q)
  <2>1. PICK q \in Requests : CancelCommit(q)
    BY <1>2
  <2> DEFINE t == call[q].reservation
  <2>2. /\ t \in Requests /\ reservations[t] \in ReservationRow
        /\ reservations' = [reservations EXCEPT
                              ![t] = [cluster |-> reservations[t].cluster,
                                      user |-> reservations[t].user,
                                      gpu_count |-> reservations[t].gpu_count,
                                      status |-> "CANCELLED"]]
    BY <2>1, Released
  <2> HIDE DEF t
  <2> QED
    BY <2>2, SentinelsApart DEF ReservationRow, ReservationStatus
<1>3. ASSUME NEW q \in Requests, UpdateCommit(q) PROVE UNCHANGED reservations
  BY <1>3 DEF UpdateCommit
<1>4. CASE Admin \/ UNCHANGED vars
  BY <1>4 DEF Admin, CreateCluster, PutQuota, vars
<1> QED
  BY <1>1, <1>2, <1>3, <1>4, OnlyCommitsWrite DEF Next, Step1

LEMMA FewerLocksNoClash ==
    ASSUME ~Clash(locks), locks' \subseteq locks PROVE ~Clash(locks')
BY DEF Clash

(* After a statement that takes a lock, q has the lock the next one needs. *)
LEMMA LockStepsHold ==
    ASSUME Typed, LocksHeld, NEW q \in Requests,
           \/ ClaimUser(q) \/ LockUser(q) \/ LockClusterAdmits(q)
           \/ LockOwner(q) \/ LockHeldCluster(q) \/ LockEditAdmits(q)
    PROVE  LocksOK(q)' /\ ~Clash(locks')
<1> USE DEF Typed, TypeOK, tables, Goto, LocksHeld
<1>1. "UPDATE" \in LockMode /\ "KEY SHARE" \in LockMode
  BY DEF LockMode
<1>2. pc[q] \in ReserveSteps => /\ UserRow(call[q].user) \in LockRow
                                /\ ClusterLock(call[q].cluster) \in LockRow
  BY RowsLocked DEF SessionsOK, SessionOK, ReserveCall
<1>3. pc[q] \in CancelSteps => /\ UserRow(Target(q).user) \in LockRow
                               /\ ClusterLock(Target(q).cluster) \in LockRow
  BY RowsLocked DEF SessionsOK, SessionOK, CancelCall, Named, Target, ReservationRow
<1>4. pc[q] \in UpdateSteps => ClusterLock(call[q].cluster) \in LockRow
  BY RowsLocked DEF SessionsOK, SessionOK, UpdateCall
<1> USE DEF LocksOK, Holds
<1>5. CASE ClaimUser(q)
  BY <1>1, <1>2, <1>5, LockIsFree DEF ClaimUser, ReserveSteps
<1>6. CASE LockUser(q)
  BY <1>1, <1>2, <1>6, LockIsFree DEF LockUser, ReserveSteps
<1>7. CASE LockClusterAdmits(q)
  BY <1>1, <1>2, <1>7, LockIsFree DEF LockClusterAdmits, ReserveSteps
<1>8. CASE LockOwner(q)
  <2>1. Lock(q, UserRow(Target(q).user), "UPDATE") /\ pc'[q] = "lockHeld"
        /\ Target(q)' = Target(q) /\ pc[q] \in CancelSteps
    BY <1>8 DEF LockOwner, CancelOrder, CancelSteps, Target
  <2> QED
    BY <1>1, <1>3, <2>1, LockIsFree
<1>9. CASE LockHeldCluster(q)
  <2>1. Lock(q, ClusterLock(Target(q).cluster), "UPDATE") /\ pc'[q] = "recheck"
        /\ Target(q)' = Target(q) /\ pc[q] \in CancelSteps /\ pc[q] = "lockHeld"
    BY <1>9 DEF LockHeldCluster, CancelOrder, CancelSteps, Target
  <2> QED
    BY <1>1, <1>3, <2>1, LockIsFree
<1>10. CASE LockEditAdmits(q)
  BY <1>1, <1>4, <1>10, LockIsFree DEF LockEditAdmits, UpdateSteps
<1> QED
  BY <1>5, <1>6, <1>7, <1>8, <1>9, <1>10

(* The other statements keep the locks they rely on or need none.          *)
LEMMA OtherStepsHold ==
    ASSUME Typed, LocksHeld, NEW q \in Requests, Step1(q),
           ~ (\/ ClaimUser(q) \/ LockUser(q) \/ LockClusterAdmits(q)
              \/ LockOwner(q) \/ LockHeldCluster(q) \/ LockEditAdmits(q))
    PROVE  LocksOK(q)' /\ locks' \subseteq locks
<1> USE DEF Typed, TypeOK, tables, Goto, LocksHeld, LocksOK
<1>1. CASE Arrive(q)
  <2>1. locks' = locks /\ pc'[q] \in {"lockUser", "claim", "done", "lockOwner", "lockEdit"}
    BY <1>1 DEF Arrive, Reserve, ReserveNotFound, Cancel, CancelNothingToDo, CancelAnswer,
                Update
  <2> QED
    BY <2>1
<1>2. CASE ClaimFresh(q)
  BY <1>2 DEF ClaimFresh
<1>3. CASE QuotaAdmits(q)
  BY <1>3 DEF QuotaAdmits
<1>4. CASE RecheckHeld(q)
  BY <1>4 DEF RecheckHeld, Target
<1>5. CASE ReserveCommit(q) \/ CancelCommit(q)
  BY <1>5 DEF ReserveCommit, CancelCommit, Commit, ReleaseAll
<1>6. CASE UpdateCommit(q)
  BY <1>6 DEF UpdateCommit, Answer, ReleaseAll
<1>7. CASE \/ ClaimTaken(q) \/ QuotaRefuses(q) \/ LockClusterRefuses(q)
           \/ ReserveAnswer(q) \/ RecheckGone(q) \/ CancelReread(q)
           \/ LockEditRefuses(q) \/ ConnectionLost(q) \/ DeadlockVictim(q)
  <2>1. PICK code \in Code, body \in Body \cup {None} : Answer(q, code, body)
    BY <1>7, RefusalTyped
  <2> QED
    BY <2>1 DEF Answer, ReleaseAll
<1> QED
  BY <1>1, <1>2, <1>3, <1>4, <1>5, <1>6, <1>7 DEF Step1, Serve

(* A request keeps the locks it relies on whatever the others do.          *)
LEMMA LocksKept ==
    ASSUME Typed, [Next]_vars, NEW p \in Requests, LocksOK(p),
           UNCHANGED <<pc[p], call[p]>>, \A l : l.tx = p => (l \in locks' <=> l \in locks)
    PROVE  LocksOK(p)'
<1>1. \A row, mode : Holds(locks, p, row, mode) => Holds(locks', p, row, mode)
  BY DEF Holds
<1>2. pc[p] \in CancelSteps => /\ Target(p)'.user = Target(p).user
                               /\ Target(p)'.cluster = Target(p).cluster
  BY RowsStable DEF Typed, SessionsOK, SessionOK, CancelCall, Named, Target
<1> QED
  BY <1>1, <1>2 DEF LocksOK, CancelSteps

LEMMA LocksHeldInductive == Typed /\ LocksHeld /\ [Next]_vars => LocksHeld'
<1> SUFFICES ASSUME Typed, LocksHeld, [Next]_vars PROVE LocksHeld'
  OBVIOUS
<1>1. ASSUME NEW q \in Requests, Step1(q) PROVE LocksHeld'
  <2>1. ASSUME NEW p \in Requests, p # q PROVE LocksOK(p)'
    BY <1>1, <2>1, OthersUntouched, LocksKept DEF LocksHeld
  <2>2. LocksOK(q)' /\ ~Clash(locks')
    BY <1>1, LockStepsHold, OtherStepsHold, FewerLocksNoClash DEF LocksHeld
  <2> QED
    BY <2>1, <2>2 DEF LocksHeld
<1>2. CASE Admin \/ UNCHANGED vars
  <2>1. UNCHANGED <<pc, call, locks>>
    BY <1>2 DEF Admin, CreateCluster, PutQuota, session, vars
  <2>2. ~Clash(locks')
    BY <2>1, FewerLocksNoClash DEF LocksHeld
  <2> QED
    BY <2>1, <2>2, LocksKept DEF LocksHeld
<1> QED
  BY <1>1, <1>2 DEF Next, Step1

-----------------------------------------------------------------------------
(* Rows decided on under a lock do not change before COMMIT.               *)

(* What request q decided on, and that the row it is about to release is   *)
(* still ACTIVE: its owner's row has been locked since the re-check.       *)
Decided(q) ==
    /\ pc[q] = "commit" => /\ clusters[call[q].cluster] = seen[q]
                           /\ seen[q].status = "AVAILABLE"
                           /\ CapacityFits(q, seen[q])
    /\ pc[q] \in {"recheck", "release"} => clusters[Target(q).cluster] = seen[q]
    /\ pc[q] = "edit" => /\ clusters[call[q].cluster] = seen[q]
                         /\ ~ShrinksBelow(q, seen[q])
    /\ pc[q] = "release" => Active(call[q].reservation)

AllDecided == \A q \in Requests : Decided(q)

LEMMA Exclusive ==
    ASSUME ~Clash(locks), NEW p, NEW q, p # q, NEW row,
           Holds(locks, p, row, "UPDATE"), Holds(locks, q, row, "UPDATE")
    PROVE  FALSE
BY ModesExclude DEF Clash, Holds, LockMode

(* Only the holder of a cluster row's lock writes it.                      *)
LEMMA ClusterStays ==
    ASSUME Typed, LocksHeld, NEW q \in Requests, Step1(q), NEW p \in Requests, p # q,
           NEW c \in Clusters, Holds(locks, p, ClusterLock(c), "UPDATE")
    PROVE  clusters'[c] = clusters[c]
<1> USE DEF LocksHeld, LocksOK
<1>1. CASE UNCHANGED tables
  BY <1>1 DEF tables
<1>2. CASE ReserveCommit(q)
  <2>1. call[q].cluster # c
    BY <1>2, Exclusive DEF ReserveCommit
  <2> QED
    BY <1>2, <2>1 DEF ReserveCommit, Typed, TypeOK
<1>3. CASE CancelCommit(q)
  <2>1. reservations[call[q].reservation].cluster # c
    BY <1>3, Exclusive DEF CancelCommit, Target
  <2>2. PICK d \in Clusters : \E row :
           d = reservations[call[q].reservation].cluster /\ clusters' = [clusters EXCEPT ![d] = row]
    <3>1. reservations[call[q].reservation].cluster \in Clusters
      BY <1>3, Released DEF ReservationRow
    <3> QED
      BY <1>3, <3>1, Released
  <2> QED
    BY <2>1, <2>2 DEF Typed, TypeOK
<1>4. CASE UpdateCommit(q)
  <2>1. call[q].cluster # c
    BY <1>4, Exclusive DEF UpdateCommit
  <2> QED
    BY <1>4, <2>1 DEF UpdateCommit, Typed, TypeOK
<1> QED
  BY <1>1, <1>2, <1>3, <1>4, OnlyCommitsWrite

(* Only the holder of the owner's lock ends a reservation.                 *)
LEMMA ActiveStays ==
    ASSUME Typed, LocksHeld, NEW q \in Requests, Step1(q), NEW p \in Requests, p # q,
           NEW r \in Requests, Active(r),
           Holds(locks, p, UserRow(reservations[r].user), "UPDATE")
    PROVE  Active(r)'
<1> USE DEF LocksHeld, LocksOK, Active
<1>1. CASE UNCHANGED tables \/ UpdateCommit(q)
  BY <1>1 DEF tables, UpdateCommit
<1>2. CASE ReserveCommit(q)
  BY <1>2 DEF ReserveCommit, Typed, TypeOK, SessionsOK, SessionOK, BeforeCommit
<1>3. CASE CancelCommit(q)
  <2>1. call[q].reservation # r
    BY <1>3, Exclusive DEF CancelCommit, Target
  <2>2. PICK row : reservations' = [reservations EXCEPT ![call[q].reservation] = row]
    BY <1>3, Released
  <2>3. reservations'[r] = reservations[r]
    BY <2>1, <2>2 DEF Typed, TypeOK
  <2> QED
    BY <2>3
<1> QED
  BY <1>1, <1>2, <1>3, OnlyCommitsWrite

LEMMA DecidedKept ==
    ASSUME Typed, LocksHeld, NEW q \in Requests, Step1(q), NEW p \in Requests, p # q,
           Decided(p)
    PROVE  Decided(p)'
<1>1. pc'[p] = pc[p] /\ call'[p] = call[p] /\ seen'[p] = seen[p] /\ [Next]_vars
  BY OthersUntouched DEF Next, Step1
<1>2. pc[p] \in {"commit", "edit"} => clusters'[call[p].cluster] = clusters[call[p].cluster]
  <2>1. pc[p] \in {"commit", "edit"} => call[p].cluster \in Clusters
    BY DEF Typed, SessionsOK, SessionOK, ReserveCall, UpdateCall, ReserveSteps, UpdateSteps
  <2> QED
    BY <2>1, ClusterStays DEF LocksHeld, LocksOK
<1>3. pc[p] \in {"recheck", "release"} =>
         /\ Target(p)'.cluster = Target(p).cluster
         /\ clusters'[Target(p).cluster] = clusters[Target(p).cluster]
  <2>1. pc[p] \in {"recheck", "release"} =>
           /\ call[p].reservation \in Requests
           /\ Target(p) # None /\ Target(p).cluster \in Clusters
    BY DEF Typed, TypeOK, SessionsOK, SessionOK, CancelSteps, CancelCall, Named, Target,
           ReservationRow
  <2>2. pc[p] \in {"recheck", "release"} => Target(p)'.cluster = Target(p).cluster
    BY <1>1, <2>1, RowsStable DEF Target
  <2> QED
    BY <2>1, <2>2, ClusterStays DEF LocksHeld, LocksOK
<1>4. pc[p] = "release" => Active(call[p].reservation)'
  <2>1. pc[p] = "release" => call[p].reservation \in Requests
    BY DEF Typed, SessionsOK, SessionOK, CancelSteps, CancelCall
  <2>2. pc[p] = "release" => Active(call[p].reservation)
    BY DEF Decided
  <2> QED
    BY <1>1, <2>1, <2>2, ActiveStays DEF LocksHeld, LocksOK, Target, Active
<1> QED
  BY <1>1, <1>2, <1>3, <1>4 DEF Decided, CapacityFits, ShrinksBelow

LEMMA DecidedStep ==
    ASSUME Typed, LocksHeld, NEW q \in Requests, Step1(q), Decided(q)
    PROVE  Decided(q)'
<1> USE DEF Typed, TypeOK, tables, Goto, Decided, CapacityFits, ShrinksBelow
<1>1. CASE LockClusterAdmits(q)
  BY <1>1 DEF LockClusterAdmits
<1>2. CASE LockHeldCluster(q)
  BY <1>2 DEF LockHeldCluster, Target
<1>3. CASE LockEditAdmits(q)
  BY <1>3 DEF LockEditAdmits
<1>4. CASE RecheckHeld(q)
  <2>1. reservations[call[q].reservation] # None
    BY <1>4 DEF RecheckHeld, SessionsOK, SessionOK, CancelSteps, Named
  <2> QED
    BY <1>4, <2>1 DEF RecheckHeld, StillHeld, Target, Active
<1>5. CASE \/ ClaimUser(q) \/ LockUser(q) \/ LockOwner(q) \/ ClaimFresh(q) \/ QuotaAdmits(q)
  BY <1>5 DEF ClaimUser, LockUser, LockOwner, ClaimFresh, QuotaAdmits
<1>6. CASE Arrive(q)
  BY <1>6 DEF Arrive, Reserve, ReserveNotFound, Cancel, CancelNothingToDo, CancelAnswer, Update
<1>7. CASE ReserveCommit(q) \/ CancelCommit(q) \/ UpdateCommit(q)
  BY <1>7 DEF ReserveCommit, CancelCommit, Commit, UpdateCommit, Answer
<1>8. CASE \/ ClaimTaken(q) \/ QuotaRefuses(q) \/ LockClusterRefuses(q)
           \/ ReserveAnswer(q) \/ RecheckGone(q) \/ CancelReread(q)
           \/ LockEditRefuses(q) \/ ConnectionLost(q) \/ DeadlockVictim(q)
  <2>1. PICK code \in Code, body \in Body \cup {None} : Answer(q, code, body)
    BY <1>8, RefusalTyped
  <2> QED
    BY <2>1 DEF Answer
<1> QED
  BY <1>1, <1>2, <1>3, <1>4, <1>5, <1>6, <1>7, <1>8 DEF Step1, Serve

LEMMA DecidedInductive == Typed /\ LocksHeld /\ AllDecided /\ [Next]_vars => AllDecided'
<1> SUFFICES ASSUME Typed, LocksHeld, AllDecided, [Next]_vars,
                    NEW p \in Requests
             PROVE  Decided(p)'
  BY DEF AllDecided
<1>1. ASSUME NEW q \in Requests, Step1(q) PROVE Decided(p)'
  BY <1>1, DecidedKept, DecidedStep DEF AllDecided
<1>2. ASSUME NEW c \in Clusters, NEW n \in Capacities, CreateCluster(c, n)
      PROVE  Decided(p)'
  <2>1. /\ UNCHANGED <<reservations, pc, call, seen>>
        /\ \A d \in Clusters : Exists(d) => clusters'[d] = clusters[d]
    BY <1>2 DEF CreateCluster, session, Exists, Typed, TypeOK
  <2>2. pc[p] \in {"commit", "edit"} =>
           call[p].cluster \in Clusters /\ Exists(call[p].cluster)
    BY DEF Typed, SessionsOK, SessionOK, ReserveCall, UpdateCall, ReserveSteps, UpdateSteps
  <2>3. pc[p] \in {"recheck", "release"} =>
           Target(p).cluster \in Clusters /\ Exists(Target(p).cluster)
    BY DEF Typed, TypeOK, SessionsOK, SessionOK, RowOK, CancelSteps, CancelCall, Named,
           Target, ReservationRow
  <2> QED
    BY <2>1, <2>2, <2>3
       DEF AllDecided, Decided, CapacityFits, ShrinksBelow, Target, Active
<1>3. CASE (\E role \in Role, limit \in Limits : PutQuota(role, limit)) \/ UNCHANGED vars
  <2>1. UNCHANGED <<clusters, reservations, pc, call, seen>>
    BY <1>3 DEF PutQuota, session, vars
  <2> QED
    BY <2>1 DEF AllDecided, Decided, CapacityFits, ShrinksBelow, Target, Active
<1> QED
  BY <1>1, <1>2, <1>3, RolesTyped DEF Next, Step1, Admin

-----------------------------------------------------------------------------
(* The counter and the rows it counts.                                     *)

(* The units of the rows with some column equal to some value, when one    *)
(* row is inserted, released or left alone.                                *)
LEMMA SetsFinite ==
    ASSUME TRUE
    PROVE  /\ \A c : IsFiniteSet(HeldOn(c)) /\ units_on(c) \in Nat
           /\ \A u : IsFiniteSet(HeldBy(u)) /\ held_gpu_units(u) \in Nat
<1>1. \A S : S \subseteq Requests => IsFiniteSet(S)
  BY RequestsFinite, FS_Subset
<1>2. (\A c : IsFiniteSet(HeldOn(c))) /\ (\A u : IsFiniteSet(HeldBy(u)))
  BY <1>1 DEF HeldOn, HeldBy
<1> QED
  BY <1>2, MaxUnitsIsNat, SumUnitsIsNat DEF units_on, held_gpu_units

LEMMA GrantedUnits ==
    ASSUME Typed, NEW q \in Requests, ReserveCommit(q)
    PROVE  /\ call[q].gpu_count \in Nat
           /\ \A c \in Clusters : units_on(c)' =
                 IF c = call[q].cluster THEN units_on(c) + call[q].gpu_count ELSE units_on(c)
           /\ \A u \in Users : held_gpu_units(u)' =
                 IF u = call[q].user THEN held_gpu_units(u) + call[q].gpu_count
                                     ELSE held_gpu_units(u)
<1> DEFINE n == call[q].gpu_count
<1>1. /\ reservations[q] = None /\ n \in 1..MaxUnits /\ n \in Nat
      /\ call[q].cluster \in Clusters /\ call[q].user \in Users
  BY MaxUnitsIsNat DEF Typed, SessionsOK, SessionOK, ReserveCommit, BeforeCommit,
                       ReserveSteps, ReserveCall
<1>2. /\ reservations'[q] = [cluster |-> call[q].cluster, user |-> call[q].user,
                             gpu_count |-> n, status |-> "ACTIVE"]
      /\ reservations'[q] \in ReservationRow
      /\ \A r \in Requests \ {q} : reservations'[r] = reservations[r]
  BY <1>1 DEF ReserveCommit, Typed, TypeOK, ReservationRow, ReservationStatus
<1>3. reservations'[q] # None /\ Active(q)' /\ ~Active(q)
  BY <1>1, <1>2, SentinelsApart DEF Active
<1>4. /\ \A c : q \notin HeldOn(c) /\ \A r \in HeldOn(c) : r \in Requests \ {q}
      /\ \A u : q \notin HeldBy(u) /\ \A r \in HeldBy(u) : r \in Requests \ {q}
  BY <1>3 DEF HeldOn, HeldBy
<1>5. ASSUME NEW c \in Clusters
      PROVE  units_on(c)' =
                IF c = call[q].cluster THEN units_on(c) + n ELSE units_on(c)
  <2>1. \A r \in HeldOn(c) : reservations'[r].gpu_count = reservations[r].gpu_count
    BY <1>2, <1>4
  <2>2. CASE c = call[q].cluster
    <3>1. HeldOn(c)' = HeldOn(c) \cup {q}
      BY <1>2, <1>3, <2>2 DEF HeldOn, Active
    <3>2. SumUnits(reservations', HeldOn(c) \cup {q}, MaxUnits)
            = SumUnits(reservations, HeldOn(c), MaxUnits) + reservations'[q].gpu_count
      BY <1>1, <1>2, <1>4, <2>1, MaxUnitsIsNat, SetsFinite, SumUnitsAdd
    <3> QED
      BY <1>2, <2>2, <3>1, <3>2 DEF units_on
  <2>3. CASE c # call[q].cluster
    <3>1. HeldOn(c)' = HeldOn(c)
      BY <1>2, <1>3, <2>3 DEF HeldOn, Active
    <3> QED
      BY <2>1, <2>3, <3>1, MaxUnitsIsNat, SumUnitsSame DEF units_on
  <2> QED
    BY <2>2, <2>3
<1>6. ASSUME NEW u \in Users
      PROVE  held_gpu_units(u)' =
                IF u = call[q].user THEN held_gpu_units(u) + n ELSE held_gpu_units(u)
  <2>1. \A r \in HeldBy(u) : reservations'[r].gpu_count = reservations[r].gpu_count
    BY <1>2, <1>4
  <2>2. CASE u = call[q].user
    <3>1. HeldBy(u)' = HeldBy(u) \cup {q}
      BY <1>2, <1>3, <2>2 DEF HeldBy, Active
    <3>2. SumUnits(reservations', HeldBy(u) \cup {q}, MaxUnits)
            = SumUnits(reservations, HeldBy(u), MaxUnits) + reservations'[q].gpu_count
      BY <1>1, <1>2, <1>4, <2>1, MaxUnitsIsNat, SetsFinite, SumUnitsAdd
    <3> QED
      BY <1>2, <2>2, <3>1, <3>2 DEF held_gpu_units
  <2>3. CASE u # call[q].user
    <3>1. HeldBy(u)' = HeldBy(u)
      BY <1>2, <1>3, <2>3 DEF HeldBy, Active
    <3> QED
      BY <2>1, <2>3, <3>1, MaxUnitsIsNat, SumUnitsSame DEF held_gpu_units
  <2> QED
    BY <2>2, <2>3
<1> QED
  BY <1>1, <1>5, <1>6

LEMMA ReleasedUnits ==
    ASSUME Typed, NEW q \in Requests, CancelCommit(q), Active(call[q].reservation)
    PROVE  /\ Target(q).gpu_count \in Nat
           /\ \A c \in Clusters : units_on(c)' =
                 IF c = Target(q).cluster THEN units_on(c) - Target(q).gpu_count
                                          ELSE units_on(c)
           /\ \A u \in Users : held_gpu_units(u)' =
                 IF u = Target(q).user THEN held_gpu_units(u) - Target(q).gpu_count
                                       ELSE held_gpu_units(u)
<1>1. PICK r \in Requests :
         /\ r = call[q].reservation
         /\ reservations[r] \in ReservationRow
         /\ reservations' = [reservations EXCEPT
                               ![r] = [cluster |-> reservations[r].cluster,
                                       user |-> reservations[r].user,
                                       gpu_count |-> reservations[r].gpu_count,
                                       status |-> "CANCELLED"]]
  BY Released
<1> DEFINE n == reservations[r].gpu_count
<1>2. n \in 1..MaxUnits /\ n \in Nat
  BY <1>1, MaxUnitsIsNat DEF ReservationRow
<1>3. /\ ~Active(r)' /\ Active(r)
      /\ \A x \in Requests \ {r} : reservations'[x] = reservations[x]
  BY <1>1 DEF Active, Typed, TypeOK
<1>4. ASSUME NEW c \in Clusters
      PROVE  units_on(c)' =
                IF c = reservations[r].cluster THEN units_on(c) - n ELSE units_on(c)
  <2>1. \A x \in HeldOn(c) \ {r} : reservations'[x].gpu_count = reservations[x].gpu_count
    BY <1>3 DEF HeldOn
  <2>2. CASE c = reservations[r].cluster
    <3>1. HeldOn(c)' = HeldOn(c) \ {r} /\ r \in HeldOn(c)
      BY <1>1, <1>3, <2>2 DEF HeldOn, Active
    <3>2. SumUnits(reservations', HeldOn(c) \ {r}, MaxUnits)
            = SumUnits(reservations, HeldOn(c), MaxUnits) - reservations[r].gpu_count
      BY <1>2, <2>1, <3>1, MaxUnitsIsNat, SetsFinite, SumUnitsRemove
    <3> QED
      BY <2>2, <3>1, <3>2 DEF units_on
  <2>3. CASE c # reservations[r].cluster
    <3>1. HeldOn(c)' = HeldOn(c) /\ r \notin HeldOn(c)
      BY <1>1, <1>3, <2>3 DEF HeldOn, Active
    <3> QED
      BY <2>1, <2>3, <3>1, MaxUnitsIsNat, SumUnitsSame DEF units_on
  <2> QED
    BY <2>2, <2>3
<1>5. ASSUME NEW u \in Users
      PROVE  held_gpu_units(u)' =
                IF u = reservations[r].user THEN held_gpu_units(u) - n ELSE held_gpu_units(u)
  <2>1. \A x \in HeldBy(u) \ {r} : reservations'[x].gpu_count = reservations[x].gpu_count
    BY <1>3 DEF HeldBy
  <2>2. CASE u = reservations[r].user
    <3>1. HeldBy(u)' = HeldBy(u) \ {r} /\ r \in HeldBy(u)
      BY <1>1, <1>3, <2>2 DEF HeldBy, Active
    <3>2. SumUnits(reservations', HeldBy(u) \ {r}, MaxUnits)
            = SumUnits(reservations, HeldBy(u), MaxUnits) - reservations[r].gpu_count
      BY <1>2, <2>1, <3>1, MaxUnitsIsNat, SetsFinite, SumUnitsRemove
    <3> QED
      BY <2>2, <3>1, <3>2 DEF held_gpu_units
  <2>3. CASE u # reservations[r].user
    <3>1. HeldBy(u)' = HeldBy(u) /\ r \notin HeldBy(u)
      BY <1>1, <1>3, <2>3 DEF HeldBy, Active
    <3> QED
      BY <2>1, <2>3, <3>1, MaxUnitsIsNat, SumUnitsSame DEF held_gpu_units
  <2> QED
    BY <2>2, <2>3
<1> QED
  BY <1>1, <1>2, <1>4, <1>5 DEF Target

(* Nothing is summed anew when no row changes.                             *)
LEMMA UnchangedUnits ==
    ASSUME UNCHANGED reservations
    PROVE  /\ \A c : units_on(c)' = units_on(c)
           /\ \A u : held_gpu_units(u)' = held_gpu_units(u)
BY DEF units_on, held_gpu_units, HeldOn, HeldBy, Active

Counted == CounterMatchesRows /\ NoOversell

LEMMA CountedInductive ==
    Typed /\ LocksHeld /\ AllDecided /\ Counted /\ [Next]_vars => Counted'
<1> SUFFICES ASSUME Typed, LocksHeld, AllDecided, Counted, [Next]_vars PROVE Counted'
  OBVIOUS
<1> USE DEF Counted, CounterMatchesRows, NoOversell
<1>1. ASSUME UNCHANGED <<clusters, reservations>> PROVE Counted'
  BY <1>1, UnchangedUnits DEF Exists
<1>2. ASSUME NEW q \in Requests, ReserveCommit(q) PROVE Counted'
  <2>1. /\ call[q].cluster \in Clusters /\ Exists(call[q].cluster)
        /\ clusters[call[q].cluster] \in ClusterRow
        /\ clusters[call[q].cluster] = seen[q] /\ CapacityFits(q, seen[q])
    BY <1>2 DEF ReserveCommit, Typed, TypeOK, SessionsOK, SessionOK, ReserveSteps, Exists,
                ReserveCall, AllDecided, Decided
  <2>2. clusters' = [clusters EXCEPT ![call[q].cluster].allocated =
                        seen[q].allocated + call[q].gpu_count]
    BY <1>2 DEF ReserveCommit
  <2> SUFFICES ASSUME NEW c \in Clusters, Exists(c)'
               PROVE  /\ (clusters[c].allocated = units_on(c))'
                      /\ (units_on(c) <= clusters[c].gpu_count)'
    OBVIOUS
  <2>3. CASE c = call[q].cluster
    <3>1. /\ clusters'[c].allocated = clusters[c].allocated + call[q].gpu_count
          /\ clusters'[c].gpu_count = clusters[c].gpu_count
      BY <2>1, <2>2, <2>3 DEF Typed, TypeOK, ClusterRow
    <3> QED
      BY <1>2, <2>1, <2>3, <3>1, GrantedUnits DEF CapacityFits
  <2>4. CASE c # call[q].cluster
    <3>1. clusters'[c] = clusters[c]
      BY <2>2, <2>4 DEF Typed, TypeOK
    <3> QED
      BY <1>2, <2>4, <3>1, GrantedUnits DEF Exists
  <2> QED
    BY <2>3, <2>4
<1>3. ASSUME NEW q \in Requests, CancelCommit(q) PROVE Counted'
  <2>1. /\ Target(q).cluster \in Clusters /\ clusters[Target(q).cluster] \in ClusterRow
        /\ clusters' = [clusters EXCEPT ![Target(q).cluster].allocated =
                           seen[q].allocated - Target(q).gpu_count]
    BY <1>3, Released DEF Target, ReservationRow
  <2>2. Exists(Target(q).cluster)
    BY <2>1, SentinelsApart DEF Exists
  <2>3. /\ Active(call[q].reservation) /\ clusters[Target(q).cluster] = seen[q]
    BY <1>3 DEF CancelCommit, AllDecided, Decided
  <2> SUFFICES ASSUME NEW c \in Clusters, Exists(c)'
               PROVE  /\ (clusters[c].allocated = units_on(c))'
                      /\ (units_on(c) <= clusters[c].gpu_count)'
    OBVIOUS
  <2>4. CASE c = Target(q).cluster
    <3>1. /\ clusters'[c].allocated = clusters[c].allocated - Target(q).gpu_count
          /\ clusters'[c].gpu_count = clusters[c].gpu_count
          /\ clusters[c].gpu_count \in Nat
      BY <2>1, <2>3, <2>4 DEF Typed, TypeOK, ClusterRow
    <3> QED
      BY <1>3, <2>2, <2>3, <2>4, <3>1, ReleasedUnits, SetsFinite
  <2>5. CASE c # Target(q).cluster
    <3>1. clusters'[c] = clusters[c]
      BY <2>1, <2>5 DEF Typed, TypeOK
    <3> QED
      BY <1>3, <2>3, <2>5, <3>1, ReleasedUnits DEF Exists
  <2> QED
    BY <2>4, <2>5
<1>4. ASSUME NEW q \in Requests, UpdateCommit(q) PROVE Counted'
  <2>1. /\ call[q].cluster \in Clusters /\ Exists(call[q].cluster)
        /\ clusters[call[q].cluster] \in ClusterRow /\ call[q] \in UpdateCall
        /\ clusters[call[q].cluster] = seen[q] /\ ~ShrinksBelow(q, seen[q])
    BY <1>4 DEF UpdateCommit, Typed, TypeOK, SessionsOK, SessionOK, UpdateSteps, Exists,
                UpdateCall, AllDecided, Decided
  <2>2. /\ clusters' = [clusters EXCEPT
              ![call[q].cluster].gpu_count = Given(call[q].gpu_count, @),
              ![call[q].cluster].status = Given(call[q].status, @)]
        /\ UNCHANGED reservations
    BY <1>4 DEF UpdateCommit
  <2> SUFFICES ASSUME NEW c \in Clusters, Exists(c)'
               PROVE  /\ (clusters[c].allocated = units_on(c))'
                      /\ (units_on(c) <= clusters[c].gpu_count)'
    OBVIOUS
  <2>3. CASE c = call[q].cluster
    <3>1. /\ clusters'[c].allocated = clusters[c].allocated
          /\ clusters'[c].gpu_count = Given(call[q].gpu_count, clusters[c].gpu_count)
      BY <2>1, <2>2, <2>3 DEF Typed, TypeOK, ClusterRow
    <3>2. /\ clusters[c].allocated = units_on(c) /\ units_on(c) <= clusters[c].gpu_count
          /\ units_on(c)' = units_on(c)
      BY <2>1, <2>2, <2>3, UnchangedUnits
    <3>3. call[q].gpu_count \in Nat \cup {None} /\ units_on(c) \in Nat
          /\ clusters[c].gpu_count \in Nat
      BY <2>1, <2>3, SetsFinite DEF UpdateCall, ClusterRow
    <3> QED
      BY <2>1, <2>3, <3>1, <3>2, <3>3 DEF ShrinksBelow, Given
  <2>4. CASE c # call[q].cluster
    <3>1. clusters'[c] = clusters[c]
      BY <2>2, <2>4 DEF Typed, TypeOK
    <3> QED
      BY <2>2, <2>4, <3>1, UnchangedUnits DEF Exists
  <2> QED
    BY <2>3, <2>4
<1>5. ASSUME NEW d \in Clusters, NEW n \in Capacities, CreateCluster(d, n) PROVE Counted'
  <2>1. /\ UNCHANGED reservations /\ ~Exists(d)
        /\ clusters' = [clusters EXCEPT
              ![d] = [gpu_count |-> n, allocated |-> 0, status |-> "AVAILABLE"]]
    BY <1>5 DEF CreateCluster
  <2>2. HeldOn(d) = {}
    BY <2>1 DEF HeldOn, Active, Typed, SessionsOK, RowOK
  <2>3. units_on(d) = 0
    <3>1. UnitPairs(reservations, {}, MaxUnits) = {}
      BY DEF UnitPairs
    <3> QED
      BY <2>2, <3>1, FS_EmptySet DEF units_on, SumUnits
  <2> SUFFICES ASSUME NEW c \in Clusters, Exists(c)'
               PROVE  /\ (clusters[c].allocated = units_on(c))'
                      /\ (units_on(c) <= clusters[c].gpu_count)'
    OBVIOUS
  <2>4. CASE c = d
    BY <2>1, <2>3, <2>4, UnchangedUnits, CapacitiesTyped DEF Typed, TypeOK
  <2>5. CASE c # d
    <3>1. clusters'[c] = clusters[c]
      BY <2>1, <2>5 DEF Typed, TypeOK
    <3> QED
      BY <2>1, <2>5, <3>1, UnchangedUnits DEF Exists
  <2> QED
    BY <2>4, <2>5
<1>6. CASE (\E role \in Role, limit \in Limits : PutQuota(role, limit)) \/ UNCHANGED vars
  BY <1>1, <1>6 DEF PutQuota, vars
<1>7. ASSUME NEW q \in Requests, Step1(q) PROVE Counted'
  BY <1>1, <1>2, <1>3, <1>4, <1>7, OnlyCommitsWrite DEF tables
<1> QED
  BY <1>5, <1>6, <1>7, RolesTyped DEF Next, Step1, Admin

(* The inductive invariant of the cluster rows.                            *)
CounterInv == Typed /\ LocksHeld /\ AllDecided /\ Counted

LEMMA CounterInvHolds == Spec => []CounterInv
<1>1. Init => CounterInv
  <2> SUFFICES ASSUME Init PROVE CounterInv
    OBVIOUS
  <2>1. Typed
    BY InitTyped
  <2>2. LocksHeld /\ AllDecided
    BY DEF Init, LocksHeld, LocksOK, Clash, AllDecided, Decided
  <2>3. \A c : HeldOn(c) = {}
    BY DEF Init, HeldOn, Active
  <2>4. \A c : units_on(c) = 0
    <3>1. UnitPairs(reservations, {}, MaxUnits) = {}
      BY DEF UnitPairs
    <3> QED
      BY <2>3, <3>1, FS_EmptySet DEF units_on, SumUnits
  <2>5. \A c \in Clusters : Exists(c) => clusters[c].allocated = 0 /\ 0 <= clusters[c].gpu_count
    BY SeededTyped DEF Init, Exists
  <2> QED
    BY <2>1, <2>2, <2>4, <2>5 DEF CounterInv, Counted, CounterMatchesRows, NoOversell
<1>2. CounterInv /\ [Next]_vars => CounterInv'
  BY NextTyped, LocksHeldInductive, DecidedInductive, CountedInductive DEF CounterInv
<1> QED
  BY <1>1, <1>2, PTL DEF Spec

(* gpu_clusters.allocated is always the sum of the ACTIVE rows, for any    *)
(* number of clients whose requests interleave, fail or are rolled back:   *)
(* the += and -= of reserve_gpu and cancel_gpu_reservation lose nothing.   *)
THEOREM CounterIsExact == Spec => []CounterMatchesRows
<1>1. CounterInv => CounterMatchesRows
  BY DEF CounterInv, Counted
<1> QED
  BY <1>1, CounterInvHolds, PTL

(* No cluster is ever sold beyond its gpu_count, while clients reserve and *)
(* release and admins resize it (reserve_gpu, update_cluster).             *)
THEOREM NeverOversold == Spec => []NoOversell
<1>1. CounterInv => NoOversell
  BY DEF CounterInv, Counted
<1> QED
  BY <1>1, CounterInvHolds, PTL

(* What a request read under its cluster lock is still the row at COMMIT.  *)
THEOREM DecisionsStayCurrent == Spec => []DecidedOnCurrentRow
<1>1. CounterInv => DecidedOnCurrentRow
  BY DEF CounterInv, AllDecided, Decided, DecidedOnCurrentRow
<1> QED
  BY <1>1, CounterInvHolds, PTL

-----------------------------------------------------------------------------
(* The quota gate.                                                         *)

QuotaInv == Typed /\ LocksHeld /\ AllDecided /\ QuotaSecured

LEMMA QuotaInductive == QuotaInv /\ [Next]_vars => QuotaSecured'
<1> SUFFICES ASSUME QuotaInv, [Next]_vars, NEW p \in Requests,
                    pc'[p] \in {"lockCluster", "commit"}
             PROVE  Within(limitRead[p], held_gpu_units(call[p].user) + call[p].gpu_count)'
  BY DEF QuotaSecured
<1> USE DEF QuotaInv
<1> DEFINE Gate == Within(limitRead[p], held_gpu_units(call[p].user) + call[p].gpu_count)
<1>1. ASSUME UNCHANGED <<reservations, pc[p], call[p], limitRead[p]>> PROVE Gate'
  BY <1>1, UnchangedUnits DEF QuotaSecured, Within
<1>2. ASSUME NEW q \in Requests, Step1(q), p # q PROVE Gate'
  <2>1. UNCHANGED <<pc[p], call[p], limitRead[p]>> /\ pc[p] \in {"lockCluster", "commit"}
    BY <1>2, OthersUntouched
  <2>2. /\ call[p].user \in Users
        /\ Holds(locks, p, UserRow(call[p].user), "UPDATE")
    BY <2>1 DEF Typed, SessionsOK, SessionOK, ReserveSteps, ReserveCall, LocksHeld, LocksOK
  <2>3. CASE ReserveCommit(q)
    <3>1. call[q].user # call[p].user
      BY <1>2, <2>2, <2>3, Exclusive DEF ReserveCommit, LocksHeld, LocksOK
    <3>2. held_gpu_units(call[p].user)' = held_gpu_units(call[p].user)
      BY <2>1, <2>2, <2>3, <3>1, GrantedUnits
    <3> QED
      BY <2>1, <3>2 DEF QuotaSecured, Within
  <2>4. CASE CancelCommit(q)
    <3>1. Target(q).user # call[p].user
      BY <1>2, <2>2, <2>4, Exclusive DEF CancelCommit, LocksHeld, LocksOK
    <3>2. Active(call[q].reservation)
      BY <2>4 DEF CancelCommit, AllDecided, Decided
    <3>3. held_gpu_units(call[p].user)' = held_gpu_units(call[p].user)
      BY <2>1, <2>2, <2>4, <3>1, <3>2, ReleasedUnits
    <3> QED
      BY <2>1, <3>3 DEF QuotaSecured, Within
  <2>5. CASE UNCHANGED tables \/ UpdateCommit(q)
    BY <1>1, <2>1, <2>5 DEF tables, UpdateCommit
  <2> QED
    BY <1>2, <2>3, <2>4, <2>5, OnlyCommitsWrite
<1>3. CASE Step1(p)
  <2>1. QuotaAdmits(p) \/ LockClusterAdmits(p)
    <3> USE DEF Typed, TypeOK, Goto
    <3>1. CASE Arrive(p)
      BY <3>1 DEF Arrive, Reserve, ReserveNotFound, Cancel, CancelNothingToDo, CancelAnswer,
                  Update
    <3>2. CASE \/ ClaimFresh(p) \/ ClaimUser(p) \/ LockUser(p) \/ LockOwner(p)
               \/ LockHeldCluster(p) \/ RecheckHeld(p) \/ LockEditAdmits(p)
      BY <3>2 DEF ClaimFresh, ClaimUser, LockUser, LockOwner, LockHeldCluster, RecheckHeld,
                  LockEditAdmits
    <3>3. CASE ReserveCommit(p) \/ CancelCommit(p) \/ UpdateCommit(p)
      BY <3>3 DEF ReserveCommit, CancelCommit, Commit, UpdateCommit, Answer
    <3>4. CASE \/ ClaimTaken(p) \/ QuotaRefuses(p) \/ LockClusterRefuses(p)
               \/ ReserveAnswer(p) \/ RecheckGone(p) \/ CancelReread(p)
               \/ LockEditRefuses(p) \/ ConnectionLost(p) \/ DeadlockVictim(p)
      <4>1. PICK code \in Code, body \in Body \cup {None} : Answer(p, code, body)
        BY <3>4, RefusalTyped
      <4> QED
        BY <4>1 DEF Answer
    <3> QED
      BY <1>3, <3>1, <3>2, <3>3, <3>4 DEF Step1, Serve
  <2>2. CASE QuotaAdmits(p)
    <3>1. /\ UNCHANGED <<reservations, call>>
          /\ limitRead'[p] = quotas[RoleOf[call[p].user]]
          /\ Within(quotas[RoleOf[call[p].user]],
                    held_gpu_units(call[p].user) + call[p].gpu_count)
      BY <2>2 DEF QuotaAdmits, Typed, TypeOK, tables
    <3> QED
      BY <3>1, UnchangedUnits DEF Within
  <2>3. CASE LockClusterAdmits(p)
    <3>1. UNCHANGED <<reservations, call, limitRead>> /\ pc[p] = "lockCluster"
      BY <2>3 DEF LockClusterAdmits, tables
    <3> QED
      BY <3>1, UnchangedUnits DEF QuotaSecured, Within
  <2> QED
    BY <2>1, <2>2, <2>3
<1>4. CASE Admin \/ UNCHANGED vars
  BY <1>1, <1>4 DEF Admin, CreateCluster, PutQuota, session, vars
<1> QED
  BY <1>2, <1>3, <1>4 DEF Next, Step1

(* From the quota gate to COMMIT nobody moves what the gate counted: two   *)
(* requests of one user never both pass it on the same units.              *)
THEOREM QuotaGateHolds == Spec => []QuotaSecured
<1>1. Init => QuotaInv
  BY InitTyped
     DEF Init, QuotaInv, QuotaSecured, LocksHeld, LocksOK, Clash, AllDecided, Decided
<1>2. QuotaInv /\ [Next]_vars => QuotaInv'
  BY NextTyped, LocksHeldInductive, DecidedInductive, QuotaInductive DEF QuotaInv
<1>3. QuotaInv => QuotaSecured
  BY DEF QuotaInv
<1> QED
  BY <1>1, <1>2, <1>3, PTL DEF Spec
=============================================================================
