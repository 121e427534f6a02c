-------------------------- MODULE GpuReservations --------------------------
(***************************************************************************)
(* The GPU half of the campus resource system: app/gpus, with the          *)
(* idempotency keys and the quota gate its flagship transaction calls.     *)
(*                                                                         *)
(* A process is one HTTP request, served by one worker thread with one     *)
(* database session and so one PostgreSQL transaction at a time.  A step   *)
(* is one SQL statement of that transaction (or its COMMIT); whatever the  *)
(* session has not committed is not in the four tables below, it is in the *)
(* request's own variables.  A request that needs a locked row waits: its  *)
(* step is not enabled.  Row names stand for ids: the reservation row that *)
(* request q inserts is row q.                                             *)
(***************************************************************************)
EXTENDS UnitSums, RowLocks

CONSTANTS
    Users, Clusters, Keys,
    Requests,       \* the HTTP requests served, each once
    Calls,          \* what a client may ask for: records of Call below
    RoleOf,         \* role of each user; no endpoint changes it
    Seeded,         \* gpu_count of each cluster there is at the start
    Capacities,     \* gpu_count values an admin may create a cluster with
    Limits,         \* max_units values an admin may PUT
    InitialQuotas,  \* the GPU policies (limit of each role) to start with
    MaxUnits,       \* the largest gpu_count a request asks for
    None,           \* no row, no key, no field, no value
    Unlimited       \* max_units IS NULL

Role == {"STUDENT", "FACULTY", "ADMIN"}
ResourceStatus == {"AVAILABLE", "BLOCKED"}
ReservationStatus == {"ACTIVE", "CANCELLED"}

ReserveCall == [op : {"reserve"}, user : Users, cluster : Clusters,
                gpu_count : 1..MaxUnits, key : Keys \cup {None}]
CancelCall == [op : {"cancel"}, user : Users, cluster : Clusters,
               reservation : Requests]
UpdateCall == [op : {"update"}, cluster : Clusters,
               gpu_count : Nat \cup {None}, status : ResourceStatus \cup {None}]
Call == ReserveCall \cup CancelCall \cup UpdateCall

ASSUME MaxUnitsIsNat == MaxUnits \in Nat
ASSUME RequestsFinite == IsFiniteSet(Requests)
ASSUME CallsTyped == Calls \subseteq Call
ASSUME RolesTyped == RoleOf \in [Users -> Role]
ASSUME SeededTyped == /\ DOMAIN Seeded \subseteq Clusters
                      /\ \A c \in DOMAIN Seeded : Seeded[c] \in Nat
ASSUME CapacitiesTyped == Capacities \subseteq Nat
ASSUME LimitsTyped == /\ Limits \subseteq Nat \cup {Unlimited}
                      /\ InitialQuotas \subseteq [Role -> Nat \cup {Unlimited, None}]
VARIABLES
    clusters,       \* table resources JOIN gpu_clusters
    reservations,   \* table gpu_reservations
    keys,           \* table idempotency_keys, by (key, user)
    quotas,         \* table role_quotas, its GPU rows, by role
    locks,          \* the row locks held (RowLocks)
    pc,             \* the statement each request executes next
    call,           \* what each request asks for
    seen,           \* the cluster row a request read under its lock
    limitRead,      \* the limit the quota gate of a request read
    reply           \* the response of each request, None before it

tables == <<clusters, reservations, keys, quotas>>
session == <<locks, pc, call, seen, limitRead, reply>>
vars == <<clusters, reservations, keys, quotas,
          locks, pc, call, seen, limitRead, reply>>

-----------------------------------------------------------------------------
(* Types.                                                                  *)

ClusterRow == [gpu_count : Nat, allocated : Int, status : ResourceStatus]
ReservationRow == [cluster : Clusters, user : Users, gpu_count : 1..MaxUnits,
                   status : ReservationStatus]
Body == [id : Requests, status : ReservationStatus]
KeyRow == [request_hash : Clusters \X (1..MaxUnits), response_body : Body \cup {None}]

UserRow(u) == <<"users", u>>
ClusterLock(c) == <<"gpu_clusters", c>>
LockRow == ({"users"} \X Users) \cup ({"gpu_clusters"} \X Clusters)

ReserveSteps == {"claim", "claimUser", "lockUser", "quotaGate", "lockCluster",
                 "commit", "refresh"}
CancelSteps == {"lockOwner", "lockHeld", "recheck", "release", "reread"}
UpdateSteps == {"lockEdit", "edit"}
Step == {"idle", "done"} \cup ReserveSteps \cup CancelSteps \cup UpdateSteps

Code == {"CREATED", "REPLAYED", "OK", "NOT_FOUND", "FORBIDDEN",
         "IDEMPOTENCY_KEY_REUSED", "IDEMPOTENCY_IN_PROGRESS",
         "QUOTA_NOT_CONFIGURED", "QUOTA_EXCEEDED", "RESOURCE_BLOCKED",
         "CAPACITY_EXHAUSTED", "CAPACITY_BELOW_ALLOCATED", "ERROR"}
Reply == [code : Code, body : Body \cup {None}]

ASSUME SentinelsApart ==
    /\ None # Unlimited /\ None \notin Nat /\ Unlimited \notin Nat
    /\ None \notin Keys /\ None \notin ResourceStatus
    /\ None \notin ClusterRow \cup ReservationRow \cup KeyRow \cup Body
    /\ None \notin Call \cup Reply

-----------------------------------------------------------------------------
(* What the statements compute.                                            *)

Exists(c) == clusters[c] # None
Active(r) == reservations[r] # None /\ reservations[r].status = "ACTIVE"

HeldBy(u) == { r \in Requests : Active(r) /\ reservations[r].user = u }
HeldOn(c) == { r \in Requests : Active(r) /\ reservations[r].cluster = c }

held_gpu_units(u) == SumUnits(reservations, HeldBy(u), MaxUnits)
units_on(c) == SumUnits(reservations, HeldOn(c), MaxUnits)

Within(limit, n) == limit = Unlimited \/ (limit \in Nat /\ n <= limit)

(* Mutant: Only the path in the fingerprint, not the body. *)
FingerprintOfPath(q) == <<call[q].cluster, 1>>

(* The canonical JSON of {gpu_id, gpu_count}: equal only for equal pairs.  *)
request_fingerprint(q) == <<call[q].cluster, call[q].gpu_count>>

(* The row of gpu_reservations as GPUReservationRead shows it; the other   *)
(* columns never change once it is inserted.                               *)
Rendered(r) == [id |-> r, status |-> reservations[r].status]

Slot(q) == <<call[q].key, call[q].user>>

(* The key rows inserted and not yet committed: (key, user) is in the      *)
(* unique index from the INSERT on, before its foreign key is checked.     *)
Claiming(q) == /\ pc[q] \in {"claimUser", "lockUser", "quotaGate", "lockCluster", "commit"}
               /\ call[q].key # None
(* Mutant: A SELECT for the key before the INSERT, instead of the unique index. *)
SlotHoldersUnseen(q) == {}

SlotHolders(q) == { p \in Requests \ {q} : Claiming(p) /\ Slot(p) = Slot(q) }

-----------------------------------------------------------------------------
(* How a request moves on.                                                 *)

Goto(q, step) == pc' = [pc EXCEPT ![q] = step]

(* Mutant: The session is not closed when the handler raises. *)
AnswerKeepsLocks(q, code, body) ==
    /\ reply' = [reply EXCEPT ![q] = [code |-> code, body |-> body]]
    /\ seen' = [seen EXCEPT ![q] = None]
    /\ limitRead' = [limitRead EXCEPT ![q] = None]
    /\ Goto(q, "done")
    /\ UNCHANGED <<call, locks>>

(* The session is closed: what was not committed is rolled back, every     *)
(* lock is gone, and the client has its answer.                            *)
Answer(q, code, body) ==
    /\ reply' = [reply EXCEPT ![q] = [code |-> code, body |-> body]]
    /\ locks' = ReleaseAll(locks, q)
    /\ seen' = [seen EXCEPT ![q] = None]
    /\ limitRead' = [limitRead EXCEPT ![q] = None]
    /\ Goto(q, "done")
    /\ UNCHANGED call

Refuse(q, code) == Answer(q, code, None) /\ UNCHANGED tables

(* SELECT ... FOR <mode>: waits, then reads the newest committed row.      *)
Lock(q, row, mode) ==
    /\ Free(locks, q, row, mode)
    /\ locks' = Grant(locks, q, row, mode)

(* COMMIT: the writes are in the tables, the locks are gone.               *)
Commit(q, next) ==
    /\ locks' = ReleaseAll(locks, q)
    /\ Goto(q, next)
    /\ UNCHANGED <<call, seen, limitRead, reply>>

-----------------------------------------------------------------------------
(* POST /gpus/{id}/reservations : reserve_gpu, claim, enforce_gpu_quota.   *)

Reserve(q, c) ==
    /\ pc[q] = "idle" /\ c.op = "reserve"
    /\ Exists(c.cluster)
    /\ call' = [call EXCEPT ![q] = c]
    /\ Goto(q, IF c.key = None THEN "lockUser" ELSE "claim")
    /\ UNCHANGED <<tables, locks, seen, limitRead, reply>>

ReserveNotFound(q, c) ==
    /\ pc[q] = "idle" /\ c.op = "reserve"
    /\ ~Exists(c.cluster)
    /\ call' = [call EXCEPT ![q] = c]
    /\ reply' = [reply EXCEPT ![q] = [code |-> "NOT_FOUND", body |-> None]]
    /\ Goto(q, "done")
    /\ UNCHANGED <<tables, locks, seen, limitRead>>

(* The INSERT waits for an uncommitted row in the same slot of the unique  *)
(* index; a committed one is a violation, answered from the stored row.    *)
ClaimFresh(q) ==
    /\ pc[q] = "claim"
    /\ SlotHolders(q) = {}
    /\ keys[Slot(q)] = None
    /\ Goto(q, "claimUser")
    /\ UNCHANGED <<tables, locks, call, seen, limitRead, reply>>

ClaimTaken(q) ==
    /\ pc[q] = "claim"
    /\ SlotHolders(q) = {}
    /\ keys[Slot(q)] # None
    /\ LET existing == keys[Slot(q)] IN
       CASE existing.request_hash # request_fingerprint(q) ->
                Answer(q, "IDEMPOTENCY_KEY_REUSED", None)
         [] /\ existing.request_hash = request_fingerprint(q)
            /\ existing.response_body = None ->
                Answer(q, "IDEMPOTENCY_IN_PROGRESS", None)
         [] OTHER -> Answer(q, "REPLAYED", existing.response_body)
    /\ UNCHANGED tables

(* The foreign key of idempotency_keys.user_id: the INSERT ends by taking  *)
(* the user row FOR KEY SHARE, and keeps it.                               *)
ClaimUser(q) ==
    /\ pc[q] = "claimUser"
    /\ Lock(q, UserRow(call[q].user), "KEY SHARE")
    /\ Goto(q, "lockUser")
    /\ UNCHANGED <<tables, call, seen, limitRead, reply>>

(* Mutant: BENCHMARK_UNSAFE_NO_USER_LOCK. *)
LockUserSkipped(q) ==
    /\ pc[q] = "lockUser"
    /\ Goto(q, "quotaGate")
    /\ UNCHANGED <<tables, locks, call, seen, limitRead, reply>>

LockUser(q) ==
    /\ pc[q] = "lockUser"
    /\ Lock(q, UserRow(call[q].user), "UPDATE")
    /\ Goto(q, "quotaGate")
    /\ UNCHANGED <<tables, call, seen, limitRead, reply>>

QuotaAdmits(q) ==
    /\ pc[q] = "quotaGate"
    /\ LET limit == quotas[RoleOf[call[q].user]] IN
       /\ limit # None
       /\ Within(limit, held_gpu_units(call[q].user) + call[q].gpu_count)
       /\ limitRead' = [limitRead EXCEPT ![q] = limit]
    /\ Goto(q, "lockCluster")
    /\ UNCHANGED <<tables, locks, call, seen, reply>>

QuotaRefuses(q) ==
    /\ pc[q] = "quotaGate"
    /\ LET limit == quotas[RoleOf[call[q].user]] IN
       \/ limit = None /\ Refuse(q, "QUOTA_NOT_CONFIGURED")
       \/ /\ limit # None
          /\ ~Within(limit, held_gpu_units(call[q].user) + call[q].gpu_count)
          /\ Refuse(q, "QUOTA_EXCEEDED")

(* Mutant: Room is checked before the request's own units are counted. *)
CapacityFitsWithoutRequest(q, row) == row.allocated < row.gpu_count

(* The lock and the read are one statement; the two gates after it are     *)
(* decided in memory on the row it returned.                               *)
CapacityFits(q, row) == row.allocated + call[q].gpu_count <= row.gpu_count

LockClusterAdmits(q) ==
    /\ pc[q] = "lockCluster"
    /\ LET c == call[q].cluster IN
       /\ Lock(q, ClusterLock(c), "UPDATE")
       /\ clusters[c].status = "AVAILABLE"
       /\ CapacityFits(q, clusters[c])
       /\ seen' = [seen EXCEPT ![q] = clusters[c]]
    /\ Goto(q, "commit")
    /\ UNCHANGED <<tables, call, limitRead, reply>>

LockClusterRefuses(q) ==
    /\ pc[q] = "lockCluster"
    /\ LET c == call[q].cluster IN
       /\ Free(locks, q, ClusterLock(c), "UPDATE")
       /\ \/ clusters[c].status = "BLOCKED" /\ Refuse(q, "RESOURCE_BLOCKED")
          \/ /\ clusters[c].status = "AVAILABLE"
             /\ ~CapacityFits(q, clusters[c])
             /\ Refuse(q, "CAPACITY_EXHAUSTED")

(* Mutant: record_response forgotten: the key commits without its response. *)
KeyRowUnanswered(q) ==
    [request_hash |-> request_fingerprint(q), response_body |-> None]

(* The flush writes the counter the session computed from the row it read, *)
(* inserts the reservation and fills in the key row's response; COMMIT     *)
(* makes the three durable together.                                       *)
KeyRowOf(q) == [request_hash |-> request_fingerprint(q),
                response_body |-> [id |-> q, status |-> "ACTIVE"]]

ReserveCommit(q) ==
    /\ pc[q] = "commit"
    /\ clusters' = [clusters EXCEPT
          ![call[q].cluster].allocated = seen[q].allocated + call[q].gpu_count]
    /\ reservations' = [reservations EXCEPT
          ![q] = [cluster |-> call[q].cluster, user |-> call[q].user,
                  gpu_count |-> call[q].gpu_count, status |-> "ACTIVE"]]
    /\ keys' = IF call[q].key = None THEN keys
                                     ELSE [keys EXCEPT ![Slot(q)] = KeyRowOf(q)]
    /\ UNCHANGED quotas
    /\ Commit(q, "refresh")

(* db.refresh() after COMMIT is a new transaction that locks nothing.      *)
ReserveAnswer(q) ==
    /\ pc[q] = "refresh"
    /\ Answer(q, "CREATED", Rendered(q))
    /\ UNCHANGED tables

-----------------------------------------------------------------------------
(* DELETE /gpus/{id}/reservations/{rid} : cancel_gpu_reservation.          *)

(* Mutant: Anyone who knows the id may release. *)
MayCancelAnyone(c) == TRUE

MayCancel(c) == \/ reservations[c.reservation].user = c.user
                \/ RoleOf[c.user] = "ADMIN"

Named(c) == /\ reservations[c.reservation] # None
            /\ reservations[c.reservation].cluster = c.cluster

(* The unlocked db.get() that finds the row, its owner and its status.     *)
Cancel(q, c) ==
    /\ pc[q] = "idle" /\ c.op = "cancel"
    /\ Named(c) /\ MayCancel(c) /\ Active(c.reservation)
    /\ call' = [call EXCEPT ![q] = c]
    /\ Goto(q, "lockOwner")
    /\ UNCHANGED <<tables, locks, seen, limitRead, reply>>

CancelAnswer(q, c, code, body) ==
    /\ call' = [call EXCEPT ![q] = c]
    /\ reply' = [reply EXCEPT ![q] = [code |-> code, body |-> body]]
    /\ Goto(q, "done")
    /\ UNCHANGED <<tables, locks, seen, limitRead>>

CancelNothingToDo(q, c) ==
    /\ pc[q] = "idle" /\ c.op = "cancel"
    /\ \/ ~Named(c) /\ CancelAnswer(q, c, "NOT_FOUND", None)
       \/ Named(c) /\ ~MayCancel(c) /\ CancelAnswer(q, c, "FORBIDDEN", None)
       \/ /\ Named(c) /\ MayCancel(c) /\ ~Active(c.reservation)
          /\ CancelAnswer(q, c, "OK", Rendered(c.reservation))

Target(q) == reservations[call[q].reservation]

(* Mutant: cancel takes the cluster row before the owner's. *)
CancelOrderReversed(q) ==
    <<ClusterLock(Target(q).cluster), UserRow(Target(q).user)>>

(* The owner's row first, whoever is calling; then the cluster's.          *)
CancelOrder(q) == <<UserRow(Target(q).user), ClusterLock(Target(q).cluster)>>

LockOwner(q) ==
    /\ pc[q] = "lockOwner"
    /\ Lock(q, CancelOrder(q)[1], "UPDATE")
    /\ Goto(q, "lockHeld")
    /\ UNCHANGED <<tables, call, seen, limitRead, reply>>

LockHeldCluster(q) ==
    /\ pc[q] = "lockHeld"
    /\ Lock(q, CancelOrder(q)[2], "UPDATE")
    /\ seen' = [seen EXCEPT ![q] = clusters[Target(q).cluster]]
    /\ Goto(q, "recheck")
    /\ UNCHANGED <<tables, call, limitRead, reply>>

(* Mutant: No refresh after the locks: the status read before them still counts. *)
StillHeldUnchecked(q) == TRUE

(* db.refresh(reservation): a second cancel may have won meanwhile.        *)
StillHeld(q) == Target(q).status = "ACTIVE"

RecheckHeld(q) ==
    /\ pc[q] = "recheck"
    /\ StillHeld(q)
    /\ Goto(q, "release")
    /\ UNCHANGED <<tables, locks, call, seen, limitRead, reply>>

RecheckGone(q) ==
    /\ pc[q] = "recheck"
    /\ ~StillHeld(q)
    /\ Answer(q, "OK", Rendered(call[q].reservation))
    /\ UNCHANGED tables

CancelCommit(q) ==
    /\ pc[q] = "release"
    /\ reservations' = [reservations EXCEPT ![call[q].reservation].status = "CANCELLED"]
    /\ clusters' = [clusters EXCEPT
          ![Target(q).cluster].allocated = seen[q].allocated - Target(q).gpu_count]
    /\ UNCHANGED <<keys, quotas>>
    /\ Commit(q, "reread")

CancelReread(q) ==
    /\ pc[q] = "reread"
    /\ Answer(q, "OK", Rendered(call[q].reservation))
    /\ UNCHANGED tables

-----------------------------------------------------------------------------
(* PATCH /gpus/{id} : update_cluster.  POST /gpus : create_cluster.        *)

Update(q, c) ==
    /\ pc[q] = "idle" /\ c.op = "update"
    /\ call' = [call EXCEPT ![q] = c]
    /\ Goto(q, "lockEdit")
    /\ UNCHANGED <<tables, locks, seen, limitRead, reply>>

(* Mutant: PATCH no longer refuses to shrink below what is held. *)
ShrinksBelowIgnored(q, row) == FALSE

ShrinksBelow(q, row) == call[q].gpu_count # None /\ call[q].gpu_count < row.allocated

(* Mutant: PATCH reads the cluster without FOR UPDATE. *)
LockEditPlainRead(q) ==
    /\ pc[q] = "lockEdit"
    /\ Exists(call[q].cluster)
    /\ ~ShrinksBelow(q, clusters[call[q].cluster])
    /\ seen' = [seen EXCEPT ![q] = clusters[call[q].cluster]]
    /\ Goto(q, "edit")
    /\ UNCHANGED <<tables, locks, call, limitRead, reply>>

LockEditAdmits(q) ==
    /\ pc[q] = "lockEdit"
    /\ LET c == call[q].cluster IN
       /\ Exists(c)
       /\ Lock(q, ClusterLock(c), "UPDATE")
       /\ ~ShrinksBelow(q, clusters[c])
       /\ seen' = [seen EXCEPT ![q] = clusters[c]]
    /\ Goto(q, "edit")
    /\ UNCHANGED <<tables, call, limitRead, reply>>

LockEditRefuses(q) ==
    /\ pc[q] = "lockEdit"
    /\ LET c == call[q].cluster IN
       \/ ~Exists(c) /\ Refuse(q, "NOT_FOUND")
       \/ /\ Exists(c)
          /\ Free(locks, q, ClusterLock(c), "UPDATE")
          /\ ShrinksBelow(q, clusters[c])
          /\ Refuse(q, "CAPACITY_BELOW_ALLOCATED")

(* Mutant: No exclude_unset: an omitted field is written as NULL. *)
GivenOrNull(new, old) == new

(* exclude_unset: only the fields the client sent are written.             *)
Given(new, old) == IF new = None THEN old ELSE new

(* The refresh that follows only reads the row the answer shows.           *)
UpdateCommit(q) ==
    /\ pc[q] = "edit"
    /\ clusters' = [clusters EXCEPT
          ![call[q].cluster].gpu_count = Given(call[q].gpu_count, @),
          ![call[q].cluster].status = Given(call[q].status, @)]
    /\ UNCHANGED <<reservations, keys, quotas>>
    /\ Answer(q, "OK", None)

(* One INSERT and its COMMIT, on a row nobody else can see before.         *)
CreateCluster(c, n) ==
    /\ ~Exists(c)
    /\ clusters' = [clusters EXCEPT
          ![c] = [gpu_count |-> n, allocated |-> 0, status |-> "AVAILABLE"]]
    /\ UNCHANGED <<reservations, keys, quotas, session>>

-----------------------------------------------------------------------------
(* PUT /admin/quotas/{role}/GPU, as its COMMIT shows it to the gates here. *)
(* A policy row is never deleted, so only its value can differ from before.*)
PutQuota(role, limit) ==
    /\ quotas[role] # limit
    /\ quotas' = [quotas EXCEPT ![role] = limit]
    /\ UNCHANGED <<clusters, reservations, keys, session>>

-----------------------------------------------------------------------------
(* The environment: the database connection goes, or the lock manager      *)
(* finds a cycle and aborts one of its transactions.  Neither error is     *)
(* caught, so the client gets a 500; what was committed stays committed.   *)

InFlight(q) == pc[q] \notin {"idle", "done"}

ConnectionLost(q) == InFlight(q) /\ Refuse(q, "ERROR")

(* Whom the next statement of q waits for.                                 *)
WaitsFor(q) ==
    CASE pc[q] = "claim"       -> SlotHolders(q)
      [] pc[q] = "claimUser"   -> Blockers(locks, q, UserRow(call[q].user), "KEY SHARE")
      [] pc[q] = "lockUser"    -> Blockers(locks, q, UserRow(call[q].user), "UPDATE")
      [] pc[q] = "lockOwner"   -> Blockers(locks, q, CancelOrder(q)[1], "UPDATE")
      [] pc[q] = "lockHeld"    -> Blockers(locks, q, CancelOrder(q)[2], "UPDATE")
      [] pc[q] \in {"lockCluster", "lockEdit"} ->
                                  Blockers(locks, q, ClusterLock(call[q].cluster), "UPDATE")
      [] OTHER                 -> {}

waits == [q \in Requests |-> WaitsFor(q)]

DeadlockVictim(q) ==
    /\ InFlight(q)
    /\ \E S \in SUBSET Requests : q \in S /\ Cycle(waits, S)
    /\ Refuse(q, "ERROR")

-----------------------------------------------------------------------------
Init ==
    /\ clusters = [c \in Clusters |->
          IF c \in DOMAIN Seeded
          THEN [gpu_count |-> Seeded[c], allocated |-> 0, status |-> "AVAILABLE"]
          ELSE None]
    /\ reservations = [r \in Requests |-> None]
    /\ keys = [s \in Keys \X Users |-> None]
    /\ quotas \in InitialQuotas
    /\ locks = {}
    /\ pc = [q \in Requests |-> "idle"]
    /\ call = [q \in Requests |-> None]
    /\ seen = [q \in Requests |-> None]
    /\ limitRead = [q \in Requests |-> None]
    /\ reply = [q \in Requests |-> None]

Arrive(q) ==
    \E c \in Calls : \/ Reserve(q, c) \/ ReserveNotFound(q, c)
                     \/ Cancel(q, c)  \/ CancelNothingToDo(q, c)
                     \/ Update(q, c)

(* One statement of a request that is being served.                        *)
Serve(q) ==
    \/ ClaimFresh(q) \/ ClaimTaken(q) \/ ClaimUser(q) \/ LockUser(q)
    \/ QuotaAdmits(q) \/ QuotaRefuses(q)
    \/ LockClusterAdmits(q) \/ LockClusterRefuses(q)
    \/ ReserveCommit(q) \/ ReserveAnswer(q)
    \/ LockOwner(q) \/ LockHeldCluster(q) \/ RecheckHeld(q) \/ RecheckGone(q)
    \/ CancelCommit(q) \/ CancelReread(q)
    \/ LockEditAdmits(q) \/ LockEditRefuses(q) \/ UpdateCommit(q)

Admin ==
    \/ \E c \in Clusters, n \in Capacities : CreateCluster(c, n)
    \/ \E u \in Users, limit \in Limits : PutQuota(RoleOf[u], limit)

Next ==
    \/ \E q \in Requests : Arrive(q) \/ Serve(q) \/ ConnectionLost(q) \/ DeadlockVictim(q)
    \/ Admin

Spec == Init /\ [][Next]_vars

(* A worker thread keeps executing its request, and the server looks for a *)
(* cycle once a wait has lasted deadlock_timeout.  Nothing obliges clients *)
(* to send, admins to act or connections to break.                         *)
FairSpec == Spec /\ \A q \in Requests : WF_vars(Serve(q)) /\ WF_vars(DeadlockVictim(q))
-----------------------------------------------------------------------------
(* Properties.                                                             *)

(* Every variable has its type.                                            *)
TypeOK ==
    /\ clusters \in [Clusters -> ClusterRow \cup {None}]
    /\ reservations \in [Requests -> ReservationRow \cup {None}]
    /\ keys \in [Keys \X Users -> KeyRow \cup {None}]
    /\ quotas \in [Role -> Nat \cup {Unlimited, None}]
    /\ locks \subseteq [tx : Requests, row : LockRow, mode : LockMode]
    /\ pc \in [Requests -> Step]
    /\ call \in [Requests -> Call \cup {None}]
    /\ seen \in [Requests -> ClusterRow \cup {None}]
    /\ limitRead \in [Requests -> Nat \cup {Unlimited, None}]
    /\ reply \in [Requests -> Reply \cup {None}]

(* gpu_clusters.allocated, maintained by += and -= on values read earlier, *)
(* is the sum of the ACTIVE rows of gpu_reservations: no update is lost    *)
(* and no release is counted twice (reserve_gpu, cancel_gpu_reservation).  *)
CounterMatchesRows ==
    \A c \in Clusters : Exists(c) => clusters[c].allocated = units_on(c)

(* The units held on a cluster never exceed its gpu_count, whatever        *)
(* allocations, releases and PATCHes interleave (gpu_capacity_sane).       *)
NoOversell ==
    \A c \in Clusters : Exists(c) => units_on(c) <= clusters[c].gpu_count

(* From the quota gate to COMMIT nothing moves what the gate counted: the  *)
(* user's units plus the ones asked for stay within the limit it read      *)
(* (enforce_gpu_quota's "held cannot move underneath it").                 *)
QuotaSecured ==
    \A q \in Requests : pc[q] \in {"lockCluster", "commit"} =>
        Within(limitRead[q], held_gpu_units(call[q].user) + call[q].gpu_count)

(* The cluster row a request decided on under its lock is the row its      *)
(* COMMIT overwrites: same counter, same capacity, not blocked since.      *)
DecidedOnCurrentRow ==
    \A q \in Requests :
        /\ pc[q] = "commit" => /\ clusters[call[q].cluster] = seen[q]
                               /\ seen[q].status = "AVAILABLE"
                               /\ CapacityFits(q, seen[q])
        /\ pc[q] \in {"recheck", "release"} => clusters[Target(q).cluster] = seen[q]
        /\ pc[q] = "edit" => /\ clusters[call[q].cluster] = seen[q]
                             /\ ~ShrinksBelow(q, seen[q])

(* However often a request is sent again with its key, by however many     *)
(* concurrent retries, one reservation comes of it (idempotency.claim).    *)
ExactlyOnce ==
    \A q, p \in Requests :
        /\ reservations[q] # None /\ reservations[p] # None
        /\ call[q].key # None /\ Slot(q) = Slot(p)
        => q = p

(* A key row and its allocation become durable together: no key without    *)
(* the reservation its stored response names, none of a keyed reservation  *)
(* without its key, and never a key without a response (record_response).  *)
KeyIffAllocation ==
    /\ \A s \in Keys \X Users : keys[s] # None =>
          /\ keys[s].response_body # None
          /\ LET r == keys[s].response_body.id IN
             reservations[r] # None /\ Slot(r) = s
    /\ \A q \in Requests : reservations[q] # None /\ call[q].key # None =>
          keys[Slot(q)] # None /\ keys[Slot(q)].response_body.id = q

(* A replay answers with a reservation that exists, that is the caller's   *)
(* own and that is what this very request asks for.                        *)
ReplayFaithful ==
    \A q \in Requests : reply[q] # None /\ reply[q].code = "REPLAYED" =>
        LET r == reply[q].body.id IN
        /\ reservations[q] = None
        /\ reservations[r] # None
        /\ reservations[r].user = call[q].user
        /\ reservations[r].cluster = call[q].cluster
        /\ reservations[r].gpu_count = call[q].gpu_count

(* A 201 means a durable reservation and a refusal means none: no gate     *)
(* after a write leaves a row, a key or a lock behind.                     *)
AnswersMatchTables ==
    \A q \in Requests : reply[q] # None =>
        /\ reply[q].code = "CREATED" => reservations[q] # None
        /\ reply[q].code \notin {"CREATED", "ERROR"} =>
              /\ reservations[q] = None
              /\ \A s \in Keys \X Users : keys[s] # None => keys[s].response_body.id # q
        /\ \A l \in locks : l.tx # q

(* An ACTIVE reservation ends only by the cancel of its owner or an admin, *)
(* never by an edit of the cluster or the policy; nothing else in a row    *)
(* changes and no cancelled row comes back.                                *)
OnlyCancelReleases ==
    [][\A r \in Requests : reservations[r] # None =>
          \/ reservations'[r] = reservations[r]
          \/ /\ reservations'[r] = [reservations[r] EXCEPT !.status = "CANCELLED"]
             /\ \E q \in Requests : /\ pc[q] = "release" /\ call[q].reservation = r
                                    /\ \/ call[q].user = reservations[r].user
                                       \/ RoleOf[call[q].user] = "ADMIN"]_vars

(* Requests never wait for each other in a circle: "deadlock is            *)
(* structurally impossible rather than merely unlikely" (reserve_gpu).     *)
NoDeadlock == ~ \E S \in SUBSET Requests : Stuck(waits, S)

(* Every request that is being served is answered.                         *)
EveryRequestAnswered ==
    \A q \in Requests : InFlight(q) ~> pc[q] = "done"

(* "A replay must be indistinguishable from the original call": the same   *)
(* body the first caller got.                                              *)
ReplayIndistinguishable ==
    \A q, p \in Requests :
        /\ reply[q] # None /\ reply[q].code = "CREATED"
        /\ reply[p] # None /\ reply[p].code = "REPLAYED"
        /\ reply[p].body.id = q
        => reply[p].body = reply[q].body

-----------------------------------------------------------------------------
(* The committed tables, without the counter, are the ledger of GpuLedger. *)
CapacityOf(c) == IF clusters[c] = None THEN None
                 ELSE [gpu_count |-> clusters[c].gpu_count, status |-> clusters[c].status]

ASSUME CapacityIsNotNone == None \notin [gpu_count : Nat, status : ResourceStatus]

BoughtBy(s) == IF keys[s] = None THEN None ELSE keys[s].response_body.id

Ledger == INSTANCE GpuLedger WITH
    capacity <- [c \in Clusters |-> CapacityOf(c)],
    holds    <- reservations,
    spent    <- [s \in Keys \X Users |-> BoughtBy(s)]

(* Every COMMIT is one grant, release, creation or edit of the ledger, and *)
(* every other statement changes nothing that can be seen.                 *)
ImplementsLedger == Ledger!Init /\ [][Ledger!Next]_(Ledger!ledger)
=============================================================================
