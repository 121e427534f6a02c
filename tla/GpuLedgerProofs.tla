--------------------------- MODULE GpuLedgerProofs ---------------------------
(***************************************************************************)
(* Theorems about what GpuReservations promises to its clients: a key buys *)
(* one reservation, a replay shows it, and the whole is a GpuLedger.       *)
(***************************************************************************)
EXTENDS GpuReservationsProofs

(***************************************************************************)
(* Idempotency keys.  An uncommitted key row excludes every other one, and *)
(* every committed one, from its slot; a committed one was written by the  *)
(* COMMIT of the reservation that its stored response names.               *)
(***************************************************************************)
SlotsClaimed ==
    /\ \A q \in Requests : Claiming(q) => keys[Slot(q)] = None
    /\ \A q, p \in Requests : Claiming(q) /\ Claiming(p) /\ q # p => Slot(q) # Slot(p)

BoughtWith(s) == keys[s].response_body.id

KeyOK(s) ==
    /\ keys[s].response_body \in Body
    /\ BoughtWith(s) \in Requests
    /\ reservations[BoughtWith(s)] # None
    /\ Slot(BoughtWith(s)) = s
    /\ keys[s].request_hash = request_fingerprint(BoughtWith(s))

KeysBought ==
    /\ \A s \in Keys \X Users : keys[s] # None => KeyOK(s)
    /\ \A q \in Requests : reservations[q] # None /\ call[q].key # None =>
          keys[Slot(q)] # None /\ BoughtWith(Slot(q)) = q

KeyInv == Typed /\ SlotsClaimed /\ KeysBought

LEMMA SlotTyped ==
    ASSUME Typed, NEW q \in Requests, call[q] \in ReserveCall, call[q].key # None
    PROVE  Slot(q) \in Keys \X Users
BY DEF Slot, ReserveCall

LEMMA ClaimingTyped ==
    ASSUME Typed, NEW q \in Requests, Claiming(q)
    PROVE  call[q] \in ReserveCall /\ call[q].key # None /\ Slot(q) \in Keys \X Users
BY SlotTyped DEF Claiming, Typed, SessionsOK, SessionOK, ReserveSteps

(* A key row is inserted by one statement only.                            *)
LEMMA ClaimFrame ==
    ASSUME Typed, NEW q \in Requests, Step1(q), Claiming(q)'
    PROVE  call'[q] = call[q] /\ (Claiming(q) \/ ClaimFresh(q))
<1> USE DEF Claiming, Typed, TypeOK, Goto
<1>1. CASE Arrive(q)
  <2>1. PICK c \in Calls : \/ Reserve(q, c) \/ ReserveNotFound(q, c)
                           \/ Cancel(q, c)  \/ CancelNothingToDo(q, c)
                           \/ Update(q, c)
    BY <1>1 DEF Arrive
  <2>2. ~Reserve(q, c)
    BY DEF Reserve
  <2> QED
    BY <2>1, <2>2 DEF ReserveNotFound, Cancel, CancelNothingToDo, CancelAnswer, Update
<1>2. CASE ClaimUser(q) \/ LockUser(q) \/ QuotaAdmits(q) \/ LockClusterAdmits(q)
  BY <1>2 DEF ClaimUser, LockUser, QuotaAdmits, LockClusterAdmits
<1>3. CASE ClaimFresh(q)
  BY <1>3 DEF ClaimFresh
<1>4. CASE LockOwner(q) \/ LockHeldCluster(q) \/ RecheckHeld(q) \/ LockEditAdmits(q)
  BY <1>4 DEF LockOwner, LockHeldCluster, RecheckHeld, LockEditAdmits
<1>5. CASE ReserveCommit(q) \/ CancelCommit(q) \/ UpdateCommit(q)
  BY <1>5 DEF ReserveCommit, CancelCommit, Commit, UpdateCommit, Answer
<1>6. CASE \/ ClaimTaken(q) \/ QuotaRefuses(q) \/ LockClusterRefuses(q)
           \/ ReserveAnswer(q) \/ RecheckGone(q) \/ CancelReread(q)
           \/ LockEditRefuses(q) \/ ConnectionLost(q) \/ DeadlockVictim(q)
  <2>1. PICK code \in Code, body \in Body \cup {None} : Answer(q, code, body)
    BY <1>6, RefusalTyped
  <2> QED
    BY <2>1 DEF Answer
<1> QED
  BY <1>1, <1>2, <1>3, <1>4, <1>5, <1>6 DEF Step1, Serve

(* The call of a request that holds a row is settled.                      *)
LEMMA CallsOfRowsStay ==
    ASSUME Typed, [Next]_vars, NEW r \in Requests,
           reservations[r] # None \/ pc[r] # "idle"
    PROVE  call'[r] = call[r]
<1> USE DEF Typed, TypeOK
<1>1. pc[r] # "idle"
  BY DEF SessionsOK, SessionOK
<1>2. ASSUME Step1(r) PROVE call'[r] = call[r]
  <2>1. ~Arrive(r)
    BY <1>1 DEF Arrive, Reserve, ReserveNotFound, Cancel, CancelNothingToDo, Update
  <2>2. CASE \/ ClaimUser(r) \/ LockUser(r) \/ QuotaAdmits(r) \/ LockClusterAdmits(r)
             \/ ClaimFresh(r) \/ LockOwner(r) \/ LockHeldCluster(r) \/ RecheckHeld(r)
             \/ LockEditAdmits(r)
    BY <2>2 DEF ClaimUser, LockUser, QuotaAdmits, LockClusterAdmits, ClaimFresh, LockOwner,
                LockHeldCluster, RecheckHeld, LockEditAdmits
  <2>3. CASE ReserveCommit(r) \/ CancelCommit(r) \/ UpdateCommit(r)
    BY <2>3 DEF ReserveCommit, CancelCommit, Commit, UpdateCommit, Answer
  <2>4. CASE \/ ClaimTaken(r) \/ QuotaRefuses(r) \/ LockClusterRefuses(r)
             \/ ReserveAnswer(r) \/ RecheckGone(r) \/ CancelReread(r)
             \/ LockEditRefuses(r) \/ ConnectionLost(r) \/ DeadlockVictim(r)
    <3>1. PICK code \in Code, body \in Body \cup {None} : Answer(r, code, body)
      BY <2>4, RefusalTyped
    <3> QED
      BY <3>1 DEF Answer
  <2> QED
    BY <1>2, <2>1, <2>2, <2>3, <2>4 DEF Step1, Serve
<1>3. ASSUME NEW q \in Requests, Step1(q), q # r PROVE call'[r] = call[r]
  BY <1>3, OthersUntouched
<1>4. CASE Admin \/ UNCHANGED vars
  BY <1>4 DEF Admin, CreateCluster, PutQuota, session, vars
<1> QED
  BY <1>2, <1>3, <1>4 DEF Next, Step1

(* What the COMMIT of a reservation writes.                                *)
LEMMA Bought ==
    ASSUME Typed, NEW q \in Requests, ReserveCommit(q)
    PROVE  /\ pc[q] = "commit" /\ reservations[q] = None /\ call[q] \in ReserveCall
           /\ call' = call /\ pc' = [pc EXCEPT ![q] = "refresh"]
           /\ reservations'[q] # None
           /\ \A r \in Requests : r # q => reservations'[r] = reservations[r]
           /\ call[q].key = None => keys' = keys
           /\ call[q].key # None => keys' = [keys EXCEPT ![Slot(q)] = KeyRowOf(q)]
<1> DEFINE row == [cluster |-> call[q].cluster, user |-> call[q].user,
                   gpu_count |-> call[q].gpu_count, status |-> "ACTIVE"]
<1>1. /\ pc[q] = "commit" /\ reservations[q] = None /\ call[q] \in ReserveCall
      /\ call' = call /\ pc' = [pc EXCEPT ![q] = "refresh"]
      /\ call[q].key = None => keys' = keys
      /\ call[q].key # None => keys' = [keys EXCEPT ![Slot(q)] = KeyRowOf(q)]
      /\ reservations' = [reservations EXCEPT ![q] = row]
  BY DEF ReserveCommit, Commit, Goto, Typed, SessionsOK, SessionOK, ReserveSteps, BeforeCommit
<1>2. row \in ReservationRow
  BY <1>1 DEF ReserveCall, ReservationRow, ReservationStatus
<1> HIDE DEF row
<1> QED
  BY <1>1, <1>2, SentinelsApart DEF Typed, TypeOK

LEMMA BoughtKeys ==
    ASSUME KeyInv, NEW q \in Requests, ReserveCommit(q)
    PROVE  SlotsClaimed' /\ KeysBought'
<1> USE DEF KeyInv
<1>1. \A p \in Requests : Claiming(p)' <=> Claiming(p) /\ p # q
  BY Bought DEF Claiming, Typed, TypeOK
<1>2. call' = call /\ \A p \in Requests : Slot(p)' = Slot(p)
  BY Bought DEF Slot
<1>3. CASE call[q].key = None
  <2>1. keys' = keys
    BY <1>3, Bought
  <2>2. SlotsClaimed'
    BY <1>1, <1>2, <2>1 DEF SlotsClaimed, Slot
  <2>3. ASSUME NEW s \in Keys \X Users, keys'[s] # None PROVE KeyOK(s)'
    <3>1. KeyOK(s) /\ BoughtWith(s)' = BoughtWith(s)
      BY <2>1, <2>3 DEF KeysBought, BoughtWith
    <3> QED
      BY <1>2, <2>1, <3>1, Bought DEF KeyOK, BoughtWith, Slot, request_fingerprint
  <2>4. ASSUME NEW p \in Requests, reservations'[p] # None, call'[p].key # None
        PROVE  (keys[Slot(p)] # None /\ BoughtWith(Slot(p)) = p)'
    BY <1>2, <1>3, <2>1, <2>4, Bought DEF KeysBought, BoughtWith, Slot
  <2> QED
    BY <2>2, <2>3, <2>4 DEF KeysBought
<1>4. CASE call[q].key # None
  <2>1. Claiming(q) /\ keys[Slot(q)] = None /\ Slot(q) \in Keys \X Users
    BY <1>4, Bought, ClaimingTyped DEF Claiming, SlotsClaimed
  <2>2. /\ KeyRowOf(q).response_body = [id |-> q, status |-> "ACTIVE"]
        /\ KeyRowOf(q).response_body.id = q
        /\ KeyRowOf(q).request_hash = request_fingerprint(q)
        /\ KeyRowOf(q).response_body \in Body
        /\ KeyRowOf(q) \in KeyRow
    BY Bought DEF KeyRowOf, Body, ReservationStatus, KeyRow, request_fingerprint, ReserveCall
  <2>3. /\ keys'[Slot(q)] = KeyRowOf(q)
        /\ \A s \in Keys \X Users : s # Slot(q) => keys'[s] = keys[s]
    BY <1>4, <2>1, Bought DEF Typed, TypeOK
  <2>4. SlotsClaimed'
    <3>1. \A p \in Requests : Claiming(p) /\ p # q =>
             Slot(p) # Slot(q) /\ Slot(p) \in Keys \X Users
      BY <2>1, ClaimingTyped DEF SlotsClaimed
    <3> QED
      BY <1>1, <1>2, <2>3, <3>1 DEF SlotsClaimed, Slot
  <2>5. ASSUME NEW s \in Keys \X Users, keys'[s] # None PROVE KeyOK(s)'
    <3>1. CASE s = Slot(q)
      <4>1. keys'[s] = KeyRowOf(q) /\ BoughtWith(s)' = q
        BY <2>2, <2>3, <3>1 DEF BoughtWith
      <4> QED
        BY <1>2, <2>2, <3>1, <4>1, Bought DEF KeyOK, Slot, request_fingerprint
    <3>2. CASE s # Slot(q)
      <4>1. keys'[s] = keys[s] /\ KeyOK(s) /\ BoughtWith(s)' = BoughtWith(s)
        BY <2>3, <2>5, <3>2 DEF KeysBought, BoughtWith
      <4> QED
        BY <1>2, <4>1, Bought DEF KeyOK, Slot, request_fingerprint
    <3> QED
      BY <3>1, <3>2
  <2>6. ASSUME NEW p \in Requests, reservations'[p] # None, call'[p].key # None
        PROVE  (keys[Slot(p)] # None /\ BoughtWith(Slot(p)) = p)'
    <3>1. CASE p = q
      BY <1>2, <2>2, <2>3, <3>1, SentinelsApart DEF BoughtWith, Slot
    <3>2. CASE p # q
      <4>1. reservations[p] # None /\ call[p].key # None
        BY <1>2, <2>6, <3>2, Bought
      <4>2. keys[Slot(p)] # None /\ BoughtWith(Slot(p)) = p
        BY <4>1 DEF KeysBought
      <4>3. Slot(p) \in Keys \X Users
        BY <4>1, SlotTyped DEF Typed, SessionsOK, RowOK
      <4>4. keys'[Slot(p)] = keys[Slot(p)]
        BY <2>1, <2>3, <4>2, <4>3
      <4> QED
        BY <1>2, <4>2, <4>4 DEF BoughtWith, Slot
    <3> QED
      BY <3>1, <3>2
  <2> QED
    BY <2>4, <2>5, <2>6 DEF KeysBought
<1> QED
  BY <1>3, <1>4

LEMMA KeysUntouched ==
    ASSUME KeyInv, [Next]_vars, keys' = keys,
           \A r \in Requests : reservations'[r] # None <=> reservations[r] # None
    PROVE  KeysBought'
<1> USE DEF KeyInv
<1>1. \A r \in Requests : reservations[r] # None =>
         /\ call'[r] = call[r] /\ Slot(r)' = Slot(r)
         /\ request_fingerprint(r)' = request_fingerprint(r)
  BY CallsOfRowsStay DEF Slot, request_fingerprint
<1>2. ASSUME NEW s \in Keys \X Users, keys'[s] # None PROVE KeyOK(s)'
  <2>1. KeyOK(s) /\ BoughtWith(s)' = BoughtWith(s)
    BY <1>2 DEF KeysBought, BoughtWith
  <2> DEFINE r == BoughtWith(s)
  <2>2. /\ r \in Requests /\ reservations[r] # None /\ reservations'[r] # None
        /\ call'[r] = call[r]
    BY <1>1, <2>1 DEF KeyOK
  <2> QED
    BY <2>1, <2>2 DEF KeyOK, Slot, request_fingerprint, BoughtWith
<1>3. ASSUME NEW p \in Requests, reservations'[p] # None, call'[p].key # None
      PROVE  (keys[Slot(p)] # None /\ BoughtWith(Slot(p)) = p)'
  <2>1. reservations[p] # None /\ call'[p] = call[p]
    BY <1>1, <1>3
  <2> QED
    BY <1>3, <2>1 DEF KeysBought, BoughtWith, Slot
<1> QED
  BY <1>2, <1>3 DEF KeysBought

LEMMA SlotsUntouched ==
    ASSUME KeyInv, NEW q \in Requests, Step1(q), keys' = keys
    PROVE  SlotsClaimed'
<1> USE DEF KeyInv
<1>1. ASSUME NEW p \in Requests, Claiming(p)'
      PROVE  /\ call'[p] = call[p] /\ Slot(p)' = Slot(p)
             /\ Claiming(p) \/ (p = q /\ ClaimFresh(q))
  <2>1. CASE p = q
    BY <1>1, <2>1, ClaimFrame DEF Slot
  <2>2. CASE p # q
    BY <1>1, <2>2, OthersUntouched DEF Claiming, Slot
  <2> QED
    BY <2>1, <2>2
<1>2. ASSUME ClaimFresh(q)
      PROVE  /\ keys[Slot(q)] = None
             /\ \A p \in Requests : Claiming(p) /\ p # q => Slot(p) # Slot(q)
  BY <1>2 DEF ClaimFresh, SlotHolders
<1>3. ASSUME NEW p \in Requests, Claiming(p)' PROVE (keys[Slot(p)] = None)'
  <2>1. keys[Slot(p)] = None
    BY <1>1, <1>2, <1>3 DEF SlotsClaimed
  <2> QED
    BY <1>1, <1>3, <2>1 DEF Slot
<1>4. ASSUME NEW p \in Requests, NEW r \in Requests, Claiming(p)', Claiming(r)', p # r
      PROVE  (Slot(p) # Slot(r))'
  <2>1. Slot(p) # Slot(r)
    BY <1>1, <1>2, <1>4 DEF SlotsClaimed
  <2> QED
    BY <1>1, <1>4, <2>1
<1> QED
  BY <1>3, <1>4 DEF SlotsClaimed

(* No other statement inserts a row or writes a key.                       *)
LEMMA OnlyBookingsInsert ==
    ASSUME Typed, [Next]_vars, NEW q \in Requests, Step1(q), ~ReserveCommit(q)
    PROVE  /\ keys' = keys
           /\ \A r \in Requests : reservations'[r] # None <=> reservations[r] # None
<1>1. CASE CancelCommit(q)
  <2>1. \A r \in Requests : reservations[r] # None => reservations'[r] # None
    BY RowsStable
  <2> DEFINE t == call[q].reservation
  <2>2. t \in Requests /\ reservations[t] # None
    BY <1>1, Released, SentinelsApart
  <2>3. PICK row : reservations' = [reservations EXCEPT ![t] = row]
    BY <1>1, Released
  <2>4. \A r \in Requests : r # t => reservations'[r] = reservations[r]
    BY <2>3 DEF Typed, TypeOK
  <2> QED
    BY <1>1, <2>1, <2>2, <2>4 DEF CancelCommit
<1>2. CASE UpdateCommit(q) \/ UNCHANGED tables
  BY <1>2 DEF UpdateCommit, tables
<1> QED
  BY <1>1, <1>2, OnlyCommitsWrite

LEMMA KeyInductive == KeyInv /\ [Next]_vars => KeyInv'
<1> SUFFICES ASSUME KeyInv, [Next]_vars PROVE SlotsClaimed' /\ KeysBought'
  BY NextTyped DEF KeyInv
<1>1. ASSUME NEW q \in Requests, Step1(q), ~ReserveCommit(q)
      PROVE  /\ keys' = keys
             /\ \A r \in Requests : reservations'[r] # None <=> reservations[r] # None
  BY <1>1, OnlyBookingsInsert DEF KeyInv
<1>2. CASE Admin \/ UNCHANGED vars
  <2>1. UNCHANGED <<reservations, keys, pc, call>>
    BY <1>2 DEF Admin, CreateCluster, PutQuota, session, vars
  <2>2. SlotsClaimed'
    BY <2>1 DEF KeyInv, SlotsClaimed, Claiming, Slot
  <2>3. keys' = keys /\ \A r \in Requests : reservations'[r] # None <=> reservations[r] # None
    BY <2>1
  <2> QED
    BY <2>2, <2>3, KeysUntouched
<1> QED
  BY <1>1, <1>2, BoughtKeys, KeysUntouched, SlotsUntouched DEF Next, Step1

LEMMA KeyInvHolds == Spec => []KeyInv
<1>1. Init => KeyInv
  BY InitTyped DEF Init, KeyInv, SlotsClaimed, Claiming, KeysBought
<1> QED
  BY <1>1, KeyInductive, PTL DEF Spec

(* However many requests carry one key of one user, however they are       *)
(* ordered, retried, lost or rolled back, one reservation comes of it.     *)
THEOREM OncePerKey == Spec => []ExactlyOnce
<1>1. KeyInv => ExactlyOnce
  <2> SUFFICES ASSUME KeyInv, NEW q \in Requests, NEW p \in Requests,
                      reservations[q] # None, reservations[p] # None,
                      call[q].key # None, Slot(q) = Slot(p)
               PROVE  q = p
    BY DEF ExactlyOnce
  <2>1. call[p].key # None
    BY DEF Slot
  <2> QED
    BY <2>1 DEF KeyInv, KeysBought
<1> QED
  BY <1>1, KeyInvHolds, PTL

(* A key is in the table exactly when the reservation that its stored      *)
(* response names is: neither is ever durable without the other.           *)
THEOREM KeysAndAllocationsAgree == Spec => []KeyIffAllocation
<1>1. KeyInv => KeyIffAllocation
  BY SentinelsApart DEF KeyInv, KeysBought, KeyOK, BoughtWith, KeyIffAllocation
<1> QED
  BY <1>1, KeyInvHolds, PTL

-----------------------------------------------------------------------------
(* Replays.                                                                *)

(* A request answered from a stored response bought nothing itself, and    *)
(* what it is shown is the reservation its own call asks for.              *)
Replayed(q) ==
    LET r == reply[q].body.id IN
    /\ pc[q] = "done"
    /\ call[q] \in ReserveCall
    /\ reservations[q] = None
    /\ r \in Requests
    /\ reservations[r] # None
    /\ reservations[r].user = call[q].user
    /\ reservations[r].cluster = call[q].cluster
    /\ reservations[r].gpu_count = call[q].gpu_count

Replays ==
    \A q \in Requests :
        /\ reply[q] # None => pc[q] = "done"
        /\ reply[q] # None /\ reply[q].code = "REPLAYED" => Replayed(q)

(* Whoever is answered is done, and only the unique index answers REPLAYED.*)
LEMMA AnswerSources ==
    ASSUME Typed, NEW q \in Requests, Step1(q), reply'[q] # reply[q]
    PROVE  /\ pc'[q] = "done"
           /\ reply'[q].code = "REPLAYED" => ClaimTaken(q)
<1> USE DEF Typed, TypeOK, Goto
<1>1. CASE Arrive(q)
  <2>1. PICK c \in Calls : \/ Reserve(q, c) \/ ReserveNotFound(q, c)
                           \/ Cancel(q, c)  \/ CancelNothingToDo(q, c)
                           \/ Update(q, c)
    BY <1>1 DEF Arrive
  <2>2. CASE Reserve(q, c) \/ Cancel(q, c) \/ Update(q, c)
    BY <2>2 DEF Reserve, Cancel, Update
  <2>3. CASE ReserveNotFound(q, c)
    BY <2>3 DEF ReserveNotFound
  <2>4. CASE CancelNothingToDo(q, c)
    BY <2>4 DEF CancelNothingToDo, CancelAnswer
  <2> QED
    BY <2>1, <2>2, <2>3, <2>4
<1>2. CASE \/ ClaimUser(q) \/ LockUser(q) \/ QuotaAdmits(q) \/ LockClusterAdmits(q)
           \/ ClaimFresh(q) \/ LockOwner(q) \/ LockHeldCluster(q) \/ RecheckHeld(q)
           \/ LockEditAdmits(q)
  BY <1>2 DEF ClaimUser, LockUser, QuotaAdmits, LockClusterAdmits, ClaimFresh, LockOwner,
              LockHeldCluster, RecheckHeld, LockEditAdmits
<1>3. CASE ReserveCommit(q) \/ CancelCommit(q)
  BY <1>3 DEF ReserveCommit, CancelCommit, Commit
<1>4. CASE ClaimTaken(q)
  <2>1. PICK code \in Code, body \in Body \cup {None} : Answer(q, code, body)
    BY <1>4, RefusalTyped
  <2> QED
    BY <1>4, <2>1 DEF Answer
<1>5. CASE UpdateCommit(q) \/ ReserveAnswer(q) \/ RecheckGone(q) \/ CancelReread(q)
  BY <1>5 DEF UpdateCommit, ReserveAnswer, RecheckGone, CancelReread, Answer
<1>6. CASE QuotaRefuses(q) \/ LockClusterRefuses(q) \/ LockEditRefuses(q)
           \/ ConnectionLost(q) \/ DeadlockVictim(q)
  BY <1>6 DEF QuotaRefuses, LockClusterRefuses, LockEditRefuses, ConnectionLost,
              DeadlockVictim, Refuse, Answer
<1> QED
  BY <1>1, <1>2, <1>3, <1>4, <1>5, <1>6 DEF Step1, Serve

LEMMA AnsweredStays ==
    ASSUME Typed, NEW q \in Requests, pc[q] = "done", Step1(q)
    PROVE  FALSE
<1>1. ~Arrive(q)
  BY DEF Arrive, Reserve, ReserveNotFound, Cancel, CancelNothingToDo, Update
<1>2. ~ConnectionLost(q) /\ ~DeadlockVictim(q)
  BY DEF ConnectionLost, DeadlockVictim, InFlight
<1>3. ~Serve(q)
  BY DEF Serve, ClaimFresh, ClaimTaken, ClaimUser, LockUser, QuotaAdmits, QuotaRefuses,
         LockClusterAdmits, LockClusterRefuses, ReserveCommit, ReserveAnswer, LockOwner,
         LockHeldCluster, RecheckHeld, RecheckGone, CancelCommit, CancelReread,
         LockEditAdmits, LockEditRefuses, UpdateCommit
<1> QED
  BY <1>1, <1>2, <1>3 DEF Step1

(* What a replay answers with.                                             *)
LEMMA ReplayFound ==
    ASSUME KeyInv, NEW q \in Requests, ClaimTaken(q), reply'[q].code = "REPLAYED"
    PROVE  Replayed(q)'
<1> USE DEF KeyInv
<1> DEFINE r == BoughtWith(Slot(q))
<1>1. /\ pc[q] = "claim" /\ call[q] \in ReserveCall /\ call[q].key # None
      /\ reservations[q] = None
      /\ UNCHANGED <<reservations, call>>
      /\ keys[Slot(q)] # None
  BY DEF ClaimTaken, Typed, SessionsOK, SessionOK, ReserveSteps, BeforeCommit, Answer, tables
<1>2. KeyOK(Slot(q))
  BY <1>1, SlotTyped DEF KeysBought
<1>3. /\ keys[Slot(q)].request_hash = request_fingerprint(q)
      /\ reply'[q].body = keys[Slot(q)].response_body
      /\ pc'[q] = "done"
  BY DEF ClaimTaken, Answer, Goto, Typed, TypeOK
<1>4. reply'[q].body.id = r
  BY <1>3 DEF BoughtWith
<1>5. /\ r \in Requests /\ reservations[r] # None
      /\ call[r].user = call[q].user
      /\ call[r].cluster = call[q].cluster /\ call[r].gpu_count = call[q].gpu_count
  BY <1>2, <1>3 DEF KeyOK, Slot, request_fingerprint
<1>6. /\ reservations[r].cluster = call[r].cluster
      /\ reservations[r].user = call[r].user
      /\ reservations[r].gpu_count = call[r].gpu_count
  BY <1>5 DEF Typed, SessionsOK, RowOK
<1> HIDE DEF r
<1> QED
  BY <1>1, <1>3, <1>4, <1>5, <1>6 DEF Replayed

LEMMA ReplaysInductive == KeyInv /\ Replays /\ [Next]_vars => Replays'
<1> SUFFICES ASSUME KeyInv, Replays, [Next]_vars, NEW q \in Requests
             PROVE  /\ reply'[q] # None => pc'[q] = "done"
                    /\ reply'[q] # None /\ reply'[q].code = "REPLAYED" => Replayed(q)'
  BY DEF Replays
<1> USE DEF KeyInv
<1>1. ASSUME reply'[q] = reply[q], reply[q] # None, pc'[q] = pc[q], call'[q] = call[q],
             reservations[q] = None => reservations'[q] = None
      PROVE  /\ pc'[q] = "done"
             /\ reply'[q].code = "REPLAYED" => Replayed(q)'
  <2>1. pc'[q] = "done"
    BY <1>1 DEF Replays
  <2>2. ASSUME reply[q].code = "REPLAYED" PROVE Replayed(q)'
    <3> DEFINE r == reply[q].body.id
    <3>1. /\ call[q] \in ReserveCall /\ reservations[q] = None
          /\ r \in Requests /\ reservations[r] # None
          /\ reservations[r].user = call[q].user
          /\ reservations[r].cluster = call[q].cluster
          /\ reservations[r].gpu_count = call[q].gpu_count
      BY <1>1, <2>2 DEF Replays, Replayed
    <3>2. /\ reservations'[r] # None
          /\ reservations'[r].cluster = reservations[r].cluster
          /\ reservations'[r].user = reservations[r].user
          /\ reservations'[r].gpu_count = reservations[r].gpu_count
      BY <3>1, RowsStable
    <3>3. reply'[q].body.id = r
      BY <1>1
    <3> HIDE DEF r
    <3> QED
      BY <1>1, <2>1, <3>1, <3>2, <3>3 DEF Replayed
  <2> QED
    BY <1>1, <2>1, <2>2
<1>2. ASSUME NEW p \in Requests, Step1(p), p # q
      PROVE  /\ reply'[q] = reply[q] /\ pc'[q] = pc[q] /\ call'[q] = call[q]
             /\ reservations[q] = None => reservations'[q] = None
  <2>1. reply'[q] = reply[q] /\ pc'[q] = pc[q] /\ call'[q] = call[q]
    BY <1>2, OthersUntouched
  <2>2. reservations[q] = None => reservations'[q] = None
    BY <1>2, OnlyBookingsInsert, Bought
  <2> QED
    BY <2>1, <2>2
<1>3. ASSUME Admin \/ UNCHANGED vars
      PROVE  /\ reply'[q] = reply[q] /\ pc'[q] = pc[q] /\ call'[q] = call[q]
             /\ reservations[q] = None => reservations'[q] = None
  BY <1>3 DEF Admin, CreateCluster, PutQuota, session, vars
<1>4. ASSUME Step1(q), reply'[q] # None
      PROVE  /\ pc'[q] = "done"
             /\ reply'[q].code = "REPLAYED" => Replayed(q)'
  <2>1. reply[q] = None
    BY <1>4, AnsweredStays DEF Replays
  <2> QED
    BY <1>4, <2>1, AnswerSources, ReplayFound
<1> QED
  BY <1>1, <1>2, <1>3, <1>4 DEF Next, Step1

(* A replay never shows another user's reservation, nor one for another    *)
(* request: the fingerprint of a reused key gives it away.                 *)
THEOREM ReplaysAreFaithful == Spec => []ReplayFaithful
<1>1. Init => Replays
  BY DEF Init, Replays
<1>2. Replays => ReplayFaithful
  BY DEF Replays, Replayed, ReplayFaithful
<1> QED
  BY <1>1, <1>2, KeyInvHolds, ReplaysInductive, PTL DEF Spec

-----------------------------------------------------------------------------
(* The committed tables as a GpuLedger.                                    *)

LedgerInv == CounterInv /\ KeyInv

LEMMA LedgerUsed == \A c \in Clusters : Ledger!Used(c) = units_on(c)
<1>1. \A c \in Clusters : Ledger!ActiveOn(c) = HeldOn(c)
  BY DEF Ledger!ActiveOn, HeldOn, Active
<1>2. \A S : Ledger!Cardinality(S) = Cardinality(S)
  BY DEF Ledger!Cardinality, Cardinality
<1>3. \A S : Ledger!SumUnits(reservations, S, MaxUnits) = SumUnits(reservations, S, MaxUnits)
  BY <1>2 DEF Ledger!SumUnits, Ledger!UnitPairs, SumUnits, UnitPairs
<1> QED
  BY <1>1, <1>3 DEF Ledger!Used, units_on

LEMMA InitIsLedger == Init => Ledger!Init
<1> SUFFICES ASSUME Init PROVE Ledger!Init
  OBVIOUS
<1>1. \A c \in Clusters : CapacityOf(c) \in [gpu_count : Nat, status : {"AVAILABLE"}] \cup {None}
  BY SeededTyped DEF Init, CapacityOf
<1>2. \A s \in Keys \X Users : BoughtBy(s) = None
  BY DEF Init, BoughtBy
<1> QED
  BY <1>1, <1>2 DEF Init, Ledger!Init

(* A cluster's row, seen without its counter.                              *)
LEMMA CapacityTyped ==
    ASSUME Typed, NEW c \in Clusters, Exists(c)
    PROVE  /\ CapacityOf(c) \in [gpu_count : Nat, status : ResourceStatus]
           /\ CapacityOf(c) # None
           /\ CapacityOf(c).gpu_count = clusters[c].gpu_count
           /\ CapacityOf(c).status = clusters[c].status
<1>1. clusters[c] \in ClusterRow
  BY DEF Typed, TypeOK, Exists
<1> QED
  BY <1>1, CapacityIsNotNone DEF CapacityOf, ClusterRow, Exists

LEMMA CapacityKept ==
    ASSUME Typed, NEW c \in Clusters, NEW v \in Int, Exists(c),
           clusters' = [clusters EXCEPT ![c].allocated = v]
    PROVE  \A d \in Clusters : CapacityOf(d)' = CapacityOf(d)
<1>1. clusters[c] \in ClusterRow
  BY DEF Typed, TypeOK, Exists
<1>2. \A d \in Clusters : d # c => clusters'[d] = clusters[d]
  BY DEF Typed, TypeOK
<1>3. /\ clusters'[c].gpu_count = clusters[c].gpu_count
      /\ clusters'[c].status = clusters[c].status
      /\ clusters'[c] \in ClusterRow
  BY <1>1 DEF Typed, TypeOK, ClusterRow
<1> QED
  BY <1>2, <1>3, SentinelsApart DEF CapacityOf, Exists

LEMMA GrantIsLedger ==
    ASSUME LedgerInv, NEW q \in Requests, ReserveCommit(q)
    PROVE  Ledger!Grant(q, call[q].user, call[q].cluster, call[q].gpu_count, call[q].key)
<1> DEFINE c == call[q].cluster
<1> USE DEF LedgerInv, CounterInv
<1>1. /\ pc[q] = "commit" /\ reservations[q] = None /\ call[q] \in ReserveCall
      /\ c \in Clusters /\ Exists(c) /\ clusters[c] \in ClusterRow
      /\ seen[q] \in ClusterRow
  BY Bought DEF Typed, TypeOK, SessionsOK, SessionOK, ReserveSteps, ReserveCall, Exists
<1>2. /\ clusters[c] = seen[q] /\ seen[q].status = "AVAILABLE"
      /\ seen[q].allocated + call[q].gpu_count <= seen[q].gpu_count
      /\ clusters[c].allocated = units_on(c)
  BY <1>1 DEF AllDecided, Decided, CapacityFits, Counted, CounterMatchesRows
<1>3. /\ CapacityOf(c) # None /\ CapacityOf(c).status = "AVAILABLE"
      /\ Ledger!Used(c) + call[q].gpu_count <= CapacityOf(c).gpu_count
  BY <1>1, <1>2, CapacityTyped, LedgerUsed
<1>4. \A d \in Clusters : CapacityOf(d)' = CapacityOf(d)
  <2>1. seen[q].allocated + call[q].gpu_count \in Int
    BY <1>1, MaxUnitsIsNat DEF ClusterRow, ReserveCall
  <2>2. clusters' = [clusters EXCEPT ![c].allocated = seen[q].allocated + call[q].gpu_count]
    BY DEF ReserveCommit
  <2> QED
    BY <1>1, <2>1, <2>2, CapacityKept
<1>5. reservations' = [reservations EXCEPT
          ![q] = [cluster |-> c, user |-> call[q].user,
                  gpu_count |-> call[q].gpu_count, status |-> "ACTIVE"]]
  BY DEF ReserveCommit
<1>6. CASE call[q].key = None
  <2>1. \A s \in Keys \X Users : BoughtBy(s)' = BoughtBy(s)
    BY <1>6, Bought DEF BoughtBy
  <2> QED
    BY <1>1, <1>3, <1>4, <1>5, <1>6, <2>1 DEF Ledger!Grant
<1>7. CASE call[q].key # None
  <2>1. keys[Slot(q)] = None /\ Slot(q) \in Keys \X Users
    BY <1>1, <1>7, ClaimingTyped DEF Claiming, KeyInv, SlotsClaimed
  <2>2. keys' = [keys EXCEPT ![Slot(q)] = KeyRowOf(q)] /\ KeyRowOf(q).response_body.id = q
    BY <1>7, Bought DEF KeyRowOf
  <2>3. KeyRowOf(q) \in KeyRow
    BY <1>1 DEF KeyRowOf, KeyRow, Body, request_fingerprint, ReserveCall, ReservationStatus
  <2>4. /\ BoughtBy(Slot(q)) = None /\ BoughtBy(Slot(q))' = q
        /\ \A s \in Keys \X Users : s # Slot(q) => BoughtBy(s)' = BoughtBy(s)
    <3>1. /\ keys'[Slot(q)] = KeyRowOf(q) /\ KeyRowOf(q) # None
          /\ \A s \in Keys \X Users : s # Slot(q) => keys'[s] = keys[s]
      BY <2>1, <2>2, <2>3, SentinelsApart DEF Typed, TypeOK
    <3>2. call' = call
      BY Bought
    <3> QED
      BY <2>1, <2>2, <3>1, <3>2 DEF BoughtBy, Slot
  <2>5. [s \in Keys \X Users |-> BoughtBy(s)]'
           = [[s \in Keys \X Users |-> BoughtBy(s)] EXCEPT ![Slot(q)] = q]
    <3>1. call' = call /\ Slot(q)' = Slot(q)
      BY Bought DEF Slot
    <3> QED
      BY <2>1, <2>4, <3>1
  <2> QED
    BY <1>1, <1>3, <1>4, <1>5, <1>7, <2>1, <2>4, <2>5 DEF Ledger!Grant, Slot
<1> QED
  BY <1>6, <1>7

LEMMA ReleaseIsLedger ==
    ASSUME LedgerInv, NEW q \in Requests, CancelCommit(q)
    PROVE  Ledger!Release(call[q].reservation)
<1> DEFINE r == call[q].reservation
<1> USE DEF LedgerInv, CounterInv
<1>1. /\ pc[q] = "release" /\ r \in Requests /\ reservations[r] # None
      /\ reservations[r] \in ReservationRow /\ seen[q] \in ClusterRow
      /\ clusters[reservations[r].cluster] \in ClusterRow
  BY Released, SentinelsApart
<1>2. reservations[r].status = "ACTIVE"
  BY <1>1 DEF AllDecided, Decided, Active
<1>3. reservations' = [reservations EXCEPT ![r].status = "CANCELLED"]
  BY DEF CancelCommit
<1>4. \A d \in Clusters : CapacityOf(d)' = CapacityOf(d)
  <2> DEFINE c == reservations[r].cluster
             v == seen[q].allocated - reservations[r].gpu_count
  <2>1. v \in Int /\ c \in Clusters /\ Exists(c)
    BY <1>1, MaxUnitsIsNat, SentinelsApart DEF ClusterRow, ReservationRow, Exists
  <2>2. clusters' = [clusters EXCEPT ![c].allocated = v]
    BY DEF CancelCommit, Target
  <2> HIDE DEF c, v
  <2> QED
    BY <2>1, <2>2, CapacityKept
<1>5. \A s \in Keys \X Users : BoughtBy(s)' = BoughtBy(s)
  BY DEF CancelCommit, BoughtBy
<1> QED
  BY <1>1, <1>2, <1>3, <1>4, <1>5 DEF Ledger!Release

LEMMA UpdateIsLedger ==
    ASSUME LedgerInv, Typed', Counted', NEW q \in Requests, UpdateCommit(q)
    PROVE  \E c \in Clusters : Ledger!Edit(c)
<1> USE DEF LedgerInv, CounterInv
<1>1. PICK c \in Clusters :
         /\ c = call[q].cluster /\ call[q] \in UpdateCall /\ Exists(c)
         /\ clusters[c] \in ClusterRow
         /\ reservations' = reservations /\ keys' = keys /\ call' = call
  <2>1. /\ call[q] \in UpdateCall /\ Exists(call[q].cluster)
        /\ call[q].cluster \in Clusters
    BY DEF UpdateCommit, Typed, SessionsOK, SessionOK, UpdateSteps, UpdateCall
  <2>2. clusters[call[q].cluster] \in ClusterRow
    BY <2>1 DEF Typed, TypeOK, Exists
  <2>3. reservations' = reservations /\ keys' = keys /\ call' = call
    BY DEF UpdateCommit, Answer
  <2> QED
    BY <2>1, <2>2, <2>3
<1>2. /\ \A d \in Clusters : d # c => clusters'[d] = clusters[d]
      /\ clusters'[c] # None
  <2>1. \A d \in Clusters : d # c => clusters'[d] = clusters[d]
    BY <1>1 DEF UpdateCommit, Typed, TypeOK
  <2>2. \A d \in Clusters : clusters'[d] # None <=> clusters[d] # None
    BY <1>1, SentinelsApart DEF UpdateCommit, ClusterRow, Given, UpdateCall, Typed, TypeOK
  <2> QED
    BY <1>1, <2>1, <2>2 DEF Exists
<1>3. /\ CapacityOf(c) # None
      /\ CapacityOf(c)' \in [gpu_count : Nat, status : ResourceStatus]
      /\ CapacityOf(c)'.gpu_count = clusters'[c].gpu_count
  <2>1. clusters'[c] \in ClusterRow
    BY <1>1, <1>2 DEF Typed, TypeOK
  <2>2. CapacityOf(c)' = [gpu_count |-> clusters'[c].gpu_count, status |-> clusters'[c].status]
    BY <1>1, <1>2 DEF CapacityOf
  <2> QED
    BY <1>1, <2>1, <2>2, CapacityTyped DEF ClusterRow
<1>4. \A d \in Clusters : d # c => CapacityOf(d)' = CapacityOf(d)
  BY <1>2 DEF CapacityOf
<1>5. Ledger!Used(c) <= clusters'[c].gpu_count
  <2>1. units_on(c)' = units_on(c)
    BY <1>1 DEF units_on, HeldOn, Active
  <2>2. \A d \in Clusters : clusters'[d] # None => units_on(d)' <= clusters'[d].gpu_count
    BY DEF Counted, NoOversell, Exists
  <2> QED
    BY <1>1, <1>2, <2>1, <2>2, LedgerUsed
<1>6. \A s \in Keys \X Users : BoughtBy(s)' = BoughtBy(s)
  BY <1>1 DEF BoughtBy
<1>7. Ledger!Edit(c)
  <2> DEFINE capacity == [b \in Clusters |-> CapacityOf(b)]
             spent == [s \in Keys \X Users |-> BoughtBy(s)]
  <2>1. capacity[c] # None
    BY <1>1, <1>3
  <2>2. \A d \in Clusters : capacity'[d] = CapacityOf(d)'
    OBVIOUS
  <2>3. /\ capacity'[c] \in [gpu_count : Nat, status : {"AVAILABLE", "BLOCKED"}]
        /\ Ledger!Used(c) <= capacity'[c].gpu_count
    <3>1. capacity'[c] = CapacityOf(c)'
      BY <1>1, <2>2
    <3> HIDE DEF capacity
    <3> QED
      BY <1>3, <1>5, <3>1 DEF ResourceStatus
  <2>4. \A d \in Clusters \ {c} : capacity'[d] = capacity[d]
    BY <1>4
  <2>5. UNCHANGED <<reservations, spent>>
    BY <1>1, <1>6
  <2> QED
    BY <2>1, <2>3, <2>4, <2>5 DEF Ledger!Edit, Ledger!Others, Ledger!Status
<1> QED
  BY <1>1, <1>7

(* Creating a cluster opens it; a new policy and an arrival change nothing *)
(* the ledger has.                                                         *)
LEMMA AdminIsLedger ==
    ASSUME Typed, Admin
    PROVE  \/ UNCHANGED Ledger!ledger
           \/ \E c \in Clusters : Ledger!Open(c)
<1>1. ASSUME NEW c \in Clusters, NEW n \in Capacities, CreateCluster(c, n)
      PROVE  Ledger!Open(c)
  <2>1. /\ CapacityOf(c) = None
        /\ CapacityOf(c)' = [gpu_count |-> n, status |-> "AVAILABLE"]
        /\ \A d \in Clusters : d # c => CapacityOf(d)' = CapacityOf(d)
    <3>1. /\ clusters[c] = None /\ clusters'[c] \in ClusterRow
          /\ clusters'[c].gpu_count = n /\ clusters'[c].status = "AVAILABLE"
          /\ \A d \in Clusters : d # c => clusters'[d] = clusters[d]
      BY <1>1, CapacitiesTyped DEF CreateCluster, Exists, ClusterRow, ResourceStatus, Typed, TypeOK
    <3> QED
      BY <3>1, SentinelsApart DEF CapacityOf
  <2>2. UNCHANGED <<reservations, keys>>
    BY <1>1 DEF CreateCluster
  <2>3. \A s \in Keys \X Users : BoughtBy(s)' = BoughtBy(s)
    BY <2>2 DEF BoughtBy
  <2>4. CapacityOf(c)' \in [gpu_count : Nat, status : {"AVAILABLE"}]
    BY <2>1, CapacitiesTyped
  <2> QED
    BY <2>1, <2>2, <2>3, <2>4 DEF Ledger!Open, Ledger!Others
<1>2. ASSUME NEW u \in Users, NEW limit \in Limits, PutQuota(RoleOf[u], limit)
      PROVE  UNCHANGED Ledger!ledger
  BY <1>2 DEF PutQuota, Ledger!ledger, CapacityOf, BoughtBy
<1> QED
  BY <1>1, <1>2 DEF Admin

LEMMA StepIsLedger ==
    ASSUME LedgerInv, LedgerInv', [Next]_vars
    PROVE  [Ledger!Next]_(Ledger!ledger)
<1> USE DEF LedgerInv, CounterInv
<1>1. UNCHANGED tables => UNCHANGED Ledger!ledger
  BY DEF tables, Ledger!ledger, CapacityOf, BoughtBy
<1>2. UNCHANGED vars => UNCHANGED tables
  BY DEF vars, tables
<1>3. ASSUME NEW q \in Requests, ReserveCommit(q) PROVE Ledger!Next
  <2>1. /\ call[q].user \in Users /\ call[q].cluster \in Clusters
        /\ call[q].gpu_count \in 1..MaxUnits /\ call[q].key \in Keys \cup {None}
    BY <1>3, Bought DEF ReserveCall
  <2>2. Ledger!Grant(q, call[q].user, call[q].cluster, call[q].gpu_count, call[q].key)
    BY <1>3, GrantIsLedger
  <2> QED
    BY <2>1, <2>2 DEF Ledger!Next
<1>4. ASSUME NEW q \in Requests, CancelCommit(q) PROVE Ledger!Next
  <2>1. call[q].reservation \in Requests
    BY <1>4, Released
  <2> QED
    BY <1>4, <2>1, ReleaseIsLedger DEF Ledger!Next
<1>5. ASSUME NEW q \in Requests, UpdateCommit(q) PROVE Ledger!Next
  BY <1>5, UpdateIsLedger DEF Ledger!Next
<1>6. ASSUME NEW q \in Requests, Step1(q) PROVE [Ledger!Next]_(Ledger!ledger)
  BY <1>1, <1>3, <1>4, <1>5, <1>6, OnlyCommitsWrite
<1>7. CASE Admin
  BY <1>7, AdminIsLedger DEF Ledger!Next
<1> QED
  BY <1>1, <1>2, <1>6, <1>7 DEF Next, Step1

(* The committed tables are a GpuLedger for every set of requests: each    *)
(* COMMIT grants, releases or edits what no other statement in flight can  *)
(* still overturn, and nothing else is ever visible.                       *)
THEOREM GpusImplementLedger == Spec => ImplementsLedger
<1>1. LedgerInv /\ LedgerInv' /\ [Next]_vars => [Ledger!Next]_(Ledger!ledger)
  BY StepIsLedger
<1>2. Spec => []LedgerInv
  BY CounterInvHolds, KeyInvHolds, PTL DEF LedgerInv
<1> QED
  BY <1>1, <1>2, InitIsLedger, PTL DEF Spec, ImplementsLedger
=============================================================================
