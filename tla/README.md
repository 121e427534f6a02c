# Verification of the campus resource system

TLA+ modules, TLC runs and TLAPS proofs about the transactions of `app/`: a
FastAPI service on PostgreSQL (READ COMMITTED) where students, faculty and
admins reserve GPUs, book rooms and take seats in courses, and every guarantee
rests on the order in which a handful of row locks is taken.

## 1. Inventory

Each HTTP request runs in a worker thread with a session of its own
(`database/session.py`): one transaction from `get_current_user` to the COMMIT
the service writes by hand, rolled back when the session closes.  Requests meet
only in the tables and in row locks.

| component | state | operations | what is hard | what makes it correct |
|---|---|---|---|---|
| GPU reservations `app/gpus` | `gpu_clusters.allocated`, `gpu_reservations` | reserve, cancel, PATCH, POST | a counter updated from a row read earlier; two locks per request; releases by the owner or an admin; shrinking while units are held | counter = sum of ACTIVE rows; never oversold; no circle of waits; every request answered |
| Idempotency `app/idempotency` | `idempotency_keys` | claim, record_response | retries that run while the first request is running, committed or rolled back; crash between key and allocation | one reservation per (key, user); key and reservation durable together; a replay shows the caller's own request |
| Quotas `app/quotas` | `role_quotas` | three gates, PUT, usage snapshot | the gate counts rows nobody holds a lock on but the user's own; the policy is read without a lock | what the gate counted stays true to COMMIT, within the limit the gate read |
| Rooms `app/rooms` | `reservations`, `resources.status` | reserve, cancel, PATCH, POST | overlap decided by an exclusion constraint whose INSERT enters the index before it looks; BLOCKED by a shared lock against an UPDATE on an unlocked read; two rooms share no row, the quota must | no room held twice at an instant; none booked while blocked; the gate's count stays true to COMMIT; circles only of simultaneous inserts |
| Courses `app/courses` | `course_offerings.enrolled_count`, `enrollments`, `waitlist_entries` | register, drop and promote, join, leave | promotion takes a second user row with SKIP LOCKED; positions computed after COMMIT | seats = ACTIVE enrollments <= capacity; never enrolled and queued; no clashing seats; no circle of waits |
| Accounts, policies, catalogue `app/auth`, `app/core`, `app/quotas/router.py`, `create_course` | `users`, `role_quotas`, `courses` | register, login, role guard, PUT policy, POST course | no lock at all: a unique index decides; a token outlives the role it claims | one account per e-mail, one policy per pair, one course per code; a demotion takes effect at once |
| Session pool `app/database` | connections | checkout at the first statement, return at COMMIT and close | requests hold a connection while they wait for a lock, and need one again to answer | a wait for a connection ends without `pool_timeout` |
| Frontend `frontend/app.py` | `session_state` of each browser: token, cached user, idempotency key, ids seen | sign-in, register, reserve, release, book, cancel, edit, new key, sign-out | an answer that is lost, late or abandoned by another click, while the server carries the request out; an account changed in one browser | one press, one reservation per key; no ids of another account; a page that settles |

Everything else (settings, error formatting, token cryptography, migrations, the
check scripts) keeps no state the transactions race on; see "Not modelled".  `PROJECT.json` lists every component with its status and every hazard
at its line.

## 2. Modules

| module | what it is |
|---|---|
| `RowLocks` | external: PostgreSQL's row lock modes, their conflict table, the circle of waits |
| `UnitSums` | `SUM(gpu_count)` over a set of rows, as a cardinality (so that it can be proved about) |
| `GpuLedger` | abstract: clusters, holds and keys; a hold is granted, released or refused in one step |
| `GpuReservations` | `app/gpus` with the idempotency and quota code its transactions call |
| `SeatLedger` | abstract: seats, queues and a timetable; a seat is taken, given back or handed on in one step |
| `CourseRegistration` | `app/courses` with the quota code its transactions call |
| `RoomCalendar` | abstract: a calendar per room; a slot is booked or given back in one step |
| `RoomBookings` | `app/rooms` with its quota gate, the exclusion constraint and the connection pool |
| `Accounts` | registration, sign-in, the role gate, PUT of a policy, POST of a course: unique indexes and no locks |
| `Portal` | the web page in front of `Accounts` (extended), `GpuLedger` and `RoomCalendar` (instances) |
| `MCGpuReservations`, `MCCourseRegistration`, `MCRoomBookings`, `MCPortal` | constants of the TLC runs |
| `UnitSumsProofs`, `GpuReservationsProofs`, `GpuLedgerProofs`, `GpuRequestsProofs` | lemmas and theorems about the GPU service |
| `CourseRegistrationProofs`, `CourseLedgerProofs`, `RoomBookingsProofs`, `PortalProofs` | lemmas and theorems about courses, rooms, accounts and page |

### GpuReservations and the code

A process is one request.  A step is one SQL statement of its transaction, or
COMMIT; Python between two statements belongs to the statement before it, since
it only reads what that statement returned.  `clusters`, `reservations`, `keys`
and `quotas` hold what is committed.  What a session has not committed is in the
request's own variables: `call` (what it asks for), `seen` (the cluster row it
read under its lock), `limitRead` (the policy the gate read).  `pc` names the
statement it executes next:

- reserve: `claim` (INSERT the key: waits for an uncommitted row in the same
  unique slot), `claimUser` (the foreign key takes the user row FOR KEY SHARE),
  `lockUser` (FOR UPDATE), `quotaGate`, `lockCluster` (FOR UPDATE, then status
  and capacity in memory), `commit`, `refresh` (the answer is read after COMMIT);
- cancel: `lockOwner`, `lockHeld`, `recheck` (`db.refresh`), `release` (COMMIT),
  `reread`;
- PATCH: `lockEdit`, `edit`.

A lock statement is enabled when no other transaction holds a conflicting lock;
there is no wait queue, which allows more orders than the server does.  An
answer closes the session: locks go and nothing uncommitted stays.
`ConnectionLost` may end a request at any statement; `DeadlockVictim` is the
server aborting one member of a circle of waits.  Both become the 500 of an
exception nobody catches.

Abstractions.  The joined rows `resources`/`gpu_clusters` are one row with one
lock (every statement that locks one locks both, in one order).  The policy read
and the SUM of the quota gate are one step: the caller holds the user row, so
the SUM cannot change between the two and any PUT may be ordered before or
after the step.  A reservation's id is the name of the request that inserts it.  Names,
timestamps and JSON are left out; the fingerprint is the pair it digests.  The CHECK
`gpu_capacity_sane` is not a guard: that its condition always holds is what
`CounterMatchesRows` and `NoOversell` say, so it never has to fire.  A PATCH with
an explicit `null` is outside `Calls` (it fails on NOT NULL and rolls back).

### CourseRegistration and the code

The same conventions.  `offerings`, `enrollments`, `waitlist` and `limit` are what
is committed; `existing`, `seen` and `limitRead` what a request has read;
`todo`, `passed` and `promoted` the progress of a promotion.  Statements that only
read rows of the student whose row the request holds are one step, since nobody
else can change those rows in between.

- all four: `lockStudent` (FOR UPDATE on the caller's row);
- register: `gates` (enrollment, course load, clash), `lockSeat` (FOR UPDATE, then
  the capacity in memory), `commit`, `refresh`;
- drop: `lockSeat`, `checkSeat`, `promote` (one step per queued student: FOR UPDATE
  SKIP LOCKED on that student's row, then the same gates; COMMIT when one is
  seated or none is left), `refresh`;
- join: `checkSeated`, `lockShare` (FOR SHARE on the offering), `findEntry`,
  `commit`, `refresh`, `position` (two reads after COMMIT);
- leave: `lockShare`, `findEntry`, `commit`.

The session runs with autoflush off, so what `drop` has pending (DROPPED,
`enrolled_count - 1`) is written by its COMMIT and the reads of the promotion do
not see it.  `now()` in PostgreSQL is the start of the transaction: `began` is
taken when a join arrives, not when it commits, and only the order of the joins
is told apart (the tie-break by id is left out with ties).

Abstractions.  Unique violations and the CHECK on `enrolled_count` are not guards:
`DecidedOnCurrentRows`, `SeatXorQueue` and `CounterMatchesSeats` say that their
conditions always hold, so they never fire.  The position in
`leave`'s answer, read before its locks, is left out.  Only course requests lock rows here: GPU and room requests
of the same student take the user row first and never wait for an offering, so
they can delay a request or make a candidate busy, as a second course request
does, and add no other wait.  The refusals of `create_offering`
(404 and 409 for a course or instructor) change nothing: `CreateOffering` is the
creation that succeeds, a refused one is a stutter.  `DAY_CODES` keeps of `app/core/schedule.py` what a
clash depends on: which days a code names and which hours overlap.

### RoomBookings and the code

The same conventions, and two differences.  The slot of a booking is protected by
no application lock.  `insert` puts the row into the index of
`no_overlapping_room_reservations`; `overlap` looks for others there: a committed
one is a violation (409), an uncommitted one (`Rivals`) is waited for, and a
row that inserted later is found only by the one that inserted it.  And the
connection is modelled: `Connected` are the requests with an open transaction,
at most `PoolSize`; `connect` and `refresh` wait for a free one.  COMMIT returns
the connection, so the refresh that renders the answer queues for one like a
new request, with its booking already durable.

- reserve: `connect`, `lockUser` (FOR UPDATE), `quotaGate`, `lockRoom` (FOR SHARE,
  then the status), `insert`, `overlap`, `commit`, `refresh`;
- cancel: `connect` (with the unlocked reads of booking and owner), `lockOwner`,
  `recheck`, `release` (COMMIT), `refresh`;
- PATCH: `connect` (the unlocked read kept in `seen`), `edit` (an UPDATE only when
  the value differs from the one read: it waits for FOR SHARE holders), `refresh`.
  An explicit `null` passes the schema; the UPDATE fails on NOT NULL (`UpdateNull`),
  a 500.

The policy is the variable `quotas`, read at every gate (`limitRead` keeps what a request
read).  `PutQuota` changes it at any moment, up or down, below what users hold too:
it evicts nobody and binds from the next gate on.  So "nobody holds more rooms than
the policy lets" is not true of the code, and the property is `QuotaSecured`: from
its gate to its COMMIT a booking stays within the limit the gate read.

`DEADLOCK` and `ERROR` are two names for a 500, told apart so that
`LosersGetConflict` is about the circle alone.  The foreign keys of a booking take
KEY SHARE on the user row, which the request holds FOR UPDATE, and on the room
row, which it holds FOR SHARE: neither can make it wait, so they are left
out.  Times are natural numbers; the conversion to UTC happens before they are
compared.  `PoolTimeout` is allowed but never relied on.

### Accounts, Portal and the code

`Accounts` has the handlers that no lock guards.  An INSERT is two steps, the
statement (refused by a committed duplicate, not enabled beside an uncommitted one)
and the COMMIT.  `put_quota` reads first (`FindPolicy`) and then inserts or
updates; the loser of two inserts is answered 500, since nothing catches its
violation.  `create_course` works on the code as normalised, `Canonical`.
`Authorize` is `get_current_user` with `require_role`: the row's role, never the
claim.  `Demote` stands for the UPDATE in psql, the only way a role changes.

`Portal` extends it with browsers.  A press is one request (`Send`), and the handler
waits (`awaiting`).  It ends with the answer (`Show...`), with `requests`' timeout
or a broken connection (`GiveUp`, the server may still carry the request out), or
because the user clicked meanwhile (`Click`, then `Abandon`: Streamlit drops the
handler before the line that uses the answer).  `session_state` is the five
variables of `state`; `wish` is history, counting the times the user asked for a
new key or signed out, and changes no behaviour.  What the server does with GPU
holds and bookings are the one-step operations of `GpuLedger` and `RoomCalendar`,
so the page composes with the services through the refinements proved below.

Abstractions.  The key is a number per browser (uuid4 never repeats).  A reserve
always asks for one unit of the one cluster, so the fingerprint never differs.
The page offers a release of ids it has seen or of one typed by hand: `Offered`.
Cancelling a booking that is cancelled already changes nothing and is answered 200, so
the page drops its id all the same.
A token is a record that nobody can forge; `live` is that it has not expired.

## 3. Runs

All with two workers, no deadlock check: when every request has been answered
and admins do nothing the system may stop.

| run | instance | checks |
|---|---|---|
| `gpu_unkeyed` | 3 requests, 2 users (student, admin), cluster c1 with 2 units, c2 created during the run, a limit of 2 that is lowered to 1 and raised to unlimited | `TypeOK`, `CounterMatchesRows`, `NoOversell`, `QuotaSecured`, `DecidedOnCurrentRow`, `OnlyCancelReleases`, `NoDeadlock` |
| `gpu_keyed` | 4 requests, 2 keys, 2 users, one cluster of 2 units, a policy of 2 or none | `ExactlyOnce`, `KeyIffAllocation`, `ReplayFaithful`, `AnswersMatchTables`, `ImplementsLedger` |
| `gpu_liveness` | 3 keyed requests, fairness | `EveryRequestAnswered` |
| `gpu_deadlock` | 2 keyed requests | violates `NoDeadlock` |
| `gpu_replay` | 3 keyed requests | violates `ReplayIndistinguishable` |
| `course_seats` | 3 requests, 4 students; o1 with 2 seats taken and 2 queued, o2 with 1 free seat at a clashing hour; no policy or 1, then 2 and 1 in turn | `TypeOK`, `CounterMatchesSeats`, `NoOverbooking`, `SeatXorQueue`, `NoScheduleClash`, `LoadSecured`, `DecidedOnCurrentRows`, `NoDeadlock`, `OldestEligible`, `ImplementsLedger` |
| `course_liveness` | 3 requests, 3 students, one taken seat, one queued, o2 opened during the run, fairness | `EveryRequestAnswered` |
| `course_place` | 3 requests around one seat, a limit of 2 lifted during the run | violates `PlaceKept` |
| `course_join` | 2 requests around one seat | violates `JoinIsAnswered` |
| `rooms` | 3 requests, a student (limit 2, lowered to 1 at any moment) and an admin (limit 1), two adjacent windows and one overlapping both, r2 created, blocked and unblocked during the run, 2 connections, one of which may break, fairness | `TypeOK`, `NoDoubleBooking`, `ConflictMeansBooking`, `QuotaSecured`, `CirclesOnlyOnSlots`, `NoneOnBlocked`, `RefusedOnSettledRows`, `EveryRequestAnswered`, `ImplementsCalendar` |
| `rooms_slot` | 3 requests of two users for one slot, 50 connections | violates `LosersGetConflict` |
| `portal` | one browser, signed out or in as a student, 3 requests, two spellings of one course code, a pair with a policy and one without, one new key, one broken connection, demotion and expiry | `TypeOK`, `UniqueRowsDecide`, `PressedTwiceBooksOnce`, `NoForeignIds`, `DemotedAtOnce`, `PageSettles` |

Bounds.  Three requests are enough for the races the code defends against: two
that compete and one that prepares or disturbs (a reservation to release twice,
a resize between two allocations).  Keys need four: original, retry, reuse and a
release.  Two units make 1+1, 2 and 1+2 the fitting, the full and the overfull
case; `MaxUnits` = 2 is the largest count asked for.  For
courses three requests are a drop, a request that keeps its first candidate busy
and one that changes what the second may do; two drops side by side free two
seats for a queue of two.  A clashing o2 lets a candidate become unfit while queued.
For rooms two connections for three requests make the pool the scarce thing: two
that wait in the database leave none for the third, nor for an answer.  One
browser is enough for `portal`, since a request it gave up keeps running beside
its next one, and three requests let two race against the third or follow it.
The counters with no bound in the code have one there, named: `MaxKeys` (new
keys) and `MaxLost` (broken connections).
Requests are symmetric in the passing safety runs of GPUs and courses; no run
with liveness uses symmetry.

Fairness.  `FairSpec` assumes that a worker thread continues a request whose
next statement can run, and that the server aborts one member of a circle of
waits (`deadlock_timeout`).  The one of `CourseRegistration` needs no such victim,
since `NoDeadlock` holds there; the one of `RoomBookings` asks only that some
request that can go on or be made a victim is, and not that `pool_timeout` fires, so
that a wait for a connection must end because a holder finishes.  Its
`EveryRequestAnswered` says that again and again nobody is in flight, which answers
every request, since each is served once.  `Portal` assumes only
the browser: a script run goes on, and `requests` gives up after `TIMEOUT`
(`WF` of `Return` and `Load`); neither server nor user need do anything.  Nothing
obliges clients to send, admins to act or
connections to break.  Each request is served once and their number is finite,
so nobody waits behind an endless stream of others; that the real lock queue
prevents it for endless streams too is not modelled.

### What the violations show

- **Deadlock.** `reserve_gpu` promises that deadlock is "structurally impossible
  rather than merely unlikely".  Without keys it holds (`gpu_unkeyed`).  With
  keys the INSERT into `idempotency_keys` takes the user row FOR KEY SHARE
  through its foreign key, before `reserve_gpu` asks for the same row FOR
  UPDATE: two requests of one user with two keys wait for each other.  The server
  resolves it, so every request is still answered (`gpu_liveness`), one with a 500.
- **Slot.** "the other {RACERS - 1} -> 409 INTERVAL_CONFLICT, no 500s"
  (`check_rooms.py`): two bookers whose rows enter the index at the same moment find
  and wait for each other.  PostgreSQL ends the circle with DeadlockDetected, an
  OperationalError, while `reserve_room` catches IntegrityError only: 500.
- **Place.** "A queued student cannot lose their place": the promotion that passes
  over a busy or limited student leaves the seat free, and anyone may register
  into it although that student is still queued and now eligible.
- **Join.** `join_waitlist` refreshes its entry after COMMIT to render it; a drop
  that promotes the student in between has deleted the row and the 201 becomes
  a 500, although the join was durable (and has just been served).
- **Replay.** The stored response is rendered before COMMIT, the first answer
  from a refresh after it; a release in between makes them differ.

Beside these: `limit_for` argues that "held <= limit" holds at commit time
(`app/quotas/service.py:91`).  It does of the limit the gate read (`QuotaSecured`, of GPUs
and rooms; `LoadSecured`, of courses), not of one an admin lowers between the gate
and COMMIT.  That COMMIT does not see it, as the docstring of `put_quota` lets one
expect.

Seen while reading, and not runs: the page looks for `OFFERING_FULL` to suggest
the queue (`frontend/app.py:570`) while the server sends `CAPACITY_EXHAUSTED`; it
captions the usage table "under a lock" (`:260`), which `usage_snapshot` takes none
of; `security.py:66-70` still says the role claim authorises, which
`dependencies.py:99` has reversed; a room booking has no idempotency key, so one
whose answer is lost is found only through the availability check.

## 4. Proofs

`UnitSumsProofs` shows how a sum changes when a row joins, leaves or keeps its
count.  `GpuReservationsProofs` proves, for every set of users, clusters, keys and
requests (finitely many requests), any policy and capacities:

- `TypeCorrect`: `[]TypeOK`.  Inductive with `SessionsOK`: what a request knows at
  each statement (its call is of the right kind, its row is or is not there yet,
  the cluster exists), true because rows are never deleted and key columns never
  change.
- `DecisionsStayCurrent`, `CounterIsExact`, `NeverOversold`: the invariant is
  `CounterInv == Typed /\ LocksHeld /\ AllDecided /\ Counted`.  The counter alone
  is not inductive: COMMIT writes `seen.allocated + n`.  `LocksHeld` says which row
  locks a request holds at each statement and that no two exclude each other;
  from it `AllDecided` (the row read is still the row, and a row about to be
  released is still ACTIVE because its owner's row is locked); from both, that
  counter and sum move together.
- `QuotaGateHolds`: `QuotaInv` uses the same locks for the user row: between gate
  and COMMIT no other request of that user grants or releases.

`GpuLedgerProofs` continues with what clients are promised:

- `OncePerKey`, `KeysAndAllocationsAgree`: `KeyInv == Typed /\ SlotsClaimed /\ KeysBought`.
  Neither property is inductive: COMMIT must know that its slot is still empty.
  `SlotsClaimed` says so for every request past its INSERT, and that no two are
  past it with one slot; `KeysBought` that each committed key was written by the
  COMMIT of the reservation it names, with the fingerprint of that call.
- `ReplaysAreFaithful`: what a replay shows is that reservation, and rows keep
  their columns.
- `GpusImplementLedger`: from `CounterInv /\ KeyInv` the COMMIT of a reservation is a
  `Grant` (room by `AllDecided` and `Counted`, an unspent key by `SlotsClaimed`), a
  release a `Release`, a PATCH an `Edit` (by `NoOversell` after it), POST an `Open`,
  and every other statement a stutter.

`GpuRequestsProofs` looks at what a single request may do and wait for:

- `AnswersAreTrue`: `AnswerInv == KeyInv /\ \A q : Answered(q)`.  That a refusal left no
  key row needs `KeyInv`: a key belongs to the reservation that bought it.
- `ReleasesAreCancels`: an action property, from the types alone; rows change at two
  commits, and the one that cancels has passed the owner-or-admin check.
- `OnlyKeysMakeCircles`: whatever set of requests waits only for members of itself, two
  of them wait for one user's row, each with a key of its own.  `HoldersKnown` says
  which rows the holder of a lock holds and at which statement it can be;
  whoever holds a cluster waits for nobody, whoever holds a user FOR UPDATE
  waits for a cluster at most, so only KEY SHARE, taken by a key's foreign key, is
  left.  The deadlock of `gpu_deadlock` is therefore the only kind there is.
- `UnkeyedNeverStuck`: hence `[]NoDeadlock` when no call carries a key.

`RoomBookingsProofs` proves for every set of rooms, windows, users, policy and
pool, with `RoomInv == Typed /\ LocksHeld /\ Opened /\ Slotted /\ Apart /\
RefusedForBooking /\ QuotaSecured`:

- `NeverDoubleBooked`: no lock takes part.  `Slotted` is the strengthening: a row
  past its check overlaps no committed row and no other row past its check, since
  whichever checked last saw the other in the index; `Apart` is the result on
  endpoints, from which disjoint instants follow by arithmetic.
- `OnlyTakenSlotsRefused`: bookings keep room and window when they are cancelled.
- `QuotaGateHolds`: `LocksHeld` on the user row keeps the gate's count true to COMMIT,
  though requests for two rooms lock different room rows, and whatever an admin PUTs
  meanwhile.
- `BlockedRoomsStayFree`: `Opened`, from FOR SHARE against the UPDATE of a PATCH.
- `RefusalsAreSettled`: a release past its recheck holds its owner's row, which the
  gate needs.
- `RoomsImplementCalendar`: each COMMIT is one step of `RoomCalendar`.

- `OnlySlotsMakeCircles`: locks are taken user, room, slot, and a request that waits for a
  connection holds no lock (`HoldersKnown`), so a set of requests in which nobody
  can move has bookers at `overlap` that wait for each other.  Among the sets in
  which nobody can move one of least size is a circle: the only place where an order
  on natural numbers is used (`LeastNatural`).

`CourseRegistrationProofs` proves for every set of students, sections, timetable and
policy, with `CourseInv == Typed /\ LocksHeld /\ Counted /\ OneClaim /\
NoScheduleClash /\ \A q : Decided(q) /\ InOrder(q)`:

- `LocksHeld` names the rows a request has locked at each statement, and from it
  `Decided` carries what was read under them to COMMIT: the offering, the
  enrollment and the entry are unchanged, and the gate still holds, for the
  caller and for the student a promotion has picked.  This is `DecisionsStayCurrent`
  and `LoadStaysSecured`.
- `CounterIsSeats` and `NeverOverbooked`: `Counted` is not inductive without `Decided`,
  since COMMIT writes `seen.enrolled_count + 1`.  How a count of seats changes when
  one is taken, given up or handed on are lemmas on cardinalities.
- `SeatOrQueue` (`OneClaim`) and `HoursNeverClash`: what one student holds is changed by
  requests that lock that student's row, promotions by others included.
- `PromotesOldestEligible`: `InOrder` says that an entry older than the one that is tried
  was passed over, for a reason that held when its student's row was looked at.
- `NeverStuck`: who holds an offering waits for nobody (the promotion skips locked
  rows), who holds a student waits for an offering, so no set of any size is stuck.

`CourseLedgerProofs`: `CoursesImplementLedger`, one lemma per COMMIT (a seat taken, given
back or handed on, an entry made or left, a section opened).

`PortalProofs` proves for every set of browsers, accounts, policies and course codes:

- `UniqueRowsHold`: `UniqueInv` says that an open INSERT meets neither a committed row nor
  another open INSERT with its value, for e-mails, codes and pairs; without the
  second half two COMMITs could follow each other.
- `ExactlyOnce` and `OwnIdsOnly`: `PageInv`.  `KeyInv`: a key is sent by one account only,
  until another is drawn, though browser and account change hands; `Owned` and
  `Told`: what the server has recorded, and what an answer on its way
  says, are rows of the account that asked; `Known`: so are the ids the page keeps.
- `DemotionBites`: a token names an account that exists (`TokensKnown`), and a request of a
  demoted account that has arrived stays `Doomed` until it is answered.

Assumptions are the named ones of the modules: types of the constants, finitely
many requests, that `None` and `Unlimited` are not values, that what the
tables hold at the start is legal (`SeedLegal`: within capacity and without clashes;
`SeedTyped`: one account per e-mail; `SeededIdsApart`: seeded ids are not handed out
again).  The runs evaluate them.

Every invariant and action property of a passing run is a theorem, one under a
hypothesis that is part of its statement (`UnkeyedNeverStuck`), and so are the three
refinements.  Only model-checked is liveness:
`EveryRequestAnswered` of the three services and `PageSettles`, which rest on
fairness and ENABLED, out of the prover's reach.

## 5. Not modelled

- The application shell (`main.py`, settings, error formatting) and token and
  password cryptography: wiring and pure computation.
- Reads that answer and change nothing: the lists, `usage_snapshot`, GET policy,
  availability (its predicate is `conflicting_reservations`), the dashboard.
- The course page and the Admin forms other than policy and course: one
  request, its answer shown, nothing kept.
- Migrations, run offline; the tables they leave are in the modules.
- `scripts/`: they send the requests `Calls` ranges over, and `seed.py` gives initial
  tables; the two `BENCHMARK_UNSAFE` switches are mutants.
- Fair queueing of locks and an endless stream of requests.

## 6. Plan

1. The safety parts that liveness rests on: that in each service a request in flight has
   a statement that can run, waits for a lock somebody holds, or is in a circle.
2. The lock lemmas of the three services (`LocksHeld` and the steps that keep it) in one
   module about `RowLocks`.
3. A lost room booking (`frontend/app.py:460`) as a run, should a key be added for rooms.
