------------------------------ MODULE Accounts ------------------------------
(***************************************************************************)
(* Who may do what: registration and sign-in (app/auth), the token and the *)
(* role gate (app/core/security.py, app/core/dependencies.py), and the two *)
(* endpoints that the gate protects and that no row lock guards: the PUT   *)
(* of a quota policy (app/quotas/router.py) and the POST of a catalogue    *)
(* entry (app/courses/service.py, create_course).                          *)
(*                                                                         *)
(* Nothing here takes a lock.  INSERTs are decided by a unique index: on   *)
(* users.email, courses.code and role_quotas(role, resource_type); an      *)
(* INSERT waits for an open transaction that has inserted the same value.  *)
(*                                                                         *)
(* The module has the server's variables and handlers; Portal extends it   *)
(* with the browsers that call them.                                       *)
(***************************************************************************)
EXTENDS Integers, FiniteSets

CONSTANTS
    Requests,       \* the HTTP requests served, each once, numbered
    Emails,
    SeededUsers,    \* the accounts of scripts/seed.py: [id -> [email, role]]
    Pairs,          \* (role, resource_type) pairs an admin may PUT
    SeededPolicies, \* the pairs that have a row at the start, with max_units
    Limits,         \* max_units values an admin may PUT
    Codes,          \* course codes as an admin may type them
    Canonical,      \* [Codes -> Codes]: upper case, single spaces
    MaxLost,        \* bound: connections that may break
    None,           \* no row, no value
    Unlimited       \* max_units IS NULL

Role == {"STUDENT", "FACULTY", "ADMIN"}

(* users.id: seeded, or the request that inserted the row.                 *)
Ids == DOMAIN SeededUsers \cup Requests

UserRow == [email : Emails, role : Role]
RoleQuota == [pair : Pairs, max_units : Nat \cup {Unlimited}, by : Requests \cup {None}]

(* A catalogue entry, and the request that made it.                        *)
Course == [code : Codes, by : Requests]

(* The claims of a token, and whether exp is still to come.                *)
Claims == [sub : Ids, role : Role, live : BOOLEAN]

ASSUME RequestsNumbered == Requests \subseteq Nat /\ MaxLost \in Nat
ASSUME SeedTyped ==
    /\ \A i \in DOMAIN SeededUsers : SeededUsers[i] \in UserRow
    /\ \A i, j \in DOMAIN SeededUsers :
          SeededUsers[i].email = SeededUsers[j].email => i = j
    /\ DOMAIN SeededPolicies \subseteq Pairs
    /\ \A p \in DOMAIN SeededPolicies : SeededPolicies[p] \in Nat \cup {Unlimited}
    /\ Limits \subseteq Nat \cup {Unlimited}
ASSUME SeededIdsApart == DOMAIN SeededUsers \cap Requests = {}
ASSUME CanonicalIdempotent ==
    /\ Canonical \in [Codes -> Codes]
    /\ \A c \in Codes : Canonical[Canonical[c]] = Canonical[c]

VARIABLES
    users,      \* table users, by id
    policies,   \* table role_quotas, a set of rows
    courses,    \* table courses, a set of rows
    pc,         \* what each request does next
    call,       \* what each request asks for
    found,      \* the policy row a PUT read
    reply       \* [code, body] of each request, None before it

tables == <<users, policies, courses>>
request == <<pc, call, found, reply>>

-----------------------------------------------------------------------------
Goto(q, step) == pc' = [pc EXCEPT ![q] = step]

(* The session is closed; what was not committed is rolled back.           *)
Answer(q, code, body) ==
    /\ reply' = [reply EXCEPT ![q] = [code |-> code, body |-> body]]
    /\ found' = [found EXCEPT ![q] = None]
    /\ Goto(q, "done")
    /\ UNCHANGED call

Refuse(q, code) == Answer(q, code, None) /\ UNCHANGED tables

InFlight(q) == pc[q] \notin {"idle", "done"}
At(q, step, op) == pc[q] = step /\ call[q].op = op

-----------------------------------------------------------------------------
(* POST /auth/register : register.                                         *)

Registered(email) == { i \in Ids : users[i] # None /\ users[i].email = email }

(* Another open transaction has inserted this e-mail.                      *)
EmailPending(q) ==
    \E p \in Requests \ {q} : At(p, "inserted", "register") /\ call[p].email = call[q].email

(* Mutant: A SELECT for the e-mail, then the INSERT, and no constraint. *)
InsertUserChecked(q) ==
    /\ At(q, "arrived", "register")
    /\ Registered(call[q].email) = {}
    /\ Goto(q, "inserted")
    /\ UNCHANGED <<tables, call, found, reply>>

(* The INSERT is the check: UNIQUE(users.email).                           *)
InsertUser(q) ==
    /\ At(q, "arrived", "register")
    /\ ~EmailPending(q)
    /\ Registered(call[q].email) = {}
    /\ Goto(q, "inserted")
    /\ UNCHANGED <<tables, call, found, reply>>

(* Mutant: An INSERT that meets an open one is refused at once. *)
EmailTakenOrPending(q) ==
    /\ At(q, "arrived", "register")
    /\ Registered(call[q].email) # {} \/ EmailPending(q)
    /\ Refuse(q, "EMAIL_ALREADY_REGISTERED")

EmailTaken(q) ==
    /\ At(q, "arrived", "register")
    /\ Registered(call[q].email) # {}
    /\ Refuse(q, "EMAIL_ALREADY_REGISTERED")

RegisterCommit(q) ==
    /\ At(q, "inserted", "register")
    /\ users' = [users EXCEPT ![q] = [email |-> call[q].email, role |-> call[q].role]]
    /\ UNCHANGED <<policies, courses>>
    /\ Answer(q, "CREATED", q)

-----------------------------------------------------------------------------
(* POST /auth/login : authenticate, create_access_token.                   *)

create_access_token(i) == [sub |-> i, role |-> users[i].role, live |-> TRUE]

(* One 401 for an unknown e-mail and for a wrong password.                 *)
Login(q) ==
    /\ At(q, "arrived", "login")
    /\ \/ \E i \in Registered(call[q].email) : Answer(q, "TOKEN", create_access_token(i))
       \/ Answer(q, "UNAUTHORIZED", None)
    /\ UNCHANGED tables

-----------------------------------------------------------------------------
(* get_current_user and require_role, before the handler of any call that  *)
(* carries a token.                                                        *)

(* get_current_user loads the row of the token's subject.                  *)
Authentic(token) == token.live /\ users[token.sub] # None

Gated == {"put", "course"}      \* the calls behind require_role(ADMIN)

(* Mutant: require_role trusts the claim, as decided at Deadline 1. *)
AuthorizeOnClaim(q) ==
    /\ pc[q] = "arrived" /\ call[q].op \in Gated
    /\ Authentic(call[q].token) /\ call[q].token.role = "ADMIN"
    /\ Goto(q, "handler")
    /\ UNCHANGED <<tables, call, found, reply>>

(* require_role(ADMIN): the role is the row's, not the claim's.            *)
Authorize(q) ==
    /\ pc[q] = "arrived" /\ call[q].op \in Gated
    /\ Authentic(call[q].token) /\ users[call[q].token.sub].role = "ADMIN"
    /\ Goto(q, "handler")
    /\ UNCHANGED <<tables, call, found, reply>>

AuthorizeRefuses(q) ==
    /\ pc[q] = "arrived" /\ call[q].op \notin {"register", "login"}
    /\ \/ ~Authentic(call[q].token) /\ Refuse(q, "UNAUTHORIZED")
       \/ /\ Authentic(call[q].token) /\ call[q].op \in Gated
          /\ users[call[q].token.sub].role # "ADMIN"
          /\ Refuse(q, "FORBIDDEN")

-----------------------------------------------------------------------------
(* PUT /admin/quotas/{role}/{resource_type} : put_quota.                   *)

RowsOf(pair) == { r \in policies : r.pair = pair }

PolicyPending(q) ==
    \E p \in Requests \ {q} : At(p, "inserted", "put") /\ call[p].pair = call[q].pair

FindPolicy(q) ==
    /\ At(q, "handler", "put")
    /\ \/ RowsOf(call[q].pair) = {} /\ Goto(q, "insert") /\ UNCHANGED found
       \/ \E r \in RowsOf(call[q].pair) :
             found' = [found EXCEPT ![q] = r] /\ Goto(q, "update")
    /\ UNCHANGED <<tables, call, reply>>

(* A value equal to the one read emits no UPDATE; the answer is a refresh  *)
(* after COMMIT.  The row is never deleted.                                *)
PutUpdate(q) ==
    /\ pc[q] = "update"
    /\ policies' =
          IF call[q].max_units = found[q].max_units THEN policies
          ELSE { IF r.by = found[q].by /\ r.pair = found[q].pair
                 THEN [r EXCEPT !.max_units = call[q].max_units] ELSE r : r \in policies }
    /\ UNCHANGED <<users, courses>>
    /\ Answer(q, "OK", None)

(* Mutant: role_quota_unique is not in the migrations. *)
PutInsertUnchecked(q) ==
    /\ pc[q] = "insert"
    /\ Goto(q, "inserted")
    /\ UNCHANGED <<tables, call, found, reply>>

PutInsert(q) ==
    /\ pc[q] = "insert"
    /\ ~PolicyPending(q)
    /\ RowsOf(call[q].pair) = {}
    /\ Goto(q, "inserted")
    /\ UNCHANGED <<tables, call, found, reply>>

(* Two admins, both without a row: role_quota_unique rejects the second,   *)
(* and put_quota catches no IntegrityError.                                *)
PutInsertRejected(q) ==
    /\ pc[q] = "insert"
    /\ RowsOf(call[q].pair) # {}
    /\ Refuse(q, "ERROR")

PutCommit(q) ==
    /\ At(q, "inserted", "put")
    /\ policies' = policies \cup
          {[pair |-> call[q].pair, max_units |-> call[q].max_units, by |-> q]}
    /\ UNCHANGED <<users, courses>>
    /\ Answer(q, "OK", None)

-----------------------------------------------------------------------------
(* POST /courses : create_course, on the code in its canonical spelling.   *)

Listed(code) == { c \in courses : c.code = code }
CourseCode(q) == Canonical[call[q].code]

CodePending(q) ==
    \E p \in Requests \ {q} : At(p, "inserted", "course") /\ CourseCode(p) = CourseCode(q)

(* Mutant: The index is not unique. *)
InsertCourseUnchecked(q) ==
    /\ At(q, "handler", "course")
    /\ Goto(q, "inserted")
    /\ UNCHANGED <<tables, call, found, reply>>

InsertCourse(q) ==
    /\ At(q, "handler", "course")
    /\ ~CodePending(q)
    /\ Listed(CourseCode(q)) = {}
    /\ Goto(q, "inserted")
    /\ UNCHANGED <<tables, call, found, reply>>

(* IntegrityError of ix_courses_code.                                      *)
CourseCodeTaken(q) ==
    /\ At(q, "handler", "course")
    /\ Listed(CourseCode(q)) # {}
    /\ Refuse(q, "COURSE_CODE_TAKEN")

CourseCommit(q) ==
    /\ At(q, "inserted", "course")
    /\ courses' = courses \cup {[code |-> CourseCode(q), by |-> q]}
    /\ UNCHANGED <<users, policies>>
    /\ Answer(q, "OK", None)

-----------------------------------------------------------------------------
(* The environment: a connection goes while a statement of the handler is  *)
(* under way, and what is open is rolled back (before, there is nothing to *)
(* roll back); somebody edits users.role in psql, the only way a role      *)
(* changes.                                                                *)

ConnectionLost(q) ==
    /\ InFlight(q) /\ pc[q] # "arrived"
    /\ Cardinality({ p \in Requests : reply[p] # None /\ reply[p].code = "ERROR" }) < MaxLost
    /\ Refuse(q, "ERROR")

Demote(i) ==
    /\ users[i] # None /\ users[i].role = "ADMIN"
    /\ users' = [users EXCEPT ![i].role = "STUDENT"]
    /\ UNCHANGED <<policies, courses, request>>

-----------------------------------------------------------------------------
ServerInit ==
    /\ users = [i \in Ids |-> IF i \in DOMAIN SeededUsers THEN SeededUsers[i] ELSE None]
    /\ policies = { [pair |-> p, max_units |-> SeededPolicies[p], by |-> None] :
                        p \in DOMAIN SeededPolicies }
    /\ courses = {}
    /\ pc = [q \in Requests |-> "idle"]
    /\ call = [q \in Requests |-> None]
    /\ found = [q \in Requests |-> None]
    /\ reply = [q \in Requests |-> None]

ServeAccounts(q) ==
    \/ InsertUser(q) \/ EmailTaken(q) \/ RegisterCommit(q) \/ Login(q)
    \/ Authorize(q) \/ AuthorizeRefuses(q)
    \/ FindPolicy(q) \/ PutUpdate(q) \/ PutInsert(q) \/ PutInsertRejected(q) \/ PutCommit(q)
    \/ InsertCourse(q) \/ CourseCodeTaken(q) \/ CourseCommit(q)
    \/ ConnectionLost(q)

-----------------------------------------------------------------------------
(* Properties.                                                             *)

(* However registrations, PUTs and creates race, an e-mail names one       *)
(* account, a code, in whatever spelling, one course and a pair one policy *)
(* (a second row would make every limit_for raise), and nobody is told     *)
(* that a value is taken by a request that came to nothing (register,      *)
(* create_course, put_quota: "the INSERT is the check").                   *)
UniqueRowsDecide ==
    /\ \A i, j \in Ids :
          users[i] # None /\ users[j] # None /\ users[i].email = users[j].email => i = j
    /\ \A r, s \in policies : r.pair = s.pair => r = s
    /\ \A c, d \in courses : Canonical[c.code] = Canonical[d.code] => c = d
    /\ \A q \in Requests : reply[q] # None =>
          /\ reply[q].code = "EMAIL_ALREADY_REGISTERED" => Registered(call[q].email) # {}
          /\ reply[q].code = "COURSE_CODE_TAKEN" => Listed(CourseCode(q)) # {}

(* "A demoted admin loses admin immediately rather than 60 minutes later": *)
(* a gated call that reaches the server after the demotion never succeeds, *)
(* though its token claims ADMIN and its browser shows the Admin page.     *)
DemotedAtOnce ==
    \A q \in Requests :
        [](/\ pc[q] = "arrived" /\ call[q].op \in Gated
           /\ users[call[q].token.sub].role # "ADMIN"
           => [](reply[q] = None \/ reply[q].code # "OK"))
=============================================================================
