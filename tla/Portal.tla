------------------------------- MODULE Portal -------------------------------
(***************************************************************************)
(* The web page (frontend/app.py) in front of the server: browsers whose   *)
(* sessions keep a token, the cached user, an idempotency key and the ids  *)
(* they have seen, and that press buttons.                                 *)
(*                                                                         *)
(* A press sends one request and its handler waits for the answer.  The    *)
(* wait can end in three ways: the answer is handled; the request fails or *)
(* takes longer than TIMEOUT, while the server may still carry it out; or  *)
(* the user has clicked something else meanwhile, and Streamlit abandons   *)
(* the handler at its next statement and starts a new run, so that the     *)
(* answer is never seen.                                                   *)
(*                                                                         *)
(* What the server does with accounts and policies is Accounts, statement  *)
(* by statement; what it does with GPU holds and room bookings are the     *)
(* indivisible steps of GpuLedger and RoomCalendar, which GpuReservations  *)
(* and RoomBookings are shown to implement.                                *)
(***************************************************************************)
EXTENDS Accounts

CONSTANTS
    Browsers,
    SignedIn,       \* who may be signed in at the start
    RegisterRoles,  \* roles chosen in the form
    MaxKeys         \* bound: keys a browser may come to use

VARIABLES
    token,          \* session_state["token"], None when signed out
    user,           \* session_state["user"]: id and role as GET /me answered
    my_gpu_reservations,
    my_room_reservations,
    idem_key,       \* the number of the key; a new one is a fresh uuid4
    wish,           \* history: how often the user has asked for a new key or signed out
    awaiting,       \* the request whose answer the handler waits for, or None
    clicked,        \* the user has clicked during the wait
    holds,          \* the server's GPU reservations (GpuLedger)
    spent,          \* the hold each (key, user) bought
    calendar        \* the server's room bookings (RoomCalendar)

state == <<token, user, my_gpu_reservations, my_room_reservations, idem_key, wish>>
page == <<state, awaiting, clicked>>
ledgers == <<holds, spent, calendar>>
vars == <<users, policies, courses, pc, call, found, reply, token, user, my_gpu_reservations,
          my_room_reservations, idem_key, wish, awaiting, clicked, holds, spent, calendar>>

Keys == Browsers \X (0 .. MaxKeys)
CachedUser == [id : Ids, role : Role]

Errors == {"EMAIL_ALREADY_REGISTERED", "COURSE_CODE_TAKEN", "UNAUTHORIZED", "FORBIDDEN", "REFUSED", "ERROR"}

ASSUME BrowsersTyped ==
    /\ SignedIn \subseteq [Browsers -> DOMAIN SeededUsers \cup {None}]
    /\ RegisterRoles \subseteq Role
    /\ MaxKeys \in Nat /\ IsFiniteSet(Requests)
ASSUME SentinelsApart ==
    None \notin Ids \cup UserRow \cup RoleQuota \cup Claims \cup CachedUser \cup Keys
             \cup [cluster : {"cluster"}, user : Ids, gpu_count : {1},
                   status : {"ACTIVE", "CANCELLED"}]
             \cup [room : {"room"}, user : Ids, window : {"slot"}]
             \cup [code : Errors \cup {"TOKEN", "OK", "CREATED"},
                   body : Claims \cup Ids \cup {None}]

(* One cluster with units for all, one room with one slot.                 *)
Gpus == INSTANCE GpuLedger WITH
    Users <- Ids, Clusters <- {"cluster"}, MaxUnits <- 1,
    capacity <- [c \in {"cluster"} |-> [gpu_count |-> Cardinality(Requests), status |-> "AVAILABLE"]]

Diary == INSTANCE RoomCalendar WITH
    Rooms <- {"room"}, Bookers <- Ids, Windows <- {"slot"}, Ids <- Requests,
    Overlapping <- {<<"slot", "slot">>},
    status <- [r \in {"room"} |-> "AVAILABLE"]

-----------------------------------------------------------------------------
(* Pressing a button.                                                      *)

SignedOut(b) == token[b] = None /\ awaiting[b] = None
Ready(b) == token[b] # None /\ user[b] # None /\ awaiting[b] = None

(* The handler sends its request and waits.                                *)
Send(b, c) ==
    \E q \in Requests :
        /\ pc[q] = "idle"
        /\ \A p \in Requests : p < q => pc[p] # "idle"
        /\ Goto(q, "arrived")
        /\ call' = [call EXCEPT ![q] = c]
        /\ awaiting' = [awaiting EXCEPT ![b] = q]
        /\ UNCHANGED <<tables, found, reply, state, clicked, ledgers>>

PressLogin(b, email) == SignedOut(b) /\ Send(b, [op |-> "login", email |-> email])

PressRegister(b, email, role) ==
    SignedOut(b) /\ Send(b, [op |-> "register", email |-> email, role |-> role])

(* The key box is ticked or not; the wish goes along as history.           *)
PressReserve(b) ==
    /\ Ready(b)
    /\ \/ Send(b, [op |-> "reserve", token |-> token[b], key |-> <<b, idem_key[b]>>,
                   wish |-> <<b, wish[b]>>])
       \/ Send(b, [op |-> "reserve", token |-> token[b], key |-> None, wish |-> None])

(* A row of reservations, ACTIVE or CANCELLED; the calendar has only the   *)
(* standing ones.                                                          *)
Booked(i) == reply[i] # None /\ call[i].op = "book" /\ reply[i].code = "CREATED"

(* The ids seen in this session, or an id typed by hand when there is none.*)
Offered(known, ids) == IF known # {} THEN known ELSE ids

PressRelease(b) ==
    /\ Ready(b)
    /\ \E r \in Offered(my_gpu_reservations[b], { i \in Requests : holds[i] # None }) :
          Send(b, [op |-> "release", token |-> token[b], id |-> r])

PressBook(b) == Ready(b) /\ Send(b, [op |-> "book", token |-> token[b]])

PressCancelBooking(b) ==
    /\ Ready(b)
    /\ \E i \in Offered(my_room_reservations[b], { i \in Requests : Booked(i) }) :
          Send(b, [op |-> "cancel", token |-> token[b], id |-> i])

(* The Admin page is offered on the role cached at sign-in.                *)
is_admin(b) == user[b].role = "ADMIN"

PressSavePolicy(b, pair, limit) ==
    /\ Ready(b) /\ is_admin(b)
    /\ Send(b, [op |-> "put", token |-> token[b], pair |-> pair, max_units |-> limit])

PressCreateCourse(b, code) ==
    /\ Ready(b) /\ is_admin(b)
    /\ Send(b, [op |-> "course", token |-> token[b], code |-> code])

(* Mutant: The key is drawn anew whenever a request has failed. *)
GiveUpFreshKey(b) ==
    /\ awaiting[b] # None
    /\ awaiting' = [awaiting EXCEPT ![b] = None]
    /\ clicked' = [clicked EXCEPT ![b] = FALSE]
    /\ idem_key' = [idem_key EXCEPT ![b] = IF @ < MaxKeys THEN @ + 1 ELSE @]
    /\ UNCHANGED <<tables, request, token, user, my_gpu_reservations, my_room_reservations,
                   wish, ledgers>>

(* requests.RequestException, at TIMEOUT at the latest: UNREACHABLE.       *)
GiveUp(b) ==
    /\ awaiting[b] # None
    /\ awaiting' = [awaiting EXCEPT ![b] = None]
    /\ clicked' = [clicked EXCEPT ![b] = FALSE]
    /\ UNCHANGED <<tables, request, state, ledgers>>

Click(b) ==
    /\ awaiting[b] # None /\ ~clicked[b]
    /\ clicked' = [clicked EXCEPT ![b] = TRUE]
    /\ UNCHANGED <<tables, request, state, awaiting, ledgers>>

-----------------------------------------------------------------------------
(* An answer arrives.                                                      *)

Answered(b) == awaiting[b] # None /\ pc[awaiting[b]] = "done"

(* The run is abandoned before the first line that uses the answer.        *)
Abandon(b) ==
    /\ Answered(b) /\ clicked[b]
    /\ awaiting' = [awaiting EXCEPT ![b] = None]
    /\ clicked' = [clicked EXCEPT ![b] = FALSE]
    /\ UNCHANGED <<tables, request, state, ledgers>>

(* The lines after `call` for the answer of a request of kind op.          *)
Handle(b, op, codes) ==
    /\ Answered(b) /\ ~clicked[b]
    /\ call[awaiting[b]].op = op
    /\ reply[awaiting[b]].code \in codes
    /\ awaiting' = [awaiting EXCEPT ![b] = None]
    /\ UNCHANGED <<tables, request, clicked, ledgers>>

Body(b) == reply[awaiting[b]].body

ShowLogin(b) ==
    /\ Handle(b, "login", {"TOKEN"})
    /\ token' = [token EXCEPT ![b] = Body(b)]
    /\ UNCHANGED <<user, my_gpu_reservations, my_room_reservations, idem_key, wish>>

ShowReserved(b) ==
    /\ Handle(b, "reserve", {"CREATED"})
    /\ my_gpu_reservations' = [my_gpu_reservations EXCEPT ![b] = @ \cup {Body(b)}]
    /\ UNCHANGED <<token, user, my_room_reservations, idem_key, wish>>

ShowReleased(b) ==
    /\ Handle(b, "release", {"OK"})
    /\ my_gpu_reservations' = [my_gpu_reservations EXCEPT ![b] = @ \ {Body(b)}]
    /\ UNCHANGED <<token, user, my_room_reservations, idem_key, wish>>

ShowBooked(b) ==
    /\ Handle(b, "book", {"CREATED"})
    /\ my_room_reservations' = [my_room_reservations EXCEPT ![b] = @ \cup {Body(b)}]
    /\ UNCHANGED <<token, user, my_gpu_reservations, idem_key, wish>>

ShowCancelled(b) ==
    /\ Handle(b, "cancel", {"OK"})
    /\ my_room_reservations' = [my_room_reservations EXCEPT ![b] = @ \ {Body(b)}]
    /\ UNCHANGED <<token, user, my_gpu_reservations, idem_key, wish>>

(* show_error, or a message that leaves nothing behind.                    *)
ShowOnly(b) ==
    /\ \/ \E op \in {"login", "register", "reserve", "release", "book", "cancel", "put", "course"} :
             Handle(b, op, Errors)
       \/ Handle(b, "register", {"CREATED"})
       \/ \E op \in Gated : Handle(b, op, {"OK"})
    /\ UNCHANGED state

-----------------------------------------------------------------------------
(* The shell of the page.                                                  *)

(* Mutant: GET /me answers the e-mail and the role, and no id. *)
LoadUserWithoutId(b) ==
    /\ token[b] # None /\ user[b] = None
    /\ Authentic(token[b])
    /\ user' = [user EXCEPT ![b] = users[token[b].sub]]
    /\ UNCHANGED <<tables, request, token, my_gpu_reservations, my_room_reservations,
                   idem_key, wish, awaiting, clicked, ledgers>>

(* refresh_user: GET /me, at sign-in or at the next run.                   *)
LoadUser(b) ==
    /\ token[b] # None /\ user[b] = None
    /\ Authentic(token[b])
    /\ user' = [user EXCEPT ![b] = [id |-> token[b].sub, role |-> users[token[b].sub].role]]
    /\ UNCHANGED <<tables, request, token, my_gpu_reservations, my_room_reservations,
                   idem_key, wish, awaiting, clicked, ledgers>>

(* Mutant: Only the token is forgotten. *)
LogoutTokenOnly(b) ==
    /\ token' = [token EXCEPT ![b] = None]
    /\ user' = [user EXCEPT ![b] = None]
    /\ UNCHANGED <<my_gpu_reservations, my_room_reservations>>

(* Every key of session_state is deleted, the idempotency key with them.   *)
logout(b) ==
    /\ token' = [token EXCEPT ![b] = None]
    /\ user' = [user EXCEPT ![b] = None]
    /\ my_gpu_reservations' = [my_gpu_reservations EXCEPT ![b] = {}]
    /\ my_room_reservations' = [my_room_reservations EXCEPT ![b] = {}]

(* Mutant: "Session expired." is shown and the token kept. *)
LoadFailsWarns(b) ==
    /\ token[b] # None /\ user[b] = None
    /\ UNCHANGED vars

(* GET /me failed, for whatever reason: "Session expired."  The GPU page   *)
(* has not run since sign-in, so there is no key to lose.                  *)
LoadFails(b) ==
    /\ token[b] # None /\ user[b] = None
    /\ logout(b)
    /\ UNCHANGED <<tables, request, idem_key, wish, awaiting, clicked, ledgers>>

(* The next visit of the GPU page draws another key.                       *)
FreshKey(b) ==
    /\ idem_key[b] < MaxKeys
    /\ idem_key' = [idem_key EXCEPT ![b] = @ + 1]
    /\ wish' = [wish EXCEPT ![b] = @ + 1]

SignOut(b) ==
    /\ Ready(b)
    /\ logout(b)
    /\ FreshKey(b)
    /\ UNCHANGED <<tables, request, awaiting, clicked, ledgers>>

NewKey(b) ==
    /\ Ready(b)
    /\ FreshKey(b)
    /\ UNCHANGED <<tables, request, token, user, my_gpu_reservations, my_room_reservations,
                   awaiting, clicked, ledgers>>

(* ACCESS_TOKEN_EXPIRE_MINUTES have passed.                                *)
Expire(b) ==
    /\ token[b] # None /\ token[b].live /\ awaiting[b] = None
    /\ token' = [token EXCEPT ![b].live = FALSE]
    /\ UNCHANGED <<tables, request, user, my_gpu_reservations, my_room_reservations,
                   idem_key, wish, awaiting, clicked, ledgers>>

-----------------------------------------------------------------------------
(* The server's side of holds and bookings: one COMMIT and the answer.     *)

Caller(q) == call[q].token.sub
MayEnd(q, owner) == owner = Caller(q) \/ users[Caller(q)].role = "ADMIN"

ServeReserve(q) ==
    /\ At(q, "arrived", "reserve") /\ Authentic(call[q].token)
    /\ LET slot == <<call[q].key, Caller(q)>> IN
       \/ /\ call[q].key # None /\ spent[slot] # None
          /\ UNCHANGED <<holds, spent>>
          /\ Answer(q, "CREATED", spent[slot])
       \/ /\ Gpus!Grant(q, Caller(q), "cluster", 1, call[q].key)
          /\ Answer(q, "CREATED", q)
    /\ UNCHANGED <<tables, calendar>>

ServeRelease(q) ==
    /\ At(q, "arrived", "release") /\ Authentic(call[q].token)
    /\ holds[call[q].id] # None /\ MayEnd(q, holds[call[q].id].user)
    /\ \/ Gpus!Release(call[q].id)
       \/ holds[call[q].id].status = "CANCELLED" /\ UNCHANGED <<holds, spent>>
    /\ Answer(q, "OK", call[q].id)
    /\ UNCHANGED <<tables, calendar>>

ServeBook(q) ==
    /\ At(q, "arrived", "book") /\ Authentic(call[q].token)
    /\ calendar' = [calendar EXCEPT ![q] =
          [room |-> "room", user |-> Caller(q), window |-> "slot"]]
    /\ Diary!Book(q)
    /\ Answer(q, "CREATED", q)
    /\ UNCHANGED <<tables, holds, spent>>

ServeCancel(q) ==
    /\ At(q, "arrived", "cancel") /\ Authentic(call[q].token)
    /\ Booked(call[q].id) /\ MayEnd(q, Caller(call[q].id))
    /\ \/ Diary!GiveBack(call[q].id)
       \/ calendar[call[q].id] = None /\ UNCHANGED calendar
    /\ Answer(q, "OK", call[q].id)
    /\ UNCHANGED <<tables, holds, spent>>

(* A gate refuses: a quota, a capacity, a slot, an id that is not the      *)
(* caller's, a key used for something else.                                *)
ServeRefuses(q) ==
    /\ pc[q] = "arrived" /\ call[q].op \in {"reserve", "release", "book", "cancel"}
    /\ Authentic(call[q].token)
    /\ Refuse(q, "REFUSED")
    /\ UNCHANGED ledgers

-----------------------------------------------------------------------------
Init ==
    /\ ServerInit
    /\ \E who \in SignedIn :
          /\ token = [b \in Browsers |-> IF who[b] = None THEN None ELSE
                         [sub |-> who[b], role |-> SeededUsers[who[b]].role, live |-> TRUE]]
          /\ user = [b \in Browsers |-> IF who[b] = None THEN None ELSE
                         [id |-> who[b], role |-> SeededUsers[who[b]].role]]
    /\ my_gpu_reservations = [b \in Browsers |-> {}]
    /\ my_room_reservations = [b \in Browsers |-> {}]
    /\ idem_key = [b \in Browsers |-> 0]
    /\ wish = [b \in Browsers |-> 0]
    /\ awaiting = [b \in Browsers |-> None]
    /\ clicked = [b \in Browsers |-> FALSE]
    /\ holds = [q \in Requests |-> None]
    /\ spent = [slot \in Keys \X Ids |-> None]
    /\ calendar = [q \in Requests |-> None]

Press(b) ==
    \/ \E email \in Emails : \/ PressLogin(b, email)
                             \/ \E role \in RegisterRoles : PressRegister(b, email, role)
    \/ PressReserve(b) \/ PressRelease(b) \/ PressBook(b) \/ PressCancelBooking(b)
    \/ \E pair \in Pairs, limit \in Limits : PressSavePolicy(b, pair, limit)
    \/ \E code \in Codes : PressCreateCourse(b, code)

Return(b) ==
    \/ ShowLogin(b) \/ ShowReserved(b) \/ ShowReleased(b) \/ ShowBooked(b)
    \/ ShowCancelled(b) \/ ShowOnly(b) \/ Abandon(b) \/ GiveUp(b)

Load(b) == LoadUser(b) \/ LoadFails(b)

Serve(q) ==
    \/ ServeAccounts(q) /\ UNCHANGED <<page, ledgers>>
    \/ (ServeReserve(q) \/ ServeRelease(q) \/ ServeBook(q) \/ ServeCancel(q) \/ ServeRefuses(q))
          /\ UNCHANGED page

Next ==
    \/ \E b \in Browsers : \/ Press(b) \/ Click(b) \/ Return(b) \/ Load(b)
                           \/ SignOut(b) \/ NewKey(b) \/ Expire(b)
    \/ \E q \in Requests : Serve(q)
    \/ \E i \in Ids : Demote(i) /\ UNCHANGED <<page, ledgers>>

(* A script run goes on, and `requests` gives up after TIMEOUT.  Nothing   *)
(* is assumed of the server, the network or the user.                      *)
Spec == /\ Init /\ [][Next]_vars
        /\ \A b \in Browsers : WF_vars(Return(b)) /\ WF_vars(Load(b))

-----------------------------------------------------------------------------
(* Properties.                                                             *)

Call == [op : {"register"}, email : Emails, role : Role]
    \cup [op : {"login"}, email : Emails]
    \cup [op : {"put"}, token : Claims, pair : Pairs, max_units : Limits]
    \cup [op : {"course"}, token : Claims, code : Codes]
    \cup [op : {"reserve"}, token : Claims, key : Keys \cup {None}, wish : Keys \cup {None}]
    \cup [op : {"release", "cancel"}, token : Claims, id : Requests]
    \cup [op : {"book"}, token : Claims]

IsReply(r) ==
    \/ r.code = "TOKEN" /\ r.body \in Claims
    \/ r.code \in Errors \cup {"OK", "CREATED"} /\ r.body \in Ids \cup {None}

(* Every variable of the server and of the browsers has its type.          *)
TypeOK ==
    /\ users \in [Ids -> UserRow \cup {None}]
    /\ policies \subseteq RoleQuota
    /\ courses \subseteq Course
    /\ pc \in [Requests -> {"idle", "arrived", "inserted", "handler", "insert", "update", "done"}]
    /\ call \in [Requests -> Call \cup {None}]
    /\ found \in [Requests -> RoleQuota \cup {None}]
    /\ \A q \in Requests : reply[q] = None \/ IsReply(reply[q])
    /\ token \in [Browsers -> Claims \cup {None}]
    /\ user \in [Browsers -> CachedUser \cup {None}]
    /\ my_gpu_reservations \in [Browsers -> SUBSET Requests]
    /\ my_room_reservations \in [Browsers -> SUBSET Requests]
    /\ idem_key \in [Browsers -> 0 .. MaxKeys]
    /\ wish \in [Browsers -> 0 .. MaxKeys]
    /\ awaiting \in [Browsers -> Requests \cup {None}]
    /\ clicked \in [Browsers -> BOOLEAN]
    /\ holds \in [Requests -> [cluster : {"cluster"}, user : Ids, gpu_count : {1},
                               status : {"ACTIVE", "CANCELLED"}] \cup {None}]
    /\ spent \in [Keys \X Ids -> Requests \cup {None}]
    /\ calendar \in [Requests -> Diary!Booking \cup {None}]

(* "Press Reserve twice with the same key to see exactly-once": until the  *)
(* user asks for a new key, presses with the box ticked book once, though  *)
(* answers are lost, handlers abandoned, and the server carries out a      *)
(* request its browser has given up (page_gpus).                           *)
PressedTwiceBooksOnce ==
    \A q, p \in Requests :
        /\ holds[q] # None /\ holds[p] # None
        /\ call[q].wish # None /\ call[q].wish = call[p].wish
        => q = p

(* The ids a browser offers for release are reservations that the account  *)
(* signed in there has made, whoever used the browser before (logout).     *)
NoForeignIds ==
    \A b \in Browsers :
        /\ \A r \in my_gpu_reservations[b] :
              user[b] # None /\ holds[r] # None /\ holds[r].user = user[b].id
        /\ \A i \in my_room_reservations[b] :
              user[b] # None /\ call[i].op = "book" /\ Caller(i) = user[b].id

(* A page never hangs: a press is over at some time, and a sign-in ends in *)
(* a page of that account or back in the sign-in form, also when the token *)
(* has expired or the server does not answer (api, main).                  *)
PageSettles ==
    \A b \in Browsers :
        awaiting[b] # None \/ (token[b] # None /\ user[b] = None)
        ~> SignedOut(b) \/ Ready(b)
=============================================================================
