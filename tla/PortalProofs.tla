---------------------------- MODULE PortalProofs ----------------------------
(***************************************************************************)
(* Theorems about Portal and Accounts, for any browsers, accounts, pairs,  *)
(* courses and keys and any finite number of requests.                     *)
(***************************************************************************)
EXTENDS Portal, FiniteSetTheorems, TLAPS

(***************************************************************************)
(* What is known of a request and of a browser.                            *)
(***************************************************************************)
WithToken == {"put", "course", "reserve", "release", "book", "cancel"}

SessionOK(q) ==
    /\ pc[q] # "idle" => call[q] \in Call
    /\ pc[q] # "done" => reply[q] = None /\ users[q] = None
    /\ pc[q] = "done" => reply[q] # None
    /\ pc[q] = "inserted" => call[q].op \in {"register", "put", "course"}
    /\ pc[q] = "handler" => call[q].op \in Gated
    /\ pc[q] \in {"insert", "update"} => call[q].op = "put"
    /\ pc[q] = "update" => found[q] # None
    /\ reply[q] # None /\ call[q].op \in {"reserve", "book"} /\ reply[q].code = "CREATED" =>
          reply[q].body \in Requests

(* Nobody signs in or out while a press is under way.                      *)
BrowserOK(b) ==
    /\ user[b] # None => token[b] # None /\ user[b].id = token[b].sub
    /\ wish[b] = idem_key[b]
    /\ awaiting[b] # None =>
          /\ pc[awaiting[b]] # "idle"
          /\ IF call[awaiting[b]].op \in WithToken
             THEN user[b] # None /\ call[awaiting[b]].token.sub = token[b].sub
             ELSE token[b] = None

Typed == /\ TypeOK
         /\ reply = [q \in Requests |-> reply[q]]
         /\ \A q \in Requests : SessionOK(q)
         /\ \A b \in Browsers : BrowserOK(b)

(* A row of gpu_reservations, as GpuLedger keeps it.                      *)
Hold == [cluster : {"cluster"}, user : Ids, gpu_count : {1}, status : {"ACTIVE", "CANCELLED"}]

(* The parts of TypeOK, table by table.                                    *)
TablesTyped ==
    /\ users \in [Ids -> UserRow \cup {None}]
    /\ policies \subseteq RoleQuota
    /\ courses \subseteq Course

LedgersTyped ==
    /\ holds \in [Requests -> Hold \cup {None}]
    /\ spent \in [Keys \X Ids -> Requests \cup {None}]
    /\ calendar \in [Requests -> Diary!Booking \cup {None}]

RequestsTyped ==
    /\ pc \in [Requests -> {"idle", "arrived", "inserted", "handler", "insert", "update", "done"}]
    /\ call \in [Requests -> Call \cup {None}]
    /\ found \in [Requests -> RoleQuota \cup {None}]
    /\ \A q \in Requests : reply[q] = None \/ IsReply(reply[q])

PageTyped ==
    /\ token \in [Browsers -> Claims \cup {None}]
    /\ user \in [Browsers -> CachedUser \cup {None}]
    /\ my_gpu_reservations \in [Browsers -> SUBSET Requests]
    /\ my_room_reservations \in [Browsers -> SUBSET Requests]
    /\ idem_key \in [Browsers -> 0 .. MaxKeys]
    /\ wish \in [Browsers -> 0 .. MaxKeys]
    /\ awaiting \in [Browsers -> Requests \cup {None}]
    /\ clicked \in [Browsers -> BOOLEAN]

LEMMA TypeParts ==
    /\ TypeOK <=> TablesTyped /\ LedgersTyped /\ RequestsTyped /\ PageTyped
    /\ TypeOK' <=> TablesTyped' /\ LedgersTyped' /\ RequestsTyped' /\ PageTyped'
BY DEF TypeOK, TablesTyped, LedgersTyped, RequestsTyped, PageTyped, Hold

LEMMA CallFields ==
    ASSUME NEW c \in Call
    PROVE  /\ c.op \in {"register", "login"} \cup WithToken
           /\ c.op = "register" => c.email \in Emails /\ c.role \in Role
           /\ c.op = "login" => c.email \in Emails
           /\ c.op \in WithToken => c.token \in Claims /\ c.token.sub \in Ids
           /\ c.op = "put" => c.pair \in Pairs /\ c.max_units \in Limits
           /\ c.op = "course" => c.code \in Codes
           /\ c.op = "reserve" => c.key \in Keys \cup {None} /\ c.wish \in Keys \cup {None}
           /\ c.op \in {"release", "cancel"} => c.id \in Requests
BY DEF Call, Claims, WithToken

LEMMA InitTyped == Init => Typed
<1> SUFFICES ASSUME Init PROVE Typed
  OBVIOUS
<1> USE DEF Init, ServerInit
<1>1. PICK who \in SignedIn :
         /\ token = [b \in Browsers |-> IF who[b] = None THEN None ELSE
                        [sub |-> who[b], role |-> SeededUsers[who[b]].role, live |-> TRUE]]
         /\ user = [b \in Browsers |-> IF who[b] = None THEN None ELSE
                        [id |-> who[b], role |-> SeededUsers[who[b]].role]]
  OBVIOUS
<1>2. ASSUME NEW b \in Browsers, who[b] # None
      PROVE  who[b] \in Ids /\ SeededUsers[who[b]].role \in Role
  BY <1>2, BrowsersTyped, SeedTyped DEF Ids, UserRow
<1>3. PageTyped
  <2>1. ASSUME NEW b \in Browsers
        PROVE  token[b] \in Claims \cup {None} /\ user[b] \in CachedUser \cup {None}
    BY <1>1, <1>2 DEF Claims, CachedUser
  <2>2. token = [b \in Browsers |-> token[b]] /\ user = [b \in Browsers |-> user[b]]
    BY <1>1
  <2>3. token \in [Browsers -> Claims \cup {None}] /\ user \in [Browsers -> CachedUser \cup {None}]
    BY <2>1, <2>2
  <2> QED
    BY <2>3, BrowsersTyped DEF PageTyped
<1>4. TablesTyped
  BY SeedTyped DEF TablesTyped, Ids, RoleQuota
<1>5. LedgersTyped /\ RequestsTyped
  BY DEF LedgersTyped, RequestsTyped
<1>6. \A q \in Requests : SessionOK(q)
  BY SeededIdsApart DEF SessionOK, Ids
<1>7. \A b \in Browsers : BrowserOK(b)
  <2>1. ASSUME NEW b \in Browsers, who[b] # None
        PROVE  token[b] # None /\ user[b].id = token[b].sub
    <3>1. [sub |-> who[b], role |-> SeededUsers[who[b]].role, live |-> TRUE] \in Claims
      BY <1>2, <2>1 DEF Claims
    <3> QED
      BY <1>1, <2>1, <3>1, SentinelsApart
  <2>2. ASSUME NEW b \in Browsers PROVE awaiting[b] = None /\ (who[b] = None => user[b] = None)
    BY <1>1
  <2> QED
    BY <2>1, <2>2 DEF BrowserOK
<1> QED
  BY <1>3, <1>4, <1>5, <1>6, <1>7, TypeParts DEF Typed

-----------------------------------------------------------------------------
(* The page's steps.                                                       *)

(* What a button sends: a new call, on behalf of whoever is signed in.     *)
Sends(b, q, c) ==
    /\ pc[q] = "idle" /\ c \in Call
    /\ pc' = [pc EXCEPT ![q] = "arrived"]
    /\ call' = [call EXCEPT ![q] = c]
    /\ awaiting' = [awaiting EXCEPT ![b] = q]
    /\ awaiting[b] = None
    /\ IF c.op \in WithToken
       THEN token[b] # None /\ user[b] # None /\ c.token = token[b]
       ELSE token[b] = None
    /\ c.op = "reserve" => \/ c.key = <<b, idem_key[b]>> /\ c.wish = <<b, wish[b]>>
                           \/ c.key = None /\ c.wish = None
    /\ UNCHANGED <<tables, found, reply, state, clicked, ledgers>>

LEMMA PressSends ==
    ASSUME Typed, NEW b \in Browsers, Press(b)
    PROVE  \E q \in Requests, c \in Call : Sends(b, q, c)
<1> USE DEF Send, Goto, SignedOut, Ready, Sends, WithToken, Call
<1>0. token[b] # None => token[b] \in Claims
  BY DEF Typed, TypeOK
<1>1. CASE \E email \in Emails : PressLogin(b, email)
  BY <1>1 DEF PressLogin
<1>2. CASE \E email \in Emails, role \in RegisterRoles : PressRegister(b, email, role)
  BY <1>2, BrowsersTyped DEF PressRegister
<1>3. CASE PressReserve(b)
  <2>1. <<b, idem_key[b]>> \in Keys /\ <<b, wish[b]>> \in Keys
    BY DEF Typed, TypeOK, Keys
  <2> QED
    BY <1>0, <1>3, <2>1 DEF PressReserve
<1>4. CASE PressRelease(b)
  <2>1. Offered(my_gpu_reservations[b], { i \in Requests : holds[i] # None }) \subseteq Requests
    BY DEF Typed, TypeOK, Offered
  <2> QED
    BY <1>0, <1>4, <2>1 DEF PressRelease
<1>5. CASE PressBook(b)
  BY <1>0, <1>5 DEF PressBook
<1>6. CASE PressCancelBooking(b)
  <2>1. Offered(my_room_reservations[b], { i \in Requests : Booked(i) }) \subseteq Requests
    BY DEF Typed, TypeOK, Offered
  <2> QED
    BY <1>0, <1>6, <2>1 DEF PressCancelBooking
<1>7. CASE \E pair \in Pairs, limit \in Limits : PressSavePolicy(b, pair, limit)
  BY <1>0, <1>7 DEF PressSavePolicy
<1>8. CASE \E code \in Codes : PressCreateCourse(b, code)
  BY <1>0, <1>8 DEF PressCreateCourse
<1> QED
  BY <1>1, <1>2, <1>3, <1>4, <1>5, <1>6, <1>7, <1>8 DEF Press

LEMMA SendTyped ==
    ASSUME Typed, NEW b \in Browsers, NEW q \in Requests, NEW c \in Call, Sends(b, q, c)
    PROVE  Typed'
<1> USE DEF Sends, tables, state, ledgers
<1>1. TablesTyped' /\ LedgersTyped' /\ RequestsTyped' /\ PageTyped'
  BY TypeParts DEF Typed, TablesTyped, LedgersTyped, RequestsTyped, PageTyped
<1>2. \A p \in Requests : SessionOK(p)'
  BY DEF Typed, TypeOK, SessionOK
<1>3. ASSUME NEW d \in Browsers PROVE BrowserOK(d)'
  <2>1. BrowserOK(d) /\ awaiting[d] \in Requests \cup {None}
    BY DEF Typed, TypeOK
  <2>2. CASE d = b
    BY <2>1, <2>2 DEF Typed, TypeOK, BrowserOK
  <2>3. CASE d # b
    BY <2>1, <2>3 DEF Typed, TypeOK, BrowserOK
  <2> QED
    BY <2>2, <2>3
<1>4. (reply = [p \in Requests |-> reply[p]])'
  BY DEF Typed
<1> HIDE DEF Sends
<1> QED
  BY <1>1, <1>2, <1>3, <1>4, TypeParts DEF Typed

(* The steps that leave the server alone.                                  *)
Turns(b) == Click(b) \/ Return(b) \/ Load(b) \/ SignOut(b) \/ NewKey(b) \/ Expire(b)

LEMMA TurnFrame ==
    ASSUME Typed, NEW b \in Browsers, Turns(b)
    PROVE  /\ UNCHANGED <<tables, request, ledgers>>
           /\ \A d \in Browsers : d # b =>
                 /\ token'[d] = token[d] /\ user'[d] = user[d]
                 /\ my_gpu_reservations'[d] = my_gpu_reservations[d]
                 /\ my_room_reservations'[d] = my_room_reservations[d]
                 /\ idem_key'[d] = idem_key[d] /\ wish'[d] = wish[d]
                 /\ awaiting'[d] = awaiting[d]
<1> USE DEF Typed, TypeOK, state, Handle, logout, FreshKey
<1>1. CASE Click(b) \/ Abandon(b) \/ GiveUp(b)
  BY <1>1 DEF Click, Abandon, GiveUp
<1>2. CASE ShowLogin(b) \/ ShowReserved(b) \/ ShowReleased(b)
  BY <1>2 DEF ShowLogin, ShowReserved, ShowReleased
<1>3. CASE ShowBooked(b) \/ ShowCancelled(b)
  BY <1>3 DEF ShowBooked, ShowCancelled
<1>4. CASE ShowOnly(b)
  BY <1>4 DEF ShowOnly
<1>5. CASE LoadUser(b) \/ LoadFails(b)
  BY <1>5 DEF LoadUser, LoadFails
<1>6. CASE SignOut(b) \/ NewKey(b) \/ Expire(b)
  BY <1>6 DEF SignOut, NewKey, Expire
<1> QED
  BY <1>1, <1>2, <1>3, <1>4, <1>5, <1>6 DEF Turns, Return, Load

LEMMA ToldAToken ==
    ASSUME Typed, NEW q \in Requests, pc[q] = "done", reply[q].code = "TOKEN"
    PROVE  reply[q] # None /\ reply[q].body \in Claims
BY DEF Typed, TypeOK, SessionOK, IsReply, Errors

LEMMA ExpiredToken ==
    ASSUME NEW t \in Claims
    PROVE  [t EXCEPT !.live = FALSE] \in Claims /\ [t EXCEPT !.live = FALSE].sub = t.sub
BY DEF Claims

(* Where a step of the page leaves its own browser.                        *)
LEMMA TurnTyped ==
    ASSUME Typed, NEW b \in Browsers, Turns(b)
    PROVE  Typed'
<1>0. UNCHANGED <<tables, request, ledgers>>
  BY TurnFrame
<1>1. TablesTyped' /\ LedgersTyped' /\ RequestsTyped'
  BY <1>0, TypeParts DEF Typed, TablesTyped, LedgersTyped, RequestsTyped, tables, request, ledgers
<1>2. \A q \in Requests : SessionOK(q)'
  BY <1>0 DEF Typed, SessionOK, tables, request
<1>3. (reply = [p \in Requests |-> reply[p]])'
  BY <1>0 DEF Typed, request
<1>4a. ASSUME ShowLogin(b) PROVE Body(b) \in Claims /\ user[b] = None
  <2>1. PICK q \in Requests : /\ q = awaiting[b] /\ call[q].op = "login"
                              /\ reply[q].code = "TOKEN" /\ pc[q] = "done"
    BY <1>4a DEF ShowLogin, Handle, Answered, Typed, TypeOK
  <2>2. reply[q].body \in Claims
    BY <2>1, ToldAToken
  <2>3. awaiting[b] # None /\ BrowserOK(b)
    BY <1>4a DEF ShowLogin, Handle, Answered, Typed
  <2>4. token[b] = None
    BY <2>1, <2>3 DEF BrowserOK, WithToken
  <2>5. user[b] = None
    BY <2>3, <2>4 DEF BrowserOK
  <2> QED
    BY <2>1, <2>2, <2>5 DEF Body
<1>4. PageTyped' /\ BrowserOK(b)'
  <2> USE <1>0 DEF Typed, TypeOK, PageTyped, BrowserOK, state, request, tables
  <2>1. CASE Click(b)
    BY <2>1 DEF Click
  <2>2. CASE Abandon(b) \/ GiveUp(b)
    BY <2>2 DEF Abandon, GiveUp
  <2>3. CASE ShowLogin(b)
    <3>1. token' = [token EXCEPT ![b] = Body(b)] /\ user' = user /\ user[b] = None
          /\ awaiting' = [awaiting EXCEPT ![b] = None] /\ clicked' = clicked
      BY <2>3, <1>4a DEF ShowLogin, Handle
    <3> QED
      BY <2>3, <3>1, <1>4a DEF ShowLogin, Handle
  <2>4. CASE ShowReserved(b)
    <3>1. Body(b) \in Requests
      BY <2>4 DEF ShowReserved, Handle, Answered, Body, SessionOK
    <3> QED
      BY <2>4, <3>1 DEF ShowReserved, Handle
  <2>5. CASE ShowReleased(b)
    BY <2>5 DEF ShowReleased, Handle
  <2>6. CASE ShowBooked(b)
    <3>1. Body(b) \in Requests
      BY <2>6 DEF ShowBooked, Handle, Answered, Body, SessionOK
    <3> QED
      BY <2>6, <3>1 DEF ShowBooked, Handle
  <2>7. CASE ShowCancelled(b)
    BY <2>7 DEF ShowCancelled, Handle
  <2>8. CASE ShowOnly(b)
    BY <2>8 DEF ShowOnly, Handle
  <2>9. CASE LoadUser(b)
    <3>1. /\ token[b].sub \in Ids /\ users[token[b].sub].role \in Role
      BY <2>9 DEF LoadUser, Authentic, Claims, UserRow
    <3>2. [id |-> token[b].sub, role |-> users[token[b].sub].role] \in CachedUser
      BY <3>1 DEF CachedUser
    <3>3. PICK u \in CachedUser : /\ u.id = token[b].sub
                                  /\ user' = [user EXCEPT ![b] = u]
      BY <2>9, <3>2 DEF LoadUser
    <3>4. awaiting[b] # None => awaiting[b] \in Requests
      OBVIOUS
    <3> QED
      BY <2>9, <3>3, <3>4, SentinelsApart DEF LoadUser
  <2>10. CASE LoadFails(b)
    BY <2>10 DEF LoadFails, logout
  <2>0. ASSUME FreshKey(b)
        PROVE  /\ idem_key' \in [Browsers -> 0 .. MaxKeys] /\ wish' \in [Browsers -> 0 .. MaxKeys]
               /\ wish'[b] = idem_key'[b]
    <3>1. PICK k \in 0 .. MaxKeys : k = idem_key[b] + 1 /\ k = wish[b] + 1
      BY <2>0, BrowsersTyped DEF FreshKey
    <3>2. idem_key' = [idem_key EXCEPT ![b] = k] /\ wish' = [wish EXCEPT ![b] = k]
      BY <2>0, <3>1 DEF FreshKey
    <3> QED
      BY <3>2
  <2>11. CASE SignOut(b)
    BY <2>11, <2>0 DEF SignOut, logout, Ready
  <2>12. CASE NewKey(b)
    BY <2>12, <2>0 DEF NewKey
  <2>13. CASE Expire(b)
    <3>1. PICK t \in Claims : t = token[b]
      BY <2>13 DEF Expire
    <3>2. PICK u \in Claims : /\ u = [t EXCEPT !.live = FALSE] /\ u.sub = t.sub
      BY ExpiredToken
    <3>3. token' = [token EXCEPT ![b] = u]
      BY <2>13, <3>1, <3>2 DEF Expire
    <3>4a. u # None
      BY SentinelsApart
    <3>4b. token \in [Browsers -> Claims \cup {None}] /\ token[b] # None
      BY <2>13 DEF Expire
    <3>4c. token' \in [Browsers -> Claims \cup {None}] /\ token'[b] = u
      BY <3>3, <3>4b
    <3>4. /\ token' \in [Browsers -> Claims \cup {None}] /\ token'[b] # None
          /\ token'[b].sub = token[b].sub /\ token[b] # None
      BY <3>1, <3>2, <3>4a, <3>4b, <3>4c
    <3>5. UNCHANGED <<user, my_gpu_reservations, my_room_reservations, idem_key, wish, awaiting, clicked>>
          /\ awaiting[b] = None
      BY <2>13 DEF Expire
    <3>6. PageTyped'
      BY <3>4, <3>5
    <3> QED
      BY <3>4, <3>5, <3>6
  <2> QED
    BY <2>1, <2>2, <2>3, <2>4, <2>5, <2>6, <2>7, <2>8, <2>9, <2>10, <2>11, <2>12, <2>13
       DEF Turns, Return, Load
<1>5. ASSUME NEW d \in Browsers PROVE BrowserOK(d)'
  <2>1. CASE d # b
    BY <1>0, <2>1, TurnFrame DEF Typed, BrowserOK, request
  <2> QED
    BY <1>4, <2>1
<1> QED
  BY <1>1, <1>2, <1>3, <1>4, <1>5, TypeParts DEF Typed

-----------------------------------------------------------------------------
(* The server's steps.                                                     *)

LEMMA ReplyNotNone ==
    ASSUME NEW code, NEW body, IsReply([code |-> code, body |-> body])
    PROVE  [code |-> code, body |-> body] # None
<1>1. /\ code \in Errors \cup {"TOKEN", "OK", "CREATED"}
      /\ body \in Claims \cup Ids \cup {None}
  BY DEF IsReply
<1>2. [code |-> code, body |-> body]
         \in [code : Errors \cup {"TOKEN", "OK", "CREATED"}, body : Claims \cup Ids \cup {None}]
  BY <1>1
<1> QED
  BY <1>2, SentinelsApart

(* The server ends a request: its answer, and what it did to the tables.   *)
LEMMA AnswerTyped ==
    ASSUME Typed, NEW q \in Requests, InFlight(q), NEW code, NEW body,
           Answer(q, code, body),
           IsReply([code |-> code, body |-> body]),
           call[q].op \in {"reserve", "book"} /\ code = "CREATED" => body \in Requests,
           TablesTyped', LedgersTyped',
           \A p \in Requests : p # q /\ users[p] = None => users'[p] = None,
           UNCHANGED page
    PROVE  Typed'
<1>1. PICK r : r = [code |-> code, body |-> body] /\ IsReply(r) /\ r # None
               /\ r.code = code /\ r.body = body
  BY ReplyNotNone
<1>2. /\ reply' = [reply EXCEPT ![q] = r] /\ found' = [found EXCEPT ![q] = None]
      /\ pc' = [pc EXCEPT ![q] = "done"] /\ call' = call
  BY <1>1 DEF Answer, Goto
<1>3. TypeOK
  BY DEF Typed
<1>4. RequestsTyped'
  <2>1. RequestsTyped /\ reply = [p \in Requests |-> reply[p]]
    BY TypeParts DEF Typed
  <2>2. ASSUME NEW p \in Requests PROVE reply'[p] = None \/ IsReply(reply'[p])
    BY <1>1, <1>2, <2>1, <2>2 DEF RequestsTyped
  <2>3. (\A p \in Requests : reply[p] = None \/ IsReply(reply[p]))'
    BY <2>2 DEF IsReply
  <2> QED
    BY <1>2, <2>1, <2>3 DEF RequestsTyped
<1>5. PageTyped'
  BY <1>3, TypeParts DEF PageTyped, page, state
<1>6. ASSUME NEW p \in Requests PROVE SessionOK(p)'
  <2>1. SessionOK(p) /\ SessionOK(q)
    BY DEF Typed
  <2>2. pc[p] \in {"idle", "arrived", "inserted", "handler", "insert", "update", "done"}
    BY <1>3 DEF TypeOK
  <2>3. CASE p = q
    BY <1>1, <1>2, <1>3, <2>1, <2>3 DEF SessionOK, InFlight, TypeOK, Typed
  <2>4. CASE p # q
    BY <1>2, <1>3, <2>1, <2>4 DEF SessionOK, TypeOK, Typed
  <2> QED
    BY <2>3, <2>4
<1>7. ASSUME NEW b \in Browsers PROVE BrowserOK(b)'
  <2>1. BrowserOK(b) /\ awaiting[b] \in Requests \cup {None}
    BY <1>3 DEF Typed, TypeOK
  <2>2. awaiting[b] # None => pc'[awaiting[b]] # "idle"
    BY <1>2, <1>3, <2>1 DEF BrowserOK, TypeOK
  <2> QED
    BY <1>2, <2>1, <2>2 DEF BrowserOK, page, state
<1>8. (reply = [p \in Requests |-> reply[p]])'
  <2>1. reply = [p \in Requests |-> reply[p]]
    BY DEF Typed
  <2> QED
    BY <1>2, <2>1
<1> QED
  BY <1>4, <1>5, <1>6, <1>7, <1>8, TypeParts DEF Typed

(* A statement of a handler that ends neither the handler nor the          *)
(* transaction.                                                            *)
Moves(q, step) ==
    /\ InFlight(q) /\ Goto(q, step)
    /\ step \in {"inserted", "handler", "insert", "update"}
    /\ UNCHANGED <<tables, call, reply>>

LEMMA MoveTyped ==
    ASSUME Typed, NEW q \in Requests, NEW step, Moves(q, step),
           step = "inserted" => call[q].op \in {"register", "put", "course"},
           step = "handler" => call[q].op \in Gated,
           step \in {"insert", "update"} => call[q].op = "put",
           \/ found' = found /\ step # "update"
           \/ \E r \in RoleQuota : found' = [found EXCEPT ![q] = r],
           UNCHANGED <<page, ledgers>>
    PROVE  Typed'
<1>1. pc' = [pc EXCEPT ![q] = step] /\ UNCHANGED <<users, policies, courses, call, reply>>
  BY DEF Moves, Goto, tables
<1>2. step \in {"inserted", "handler", "insert", "update"} /\ pc[q] \notin {"idle", "done"}
  BY DEF Moves, InFlight
<1>3. TypeOK
  BY DEF Typed
<1>4. TablesTyped' /\ LedgersTyped' /\ PageTyped'
  BY <1>1, <1>3, TypeParts DEF TablesTyped, LedgersTyped, PageTyped, ledgers, page, state
<1>5. RequestsTyped'
  BY <1>1, <1>2, <1>3, TypeParts DEF RequestsTyped
<1>6. ASSUME NEW p \in Requests PROVE SessionOK(p)'
  <2>1. SessionOK(p) /\ SessionOK(q)
    BY DEF Typed
  <2>2. CASE p = q
    <3>1. pc'[p] = step /\ call'[p] = call[p] /\ reply'[p] = reply[p] /\ users'[p] = users[p]
      BY <1>1, <1>3, <2>2 DEF TypeOK
    <3>2. step = "update" => found'[p] # None
      BY <1>3, <2>2, SentinelsApart DEF TypeOK
    <3> QED
      BY <1>2, <2>1, <2>2, <3>1, <3>2 DEF SessionOK
  <2>3. CASE p # q
    <3>1. pc'[p] = pc[p] /\ call'[p] = call[p] /\ reply'[p] = reply[p] /\ users'[p] = users[p]
          /\ found'[p] = found[p]
      BY <1>1, <1>3, <2>3 DEF TypeOK
    <3> QED
      BY <2>1, <3>1 DEF SessionOK
  <2> QED
    BY <2>2, <2>3
<1>7. ASSUME NEW b \in Browsers PROVE BrowserOK(b)'
  <2>1. BrowserOK(b) /\ awaiting[b] \in Requests \cup {None}
    BY <1>3 DEF Typed, TypeOK
  <2>2. awaiting[b] # None => pc'[awaiting[b]] # "idle"
    BY <1>1, <1>2, <1>3, <2>1 DEF BrowserOK, TypeOK
  <2> QED
    BY <1>1, <2>1, <2>2 DEF BrowserOK, page, state
<1>8. (reply = [p \in Requests |-> reply[p]])'
  BY <1>1 DEF Typed
<1> QED
  BY <1>4, <1>5, <1>6, <1>7, <1>8, TypeParts DEF Typed

LEMMA RefuseTyped ==
    ASSUME Typed, NEW q \in Requests, InFlight(q), NEW code \in Errors, Refuse(q, code),
           UNCHANGED <<page, ledgers>>
    PROVE  Typed'
<1>1. Answer(q, code, None) /\ UNCHANGED <<users, policies, courses>> /\ UNCHANGED page
  BY DEF Refuse, tables
<1>2. TablesTyped' /\ LedgersTyped'
  BY <1>1, TypeParts DEF Typed, TablesTyped, LedgersTyped, ledgers
<1>3. IsReply([code |-> code, body |-> None]) /\ code # "CREATED"
  BY DEF IsReply, Errors
<1>4. \A p \in Requests : p # q /\ users[p] = None => users'[p] = None
  BY <1>1
<1> QED
  BY <1>1, <1>2, <1>3, <1>4, AnswerTyped

LEMMA AccountsTyped ==
    ASSUME Typed, NEW q \in Requests, ServeAccounts(q), UNCHANGED <<page, ledgers>>
    PROVE  Typed'
<1>1. TypeOK /\ TablesTyped /\ LedgersTyped' /\ UNCHANGED page
  BY TypeParts DEF Typed, LedgersTyped, ledgers
<1>2. SessionOK(q) /\ pc[q] \in {"idle", "arrived", "inserted", "handler", "insert", "update", "done"}
  BY <1>1 DEF Typed, TypeOK
<1>3. pc[q] # "idle" => call[q] \in Call
  BY <1>2 DEF SessionOK
<1>4. CASE InsertUser(q) \/ InsertCourse(q)
  <2>1. Moves(q, "inserted") /\ found' = found /\ call[q].op \in {"register", "course"}
    BY <1>4 DEF InsertUser, InsertCourse, Moves, At, InFlight
  <2> QED
    BY <2>1, MoveTyped
<1>5. CASE PutInsert(q)
  <2>1. Moves(q, "inserted") /\ found' = found
    BY <1>5 DEF PutInsert, Moves, InFlight
  <2>2. call[q].op = "put"
    BY <1>2, <1>5 DEF PutInsert, SessionOK
  <2> QED
    BY <2>1, <2>2, MoveTyped
<1>6. CASE Authorize(q)
  <2>1. Moves(q, "handler") /\ found' = found /\ call[q].op \in Gated
    BY <1>6 DEF Authorize, Moves, InFlight
  <2> QED
    BY <2>1, MoveTyped
<1>7. CASE FindPolicy(q)
  <2>1. call[q].op = "put" /\ policies \subseteq RoleQuota
    BY <1>1, <1>7 DEF FindPolicy, At, TablesTyped
  <2>2. CASE Moves(q, "insert") /\ found' = found
    BY <2>1, <2>2, MoveTyped
  <2>3. CASE Moves(q, "update") /\ \E r \in RoleQuota : found' = [found EXCEPT ![q] = r]
    BY <2>1, <2>3, MoveTyped
  <2> QED
    BY <1>7, <2>1, <2>2, <2>3 DEF FindPolicy, Moves, At, InFlight, RowsOf
<1>8. CASE EmailTaken(q) \/ AuthorizeRefuses(q) \/ PutInsertRejected(q) \/ CourseCodeTaken(q)
           \/ ConnectionLost(q)
  <2>1. InFlight(q) /\ \E code \in Errors : Refuse(q, code)
    BY <1>8 DEF EmailTaken, AuthorizeRefuses, PutInsertRejected, CourseCodeTaken, ConnectionLost,
                At, InFlight, Errors
  <2> QED
    BY <2>1, RefuseTyped
<1>9. CASE RegisterCommit(q)
  <2>1. call[q].email \in Emails /\ call[q].role \in Role
    BY <1>3, <1>9, CallFields DEF RegisterCommit, At
  <2>2. PICK row \in UserRow : row = [email |-> call[q].email, role |-> call[q].role]
    BY <2>1 DEF UserRow
  <2>3. users' = [users EXCEPT ![q] = row] /\ UNCHANGED <<policies, courses>>
        /\ Answer(q, "CREATED", q) /\ InFlight(q) /\ call[q].op = "register"
    BY <1>9, <2>2 DEF RegisterCommit, At, InFlight
  <2>4. TablesTyped' /\ \A p \in Requests : p # q /\ users[p] = None => users'[p] = None
    BY <1>1, <2>3 DEF TablesTyped, Ids
  <2>5. IsReply([code |-> "CREATED", body |-> q])
    BY DEF IsReply, Errors, Ids
  <2> QED
    BY <1>1, <2>3, <2>4, <2>5, AnswerTyped
<1>10. CASE Login(q)
  <2>1. UNCHANGED <<users, policies, courses>> /\ InFlight(q) /\ call[q].op = "login"
    BY <1>10 DEF Login, tables, At, InFlight
  <2>2. TablesTyped' /\ \A p \in Requests : p # q /\ users[p] = None => users'[p] = None
    BY <1>1, <2>1 DEF TablesTyped
  <2>3. ASSUME NEW i \in Registered(call[q].email), Answer(q, "TOKEN", create_access_token(i))
        PROVE  Typed'
    <3>1. i \in Ids /\ users[i].role \in Role
      BY <1>1 DEF Registered, TablesTyped, UserRow
    <3>2. create_access_token(i) \in Claims
      BY <3>1 DEF create_access_token, Claims
    <3>3. IsReply([code |-> "TOKEN", body |-> create_access_token(i)])
      BY <3>2 DEF IsReply
    <3> QED
      BY <1>1, <2>1, <2>2, <2>3, <3>3, AnswerTyped
  <2>4. ASSUME Answer(q, "UNAUTHORIZED", None) PROVE Typed'
    <3>1. IsReply([code |-> "UNAUTHORIZED", body |-> None])
      BY DEF IsReply, Errors
    <3> QED
      BY <1>1, <2>1, <2>2, <2>4, <3>1, AnswerTyped
  <2> QED
    BY <1>10, <2>3, <2>4 DEF Login
<1>11. ASSUME InFlight(q), Answer(q, "OK", None), TablesTyped', UNCHANGED users
       PROVE  Typed'
  <2>1. IsReply([code |-> "OK", body |-> None])
    BY DEF IsReply
  <2>2. \A p \in Requests : p # q /\ users[p] = None => users'[p] = None
    BY <1>11
  <2> QED
    BY <1>1, <1>11, <2>1, <2>2, AnswerTyped
<1>12. CASE PutUpdate(q)
  <2>1. call[q].op = "put" /\ call[q].max_units \in Limits
    BY <1>2, <1>3, <1>12, CallFields DEF PutUpdate, SessionOK
  <2>2. call[q].max_units \in Nat \cup {Unlimited}
    BY <2>1, SeedTyped
  <2>3. ASSUME NEW r \in policies PROVE [r EXCEPT !.max_units = call[q].max_units] \in RoleQuota
    BY <1>1, <2>2 DEF TablesTyped, RoleQuota
  <2>4. policies' \subseteq RoleQuota
    BY <1>1, <1>12, <2>3 DEF PutUpdate, TablesTyped
  <2>5. TablesTyped' /\ UNCHANGED users
    BY <1>1, <1>12, <2>4 DEF PutUpdate, TablesTyped
  <2> QED
    BY <1>11, <1>12, <2>5 DEF PutUpdate, InFlight
<1>13. CASE PutCommit(q)
  <2>1. call[q].max_units \in Nat \cup {Unlimited} /\ call[q].pair \in Pairs
    BY <1>3, <1>13, CallFields, SeedTyped DEF PutCommit, At
  <2>2. [pair |-> call[q].pair, max_units |-> call[q].max_units, by |-> q] \in RoleQuota
    BY <2>1 DEF RoleQuota
  <2>3. TablesTyped' /\ UNCHANGED users
    BY <1>1, <1>13, <2>2 DEF PutCommit, TablesTyped
  <2> QED
    BY <1>11, <1>13, <2>3 DEF PutCommit, InFlight, At
<1>14. CASE CourseCommit(q)
  <2>1. CourseCode(q) \in Codes
    BY <1>3, <1>14, CallFields, CanonicalIdempotent DEF CourseCommit, At, CourseCode
  <2>2. [code |-> CourseCode(q), by |-> q] \in Course
    BY <2>1 DEF Course
  <2>3. TablesTyped' /\ UNCHANGED users
    BY <1>1, <1>14, <2>2 DEF CourseCommit, TablesTyped
  <2> QED
    BY <1>11, <1>14, <2>3 DEF CourseCommit, InFlight, At
<1> QED
  BY <1>4, <1>5, <1>6, <1>7, <1>8, <1>9, <1>10, <1>12, <1>13, <1>14 DEF ServeAccounts

(* What each of the four calls does to the ledgers.                        *)
LEMMA ReserveDoes ==
    ASSUME Typed, NEW q \in Requests, ServeReserve(q)
    PROVE  /\ pc[q] = "arrived" /\ call[q].op = "reserve" /\ users[Caller(q)] # None
           /\ call[q] \in Call /\ call[q].key \in Keys \cup {None} /\ Caller(q) \in Ids
           /\ \/ /\ call[q].key # None /\ spent[<<call[q].key, Caller(q)>>] # None
                 /\ UNCHANGED <<holds, spent>>
                 /\ Answer(q, "CREATED", spent[<<call[q].key, Caller(q)>>])
              \/ /\ holds[q] = None
                 /\ \E h \in Hold :
                       holds' = [holds EXCEPT ![q] = h] /\ h.user = Caller(q)
                 /\ \/ call[q].key = None /\ spent' = spent
                    \/ /\ call[q].key # None /\ spent[<<call[q].key, Caller(q)>>] = None
                       /\ spent' = [spent EXCEPT ![<<call[q].key, Caller(q)>>] = q]
                 /\ Answer(q, "CREATED", q)
           /\ UNCHANGED <<users, policies, courses, calendar>>
<1>1. pc[q] = "arrived" /\ call[q].op = "reserve" /\ users[Caller(q)] # None
      /\ UNCHANGED <<users, policies, courses, calendar>>
  BY DEF ServeReserve, At, Authentic, Caller, tables
<1>2. call[q] \in Call
  BY <1>1 DEF Typed, SessionOK
<1>3. call[q].key \in Keys \cup {None} /\ Caller(q) \in Ids
  BY <1>1, <1>2, CallFields DEF WithToken, Caller
<1>4. ASSUME Gpus!Grant(q, Caller(q), "cluster", 1, call[q].key)
      PROVE  /\ holds[q] = None
             /\ holds' = [holds EXCEPT ![q] = [cluster |-> "cluster", user |-> Caller(q),
                                               gpu_count |-> 1, status |-> "ACTIVE"]]
             /\ \/ call[q].key = None /\ spent' = spent
                \/ /\ call[q].key # None /\ spent[<<call[q].key, Caller(q)>>] = None
                   /\ spent' = [spent EXCEPT ![<<call[q].key, Caller(q)>>] = q]
  BY <1>4 DEF Gpus!Grant
<1>5. PICK h \in Hold :
         h.user = Caller(q) /\ h = [cluster |-> "cluster", user |-> Caller(q),
                                    gpu_count |-> 1, status |-> "ACTIVE"]
  BY <1>3 DEF Hold
<1> QED
  BY <1>1, <1>2, <1>3, <1>4, <1>5 DEF ServeReserve

LEMMA ReleaseDoes ==
    ASSUME Typed, NEW q \in Requests, ServeRelease(q)
    PROVE  \E i \in Requests :
              /\ pc[q] = "arrived" /\ call[q].op = "release" /\ i = call[q].id
              /\ Answer(q, "OK", i)
              /\ holds[i] # None
              /\ \/ holds' = holds
                 \/ \E h \in Hold :
                       holds' = [holds EXCEPT ![i] = h] /\ h.user = holds[i].user
              /\ UNCHANGED <<users, policies, courses, spent, calendar>>
<1>1. pc[q] = "arrived" /\ call[q].op = "release" /\ Answer(q, "OK", call[q].id)
      /\ UNCHANGED <<users, policies, courses, calendar>> /\ holds[call[q].id] # None
  BY DEF ServeRelease, At, tables
<1>2. PICK i \in Requests : i = call[q].id
  BY <1>1, CallFields DEF Typed, SessionOK
<1>3. PICK g \in Hold : g = holds[i]
  BY <1>1, <1>2 DEF Typed, TypeOK, Hold
<1>4. PICK h \in Hold :
         h = [g EXCEPT !.status = "CANCELLED"] /\ h.user = g.user
  <2>1. [g EXCEPT !.status = "CANCELLED"] = [cluster |-> g.cluster, user |-> g.user,
                                             gpu_count |-> g.gpu_count, status |-> "CANCELLED"]
    BY DEF Hold
  <2> QED
    BY <2>1 DEF Hold
<1>5. ASSUME Gpus!Release(i) PROVE holds' = [holds EXCEPT ![i] = h] /\ spent' = spent
  BY <1>3, <1>4, <1>5 DEF Gpus!Release
<1> QED
  BY <1>1, <1>2, <1>3, <1>4, <1>5 DEF ServeRelease

LEMMA BookDoes ==
    ASSUME Typed, NEW q \in Requests, ServeBook(q)
    PROVE  /\ pc[q] = "arrived" /\ call[q].op = "book" /\ users[Caller(q)] # None
           /\ Caller(q) \in Ids /\ calendar[q] = None
           /\ \E d \in [room : {"room"}, user : Ids, window : {"slot"}] :
                 calendar' = [calendar EXCEPT ![q] = d] /\ d.user = Caller(q)
           /\ Answer(q, "CREATED", q)
           /\ UNCHANGED <<users, policies, courses, holds, spent>>
<1>1. /\ pc[q] = "arrived" /\ call[q].op = "book" /\ users[Caller(q)] # None
      /\ Answer(q, "CREATED", q)
      /\ UNCHANGED <<users, policies, courses, holds, spent>>
  BY DEF ServeBook, At, Authentic, Caller, tables
<1>2. Caller(q) \in Ids
  BY <1>1, CallFields DEF Typed, SessionOK, WithToken, Caller
<1>3. [room |-> "room", user |-> Caller(q), window |-> "slot"]
         \in [room : {"room"}, user : Ids, window : {"slot"}]
  BY <1>2
<1>4. calendar[q] = None
  BY DEF ServeBook, Diary!Book
<1> QED
  BY <1>1, <1>2, <1>3, <1>4 DEF ServeBook

LEMMA CancelDoes ==
    ASSUME Typed, NEW q \in Requests, ServeCancel(q)
    PROVE  \E i \in Requests :
              /\ pc[q] = "arrived" /\ call[q].op = "cancel" /\ i = call[q].id
              /\ Answer(q, "OK", i)
              /\ calendar' = [calendar EXCEPT ![i] = None]
              /\ UNCHANGED <<users, policies, courses, holds, spent>>
<1>1. /\ pc[q] = "arrived" /\ call[q].op = "cancel"
      /\ Answer(q, "OK", call[q].id)
      /\ UNCHANGED <<users, policies, courses, holds, spent>>
  BY DEF ServeCancel, At, tables
<1>2. call[q].id \in Requests
  BY <1>1, CallFields DEF Typed, SessionOK
<1>3. calendar' = [calendar EXCEPT ![call[q].id] = None]
  <2>1. CASE Diary!GiveBack(call[q].id)
    BY <2>1 DEF Diary!GiveBack
  <2>2. CASE calendar[call[q].id] = None /\ UNCHANGED calendar
    <3>1. calendar \in [Requests -> Diary!Booking \cup {None}]
      BY DEF Typed, TypeOK
    <3> QED
      BY <1>2, <2>2, <3>1
  <2> QED
    BY <2>1, <2>2 DEF ServeCancel
<1> QED
  BY <1>1, <1>2, <1>3

LEMMA LedgersServed ==
    ASSUME Typed, NEW q \in Requests, UNCHANGED page,
           \/ ServeReserve(q) \/ ServeRelease(q) \/ ServeBook(q) \/ ServeCancel(q)
           \/ ServeRefuses(q)
    PROVE  Typed'
<1>1. TypeOK /\ TablesTyped /\ LedgersTyped
  BY TypeParts DEF Typed
<1>2. ASSUME NEW code \in {"CREATED", "OK"}, NEW body \in Requests, Answer(q, code, body),
             pc[q] = "arrived", UNCHANGED <<users, policies, courses>>, LedgersTyped'
      PROVE  Typed'
  <2>1. IsReply([code |-> code, body |-> body]) /\ InFlight(q)
    BY <1>2 DEF IsReply, Ids, InFlight
  <2>2. TablesTyped' /\ \A p \in Requests : p # q /\ users[p] = None => users'[p] = None
    BY <1>1, <1>2 DEF TablesTyped
  <2> QED
    BY <1>2, <2>1, <2>2, AnswerTyped
<1>3. CASE ServeReserve(q)
  <2>1. ASSUME call[q].key # None, spent[<<call[q].key, Caller(q)>>] # None,
               UNCHANGED <<holds, spent>>,
               Answer(q, "CREATED", spent[<<call[q].key, Caller(q)>>])
        PROVE  Typed'
    <3>1. spent[<<call[q].key, Caller(q)>>] \in Requests
      BY <1>1, <1>3, <2>1, ReserveDoes DEF LedgersTyped
    <3>2. LedgersTyped'
      BY <1>1, <1>3, <2>1, ReserveDoes DEF LedgersTyped
    <3> QED
      BY <1>2, <1>3, <2>1, <3>1, <3>2, ReserveDoes
  <2>2. ASSUME holds[q] = None, Answer(q, "CREATED", q),
               \E h \in Hold : holds' = [holds EXCEPT ![q] = h],
               \/ spent' = spent
               \/ spent' = [spent EXCEPT ![<<call[q].key, Caller(q)>>] = q]
        PROVE  Typed'
    <3>1. LedgersTyped'
      BY <1>1, <1>3, <2>2, ReserveDoes DEF LedgersTyped
    <3> QED
      BY <1>2, <1>3, <2>2, <3>1, ReserveDoes
  <2> QED
    BY <1>3, <2>1, <2>2, ReserveDoes
<1>4. CASE ServeRelease(q)
  <2>1. PICK i \in Requests :
              /\ pc[q] = "arrived" /\ Answer(q, "OK", i)
              /\ \/ holds' = holds
                 \/ \E h \in Hold :
                       holds' = [holds EXCEPT ![i] = h] /\ h.user = holds[i].user
              /\ UNCHANGED <<users, policies, courses, spent, calendar>>
    BY <1>4, ReleaseDoes
  <2>2. LedgersTyped'
    BY <1>1, <2>1 DEF LedgersTyped
  <2> QED
    BY <1>2, <2>1, <2>2
<1>5. CASE ServeBook(q)
  <2>1. LedgersTyped'
    BY <1>1, <1>5, BookDoes DEF LedgersTyped, Diary!Booking
  <2> QED
    BY <1>2, <1>5, <2>1, BookDoes
<1>6. CASE ServeCancel(q)
  <2>1. LedgersTyped'
    BY <1>1, <1>6, CancelDoes DEF LedgersTyped
  <2> QED
    BY <1>2, <1>6, <2>1, CancelDoes
<1>7. CASE ServeRefuses(q)
  <2>1. "REFUSED" \in Errors /\ Refuse(q, "REFUSED") /\ InFlight(q) /\ UNCHANGED ledgers
    BY <1>7 DEF ServeRefuses, Errors, InFlight
  <2> QED
    BY <2>1, RefuseTyped
<1> QED
  BY <1>3, <1>4, <1>5, <1>6, <1>7

LEMMA DemoteTyped ==
    ASSUME Typed, NEW i \in Ids, Demote(i), UNCHANGED <<page, ledgers>>
    PROVE  Typed'
<1>1. TypeOK /\ TablesTyped /\ LedgersTyped /\ RequestsTyped /\ PageTyped
  BY TypeParts DEF Typed
<1>2. users[i] \in UserRow /\ users[i] # None
  BY <1>1 DEF Demote, TablesTyped
<1>3. PICK row \in UserRow : row = [users[i] EXCEPT !.role = "STUDENT"]
  BY <1>2 DEF UserRow, Role
<1>4. users' = [users EXCEPT ![i] = row]
      /\ UNCHANGED <<policies, courses, pc, call, found, reply>>
  BY <1>3 DEF Demote, request
<1>5. TablesTyped' /\ LedgersTyped' /\ RequestsTyped' /\ PageTyped'
  BY <1>1, <1>4 DEF TablesTyped, LedgersTyped, RequestsTyped, PageTyped, page, state, ledgers
<1>6. \A q \in Requests : SessionOK(q)'
  BY <1>1, <1>2, <1>4 DEF Typed, SessionOK, TablesTyped
<1>7. \A b \in Browsers : BrowserOK(b)'
  BY <1>4 DEF Typed, BrowserOK, page, state
<1>8. (reply = [p \in Requests |-> reply[p]])'
  BY <1>4 DEF Typed
<1> QED
  BY <1>5, <1>6, <1>7, <1>8, TypeParts DEF Typed

LEMMA NextTyped == Typed /\ [Next]_vars => Typed'
<1> SUFFICES ASSUME Typed, [Next]_vars PROVE Typed'
  OBVIOUS
<1>1. ASSUME NEW b \in Browsers, Press(b) PROVE Typed'
  BY <1>1, PressSends, SendTyped
<1>2. ASSUME NEW b \in Browsers, Turns(b) PROVE Typed'
  BY <1>2, TurnTyped
<1>3. ASSUME NEW q \in Requests, Serve(q) PROVE Typed'
  BY <1>3, AccountsTyped, LedgersServed DEF Serve
<1>4. ASSUME NEW i \in Ids, Demote(i), UNCHANGED <<page, ledgers>> PROVE Typed'
  BY <1>4, DemoteTyped
<1>5. CASE UNCHANGED vars
  BY <1>5 DEF vars, Typed, TypeOK, SessionOK, BrowserOK
<1> QED
  BY <1>1, <1>2, <1>3, <1>4, <1>5 DEF Next, Turns

(* Every variable of the server and of the browsers has its type.          *)
THEOREM TypeCorrect == Spec => []TypeOK
<1>1. Typed => TypeOK
  BY DEF Typed
<1> QED
  BY InitTyped, NextTyped, <1>1, PTL DEF Spec

-----------------------------------------------------------------------------
(* The unique indexes.  What is committed is unique, and what is inserted  *)
(* and not yet committed meets neither a committed row nor another open    *)
(* INSERT.                                                                 *)

EmailsOne ==
    /\ \A i, j \in Ids :
          users[i] # None /\ users[j] # None /\ users[i].email = users[j].email => i = j
    /\ \A q \in Requests : At(q, "inserted", "register") =>
          Registered(call[q].email) = {} /\ ~EmailPending(q)
    /\ \A q \in Requests : reply[q] # None /\ reply[q].code = "EMAIL_ALREADY_REGISTERED" =>
          Registered(call[q].email) # {}

PairsOne ==
    /\ \A r, s \in policies : r.pair = s.pair => r = s
    /\ \A q \in Requests : At(q, "inserted", "put") =>
          RowsOf(call[q].pair) = {} /\ ~PolicyPending(q)

CodesOne ==
    /\ \A c, d \in courses : c.code = d.code => c = d
    /\ \A c \in courses : Canonical[c.code] = c.code
    /\ \A q \in Requests : At(q, "inserted", "course") =>
          Listed(CourseCode(q)) = {} /\ ~CodePending(q)
    /\ \A q \in Requests : reply[q] # None /\ reply[q].code = "COURSE_CODE_TAKEN" =>
          Listed(CourseCode(q)) # {}

UniqueInv == Typed /\ EmailsOne /\ PairsOne /\ CodesOne

(* A step that leaves the tables alone, opens no INSERT and refuses no     *)
(* duplicate.                                                              *)
Quiet ==
    /\ UNCHANGED tables
    /\ \A p \in Requests :
          /\ pc'[p] = "inserted" => pc[p] = "inserted" /\ call'[p] = call[p]
          /\ \/ reply'[p] = reply[p] /\ (reply[p] # None => call'[p] = call[p])
             \/ reply'[p].code \notin {"EMAIL_ALREADY_REGISTERED", "COURSE_CODE_TAKEN"}

Writes(q) ==
    \/ InsertUser(q) \/ EmailTaken(q) \/ RegisterCommit(q)
    \/ PutUpdate(q) \/ PutInsert(q) \/ PutCommit(q)
    \/ InsertCourse(q) \/ CourseCodeTaken(q) \/ CourseCommit(q)

LEMMA AnswerQuiet ==
    ASSUME Typed, NEW q \in Requests, NEW code, NEW body, Answer(q, code, body),
           code \notin {"EMAIL_ALREADY_REGISTERED", "COURSE_CODE_TAKEN"}, UNCHANGED tables
    PROVE  Quiet
<1>0. [code |-> code, body |-> body].code = code
  OBVIOUS
<1>1. PICK r : r = [code |-> code, body |-> body] /\ r.code = code
  BY <1>0
<1>2. reply' = [reply EXCEPT ![q] = r] /\ pc' = [pc EXCEPT ![q] = "done"] /\ call' = call
  BY <1>1 DEF Answer, Goto
<1>3. /\ \A p \in Requests : p # q => reply'[p] = reply[p] /\ pc'[p] = pc[p]
      /\ reply'[q] = r /\ pc'[q] = "done"
  BY <1>2 DEF Typed, TypeOK
<1> QED
  BY <1>1, <1>2, <1>3 DEF Quiet

LEMMA StepKinds ==
    ASSUME Typed, [Next]_vars
    PROVE  \/ Quiet
           \/ \E q \in Requests : Writes(q)
           \/ \E i \in Ids : Demote(i)
<1>0. TypeOK
  BY DEF Typed
<1>1. ASSUME NEW b \in Browsers, Press(b) PROVE Quiet
  <2>1. PICK q \in Requests, c \in Call : Sends(b, q, c)
    BY <1>1, PressSends
  <2>2. pc[q] = "idle" /\ pc' = [pc EXCEPT ![q] = "arrived"] /\ call' = [call EXCEPT ![q] = c]
        /\ reply' = reply /\ UNCHANGED tables
    BY <2>1 DEF Sends
  <2>3. reply[q] = None
    BY <2>2 DEF Typed, SessionOK
  <2>4. \A p \in Requests : p # q => pc'[p] = pc[p] /\ call'[p] = call[p]
    BY <1>0, <2>2 DEF TypeOK
  <2>5. pc'[q] = "arrived"
    BY <1>0, <2>2 DEF TypeOK
  <2> QED
    BY <2>2, <2>3, <2>4, <2>5 DEF Quiet
<1>2. ASSUME NEW b \in Browsers, Turns(b) PROVE Quiet
  BY <1>2, TurnFrame DEF Quiet, request
<1>3. ASSUME NEW q \in Requests, Serve(q), ~Writes(q) PROVE Quiet
  <2>1. CASE Authorize(q) \/ FindPolicy(q)
    BY <1>0, <2>1 DEF Authorize, FindPolicy, Goto, Quiet, TypeOK
  <2>2. CASE Login(q)
    BY <2>2, AnswerQuiet DEF Login
  <2>3. ASSUME NEW code \in {"UNAUTHORIZED", "FORBIDDEN", "ERROR", "REFUSED"}, Refuse(q, code)
        PROVE  Quiet
    BY <2>3, AnswerQuiet DEF Refuse
  <2>4. CASE AuthorizeRefuses(q) \/ PutInsertRejected(q) \/ ConnectionLost(q) \/ ServeRefuses(q)
    BY <2>3, <2>4 DEF AuthorizeRefuses, PutInsertRejected, ConnectionLost, ServeRefuses
  <2>5. CASE ServeReserve(q)
    <3>1. UNCHANGED tables /\ \E body : Answer(q, "CREATED", body)
      BY <2>5, ReserveDoes DEF tables
    <3> QED
      BY <3>1, AnswerQuiet
  <2>6. CASE ServeRelease(q)
    BY <2>6, ReleaseDoes, AnswerQuiet DEF tables
  <2>7. CASE ServeBook(q)
    BY <2>7, BookDoes, AnswerQuiet DEF tables
  <2>8. CASE ServeCancel(q)
    BY <2>8, CancelDoes, AnswerQuiet DEF tables
  <2> QED
    BY <1>3, <2>1, <2>2, <2>4, <2>5, <2>6, <2>7, <2>8 DEF Serve, ServeAccounts, Writes
<1>4. CASE UNCHANGED vars
  BY <1>4 DEF vars, Quiet, tables
<1> QED
  BY <1>1, <1>2, <1>3, <1>4 DEF Next, Turns

(* What a statement that writes does to the requests.                      *)
LEMMA WriteFrame ==
    ASSUME Typed, NEW q \in Requests, Writes(q)
    PROVE  /\ call' = call
           /\ \A p \in Requests : p # q => pc'[p] = pc[p] /\ reply'[p] = reply[p]
           /\ InsertUser(q) \/ PutInsert(q) \/ InsertCourse(q) =>
                 UNCHANGED <<tables, reply>> /\ pc'[q] = "inserted"
           /\ EmailTaken(q) => pc'[q] = "done" /\ UNCHANGED tables
                               /\ reply'[q].code = "EMAIL_ALREADY_REGISTERED"
           /\ CourseCodeTaken(q) => pc'[q] = "done" /\ UNCHANGED tables
                                    /\ reply'[q].code = "COURSE_CODE_TAKEN"
           /\ RegisterCommit(q) => pc'[q] = "done" /\ reply'[q].code = "CREATED"
           /\ PutUpdate(q) \/ PutCommit(q) \/ CourseCommit(q) =>
                 pc'[q] = "done" /\ reply'[q].code = "OK"
<1>1. ASSUME NEW code, NEW body, Answer(q, code, body)
      PROVE  /\ call' = call /\ pc'[q] = "done" /\ reply'[q].code = code
             /\ \A p \in Requests : p # q => pc'[p] = pc[p] /\ reply'[p] = reply[p]
  <2>0. [code |-> code, body |-> body].code = code
    OBVIOUS
  <2>1. PICK r : r = [code |-> code, body |-> body] /\ r.code = code
    BY <2>0
  <2>2. reply' = [reply EXCEPT ![q] = r] /\ pc' = [pc EXCEPT ![q] = "done"] /\ call' = call
    BY <1>1, <2>1 DEF Answer, Goto
  <2> QED
    BY <2>1, <2>2 DEF Typed, TypeOK
<1>2. ASSUME Goto(q, "inserted"), UNCHANGED <<tables, call, reply>>
      PROVE  /\ call' = call /\ pc'[q] = "inserted"
             /\ \A p \in Requests : p # q => pc'[p] = pc[p] /\ reply'[p] = reply[p]
  BY <1>2 DEF Goto, Typed, TypeOK
<1>3. InsertUser(q) \/ PutInsert(q) \/ InsertCourse(q) =>
         Goto(q, "inserted") /\ UNCHANGED <<tables, call, reply>>
  BY DEF InsertUser, PutInsert, InsertCourse
<1>4. EmailTaken(q) => Answer(q, "EMAIL_ALREADY_REGISTERED", None) /\ UNCHANGED tables
  BY DEF EmailTaken, Refuse
<1>5. CourseCodeTaken(q) => Answer(q, "COURSE_CODE_TAKEN", None) /\ UNCHANGED tables
  BY DEF CourseCodeTaken, Refuse
<1>6. RegisterCommit(q) => Answer(q, "CREATED", q)
  BY DEF RegisterCommit
<1>7. PutUpdate(q) \/ PutCommit(q) \/ CourseCommit(q) => Answer(q, "OK", None)
  BY DEF PutUpdate, PutCommit, CourseCommit
<1>8. /\ EmailTaken(q) => pc'[q] = "done" /\ reply'[q].code = "EMAIL_ALREADY_REGISTERED"
      /\ CourseCodeTaken(q) => pc'[q] = "done" /\ reply'[q].code = "COURSE_CODE_TAKEN"
      /\ RegisterCommit(q) => pc'[q] = "done" /\ reply'[q].code = "CREATED"
      /\ PutUpdate(q) \/ PutCommit(q) \/ CourseCommit(q) =>
            pc'[q] = "done" /\ reply'[q].code = "OK"
  BY <1>1, <1>4, <1>5, <1>6, <1>7
<1>9. /\ call' = call
      /\ \A p \in Requests : p # q => pc'[p] = pc[p] /\ reply'[p] = reply[p]
  BY <1>1, <1>2, <1>3, <1>4, <1>5, <1>6, <1>7 DEF Writes
<1> QED
  BY <1>2, <1>3, <1>4, <1>5, <1>8, <1>9

(* An e-mail: InsertUser waits for an open INSERT and looks at what is     *)
(* committed.                                                              *)
LEMMA EmailsStay ==
    ASSUME Typed, EmailsOne,
           \A i \in Ids : /\ users'[i] = None <=> users[i] = None
                          /\ users[i] # None => users'[i].email = users[i].email,
           \A p \in Requests : pc'[p] = "inserted" /\ call'[p].op = "register" =>
              pc[p] = "inserted" /\ call'[p] = call[p],
           \A p \in Requests : reply'[p] # None /\ reply'[p].code = "EMAIL_ALREADY_REGISTERED" =>
              Registered(call'[p].email) # {}
    PROVE  EmailsOne'
<1>1. \A e : Registered(e)' = Registered(e)
  BY DEF Registered
<1>2. \A p \in Requests : At(p, "inserted", "register")' =>
         At(p, "inserted", "register") /\ call'[p] = call[p]
  BY DEF At
<1>3. ASSUME NEW q \in Requests, At(q, "inserted", "register")'
      PROVE  (Registered(call[q].email) = {} /\ ~EmailPending(q))'
  <2>1. At(q, "inserted", "register") /\ call'[q] = call[q]
    BY <1>2, <1>3
  <2>2. Registered(call[q].email) = {} /\ ~EmailPending(q)
    BY <2>1 DEF EmailsOne
  <2>3. ~EmailPending(q)'
    BY <1>2, <2>1, <2>2 DEF EmailPending
  <2> QED
    BY <1>1, <2>1, <2>2, <2>3
<1>4. (\A q \in Requests : reply[q] # None /\ reply[q].code = "EMAIL_ALREADY_REGISTERED" =>
          Registered(call[q].email) # {})'
  BY <1>1
<1>5. (\A i, j \in Ids :
          users[i] # None /\ users[j] # None /\ users[i].email = users[j].email => i = j)'
  BY DEF EmailsOne
<1> QED
  BY <1>3, <1>4, <1>5 DEF EmailsOne

LEMMA EmailsKept ==
    ASSUME Typed, EmailsOne, [Next]_vars
    PROVE  EmailsOne'
<1>0. TypeOK /\ \A q \in Requests : SessionOK(q)
  BY DEF Typed
<1>1. CASE Quiet
  <2>1. UNCHANGED users
    BY <1>1 DEF Quiet, tables
  <2>2. \A p \in Requests : reply'[p] # None /\ reply'[p].code = "EMAIL_ALREADY_REGISTERED" =>
           Registered(call'[p].email) # {}
    BY <1>1 DEF Quiet, EmailsOne
  <2> QED
    BY <1>1, <2>1, <2>2, EmailsStay DEF Quiet
<1>2. ASSUME NEW i \in Ids, Demote(i) PROVE EmailsOne'
  <2>1. users[i] \in UserRow /\ users[i] # None
    BY <1>0, <1>2 DEF Demote, TypeOK
  <2>2. PICK row \in UserRow : row = [users[i] EXCEPT !.role = "STUDENT"]
                               /\ row.email = users[i].email
    <3>1. [users[i] EXCEPT !.role = "STUDENT"] = [email |-> users[i].email, role |-> "STUDENT"]
      BY <2>1 DEF UserRow
    <3>2. [email |-> users[i].email, role |-> "STUDENT"] \in UserRow
      BY <2>1 DEF UserRow, Role
    <3> QED
      BY <3>1, <3>2
  <2>3. users' = [users EXCEPT ![i] = row] /\ UNCHANGED <<pc, call, reply>>
    BY <1>2, <2>2 DEF Demote, request
  <2>4. row # None
    BY SentinelsApart
  <2>5. \A j \in Ids : /\ users'[j] = None <=> users[j] = None
                       /\ users[j] # None => users'[j].email = users[j].email
    BY <1>0, <2>1, <2>2, <2>3, <2>4 DEF TypeOK
  <2>6. \A p \in Requests : reply'[p] # None /\ reply'[p].code = "EMAIL_ALREADY_REGISTERED" =>
           Registered(call'[p].email) # {}
    BY <2>3 DEF EmailsOne
  <2> QED
    BY <2>3, <2>5, <2>6, EmailsStay
<1>3. ASSUME NEW q \in Requests, Writes(q), ~InsertUser(q), ~RegisterCommit(q) PROVE EmailsOne'
  <2>1. /\ call' = call
        /\ \A p \in Requests : p # q => pc'[p] = pc[p] /\ reply'[p] = reply[p]
    BY <1>3, WriteFrame
  <2>2. UNCHANGED users
    BY <1>3, WriteFrame DEF Writes, PutUpdate, PutCommit, CourseCommit, tables
  <2>3. pc'[q] = "inserted" => call[q].op # "register"
    <3>1. CASE PutInsert(q)
      BY <1>0, <3>1 DEF SessionOK, PutInsert
    <3>2. CASE InsertCourse(q)
      BY <3>2 DEF InsertCourse, At
    <3> QED
      BY <1>3, <3>1, <3>2, WriteFrame DEF Writes
  <2>4. \A p \in Requests : reply'[p] # None /\ reply'[p].code = "EMAIL_ALREADY_REGISTERED" =>
           Registered(call'[p].email) # {}
    <3>1. CASE EmailTaken(q)
      BY <2>1, <3>1 DEF EmailTaken, EmailsOne
    <3>2. CASE ~EmailTaken(q)
      <4>1. reply'[q] = reply[q] \/ reply'[q].code \in {"OK", "COURSE_CODE_TAKEN"}
        BY <1>3, <3>2, WriteFrame DEF Writes
      <4> QED
        BY <2>1, <4>1 DEF EmailsOne
    <3> QED
      BY <3>1, <3>2
  <2>5. \A p \in Requests : pc'[p] = "inserted" /\ call'[p].op = "register" =>
           pc[p] = "inserted" /\ call'[p] = call[p]
    BY <2>1, <2>3
  <2> QED
    BY <2>2, <2>4, <2>5, EmailsStay
<1>4. ASSUME NEW q \in Requests, InsertUser(q) PROVE EmailsOne'
  <2>1. /\ call' = call /\ reply' = reply /\ users' = users
        /\ \A p \in Requests : p # q => pc'[p] = pc[p]
    BY <1>4, WriteFrame DEF Writes, tables
  <2>2. ~EmailPending(q) /\ Registered(call[q].email) = {}
    BY <1>4 DEF InsertUser
  <2>3. ASSUME NEW p \in Requests, At(p, "inserted", "register")'
        PROVE  (Registered(call[p].email) = {} /\ ~EmailPending(p))'
    <3>1. Registered(call[p].email) = {} /\ (p # q => At(p, "inserted", "register"))
      BY <2>1, <2>2, <2>3 DEF At, EmailsOne
    <3>2. ASSUME NEW r \in Requests \ {p}, At(r, "inserted", "register")',
                 call'[r].email = call'[p].email
          PROVE  FALSE
      <4>1. CASE p # q /\ r # q
        BY <2>1, <2>3, <3>1, <3>2, <4>1 DEF At, EmailsOne, EmailPending
      <4>2. CASE p = q
        BY <2>1, <2>2, <3>2, <4>2 DEF At, EmailPending
      <4>3. CASE r = q
        BY <2>1, <2>2, <2>3, <3>2, <4>3 DEF At, EmailPending
      <4> QED
        BY <4>1, <4>2, <4>3
    <3> QED
      BY <2>1, <3>1, <3>2 DEF EmailPending, Registered
  <2> QED
    BY <2>1, <2>3 DEF EmailsOne, Registered
<1>5. ASSUME NEW q \in Requests, RegisterCommit(q) PROVE EmailsOne'
  <2>1. /\ call' = call /\ pc'[q] = "done" /\ reply'[q].code = "CREATED"
        /\ \A p \in Requests : p # q => pc'[p] = pc[p] /\ reply'[p] = reply[p]
    BY <1>5, WriteFrame DEF Writes
  <2>2. Registered(call[q].email) = {} /\ ~EmailPending(q)
    BY <1>5 DEF RegisterCommit, EmailsOne
  <2>3. At(q, "inserted", "register") /\ users[q] = None
    BY <1>0, <1>5 DEF RegisterCommit, SessionOK, At
  <2>4. PICK row : row = [email |-> call[q].email, role |-> call[q].role]
                   /\ row.email = call[q].email
    <3>1. [email |-> call[q].email, role |-> call[q].role].email = call[q].email
      OBVIOUS
    <3> QED
      BY <3>1
  <2>5. users' = [users EXCEPT ![q] = row]
    BY <1>5, <2>4 DEF RegisterCommit
  <2>6. users'[q] = row /\ \A i \in Ids : i # q => users'[i] = users[i]
    BY <1>0, <2>5 DEF TypeOK, Ids
  <2>7. \A i \in Ids : users[i] # None => users[i].email # call[q].email
    BY <2>2 DEF Registered
  <2>8. (\A i, j \in Ids :
          users[i] # None /\ users[j] # None /\ users[i].email = users[j].email => i = j)'
    BY <2>4, <2>6, <2>7 DEF EmailsOne
  <2>9. ASSUME NEW p \in Requests, At(p, "inserted", "register")'
        PROVE  (Registered(call[p].email) = {} /\ ~EmailPending(p))'
    <3>1. p # q /\ At(p, "inserted", "register")
      BY <2>1, <2>9 DEF At
    <3>2. Registered(call[p].email) = {} /\ ~EmailPending(p)
      BY <3>1 DEF EmailsOne
    <3>3. call[p].email # call[q].email
      BY <2>3, <3>1, <3>2 DEF EmailPending
    <3>4. \A i \in Ids : users'[i] # None => users'[i].email # call[p].email
      BY <2>4, <2>6, <3>2, <3>3 DEF Registered
    <3>5. ~EmailPending(p)'
      BY <2>1, <3>2 DEF EmailPending, At
    <3> QED
      BY <2>1, <3>4, <3>5 DEF Registered
  <2>10. ASSUME NEW p \in Requests, reply'[p] # None,
                reply'[p].code = "EMAIL_ALREADY_REGISTERED"
         PROVE  (Registered(call[p].email) # {})'
    <3>1. Registered(call[p].email) # {}
      BY <2>1, <2>10 DEF EmailsOne
    <3>2. PICK i \in Ids : users[i] # None /\ users[i].email = call[p].email
      BY <3>1 DEF Registered
    <3>3. users'[i] = users[i]
      BY <2>3, <2>6, <3>2
    <3> QED
      BY <2>1, <3>2, <3>3 DEF Registered
  <2> QED
    BY <2>8, <2>9, <2>10 DEF EmailsOne
<1> QED
  BY <1>1, <1>2, <1>3, <1>4, <1>5, StepKinds

(* A pair (role, resource type): PutInsert likewise; PutUpdate keeps the   *)
(* pairs of the rows.                                                      *)
LEMMA PairsKept ==
    ASSUME Typed, PairsOne, [Next]_vars
    PROVE  PairsOne'
<1>0. TypeOK /\ \A q \in Requests : SessionOK(q)
  BY DEF Typed
<1>1. ASSUME \A r, s \in policies' : r.pair = s.pair => r = s,
             \A r \in policies' : \E s \in policies : r.pair = s.pair,
             \A p \in Requests : pc'[p] = "inserted" /\ call'[p].op = "put" =>
                pc[p] = "inserted" /\ call'[p] = call[p]
      PROVE  PairsOne'
  <2>1. \A p \in Requests : At(p, "inserted", "put")' =>
           At(p, "inserted", "put") /\ call'[p] = call[p]
    BY <1>1 DEF At
  <2>2. ASSUME NEW q \in Requests, At(q, "inserted", "put")'
        PROVE  (RowsOf(call[q].pair) = {} /\ ~PolicyPending(q))'
    <3>1. At(q, "inserted", "put") /\ call'[q] = call[q]
      BY <2>1, <2>2
    <3>2. RowsOf(call[q].pair) = {} /\ ~PolicyPending(q)
      BY <3>1 DEF PairsOne
    <3>3. ~PolicyPending(q)'
      BY <2>1, <3>1, <3>2 DEF PolicyPending
    <3> QED
      BY <1>1, <3>1, <3>2, <3>3 DEF RowsOf
  <2> QED
    BY <1>1, <2>2 DEF PairsOne
<1>2. CASE Quiet
  BY <1>1, <1>2 DEF Quiet, tables, PairsOne
<1>3. ASSUME NEW i \in Ids, Demote(i) PROVE PairsOne'
  BY <1>1, <1>3 DEF Demote, request, PairsOne
<1>4. ASSUME NEW q \in Requests, Writes(q), ~PutUpdate(q), ~PutInsert(q), ~PutCommit(q)
      PROVE  PairsOne'
  <2>1. /\ call' = call
        /\ \A p \in Requests : p # q => pc'[p] = pc[p]
    BY <1>4, WriteFrame
  <2>2. policies' = policies
    BY <1>4, WriteFrame DEF Writes, RegisterCommit, CourseCommit, tables
  <2>3. pc'[q] = "inserted" => call[q].op # "put"
    <3>1. CASE InsertUser(q) \/ InsertCourse(q)
      BY <3>1 DEF InsertUser, InsertCourse, At
    <3> QED
      BY <1>4, <3>1, WriteFrame DEF Writes
  <2> QED
    BY <1>1, <2>1, <2>2, <2>3 DEF PairsOne
<1>5. ASSUME NEW q \in Requests, PutUpdate(q) PROVE PairsOne'
  <2>1. /\ call' = call /\ pc'[q] = "done"
        /\ \A p \in Requests : p # q => pc'[p] = pc[p]
    BY <1>5, WriteFrame DEF Writes
  <2> DEFINE Edited(r) == IF /\ call[q].max_units # found[q].max_units
                             /\ r.by = found[q].by /\ r.pair = found[q].pair
                          THEN [r EXCEPT !.max_units = call[q].max_units] ELSE r
  <2>2a. policies' = { Edited(r) : r \in policies }
    BY <1>5 DEF PutUpdate
  <2>2b. \A r \in policies : Edited(r).pair = r.pair
    BY <1>0 DEF TypeOK, RoleQuota
  <2> HIDE DEF Edited
  <2>2. \A s \in policies' : \E r \in policies : s = Edited(r) /\ s.pair = r.pair
    BY <2>2a, <2>2b
  <2>3. \A r, s \in policies' : r.pair = s.pair => r = s
    BY <2>2 DEF PairsOne
  <2>4. \A r \in policies' : \E s \in policies : r.pair = s.pair
    BY <2>2
  <2> QED
    BY <1>1, <2>1, <2>3, <2>4
<1>6. ASSUME NEW q \in Requests, PutInsert(q) PROVE PairsOne'
  <2>1. /\ call' = call /\ policies' = policies
        /\ \A p \in Requests : p # q => pc'[p] = pc[p]
    BY <1>6, WriteFrame DEF Writes, tables
  <2>2. ~PolicyPending(q) /\ RowsOf(call[q].pair) = {} /\ call[q].op = "put"
    BY <1>0, <1>6 DEF PutInsert, SessionOK
  <2>3. ASSUME NEW p \in Requests, At(p, "inserted", "put")'
        PROVE  (RowsOf(call[p].pair) = {} /\ ~PolicyPending(p))'
    <3>1. RowsOf(call[p].pair) = {} /\ (p # q => At(p, "inserted", "put"))
      BY <2>1, <2>2, <2>3 DEF At, PairsOne
    <3>2. ASSUME NEW r \in Requests \ {p}, At(r, "inserted", "put")',
                 call'[r].pair = call'[p].pair
          PROVE  FALSE
      <4>1. CASE p # q /\ r # q
        BY <2>1, <2>3, <3>1, <3>2, <4>1 DEF At, PairsOne, PolicyPending
      <4>2. CASE p = q
        BY <2>1, <2>2, <3>2, <4>2 DEF At, PolicyPending
      <4>3. CASE r = q
        BY <2>1, <2>2, <2>3, <3>2, <4>3 DEF At, PolicyPending
      <4> QED
        BY <4>1, <4>2, <4>3
    <3> QED
      BY <2>1, <3>1, <3>2 DEF PolicyPending, RowsOf
  <2> QED
    BY <2>1, <2>3 DEF PairsOne
<1>7. ASSUME NEW q \in Requests, PutCommit(q) PROVE PairsOne'
  <2>1. /\ call' = call /\ pc'[q] = "done"
        /\ \A p \in Requests : p # q => pc'[p] = pc[p]
    BY <1>7, WriteFrame DEF Writes
  <2>2. At(q, "inserted", "put") /\ RowsOf(call[q].pair) = {} /\ ~PolicyPending(q)
    BY <1>7 DEF PutCommit, PairsOne
  <2>3. PICK row : /\ row = [pair |-> call[q].pair, max_units |-> call[q].max_units, by |-> q]
                   /\ row.pair = call[q].pair
    <3>1. [pair |-> call[q].pair, max_units |-> call[q].max_units, by |-> q].pair = call[q].pair
      OBVIOUS
    <3> QED
      BY <3>1
  <2>4. policies' = policies \cup {row}
    BY <1>7, <2>3 DEF PutCommit
  <2>5. \A r, s \in policies' : r.pair = s.pair => r = s
    BY <2>2, <2>3, <2>4 DEF PairsOne, RowsOf
  <2>6. ASSUME NEW p \in Requests, At(p, "inserted", "put")'
        PROVE  (RowsOf(call[p].pair) = {} /\ ~PolicyPending(p))'
    <3>1. p # q /\ At(p, "inserted", "put")
      BY <2>1, <2>6 DEF At
    <3>2. RowsOf(call[p].pair) = {} /\ ~PolicyPending(p)
      BY <3>1 DEF PairsOne
    <3>3. call[p].pair # call[q].pair
      BY <2>2, <3>1, <3>2 DEF PolicyPending
    <3>4. ~PolicyPending(p)'
      BY <2>1, <3>2 DEF PolicyPending, At
    <3> QED
      BY <2>1, <2>3, <2>4, <3>2, <3>3, <3>4 DEF RowsOf
  <2> QED
    BY <2>5, <2>6 DEF PairsOne
<1> QED
  BY <1>2, <1>3, <1>4, <1>5, <1>6, <1>7, StepKinds

(* A course code, in its canonical spelling: InsertCourse likewise.        *)
LEMMA CodesKept ==
    ASSUME Typed, CodesOne, [Next]_vars
    PROVE  CodesOne'
<1>0. TypeOK /\ \A q \in Requests : SessionOK(q)
  BY DEF Typed
<1>1. ASSUME courses' = courses,
             \A p \in Requests : pc'[p] = "inserted" /\ call'[p].op = "course" =>
                pc[p] = "inserted" /\ call'[p] = call[p],
             \A p \in Requests : reply'[p] # None /\ reply'[p].code = "COURSE_CODE_TAKEN" =>
                { c \in courses : c.code = Canonical[call'[p].code] } # {}
      PROVE  CodesOne'
  <2>1. \A p \in Requests : At(p, "inserted", "course")' =>
           At(p, "inserted", "course") /\ call'[p] = call[p]
    BY <1>1 DEF At
  <2>2. ASSUME NEW q \in Requests, At(q, "inserted", "course")'
        PROVE  (Listed(CourseCode(q)) = {} /\ ~CodePending(q))'
    <3>1. At(q, "inserted", "course") /\ call'[q] = call[q]
      BY <2>1, <2>2
    <3>2. Listed(CourseCode(q)) = {} /\ ~CodePending(q)
      BY <3>1 DEF CodesOne
    <3>3. ~CodePending(q)'
      BY <2>1, <3>1, <3>2 DEF CodePending, CourseCode
    <3> QED
      BY <1>1, <3>1, <3>2, <3>3 DEF Listed, CourseCode
  <2>3. (\A q \in Requests : reply[q] # None /\ reply[q].code = "COURSE_CODE_TAKEN" =>
          Listed(CourseCode(q)) # {})'
    BY <1>1 DEF Listed, CourseCode
  <2> QED
    BY <1>1, <2>2, <2>3 DEF CodesOne
<1>2. CASE Quiet
  BY <1>1, <1>2 DEF Quiet, tables, CodesOne, Listed, CourseCode
<1>3. ASSUME NEW i \in Ids, Demote(i) PROVE CodesOne'
  BY <1>1, <1>3 DEF Demote, request, CodesOne, Listed, CourseCode
<1>4. ASSUME NEW q \in Requests, Writes(q), ~InsertCourse(q), ~CourseCommit(q)
      PROVE  CodesOne'
  <2>1. /\ call' = call
        /\ \A p \in Requests : p # q => pc'[p] = pc[p] /\ reply'[p] = reply[p]
    BY <1>4, WriteFrame
  <2>2. courses' = courses
    BY <1>4, WriteFrame DEF Writes, RegisterCommit, PutUpdate, PutCommit, tables
  <2>3. pc'[q] = "inserted" => call[q].op # "course"
    <3>1. CASE PutInsert(q)
      BY <1>0, <3>1 DEF SessionOK, PutInsert
    <3>2. CASE InsertUser(q)
      BY <3>2 DEF InsertUser, At
    <3> QED
      BY <1>4, <3>1, <3>2, WriteFrame DEF Writes
  <2>4. \A p \in Requests : reply'[p] # None /\ reply'[p].code = "COURSE_CODE_TAKEN" =>
           Listed(CourseCode(p)) # {}
    <3>1. CASE CourseCodeTaken(q)
      BY <2>1, <3>1 DEF CourseCodeTaken, CodesOne
    <3>2. CASE ~CourseCodeTaken(q)
      <4>1. reply'[q] = reply[q] \/ reply'[q].code \in {"OK", "CREATED", "EMAIL_ALREADY_REGISTERED"}
        BY <1>4, <3>2, WriteFrame DEF Writes
      <4> QED
        BY <2>1, <4>1 DEF CodesOne
    <3> QED
      BY <3>1, <3>2
  <2> QED
    BY <1>1, <2>1, <2>2, <2>3, <2>4 DEF Listed, CourseCode
<1>5. ASSUME NEW q \in Requests, InsertCourse(q) PROVE CodesOne'
  <2>1. /\ call' = call /\ courses' = courses /\ reply' = reply
        /\ \A p \in Requests : p # q => pc'[p] = pc[p]
    BY <1>5, WriteFrame DEF Writes, tables
  <2>2. ~CodePending(q) /\ Listed(CourseCode(q)) = {} /\ call[q].op = "course"
    BY <1>5 DEF InsertCourse, At
  <2>3. ASSUME NEW p \in Requests, At(p, "inserted", "course")'
        PROVE  (Listed(CourseCode(p)) = {} /\ ~CodePending(p))'
    <3>1. Listed(CourseCode(p)) = {} /\ (p # q => At(p, "inserted", "course"))
      BY <2>1, <2>2, <2>3 DEF At, CodesOne
    <3>2. ASSUME NEW r \in Requests \ {p}, At(r, "inserted", "course")',
                 CourseCode(r)' = CourseCode(p)'
          PROVE  FALSE
      <4>0. CourseCode(r) = CourseCode(p)
        BY <2>1, <3>2 DEF CourseCode
      <4>1. CASE p # q /\ r # q
        BY <2>1, <2>3, <3>1, <3>2, <4>0, <4>1 DEF At, CodesOne, CodePending
      <4>2. CASE p = q
        BY <2>1, <2>2, <3>2, <4>0, <4>2 DEF At, CodePending
      <4>3. CASE r = q
        BY <2>1, <2>2, <2>3, <3>2, <4>0, <4>3 DEF At, CodePending
      <4> QED
        BY <4>1, <4>2, <4>3
    <3>3. (Listed(CourseCode(p)) = {})'
      BY <2>1, <3>1 DEF Listed, CourseCode
    <3> QED
      BY <3>2, <3>3 DEF CodePending
  <2> QED
    BY <2>1, <2>3 DEF CodesOne, Listed, CourseCode
<1>6. ASSUME NEW q \in Requests, CourseCommit(q) PROVE CodesOne'
  <2>1. /\ call' = call /\ pc'[q] = "done" /\ reply'[q].code = "OK"
        /\ \A p \in Requests : p # q => pc'[p] = pc[p] /\ reply'[p] = reply[p]
    BY <1>6, WriteFrame DEF Writes
  <2>2. At(q, "inserted", "course") /\ Listed(CourseCode(q)) = {} /\ ~CodePending(q)
    BY <1>6 DEF CourseCommit, CodesOne
  <2>3. PICK row : row = [code |-> CourseCode(q), by |-> q] /\ row.code = CourseCode(q)
    <3>1. [code |-> CourseCode(q), by |-> q].code = CourseCode(q)
      OBVIOUS
    <3> QED
      BY <3>1
  <2>4. courses' = courses \cup {row}
    BY <1>6, <2>3 DEF CourseCommit
  <2>5. \A c, d \in courses' : c.code = d.code => c = d
    BY <2>2, <2>3, <2>4 DEF CodesOne, Listed
  <2>6. \A c \in courses' : Canonical[c.code] = c.code
    <3>1. call[q].code \in Codes
      BY <1>0, <2>2, CallFields DEF SessionOK, At
    <3>2. Canonical[row.code] = row.code
      BY <2>3, <3>1, CanonicalIdempotent DEF CourseCode
    <3> QED
      BY <2>4, <3>2 DEF CodesOne
  <2>7. \A p \in Requests : CourseCode(p)' = CourseCode(p)
    BY <2>1 DEF CourseCode
  <2>8. ASSUME NEW p \in Requests, At(p, "inserted", "course")'
        PROVE  (Listed(CourseCode(p)) = {} /\ ~CodePending(p))'
    <3>1. p # q /\ At(p, "inserted", "course")
      BY <2>1, <2>8 DEF At
    <3>2. Listed(CourseCode(p)) = {} /\ ~CodePending(p)
      BY <3>1 DEF CodesOne
    <3>3. CourseCode(p) # CourseCode(q)
      BY <2>2, <3>1, <3>2 DEF CodePending
    <3>4. ~CodePending(p)'
      BY <2>1, <2>7, <3>2 DEF CodePending, At
    <3> QED
      BY <2>3, <2>4, <2>7, <3>2, <3>3, <3>4 DEF Listed
  <2>9. \A p \in Requests : reply'[p] # None /\ reply'[p].code = "COURSE_CODE_TAKEN" =>
           (Listed(CourseCode(p)) # {})'
    BY <2>1, <2>4, <2>7 DEF CodesOne, Listed
  <2> QED
    BY <2>5, <2>6, <2>8, <2>9 DEF CodesOne
<1> QED
  BY <1>2, <1>3, <1>4, <1>5, <1>6, StepKinds

(* However registrations, PUTs and creates race, an e-mail names one       *)
(* account, a code one course and a pair one policy, and nobody is refused *)
(* for a value that no committed row has (users.email, role_quota_unique,  *)
(* ix_courses_code).                                                       *)
THEOREM UniqueRowsHold == Spec => []UniqueRowsDecide
<1>1. Init => UniqueInv
  <2> SUFFICES ASSUME Init PROVE UniqueInv
    OBVIOUS
  <2>1. Typed
    BY InitTyped
  <2>2. EmailsOne /\ PairsOne /\ CodesOne
    BY SeedTyped, SentinelsApart DEF Init, ServerInit, EmailsOne, PairsOne, CodesOne, At, Ids
  <2> QED
    BY <2>1, <2>2 DEF UniqueInv
<1>2. UniqueInv /\ [Next]_vars => UniqueInv'
  BY NextTyped, EmailsKept, PairsKept, CodesKept DEF UniqueInv
<1>3. UniqueInv => UniqueRowsDecide
  BY DEF UniqueInv, EmailsOne, PairsOne, CodesOne, UniqueRowsDecide
<1> QED
  BY <1>1, <1>2, <1>3, PTL DEF Spec

-----------------------------------------------------------------------------
(* Holds, bookings and the page.                                           *)

(* What the server keeps of a request is its caller's, and a key's slot    *)
(* holds what the key bought.                                              *)
Owned ==
    /\ \A q \in Requests : holds[q] # None =>
          /\ call[q].op = "reserve" /\ pc[q] = "done" /\ holds[q].user = Caller(q)
          /\ call[q].key # None => spent[<<call[q].key, Caller(q)>>] = q
    /\ \A slot \in Keys \X Ids : spent[slot] # None =>
          holds[spent[slot]] # None /\ holds[spent[slot]].user = slot[2]
    /\ \A q \in Requests : calendar[q] # None =>
          call[q].op = "book" /\ pc[q] = "done" /\ calendar[q].user = Caller(q)

(* What the server answers is its caller's.                                *)
Told(q) ==
    /\ reply[q] # None /\ call[q].op = "reserve" /\ reply[q].code = "CREATED" =>
          holds[reply[q].body] # None /\ holds[reply[q].body].user = Caller(q)
    /\ reply[q] # None /\ call[q].op = "book" /\ reply[q].code = "CREATED" =>
          reply[q].body = q

(* A key is pressed by one account only, and until another is drawn it is  *)
(* the account that is signed in.                                          *)
Keyed(q) == pc[q] # "idle" /\ call[q].op = "reserve" /\ call[q].key # None

KeyOK(b) ==
    \A q \in Requests : Keyed(q) /\ call[q].key[1] = b =>
        /\ call[q].key[2] <= idem_key[b]
        /\ call[q].key[2] = idem_key[b] => user[b] # None /\ token[b].sub = Caller(q)

KeyInv ==
    /\ \A q \in Requests : pc[q] # "idle" /\ call[q].op = "reserve" => call[q].key = call[q].wish
    /\ \A p, q \in Requests : Keyed(p) /\ Keyed(q) /\ call[p].key = call[q].key =>
          Caller(p) = Caller(q)
    /\ \A b \in Browsers : KeyOK(b)

(* What a browser has seen belongs to whoever is signed in there, also     *)
(* when the booking has been cancelled since.                              *)
Known(b) ==
    /\ \A r \in my_gpu_reservations[b] :
          user[b] # None /\ holds[r] # None /\ holds[r].user = user[b].id
    /\ \A i \in my_room_reservations[b] :
          user[b] # None /\ call[i].op = "book" /\ pc[i] = "done" /\ Caller(i) = user[b].id

LedgerInv == Owned /\ \A q \in Requests : Told(q)
PageInv == Typed /\ LedgerInv /\ KeyInv /\ \A b \in Browsers : Known(b)

(* What every step of the server keeps.                                    *)
ServerKeeps ==
    /\ UNCHANGED page /\ call' = call
    /\ \A p \in Requests : /\ pc'[p] = "idle" <=> pc[p] = "idle"
                           /\ pc[p] = "done" => pc'[p] = "done"
    /\ \A r \in Requests : holds[r] # None =>
          holds'[r] # None /\ holds'[r].user = holds[r].user

(* A step of the server that takes and gives nothing.                      *)
Spare ==
    /\ ServerKeeps /\ UNCHANGED ledgers
    /\ \A p \in Requests :
          reply'[p] = reply[p] \/ (reply'[p].code = "CREATED" => call[p].op = "register")

LEMMA AnswerKeeps ==
    ASSUME Typed, NEW q \in Requests, InFlight(q), NEW code, NEW body, Answer(q, code, body)
    PROVE  /\ call' = call /\ pc'[q] = "done"
           /\ \A p \in Requests : /\ pc'[p] = "idle" <=> pc[p] = "idle"
                                  /\ pc[p] = "done" => pc'[p] = "done"
           /\ reply'[q].code = code /\ reply'[q].body = body
           /\ \A p \in Requests : p # q => reply'[p] = reply[p] /\ pc'[p] = pc[p]
<1>0. [code |-> code, body |-> body].code = code /\ [code |-> code, body |-> body].body = body
  OBVIOUS
<1>1. PICK r : r = [code |-> code, body |-> body] /\ r.code = code /\ r.body = body
  BY <1>0
<1>2. reply' = [reply EXCEPT ![q] = r] /\ pc' = [pc EXCEPT ![q] = "done"] /\ call' = call
  BY <1>1 DEF Answer, Goto
<1> QED
  BY <1>1, <1>2 DEF Typed, TypeOK, InFlight

LEMMA AccountsSpare ==
    ASSUME Typed, NEW q \in Requests, UNCHANGED <<page, ledgers>>,
           ServeAccounts(q) \/ ServeRefuses(q)
    PROVE  Spare
<1>0. pc[q] # "idle" => call[q] \in Call
  BY DEF Typed, SessionOK
<1>1. ASSUME NEW code, NEW body, Answer(q, code, body), InFlight(q),
             code = "CREATED" => call[q].op = "register"
      PROVE  Spare
  BY <1>1, AnswerKeeps DEF Spare, ServerKeeps, ledgers
<1>2. ASSUME NEW step \in {"inserted", "handler", "insert", "update"}, Goto(q, step), InFlight(q),
             UNCHANGED <<call, reply>>
      PROVE  Spare
  BY <1>2 DEF Goto, InFlight, Typed, TypeOK, Spare, ServerKeeps, ledgers
<1>3. CASE InsertUser(q) \/ Authorize(q) \/ FindPolicy(q) \/ PutInsert(q) \/ InsertCourse(q)
  BY <1>2, <1>3 DEF InsertUser, Authorize, FindPolicy, PutInsert, InsertCourse, At, InFlight
<1>4. CASE \/ EmailTaken(q) \/ AuthorizeRefuses(q) \/ PutInsertRejected(q) \/ CourseCodeTaken(q)
           \/ ConnectionLost(q) \/ ServeRefuses(q)
  <2>1. InFlight(q) /\ \E code \in Errors : Answer(q, code, None)
    BY <1>4 DEF EmailTaken, AuthorizeRefuses, PutInsertRejected, CourseCodeTaken, ConnectionLost,
                ServeRefuses, Refuse, At, InFlight, Errors
  <2> QED
    BY <1>1, <2>1 DEF Errors
<1>5. CASE RegisterCommit(q) \/ Login(q)
  <2>1. InFlight(q) /\ \E body : \/ Answer(q, "CREATED", body) /\ call[q].op = "register"
                                 \/ Answer(q, "TOKEN", body) \/ Answer(q, "UNAUTHORIZED", body)
    BY <1>5 DEF RegisterCommit, Login, At, InFlight
  <2> QED
    BY <1>1, <2>1
<1>6. CASE PutUpdate(q) \/ PutCommit(q) \/ CourseCommit(q)
  <2>1. InFlight(q) /\ Answer(q, "OK", None)
    BY <1>6 DEF PutUpdate, PutCommit, CourseCommit, At, InFlight
  <2> QED
    BY <1>1, <2>1
<1> QED
  BY <1>3, <1>4, <1>5, <1>6 DEF ServeAccounts

LEMMA ServerKept ==
    ASSUME Typed, [Next]_vars
    PROVE  \/ ServerKeeps
           \/ \E b \in Browsers : Turns(b) \/ Press(b)
<1>1. ASSUME NEW q \in Requests, Serve(q) PROVE ServerKeeps
  <2>1. CASE (ServeAccounts(q) \/ ServeRefuses(q)) /\ UNCHANGED <<page, ledgers>>
    BY <2>1, AccountsSpare DEF Spare
  <2>2. ASSUME InFlight(q), UNCHANGED page, \E code, body : Answer(q, code, body),
               \A r \in Requests : holds[r] # None =>
                  holds'[r] # None /\ holds'[r].user = holds[r].user
        PROVE  ServerKeeps
    BY <2>2, AnswerKeeps DEF ServerKeeps
  <2>3. CASE ServeReserve(q) /\ UNCHANGED page
    <3>1. InFlight(q) /\ \E code, body : Answer(q, code, body)
      BY <2>3, ReserveDoes DEF InFlight
    <3>2. holds' = holds \/ (holds[q] = None /\ \E h \in Hold : holds' = [holds EXCEPT ![q] = h])
      BY <2>3, ReserveDoes
    <3>3. \A r \in Requests : holds[r] # None => holds'[r] = holds[r]
      BY <3>2 DEF Typed, TypeOK
    <3> QED
      BY <2>2, <2>3, <3>1, <3>3
  <2>4. CASE ServeRelease(q) /\ UNCHANGED page
    <3>1. PICK i \in Requests :
              /\ pc[q] = "arrived" /\ Answer(q, "OK", i)
              /\ \/ holds' = holds
                 \/ \E h \in Hold :
                       holds' = [holds EXCEPT ![i] = h] /\ h.user = holds[i].user
      BY <2>4, ReleaseDoes
    <3>2. \A r \in Requests : holds[r] # None =>
             holds'[r] # None /\ holds'[r].user = holds[r].user
      BY <3>1, SentinelsApart DEF Typed, TypeOK, Hold
    <3> QED
      BY <2>2, <2>4, <3>1, <3>2 DEF InFlight
  <2>5. CASE (ServeBook(q) \/ ServeCancel(q)) /\ UNCHANGED page
    <3>1. pc[q] = "arrived" /\ UNCHANGED holds /\ \E code, body : Answer(q, code, body)
      BY <2>5, BookDoes, CancelDoes
    <3> QED
      BY <2>2, <2>5, <3>1 DEF InFlight
  <2> QED
    BY <1>1, <2>1, <2>3, <2>4, <2>5 DEF Serve, ServeRefuses
<1>2. ASSUME NEW i \in Ids, Demote(i), UNCHANGED <<page, ledgers>> PROVE ServerKeeps
  BY <1>2 DEF Demote, request, ServerKeeps, ledgers
<1>3. CASE UNCHANGED vars
  BY <1>3 DEF vars, ServerKeeps, page, state
<1> QED
  BY <1>1, <1>2, <1>3 DEF Next, Turns

LEMMA SpareLedger ==
    ASSUME Typed, LedgerInv, Spare
    PROVE  LedgerInv'
<1>1. /\ UNCHANGED <<holds, spent, calendar, call>>
      /\ \A p \in Requests : pc[p] = "done" => pc'[p] = "done"
      /\ \A p \in Requests : Caller(p)' = Caller(p)
      /\ \A p \in Requests :
            reply'[p] = reply[p] \/ (reply'[p].code = "CREATED" => call[p].op = "register")
  BY DEF Spare, ServerKeeps, ledgers, Caller
<1>2. Owned'
  BY <1>1 DEF LedgerInv, Owned
<1>3. ASSUME NEW p \in Requests PROVE Told(p)'
  BY <1>1 DEF LedgerInv, Told
<1> QED
  BY <1>2, <1>3 DEF LedgerInv

LEMMA PressLedger ==
    ASSUME Typed, LedgerInv, NEW b \in Browsers, Press(b)
    PROVE  LedgerInv'
<1>1. PICK q \in Requests, c \in Call : Sends(b, q, c)
  BY PressSends
<1>2. /\ pc[q] = "idle" /\ reply[q] = None /\ UNCHANGED <<reply, holds, spent, calendar>>
      /\ pc' = [pc EXCEPT ![q] = "arrived"] /\ call' = [call EXCEPT ![q] = c]
  BY <1>1 DEF Sends, Typed, SessionOK, ledgers
<1>3. \A p \in Requests : p # q =>
         call'[p] = call[p] /\ pc'[p] = pc[p] /\ Caller(p)' = Caller(p)
  BY <1>2 DEF Caller, Typed, TypeOK
<1>4. holds[q] = None /\ calendar[q] = None
  BY <1>2 DEF LedgerInv, Owned
<1>5. Owned'
  BY <1>2, <1>3, <1>4 DEF LedgerInv, Owned
<1>6. ASSUME NEW p \in Requests PROVE Told(p)'
  BY <1>2, <1>3 DEF LedgerInv, Told
<1> QED
  BY <1>5, <1>6 DEF LedgerInv

LEMMA ReserveLedger ==
    ASSUME Typed, LedgerInv, NEW q \in Requests, ServeReserve(q), UNCHANGED page
    PROVE  LedgerInv'
<1> DEFINE slot == <<call[q].key, Caller(q)>>
<1>0. /\ holds \in [Requests -> Hold \cup {None}] /\ spent \in [Keys \X Ids -> Requests \cup {None}]
  BY DEF Typed, TypeOK, Hold
<1>1. pc[q] = "arrived" /\ InFlight(q) /\ call[q].op = "reserve" /\ calendar' = calendar
      /\ Caller(q) \in Ids /\ call[q].key \in Keys \cup {None}
  BY ReserveDoes DEF InFlight
<1>2. PICK body : Answer(q, "CREATED", body)
                  /\ \/ /\ call[q].key # None /\ spent[slot] # None /\ body = spent[slot]
                        /\ UNCHANGED <<holds, spent>>
                     \/ /\ body = q /\ holds[q] = None
                        /\ \E h \in Hold : holds' = [holds EXCEPT ![q] = h] /\ h.user = Caller(q)
                        /\ \/ call[q].key = None /\ spent' = spent
                           \/ /\ call[q].key # None /\ spent[slot] = None
                              /\ spent' = [spent EXCEPT ![slot] = q]
  BY ReserveDoes
<1>3. /\ call' = call /\ pc'[q] = "done" /\ reply'[q].code = "CREATED" /\ reply'[q].body = body
      /\ \A p \in Requests : p # q => reply'[p] = reply[p] /\ pc'[p] = pc[p]
      /\ \A p \in Requests : Caller(p)' = Caller(p)
  BY <1>1, <1>2, AnswerKeeps DEF Caller
<1>4. call[q].key # None => slot \in Keys \X Ids
  BY <1>1
<1> HIDE DEF slot
<1>5. CASE UNCHANGED <<holds, spent>> /\ body = spent[slot] /\ spent[slot] # None /\ call[q].key # None
  <2>1. holds[body] # None /\ holds[body].user = Caller(q)
    BY <1>4, <1>5 DEF LedgerInv, Owned, slot
  <2>2. Owned'
    BY <1>1, <1>3, <1>5 DEF LedgerInv, Owned
  <2>3. ASSUME NEW p \in Requests PROVE Told(p)'
    BY <1>1, <1>3, <1>5, <2>1 DEF LedgerInv, Told
  <2> QED
    BY <2>2, <2>3 DEF LedgerInv
<1>6. ASSUME body = q, holds[q] = None, NEW h \in Hold, holds' = [holds EXCEPT ![q] = h],
             h.user = Caller(q),
             \/ call[q].key = None /\ spent' = spent
             \/ /\ call[q].key # None /\ spent[slot] = None
                /\ spent' = [spent EXCEPT ![slot] = q]
      PROVE  LedgerInv'
  <2>1. h # None /\ holds'[q] = h /\ \A p \in Requests : p # q => holds'[p] = holds[p]
    BY <1>0, <1>6, SentinelsApart DEF Hold
  <2>2. ASSUME NEW s \in Keys \X Ids, spent'[s] # None
        PROVE  holds'[spent'[s]] # None /\ holds'[spent'[s]].user = s[2]
    <3>1. CASE spent'[s] = spent[s]
      BY <1>0, <1>6, <2>1, <2>2, <3>1 DEF LedgerInv, Owned
    <3>2. CASE spent'[s] # spent[s]
      <4>1. s = slot /\ spent'[s] = q
        BY <1>0, <1>4, <1>6, <3>2
      <4> QED
        BY <1>6, <2>1, <4>1 DEF slot
    <3> QED
      BY <3>1, <3>2
  <2>3. ASSUME NEW p \in Requests, holds'[p] # None
        PROVE  /\ call'[p].op = "reserve" /\ pc'[p] = "done" /\ holds'[p].user = Caller(p)'
               /\ call'[p].key # None => spent'[<<call[p].key, Caller(p)>>] = p
    <3>1. CASE p = q
      <4>1. call[q].key # None => spent'[slot] = q
        BY <1>0, <1>4, <1>6
      <4> QED
        BY <1>1, <1>3, <1>6, <2>1, <3>1, <4>1 DEF slot
    <3>2. CASE p # q
      <4>1. /\ call[p].op = "reserve" /\ pc[p] = "done" /\ holds[p].user = Caller(p)
            /\ call[p].key # None => spent[<<call[p].key, Caller(p)>>] = p
        BY <2>1, <2>3, <3>2 DEF LedgerInv, Owned
      <4>2. spent[slot] = None => p # None
        BY SentinelsApart DEF Ids
      <4>3. call[p].key # None => spent'[<<call[p].key, Caller(p)>>] = p
        <5>1. SUFFICES ASSUME call[p].key # None
                       PROVE  spent'[<<call[p].key, Caller(p)>>] = p
          OBVIOUS
        <5>2. call[p] \in Call
          BY <4>1 DEF Typed, SessionOK
        <5>3. call[p].key \in Keys /\ Caller(p) \in Ids
          BY <4>1, <5>1, <5>2, CallFields DEF WithToken, Caller
        <5>4. PICK s \in Keys \X Ids : s = <<call[p].key, Caller(p)>>
          BY <5>3
        <5>5. spent[s] = p
          BY <4>1, <5>1, <5>4
        <5>6. spent'[s] = p
          BY <1>0, <1>4, <1>6, <4>2, <5>5
        <5> QED
          BY <5>4, <5>6
      <4> QED
        BY <1>3, <2>1, <3>2, <4>1, <4>3
    <3> QED
      BY <3>1, <3>2
  <2>4. \A p \in Requests : calendar'[p] # None =>
          call'[p].op = "book" /\ pc'[p] = "done" /\ calendar'[p].user = Caller(p)'
    BY <1>1, <1>3 DEF LedgerInv, Owned
  <2>5. Owned'
    BY <1>3, <2>2, <2>3, <2>4 DEF Owned
  <2>6. ASSUME NEW p \in Requests PROVE Told(p)'
    <3>1. CASE p = q
      BY <1>1, <1>3, <1>6, <2>1, <3>1 DEF Told
    <3>2. CASE p # q
      <4>1. reply'[p] = reply[p] /\ call'[p] = call[p] /\ Caller(p)' = Caller(p)
        BY <1>3, <3>2
      <4>2. Told(p)
        BY DEF LedgerInv
      <4>3. ASSUME reply[p] # None, call[p].op = "reserve", reply[p].code = "CREATED"
            PROVE  holds'[reply[p].body] # None /\ holds'[reply[p].body].user = Caller(p)
        <5>1. reply[p].body \in Requests
          BY <4>3 DEF Typed, SessionOK
        <5> QED
          BY <1>6, <2>1, <4>2, <4>3, <5>1 DEF Told
      <4> QED
        BY <4>1, <4>2, <4>3 DEF Told
    <3> QED
      BY <3>1, <3>2
  <2> QED
    BY <2>5, <2>6 DEF LedgerInv
<1> QED
  BY <1>2, <1>5, <1>6

LEMMA ReleaseLedger ==
    ASSUME Typed, LedgerInv, NEW q \in Requests, ServeRelease(q), UNCHANGED page
    PROVE  LedgerInv'
<1>0. /\ holds \in [Requests -> Hold \cup {None}] /\ spent \in [Keys \X Ids -> Requests \cup {None}]
  BY DEF Typed, TypeOK, Hold
<1>1. PICK i \in Requests :
              /\ pc[q] = "arrived" /\ call[q].op = "release" /\ i = call[q].id
              /\ Answer(q, "OK", i)
              /\ holds[i] # None
              /\ \/ holds' = holds
                 \/ \E h \in Hold : holds' = [holds EXCEPT ![i] = h] /\ h.user = holds[i].user
              /\ UNCHANGED <<users, policies, courses, spent, calendar>>
  BY ReleaseDoes
<1>2. \A r \in Requests : /\ holds[r] = None <=> holds'[r] = None
                          /\ holds[r] # None => holds'[r].user = holds[r].user
  BY <1>0, <1>1, SentinelsApart DEF Hold
<1>3. /\ call' = call /\ pc'[q] = "done" /\ reply'[q].code = "OK"
      /\ \A p \in Requests : p # q => reply'[p] = reply[p] /\ pc'[p] = pc[p]
      /\ \A p \in Requests : Caller(p)' = Caller(p)
      /\ pc[q] # "done"
  BY <1>1, AnswerKeeps DEF InFlight, Caller
<1>4. Owned'
  <2>1. \A p \in Requests : holds'[p] # None =>
          /\ call'[p].op = "reserve" /\ pc'[p] = "done" /\ holds'[p].user = Caller(p)'
          /\ call'[p].key # None => spent'[<<call[p].key, Caller(p)>>] = p
    BY <1>1, <1>2, <1>3 DEF LedgerInv, Owned
  <2>2. \A s \in Keys \X Ids : spent'[s] # None =>
          holds'[spent'[s]] # None /\ holds'[spent'[s]].user = s[2]
    BY <1>0, <1>1, <1>2 DEF LedgerInv, Owned
  <2>3. \A p \in Requests : calendar'[p] # None =>
          call'[p].op = "book" /\ pc'[p] = "done" /\ calendar'[p].user = Caller(p)'
    BY <1>1, <1>3 DEF LedgerInv, Owned
  <2> QED
    BY <1>3, <2>1, <2>2, <2>3 DEF Owned
<1>5. ASSUME NEW p \in Requests PROVE Told(p)'
  <2>1. CASE p = q
    BY <1>3, <2>1 DEF Told
  <2>2. CASE p # q
    <3>1. reply[p] # None /\ call[p].op = "reserve" /\ reply[p].code = "CREATED" =>
             reply[p].body \in Requests
      BY DEF Typed, SessionOK
    <3>2. Told(p)
      BY DEF LedgerInv
    <3> QED
      BY <1>2, <1>3, <2>2, <3>1, <3>2 DEF Told
  <2> QED
    BY <2>1, <2>2
<1> QED
  BY <1>4, <1>5 DEF LedgerInv

LEMMA DiaryLedger ==
    ASSUME Typed, LedgerInv, NEW q \in Requests, ServeBook(q) \/ ServeCancel(q), UNCHANGED page
    PROVE  LedgerInv'
<1>0. /\ calendar \in [Requests -> Diary!Booking \cup {None}]
  BY DEF Typed, TypeOK
<1>1. /\ pc[q] = "arrived" /\ UNCHANGED <<holds, spent>>
      /\ \/ /\ call[q].op = "book" /\ Answer(q, "CREATED", q)
            /\ \E d : calendar' = [calendar EXCEPT ![q] = d] /\ d.user = Caller(q)
         \/ /\ call[q].op = "cancel" /\ Answer(q, "OK", call[q].id)
            /\ calendar' = [calendar EXCEPT ![call[q].id] = None]
  BY BookDoes, CancelDoes
<1>2. /\ call' = call /\ pc'[q] = "done" /\ pc[q] # "done"
      /\ \/ call[q].op = "book" /\ reply'[q].body = q
         \/ call[q].op = "cancel"
      /\ \A p \in Requests : p # q => reply'[p] = reply[p] /\ pc'[p] = pc[p]
      /\ \A p \in Requests : Caller(p)' = Caller(p)
  BY <1>1, AnswerKeeps DEF InFlight, Caller
<1>3. ASSUME NEW p \in Requests, calendar'[p] # None
      PROVE  call'[p].op = "book" /\ pc'[p] = "done" /\ calendar'[p].user = Caller(p)'
  <2>1. CASE p = q /\ call[q].op = "book"
    BY <1>0, <1>1, <1>2, <1>3, <2>1
  <2>2. CASE ~(p = q /\ call[q].op = "book")
    <3>1. calendar'[p] = calendar[p]
      BY <1>0, <1>1, <1>3, <2>2
    <3> QED
      BY <1>2, <1>3, <3>1 DEF LedgerInv, Owned
  <2> QED
    BY <2>1, <2>2
<1>4. Owned'
  BY <1>1, <1>2, <1>3 DEF LedgerInv, Owned
<1>5. ASSUME NEW p \in Requests PROVE Told(p)'
  BY <1>1, <1>2 DEF LedgerInv, Told
<1> QED
  BY <1>4, <1>5 DEF LedgerInv

LEMMA LedgerKept ==
    ASSUME Typed, LedgerInv, [Next]_vars
    PROVE  LedgerInv'
<1>1. ASSUME NEW b \in Browsers, Turns(b) PROVE LedgerInv'
  <2>1. UNCHANGED <<holds, spent, calendar, pc, call, reply>>
    BY <1>1, TurnFrame DEF request, ledgers
  <2> QED
    BY <2>1 DEF LedgerInv, Owned, Told, Caller
<1>2. ASSUME NEW q \in Requests, Serve(q) PROVE LedgerInv'
  <2>1. CASE (ServeAccounts(q) \/ ServeRefuses(q)) /\ UNCHANGED <<page, ledgers>>
    BY <2>1, AccountsSpare, SpareLedger
  <2> QED
    BY <1>2, <2>1, ReserveLedger, ReleaseLedger, DiaryLedger DEF Serve, ServeRefuses
<1>3. ASSUME NEW i \in Ids, Demote(i), UNCHANGED <<page, ledgers>> PROVE LedgerInv'
  <2>1. Spare
    BY <1>3 DEF Demote, request, ServerKeeps, ledgers, Spare
  <2> QED
    BY <2>1, SpareLedger
<1>4. CASE UNCHANGED vars
  <2>1. Spare
    BY <1>4 DEF vars, ServerKeeps, page, state, ledgers, Spare
  <2> QED
    BY <2>1, SpareLedger
<1> QED
  BY <1>1, <1>2, <1>3, <1>4, PressLedger DEF Next, Turns

(* A key outlives nobody: it changes hands only when another is drawn.     *)
LEMMA TurnKey ==
    ASSUME Typed, NEW b \in Browsers, Turns(b)
    PROVE  \/ /\ idem_key'[b] = idem_key[b] /\ user[b] # None
              /\ user'[b] # None /\ token'[b].sub = token[b].sub
           \/ idem_key'[b] = idem_key[b] /\ user[b] = None
           \/ idem_key'[b] = idem_key[b] + 1
<1>0. TypeOK /\ (user[b] # None => token[b] \in Claims)
  BY DEF Typed, TypeOK, BrowserOK
<1>1. CASE Click(b) \/ Abandon(b) \/ GiveUp(b) \/ ShowOnly(b)
  BY <1>1 DEF Click, Abandon, GiveUp, ShowOnly, state
<1>2. CASE ShowLogin(b)
  <2>1. PICK q \in Requests : q = awaiting[b] /\ call[q].op = "login"
    BY <1>0, <1>2 DEF ShowLogin, Handle, Answered, TypeOK
  <2>2. awaiting[b] # None /\ BrowserOK(b)
    BY <1>2 DEF ShowLogin, Handle, Answered, Typed
  <2>3. user[b] = None
    BY <2>1, <2>2 DEF BrowserOK, WithToken
  <2> QED
    BY <1>2, <2>3 DEF ShowLogin
<1>3. CASE ShowReserved(b) \/ ShowReleased(b) \/ ShowBooked(b) \/ ShowCancelled(b)
  BY <1>3 DEF ShowReserved, ShowReleased, ShowBooked, ShowCancelled
<1>4. CASE Load(b)
  BY <1>4 DEF Load, LoadUser, LoadFails
<1>5. CASE SignOut(b) \/ NewKey(b)
  BY <1>0, <1>5, BrowsersTyped DEF SignOut, NewKey, FreshKey, TypeOK
<1>6. CASE Expire(b)
  <2>1. token[b] # None /\ token[b] \in Claims /\ UNCHANGED <<user, idem_key>>
    BY <1>0, <1>6 DEF Expire, TypeOK
  <2>2. PICK u \in Claims : u = [token[b] EXCEPT !.live = FALSE] /\ u.sub = token[b].sub
    BY <2>1, ExpiredToken
  <2>3. token' = [token EXCEPT ![b] = u]
    BY <1>6, <2>2 DEF Expire
  <2>4. token'[b].sub = token[b].sub
    BY <1>0, <2>2, <2>3 DEF TypeOK
  <2> QED
    BY <2>1, <2>4
<1> QED
  BY <1>1, <1>2, <1>3, <1>4, <1>5, <1>6 DEF Turns, Return

LEMMA KeyedFields ==
    ASSUME Typed, NEW q \in Requests, Keyed(q)
    PROVE  /\ call[q].key \in Keys /\ call[q].key[1] \in Browsers /\ call[q].key[2] \in 0 .. MaxKeys
           /\ call[q].key = <<call[q].key[1], call[q].key[2]>>
<1>1. call[q] \in Call
  BY DEF Keyed, Typed, SessionOK
<1>2. call[q].key \in Keys
  BY <1>1, CallFields DEF Keyed
<1> QED
  BY <1>2 DEF Keys

LEMMA KeyKept ==
    ASSUME Typed, KeyInv, [Next]_vars
    PROVE  KeyInv'
<1>0. TypeOK /\ MaxKeys \in Nat
  BY BrowsersTyped DEF Typed
<1>1. ASSUME NEW b \in Browsers, Press(b) PROVE KeyInv'
  <2>1. PICK q \in Requests, c \in Call : Sends(b, q, c)
    BY <1>1, PressSends
  <2>2. /\ pc[q] = "idle" /\ UNCHANGED <<token, user, idem_key, wish>>
        /\ pc' = [pc EXCEPT ![q] = "arrived"] /\ call' = [call EXCEPT ![q] = c]
    BY <2>1 DEF Sends, state
  <2>3. /\ call'[q] = c
        /\ \A p \in Requests : p # q => /\ call'[p] = call[p] /\ pc'[p] = pc[p]
                                        /\ Caller(p)' = Caller(p) /\ Keyed(p)' = Keyed(p)
    BY <1>0, <2>2 DEF TypeOK, Caller, Keyed
  <2>4. c.op = "reserve" =>
           /\ c.key = c.wish
           /\ c.key # None => c.key = <<b, idem_key[b]>> /\ c.token = token[b] /\ user[b] # None
    BY <2>1 DEF Sends, WithToken, Typed, BrowserOK
  <2>5. ASSUME NEW p \in Requests, pc'[p] # "idle", call'[p].op = "reserve"
        PROVE  call'[p].key = call'[p].wish
    BY <2>3, <2>4, <2>5 DEF KeyInv
  <2>6. Keyed(q)' => /\ call'[q].key = <<b, idem_key[b]>> /\ user[b] # None
                     /\ Caller(q)' = token[b].sub
    BY <2>3, <2>4 DEF Keyed, Caller
  <2>7. ASSUME NEW p \in Requests, p # q, Keyed(p)', Keyed(q)', call'[p].key = call'[q].key
        PROVE  Caller(p)' = Caller(q)'
    <3>1. Keyed(p) /\ call[p].key = <<b, idem_key[b]>>
      BY <2>3, <2>6, <2>7
    <3>2. call[p].key[1] = b /\ call[p].key[2] = idem_key[b]
      BY <3>1
    <3> QED
      BY <2>3, <2>6, <2>7, <3>1, <3>2 DEF KeyInv, KeyOK
  <2>8. ASSUME NEW p \in Requests, NEW r \in Requests, Keyed(p)', Keyed(r)',
               call'[p].key = call'[r].key
        PROVE  Caller(p)' = Caller(r)'
    <3>1. CASE p # q /\ r # q
      BY <2>3, <2>8, <3>1 DEF KeyInv
    <3>2. CASE p = q \/ r = q
      BY <2>7, <2>8, <3>2
    <3> QED
      BY <3>1, <3>2
  <2>9. ASSUME NEW d \in Browsers, NEW p \in Requests, Keyed(p)', call'[p].key[1] = d
        PROVE  /\ call'[p].key[2] <= idem_key[d]
               /\ call'[p].key[2] = idem_key[d] => user[d] # None /\ token[d].sub = Caller(p)'
    <3>1. CASE p = q
      <4>1. call'[q].key[1] = b /\ call'[q].key[2] = idem_key[b]
        BY <2>6, <2>9, <3>1
      <4>2. idem_key[b] <= idem_key[b]
        BY <1>0 DEF TypeOK
      <4> QED
        BY <2>6, <2>9, <3>1, <4>1, <4>2
    <3>2. CASE p # q
      BY <2>3, <2>9, <3>2 DEF KeyInv, KeyOK
    <3> QED
      BY <3>1, <3>2
  <2>10. \A d \in Browsers : KeyOK(d)'
    BY <2>2, <2>9 DEF KeyOK
  <2> QED
    BY <2>5, <2>8, <2>10 DEF KeyInv
<1>2. ASSUME call' = call, \A p \in Requests : pc'[p] = "idle" <=> pc[p] = "idle",
             \A d \in Browsers : KeyOK(d)'
      PROVE  KeyInv'
  BY <1>2 DEF KeyInv, Keyed, Caller
<1>3. ASSUME NEW b \in Browsers, Turns(b) PROVE KeyInv'
  <2>1. call' = call /\ pc' = pc
    BY <1>3, TurnFrame DEF request
  <2>2. ASSUME NEW d \in Browsers, NEW p \in Requests, Keyed(p), call[p].key[1] = d
        PROVE  /\ call[p].key[2] <= idem_key'[d]
               /\ call[p].key[2] = idem_key'[d] => user'[d] # None /\ token'[d].sub = Caller(p)
    <3>1. /\ call[p].key[2] <= idem_key[d]
          /\ call[p].key[2] = idem_key[d] => user[d] # None /\ token[d].sub = Caller(p)
      BY <2>2 DEF KeyInv, KeyOK
    <3>2. CASE d # b
      BY <1>3, <3>1, <3>2, TurnFrame
    <3>3. CASE d = b
      <4>1. call[p].key[2] \in 0 .. MaxKeys /\ idem_key[b] \in 0 .. MaxKeys
        BY <1>0, <2>2, KeyedFields DEF TypeOK
      <4> QED
        BY <1>0, <1>3, <3>1, <3>3, <4>1, TurnKey
    <3> QED
      BY <3>2, <3>3
  <2>3. \A d \in Browsers : KeyOK(d)'
    BY <2>1, <2>2 DEF KeyOK, Keyed, Caller
  <2> QED
    BY <1>2, <2>1, <2>3
<1>4. CASE ServerKeeps
  <2>1. \A d \in Browsers : KeyOK(d)'
    BY <1>4 DEF ServerKeeps, KeyInv, KeyOK, Keyed, Caller, page, state
  <2> QED
    BY <1>2, <1>4, <2>1 DEF ServerKeeps
<1> QED
  BY <1>1, <1>3, <1>4, ServerKept

LEMMA KnownKept ==
    ASSUME Typed, LedgerInv, \A b \in Browsers : Known(b), [Next]_vars
    PROVE  \A b \in Browsers : Known(b)'
<1>0. TypeOK
  BY DEF Typed
<1>1. ASSUME NEW b \in Browsers, Press(b), NEW d \in Browsers PROVE Known(d)'
  <2>1. PICK q \in Requests, c \in Call : Sends(b, q, c)
    BY <1>1, PressSends
  <2>2. /\ pc[q] = "idle"
        /\ UNCHANGED <<user, my_gpu_reservations, my_room_reservations, holds>>
        /\ \A p \in Requests : p # q => call'[p] = call[p] /\ pc'[p] = pc[p]
    BY <1>0, <2>1 DEF Sends, state, ledgers, TypeOK
  <2>3. \A i \in my_room_reservations[d] : i \in Requests /\ i # q
    BY <1>0, <2>2 DEF TypeOK, Known
  <2> QED
    BY <2>2, <2>3 DEF Known, Caller
<1>2. ASSUME NEW b \in Browsers, Turns(b), NEW d \in Browsers PROVE Known(d)'
  <2>1. UNCHANGED <<holds, call, pc, reply>>
    BY <1>2, TurnFrame DEF request, ledgers
  <2>2. Known(d)
    OBVIOUS
  <2>3. CASE d # b
    BY <1>2, <2>1, <2>2, <2>3, TurnFrame DEF Known, Caller
  <2>4. ASSUME user'[b] = user[b], my_gpu_reservations'[b] \subseteq my_gpu_reservations[b],
               my_room_reservations'[b] \subseteq my_room_reservations[b]
        PROVE  Known(b)'
    BY <2>1, <2>4 DEF Known, Caller
  <2>5. ASSUME NEW op, Handle(b, op, {"CREATED"}), op \in {"reserve", "book"}
        PROVE  \E q \in Requests :
                  /\ q = awaiting[b] /\ call[q].op = op /\ pc[q] = "done"
                  /\ reply[q] # None /\ reply[q].code = "CREATED"
                  /\ user[b] # None /\ user[b].id = Caller(q)
    <3>1. PICK q \in Requests : q = awaiting[b] /\ call[q].op = op /\ pc[q] = "done"
                                /\ reply[q].code = "CREATED" /\ awaiting[b] # None
      BY <1>0, <2>5 DEF Handle, Answered, TypeOK
    <3>2. reply[q] # None
      BY <3>1 DEF Typed, SessionOK
    <3>3. BrowserOK(b)
      BY DEF Typed
    <3>4. user[b] # None /\ Caller(q) = token[b].sub
      BY <2>5, <3>1, <3>3 DEF BrowserOK, WithToken, Caller
    <3> QED
      BY <3>1, <3>2, <3>3, <3>4 DEF BrowserOK
  <2>6. ASSUME Click(b) \/ Abandon(b) \/ GiveUp(b) \/ ShowOnly(b) PROVE Known(b)'
    BY <2>4, <2>6 DEF Click, Abandon, GiveUp, ShowOnly, state
  <2>7. ASSUME ShowLogin(b) \/ NewKey(b) \/ Expire(b) PROVE Known(b)'
    BY <2>4, <2>7 DEF ShowLogin, NewKey, Expire
  <2>8. ASSUME ShowReleased(b) \/ ShowCancelled(b) PROVE Known(b)'
    BY <1>0, <2>4, <2>8 DEF ShowReleased, ShowCancelled, TypeOK
  <2>9. ASSUME ShowReserved(b) PROVE Known(b)'
    <3>1. PICK q \in Requests : /\ q = awaiting[b] /\ call[q].op = "reserve"
                                /\ reply[q] # None /\ reply[q].code = "CREATED"
                                /\ user[b] # None /\ user[b].id = Caller(q)
      BY <2>5, <2>9 DEF ShowReserved
    <3>2. holds[Body(b)] # None /\ holds[Body(b)].user = user[b].id
      BY <3>1 DEF LedgerInv, Told, Body
    <3>3. /\ my_gpu_reservations'[b] = my_gpu_reservations[b] \cup {Body(b)}
          /\ UNCHANGED <<user, my_room_reservations>>
      BY <1>0, <2>9 DEF ShowReserved, TypeOK
    <3> QED
      BY <2>1, <3>1, <3>2, <3>3 DEF Known, Caller
  <2>10. ASSUME ShowBooked(b) PROVE Known(b)'
    <3>1. PICK q \in Requests : /\ q = awaiting[b] /\ call[q].op = "book" /\ pc[q] = "done"
                                /\ reply[q] # None /\ reply[q].code = "CREATED"
                                /\ user[b] # None /\ user[b].id = Caller(q)
      BY <2>5, <2>10 DEF ShowBooked
    <3>2. Body(b) = q
      BY <3>1 DEF LedgerInv, Told, Body
    <3>3. /\ my_room_reservations'[b] = my_room_reservations[b] \cup {q}
          /\ UNCHANGED <<user, my_gpu_reservations>>
      BY <1>0, <2>10, <3>2 DEF ShowBooked, TypeOK
    <3> QED
      BY <2>1, <3>1, <3>3 DEF Known, Caller
  <2>11. ASSUME my_gpu_reservations'[b] = {}, my_room_reservations'[b] = {} PROVE Known(b)'
    BY <2>11 DEF Known
  <2>12. ASSUME LoadUser(b) PROVE Known(b)'
    <3>1. my_gpu_reservations[b] = {} /\ my_room_reservations[b] = {}
      BY <2>12 DEF LoadUser, Known
    <3> QED
      BY <2>11, <2>12, <3>1 DEF LoadUser
  <2>13. ASSUME LoadFails(b) \/ SignOut(b) PROVE Known(b)'
    BY <1>0, <2>11, <2>13 DEF LoadFails, SignOut, logout, TypeOK
  <2> QED
    BY <1>2, <2>3, <2>6, <2>7, <2>8, <2>9, <2>10, <2>12, <2>13 DEF Turns, Return, Load
<1>3. ASSUME ServerKeeps, NEW d \in Browsers PROVE Known(d)'
  <2>1. /\ my_gpu_reservations[d] \subseteq Requests /\ my_room_reservations[d] \subseteq Requests
        /\ UNCHANGED <<user, my_gpu_reservations, my_room_reservations>>
    BY <1>0, <1>3 DEF TypeOK, ServerKeeps, page, state
  <2> QED
    BY <1>3, <2>1 DEF ServerKeeps, Known, Caller
<1> QED
  BY <1>1, <1>2, <1>3, ServerKept

LEMMA PageInvariant == Spec => []PageInv
<1>1. Init => PageInv
  <2> SUFFICES ASSUME Init PROVE PageInv
    OBVIOUS
  <2>1. Typed
    BY InitTyped
  <2>2. LedgerInv /\ KeyInv /\ \A b \in Browsers : Known(b)
    BY DEF Init, ServerInit, LedgerInv, Owned, Told, KeyInv, KeyOK, Keyed, Known
  <2> QED
    BY <2>1, <2>2 DEF PageInv
<1>2. PageInv /\ [Next]_vars => PageInv'
  BY NextTyped, LedgerKept, KeyKept, KnownKept DEF PageInv
<1> QED
  BY <1>1, <1>2, PTL DEF Spec

(* "Press Reserve twice with the same key to see exactly-once": until the  *)
(* user asks for a new key, presses with the box ticked book once,         *)
(* whatever is lost, given up or abandoned on the way (page_gpus).         *)
THEOREM ExactlyOnce == Spec => []PressedTwiceBooksOnce
<1>1. PageInv => PressedTwiceBooksOnce
  <2> SUFFICES ASSUME PageInv, NEW q \in Requests, NEW p \in Requests,
                      holds[q] # None, holds[p] # None,
                      call[q].wish # None, call[q].wish = call[p].wish
               PROVE  q = p
    BY DEF PressedTwiceBooksOnce
  <2>1. /\ call[q].op = "reserve" /\ pc[q] = "done"
        /\ call[p].op = "reserve" /\ pc[p] = "done"
        /\ call[q].key # None => spent[<<call[q].key, Caller(q)>>] = q
        /\ call[p].key # None => spent[<<call[p].key, Caller(p)>>] = p
    BY DEF PageInv, LedgerInv, Owned
  <2>2. call[q].key = call[q].wish /\ call[p].key = call[p].wish
    BY <2>1 DEF PageInv, KeyInv
  <2>3. Keyed(q) /\ Keyed(p) /\ call[q].key = call[p].key
    BY <2>1, <2>2 DEF Keyed
  <2>4. Caller(q) = Caller(p)
    BY <2>3 DEF PageInv, KeyInv
  <2> QED
    BY <2>1, <2>3, <2>4 DEF Keyed
<1> QED
  BY <1>1, PageInvariant, PTL

(* The ids a browser offers for release are reservations that the account  *)
(* signed in there has made, whoever used the browser before (logout).     *)
THEOREM OwnIdsOnly == Spec => []NoForeignIds
<1>1. PageInv => NoForeignIds
  <2> SUFFICES ASSUME PageInv, NEW b \in Browsers
               PROVE  /\ \A r \in my_gpu_reservations[b] :
                            user[b] # None /\ holds[r] # None /\ holds[r].user = user[b].id
                      /\ \A i \in my_room_reservations[b] :
                            user[b] # None /\ call[i].op = "book" /\ Caller(i) = user[b].id
    BY DEF NoForeignIds
  <2>1. Known(b) /\ my_room_reservations[b] \subseteq Requests
    BY DEF PageInv, Typed, TypeOK
  <2> QED
    BY <2>1 DEF Known, PageInv, LedgerInv, Owned
<1> QED
  BY <1>1, PageInvariant, PTL

-----------------------------------------------------------------------------
(* Demotion.  A token is only issued for a row, and no row is ever         *)
(* deleted, so that the gate reads the row of whoever the token names.     *)

HasRow(t) == users[t.sub] # None

TokensKnown ==
    /\ \A b \in Browsers : token[b] # None => HasRow(token[b])
    /\ \A q \in Requests :
          /\ pc[q] # "idle" /\ call[q].op \in WithToken => HasRow(call[q].token)
          /\ reply[q] # None /\ reply[q].code = "TOKEN" => HasRow(reply[q].body)

LEMMA RowsStay ==
    ASSUME Typed, [Next]_vars
    PROVE  \A i \in Ids : users[i] # None =>
              /\ users'[i] # None
              /\ users[i].role # "ADMIN" => users'[i].role # "ADMIN"
<1>0. TypeOK
  BY DEF Typed
<1>1. CASE Quiet
  BY <1>1 DEF Quiet, tables
<1>2. ASSUME NEW i \in Ids, Demote(i)
      PROVE  \A j \in Ids : users[j] # None =>
                /\ users'[j] # None
                /\ users[j].role # "ADMIN" => users'[j].role # "ADMIN"
  <2>1. users[i] \in UserRow
    BY <1>0, <1>2 DEF Demote, TypeOK
  <2>2. [users[i] EXCEPT !.role = "STUDENT"] = [email |-> users[i].email, role |-> "STUDENT"]
    BY <2>1 DEF UserRow
  <2>3. PICK row \in UserRow : row = [users[i] EXCEPT !.role = "STUDENT"] /\ row.role = "STUDENT"
    <3>1. [email |-> users[i].email, role |-> "STUDENT"] \in UserRow
      BY <2>1 DEF UserRow, Role
    <3> QED
      BY <2>2, <3>1
  <2>4. users' = [users EXCEPT ![i] = row]
    BY <1>2, <2>3 DEF Demote
  <2> QED
    BY <1>0, <2>3, <2>4, SentinelsApart DEF TypeOK
<1>3. ASSUME NEW q \in Requests, RegisterCommit(q)
      PROVE  \A j \in Ids : users[j] # None => users'[j] = users[j]
  <2>1. users[q] = None
    BY <1>3 DEF Typed, SessionOK, RegisterCommit, At
  <2>2. \E row : users' = [users EXCEPT ![q] = row]
    BY <1>3 DEF RegisterCommit
  <2> QED
    BY <1>0, <2>1, <2>2 DEF TypeOK
<1>4. ASSUME NEW q \in Requests, Writes(q), ~RegisterCommit(q) PROVE users' = users
  BY <1>4, WriteFrame DEF Writes, PutUpdate, PutCommit, CourseCommit, tables
<1>5. ASSUME NEW q \in Requests, Writes(q)
      PROVE  \A j \in Ids : users[j] # None => users'[j] = users[j]
  BY <1>3, <1>4, <1>5
<1>6. CASE \E q \in Requests : Writes(q)
  BY <1>5, <1>6
<1>7. CASE \E i \in Ids : Demote(i)
  BY <1>2, <1>7
<1> QED
  BY <1>1, <1>6, <1>7, StepKinds

(* Only Login issues a token.                                              *)
LEMMA TokensIssued ==
    ASSUME Typed, NEW q \in Requests, Serve(q), NEW p \in Requests,
           reply'[p] # reply[p], reply'[p].code = "TOKEN"
    PROVE  HasRow(reply'[p].body) /\ reply'[p].body.sub \in Ids
<1>1. ASSUME NEW code, NEW body, Answer(q, code, body)
      PROVE  code = "TOKEN" /\ reply'[p].body = body
  <2>1. [code |-> code, body |-> body].code = code /\ [code |-> code, body |-> body].body = body
    OBVIOUS
  <2>2. PICK r : r = [code |-> code, body |-> body] /\ r.code = code /\ r.body = body
    BY <2>1
  <2>3. reply' = [reply EXCEPT ![q] = r]
    BY <1>1, <2>2 DEF Answer
  <2> QED
    BY <2>2, <2>3 DEF Typed
<1>2. ~UNCHANGED reply
  OBVIOUS
<1>3. CASE ServeAccounts(q) /\ ~Login(q)
  <2>1. \E code \in Errors \cup {"OK", "CREATED"} : \E body : Answer(q, code, body)
    BY <1>2, <1>3 DEF ServeAccounts, InsertUser, EmailTaken, RegisterCommit, Authorize,
       AuthorizeRefuses, FindPolicy, PutUpdate, PutInsert, PutInsertRejected, PutCommit,
       InsertCourse, CourseCodeTaken, CourseCommit, ConnectionLost, Refuse, Errors
  <2> QED
    BY <1>1, <2>1 DEF Errors
<1>4. CASE ServeReserve(q) \/ ServeRelease(q) \/ ServeBook(q) \/ ServeCancel(q) \/ ServeRefuses(q)
  <2>1. \E code \in {"CREATED", "OK", "REFUSED"} : \E body : Answer(q, code, body)
    BY <1>4, ReserveDoes, ReleaseDoes, BookDoes, CancelDoes DEF ServeRefuses, Refuse
  <2> QED
    BY <1>1, <2>1
<1>5. CASE Login(q)
  <2>1. PICK i \in Registered(call[q].email) : Answer(q, "TOKEN", create_access_token(i))
    BY <1>1, <1>5 DEF Login
  <2>2. reply'[p].body = create_access_token(i)
    BY <1>1, <2>1
  <2>3. i \in Ids /\ users[i] # None
    BY DEF Registered
  <2>4. create_access_token(i).sub = i
    BY DEF create_access_token
  <2> QED
    BY <2>2, <2>3, <2>4 DEF HasRow
<1> QED
  BY <1>3, <1>4, <1>5 DEF Serve

LEMMA TokensKept ==
    ASSUME Typed, TokensKnown, [Next]_vars
    PROVE  TokensKnown'
<1>0. TypeOK
  BY DEF Typed
<1>1. ASSUME NEW t, t.sub \in Ids, HasRow(t) PROVE users'[t.sub] # None
  BY <1>1, RowsStay DEF HasRow
<1>2. ASSUME NEW b \in Browsers, token[b] # None PROVE token[b].sub \in Ids /\ users'[token[b].sub] # None
  <2>1. token[b].sub \in Ids
    BY <1>0, <1>2 DEF TypeOK, Claims
  <2> QED
    BY <1>1, <1>2, <2>1 DEF TokensKnown
<1>3. ASSUME NEW q \in Requests, pc[q] # "idle", call[q].op \in WithToken
      PROVE  users'[call[q].token.sub] # None
  <2>1. call[q].token.sub \in Ids
    BY <1>3, CallFields DEF Typed, SessionOK
  <2> QED
    BY <1>1, <1>3, <2>1 DEF TokensKnown
<1>4. ASSUME NEW q \in Requests, reply[q] # None, reply[q].code = "TOKEN"
      PROVE  reply[q].body.sub \in Ids /\ users'[reply[q].body.sub] # None
  <2>1. IsReply(reply[q])
    BY <1>0, <1>4 DEF TypeOK
  <2>2. reply[q].body \in Claims
    BY <1>4, <2>1 DEF IsReply, Errors
  <2>3. reply[q].body.sub \in Ids
    BY <2>2 DEF Claims
  <2> QED
    BY <1>1, <1>4, <2>3 DEF TokensKnown
<1>5. ASSUME NEW b \in Browsers, Press(b) PROVE TokensKnown'
  <2>1. PICK q \in Requests, c \in Call : Sends(b, q, c)
    BY <1>5, PressSends
  <2>2. /\ token' = token /\ reply' = reply
        /\ c.op \in WithToken => token[b] # None /\ c.token = token[b]
        /\ pc' = [pc EXCEPT ![q] = "arrived"] /\ call' = [call EXCEPT ![q] = c]
    BY <2>1 DEF Sends, state
  <2>3. /\ call'[q] = c
        /\ \A p \in Requests : p # q => call'[p] = call[p] /\ pc'[p] = pc[p]
    BY <1>0, <2>2 DEF TypeOK
  <2> QED
    BY <1>2, <1>3, <1>4, <2>2, <2>3 DEF TokensKnown, HasRow
<1>6. ASSUME NEW b \in Browsers, Turns(b) PROVE TokensKnown'
  <2>1. /\ UNCHANGED <<pc, call, reply>>
        /\ \A d \in Browsers : d # b => token'[d] = token[d]
    BY <1>6, TurnFrame DEF request
  <2>2. \/ token'[b] = token[b]
        \/ token'[b] = None
        \/ ShowLogin(b)
        \/ Expire(b)
    BY <1>0, <1>6 DEF Turns, Return, Load, Click, ShowReserved, ShowReleased, ShowBooked,
       ShowCancelled, ShowOnly, Abandon, GiveUp, LoadUser, LoadFails, SignOut, NewKey, logout,
       state, TypeOK
  <2>3. CASE ShowLogin(b)
    <3>1. PICK q \in Requests : /\ q = awaiting[b] /\ reply[q].code = "TOKEN" /\ pc[q] = "done"
      BY <1>0, <2>3 DEF ShowLogin, Handle, Answered, TypeOK
    <3>2. reply[q] # None
      BY <3>1 DEF Typed, SessionOK
    <3>3. token'[b] = reply[q].body
      BY <1>0, <2>3, <3>1 DEF ShowLogin, Body, TypeOK
    <3> QED
      BY <1>2, <1>3, <1>4, <2>1, <3>1, <3>2, <3>3 DEF TokensKnown, HasRow
  <2>4. CASE Expire(b)
    <3>1. token[b] # None /\ token[b] \in Claims
      BY <1>0, <2>4 DEF Expire, TypeOK
    <3>2. PICK u \in Claims : u = [token[b] EXCEPT !.live = FALSE] /\ u.sub = token[b].sub
      BY <3>1, ExpiredToken
    <3>3. token' = [token EXCEPT ![b] = u]
      BY <2>4, <3>2 DEF Expire
    <3>4. token'[b] = u
      BY <1>0, <3>3 DEF TypeOK
    <3>5. users'[token'[b].sub] # None
      BY <1>2, <3>1, <3>2, <3>4
    <3>6. \A d \in Browsers : token'[d] # None => users'[token'[d].sub] # None
      BY <1>2, <2>1, <3>5
    <3> QED
      BY <1>3, <1>4, <2>1, <3>6 DEF TokensKnown, HasRow
  <2>5. CASE token'[b] = token[b] \/ token'[b] = None
    BY <1>2, <1>3, <1>4, <2>1, <2>5 DEF TokensKnown, HasRow
  <2> QED
    BY <2>2, <2>3, <2>4, <2>5
<1>7. ASSUME ServerKeeps,
             \A p \in Requests : reply'[p] # reply[p] /\ reply'[p].code = "TOKEN" =>
                users'[reply'[p].body.sub] # None
      PROVE  TokensKnown'
  <2>1. token' = token /\ call' = call /\ \A p \in Requests : pc'[p] = "idle" <=> pc[p] = "idle"
    BY <1>7 DEF ServerKeeps, page, state
  <2>2. \A p \in Requests : reply'[p] # None /\ reply'[p].code = "TOKEN" =>
           users'[reply'[p].body.sub] # None
    BY <1>4, <1>7
  <2> QED
    BY <1>2, <1>3, <2>1, <2>2 DEF TokensKnown, HasRow
<1>8. CASE ServerKeeps
  <2>1. ASSUME NEW q \in Requests, Serve(q), NEW p \in Requests,
               reply'[p] # reply[p], reply'[p].code = "TOKEN"
        PROVE  users'[reply'[p].body.sub] # None
    <3>1. HasRow(reply'[p].body) /\ reply'[p].body.sub \in Ids
      BY <2>1, TokensIssued
    <3> QED
      BY <3>1, RowsStay DEF HasRow
  <2>2. ASSUME NEW i \in Ids, Demote(i) PROVE reply' = reply
    BY <2>2 DEF Demote, request
  <2>3. ASSUME UNCHANGED vars PROVE reply' = reply
    BY <2>3 DEF vars
  <2> QED
    BY <1>5, <1>6, <1>7, <1>8, <2>1, <2>2, <2>3 DEF Next, Turns
<1> QED
  BY <1>5, <1>6, <1>8, ServerKept

(* A call that has arrived, or been refused, after the demotion.           *)
Doomed(q) ==
    /\ pc[q] # "idle" /\ call[q].op \in Gated
    /\ \/ pc[q] = "arrived" /\ HasRow(call[q].token) /\ users[call[q].token.sub].role # "ADMIN"
       \/ pc[q] = "done" /\ reply[q].code # "OK"

LEMMA DoomedStays ==
    ASSUME Typed, NEW q \in Requests, Doomed(q), [Next]_vars
    PROVE  Doomed(q)'
<1>0. TypeOK
  BY DEF Typed
<1>1. pc[q] \in {"arrived", "done"} /\ call[q] \in Call /\ call[q].op \in WithToken
  BY DEF Doomed, Typed, SessionOK, Gated, WithToken
<1>2. call[q].token.sub \in Ids
  BY <1>1, CallFields
<1>3. ASSUME call'[q] = call[q], pc'[q] = pc[q], reply'[q] = reply[q] PROVE Doomed(q)'
  BY <1>2, <1>3, RowsStay DEF Doomed, HasRow
<1>4. ASSUME NEW b \in Browsers, Press(b) PROVE Doomed(q)'
  <2>1. PICK p \in Requests, c \in Call : Sends(b, p, c)
    BY <1>4, PressSends
  <2>2. pc[p] = "idle" /\ pc' = [pc EXCEPT ![p] = "arrived"] /\ call' = [call EXCEPT ![p] = c]
        /\ reply' = reply
    BY <2>1 DEF Sends
  <2>3. call'[q] = call[q] /\ pc'[q] = pc[q]
    BY <1>0, <1>1, <2>2 DEF TypeOK
  <2> QED
    BY <1>3, <2>2, <2>3
<1>5. ASSUME NEW b \in Browsers, Turns(b) PROVE Doomed(q)'
  BY <1>3, <1>5, TurnFrame DEF request
<1>6. ASSUME NEW code, NEW body, NEW p \in Requests, Answer(p, code, body), InFlight(p),
             p = q => code # "OK"
      PROVE  Doomed(q)'
  <2>1. /\ call' = call /\ pc'[p] = "done" /\ reply'[p].code = code
        /\ p # q => reply'[q] = reply[q] /\ pc'[q] = pc[q]
    BY <1>6, AnswerKeeps
  <2> QED
    BY <1>1, <1>3, <1>6, <2>1 DEF Doomed
<1>7. ASSUME NEW p \in Requests, NEW step, Goto(p, step), p # q, UNCHANGED <<call, reply>>
      PROVE  Doomed(q)'
  BY <1>0, <1>3, <1>7 DEF Goto, TypeOK
<1>8. ASSUME NEW p \in Requests, Serve(p), p # q PROVE Doomed(q)'
  <2>1. \/ InFlight(p) /\ \E code, body : Answer(p, code, body)
        \/ (\E step : Goto(p, step)) /\ UNCHANGED <<call, reply>>
    <3>1. CASE ServeReserve(p) \/ ServeRelease(p) \/ ServeBook(p) \/ ServeCancel(p)
      BY <3>1, ReserveDoes, ReleaseDoes, BookDoes, CancelDoes DEF InFlight
    <3>2. CASE ServeRefuses(p)
      BY <3>2 DEF ServeRefuses, Refuse, InFlight
    <3>3. CASE ServeAccounts(p)
      BY <3>3 DEF ServeAccounts, InsertUser, EmailTaken, RegisterCommit, Login, Authorize,
         AuthorizeRefuses, FindPolicy, PutUpdate, PutInsert, PutInsertRejected, PutCommit,
         InsertCourse, CourseCodeTaken, CourseCommit, ConnectionLost, Refuse, At, InFlight
    <3> QED
      BY <1>8, <3>1, <3>2, <3>3 DEF Serve
  <2> QED
    BY <1>6, <1>7, <1>8, <2>1
<1>9. ASSUME Serve(q) PROVE Doomed(q)'
  <2>1. pc[q] = "arrived" /\ call[q].op \in {"put", "course"}
        /\ users[call[q].token.sub].role # "ADMIN"
    <3>1. pc[q] # "done"
      BY <1>9, ReserveDoes, ReleaseDoes, BookDoes, CancelDoes DEF Serve, ServeRefuses, ServeAccounts,
         InsertUser, EmailTaken, RegisterCommit, Login, Authorize,
         AuthorizeRefuses, FindPolicy, PutUpdate, PutInsert, PutInsertRejected, PutCommit,
         InsertCourse, CourseCodeTaken, CourseCommit, ConnectionLost, At, InFlight
    <3> QED
      BY <3>1 DEF Doomed, Gated
  <2>2. AuthorizeRefuses(q)
    BY <1>9, <2>1, ReserveDoes, ReleaseDoes, BookDoes, CancelDoes DEF Serve, ServeRefuses, ServeAccounts,
       InsertUser, EmailTaken, RegisterCommit, Login, Authorize,
       FindPolicy, PutUpdate, PutInsert, PutInsertRejected, PutCommit,
       InsertCourse, CourseCodeTaken, CourseCommit, ConnectionLost, At, InFlight
  <2>3. InFlight(q) /\ (Answer(q, "UNAUTHORIZED", None) \/ Answer(q, "FORBIDDEN", None))
    BY <2>1, <2>2 DEF AuthorizeRefuses, Refuse, InFlight
  <2> QED
    BY <1>6, <2>3
<1>10. ASSUME NEW i \in Ids, Demote(i) PROVE Doomed(q)'
  BY <1>3, <1>10 DEF Demote, request
<1>11. CASE UNCHANGED vars
  BY <1>3, <1>11 DEF vars
<1> QED
  BY <1>4, <1>5, <1>8, <1>9, <1>10, <1>11 DEF Next, Turns

(* "A demoted admin loses admin immediately rather than 60 minutes later": *)
(* a gated call that reaches the server after the demotion never succeeds  *)
(* (require_role).                                                         *)
THEOREM DemotionBites == Spec => DemotedAtOnce
<1> SUFFICES ASSUME NEW q \in Requests
             PROVE  Spec => [](/\ pc[q] = "arrived" /\ call[q].op \in Gated
                               /\ users[call[q].token.sub].role # "ADMIN"
                               => [](reply[q] = None \/ reply[q].code # "OK"))
  BY DEF DemotedAtOnce
<1> DEFINE TokenInv == Typed /\ TokensKnown
           Late == /\ pc[q] = "arrived" /\ call[q].op \in Gated
                   /\ users[call[q].token.sub].role # "ADMIN"
           Fails == reply[q] = None \/ reply[q].code # "OK"
<1>1. Init => TokenInv
  <2> SUFFICES ASSUME Init PROVE TokenInv
    OBVIOUS
  <2>1. Typed
    BY InitTyped
  <2>2. ASSUME NEW b \in Browsers, token[b] # None PROVE HasRow(token[b])
    <3>1. PICK who \in SignedIn :
             token = [d \in Browsers |-> IF who[d] = None THEN None ELSE
                        [sub |-> who[d], role |-> SeededUsers[who[d]].role, live |-> TRUE]]
      BY DEF Init
    <3>2. who[b] \in DOMAIN SeededUsers /\ token[b].sub = who[b]
      BY <2>2, <3>1, BrowsersTyped
    <3>3. users[who[b]] = SeededUsers[who[b]]
      BY <3>2 DEF Init, ServerInit, Ids
    <3>4. users[who[b]] \in UserRow
      BY <3>2, <3>3, SeedTyped
    <3> QED
      BY <3>2, <3>4, SentinelsApart DEF HasRow
  <2>3. TokensKnown
    BY <2>2 DEF TokensKnown, Init, ServerInit
  <2> QED
    BY <2>1, <2>3
<1>2. TokenInv /\ [Next]_vars => TokenInv'
  BY NextTyped, TokensKept
<1>3. TokenInv /\ Late => Doomed(q)
  BY DEF TokensKnown, Doomed, Gated, WithToken
<1>4. TokenInv /\ Doomed(q) /\ [Next]_vars => Doomed(q)'
  BY DoomedStays
<1>5. TokenInv /\ Doomed(q) => Fails
  BY DEF Typed, SessionOK, Doomed
<1> HIDE DEF TokenInv, Late, Fails
<1>6. Spec => [](Late => []Fails)
  BY <1>1, <1>2, <1>3, <1>4, <1>5, PTL DEF Spec
<1> QED
  BY <1>6 DEF Late, Fails
=============================================================================
