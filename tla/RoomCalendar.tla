---------------------------- MODULE RoomCalendar ----------------------------
(***************************************************************************)
(* What the room service promises, without requests, locks, transactions   *)
(* or connections: a calendar per room.  A slot is booked in one           *)
(* indivisible step, on an open room where nothing overlaps it, and given  *)
(* back in one; blocking a room leaves its bookings alone.                 *)
(***************************************************************************)
CONSTANTS Rooms, Bookers, Windows, Ids, None,
          Overlapping   \* pairs of windows that share an instant

VARIABLES
    status,     \* AVAILABLE or BLOCKED for each room, or None
    calendar    \* the booking standing under each id, or None

diary == <<status, calendar>>

Booking == [room : Rooms, user : Bookers, window : Windows]

Taken(room, window) ==
    \E i \in Ids : /\ calendar[i] # None
                   /\ calendar[i].room = room
                   /\ <<calendar[i].window, window>> \in Overlapping

Init ==
    /\ status \in [Rooms -> {"AVAILABLE", None}]
    /\ calendar = [i \in Ids |-> None]

Book(i) ==
    /\ calendar[i] = None
    /\ calendar'[i] \in Booking
    /\ status[calendar'[i].room] = "AVAILABLE"
    /\ ~Taken(calendar'[i].room, calendar'[i].window)
    /\ calendar' = [calendar EXCEPT ![i] = calendar'[i]]
    /\ UNCHANGED status

GiveBack(i) ==
    /\ calendar[i] # None
    /\ calendar' = [calendar EXCEPT ![i] = None]
    /\ UNCHANGED status

Open(room) ==
    /\ status[room] = None
    /\ status' = [status EXCEPT ![room] = "AVAILABLE"]
    /\ UNCHANGED calendar

Mark(room, s) ==
    /\ status[room] # None
    /\ status' = [status EXCEPT ![room] = s]
    /\ UNCHANGED calendar

Next ==
    \/ \E i \in Ids : Book(i) \/ GiveBack(i)
    \/ \E room \in Rooms : Open(room) \/ Mark(room, "AVAILABLE") \/ Mark(room, "BLOCKED")

Spec == Init /\ [][Next]_diary
=============================================================================
