----------------------------- MODULE SeatLedger -----------------------------
(***************************************************************************)
(* What the course service promises, without requests, locks, transactions *)
(* or counters.  A student takes a free seat, gives one back, hands it to a*)
(* queued student, or queues for a section that is full.  A seat changes   *)
(* hands in one indivisible step, and nobody sits twice at one hour or     *)
(* queues for a seat already taken.                                        *)
(***************************************************************************)
EXTENDS Integers, FiniteSets

CONSTANTS Students, Offerings, None,
          Clashing      \* pairs of offerings that meet at one time

VARIABLES
    capacity,   \* seats of each offering, or None
    seats,      \* <<student, offering>> pairs seated
    queued      \* <<student, offering>> pairs waiting

ledger == <<capacity, seats, queued>>

Taken(o) == Cardinality({ s \in Students : <<s, o>> \in seats })
Full(o) == Taken(o) >= capacity[o]

MaySit(s, o) ==
    /\ <<s, o>> \notin seats
    /\ \A p \in Offerings : <<s, p>> \in seats => <<p, o>> \notin Clashing

Init ==
    /\ capacity \in [Offerings -> Nat \cup {None}]
    /\ seats \subseteq { p \in Students \X Offerings : capacity[p[2]] # None }
    /\ queued \subseteq { p \in Students \X Offerings : capacity[p[2]] # None }
    /\ seats \cap queued = {}
    /\ \A o \in Offerings : capacity[o] # None => Taken(o) <= capacity[o]
    /\ \A p, q \in seats : p[1] = q[1] => <<p[2], q[2]>> \notin Clashing

Take(s, o) ==
    /\ capacity[o] # None /\ ~Full(o)
    /\ MaySit(s, o)
    /\ seats' = seats \cup {<<s, o>>}
    /\ queued' = queued \ {<<s, o>>}
    /\ UNCHANGED capacity

Give(s, o) ==
    /\ <<s, o>> \in seats
    /\ seats' = seats \ {<<s, o>>}
    /\ UNCHANGED <<capacity, queued>>

Hand(s, t, o) ==
    /\ <<s, o>> \in seats
    /\ <<t, o>> \in queued
    /\ MaySit(t, o)
    /\ seats' = (seats \ {<<s, o>>}) \cup {<<t, o>>}
    /\ queued' = queued \ {<<t, o>>}
    /\ UNCHANGED capacity

Wait(s, o) ==
    /\ capacity[o] # None /\ Full(o)
    /\ <<s, o>> \notin seats \cup queued
    /\ queued' = queued \cup {<<s, o>>}
    /\ UNCHANGED <<capacity, seats>>

Leave(s, o) ==
    /\ <<s, o>> \in queued
    /\ queued' = queued \ {<<s, o>>}
    /\ UNCHANGED <<capacity, seats>>

Open(o) ==
    /\ capacity[o] = None
    /\ capacity'[o] \in Nat
    /\ capacity' = [capacity EXCEPT ![o] = capacity'[o]]
    /\ UNCHANGED <<seats, queued>>

Next ==
    \/ \E s \in Students, o \in Offerings :
          Take(s, o) \/ Give(s, o) \/ Wait(s, o) \/ Leave(s, o)
    \/ \E s, t \in Students, o \in Offerings : Hand(s, t, o)
    \/ \E o \in Offerings : Open(o)

Spec == Init /\ [][Next]_ledger
=============================================================================
