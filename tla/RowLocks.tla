------------------------------ MODULE RowLocks ------------------------------
(***************************************************************************)
(* Row-level locks of PostgreSQL as the transactions of app/ use them.     *)
(*                                                                         *)
(* A lock table is a set of records [tx, row, mode].  The application only *)
(* ever asks for three of the four modes by name: FOR UPDATE               *)
(* (with_for_update()), FOR SHARE (with_for_update(read=True)) and, through*)
(* a foreign key checked by an INSERT, FOR KEY SHARE.  FOR NO KEY UPDATE   *)
(* is what a plain UPDATE of a non-key column takes.                       *)
(*                                                                         *)
(* There is no queue: a waiter is granted the row whenever no OTHER        *)
(* transaction holds a conflicting lock on it, and all locks of a          *)
(* transaction go at its COMMIT or ROLLBACK.                               *)
(***************************************************************************)

LockMode == {"KEY SHARE", "SHARE", "NO KEY UPDATE", "UPDATE"}

(* The modes that exclude each mode, as the server's conflict table has it.*)
Excluding == [ m \in LockMode |->
    CASE m = "KEY SHARE"     -> {"UPDATE"}
      [] m = "SHARE"         -> {"NO KEY UPDATE", "UPDATE"}
      [] m = "NO KEY UPDATE" -> {"SHARE", "NO KEY UPDATE", "UPDATE"}
      [] m = "UPDATE"        -> LockMode ]

(* The transactions that transaction t would wait for to get `row`.        *)
Blockers(held, t, row, mode) ==
    { l.tx : l \in { k \in held : /\ k.row = row
                                  /\ k.tx # t
                                  /\ k.mode \in Excluding[mode] } }

Free(held, t, row, mode) == Blockers(held, t, row, mode) = {}

Grant(held, t, row, mode) == held \cup {[tx |-> t, row |-> row, mode |-> mode]}

ReleaseAll(held, t) == { l \in held : l.tx # t }

Holds(held, t, row, mode) == [tx |-> t, row |-> row, mode |-> mode] \in held

(* Two transactions hold the same row in modes that exclude each other:    *)
(* what the server never lets happen.                                      *)
Clash(held) ==
    \E k, l \in held : /\ k.row = l.row
                       /\ k.tx # l.tx
                       /\ k.mode \in Excluding[l.mode]

(***************************************************************************)
(* A set of transactions each of which waits for another one of the set:   *)
(* no member can ever move.  waits[t] is the set t is waiting for.  Every  *)
(* cycle of the waits-for graph is such a set, and every such set contains *)
(* a cycle; the smallest ones are exactly the cycles.                      *)
(***************************************************************************)
Stuck(waits, S) == S # {} /\ \A t \in S : waits[t] \cap S # {}

Cycle(waits, S) ==
    /\ Stuck(waits, S)
    /\ \A T \in SUBSET S : Stuck(waits, T) => T = S
=============================================================================
