------------------------------ MODULE UnitSums ------------------------------
(***************************************************************************)
(* SUM(gpu_count) over rows of a table, counted unit by unit: the number   *)
(* of pairs <<r, i>> where r is one of the rows and i one of the units it  *)
(* holds.  No row holds more than `most` units.                            *)
(***************************************************************************)
EXTENDS Integers, FiniteSets

UnitPairs(table, rows, most) ==
    { x \in rows \X (1..most) : x[2] <= table[x[1]].gpu_count }

SumUnits(table, rows, most) == Cardinality(UnitPairs(table, rows, most))
=============================================================================
