--------------------------- MODULE UnitSumsProofs ---------------------------
(* Lemmas about SUM(gpu_count) as UnitSums defines it. *)
EXTENDS UnitSums, FiniteSetTheorems, TLAPS

(* A finite set of rows holds a natural number of units.                   *)
LEMMA SumUnitsIsNat ==
    ASSUME NEW table, NEW rows, NEW most \in Nat, IsFiniteSet(rows)
    PROVE  /\ IsFiniteSet(UnitPairs(table, rows, most))
           /\ SumUnits(table, rows, most) \in Nat
<1>1. IsFiniteSet(1..most)
  BY FS_Interval
<1>2. IsFiniteSet(rows \X (1..most))
  BY <1>1, FS_Product
<1>3. UnitPairs(table, rows, most) \subseteq rows \X (1..most)
  BY DEF UnitPairs
<1>4. IsFiniteSet(UnitPairs(table, rows, most))
  BY <1>2, <1>3, FS_Subset
<1> QED
  BY <1>4, FS_CardinalityType DEF SumUnits

(* The sum depends on the gpu_count of the rows summed and on nothing else.*)
LEMMA SumUnitsSame ==
    ASSUME NEW table, NEW new, NEW rows, NEW most \in Nat,
           \A r \in rows : new[r].gpu_count = table[r].gpu_count
    PROVE  SumUnits(new, rows, most) = SumUnits(table, rows, most)
<1>1. UnitPairs(new, rows, most) = UnitPairs(table, rows, most)
  BY DEF UnitPairs
<1> QED
  BY <1>1 DEF SumUnits

(* A row that joins the sum adds its gpu_count.                            *)
LEMMA SumUnitsAdd ==
    ASSUME NEW table, NEW new, NEW rows, NEW most \in Nat, IsFiniteSet(rows),
           NEW r, r \notin rows, new[r].gpu_count \in 1..most,
           \A x \in rows : new[x].gpu_count = table[x].gpu_count
    PROVE  SumUnits(new, rows \cup {r}, most)
             = SumUnits(table, rows, most) + new[r].gpu_count
<1> DEFINE n == new[r].gpu_count
           Old == UnitPairs(table, rows, most)
           Own == {r} \X (1..n)
<1>0. n \in Int /\ 1 <= n /\ n <= most
  OBVIOUS
<1>1. UnitPairs(new, rows \cup {r}, most) = Old \cup Own
  BY DEF UnitPairs
<1>2. Old \cap Own = {}
  BY DEF UnitPairs
<1>3. IsFiniteSet(Old)
  BY SumUnitsIsNat
<1>4. IsFiniteSet(Own) /\ Cardinality(Own) = n
  <2>1. IsFiniteSet({r}) /\ Cardinality({r}) = 1
    BY FS_Singleton
  <2>2. IsFiniteSet(1..n) /\ Cardinality(1..n) = n
    <3> HIDE DEF n
    <3>1. 1 \in Int
      OBVIOUS
    <3>2. IsFiniteSet(1..n) /\ Cardinality(1..n) = IF 1 > n THEN 0 ELSE n - 1 + 1
      BY <1>0, <3>1, FS_Interval, Zenon
    <3> QED
      BY <1>0, <3>2
  <2>3. IsFiniteSet(Own) /\ Cardinality(Own) = Cardinality({r}) * Cardinality(1..n)
    BY <2>1, <2>2, FS_Product, Zenon
  <2> QED
    BY <1>0, <2>1, <2>2, <2>3
<1>5. Cardinality(Old \cup Own) = Cardinality(Old) + Cardinality(Own) - 0
  BY <1>2, <1>3, <1>4, FS_Union, FS_EmptySet
<1>6. Cardinality(Old) \in Nat
  BY <1>3, FS_CardinalityType
<1>7. SumUnits(new, rows \cup {r}, most) = Cardinality(Old \cup Own)
  BY <1>1 DEF SumUnits
<1>8. SumUnits(table, rows, most) = Cardinality(Old)
  BY DEF SumUnits
<1>9. SumUnits(new, rows \cup {r}, most) = SumUnits(table, rows, most) + n
  <2> HIDE DEF n, Old, Own
  <2> QED
    BY <1>0, <1>4, <1>5, <1>6, <1>7, <1>8
<1> QED
  BY <1>9

(* A row that leaves the sum takes its gpu_count away.                     *)
LEMMA SumUnitsRemove ==
    ASSUME NEW table, NEW new, NEW rows, NEW most \in Nat, IsFiniteSet(rows),
           NEW r \in rows, table[r].gpu_count \in 1..most,
           \A x \in rows \ {r} : new[x].gpu_count = table[x].gpu_count
    PROVE  SumUnits(new, rows \ {r}, most)
             = SumUnits(table, rows, most) - table[r].gpu_count
<1> DEFINE rest == rows \ {r}
<1>1. IsFiniteSet(rest)
  BY FS_RemoveElement
<1>2. r \notin rest /\ \A x \in rest : table[x].gpu_count = new[x].gpu_count
  OBVIOUS
<1>3. SumUnits(table, rest \cup {r}, most)
        = SumUnits(new, rest, most) + table[r].gpu_count
  <2> HIDE DEF rest
  <2> QED
    BY <1>1, <1>2, SumUnitsAdd
<1>4. rest \cup {r} = rows
  OBVIOUS
<1>5. SumUnits(new, rest, most) \in Nat
  BY <1>1, SumUnitsIsNat
<1> QED
  BY <1>3, <1>4, <1>5
=============================================================================
