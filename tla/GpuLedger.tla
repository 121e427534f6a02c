----------------------------- MODULE GpuLedger -----------------------------
(***************************************************************************)
(* What the GPU service promises, without requests, locks, transactions or *)
(* the `allocated` counter: clusters with a capacity, and holds on them    *)
(* that are granted and released in one indivisible step.  A hold is only  *)
(* granted on an open cluster with room for it, a key buys one hold, and a *)
(* capacity is never set below what is held.                               *)
(***************************************************************************)
EXTENDS UnitSums

CONSTANTS Users, Clusters, Keys, Requests, MaxUnits, None

VARIABLES
    capacity,   \* [gpu_count, status] of each cluster, or None
    holds,      \* the reservation granted under each id, or None
    spent       \* the hold each (key, user) bought, or None

ledger == <<capacity, holds, spent>>

Status == {"AVAILABLE", "BLOCKED"}

ActiveOn(c) == { r \in Requests : /\ holds[r] # None
                                  /\ holds[r].status = "ACTIVE"
                                  /\ holds[r].cluster = c }

Used(c) == SumUnits(holds, ActiveOn(c), MaxUnits)

Init ==
    /\ capacity \in [Clusters -> [gpu_count : Nat, status : {"AVAILABLE"}] \cup {None}]
    /\ holds = [r \in Requests |-> None]
    /\ spent = [s \in Keys \X Users |-> None]

Grant(r, u, c, n, key) ==
    /\ holds[r] = None
    /\ capacity[c] # None
    /\ capacity[c].status = "AVAILABLE"
    /\ Used(c) + n <= capacity[c].gpu_count
    /\ holds' = [holds EXCEPT ![r] = [cluster |-> c, user |-> u,
                                      gpu_count |-> n, status |-> "ACTIVE"]]
    /\ \/ key = None /\ UNCHANGED spent
       \/ /\ key # None
          /\ spent[<<key, u>>] = None
          /\ spent' = [spent EXCEPT ![<<key, u>>] = r]
    /\ UNCHANGED capacity

Release(r) ==
    /\ holds[r] # None
    /\ holds[r].status = "ACTIVE"
    /\ holds' = [holds EXCEPT ![r].status = "CANCELLED"]
    /\ UNCHANGED <<capacity, spent>>

Others(c) == \A d \in Clusters \ {c} : capacity'[d] = capacity[d]

Open(c) ==
    /\ capacity[c] = None
    /\ capacity'[c] \in [gpu_count : Nat, status : {"AVAILABLE"}]
    /\ Others(c)
    /\ UNCHANGED <<holds, spent>>

Edit(c) ==
    /\ capacity[c] # None
    /\ capacity'[c] \in [gpu_count : Nat, status : Status]
    /\ Used(c) <= capacity'[c].gpu_count
    /\ Others(c)
    /\ UNCHANGED <<holds, spent>>

Next ==
    \/ \E r \in Requests, u \in Users, c \in Clusters, n \in 1..MaxUnits,
          key \in Keys \cup {None} : Grant(r, u, c, n, key)
    \/ \E r \in Requests : Release(r)
    \/ \E c \in Clusters : Open(c) \/ Edit(c)

Spec == Init /\ [][Next]_ledger
=============================================================================
