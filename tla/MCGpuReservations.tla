------------------------- MODULE MCGpuReservations -------------------------
(* Small instances of GpuReservations for TLC. *)
EXTENDS GpuReservations, TLC

CONSTANTS u1, u2, c1, c2, k1, k2

Students == [u \in Users |-> "STUDENT"]
OneAdmin == [u \in Users |-> IF u = u1 THEN "STUDENT" ELSE "ADMIN"]

reserve(u, c, n, k) ==
    [op |-> "reserve", user |-> u, cluster |-> c, gpu_count |-> n, key |-> k]
cancel(u, c, r) == [op |-> "cancel", user |-> u, cluster |-> c, reservation |-> r]
update(c, n, s) == [op |-> "update", cluster |-> c, gpu_count |-> n, status |-> s]

(* One student retries with one key, reuses it for another size, sends a   *)
(* second key, and releases.                                               *)
KeyedCalls ==
    { reserve(u1, c1, 1, k1), reserve(u1, c1, 2, k1), reserve(u1, c1, 1, k2),
      reserve(u2, c1, 1, k1) }
    \cup { cancel(u1, c1, r) : r \in Requests }

(* No keys: two users, two clusters, releases by the owner and by others,  *)
(* an admin who resizes and blocks.                                        *)
UnkeyedCalls ==
    { reserve(u1, c1, 2, None), reserve(u1, c2, 1, None), reserve(u2, c1, 1, None),
      update(c1, 1, None), update(c1, None, "BLOCKED") }
    \cup { cancel(u, c1, r) : u \in {u1, u2}, r \in Requests }

(* Policies: the same limit for every role, or none configured. *)
Policy(limit) == [role \in Role |-> limit]
TwoOrMissing == {Policy(2), Policy(None)}
Two == {Policy(2)}

OneCluster == c1 :> 2


Symmetry == Permutations(Requests)
=============================================================================
