----------------------------- MODULE PerKeyLock -----------------------------
(* What a keyed mutex promises its callers: one owner per key, and keys    *)
(* that do not wait for each other.                                        *)
CONSTANTS Procs, Keys

VARIABLE owners   \* per key: the goroutines between lock and unlock

Init == owners = [k \in Keys |-> {}]

Take(p, k) ==
  /\ owners[k] = {}
  /\ owners' = [owners EXCEPT ![k] = {p}]

Give(p, k) ==
  /\ owners[k] = {p}
  /\ owners' = [owners EXCEPT ![k] = {}]

Next == \E p \in Procs, k \in Keys : Take(p, k) \/ Give(p, k)

Spec == Init /\ [][Next]_owners
=============================================================================
