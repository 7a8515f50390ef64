------------------------------ MODULE LeaseLock ------------------------------
(***************************************************************************)
(* What cache/redis_lock.go promises its callers, with Redis, time and the *)
(* network left out: at any moment at most one handle may act on the lock, *)
(* and the right to act never passes from one handle to another in one     *)
(* step - it is given up (released, expired, or its process died) first.   *)
(***************************************************************************)
CONSTANT Handle
VARIABLE owners

Init == owners = {}

Grant(h) == owners = {} /\ owners' = {h}

Drop(h) == owners = {h} /\ owners' = {}

Next == \E h \in Handle : Grant(h) \/ Drop(h)

Spec == Init /\ [][Next]_owners
==============================================================================
