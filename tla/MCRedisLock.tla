----------------------------- MODULE MCRedisLock -----------------------------
(* Model-checking instances of RedisLock: applications that use two handles. *)
EXTENDS RedisLock, TLC

CONSTANTS h1, h2

MCUses ==
  {h1 :> {"lock", "refresh", "unlock"} @@ h2 :> {"lock", "try", "refresh"},
   h1 :> AllOps @@ h2 :> {},
   h1 :> {"lock", "auto"} @@ h2 :> {"try"}}

TryUses == {h1 :> {"try", "refresh"} @@ h2 :> {"lock", "try"}}
==============================================================================
