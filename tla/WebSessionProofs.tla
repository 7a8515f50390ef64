-------------------------- MODULE WebSessionProofs --------------------------
(***************************************************************************)
(* Proofs about WebSession, for any number of requests, browsers and ids   *)
(* and any expiration.                                                     *)
(***************************************************************************)
EXTENDS WebSession, TLAPS

(* The empty store satisfies the invariant.                                *)
LEMMA InitIInv == Init => IInv
BY ConstAssumption DEF Init, Requests, IInv, TypeOK, Issued, NoTTL, Valued, GoneKept, LogoutKept, OwnValue, Idle, Forever, Shared, Pc, Working

(* A request arrives with whatever its browser's jar holds, which is a     *)
(* session that was issued.                                                *)
LEMMA ArriveStep ==
  ASSUME NEW r \in Req, NEW b \in Browser, NEW op \in {"login", "user", "logout"}, IInv, Arrive(r, b, op)
  PROVE  IInv'
<1> USE ConstAssumption DEF IInv
<1>1. TypeOK'
  <2>1. req' \in [Req -> Requests]
    <3>1. Idle \in Requests
      BY DEF Idle, Requests, Pc
    <3>2. jar[b] \in Id \cup {NoId} /\ (jar[b] \in born /\ life[jar[b]] = 0) \in BOOLEAN
      BY DEF TypeOK
    <3>3. req'[r] \in Requests
      BY <3>1, <3>2 DEF TypeOK, Requests, Pc, Arrive
    <3> QED BY <3>3 DEF TypeOK, Arrive
  <2>2. TypeOK!1' /\ TypeOK!2' /\ TypeOK!4'
    BY DEF TypeOK, Arrive
  <2> QED BY <2>1, <2>2 DEF TypeOK
<1>2. Issued'
  BY DEF TypeOK, Issued, NoTTL, Arrive, Idle
<1>3. NoTTL'
  BY DEF NoTTL, Arrive
<1>4. Valued'
  BY DEF Valued, Arrive
<1>5. GoneKept'
  BY DEF TypeOK, GoneKept, Arrive, Idle
<1>6. LogoutKept'
  BY DEF LogoutKept, Arrive, Idle
<1>7. OwnValue'
  BY DEF Valued, OwnValue, Arrive, Idle
<1> QED BY <1>1, <1>2, <1>3, <1>4, <1>5, <1>6, <1>7

(* The memory store puts a fresh id under its expiration in one step.      *)
LEMMA MemoryGenerateStep ==
  ASSUME NEW r \in Req, NEW id \in Id, IInv, MemoryGenerate(r, id)
  PROVE  IInv'
<1> USE ConstAssumption DEF IInv
<1>1. TypeOK'
  <2>1. req' \in [Req -> Requests]
    BY DEF TypeOK, Requests, MemoryGenerate, Fresh, Inject
  <2>2. TypeOK!1' /\ TypeOK!2' /\ TypeOK!4'
    BY DEF TypeOK, Requests, MemoryGenerate, Fresh, Inject
  <2> QED BY <2>1, <2>2 DEF TypeOK
<1>2. Issued'
  BY DEF TypeOK, Requests, MemoryGenerate, Fresh, Inject
<1>3. NoTTL'
  BY DEF TypeOK, Requests, MemoryGenerate, Fresh, Inject
<1>4. Valued'
  BY DEF TypeOK, Valued, MemoryGenerate, Inject
<1>5. GoneKept'
  BY DEF TypeOK, GoneKept, MemoryGenerate, At, Fresh, Inject, SetLife
<1>6. LogoutKept'
  BY DEF TypeOK, LogoutKept, Requests, MemoryGenerate, Fresh, Inject
<1>7. OwnValue'
  BY DEF TypeOK, Valued, OwnValue, Requests, MemoryGenerate, Inject
<1> QED BY <1>1, <1>2, <1>3, <1>4, <1>5, <1>6, <1>7

(* HSET leaves a hash without a TTL that only this request knows, or       *)
(* nobody.                                                                 *)
LEMMA RedisGenerateStep ==
  ASSUME NEW r \in Req, NEW id \in Id, NEW o \in Outcome, IInv, RedisGenerate(r, id, o)
  PROVE  IInv'
<1> USE ConstAssumption DEF IInv
<1>1. TypeOK'
  <2>1. req' \in [Req -> Requests]
    <3>1. CASE o = "ok"
      BY <3>1 DEF TypeOK, Requests, Pc, RedisGenerate, Answer
    <3>2. CASE o # "ok"
      BY <3>2 DEF TypeOK, Requests, Pc, RedisGenerate, Answer
    <3> QED BY <3>1, <3>2
  <2>2. TypeOK!1' /\ TypeOK!2' /\ TypeOK!4'
    BY DEF TypeOK, Issued, Requests, RedisGenerate, At, Answer
  <2> QED BY <2>1, <2>2 DEF TypeOK
<1>2. Issued'
  BY DEF TypeOK, Issued, Requests, RedisGenerate, At, Answer
<1>3. NoTTL'
  BY DEF TypeOK, Issued, Requests, RedisGenerate, At, Answer
<1>4. Valued'
  BY DEF Valued, RedisGenerate, Answer
<1>5. GoneKept'
  BY DEF TypeOK, GoneKept, Requests, RedisGenerate, Fresh, Answer, SetLife
<1>6. LogoutKept'
  BY DEF TypeOK, LogoutKept, Requests, RedisGenerate, Fresh, Answer, SetLife
<1>7. OwnValue'
  BY DEF Valued, OwnValue, RedisGenerate, Answer
<1> QED BY <1>1, <1>2, <1>3, <1>4, <1>5, <1>6, <1>7

(* EXPIRE ends the only time a session has no TTL before anybody else      *)
(* learns of it.                                                           *)
LEMMA RedisExpireStep ==
  ASSUME NEW r \in Req, NEW o \in Outcome, IInv, RedisExpire(r, o)
  PROVE  IInv'
<1> USE ConstAssumption DEF IInv
<1>1. TypeOK'
  <2>1. req' \in [Req -> Requests]
    BY DEF TypeOK, Requests, Pc, RedisExpire, Inject, Answer
  <2>2. TypeOK!1' /\ TypeOK!2' /\ TypeOK!4'
    BY DEF TypeOK, Issued, Forever, RedisExpire, At, Inject, Answer, SetLife
  <2> QED BY <2>1, <2>2 DEF TypeOK
<1>2. Issued'
  <2>1. CASE o = "ok"
    BY <2>1 DEF TypeOK, Issued, Requests, Working, RedisExpire, At, Inject, Answer
  <2>2. CASE o = "lost"
    BY <2>2 DEF TypeOK, Issued, Requests, Working, RedisExpire, At, Inject, Answer
  <2>3. CASE o \notin {"ok", "lost"}
    BY <2>3 DEF TypeOK, Issued, Requests, Working, RedisExpire, At, Inject, Answer
  <2> QED BY <2>1, <2>2, <2>3
<1>3. NoTTL'
  BY DEF TypeOK, Issued, NoTTL, Requests, Working, RedisExpire, At, Inject, Answer
<1>4. Valued'
  BY DEF TypeOK, Valued, Requests, RedisExpire, At, Inject, Answer
<1>5. GoneKept'
  BY DEF TypeOK, Issued, GoneKept, Requests, RedisExpire, At, Inject, Answer, SetLife
<1>6. LogoutKept'
  BY DEF TypeOK, Issued, LogoutKept, Requests, RedisExpire, At, Inject, Answer, SetLife
<1>7. OwnValue'
  BY DEF TypeOK, Issued, Valued, OwnValue, Requests, RedisExpire, Inject, Answer
<1> QED BY <1>1, <1>2, <1>3, <1>4, <1>5, <1>6, <1>7

(* Set stores the session's own value.                                     *)
LEMMA SetStep ==
  ASSUME NEW r \in Req, NEW o \in Outcome, IInv, Set(r, o)
  PROVE  IInv'
<1> USE ConstAssumption DEF IInv
<1>1. TypeOK'
  <2>1. req' \in [Req -> Requests]
    <3>1. Answer(r, "ok") \/ Answer(r, "error")
      BY DEF Set
    <3> QED BY <3>1 DEF TypeOK, Requests, Pc, Answer
  <2>2. TypeOK!1' /\ TypeOK!2' /\ TypeOK!4'
    BY DEF TypeOK, Requests, Set, Answer
  <2> QED BY <2>1, <2>2 DEF TypeOK
<1>2. Issued'
  BY DEF TypeOK, Issued, Requests, Working, Set, Answer
<1>3. NoTTL'
  BY DEF TypeOK, NoTTL, Requests, Set, At, Answer
<1>4. Valued'
  <2>1. kind = "memory" => Answer(r, "ok") /\ vals' = [vals EXCEPT ![req[r].sess] = req[r].sess]
    BY DEF Set, Place, Outcome, Executed
  <2>2. kind' = kind /\ jar' = jar /\ req[r].sess \in Id
    BY DEF Set, At, TypeOK, Issued
  <2> QED BY <2>1, <2>2 DEF TypeOK, Requests, Valued, Answer
<1>5. GoneKept'
  BY DEF TypeOK, GoneKept, Requests, Set, At, Answer
<1>6. LogoutKept'
  BY DEF TypeOK, LogoutKept, Requests, Set, Answer, Place
<1>7. OwnValue'
  BY DEF TypeOK, Valued, OwnValue, Requests, Set, Answer
<1> QED BY <1>1, <1>2, <1>3, <1>4, <1>5, <1>6, <1>7

(* The login check lets no request through whose session is gone.          *)
LEMMA GetSessionStep ==
  ASSUME NEW r \in Req, NEW o \in Outcome, IInv, GetSession(r, o)
  PROVE  IInv'
<1> USE ConstAssumption DEF IInv
<1>1. TypeOK'
  <2>1. req' \in [Req -> Requests]
    BY DEF TypeOK, Requests, Pc, GetSession, StoreGet, Answer, Goto
  <2>2. TypeOK!1' /\ TypeOK!2' /\ TypeOK!4'
    BY DEF TypeOK, GetSession, Answer, Goto
  <2> QED BY <2>1, <2>2 DEF TypeOK
<1>2. Issued'
  <2>1. CASE Goto(r, "refresh") /\ req[r].sess # NoId
    BY <2>1 DEF Issued, Working, GetSession, At, Answer, Goto
  <2>2. CASE Answer(r, "unauthorized")
    BY <2>2 DEF TypeOK, Issued, Working, GetSession, Answer, Goto
  <2> QED BY <2>1, <2>2 DEF GetSession
<1>3. NoTTL'
  BY DEF TypeOK, NoTTL, Requests, GetSession, At, Answer, Goto
<1>4. Valued'
  BY DEF TypeOK, Issued, Valued, Requests, GetSession, At, Answer, Goto
<1>5. GoneKept'
  BY DEF TypeOK, GoneKept, Requests, GetSession, StoreGet, Answer, Goto
<1>6. LogoutKept'
  BY DEF TypeOK, LogoutKept, Requests, GetSession, Answer, Goto
<1>7. OwnValue'
  BY DEF TypeOK, Valued, OwnValue, Requests, GetSession, Answer, Goto
<1> QED BY <1>1, <1>2, <1>3, <1>4, <1>5, <1>6, <1>7

(* Refresh does not bring a session back.                                  *)
LEMMA RefreshStep ==
  ASSUME NEW r \in Req, NEW o \in Outcome, IInv, RefreshSession(r, o)
  PROVE  IInv'
<1> USE ConstAssumption DEF IInv
<1>1. TypeOK'
  <2>1. req' \in [Req -> Requests]
    BY DEF TypeOK, Requests, Pc, RefreshSession, StoreRefresh, Goto
  <2>2. TypeOK!1' /\ TypeOK!2' /\ TypeOK!4'
    BY DEF TypeOK, Issued, Forever, RefreshSession, StoreRefresh, At, SetLife, Goto
  <2> QED BY <2>1, <2>2 DEF TypeOK
<1>2. Issued'
  BY DEF TypeOK, Issued, Working, RefreshSession, StoreRefresh, At, SetLife, Goto
<1>3. NoTTL'
  BY DEF TypeOK, NoTTL, Forever, RefreshSession, StoreRefresh, At, SetLife, Goto
<1>4. Valued'
  BY DEF Valued, RefreshSession, StoreRefresh, At, Goto
<1>5. GoneKept'
  BY DEF TypeOK, GoneKept, Requests, RefreshSession, StoreRefresh, At, SetLife, Goto
<1>6. LogoutKept'
  BY DEF TypeOK, LogoutKept, Requests, RefreshSession, StoreRefresh, SetLife, Goto
<1>7. OwnValue'
  BY DEF Valued, OwnValue, RefreshSession, StoreRefresh, Goto
<1> QED BY <1>1, <1>2, <1>3, <1>4, <1>5, <1>6, <1>7

(* Get reads the place of the request's own session.                       *)
LEMMA GetStep ==
  ASSUME NEW r \in Req, NEW o \in Outcome, IInv, Get(r, o)
  PROVE  IInv'
<1> USE ConstAssumption DEF IInv
<1>1. TypeOK'
  <2>1. req' \in [Req -> Requests]
    BY DEF TypeOK, Issued, Requests, Working, Get, At
  <2>2. TypeOK!1' /\ TypeOK!2' /\ TypeOK!4'
    BY DEF TypeOK, Get
  <2> QED BY <2>1, <2>2 DEF TypeOK
<1>2. Issued'
  BY DEF TypeOK, Issued, Working, Get
<1>3. NoTTL'
  BY DEF TypeOK, NoTTL, Get, At
<1>4. Valued'
  BY DEF TypeOK, Valued, Get, At
<1>5. GoneKept'
  BY DEF TypeOK, GoneKept, Get, At
<1>6. LogoutKept'
  BY DEF TypeOK, LogoutKept, Requests, Get
<1>7. OwnValue'
  BY DEF TypeOK, Valued, OwnValue, Requests, Get
<1> QED BY <1>1, <1>2, <1>3, <1>4, <1>5, <1>6, <1>7

(* Remove answers with success only after the session left the store.      *)
LEMMA RemoveStep ==
  ASSUME NEW r \in Req, NEW o \in Outcome, IInv, RemoveSession(r, o)
  PROVE  IInv'
<1> USE ConstAssumption DEF IInv
<1>1. TypeOK'
  <2>1. req' \in [Req -> Requests]
    BY DEF TypeOK, Requests, Pc, RemoveSession, Removed, Answer
  <2>2. TypeOK!1' /\ TypeOK!2' /\ TypeOK!4'
    <3>1. CASE Executed(o)
      BY <3>1 DEF TypeOK, Forever, RemoveSession, StoreRemove, Removed, Answer, SetLife
    <3>2. CASE ~Executed(o)
      BY <3>2 DEF TypeOK, RemoveSession, Removed, Answer
    <3> QED BY <3>1, <3>2
  <2> QED BY <2>1, <2>2 DEF TypeOK
<1>2. Issued'
  BY DEF TypeOK, Issued, NoTTL, Requests, Forever, Working, RemoveSession, At, Removed, Answer
<1>3. NoTTL'
  BY DEF TypeOK, NoTTL, Requests, RemoveSession, StoreRemove, At, Removed, Answer, SetLife
<1>4. Valued'
  BY DEF TypeOK, Valued, Requests, RemoveSession, At, Removed, Answer
<1>5. GoneKept'
  BY DEF TypeOK, GoneKept, Requests, RemoveSession, StoreRemove, At, Removed, Answer, SetLife
<1>6. LogoutKept'
  BY DEF TypeOK, LogoutKept, Requests, RemoveSession, StoreRemove, Removed, Answer, SetLife
<1>7. OwnValue'
  BY DEF TypeOK, Issued, Valued, OwnValue, Requests, RemoveSession, Removed, Answer
<1> QED BY <1>1, <1>2, <1>3, <1>4, <1>5, <1>6, <1>7

(* The cookie of a response names a session that has an expiration.        *)
LEMMA RespondStep ==
  ASSUME NEW r \in Req, IInv, Respond(r)
  PROVE  IInv'
<1> USE ConstAssumption DEF IInv
<1>1. TypeOK'
  <2>1. req' \in [Req -> Requests]
    BY DEF TypeOK, Requests, Pc, Respond, Idle
  <2>2. TypeOK!1' /\ TypeOK!2' /\ TypeOK!4'
    BY DEF TypeOK, Requests, Respond
  <2> QED BY <2>1, <2>2 DEF TypeOK
<1>2. Issued'
  BY DEF TypeOK, Issued, Respond, Idle
<1>3. NoTTL'
  BY DEF NoTTL, Respond, At, Idle
<1>4. Valued'
  BY DEF Valued, Respond, At, Idle
<1>5. GoneKept'
  BY DEF GoneKept, Respond, Idle
<1>6. LogoutKept'
  BY DEF LogoutKept, Respond, Idle
<1>7. OwnValue'
  BY DEF Valued, OwnValue, Respond, Idle
<1> QED BY <1>1, <1>2, <1>3, <1>4, <1>5, <1>6, <1>7

(* Time takes sessions away and gives none.                                *)
LEMMA TickStep ==
  ASSUME IInv, Tick
  PROVE  IInv'
<1> USE ConstAssumption DEF IInv
<1>1. TypeOK'
  BY DEF TypeOK, Forever, Tick
<1>2. Issued'
  BY DEF TypeOK, Issued, Forever, Tick
<1>3. NoTTL'
  BY DEF TypeOK, NoTTL, Tick
<1>4. Valued'
  BY DEF Valued, Tick
<1>5. GoneKept'
  BY DEF TypeOK, GoneKept, Requests, Tick
<1>6. LogoutKept'
  BY DEF TypeOK, LogoutKept, Requests, Tick
<1>7. OwnValue'
  BY DEF Valued, OwnValue, Tick
<1> QED BY <1>1, <1>2, <1>3, <1>4, <1>5, <1>6, <1>7

(* A step that changes nothing keeps the invariant. *)
LEMMA StutterStep == IInv /\ UNCHANGED vars => IInv'
BY DEF vars, IInv, TypeOK, Issued, NoTTL, Valued, GoneKept, LogoutKept, OwnValue

(* The invariant: a hash that has no TTL yet is known to no client and no  *)
(* handler that goes on with it, a session that left the store stays away, *)
(* and with the memory store every known session has its own value.        *)
THEOREM SessionInvariant == Spec => []IInv
<1>1. IInv /\ [Next]_vars => IInv'
  <2> SUFFICES ASSUME IInv, [Next]_vars PROVE IInv'
    OBVIOUS
  <2>1. ASSUME NEW r \in Req, NEW b \in Browser, NEW op \in {"login", "user", "logout"}, Arrive(r, b, op) PROVE IInv'
    BY <2>1, ArriveStep
  <2>2. ASSUME NEW r \in Req, NEW id \in Id, MemoryGenerate(r, id) PROVE IInv'
    BY <2>2, MemoryGenerateStep
  <2>3. ASSUME NEW r \in Req, NEW id \in Id, NEW o \in Outcome, RedisGenerate(r, id, o) PROVE IInv'
    BY <2>3, RedisGenerateStep
  <2>4. ASSUME NEW r \in Req, NEW o \in Outcome, RedisExpire(r, o) PROVE IInv'
    BY <2>4, RedisExpireStep
  <2>5. ASSUME NEW r \in Req, NEW o \in Outcome, Set(r, o) PROVE IInv'
    BY <2>5, SetStep
  <2>6. ASSUME NEW r \in Req, NEW o \in Outcome, GetSession(r, o) PROVE IInv'
    BY <2>6, GetSessionStep
  <2>7. ASSUME NEW r \in Req, NEW o \in Outcome, RefreshSession(r, o) PROVE IInv'
    BY <2>7, RefreshStep
  <2>8. ASSUME NEW r \in Req, NEW o \in Outcome, Get(r, o) PROVE IInv'
    BY <2>8, GetStep
  <2>9. ASSUME NEW r \in Req, NEW o \in Outcome, RemoveSession(r, o) PROVE IInv'
    BY <2>9, RemoveStep
  <2>10. ASSUME NEW r \in Req, Respond(r) PROVE IInv'
    BY <2>10, RespondStep
  <2>11. CASE Tick
    BY <2>11, TickStep
  <2>12. CASE UNCHANGED vars
    BY <2>12, StutterStep
  <2> QED BY <2>1, <2>2, <2>3, <2>4, <2>5, <2>6, <2>7, <2>8, <2>9, <2>10, <2>11, <2>12 DEF Next
<1> QED BY <1>1, InitIInv, PTL DEF Spec

(* No client holds, and no handler goes on with, a redis session that has  *)
(* no TTL, whichever of HSET and EXPIRE failed.                            *)
THEOREM EveryIssuedExpires == Spec => []IssuedExpires
<1>1. IInv => IssuedExpires
  BY ConstAssumption DEF IInv, TypeOK, Requests, NoTTL, IssuedExpires
<1> QED BY <1>1, SessionInvariant, PTL

(* A logout that was answered with success has ended the session, and no   *)
(* refresh of a concurrent request has brought it back.                    *)
THEOREM LogoutEnds == Spec => []LogoutMeansGone
<1>1. IInv => LogoutMeansGone
  BY DEF IInv, LogoutKept, LogoutMeansGone
<1> QED BY <1>1, SessionInvariant, PTL

(* GetSession lets no request through that came with a session gone before.*)
THEOREM GoneRejected == Spec => []GoneIsRejected
<1>1. IInv => GoneIsRejected
  BY DEF IInv, GoneKept, GoneIsRejected
<1> QED BY <1>1, SessionInvariant, PTL

(* With the memory store a handler reads its own session's value. *)
THEOREM ReadsOwnValue == Spec => []OwnValue
<1>1. IInv => OwnValue
  BY DEF IInv
<1> QED BY <1>1, SessionInvariant, PTL

(* Neither Refresh nor Remove nor a failed command brings back a session   *)
(* that was removed or has expired.                                        *)
THEOREM NeverBack == Spec => GoneForGood
<1>1. IInv /\ [Next]_vars => [\A id \in born : life[id] = 0 => life'[id] = 0]_vars
  <2> SUFFICES ASSUME IInv, Next, NEW id \in born, life[id] = 0 PROVE life'[id] = 0
    OBVIOUS
  <2> USE ConstAssumption DEF IInv
  <2>0. id \in Id
    BY DEF TypeOK
  <2>1. ASSUME NEW r \in Req, NEW i \in Id, NEW n \in Nat, SetLife(i, n), i \notin born \/ n = 0 \/ life[i] # 0
        PROVE life'[id] = 0
    BY <2>0, <2>1 DEF SetLife
  <2>2. ASSUME NEW r \in Req, NEW i \in Id, MemoryGenerate(r, i) PROVE life'[id] = 0
    BY <2>1, <2>2 DEF MemoryGenerate, Fresh
  <2>3. ASSUME NEW r \in Req, NEW i \in Id, NEW o \in Outcome, RedisGenerate(r, i, o) PROVE life'[id] = 0
    BY <2>1, <2>3 DEF RedisGenerate, Fresh, Forever
  <2>4. ASSUME NEW r \in Req, NEW o \in Outcome, RedisExpire(r, o) PROVE life'[id] = 0
    <3>1. req[r].sess \in Id /\ life[req[r].sess] # 0
      BY <2>4 DEF RedisExpire, At, TypeOK, Issued, Forever
    <3> QED BY <2>1, <2>4, <3>1 DEF RedisExpire
  <2>5. ASSUME NEW r \in Req, NEW o \in Outcome, RefreshSession(r, o) PROVE life'[id] = 0
    <3>1. req[r].sess \in Id
      BY <2>5 DEF RefreshSession, At, TypeOK, Issued
    <3> QED BY <2>1, <2>5, <3>1 DEF RefreshSession, StoreRefresh
  <2>6. ASSUME NEW r \in Req, NEW o \in Outcome, RemoveSession(r, o) PROVE life'[id] = 0
    <3>1. req[r].sess \in Id
      BY <2>6 DEF RemoveSession, At, TypeOK, Issued
    <3> QED BY <2>1, <2>6, <3>1 DEF RemoveSession, StoreRemove
  <2>7. CASE Tick
    BY <2>0, <2>7 DEF Tick
  <2>8. CASE UNCHANGED life
    BY <2>8
  <2> QED
    BY <2>2, <2>3, <2>4, <2>5, <2>6, <2>7, <2>8 DEF Next, Arrive, Set, GetSession, Get, Respond
<1> QED BY <1>1, SessionInvariant, PTL DEF Spec, GoneForGood
=============================================================================
