----------------------------- MODULE WebSession -----------------------------
(***************************************************************************)
(* Sessions of the web framework (src/web/session): the Manager, its two   *)
(* stores (memory over go-cache, redis) and the cookie Propagator, under a *)
(* server that logs in, checks and logs out as session/test does.  Several *)
(* requests run at the same time; every call on the store is a step.  A    *)
(* redis command may fail before or after it took effect.                  *)
(***************************************************************************)
EXTENDS Naturals

CONSTANTS
  Req,      \* requests the server handles at the same time
  Browser,  \* clients, each with a cookie jar
  Id,       \* the uuids InitSession draws
  NoId,
  Exp       \* the expiration of the store, in ticks

ASSUME ConstAssumption == NoId \notin Id /\ Browser # {} /\ Exp \in Nat \ {0}

VARIABLES
  kind,  \* the Store of the Manager: "memory" or "redis"
  life,  \* ticks left of each session; 0: not in the store, Forever: no TTL
  born,  \* the ids that were ever in the store
  vals,  \* the value under the key the handlers use, by place (see Place)
  jar,   \* the session cookie of each browser
  req    \* the requests

vars == <<kind, life, born, vals, jar, req>>

Forever == Exp + 1
Shared == "shared"
Pc == {"idle", "generate", "expire", "set", "get", "refresh", "read", "remove", "reply"}

Requests ==
  [pc : Pc, browser : Browser, op : {"none", "login", "user", "logout"}, sess : Id \cup {NoId},
   setCookie : {"none", "inject", "remove"}, res : {"none", "ok", "error", "unauthorized"},
   val : Id \cup {NoId}, gone : BOOLEAN]

Idle == [pc |-> "idle", browser |-> CHOOSE b \in Browser : TRUE, op |-> "none", sess |-> NoId,
         setCookie |-> "none", res |-> "none", val |-> NoId, gone |-> FALSE]

Init ==
  /\ kind \in {"memory", "redis"}
  /\ life = [id \in Id |-> 0] /\ born = {}
  /\ vals = [p \in Id \cup {Shared} |-> NoId]
  /\ jar = [b \in Browser |-> NoId]
  /\ req = [r \in Req |-> Idle]

(* The error of a store call, and whether it took effect all the same. *)
Outcome == IF kind = "memory" THEN {"ok"} ELSE {"ok", "lost", "failed"}
Executed(o) == o # "failed"

Goto(r, pc) == req' = [req EXCEPT ![r].pc = pc]
Answer(r, res) == req' = [req EXCEPT ![r].pc = "reply", ![r].res = res]
Inject(r, id) == req' = [req EXCEPT ![r].pc = "set", ![r].sess = id, ![r].setCookie = "inject"]
At(r, pc) == req[r].pc = pc
SetLife(id, n) == life' = [life EXCEPT ![id] = n] /\ born' = IF n > 0 THEN born \cup {id} ELSE born

(* A memory session has a map of its own.  The redis session passes the    *)
(* caller's key as the key of the hash, so all sessions share it.          *)
Place(id) == IF kind = "memory" THEN id ELSE Shared

(* The request arrives with the cookie of its browser. *)
Arrive(r, b, op) ==
  /\ At(r, "idle")
  /\ LET id == jar[b]
     IN req' = [req EXCEPT ![r] = [Idle EXCEPT
          !.pc = IF op = "login" THEN "generate" ELSE "get",
          !.browser = b, !.op = op, !.sess = IF op = "login" THEN NoId ELSE id,
          !.gone = id \in born /\ life[id] = 0]]
  /\ UNCHANGED <<kind, life, born, vals, jar>>

Fresh == {id \in Id : id \notin born /\ \A r \in Req : req[r].sess # id}

(* InitSession: Generate and, when it succeeds, Inject. *)
MemoryGenerate(r, id) ==
  /\ At(r, "generate") /\ kind = "memory" /\ id \in Fresh
  /\ SetLife(id, Exp)
  /\ Inject(r, id)
  /\ UNCHANGED <<kind, vals, jar>>

RedisGenerate(r, id, o) ==
  /\ At(r, "generate") /\ kind = "redis" /\ id \in Fresh
  /\ IF Executed(o) THEN SetLife(id, Forever) ELSE UNCHANGED <<life, born>>
  /\ IF o = "ok" THEN req' = [req EXCEPT ![r].pc = "expire", ![r].sess = id] ELSE Answer(r, "error")
  /\ UNCHANGED <<kind, vals, jar>>

RedisExpire_IgnoresError(r, o) ==
  /\ At(r, "expire")
  /\ IF Executed(o) THEN SetLife(req[r].sess, Exp) ELSE UNCHANGED <<life, born>>
  /\ Inject(r, req[r].sess)
  /\ UNCHANGED <<kind, vals, jar>>

RedisExpire(r, o) ==
  /\ At(r, "expire")
  /\ IF Executed(o) THEN SetLife(req[r].sess, Exp) ELSE UNCHANGED <<life, born>>
  /\ IF o = "ok" THEN Inject(r, req[r].sess) ELSE Answer(r, "error")
  /\ UNCHANGED <<kind, vals, jar>>

(* Session.Set.  The script's test is true for every reply of EXISTS, so   *)
(* it writes whether or not the session is there.                          *)
Set(r, o) ==
  /\ At(r, "set")
  /\ vals' = IF Executed(o) THEN [vals EXCEPT ![Place(req[r].sess)] = req[r].sess] ELSE vals
  /\ IF o = "ok" THEN Answer(r, "ok") ELSE Answer(r, "error")
  /\ UNCHANGED <<kind, life, born, jar>>

(* Store.Get of both stores; the redis one asks with EXISTS. *)
StoreGet(id) == life[id] > 0

GetSession_NoCheck(r, o) ==
  /\ At(r, "get")
  /\ IF req[r].sess # NoId /\ o = "ok" THEN Goto(r, "refresh") ELSE Answer(r, "unauthorized")
  /\ UNCHANGED <<kind, life, born, vals, jar>>

(* GetSession: Extract, Store.Get, and the session is cached in UserValues *)
(* (sess): the later calls of this request do not look it up again.        *)
GetSession(r, o) ==
  /\ At(r, "get")
  /\ IF req[r].sess # NoId /\ o = "ok" /\ StoreGet(req[r].sess)
     THEN Goto(r, "refresh") ELSE Answer(r, "unauthorized")
  /\ UNCHANGED <<kind, life, born, vals, jar>>

StoreRefresh_Upserts(id) == SetLife(id, Exp)

(* Only a session that is in the store. *)
StoreRefresh(id) == SetLife(id, IF life[id] = 0 THEN 0 ELSE Exp)

(* The caller ignores the error of RefreshSession. *)
RefreshSession(r, o) ==
  /\ At(r, "refresh")
  /\ IF Executed(o) THEN StoreRefresh(req[r].sess) ELSE UNCHANGED <<life, born>>
  /\ Goto(r, IF req[r].op = "user" THEN "read" ELSE "remove")
  /\ UNCHANGED <<kind, vals, jar>>

(* Session.Get *)
Get(r, o) ==
  /\ At(r, "read")
  /\ req' = [req EXCEPT ![r].pc = "reply", ![r].res = "ok",
                        ![r].val = IF o = "ok" THEN vals[Place(req[r].sess)] ELSE NoId]
  /\ UNCHANGED <<kind, life, born, vals, jar>>

Removed(r) == req' = [req EXCEPT ![r].pc = "reply", ![r].res = "ok", ![r].setCookie = "remove"]

(* Store.Remove: no error when there is nothing to remove. *)
StoreRemove(id) == SetLife(id, 0)

RemoveSession_IgnoresError(r, o) ==
  /\ At(r, "remove")
  /\ IF Executed(o) THEN StoreRemove(req[r].sess) ELSE UNCHANGED <<life, born>>
  /\ Removed(r)
  /\ UNCHANGED <<kind, vals, jar>>

(* Store.Remove, then Propagator.Remove unless it failed. *)
RemoveSession(r, o) ==
  /\ At(r, "remove")
  /\ IF Executed(o) THEN StoreRemove(req[r].sess) ELSE UNCHANGED <<life, born>>
  /\ IF o = "ok" THEN Removed(r) ELSE Answer(r, "error")
  /\ UNCHANGED <<kind, vals, jar>>

(* The response reaches the browser, which obeys its Set-Cookie header. *)
Respond(r) ==
  /\ At(r, "reply")
  /\ jar' = [jar EXCEPT ![req[r].browser] =
               IF req[r].setCookie = "inject" THEN req[r].sess
               ELSE IF req[r].setCookie = "remove" THEN NoId ELSE @]
  /\ req' = [req EXCEPT ![r] = Idle]
  /\ UNCHANGED <<kind, life, born, vals>>

(* Time passes: a session whose time is over leaves the store. *)
Tick ==
  /\ \E id \in Id : life[id] \in 1..Exp
  /\ life' = [id \in Id |-> IF life[id] \in 1..Exp THEN life[id] - 1 ELSE life[id]]
  /\ UNCHANGED <<kind, born, vals, jar, req>>

Next ==
  \/ \E r \in Req, b \in Browser, op \in {"login", "user", "logout"} : Arrive(r, b, op)
  \/ \E r \in Req, id \in Id : MemoryGenerate(r, id)
  \/ \E r \in Req, id \in Id, o \in Outcome : RedisGenerate(r, id, o)
  \/ \E r \in Req, o \in Outcome : RedisExpire(r, o)
  \/ \E r \in Req, o \in Outcome : Set(r, o)
  \/ \E r \in Req, o \in Outcome : GetSession(r, o)
  \/ \E r \in Req, o \in Outcome : RefreshSession(r, o)
  \/ \E r \in Req, o \in Outcome : Get(r, o)
  \/ \E r \in Req, o \in Outcome : RemoveSession(r, o)
  \/ \E r \in Req : Respond(r)
  \/ Tick

Spec == Init /\ [][Next]_vars

-----------------------------------------------------------------------------
(* Properties *)

(* The types of the state, and: what is in the store was put there. *)
TypeOK ==
  /\ kind \in {"memory", "redis"} /\ life \in [Id -> 0..Forever] /\ born \subseteq Id
  /\ vals \in [Id \cup {Shared} -> Id \cup {NoId}] /\ jar \in [Browser -> Id \cup {NoId}]
  /\ req \in [Req -> Requests]
  /\ \A id \in Id : life[id] > 0 => id \in born

(* A session that left the store, removed or expired, never comes back:    *)
(* not by the Refresh or Remove of a request that still has it cached in   *)
(* its UserValues, and not by a command that failed.                       *)
GoneForGood == [][\A id \in born : life[id] = 0 => life'[id] = 0]_vars

(* Every session a client or a handler was given has an expiration, though *)
(* HSET and EXPIRE are two commands and the second may fail or be lost.    *)
IssuedExpires ==
  /\ \A b \in Browser : jar[b] # NoId => life[jar[b]] # Forever
  /\ \A r \in Req : req[r].pc \notin {"idle", "generate", "expire"} /\ req[r].res # "error" /\ req[r].sess # NoId
       => life[req[r].sess] # Forever

(* A logout answered with success has ended the session, whatever the      *)
(* other requests that hold the same session did in the meantime.          *)
LogoutMeansGone ==
  \A r \in Req : req[r].op = "logout" /\ req[r].res = "ok" => life[req[r].sess] = 0

(* A request that arrives with the cookie of a session that is no longer   *)
(* in the store is never let through by the login check.                   *)
GoneIsRejected ==
  \A r \in Req : req[r].gone /\ req[r].op # "login" => req[r].pc \in {"get", "reply"} /\ req[r].res # "ok"

(* With the memory store a handler reads the value its own session was     *)
(* given at login, also when the session is removed or expires while the   *)
(* request runs.  (The redis store does not promise it: see Place.)        *)
OwnValue ==
  \A r \in Req : (kind = "memory" /\ req[r].op = "user" /\ req[r].res = "ok") => req[r].val = req[r].sess

Working == {"generate", "expire", "get", "refresh", "read", "remove"}

(* Who may know a session: a hash without a TTL is known to the request    *)
(* that is about to send EXPIRE, or to one that has given up; every other  *)
(* session somebody knows was in the store, and with the memory store has  *)
(* the value its login gave it.                                            *)
Issued ==
  /\ \A r \in Req :
       /\ req[r].pc \in Working => req[r].res = "none" /\ req[r].setCookie = "none"
       /\ req[r].pc \in {"idle", "generate"} => req[r].sess = NoId /\ req[r].res = "none"
       /\ req[r].pc = "idle" => ~req[r].gone
       /\ req[r].pc \in {"get", "refresh", "read", "remove"} => req[r].op # "login"
       /\ req[r].pc \in {"refresh", "read", "remove"} => req[r].sess # NoId
       /\ req[r].pc \in {"expire", "set"} => req[r].op = "login" /\ req[r].sess \in born
       /\ req[r].pc = "expire" =>
            life[req[r].sess] = Forever /\ \A q \in Req : q # r => req[q].sess # req[r].sess
       /\ req[r].sess # NoId => req[r].sess \in born
       /\ req[r].setCookie = "inject" => req[r].sess # NoId
  /\ \A b \in Browser : jar[b] # NoId => jar[b] \in born

NoTTL ==
  \A id \in Id : life[id] = Forever =>
    /\ \A b \in Browser : jar[b] # id
    /\ \A r \in Req : req[r].sess = id =>
         req[r].pc = "expire" \/ (req[r].pc = "reply" /\ req[r].res = "error" /\ req[r].setCookie = "none")

Valued ==
  kind = "memory" =>
    /\ \A b \in Browser : jar[b] # NoId => vals[jar[b]] = jar[b]
    /\ \A r \in Req : req[r].sess # NoId /\ req[r].pc # "set" => vals[req[r].sess] = req[r].sess

GoneKept ==
  \A r \in Req : req[r].gone /\ req[r].op # "login" =>
    /\ req[r].sess # NoId /\ life[req[r].sess] = 0
    /\ req[r].pc \in {"get", "reply"} /\ req[r].res # "ok"

LogoutKept ==
  \A r \in Req : req[r].op = "logout" /\ req[r].res = "ok" => req[r].sess # NoId /\ life[req[r].sess] = 0

(* The inductive invariant of the proofs. *)
IInv == TypeOK /\ Issued /\ NoTTL /\ Valued /\ GoneKept /\ LogoutKept /\ OwnValue
=============================================================================
