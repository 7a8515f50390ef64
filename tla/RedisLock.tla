------------------------------ MODULE RedisLock ------------------------------
(***************************************************************************)
(* The Redis distributed lock of cache/redis_lock.go with its Lua scripts  *)
(* and cache/retry.go, for one key.                                        *)
(*                                                                         *)
(* A handle is one call of Client.Lock or Client.TryLock: the uuid it      *)
(* draws is the handle itself, so two handles never share a value.  Every  *)
(* command is sent, executed by Redis and answered in separate steps; the  *)
(* caller may give up on it at any point, and a command it gave up on may  *)
(* still reach Redis later.  Time passes in ticks.                         *)
(***************************************************************************)
EXTENDS Integers, FiniteSets

CONSTANTS
  Handle,       \* calls of Lock / TryLock, identified by their uuid
  NoVal,        \* the key does not exist
  Exp,          \* the expiration argument, in ticks
  RetryMax,     \* the MaxCnt values callers give their retry strategy
  Uses,         \* applications: the operations each uses on each handle
  MaxLate,      \* bound: abandoned commands of one kind still on their way
  MaxLateKinds  \* bound: kinds of such commands, over all handles

AllOps == {"lock", "try", "refresh", "auto", "unlock"}

ASSUME ConstAssumption ==
  /\ NoVal \notin Handle
  /\ Exp \in Nat \ {0}
  /\ RetryMax \subseteq Nat
  /\ Uses \subseteq [Handle -> SUBSET AllOps]
  /\ MaxLate \in Nat /\ MaxLateKinds \in Nat

VARIABLES
  ops,            \* the operations the application uses, fixed
  val, ttl,       \* the key: its value, and the ticks until it expires
  call,           \* the command each goroutine of a handle is waiting for
  late,           \* commands given up on that Redis has not executed yet
  pc,             \* where the caller's goroutine is
  expiration,     \* Lock.expiration
  maxCnt,         \* the MaxCnt of the retry strategy passed to Lock
  auto,           \* where the AutoRefresh goroutine is
  timeoutChan, unlockCh,  \* the values in the two channels of capacity 1
  lease,          \* ticks for which the handle may act on the lock (history)
  zeroed          \* handles that sent a refresh with a zero expiration (history)

redis == <<val, ttl>>
autoVars == <<auto, timeoutChan>>
vars == <<ops, val, ttl, call, late, pc, expiration, maxCnt,
          auto, timeoutChan, unlockCh, lease, zeroed>>

Role == {"user", "auto"}
Op == {"lock", "setnx", "refresh", "unlock"}
Reply == {"yes", "no"}                   \* "OK" or 1; "" , 0 or nil
Outcome == Reply \cup {"err", "deadline"}  \* an error; context.DeadlineExceeded

NoCall == [st |-> "none", op |-> "lock", res |-> "no", left |-> 0]
Call == [st : {"none", "sent", "done"}, op : Op, res : Reply, left : 0..Exp]

\* The handle was returned to its caller, who has not begun to release it.
Using == {"held", "refresh"}
\* The caller has begun to release the lock, or is gone.
Gone == {"unlock", "unlockErr", "released", "notHeld", "crashed"}
PC == {"new", "lock", "backoff", "try", "failed"} \cup Using \cup Gone

Dec(n) == IF n > 0 THEN n - 1 ELSE 0
Longer(m, n) == IF m > n THEN m ELSE n

Init ==
  /\ ops \in Uses
  /\ val = NoVal /\ ttl = 0
  /\ call = [h \in Handle |-> [r \in Role |-> NoCall]]
  /\ late = [h \in Handle |-> [op \in Op |-> 0]]
  /\ pc = [h \in Handle |-> "new"]
  /\ expiration = [h \in Handle |-> 0]
  /\ maxCnt = [h \in Handle |-> 0]
  /\ auto = [h \in Handle |-> "off"]
  /\ timeoutChan = [h \in Handle |-> 0]
  /\ unlockCh = [h \in Handle |-> 0]
  /\ lease = [h \in Handle |-> 0] /\ zeroed = {}

(***************************************************************************)
(* The scripts, as Redis executes them: atomically.                        *)
(***************************************************************************)
\* Mutant: a plain SET, whoever holds the key.
LuaLock_Overwrites(h, res) == val' = h /\ ttl' = Exp /\ res = "yes"

\* Mutant: the key is set without EX and never expires.
LuaLock_NoExpiry(h, res) ==
  \/ val \in {NoVal, h} /\ val' = h /\ ttl' = 0 /\ res = "yes"
  \/ val \notin {NoVal, h} /\ UNCHANGED redis /\ res = "no"

\* lock.lua: set the free key, or extend it if this value already holds it.
LuaLock(h, res) ==
  \/ val \in {NoVal, h} /\ val' = h /\ ttl' = Exp /\ res = "yes"
  \/ val \notin {NoVal, h} /\ UNCHANGED redis /\ res = "no"

\* SET key value NX EX|PX: the client library picks a unit that fits.
SetNX(h, res) ==
  \/ val = NoVal /\ val' = h /\ ttl' = Exp /\ res = "yes"
  \/ val # NoVal /\ UNCHANGED redis /\ res = "no"

\* Mutant: EXPIRE without comparing the value.
LuaRefresh_AnyOwner(h, res) ==
  \/ val # NoVal /\ ttl' = expiration[h] /\ UNCHANGED val /\ res = "yes"
  \/ val = NoVal /\ UNCHANGED redis /\ res = "no"

\* refresh.lua.  EXPIRE with 0 seconds deletes the key and answers 1.
LuaRefresh(h, res) ==
  \/ /\ val = h /\ expiration[h] > 0
     /\ ttl' = expiration[h] /\ UNCHANGED val /\ res = "yes"
  \/ /\ val = h /\ expiration[h] = 0
     /\ val' = NoVal /\ ttl' = 0 /\ res = "yes"
  \/ val # h /\ UNCHANGED redis /\ res = "no"

\* Mutant: DEL without comparing the value.
LuaUnlock_AnyOwner(h, res) ==
  \/ val # NoVal /\ val' = NoVal /\ ttl' = 0 /\ res = "yes"
  \/ val = NoVal /\ UNCHANGED redis /\ res = "no"

\* unlock.lua: delete the key if it still holds this value.
LuaUnlock(h, res) ==
  \/ val = h /\ val' = NoVal /\ ttl' = 0 /\ res = "yes"
  \/ val # h /\ UNCHANGED redis /\ res = "no"

Script(h, op, res) ==
  \/ op = "lock" /\ LuaLock(h, res)
  \/ op = "setnx" /\ SetNX(h, res)
  \/ op = "refresh" /\ LuaRefresh(h, res)
  \/ op = "unlock" /\ LuaUnlock(h, res)

Execute(h, r) ==
  /\ call[h][r].st = "sent"
  /\ \E res \in Reply :
       /\ Script(h, call[h][r].op, res)
       /\ call' = [call EXCEPT ![h][r].st = "done", ![h][r].res = res]
  /\ UNCHANGED <<ops, late, pc, expiration, maxCnt, autoVars, unlockCh, lease, zeroed>>

ExecuteLate(h, op) ==
  /\ late[h][op] > 0
  /\ late' = [late EXCEPT ![h][op] = @ - 1]
  /\ \E res \in Reply : Script(h, op, res)
  /\ UNCHANGED <<ops, call, pc, expiration, maxCnt, autoVars, unlockCh, lease, zeroed>>

(***************************************************************************)
(* A command as its goroutine sees it.                                     *)
(***************************************************************************)
Send(h, r, op) ==
  call' = [call EXCEPT ![h][r] =
             [st |-> "sent", op |-> op, res |-> "no", left |-> Exp]]

\* Refresh sends the field expiration, whatever it is.
SendRefresh(h, r) ==
  /\ Send(h, r, "refresh")
  /\ zeroed' = IF expiration[h] = 0 THEN zeroed \cup {h} ELSE zeroed

RoomForLate(h, op) ==
  LET kinds == {k \in Handle \X Op : late[k[1]][k[2]] > 0}
  IN Cardinality(kinds \cup {<<h, op>>}) <= MaxLateKinds

\* The command returns o: the reply, or a failure the reply came too late for,
\* or a failure of a command that Redis refused (as it does a fraction of a
\* second), that never reached it, or that has not reached it yet.
Return(h, r, o) ==
  LET c == call[h][r] IN
  /\ c.st # "none"
  /\ call' = [call EXCEPT ![h][r] = NoCall]
  /\ \/ c.st = "done" /\ o = c.res /\ UNCHANGED late
     \/ o \in {"err", "deadline"} /\ UNCHANGED late
     \/ /\ o \in {"err", "deadline"} /\ c.st = "sent"
        /\ late[h][c.op] < MaxLate /\ RoomForLate(h, c.op)
        /\ late' = [late EXCEPT ![h][c.op] = @ + 1]

\* An acquisition or a refresh succeeded: it holds for Exp ticks from sending.
GrantLease(h, r) ==
  lease' = [lease EXCEPT ![h] = Longer(@, call[h][r].left)]

(***************************************************************************)
(* The caller's goroutine.                                                 *)
(***************************************************************************)
\* FixedIntervalRetryStrategy.Next compares its field cnt with MaxCnt; no
\* statement assigns cnt, so it keeps its zero value.
RetryCnt == 0
RetryNext(h) == RetryCnt < maxCnt[h]

CallLock(h) ==
  /\ "lock" \in ops[h] /\ pc[h] = "new"
  /\ \E m \in RetryMax : maxCnt' = [maxCnt EXCEPT ![h] = m]
  /\ pc' = [pc EXCEPT ![h] = "lock"]
  /\ Send(h, "user", "lock")
  /\ UNCHANGED <<ops, redis, late, expiration, autoVars, unlockCh, lease, zeroed>>

\* Lock returns; its retry strategy and its loop are gone.
LockEnds(h) == maxCnt' = [maxCnt EXCEPT ![h] = 0]

LockReturn(h) ==
  /\ pc[h] = "lock"
  /\ \E o \in Outcome :
       /\ Return(h, "user", o)
       /\ \/ /\ o = "yes" /\ LockEnds(h)
             /\ pc' = [pc EXCEPT ![h] = "held"]
             /\ expiration' = [expiration EXCEPT ![h] = Exp]
             /\ GrantLease(h, "user")
          \/ /\ \/ o = "err"
                \/ o \in {"no", "deadline"} /\ ~RetryNext(h)
             /\ pc' = [pc EXCEPT ![h] = "failed"] /\ LockEnds(h)
             /\ UNCHANGED <<expiration, lease>>
          \/ /\ o \in {"no", "deadline"} /\ RetryNext(h)
             /\ pc' = [pc EXCEPT ![h] = "backoff"]
             /\ UNCHANGED <<maxCnt, expiration, lease>>
  /\ UNCHANGED <<ops, redis, autoVars, unlockCh, zeroed>>

\* The retry timer fires and the loop of Lock sends the script again.
LockRetry(h) ==
  /\ pc[h] = "backoff"
  /\ pc' = [pc EXCEPT ![h] = "lock"]
  /\ Send(h, "user", "lock")
  /\ UNCHANGED <<ops, redis, late, expiration, maxCnt, autoVars, unlockCh, lease, zeroed>>

\* ctx.Done while Lock waits for its retry timer.
LockCancel(h) ==
  /\ pc[h] = "backoff"
  /\ pc' = [pc EXCEPT ![h] = "failed"] /\ LockEnds(h)
  /\ UNCHANGED <<ops, redis, call, late, expiration, autoVars, unlockCh, lease, zeroed>>

CallTryLock(h) ==
  /\ "try" \in ops[h] /\ pc[h] = "new"
  /\ pc' = [pc EXCEPT ![h] = "try"]
  /\ Send(h, "user", "setnx")
  /\ UNCHANGED <<ops, redis, late, expiration, maxCnt, autoVars, unlockCh, lease, zeroed>>

\* The Lock that TryLock returns leaves its field expiration at zero.
TryLockReturn(h) ==
  /\ pc[h] = "try"
  /\ \E o \in Outcome :
       /\ Return(h, "user", o)
       /\ \/ /\ o = "yes"
             /\ pc' = [pc EXCEPT ![h] = "held"]
             /\ GrantLease(h, "user")
          \/ /\ o # "yes"
             /\ pc' = [pc EXCEPT ![h] = "failed"]
             /\ UNCHANGED lease
  /\ UNCHANGED <<ops, redis, expiration, maxCnt, autoVars, unlockCh, zeroed>>

CallRefresh(h) ==
  /\ "refresh" \in ops[h] /\ pc[h] = "held"
  /\ pc' = [pc EXCEPT ![h] = "refresh"]
  /\ SendRefresh(h, "user")
  /\ UNCHANGED <<ops, redis, late, expiration, maxCnt, autoVars, unlockCh, lease>>

RefreshReturn(h) ==
  /\ pc[h] = "refresh"
  /\ pc' = [pc EXCEPT ![h] = "held"]
  /\ \E o \in Outcome :
       /\ Return(h, "user", o)
       /\ IF o = "yes" THEN GrantLease(h, "user") ELSE UNCHANGED lease
  /\ UNCHANGED <<ops, redis, expiration, maxCnt, autoVars, unlockCh, zeroed>>

\* A caller stops acting on the lock when it calls Unlock, and may call it
\* again when it fails.
CallUnlock(h) ==
  /\ "unlock" \in ops[h] /\ pc[h] \in {"held", "unlockErr"}
  /\ pc' = [pc EXCEPT ![h] = "unlock"]
  /\ lease' = [lease EXCEPT ![h] = 0]
  /\ Send(h, "user", "unlock")
  /\ UNCHANGED <<ops, redis, late, expiration, maxCnt, autoVars, unlockCh, zeroed>>

\* Mutant: Unlock does not tell AutoRefresh.
SignalUnlock_Missing(h) == UNCHANGED unlockCh

\* Whatever the outcome, the deferred send leaves a value in unlockCh.
SignalUnlock(h) == unlockCh' = [unlockCh EXCEPT ![h] = 1]

UnlockReturn(h) ==
  /\ pc[h] = "unlock"
  /\ \E o \in Outcome :
       /\ Return(h, "user", o)
       /\ pc' = [pc EXCEPT ![h] = IF o = "yes" THEN "released"
                                    ELSE IF o = "no" THEN "notHeld" ELSE "unlockErr"]
  /\ SignalUnlock(h)
  /\ UNCHANGED <<ops, redis, expiration, maxCnt, autoVars, lease, zeroed>>

(***************************************************************************)
(* The goroutine running AutoRefresh.                                      *)
(***************************************************************************)
AutoStart(h) ==
  /\ "auto" \in ops[h] /\ pc[h] = "held" /\ auto[h] = "off"
  /\ auto' = [auto EXCEPT ![h] = "select"]
  /\ UNCHANGED <<ops, redis, call, late, pc, expiration, maxCnt,
                 timeoutChan, unlockCh, lease, zeroed>>

\* The three cases of the select statement, which takes any that is ready.
AutoTicker(h) ==
  /\ auto[h] = "select"
  /\ auto' = [auto EXCEPT ![h] = "ticker"]
  /\ SendRefresh(h, "auto")
  /\ UNCHANGED <<ops, redis, late, pc, expiration, maxCnt,
                 timeoutChan, unlockCh, lease>>

AutoTimeout(h) ==
  /\ auto[h] = "select" /\ timeoutChan[h] = 1
  /\ timeoutChan' = [timeoutChan EXCEPT ![h] = 0]
  /\ auto' = [auto EXCEPT ![h] = "timeout"]
  /\ SendRefresh(h, "auto")
  /\ UNCHANGED <<ops, redis, late, pc, expiration, maxCnt,
                 unlockCh, lease>>

\* AutoRefresh returns; timeoutChan, its local variable, is gone.
AutoEnds(h) ==
  /\ auto' = [auto EXCEPT ![h] = "done"]
  /\ timeoutChan' = [timeoutChan EXCEPT ![h] = 0]

AutoUnlocked(h) ==
  /\ auto[h] = "select" /\ unlockCh[h] = 1
  /\ unlockCh' = [unlockCh EXCEPT ![h] = 0]
  /\ AutoEnds(h)
  /\ UNCHANGED <<ops, redis, call, late, pc, expiration, maxCnt, lease, zeroed>>

\* A timeout in the ticker case is put into timeoutChan, and the send blocks
\* when the channel is full; one in the timeoutChan case is put there too, and
\* then returned.
AutoDeadline(h) ==
  \/ /\ auto[h] = "ticker" /\ timeoutChan[h] = 0
     /\ timeoutChan' = [timeoutChan EXCEPT ![h] = 1]
     /\ auto' = [auto EXCEPT ![h] = "select"]
  \/ /\ auto[h] = "ticker" /\ timeoutChan[h] = 1
     /\ auto' = [auto EXCEPT ![h] = "blocked"]
     /\ UNCHANGED timeoutChan
  \/ auto[h] = "timeout" /\ AutoEnds(h)

AutoReturn(h) ==
  /\ auto[h] \in {"ticker", "timeout"}
  /\ \E o \in Outcome :
       /\ Return(h, "auto", o)
       /\ \/ /\ o = "yes"
             /\ auto' = [auto EXCEPT ![h] = "select"]
             /\ UNCHANGED timeoutChan
             /\ IF pc[h] \in Using THEN GrantLease(h, "auto") ELSE UNCHANGED lease
          \/ o \in {"no", "err"} /\ AutoEnds(h) /\ UNCHANGED lease
          \/ o = "deadline" /\ AutoDeadline(h) /\ UNCHANGED lease
  /\ UNCHANGED <<ops, redis, pc, expiration, maxCnt, unlockCh, zeroed>>

(***************************************************************************)
(* The environment: a process dies with its goroutines, and time passes.   *)
(***************************************************************************)
Crash(h) ==
  /\ pc[h] \notin {"new", "failed", "released", "notHeld", "crashed"}
  /\ pc' = [pc EXCEPT ![h] = "crashed"] /\ LockEnds(h)
  /\ auto' = [auto EXCEPT ![h] = "dead"]
  /\ timeoutChan' = [timeoutChan EXCEPT ![h] = 0]
  /\ unlockCh' = [unlockCh EXCEPT ![h] = 0]
  /\ lease' = [lease EXCEPT ![h] = 0]
  /\ UNCHANGED <<ops, redis, call, late, expiration, zeroed>>

Tick ==
  /\ ttl > 0 \/ \E h \in Handle, r \in Role : call[h][r].left > 0
  /\ ttl' = Dec(ttl)
  /\ val' = IF ttl = 1 THEN NoVal ELSE val
  /\ lease' = [h \in Handle |-> Dec(lease[h])]
  /\ call' = [h \in Handle |-> [r \in Role |-> [call[h][r] EXCEPT !.left = Dec(@)]]]
  /\ UNCHANGED <<ops, late, pc, expiration, maxCnt, autoVars, unlockCh, zeroed>>

User(h) ==
  \/ CallLock(h) \/ LockReturn(h) \/ LockRetry(h) \/ LockCancel(h)
  \/ CallTryLock(h) \/ TryLockReturn(h)
  \/ CallRefresh(h) \/ RefreshReturn(h)
  \/ CallUnlock(h) \/ UnlockReturn(h)

AutoRefresh(h) ==
  \/ AutoStart(h) \/ AutoTicker(h) \/ AutoTimeout(h) \/ AutoUnlocked(h)
  \/ AutoReturn(h)

Redis ==
  \E h \in Handle :
    \/ \E r \in Role : Execute(h, r)
    \/ \E op \in Op : ExecuteLate(h, op)

Next ==
  \/ \E h \in Handle : User(h) \/ AutoRefresh(h) \/ Crash(h)
  \/ Redis
  \/ Tick

Spec == Init /\ [][Next]_vars

\* The context of every command has a timeout, the ticker keeps firing, select
\* takes each ready case with the same probability, and time does not stop.
Fairness ==
  /\ WF_vars(Tick)
  /\ \A h \in Handle : /\ WF_vars(AutoTicker(h)) /\ WF_vars(AutoReturn(h))
                       /\ SF_vars(AutoUnlocked(h))

FairSpec == Spec /\ Fairness

(***************************************************************************)
(* Properties.                                                             *)
(***************************************************************************)
AutoState == {"off", "select", "ticker", "timeout", "blocked", "done", "dead"}

\* Every variable keeps the shape the Go declarations and Redis give it.
TypeOK ==
  /\ val \in Handle \cup {NoVal} /\ ttl \in 0..Exp
  /\ call \in [Handle -> [Role -> Call]]
  /\ late \in [Handle -> [Op -> 0..MaxLate]]
  /\ pc \in [Handle -> PC]
  /\ expiration \in [Handle -> {0, Exp}]
  /\ maxCnt \in [Handle -> Nat]
  /\ auto \in [Handle -> AutoState]
  /\ timeoutChan \in [Handle -> 0..1] /\ unlockCh \in [Handle -> 0..1]
  /\ lease \in [Handle -> 0..Exp] /\ zeroed \subseteq Handle

\* The handles that count on the lock: for the expiration from the moment the
\* command that last acquired or refreshed it was sent, until Unlock is called
\* or the process dies.
Counting == {h \in Handle : lease[h] > 0}

\* TryLock leaves the field expiration at zero, and refreshing such a handle
\* deletes the key.  The others are the handles whose lock is kept.
Kept == Counting \ zeroed

\* The promise of Lock and TryLock: two handles never both count on the lock.
\* It does not survive a Refresh or an AutoRefresh of a handle that TryLock
\* returned, which sends EXPIRE 0 and is told that it succeeded.
AtMostOne == \A g, h \in Counting : g = h

\* What is left of that promise: of the handles that never sent a refresh with a
\* zero expiration, two never both count on the lock.  Every handle of Lock is
\* one, however it is refreshed, and every handle of TryLock until it is
\* refreshed; what others do to their locks does not take it from them.
MutualExclusion == \A g, h \in Kept : g = h

\* A command that Redis answered "yes" to a caller still using its handle.
Granted(h, r) ==
  /\ call[h][r].st = "done" /\ call[h][r].res = "yes"
  /\ call[h][r].op # "unlock" /\ pc[h] \notin Gone

\* The handle, if it counts on the lock or is about to be told that it holds
\* it, is the value Redis stores, for at least as long as it counts on it.
Backed(h) ==
  h \notin zeroed =>
    /\ lease[h] > 0 => val = h /\ ttl >= lease[h] /\ pc[h] \notin Gone
    /\ \A r \in Role : Granted(h, r) /\ call[h][r].left > 0
                         => val = h /\ ttl >= call[h][r].left

\* Why MutualExclusion holds: the scripts compare the value before they extend
\* or delete the key, so every lease stays backed.
LeaseBacked == \A h \in Handle : Backed(h)

\* A refresh of the handle carries the expiration given to Lock, unless it is one
\* of those that sent zero.
Timed(h) == expiration[h] = Exp \/ h \in zeroed

\* What the goroutines of a handle wait for, and what may still reach Redis,
\* follows from where the caller is.
CallFits(h) ==
  /\ pc[h] = "lock" => call[h]["user"].op = "lock"
  /\ pc[h] = "try" => call[h]["user"].op = "setnx"
  /\ pc[h] = "refresh" => call[h]["user"].op = "refresh"
  /\ call[h]["auto"].st # "none" => call[h]["auto"].op = "refresh"
  /\ late[h]["unlock"] > 0 => pc[h] \in Gone
  /\ call[h]["user"].st # "none" /\ call[h]["user"].op = "unlock" => pc[h] \in Gone
  /\ late[h]["refresh"] > 0 => Timed(h)
  /\ \A r \in Role : call[h][r].st # "none" /\ call[h][r].op = "refresh" => Timed(h)

\* Every command in flight fits the state of the handle that sent it.
CallsMatch == \A h \in Handle : CallFits(h)

\* Every script that sets the key gives it an expiration.
KeyHasTTL == ttl = 0 <=> val = NoVal

\* The inductive invariant behind MutualExclusion: a key always expires, every
\* command in flight fits its sender, and every lease is backed by Redis.
IInv == TypeOK /\ KeyHasTTL /\ CallsMatch /\ LeaseBacked

\* "防止误删": a step that takes the key from its owner only ever removes it,
\* and does so because it expired, or because that owner itself called Unlock or
\* sent a refresh with a zero expiration; another instance's Unlock or Refresh,
\* in time or late, never does.
OwnerReleases ==
  [][ val # NoVal /\ val' # val
        => val' = NoVal /\ (ttl = 1 \/ pc[val] \in Gone \/ val \in zeroed) ]_vars

Abstract == INSTANCE LeaseLock WITH owners <- Kept

\* The lock implements the abstract lock: the right to act on it is given up
\* before anybody else receives it, and a handle that sends EXPIRE 0 gives it up.
ImplementsLeaseLock == Abstract!Spec

\* "如果实例崩溃，则没有人再续约，过一段时间后就会过期": a value whose process died,
\* or whose Lock or TryLock returned an error after Redis had set the key,
\* leaves Redis for good although nobody will ever unlock it.
OrphanExpires ==
  \A h \in Handle : pc[h] \in {"failed", "crashed"} ~> [](val # h)

\* Once Unlock has returned, AutoRefresh stops refreshing for good: no command
\* of its goroutine is under way any more.  The goroutine itself need not return:
\* the send of its second timeout in a row finds timeoutChan full and blocks for
\* ever, since nobody else receives from it.
AutoRefreshStops ==
  \A h \in Handle :
    (pc[h] \in {"released", "notHeld", "unlockErr"} /\ auto[h] # "off")
      ~> [](auto[h] \notin {"select", "ticker", "timeout"})
==============================================================================
