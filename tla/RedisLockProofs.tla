--------------------------- MODULE RedisLockProofs ---------------------------
(* Machine-checked proofs about RedisLock, for every value of its constants. *)
EXTENDS RedisLock, TLAPS

USE ConstAssumption DEF ConstAssumption

\* Sending a command keeps the table of calls well typed.
LEMMA SendType ==
  ASSUME NEW h \in Handle, NEW r \in Role, NEW op \in Op, TypeOK, Send(h, r, op)
  PROVE  call' \in [Handle -> [Role -> Call]]
  BY DEF Send, TypeOK, Call, Reply, Op

\* So does the return of one, which may leave the command on its way.
LEMMA ReturnType ==
  ASSUME NEW h \in Handle, NEW r \in Role, NEW o, TypeOK, Return(h, r, o)
  PROVE  /\ call' \in [Handle -> [Role -> Call]]
         /\ late' \in [Handle -> [Op -> 0..MaxLate]]
<1>1. call[h][r] \in Call /\ call[h][r].op \in Op
  BY DEF TypeOK, Call
<1>2. NoCall \in Call
  BY DEF NoCall, Call, Reply, Op
<1>3. call' \in [Handle -> [Role -> Call]]
  BY <1>2 DEF Return, TypeOK
<1>4. CASE UNCHANGED late
  BY <1>3, <1>4 DEF TypeOK
<1>5. CASE /\ late[h][call[h][r].op] < MaxLate
           /\ late' = [late EXCEPT ![h][call[h][r].op] = @ + 1]
  BY <1>1, <1>3, <1>5 DEF TypeOK
<1> QED
  BY <1>4, <1>5 DEF Return

\* A lease lasts at most the expiration.
LEMMA GrantType ==
  ASSUME NEW h \in Handle, NEW r \in Role, TypeOK, GrantLease(h, r)
  PROVE  lease' \in [Handle -> 0..Exp]
  BY DEF GrantLease, TypeOK, Call, Longer, Role

\* The scripts keep the key well typed.
LEMMA ScriptType ==
  ASSUME NEW h \in Handle, NEW op \in Op, NEW res \in Reply, TypeOK, Script(h, op, res)
  PROVE  val' \in Handle \cup {NoVal} /\ ttl' \in 0..Exp
  BY DEF Script, LuaLock, SetNX, LuaRefresh, LuaUnlock, TypeOK, redis

\* Every step keeps the type invariant.
LEMMA TypeStep == TypeOK /\ [Next]_vars => TypeOK'
<1> SUFFICES ASSUME TypeOK, [Next]_vars PROVE TypeOK'
  OBVIOUS
<1> USE DEF PC, Using, Gone, AutoState, Role, Op, LockEnds
<1>1. ASSUME NEW h \in Handle, User(h) PROVE TypeOK'
  <2>1. CASE CallLock(h)
    BY <2>1, SendType DEF CallLock, TypeOK, autoVars, redis
  <2>2. CASE LockReturn(h)
    <3>1. /\ call' \in [Handle -> [Role -> Call]]
          /\ late' \in [Handle -> [Op -> 0..MaxLate]]
      BY <2>2, ReturnType DEF LockReturn
    <3>2. lease' \in [Handle -> 0..Exp]
      BY <2>2, GrantType DEF LockReturn, TypeOK
    <3>3. maxCnt' \in [Handle -> Nat]
      <4>1. LockEnds(h) \/ UNCHANGED maxCnt
        <5> HIDE DEF LockEnds
        <5> QED BY <2>2 DEF LockReturn
      <4>2. CASE UNCHANGED maxCnt
        BY <4>2 DEF TypeOK
      <4>3. CASE LockEnds(h)
        BY <4>3 DEF TypeOK
      <4> QED
        BY <4>1, <4>2, <4>3
    <3>4. pc' \in [Handle -> PC] /\ expiration' \in [Handle -> {0, Exp}]
      BY <2>2 DEF LockReturn, TypeOK
    <3> QED
      BY <2>2, <3>1, <3>2, <3>3, <3>4 DEF LockReturn, TypeOK, autoVars, redis
  <2>3. CASE LockRetry(h)
    BY <2>3, SendType DEF LockRetry, TypeOK, autoVars, redis
  <2>4. CASE LockCancel(h)
    BY <2>4 DEF LockCancel, TypeOK, autoVars, redis
  <2>5. CASE CallTryLock(h)
    BY <2>5, SendType DEF CallTryLock, TypeOK, autoVars, redis
  <2>6. CASE TryLockReturn(h)
    BY <2>6, ReturnType, GrantType DEF TryLockReturn, TypeOK, autoVars, redis
  <2>7. CASE CallRefresh(h)
    BY <2>7, SendType DEF CallRefresh, SendRefresh, TypeOK, autoVars, redis
  <2>8. CASE RefreshReturn(h)
    BY <2>8, ReturnType, GrantType DEF RefreshReturn, TypeOK, autoVars, redis
  <2>9. CASE CallUnlock(h)
    <3>1. pc' \in [Handle -> PC] /\ lease' \in [Handle -> 0..Exp]
      BY <2>9, ConstAssumption DEF CallUnlock, TypeOK
    <3>2. call' \in [Handle -> [Role -> Call]]
      BY <2>9, SendType DEF CallUnlock
    <3> QED
      BY <2>9, <3>1, <3>2 DEF CallUnlock, TypeOK, autoVars, redis
  <2>10. CASE UnlockReturn(h)
    <3>1. pc' \in [Handle -> PC]
      BY <2>10 DEF UnlockReturn, TypeOK
    <3>2. /\ call' \in [Handle -> [Role -> Call]]
          /\ late' \in [Handle -> [Op -> 0..MaxLate]]
      BY <2>10, ReturnType DEF UnlockReturn
    <3>3. unlockCh' \in [Handle -> 0..1]
      BY <2>10 DEF UnlockReturn, SignalUnlock, TypeOK
    <3> QED
      BY <2>10, <3>1, <3>2, <3>3 DEF UnlockReturn, TypeOK, autoVars, redis
  <2> QED
    BY <1>1, <2>1, <2>2, <2>3, <2>4, <2>5, <2>6, <2>7, <2>8, <2>9, <2>10 DEF User
<1>2. ASSUME NEW h \in Handle, AutoRefresh(h) PROVE TypeOK'
  <2>1. CASE AutoStart(h)
    BY <2>1 DEF AutoStart, TypeOK, redis
  <2>2. CASE AutoTicker(h)
    BY <2>2, SendType DEF AutoTicker, SendRefresh, TypeOK, redis
  <2>3. CASE AutoTimeout(h)
    BY <2>3, SendType DEF AutoTimeout, SendRefresh, TypeOK, redis
  <2>4. CASE AutoUnlocked(h)
    BY <2>4 DEF AutoUnlocked, AutoEnds, AutoState, TypeOK, redis
  <2>5. CASE AutoReturn(h)
    <3>1. /\ call' \in [Handle -> [Role -> Call]]
          /\ late' \in [Handle -> [Op -> 0..MaxLate]]
      BY <2>5, ReturnType DEF AutoReturn
    <3>2. lease' \in [Handle -> 0..Exp]
      BY <2>5, GrantType DEF AutoReturn, TypeOK
    <3>3. /\ auto' \in [Handle -> AutoState]
          /\ timeoutChan' \in [Handle -> 0..1]
      <4>1. \/ auto' = [auto EXCEPT ![h] = "select"] /\ UNCHANGED timeoutChan
            \/ AutoEnds(h)
            \/ AutoDeadline(h)
        BY <2>5 DEF AutoReturn
      <4>2. CASE AutoEnds(h)
        BY <4>2 DEF AutoEnds, AutoState, TypeOK
      <4>3. CASE AutoDeadline(h)
        <5>1. CASE /\ auto' = [auto EXCEPT ![h] = "select"]
                   /\ timeoutChan' = [timeoutChan EXCEPT ![h] = 1]
          BY <5>1 DEF TypeOK
        <5>2. CASE auto' = [auto EXCEPT ![h] = "blocked"] /\ UNCHANGED timeoutChan
          BY <5>2 DEF TypeOK
        <5> QED
          BY <4>2, <4>3, <5>1, <5>2 DEF AutoDeadline
      <4> QED
        BY <4>1, <4>2, <4>3 DEF AutoState, TypeOK
    <3> QED
      BY <2>5, <3>1, <3>2, <3>3 DEF AutoReturn, TypeOK, redis
  <2> QED
    BY <1>2, <2>1, <2>2, <2>3, <2>4, <2>5 DEF AutoRefresh
<1>3. ASSUME NEW h \in Handle, Crash(h) PROVE TypeOK'
  BY <1>3 DEF Crash, LockEnds, PC, Gone, AutoState, TypeOK, redis
<1>4. ASSUME NEW h \in Handle, NEW r \in Role, Execute(h, r) PROVE TypeOK'
  <2>1. PICK res \in Reply :
          /\ Script(h, call[h][r].op, res)
          /\ call' = [call EXCEPT ![h][r].st = "done", ![h][r].res = res]
    BY <1>4 DEF Execute
  <2>2. call[h][r] \in Call /\ call[h][r].op \in Op
    BY DEF TypeOK, Call
  <2>3. val' \in Handle \cup {NoVal} /\ ttl' \in 0..Exp
    BY <2>1, <2>2, ScriptType
  <2>4. call' \in [Handle -> [Role -> Call]]
    BY <2>1, <2>2 DEF TypeOK, Call
  <2> QED
    BY <1>4, <2>3, <2>4 DEF Execute, TypeOK, autoVars
<1>5. ASSUME NEW h \in Handle, NEW op \in Op, ExecuteLate(h, op) PROVE TypeOK'
  <2>1. late' \in [Handle -> [Op -> 0..MaxLate]]
    BY <1>5 DEF ExecuteLate, TypeOK
  <2>2. val' \in Handle \cup {NoVal} /\ ttl' \in 0..Exp
    BY <1>5, ScriptType DEF ExecuteLate
  <2> QED
    BY <1>5, <2>1, <2>2 DEF ExecuteLate, TypeOK, autoVars
<1>6. CASE Tick
  <2>1. \A n \in 0..Exp : Dec(n) \in 0..Exp
    BY DEF Dec
  <2>2. call' \in [Handle -> [Role -> Call]]
    <3>1. \A h \in Handle, r \in Role : call[h][r] \in Call
      BY DEF TypeOK
    <3>2. \A c \in Call : [c EXCEPT !.left = Dec(@)] \in Call
      BY <2>1 DEF Call
    <3> HIDE DEF Call, Role
    <3> QED
      BY <1>6, <3>1, <3>2 DEF Tick
  <2>3. lease' \in [Handle -> 0..Exp] /\ ttl' \in 0..Exp
    BY <1>6, <2>1 DEF Tick, TypeOK
  <2> QED
    BY <1>6, <2>2, <2>3 DEF Tick, TypeOK, autoVars
<1>7. CASE UNCHANGED vars
  BY <1>7 DEF vars, TypeOK
<1> QED
  BY <1>1, <1>2, <1>3, <1>4, <1>5, <1>6, <1>7 DEF Next, Redis

\* Every variable of the lock keeps its type, whatever callers, Redis and the
\* network do.
THEOREM TypeCorrect == Spec => []TypeOK
<1>1. Init => TypeOK
  BY DEF Init, TypeOK, NoCall, Call, Reply, Op, PC, AutoState
<1> QED
  BY <1>1, TypeStep, PTL DEF Spec

------------------------------------------------------------------------------
(* What a script does to the key. *)

\* No script but h's own unlock and its refresh with a zero expiration takes the
\* key from its owner or shortens the time a caller counts on, and "yes" to h
\* means otherwise that the key is h's for Exp ticks.
LEMMA ScriptKeeps ==
  ASSUME NEW h \in Handle, NEW op \in Op, NEW res \in Reply,
         TypeOK, KeyHasTTL, Script(h, op, res), op = "refresh" => Timed(h)
  PROVE  /\ KeyHasTTL'
         /\ \A g \in Handle \ zeroed, n \in 1..Exp :
              val = g /\ ttl >= n /\ (op = "unlock" => g # h) => val' = g /\ ttl' >= n
         /\ res = "yes" /\ op # "unlock" /\ h \notin zeroed => val' = h /\ ttl' = Exp
<1>1. CASE op = "lock" /\ LuaLock(h, res)
  BY <1>1 DEF LuaLock, TypeOK, KeyHasTTL, redis
<1>2. CASE op = "setnx" /\ SetNX(h, res)
  BY <1>2 DEF SetNX, TypeOK, KeyHasTTL, redis
<1>3. CASE op = "refresh" /\ LuaRefresh(h, res)
  BY <1>3 DEF LuaRefresh, Timed, TypeOK, KeyHasTTL, redis
<1>4. CASE op = "unlock" /\ LuaUnlock(h, res)
  BY <1>4 DEF LuaUnlock, TypeOK, KeyHasTTL, redis
<1> QED
  BY <1>1, <1>2, <1>3, <1>4 DEF Script

(* What sending and returning do to the table of calls. *)

\* The variables of the handles other than h, and of h's other goroutine.
SameOthers(h) ==
  \A g \in Handle \ {h} :
    /\ pc'[g] = pc[g] /\ expiration'[g] = expiration[g] /\ auto'[g] = auto[g]
    /\ call'[g] = call[g] /\ late'[g] = late[g] /\ (g \in zeroed' <=> g \in zeroed)

\* Sending a command concerns one goroutine of one handle.
LEMMA SendEffect ==
  ASSUME NEW h \in Handle, NEW r \in Role, NEW op \in Op, TypeOK, Send(h, r, op)
  PROVE  /\ call'[h][r] = [st |-> "sent", op |-> op, res |-> "no", left |-> Exp]
         /\ \A g \in Handle \ {h} : call'[g] = call[g]
         /\ \A q \in Role \ {r} : call'[h][q] = call[h][q]
  BY DEF Send, TypeOK

\* A command that has just been sent has not been answered.
LEMMA SendNotDone ==
  ASSUME NEW h \in Handle, NEW r \in Role, NEW op \in Op, TypeOK, Send(h, r, op)
  PROVE  \A g \in Handle, q \in Role :
           call'[g][q] = call[g][q] \/ call'[g][q].st # "done"
  BY DEF Send, TypeOK

\* The return of a command concerns one goroutine too, and at most leaves that
\* command on its way; a success is an answer Redis gave.
LEMMA ReturnEffect ==
  ASSUME NEW h \in Handle, NEW r \in Role, NEW o, TypeOK, Return(h, r, o)
  PROVE  /\ call[h][r].st # "none" /\ call'[h][r] = NoCall
         /\ \A g \in Handle \ {h} : call'[g] = call[g] /\ late'[g] = late[g]
         /\ \A q \in Role \ {r} : call'[h][q] = call[h][q]
         /\ \A op \in Op :
              late'[h][op] > 0 => late[h][op] > 0 \/ op = call[h][r].op
         /\ o = "yes" => call[h][r].st = "done" /\ call[h][r].res = "yes"
<1>1. call[h][r] \in Call /\ call[h][r].op \in Op
  BY DEF TypeOK, Call
<1>2. /\ call'[h][r] = NoCall
      /\ \A g \in Handle \ {h} : call'[g] = call[g] /\ late'[g] = late[g]
      /\ \A q \in Role \ {r} : call'[h][q] = call[h][q]
  BY DEF Return, TypeOK
<1>3. \A op \in Op : late'[h][op] > 0 => late[h][op] > 0 \/ op = call[h][r].op
  BY <1>1 DEF Return, TypeOK
<1> QED
  BY <1>2, <1>3 DEF Return

\* A call that has returned is no longer answered.
LEMMA ReturnNotDone ==
  ASSUME NEW h \in Handle, NEW r \in Role, NEW o, TypeOK, Return(h, r, o)
  PROVE  \A g \in Handle, q \in Role :
           call'[g][q] = call[g][q] \/ call'[g][q].st # "done"
  BY DEF Return, NoCall, TypeOK

\* The same, for goroutine r of h and its other goroutine q.
SentBy(h, r, q, op) ==
  /\ call'[h][r] = [st |-> "sent", op |-> op, res |-> "no", left |-> Exp]
  /\ call'[h][q] = call[h][q]

ReturnedTo(h, r, q) ==
  /\ call[h][r].st # "none" /\ call'[h][r] = NoCall
  /\ call'[h][q] = call[h][q]
  /\ late'[h]["unlock"] > 0 => late[h]["unlock"] > 0 \/ call[h][r].op = "unlock"
  /\ late'[h]["refresh"] > 0 => late[h]["refresh"] > 0 \/ call[h][r].op = "refresh"

\* What the return of a command of either goroutine leaves of a handle.
LEMMA UserReturned ==
  ASSUME NEW h \in Handle, NEW o, TypeOK, Return(h, "user", o)
  PROVE  ReturnedTo(h, "user", "auto")
  BY ReturnEffect DEF ReturnedTo, Role, Op

(* The same for a command of the goroutine of AutoRefresh. *)
LEMMA AutoReturned ==
  ASSUME NEW h \in Handle, NEW o, TypeOK, Return(h, "auto", o)
  PROVE  ReturnedTo(h, "auto", "user")
  BY ReturnEffect DEF ReturnedTo, Role, Op

\* A command sent by the caller, or by AutoRefresh, fits its handle when the
\* caller is where it sends this command and a refresh has an expiration.
LEMMA UserSendFits ==
  ASSUME NEW h \in Handle, NEW op, CallFits(h), SentBy(h, "user", "auto", op),
         late'[h] = late[h], auto'[h] = auto[h], expiration'[h] = expiration[h],
         pc'[h] = "lock" => op = "lock", pc'[h] = "try" => op = "setnx",
         pc'[h] = "refresh" => op = "refresh",
         op = "unlock" \/ pc[h] \in Gone => pc'[h] \in Gone,
         zeroed \subseteq zeroed', op = "refresh" => Timed(h)'
  PROVE  CallFits(h)'
<1>1. call'[h]["user"].op = op /\ call'[h]["auto"] = call[h]["auto"]
  BY DEF SentBy
<1>2. ASSUME NEW r \in Role, call'[h][r].st # "none", call'[h][r].op = "refresh"
      PROVE  Timed(h)'
  <2>1. CASE r = "user"
    BY <1>1, <1>2, <2>1
  <2>2. CASE r = "auto"
    BY <1>1, <1>2, <2>2 DEF CallFits, Timed
  <2> QED
    BY <2>1, <2>2 DEF Role
<1>3. late'[h]["refresh"] > 0 => Timed(h)'
  BY DEF CallFits, Timed
<1> QED
  BY <1>1, <1>2, <1>3 DEF CallFits

(* The same for a command that AutoRefresh sends. *)
LEMMA AutoSendFits ==
  ASSUME NEW h \in Handle, CallFits(h), SentBy(h, "auto", "user", "refresh"),
         late'[h] = late[h], pc'[h] = pc[h], Timed(h)'
  PROVE  CallFits(h)'
<1>1. call'[h]["auto"].op = "refresh" /\ call'[h]["user"] = call[h]["user"]
  BY DEF SentBy
<1> QED
  BY <1>1 DEF CallFits

\* After the return of a caller's command the handle's commands still fit it.
LEMMA UserReturnFits ==
  ASSUME NEW h \in Handle, CallFits(h), ReturnedTo(h, "user", "auto"),
         pc'[h] \notin {"lock", "try", "refresh"},
         pc[h] \in Gone => pc'[h] \in Gone,
         auto'[h] = auto[h],
         Timed(h) => Timed(h)'
  PROVE  CallFits(h)'
<1>1. call'[h]["user"].st = "none" /\ call'[h]["auto"] = call[h]["auto"]
  BY DEF ReturnedTo, NoCall
<1>2. late'[h]["unlock"] > 0 => pc'[h] \in Gone
  BY DEF ReturnedTo, CallFits
<1>3. late'[h]["refresh"] > 0 => Timed(h)'
  BY DEF ReturnedTo, CallFits, Role
<1>4. ASSUME NEW r \in Role, call'[h][r].st # "none", call'[h][r].op = "refresh"
      PROVE  Timed(h)'
  <2>1. r = "auto"
    BY <1>1, <1>4 DEF Role
  <2> QED
    BY <1>1, <1>4, <2>1 DEF CallFits
<1> QED
  BY <1>1, <1>2, <1>3, <1>4 DEF CallFits

\* A step that concerns one handle keeps what holds of the others.
LEMMA OthersFit ==
  ASSUME NEW h \in Handle, CallsMatch, SameOthers(h), CallFits(h)'
  PROVE  CallsMatch'
<1> SUFFICES ASSUME NEW g \in Handle, g # h PROVE CallFits(g)'
  BY DEF CallsMatch
<1>1. CallFits(g)
  BY DEF CallsMatch
<1> QED
  BY <1>1 DEF SameOthers, CallFits, Timed

------------------------------------------------------------------------------
(* Commands in flight fit their sender. *)

\* Every step keeps the commands in flight fitting their senders.
LEMMA CallsStep ==
  ASSUME TypeOK, CallsMatch, [Next]_vars
  PROVE  CallsMatch'
<1> USE DEF Using, Gone, Role, Op
<1>1. ASSUME NEW h \in Handle, User(h) PROVE CallsMatch'
  <2>0. CallFits(h)
    BY DEF CallsMatch
  <2>1. CASE CallLock(h)
    <3>1. SameOthers(h)
      BY <2>1, SendEffect DEF SameOthers, CallLock, TypeOK, autoVars
    <3>2. SentBy(h, "user", "auto", "lock")
      BY <2>1, SendEffect DEF SentBy, CallLock
    <3>3. CallFits(h)'
      <4>1. /\ pc[h] \notin Gone /\ pc'[h] = "lock"
            /\ UNCHANGED <<late, auto, expiration, zeroed>>
        BY <2>1 DEF CallLock, TypeOK, autoVars
      <4> QED
        BY <2>0, <3>2, <4>1, UserSendFits
    <3> QED
      BY <3>1, <3>3, OthersFit
  <2>2. CASE LockReturn(h)
    <3>1. SameOthers(h)
      <4>1. PICK o \in Outcome : Return(h, "user", o)
        BY <2>2 DEF LockReturn
      <4>2. \A g \in Handle \ {h} : call'[g] = call[g] /\ late'[g] = late[g]
        BY <4>1, ReturnEffect
      <4>3. \A g \in Handle \ {h} : /\ pc'[g] = pc[g] /\ auto'[g] = auto[g]
                                    /\ expiration'[g] = expiration[g]
                                    /\ g \in zeroed' <=> g \in zeroed
        BY <2>2 DEF LockReturn, TypeOK, autoVars
      <4> QED
        BY <4>2, <4>3 DEF SameOthers
    <3>2. ReturnedTo(h, "user", "auto")
      BY <2>2, UserReturned DEF LockReturn
    <3>3. CallFits(h)'
      <4>1. /\ pc'[h] \notin {"lock", "try", "refresh"}
            /\ pc[h] \in Gone => pc'[h] \in Gone
            /\ auto'[h] = auto[h]
            /\ Timed(h) => Timed(h)'
        BY <2>2 DEF LockReturn, Timed, TypeOK, autoVars
      <4> QED
        BY <2>0, <3>2, <4>1, UserReturnFits
    <3> QED
      BY <3>1, <3>3, OthersFit
  <2>3. CASE LockRetry(h)
    <3>1. SameOthers(h)
      BY <2>3, SendEffect DEF SameOthers, LockRetry, TypeOK, autoVars
    <3>2. SentBy(h, "user", "auto", "lock")
      BY <2>3, SendEffect DEF SentBy, LockRetry
    <3>3. CallFits(h)'
      <4>1. /\ pc[h] \notin Gone /\ pc'[h] = "lock"
            /\ UNCHANGED <<late, auto, expiration, zeroed>>
        BY <2>3 DEF LockRetry, TypeOK, autoVars
      <4> QED
        BY <2>0, <3>2, <4>1, UserSendFits
    <3> QED
      BY <3>1, <3>3, OthersFit
  <2>4. CASE LockCancel(h)
    <3>1. SameOthers(h)
      BY <2>4 DEF SameOthers, LockCancel, TypeOK, autoVars
    <3>2. CallFits(h)'
      BY <2>0, <2>4 DEF CallFits, Timed, LockCancel, TypeOK, autoVars
    <3> QED
      BY <3>1, <3>2, OthersFit
  <2>5. CASE CallTryLock(h)
    <3>1. SameOthers(h)
      BY <2>5, SendEffect DEF SameOthers, CallTryLock, TypeOK, autoVars
    <3>2. SentBy(h, "user", "auto", "setnx")
      BY <2>5, SendEffect DEF SentBy, CallTryLock
    <3>3. CallFits(h)'
      <4>1. /\ pc[h] \notin Gone /\ pc'[h] = "try"
            /\ UNCHANGED <<late, auto, expiration, zeroed>>
        BY <2>5 DEF CallTryLock, TypeOK, autoVars
      <4> QED
        BY <2>0, <3>2, <4>1, UserSendFits
    <3> QED
      BY <3>1, <3>3, OthersFit
  <2>6. CASE TryLockReturn(h)
    <3>1. SameOthers(h)
      <4>1. PICK o \in Outcome : Return(h, "user", o)
        BY <2>6 DEF TryLockReturn
      <4>2. \A g \in Handle \ {h} : call'[g] = call[g] /\ late'[g] = late[g]
        BY <4>1, ReturnEffect
      <4>3. \A g \in Handle \ {h} : /\ pc'[g] = pc[g] /\ auto'[g] = auto[g]
                                    /\ expiration'[g] = expiration[g]
                                    /\ g \in zeroed' <=> g \in zeroed
        BY <2>6 DEF TryLockReturn, TypeOK, autoVars
      <4> QED
        BY <4>2, <4>3 DEF SameOthers
    <3>2. ReturnedTo(h, "user", "auto")
      BY <2>6, UserReturned DEF TryLockReturn
    <3>3. CallFits(h)'
      <4>1. /\ pc'[h] \notin {"lock", "try", "refresh"}
            /\ pc[h] \in Gone => pc'[h] \in Gone
            /\ auto'[h] = auto[h]
            /\ Timed(h) => Timed(h)'
        BY <2>6 DEF TryLockReturn, Timed, TypeOK, autoVars
      <4> QED
        BY <2>0, <3>2, <4>1, UserReturnFits
    <3> QED
      BY <3>1, <3>3, OthersFit
  <2>7. CASE CallRefresh(h)
    <3>1. SameOthers(h)
      BY <2>7, SendEffect DEF SameOthers, CallRefresh, SendRefresh, TypeOK, autoVars
    <3>2. SentBy(h, "user", "auto", "refresh")
      BY <2>7, SendEffect DEF SentBy, CallRefresh, SendRefresh
    <3>3. CallFits(h)'
      <4>1. /\ pc[h] \notin Gone /\ pc'[h] = "refresh"
            /\ UNCHANGED <<late, auto, expiration>>
        BY <2>7 DEF CallRefresh, TypeOK, autoVars
      <4>2. zeroed \subseteq zeroed' /\ Timed(h)'
        BY <2>7 DEF CallRefresh, SendRefresh, Timed, TypeOK
      <4> QED
        BY <2>0, <3>2, <4>1, <4>2, UserSendFits
    <3> QED
      BY <3>1, <3>3, OthersFit
  <2>8. CASE RefreshReturn(h)
    <3>1. SameOthers(h)
      <4>1. PICK o \in Outcome : Return(h, "user", o)
        BY <2>8 DEF RefreshReturn
      <4>2. \A g \in Handle \ {h} : call'[g] = call[g] /\ late'[g] = late[g]
        BY <4>1, ReturnEffect
      <4>3. \A g \in Handle \ {h} : /\ pc'[g] = pc[g] /\ auto'[g] = auto[g]
                                    /\ expiration'[g] = expiration[g]
                                    /\ g \in zeroed' <=> g \in zeroed
        BY <2>8 DEF RefreshReturn, TypeOK, autoVars
      <4> QED
        BY <4>2, <4>3 DEF SameOthers
    <3>2. ReturnedTo(h, "user", "auto")
      BY <2>8, UserReturned DEF RefreshReturn
    <3>3. CallFits(h)'
      <4>1. /\ pc'[h] \notin {"lock", "try", "refresh"}
            /\ pc[h] \in Gone => pc'[h] \in Gone
            /\ auto'[h] = auto[h]
            /\ Timed(h) => Timed(h)'
        BY <2>8 DEF RefreshReturn, Timed, TypeOK, autoVars
      <4> QED
        BY <2>0, <3>2, <4>1, UserReturnFits
    <3> QED
      BY <3>1, <3>3, OthersFit
  <2>9. CASE CallUnlock(h)
    <3>1. SameOthers(h)
      BY <2>9, SendEffect DEF SameOthers, CallUnlock, TypeOK, autoVars
    <3>2. SentBy(h, "user", "auto", "unlock")
      BY <2>9, SendEffect DEF SentBy, CallUnlock
    <3>3. CallFits(h)'
      <4>1. pc'[h] = "unlock" /\ UNCHANGED <<late, expiration, auto, zeroed>>
        BY <2>9 DEF CallUnlock, TypeOK, autoVars
      <4> QED
        BY <2>0, <3>2, <4>1, UserSendFits
    <3> QED
      BY <3>1, <3>3, OthersFit
  <2>10. CASE UnlockReturn(h)
    <3>1. SameOthers(h)
      <4>1. PICK o \in Outcome : Return(h, "user", o)
        BY <2>10 DEF UnlockReturn
      <4>2. \A g \in Handle \ {h} : call'[g] = call[g] /\ late'[g] = late[g]
        BY <4>1, ReturnEffect
      <4>3. \A g \in Handle \ {h} : /\ pc'[g] = pc[g] /\ auto'[g] = auto[g]
                                    /\ expiration'[g] = expiration[g]
                                    /\ g \in zeroed' <=> g \in zeroed
        BY <2>10 DEF UnlockReturn, TypeOK, autoVars
      <4> QED
        BY <4>2, <4>3 DEF SameOthers
    <3>2. ReturnedTo(h, "user", "auto")
      BY <2>10, UserReturned DEF UnlockReturn
    <3>3. CallFits(h)'
      <4>1. /\ pc'[h] \notin {"lock", "try", "refresh"}
            /\ pc[h] \in Gone => pc'[h] \in Gone
            /\ auto'[h] = auto[h]
            /\ Timed(h) => Timed(h)'
        BY <2>10 DEF UnlockReturn, Timed, TypeOK, autoVars
      <4> QED
        BY <2>0, <3>2, <4>1, UserReturnFits
    <3> QED
      BY <3>1, <3>3, OthersFit
  <2> QED
    BY <1>1, <2>1, <2>2, <2>3, <2>4, <2>5, <2>6, <2>7, <2>8, <2>9, <2>10 DEF User
<1>2. ASSUME NEW h \in Handle, AutoRefresh(h) PROVE CallsMatch'
  <2>0. CallFits(h)
    BY DEF CallsMatch
  <2>1. CASE AutoStart(h)
    <3>1. SameOthers(h)
      BY <2>1 DEF SameOthers, AutoStart, TypeOK
    <3>2. CallFits(h)'
      BY <2>0, <2>1 DEF CallFits, Timed, AutoStart, TypeOK
    <3> QED
      BY <3>1, <3>2, OthersFit
  <2>2. CASE AutoTicker(h)
    <3>1. SameOthers(h)
      BY <2>2, SendEffect DEF SameOthers, AutoTicker, SendRefresh, TypeOK
    <3>2. SentBy(h, "auto", "user", "refresh")
      BY <2>2, SendEffect DEF SentBy, AutoTicker, SendRefresh
    <3>3. CallFits(h)'
      <4>1. UNCHANGED <<late, pc>>
        BY <2>2 DEF AutoTicker
      <4>2. Timed(h)'
        BY <2>2 DEF AutoTicker, SendRefresh, Timed, TypeOK
      <4> QED
        BY <2>0, <3>2, <4>1, <4>2, AutoSendFits
    <3> QED
      BY <3>1, <3>3, OthersFit
  <2>3. CASE AutoTimeout(h)
    <3>1. SameOthers(h)
      BY <2>3, SendEffect DEF SameOthers, AutoTimeout, SendRefresh, TypeOK
    <3>2. SentBy(h, "auto", "user", "refresh")
      BY <2>3, SendEffect DEF SentBy, AutoTimeout, SendRefresh
    <3>3. CallFits(h)'
      <4>1. UNCHANGED <<late, pc>>
        BY <2>3 DEF AutoTimeout
      <4>2. Timed(h)'
        BY <2>3 DEF AutoTimeout, SendRefresh, Timed, TypeOK
      <4> QED
        BY <2>0, <3>2, <4>1, <4>2, AutoSendFits
    <3> QED
      BY <3>1, <3>3, OthersFit
  <2>4. CASE AutoUnlocked(h)
    <3>1. SameOthers(h)
      BY <2>4 DEF SameOthers, AutoUnlocked, AutoEnds, TypeOK
    <3>2. CallFits(h)'
      BY <2>0, <2>4 DEF CallFits, Timed, AutoUnlocked, AutoEnds, TypeOK
    <3> QED
      BY <3>1, <3>2, OthersFit
  <2>5. CASE AutoReturn(h)
    <3>1. SameOthers(h)
      <4>1. \A g \in Handle \ {h} : call'[g] = call[g] /\ late'[g] = late[g]
        BY <2>5, ReturnEffect DEF AutoReturn
      <4>2. \E a \in AutoState : auto' = [auto EXCEPT ![h] = a]
        BY <2>5 DEF AutoReturn, AutoDeadline, AutoEnds, AutoState
      <4> QED
        BY <2>5, <4>1, <4>2 DEF SameOthers, AutoReturn, TypeOK
    <3>2. ReturnedTo(h, "auto", "user")
      BY <2>5, AutoReturned DEF AutoReturn
    <3>3. CallFits(h)'
      <4>1. UNCHANGED <<pc, expiration, zeroed>>
        BY <2>5 DEF AutoReturn
      <4> QED
        <5>1. /\ call'[h]["auto"].st = "none" /\ call'[h]["user"] = call[h]["user"]
              /\ call[h]["auto"].op = "refresh"
          BY <2>0, <3>2 DEF ReturnedTo, CallFits, NoCall
        <5>2. late'[h]["unlock"] > 0 => late[h]["unlock"] > 0
          BY <3>2, <5>1 DEF ReturnedTo
        <5>3. late'[h]["refresh"] > 0 => Timed(h)
          BY <2>0, <3>2, <5>1 DEF ReturnedTo, CallFits
        <5> QED
          BY <2>0, <4>1, <5>1, <5>2, <5>3 DEF CallFits, Timed
    <3> QED
      BY <3>1, <3>3, OthersFit
  <2> QED
    BY <1>2, <2>1, <2>2, <2>3, <2>4, <2>5 DEF AutoRefresh
<1>3. ASSUME NEW h \in Handle, Crash(h) PROVE CallsMatch'
  <2>1. SameOthers(h)
    BY <1>3 DEF SameOthers, Crash, TypeOK
  <2>2. CallFits(h)'
    BY <1>3 DEF CallsMatch, CallFits, Timed, Crash, TypeOK
  <2> QED
    BY <2>1, <2>2, OthersFit
<1>4. ASSUME NEW h \in Handle, NEW r \in Role, Execute(h, r) PROVE CallsMatch'
  <2>1. SameOthers(h)
    BY <1>4 DEF SameOthers, Execute, TypeOK, autoVars
  <2>2. \A q \in Role :
          /\ call'[h][q].op = call[h][q].op
          /\ call'[h][q].st # "none" => call[h][q].st # "none"
    <3>1. PICK res \in Reply :
            call' = [call EXCEPT ![h][r].st = "done", ![h][r].res = res]
      BY <1>4 DEF Execute
    <3>2. \A q \in Role : call[h][q] \in Call
      BY DEF TypeOK
    <3> QED
      BY <1>4, <3>1, <3>2 DEF Execute, TypeOK, Call
  <2>3. CallFits(h)'
    <3>1. CallFits(h) /\ UNCHANGED <<late, pc, expiration, zeroed>>
      BY <1>4 DEF CallsMatch, Execute, autoVars
    <3> QED
      BY <2>2, <3>1 DEF CallFits, Timed
  <2> QED
    BY <2>1, <2>3, OthersFit
<1>5. ASSUME NEW h \in Handle, NEW op \in Op, ExecuteLate(h, op) PROVE CallsMatch'
  <2>1. SameOthers(h)
    BY <1>5 DEF SameOthers, ExecuteLate, TypeOK, autoVars
  <2>2. \A p \in Op : late'[h][p] > 0 => late[h][p] > 0
    BY <1>5 DEF ExecuteLate, TypeOK
  <2>3. CallFits(h)'
    BY <1>5, <2>2 DEF CallsMatch, CallFits, Timed, ExecuteLate, autoVars
  <2> QED
    BY <2>1, <2>3, OthersFit
<1>6. CASE Tick
  <2>1. \A h \in Handle, q \in Role :
          call'[h][q].op = call[h][q].op /\ call'[h][q].st = call[h][q].st
    <3>1. \A h \in Handle, q \in Role : call[h][q] \in Call
      BY DEF TypeOK
    <3>2. \A h \in Handle, q \in Role :
            call'[h][q] = [call[h][q] EXCEPT !.left = Dec(@)]
      BY <1>6 DEF Tick
    <3>3. \A c \in Call :
            /\ [c EXCEPT !.left = Dec(@)].op = c.op
            /\ [c EXCEPT !.left = Dec(@)].st = c.st
      BY DEF Call
    <3> HIDE DEF Role
    <3> QED
      BY <3>1, <3>2, <3>3
  <2>2. ASSUME NEW h \in Handle PROVE CallFits(h)'
    <3>1. CallFits(h) /\ UNCHANGED <<late, pc, expiration, zeroed>>
      BY <1>6 DEF CallsMatch, Tick, autoVars
    <3>2. \A q \in Role : call'[h][q].op = call[h][q].op /\ call'[h][q].st = call[h][q].st
      BY <2>1
    <3> QED
      BY <3>1, <3>2 DEF CallFits, Timed
  <2> QED
    BY <2>2 DEF CallsMatch
<1>7. CASE UNCHANGED vars
  BY <1>7 DEF vars, CallsMatch, CallFits, Timed
<1> QED
  BY <1>1, <1>2, <1>3, <1>4, <1>5, <1>6, <1>7 DEF Next, Redis

------------------------------------------------------------------------------
(* Every lease is backed by the key. *)

\* Steps that leave Redis alone: a handle gains a lease only when it is told
\* of a "yes" that Redis still stands by.
LEMMA ClientStep ==
  ASSUME TypeOK, TypeOK', LeaseBacked, UNCHANGED redis, zeroed \subseteq zeroed',
         \A g \in Handle : pc'[g] \notin Gone => pc[g] \notin Gone,
         \A g \in Handle, r \in Role :
           call'[g][r] = call[g][r] \/ call'[g][r].st # "done",
         \A g \in Handle :
           \/ lease'[g] = 0
           \/ lease'[g] = lease[g] /\ (pc[g] \notin Gone => pc'[g] \notin Gone)
           \/ /\ pc'[g] \notin Gone
              /\ \E r \in Role : /\ Granted(g, r)
                                 /\ lease'[g] = Longer(lease[g], call[g][r].left)
  PROVE  LeaseBacked'
<1> SUFFICES ASSUME NEW g \in Handle, g \notin zeroed' PROVE Backed(g)'
  BY DEF LeaseBacked, Backed
<1>1. Backed(g) /\ g \notin zeroed /\ UNCHANGED <<val, ttl>>
  BY DEF LeaseBacked, redis
<1>2. ASSUME NEW r \in Role, Granted(g, r)', call'[g][r].left > 0
      PROVE  val' = g /\ ttl' >= call'[g][r].left
  BY <1>1, <1>2 DEF Backed, Granted
<1>3. ASSUME lease'[g] > 0
      PROVE  val' = g /\ ttl' >= lease'[g] /\ pc'[g] \notin Gone
  <2>1. CASE lease'[g] = lease[g] /\ (pc[g] \notin Gone => pc'[g] \notin Gone)
    BY <1>1, <1>3, <2>1 DEF Backed
  <2>2. CASE /\ pc'[g] \notin Gone
             /\ \E r \in Role : /\ Granted(g, r)
                                /\ lease'[g] = Longer(lease[g], call[g][r].left)
    <3>1. PICK r \in Role :
            Granted(g, r) /\ lease'[g] = Longer(lease[g], call[g][r].left)
      BY <2>2
    <3> QED
      BY <1>1, <1>3, <2>2, <3>1 DEF Backed, Longer
  <2>3. CASE lease'[g] = 0
    BY <1>3, <2>3
  <2> QED
    BY <2>1, <2>2, <2>3
<1> QED
  BY <1>2, <1>3 DEF Backed

\* The only new answers are res to h's commands op.
AnswersOnly(h, op, res) ==
  \A g \in Handle, r \in Role :
    \/ call'[g][r] = call[g][r]
    \/ /\ g = h /\ call'[g][r].op = op /\ call'[g][r].res = res
       /\ call'[g][r].left \in 0..Exp

\* Steps in which Redis executes a script of h.
LEMMA RedisStep ==
  ASSUME NEW h \in Handle, NEW op \in Op, NEW res \in Reply,
         TypeOK, KeyHasTTL, LeaseBacked, Script(h, op, res),
         op = "refresh" => Timed(h),
         op = "unlock" => pc[h] \in Gone,
         UNCHANGED <<pc, lease, zeroed>>, AnswersOnly(h, op, res)
  PROVE  KeyHasTTL' /\ LeaseBacked'
<1>1. /\ KeyHasTTL'
      /\ \A g \in Handle \ zeroed, n \in 1..Exp :
           val = g /\ ttl >= n /\ (op = "unlock" => g # h) => val' = g /\ ttl' >= n
      /\ res = "yes" /\ op # "unlock" /\ h \notin zeroed => val' = h /\ ttl' = Exp
  BY ScriptKeeps
<1>2. ASSUME NEW g \in Handle, g \notin zeroed PROVE Backed(g)'
  <2>1. Backed(g)
    BY DEF LeaseBacked
  <2>2. ASSUME lease[g] > 0 PROVE val' = g /\ ttl' >= lease[g] /\ pc'[g] \notin Gone
    <3>1. lease[g] \in 1..Exp
      BY <2>2 DEF TypeOK
    <3>2. val = g /\ ttl >= lease[g] /\ pc[g] \notin Gone
      BY <1>2, <2>1, <2>2 DEF Backed
    <3>3. val' = g /\ ttl' >= lease[g]
      BY <1>1, <1>2, <3>1, <3>2
    <3> QED
      BY <3>2, <3>3
  <2>3. ASSUME NEW r \in Role, Granted(g, r)', call'[g][r].left > 0
        PROVE  val' = g /\ ttl' >= call'[g][r].left
    <3>1. CASE call'[g][r] = call[g][r]
      <4>1. call[g][r].left \in 1..Exp
        <5>1. call[g][r] \in Call
          BY DEF TypeOK
        <5> QED
          BY <2>3, <3>1, <5>1 DEF Call
      <4>2. Granted(g, r)
        BY <2>3, <3>1 DEF Granted
      <4>3. pc[g] \notin Gone /\ call[g][r].left > 0
        BY <4>1, <4>2 DEF Granted
      <4>4. val = g /\ ttl >= call[g][r].left
        BY <1>2, <2>1, <4>2, <4>3 DEF Backed
      <4> QED
        BY <1>1, <1>2, <3>1, <4>1, <4>3, <4>4
    <3>2. CASE /\ g = h /\ call'[g][r].op = op /\ call'[g][r].res = res
               /\ call'[g][r].left \in 0..Exp
      <4>1. res = "yes" /\ op # "unlock"
        BY <2>3, <3>2 DEF Granted
      <4>2. val' = h /\ ttl' = Exp
        BY <1>1, <1>2, <3>2, <4>1
      <4> QED
        BY <3>2, <4>2
    <3> QED
      BY <3>1, <3>2 DEF AnswersOnly
  <2> QED
    BY <2>2, <2>3 DEF Backed
<1> QED
  BY <1>1, <1>2 DEF LeaseBacked, Backed

\* No step of a client or its goroutines touches the key: only Redis does.
LEMMA ClientKeeps ==
  ASSUME NEW h \in Handle, User(h) \/ AutoRefresh(h) \/ Crash(h)
  PROVE  UNCHANGED redis
  BY DEF User, AutoRefresh, Crash, CallLock, LockReturn,
     LockRetry, LockCancel, CallTryLock, TryLockReturn, CallRefresh, RefreshReturn,
     CallUnlock, UnlockReturn, AutoStart, AutoTicker, AutoTimeout, AutoUnlocked,
     AutoReturn

\* Every step keeps the key expiring and the leases backed by it.
LEMMA BackedStep ==
  ASSUME TypeOK, TypeOK', KeyHasTTL, CallsMatch, LeaseBacked, [Next]_vars
  PROVE  KeyHasTTL' /\ LeaseBacked'
<1> USE DEF Using, Gone, Role, Op
<1>1. ASSUME NEW h \in Handle, User(h) PROVE LeaseBacked'
  <2>0. CallFits(h)
    BY DEF CallsMatch
  <2>1. CASE CallLock(h)
    <3>1. \A g \in Handle, r \in Role :
            call'[g][r] = call[g][r] \/ call'[g][r].st # "done"
      BY <2>1, SendNotDone DEF CallLock
    <3>2. /\ UNCHANGED redis /\ zeroed \subseteq zeroed'
          /\ \A g \in Handle : pc'[g] \notin Gone => pc[g] \notin Gone
          /\ \A g \in Handle : \/ lease'[g] = 0
                                \/ /\ lease'[g] = lease[g]
                                   /\ pc[g] \notin Gone => pc'[g] \notin Gone
      BY <2>1 DEF CallLock, TypeOK
    <3> QED
      BY <3>1, <3>2, ClientStep
  <2>2. CASE LockReturn(h)
    <3>1. \A g \in Handle, r \in Role :
            call'[g][r] = call[g][r] \/ call'[g][r].st # "done"
      BY <2>2, ReturnNotDone DEF LockReturn
    <3>2. /\ UNCHANGED redis /\ zeroed \subseteq zeroed'
          /\ \A g \in Handle : pc'[g] \in Gone <=> pc[g] \in Gone
      BY <2>2 DEF LockReturn, TypeOK
    <3>3. UNCHANGED lease \/ (GrantLease(h, "user") /\ Granted(h, "user"))
      BY <2>0, <2>2, ReturnEffect DEF LockReturn, CallFits, Granted
    <3>4. CASE GrantLease(h, "user") /\ Granted(h, "user")
      <4>1. pc'[h] \notin Gone
        BY <3>2, <3>4 DEF Granted
      <4>2. /\ lease'[h] = Longer(lease[h], call[h]["user"].left)
            /\ \A g \in Handle \ {h} : lease'[g] = lease[g]
        BY <3>4 DEF GrantLease, TypeOK
      <4> QED
        BY <3>1, <3>2, <3>4, <4>1, <4>2, ClientStep
    <3> QED
      BY <3>1, <3>2, <3>3, <3>4, ClientStep
  <2>3. CASE LockRetry(h)
    <3>1. \A g \in Handle, r \in Role :
            call'[g][r] = call[g][r] \/ call'[g][r].st # "done"
      BY <2>3, SendNotDone DEF LockRetry
    <3>2. /\ UNCHANGED redis /\ zeroed \subseteq zeroed'
          /\ \A g \in Handle : pc'[g] \notin Gone => pc[g] \notin Gone
          /\ \A g \in Handle : \/ lease'[g] = 0
                                \/ /\ lease'[g] = lease[g]
                                   /\ pc[g] \notin Gone => pc'[g] \notin Gone
      BY <2>3 DEF LockRetry, TypeOK
    <3> QED
      BY <3>1, <3>2, ClientStep
  <2>4. CASE LockCancel(h)
    <3>1. UNCHANGED call
      BY <2>4 DEF LockCancel
    <3>2. /\ UNCHANGED redis /\ zeroed \subseteq zeroed'
          /\ \A g \in Handle : pc'[g] \notin Gone => pc[g] \notin Gone
          /\ \A g \in Handle : \/ lease'[g] = 0
                                \/ /\ lease'[g] = lease[g]
                                   /\ pc[g] \notin Gone => pc'[g] \notin Gone
      BY <2>4 DEF LockCancel, TypeOK
    <3> QED
      BY <3>1, <3>2, ClientStep
  <2>5. CASE CallTryLock(h)
    <3>1. \A g \in Handle, r \in Role :
            call'[g][r] = call[g][r] \/ call'[g][r].st # "done"
      BY <2>5, SendNotDone DEF CallTryLock
    <3>2. /\ UNCHANGED redis /\ zeroed \subseteq zeroed'
          /\ \A g \in Handle : pc'[g] \notin Gone => pc[g] \notin Gone
          /\ \A g \in Handle : \/ lease'[g] = 0
                                \/ /\ lease'[g] = lease[g]
                                   /\ pc[g] \notin Gone => pc'[g] \notin Gone
      BY <2>5 DEF CallTryLock, TypeOK
    <3> QED
      BY <3>1, <3>2, ClientStep
  <2>6. CASE TryLockReturn(h)
    <3>1. \A g \in Handle, r \in Role :
            call'[g][r] = call[g][r] \/ call'[g][r].st # "done"
      BY <2>6, ReturnNotDone DEF TryLockReturn
    <3>2. /\ UNCHANGED redis /\ zeroed \subseteq zeroed'
          /\ \A g \in Handle : pc'[g] \in Gone <=> pc[g] \in Gone
      BY <2>6 DEF TryLockReturn, TypeOK
    <3>3. UNCHANGED lease \/ (GrantLease(h, "user") /\ Granted(h, "user"))
      BY <2>0, <2>6, ReturnEffect DEF TryLockReturn, CallFits, Granted
    <3>4. CASE GrantLease(h, "user") /\ Granted(h, "user")
      <4>1. pc'[h] \notin Gone
        BY <3>2, <3>4 DEF Granted
      <4>2. /\ lease'[h] = Longer(lease[h], call[h]["user"].left)
            /\ \A g \in Handle \ {h} : lease'[g] = lease[g]
        BY <3>4 DEF GrantLease, TypeOK
      <4> QED
        BY <3>1, <3>2, <3>4, <4>1, <4>2, ClientStep
    <3> QED
      BY <3>1, <3>2, <3>3, <3>4, ClientStep
  <2>7. CASE CallRefresh(h)
    <3>1. \A g \in Handle, r \in Role :
            call'[g][r] = call[g][r] \/ call'[g][r].st # "done"
      BY <2>7, SendNotDone DEF CallRefresh, SendRefresh
    <3>2. /\ UNCHANGED redis /\ zeroed \subseteq zeroed'
          /\ \A g \in Handle : pc'[g] \notin Gone => pc[g] \notin Gone
          /\ \A g \in Handle : \/ lease'[g] = 0
                                \/ /\ lease'[g] = lease[g]
                                   /\ pc[g] \notin Gone => pc'[g] \notin Gone
      BY <2>7 DEF CallRefresh, SendRefresh, TypeOK
    <3> QED
      BY <3>1, <3>2, ClientStep
  <2>8. CASE RefreshReturn(h)
    <3>1. \A g \in Handle, r \in Role :
            call'[g][r] = call[g][r] \/ call'[g][r].st # "done"
      BY <2>8, ReturnNotDone DEF RefreshReturn
    <3>2. /\ UNCHANGED redis /\ zeroed \subseteq zeroed'
          /\ \A g \in Handle : pc'[g] \in Gone <=> pc[g] \in Gone
      BY <2>8 DEF RefreshReturn, TypeOK
    <3>3. UNCHANGED lease \/ (GrantLease(h, "user") /\ Granted(h, "user"))
      BY <2>0, <2>8, ReturnEffect DEF RefreshReturn, CallFits, Granted
    <3>4. CASE GrantLease(h, "user") /\ Granted(h, "user")
      <4>1. pc'[h] \notin Gone
        BY <3>2, <3>4 DEF Granted
      <4>2. /\ lease'[h] = Longer(lease[h], call[h]["user"].left)
            /\ \A g \in Handle \ {h} : lease'[g] = lease[g]
        BY <3>4 DEF GrantLease, TypeOK
      <4> QED
        BY <3>1, <3>2, <3>4, <4>1, <4>2, ClientStep
    <3> QED
      BY <3>1, <3>2, <3>3, <3>4, ClientStep
  <2>9. CASE CallUnlock(h)
    <3>1. \A g \in Handle, r \in Role :
            call'[g][r] = call[g][r] \/ call'[g][r].st # "done"
      BY <2>9, SendNotDone DEF CallUnlock
    <3>2. /\ UNCHANGED redis /\ zeroed \subseteq zeroed'
          /\ \A g \in Handle : pc'[g] \notin Gone => pc[g] \notin Gone
          /\ \A g \in Handle : \/ lease'[g] = 0
                                \/ /\ lease'[g] = lease[g]
                                   /\ pc[g] \notin Gone => pc'[g] \notin Gone
      BY <2>9 DEF CallUnlock, TypeOK
    <3> QED
      BY <3>1, <3>2, ClientStep
  <2>10. CASE UnlockReturn(h)
    <3>1. \A g \in Handle, r \in Role :
            call'[g][r] = call[g][r] \/ call'[g][r].st # "done"
      BY <2>10, ReturnNotDone DEF UnlockReturn
    <3>2. /\ UNCHANGED redis /\ zeroed \subseteq zeroed'
          /\ \A g \in Handle : pc'[g] \notin Gone => pc[g] \notin Gone
          /\ \A g \in Handle : \/ lease'[g] = 0
                                \/ /\ lease'[g] = lease[g]
                                   /\ pc[g] \notin Gone => pc'[g] \notin Gone
      BY <2>10 DEF UnlockReturn, TypeOK
    <3> QED
      BY <3>1, <3>2, ClientStep
  <2> QED
    BY <1>1, <2>1, <2>2, <2>3, <2>4, <2>5, <2>6, <2>7, <2>8, <2>9, <2>10 DEF User
<1>2. ASSUME NEW h \in Handle, AutoRefresh(h) PROVE LeaseBacked'
  <2>0. CallFits(h)
    BY DEF CallsMatch
  <2>1. CASE AutoStart(h)
    <3>1. UNCHANGED call
      BY <2>1 DEF AutoStart
    <3>2. /\ UNCHANGED redis /\ zeroed \subseteq zeroed'
          /\ \A g \in Handle : pc'[g] \notin Gone => pc[g] \notin Gone
          /\ \A g \in Handle : \/ lease'[g] = 0
                                \/ /\ lease'[g] = lease[g]
                                   /\ pc[g] \notin Gone => pc'[g] \notin Gone
      BY <2>1 DEF AutoStart, TypeOK
    <3> QED
      BY <3>1, <3>2, ClientStep
  <2>2. CASE AutoTicker(h)
    <3>1. \A g \in Handle, r \in Role :
            call'[g][r] = call[g][r] \/ call'[g][r].st # "done"
      BY <2>2, SendNotDone DEF AutoTicker, SendRefresh
    <3>2. /\ UNCHANGED redis /\ zeroed \subseteq zeroed'
          /\ \A g \in Handle : pc'[g] \notin Gone => pc[g] \notin Gone
          /\ \A g \in Handle : \/ lease'[g] = 0
                                \/ /\ lease'[g] = lease[g]
                                   /\ pc[g] \notin Gone => pc'[g] \notin Gone
      BY <2>2 DEF AutoTicker, SendRefresh, TypeOK
    <3> QED
      BY <3>1, <3>2, ClientStep
  <2>3. CASE AutoTimeout(h)
    <3>1. \A g \in Handle, r \in Role :
            call'[g][r] = call[g][r] \/ call'[g][r].st # "done"
      BY <2>3, SendNotDone DEF AutoTimeout, SendRefresh
    <3>2. /\ UNCHANGED redis /\ zeroed \subseteq zeroed'
          /\ \A g \in Handle : pc'[g] \notin Gone => pc[g] \notin Gone
          /\ \A g \in Handle : \/ lease'[g] = 0
                                \/ /\ lease'[g] = lease[g]
                                   /\ pc[g] \notin Gone => pc'[g] \notin Gone
      BY <2>3 DEF AutoTimeout, SendRefresh, TypeOK
    <3> QED
      BY <3>1, <3>2, ClientStep
  <2>4. CASE AutoUnlocked(h)
    <3>1. UNCHANGED call
      BY <2>4 DEF AutoUnlocked
    <3>2. /\ UNCHANGED redis /\ zeroed \subseteq zeroed'
          /\ \A g \in Handle : pc'[g] \notin Gone => pc[g] \notin Gone
          /\ \A g \in Handle : \/ lease'[g] = 0
                                \/ /\ lease'[g] = lease[g]
                                   /\ pc[g] \notin Gone => pc'[g] \notin Gone
      BY <2>4 DEF AutoUnlocked, TypeOK
    <3> QED
      BY <3>1, <3>2, ClientStep
  <2>5. CASE AutoReturn(h)
    <3>1. \A g \in Handle, r \in Role :
            call'[g][r] = call[g][r] \/ call'[g][r].st # "done"
      BY <2>5, ReturnNotDone DEF AutoReturn
    <3>2. /\ UNCHANGED redis /\ zeroed \subseteq zeroed'
          /\ \A g \in Handle : pc'[g] \in Gone <=> pc[g] \in Gone
      BY <2>5 DEF AutoReturn, TypeOK
    <3>3. UNCHANGED lease \/ (GrantLease(h, "auto") /\ Granted(h, "auto"))
      BY <2>0, <2>5, ReturnEffect DEF AutoReturn, CallFits, Granted
    <3>4. CASE GrantLease(h, "auto") /\ Granted(h, "auto")
      <4>1. pc'[h] \notin Gone
        BY <3>2, <3>4 DEF Granted
      <4>2. /\ lease'[h] = Longer(lease[h], call[h]["auto"].left)
            /\ \A g \in Handle \ {h} : lease'[g] = lease[g]
        BY <3>4 DEF GrantLease, TypeOK
      <4> QED
        BY <3>1, <3>2, <3>4, <4>1, <4>2, ClientStep
    <3> QED
      BY <3>1, <3>2, <3>3, <3>4, ClientStep
  <2> QED
    BY <1>2, <2>1, <2>2, <2>3, <2>4, <2>5 DEF AutoRefresh
<1>3. ASSUME NEW h \in Handle, Crash(h) PROVE LeaseBacked'
  <2>1. /\ UNCHANGED <<redis, call, zeroed>>
        /\ \A g \in Handle : pc'[g] \notin Gone => pc[g] \notin Gone
        /\ \A g \in Handle : \/ lease'[g] = 0
                             \/ lease'[g] = lease[g] /\ pc'[g] = pc[g]
    BY <1>3 DEF Crash, TypeOK
  <2> QED
    BY <2>1, ClientStep
<1>4. ASSUME NEW h \in Handle, NEW r \in Role, Execute(h, r)
      PROVE  KeyHasTTL' /\ LeaseBacked'
  <2>1. PICK res \in Reply :
          /\ Script(h, call[h][r].op, res)
          /\ call' = [call EXCEPT ![h][r].st = "done", ![h][r].res = res]
    BY <1>4 DEF Execute
  <2>2. call[h][r] \in Call /\ call[h][r].op \in Op /\ CallFits(h)
    BY DEF TypeOK, Call, CallsMatch
  <2>3. /\ call[h][r].op = "refresh" => Timed(h)
        /\ call[h][r].op = "unlock" => pc[h] \in Gone
    BY <1>4, <2>2 DEF CallFits, Execute
  <2>4. AnswersOnly(h, call[h][r].op, res)
    <3>1. /\ call'[h][r].op = call[h][r].op /\ call'[h][r].res = res
          /\ call'[h][r].left = call[h][r].left
      BY <2>1, <2>2 DEF TypeOK, Call
    <3>2. \A g \in Handle, q \in Role :
            call'[g][q] = call[g][q] \/ (g = h /\ q = r)
      BY <2>1 DEF TypeOK
    <3>3. call[h][r].left \in 0..Exp
      BY <2>2 DEF Call
    <3> QED
      BY <3>1, <3>2, <3>3 DEF AnswersOnly
  <2>5. UNCHANGED <<pc, lease, zeroed>>
    BY <1>4 DEF Execute
  <2> QED
    BY <2>1, <2>2, <2>3, <2>4, <2>5, RedisStep
<1>5. ASSUME NEW h \in Handle, NEW op \in Op, ExecuteLate(h, op)
      PROVE  KeyHasTTL' /\ LeaseBacked'
  <2>1. /\ op = "refresh" => Timed(h)
        /\ op = "unlock" => pc[h] \in Gone
    BY <1>5 DEF CallsMatch, CallFits, ExecuteLate
  <2> QED
    BY <1>5, <2>1, RedisStep DEF ExecuteLate, AnswersOnly
<1>6. CASE Tick
  <2>1. KeyHasTTL'
    BY <1>6 DEF Tick, KeyHasTTL, Dec, TypeOK
  <2>2. ASSUME NEW g \in Handle, g \notin zeroed PROVE Backed(g)'
    <3>1. Backed(g) /\ UNCHANGED pc
      BY <1>6 DEF LeaseBacked, Tick
    <3>2. ASSUME lease'[g] > 0 PROVE val' = g /\ ttl' >= lease'[g] /\ pc'[g] \notin Gone
      BY <1>6, <2>2, <3>1, <3>2 DEF Tick, Backed, Dec, TypeOK
    <3>3. ASSUME NEW r \in Role, Granted(g, r)', call'[g][r].left > 0
          PROVE  val' = g /\ ttl' >= call'[g][r].left
      <4>1. call[g][r] \in Call /\ call'[g][r] = [call[g][r] EXCEPT !.left = Dec(@)]
        BY <1>6 DEF Tick, TypeOK
      <4>2. /\ call'[g][r].left = Dec(call[g][r].left) /\ call[g][r].left \in 0..Exp
            /\ call'[g][r].op = call[g][r].op /\ call'[g][r].st = call[g][r].st
            /\ call'[g][r].res = call[g][r].res
        BY <4>1 DEF Call
      <4> QED
        <5>1. Granted(g, r)
          BY <3>1, <3>3, <4>2 DEF Granted
        <5>2. /\ call[g][r].left > 1 /\ call[g][r].left > 0
              /\ call'[g][r].left = call[g][r].left - 1
          BY <3>3, <4>2 DEF Dec
        <5>3. val = g /\ ttl >= call[g][r].left
          BY <2>2, <3>1, <5>1, <5>2 DEF Backed
        <5>4. ttl \in Nat /\ ttl' = Dec(ttl) /\ val' = IF ttl = 1 THEN NoVal ELSE val
          BY <1>6 DEF Tick, TypeOK
        <5> QED
          BY <4>2, <5>2, <5>3, <5>4 DEF Dec
    <3> QED
      BY <3>2, <3>3 DEF Backed
  <2> QED
    BY <1>6, <2>1, <2>2 DEF LeaseBacked, Backed, Tick
<1>7. CASE UNCHANGED vars
  BY <1>7 DEF vars, KeyHasTTL, LeaseBacked, Backed, Granted
<1>8. ASSUME NEW h \in Handle, User(h) \/ AutoRefresh(h) \/ Crash(h)
      PROVE  KeyHasTTL'
  BY <1>8, ClientKeeps DEF KeyHasTTL, redis
<1> QED
  BY <1>1, <1>2, <1>3, <1>4, <1>5, <1>6, <1>7, <1>8 DEF Next, Redis

------------------------------------------------------------------------------
(* The inductive invariant and what follows from it. *)

\* IInv is inductive.
LEMMA InvStep ==
  ASSUME IInv, [Next]_vars
  PROVE  IInv'
  BY TypeStep, CallsStep, BackedStep DEF IInv

\* Every reachable state satisfies IInv, whatever operations the applications mix
\* on their handles: the lease of a handle that never sent a refresh with a zero
\* expiration is backed by the key.
THEOREM InvCorrect == Spec => []IInv
<1>1. Init => IInv
  <2> SUFFICES ASSUME Init PROVE IInv
    OBVIOUS
  <2>1. TypeOK
    BY DEF Init, TypeOK, NoCall, Call, Reply, Op, PC, AutoState
  <2>2. CallsMatch
    <3> SUFFICES ASSUME NEW h \in Handle PROVE CallFits(h)
      BY DEF CallsMatch
    <3>1. /\ pc[h] = "new" /\ auto[h] = "off"
          /\ \A r \in Role : call[h][r] = NoCall
          /\ \A op \in Op : late[h][op] = 0
      BY DEF Init
    <3> QED
      <4>1. \A r \in Role : call[h][r].st = "none"
        BY <3>1 DEF NoCall
      <4>2. late[h]["unlock"] = 0 /\ late[h]["refresh"] = 0
        BY <3>1 DEF Op
      <4> QED
        BY <3>1, <4>1, <4>2 DEF CallFits, Role
  <2>3. KeyHasTTL /\ LeaseBacked
    BY DEF Init, KeyHasTTL, LeaseBacked, Backed, Granted, NoCall, Role
  <2> QED
    BY <2>1, <2>2, <2>3 DEF IInv
<1>2. IInv /\ [Next]_vars => IInv'
  BY InvStep
<1> QED
  BY <1>1, <1>2, PTL DEF Spec

\* Leases backed by the one value of the key exclude each other.
LEMMA BackedExcludes == IInv => MutualExclusion
  BY DEF IInv, TypeOK, LeaseBacked, Backed, MutualExclusion, Kept, Counting

\* What Lock, TryLock, Refresh, AutoRefresh and Unlock keep of their promise:
\* whatever the number of clients, the expiration, the operations they mix, the
\* order of replies and the crashes, two handles never both count on the lock
\* unless one of them sent a refresh with the zero expiration TryLock leaves.
THEOREM LockExcludes == Spec => []MutualExclusion
  BY InvCorrect, BackedExcludes, PTL

\* A script only takes the key from its owner when the owner sent it, from Unlock
\* or as a refresh with a zero expiration.
LEMMA ScriptReleases ==
  ASSUME NEW h \in Handle, NEW op \in Op, NEW res \in Reply,
         TypeOK, Script(h, op, res), val # NoVal, val' # val,
         op = "refresh" => Timed(h)
  PROVE  (op = "unlock" \/ h \in zeroed) /\ h = val /\ val' = NoVal
  BY DEF Script, LuaLock, SetNX, LuaRefresh, LuaUnlock, Timed, redis

\* Only expiry, the owner's own Unlock or its own refresh with a zero expiration
\* ever takes the key from its owner: no other client's script and no delayed
\* command of another client removes or replaces it.
THEOREM OwnerAlone == Spec => OwnerReleases
<1> DEFINE Taken == val # NoVal /\ val' # val
                      => val' = NoVal /\ (ttl = 1 \/ pc[val] \in Gone \/ val \in zeroed)
<1>1. ASSUME IInv, [Next]_vars PROVE Taken
  <2> SUFFICES ASSUME val # NoVal, val' # val
               PROVE  val' = NoVal /\ (ttl = 1 \/ pc[val] \in Gone \/ val \in zeroed)
    OBVIOUS
  <2>0. TypeOK /\ CallsMatch
    BY <1>1 DEF IInv
  <2>1. ASSUME NEW h \in Handle, NEW r \in Role, Execute(h, r)
        PROVE  val' = NoVal /\ (pc[val] \in Gone \/ val \in zeroed)
    <3>1. call[h][r] \in Call /\ call[h][r].op \in Op /\ CallFits(h)
      BY <2>0 DEF TypeOK, Call, CallsMatch
    <3>2. PICK res \in Reply : Script(h, call[h][r].op, res)
      BY <2>1 DEF Execute
    <3>3. /\ call[h][r].op = "refresh" => Timed(h)
          /\ call[h][r].op = "unlock" => pc[h] \in Gone
      BY <2>1, <3>1 DEF CallFits, Execute, Role
    <3>4. /\ call[h][r].op = "unlock" \/ h \in zeroed
          /\ h = val /\ val' = NoVal
      BY <2>0, <3>1, <3>2, <3>3, ScriptReleases
    <3> QED
      BY <3>3, <3>4
  <2>2. ASSUME NEW h \in Handle, NEW op \in Op, ExecuteLate(h, op)
        PROVE  val' = NoVal /\ (pc[val] \in Gone \/ val \in zeroed)
    <3>1. /\ op = "refresh" => Timed(h)
          /\ op = "unlock" => pc[h] \in Gone
      BY <2>0, <2>2 DEF CallsMatch, CallFits, ExecuteLate
    <3>2. PICK res \in Reply : Script(h, op, res)
      BY <2>2 DEF ExecuteLate
    <3>3. (op = "unlock" \/ h \in zeroed) /\ h = val /\ val' = NoVal
      BY <2>0, <3>1, <3>2, ScriptReleases
    <3> QED
      BY <3>1, <3>3
  <2>3. CASE Tick
    BY <2>3 DEF Tick
  <2>4. ASSUME NEW h \in Handle, User(h) \/ AutoRefresh(h) \/ Crash(h) PROVE FALSE
    BY <2>4, ClientKeeps DEF redis
  <2> QED
    BY <1>1, <2>1, <2>2, <2>3, <2>4 DEF Next, Redis, vars
<1>2. IInv /\ [Next]_vars => [Taken]_vars
  BY <1>1
<1> QED
  BY <1>2, InvCorrect, PTL DEF Spec, OwnerReleases

\* A handle gains its lease only in a step that leaves the key alone.
LEMMA GainKeepsKey ==
  ASSUME TypeOK, [Next]_vars
  PROVE  val' = val \/ Kept' \subseteq Kept
<1> USE DEF Kept, Counting
<1>1. CASE Tick
  BY <1>1 DEF Tick, Dec, TypeOK
<1>2. CASE Redis
  BY <1>2 DEF Redis, Execute, ExecuteLate
<1>3. ASSUME NEW h \in Handle, User(h) \/ AutoRefresh(h) \/ Crash(h) PROVE val' = val
  BY <1>3, ClientKeeps DEF redis
<1> QED
  BY <1>1, <1>2, <1>3 DEF Next, vars

\* The Redis lock implements the abstract lock: every step grants the lock to a
\* handle while nobody else holds it, withdraws it, or changes neither; a handle
\* that sends a refresh with a zero expiration thereby gives it up.
THEOREM Refinement == Spec => ImplementsLeaseLock
<1>1. Init => Abstract!Init
  BY DEF Init, Abstract!Init, Kept, Counting
<1>2. ASSUME IInv, IInv', [Next]_vars PROVE [Abstract!Next]_Kept
  <2>1. MutualExclusion /\ MutualExclusion'
    BY <1>2, BackedExcludes, PTL
  <2>2. Kept \subseteq Handle /\ Kept' \subseteq Handle
    BY DEF Kept, Counting
  <2>3. ASSUME NEW g \in Kept, NEW h \in Kept' PROVE g = h
    <3>1. val = g /\ val' = h
      BY <1>2, <2>2 DEF IInv, LeaseBacked, Backed, Kept, Counting
    <3>2. val' = val \/ Kept' \subseteq Kept
      BY <1>2, GainKeepsKey DEF IInv
    <3> QED
      BY <2>1, <3>1, <3>2 DEF MutualExclusion
  <2>4. CASE Kept # {}
    <3>1. PICK g \in Kept : Kept = {g}
      BY <2>1, <2>4 DEF MutualExclusion
    <3>2. Kept' = {g} \/ Kept' = {}
      BY <2>3
    <3> QED
      BY <2>2, <3>1, <3>2 DEF Abstract!Next, Abstract!Drop
  <2>5. CASE Kept = {} /\ Kept' # {}
    <3>1. PICK h \in Kept' : Kept' = {h}
      BY <2>1, <2>5 DEF MutualExclusion
    <3> QED
      BY <2>2, <2>5, <3>1 DEF Abstract!Next, Abstract!Grant
  <2>6. CASE Kept = {} /\ Kept' = {}
    BY <2>6
  <2> QED
    BY <2>4, <2>5, <2>6
<1> QED
  BY <1>1, <1>2, InvCorrect, PTL DEF Spec, ImplementsLeaseLock, Abstract!Spec
==============================================================================
