------------------------------- MODULE MapCache -------------------------------
(***************************************************************************)
(* The in-memory cache of cache/local_cache.go (BuildInMapCache with its   *)
(* sweeping goroutine), wrapped by the counting cache of                   *)
(* cache/max_cnt_cache.go.                                                 *)
(*                                                                         *)
(* Goroutines call Set, Get, Delete and Close in any order.  A section     *)
(* under the read lock is one step; one under the write lock is entered in *)
(* a step of its own, so that goroutines queue for it.  A Delete that      *)
(* misses unlocks a mutex it does not hold: when nobody does, package sync *)
(* ends the program; otherwise another goroutine is let into the section   *)
(* of the one that held it, and the cache goes on serving calls.           *)
(***************************************************************************)
EXTENDS Integers, FiniteSets

CONSTANTS
  G,          \* goroutines calling the cache
  Key, Val,
  MaxCnt,     \* MaxCntCache.maxCnt
  Expiration, \* the expiration arguments of Set; 0 is "never"
  ScanLimit,  \* the 1000 of the sweeper
  Uses,       \* applications: the methods each of them calls
  None,       \* no item, no key
  MaxTime,    \* bound: the clock stops here
  MaxRaw,     \* bound: keys added without being counted
  MaxAfter    \* bound: calls that begin after a stray Unlock

Sweeper == "sweeper"
Free == "free"

ASSUME ConstAssumption ==
  /\ IsFiniteSet(Key)
  /\ MaxCnt \in Nat /\ ScanLimit \in Nat /\ MaxTime \in Nat \ {0} /\ MaxRaw \in Nat
  /\ MaxAfter \in Nat
  /\ Expiration \subseteq Nat
  /\ Uses \subseteq SUBSET {"set", "rawSet", "get", "delete", "close"}
  /\ Sweeper \notin G /\ Free \notin G

Item == [val : Val, dl : Nat]            \* dl = 0: no deadline
ASSUME NoneAssumption == None \notin Item \cup Key

VARIABLES
  ops,        \* the methods this application calls
  data,       \* the map
  cnt,        \* MaxCntCache.cnt
  mutex,      \* who holds the write lock
  pc,         \* where each goroutine is
  key,        \* the key it asks for
  now,        \* the clock
  tick,       \* the time in ticker.C; 0 when the channel is empty
  sweep,      \* where the sweeper is
  at,         \* the time the sweeper received
  stray,      \* a mutex was unlocked by a goroutine not holding it (history)
  fatal,      \* the runtime ended the program
  raw,        \* keys added without being counted (history)
  after       \* calls that began after a stray Unlock (history)

sweeper == <<tick, sweep, at>>
calls == <<ops, pc, key, after>>
vars == <<ops, data, cnt, mutex, pc, key, now, tick, sweep, at, stray, fatal, raw, after>>

Present == {k \in Key : data[k] # None}

\* Those in a section under the write lock.
Writers == {"setCheck", "setStore", "rawStore", "getCheck", "getDelete", "delBody"}
Writing == {g \in G : pc[g] \in Writers} \cup {s \in {Sweeper} : sweep = "body"}

Init ==
  /\ ops \in Uses
  /\ data = [k \in Key |-> None]
  /\ cnt = 0 /\ mutex = Free
  /\ pc = [g \in G |-> "idle"]
  /\ key = [g \in G |-> None]
  /\ now = 1 /\ tick = 0 /\ sweep = "select" /\ at = 0
  /\ stray = FALSE /\ fatal = FALSE /\ raw = 0 /\ after = 0

(***************************************************************************)
(* The mutex and the map.                                                  *)
(***************************************************************************)
Lock(g) == mutex = Free /\ mutex' = g

\* sync.RWMutex does not know its owner: Unlock releases whoever holds it.
Unlock(g) ==
  /\ mutex' = Free
  /\ fatal' = (mutex = Free)
  /\ stray' = (stray \/ mutex # g)

\* Mutant: the deadline itself counts as past.
DeadlineBefore_Reached(item, t) == item.dl # 0 /\ item.dl <= t

DeadlineBefore(item, t) == item.dl # 0 /\ item.dl < t

\* Mutant: the key is deleted without calling onEvicted.
Evict_NoCallback(ks) ==
  /\ data' = [k \in Key |-> IF k \in ks THEN None ELSE data[k]]
  /\ UNCHANGED cnt

\* The callback NewMaxCntCache installs, for n keys.
OnEvicted(n) == cnt' = cnt - n

\* delete of a set of keys, each one reported if it is there.
Evict(ks) ==
  /\ data' = [k \in Key |-> IF k \in ks THEN None ELSE data[k]]
  /\ OnEvicted(Cardinality(ks \cap Present))

\* set: the deadline is computed when the value is stored.
Store(k) ==
  \E v \in Val, e \in Expiration :
    data' = [data EXCEPT ![k] = [val |-> v, dl |-> IF e > 0 THEN now + e ELSE 0]]

(***************************************************************************)
(* The methods, each from the step that first touches the cache.           *)
(***************************************************************************)
Begin(g, op, k, to) ==
  /\ ~fatal /\ op \in ops /\ pc[g] = "idle"
  /\ IF stray THEN after < MaxAfter /\ after' = after + 1 ELSE UNCHANGED after
  /\ key' = [key EXCEPT ![g] = k]
  /\ pc' = [pc EXCEPT ![g] = to] /\ UNCHANGED ops

Goto(g, from, to) ==
  ~fatal /\ pc[g] = from /\ pc' = [pc EXCEPT ![g] = to] /\ UNCHANGED <<ops, key, after>>

Return(g, from) ==
  /\ ~fatal /\ pc[g] = from
  /\ pc' = [pc EXCEPT ![g] = "idle"] /\ key' = [key EXCEPT ![g] = None]
  /\ UNCHANGED <<ops, after>>

SetLock(g) ==
  /\ \E k \in Key : Begin(g, "set", k, "setCheck")
  /\ Lock(g)
  /\ UNCHANGED <<data, cnt, now, sweeper, stray, fatal, raw>>

\* MaxCntCache.Set, first half: room for the key.
SetCheck(g) ==
  \/ /\ key[g] \in Present
     /\ Goto(g, "setCheck", "setStore")
     /\ UNCHANGED <<data, cnt, mutex, now, sweeper, stray, fatal, raw>>
  \/ /\ key[g] \notin Present /\ cnt + 1 <= MaxCnt
     /\ cnt' = cnt + 1
     /\ Goto(g, "setCheck", "setStore")
     /\ UNCHANGED <<data, mutex, now, sweeper, stray, fatal, raw>>
  \/ /\ key[g] \notin Present /\ cnt + 1 > MaxCnt
     /\ Return(g, "setCheck") /\ Unlock(g)
     /\ UNCHANGED <<data, cnt, now, sweeper, raw>>

\* Second half, under the same lock: the value.
SetStore(g) ==
  /\ Return(g, "setStore") /\ Store(key[g]) /\ Unlock(g)
  /\ UNCHANGED <<cnt, now, sweeper, raw>>

\* BuildInMapCache.Set, called on the wrapped cache (before or after it was
\* wrapped): nothing is counted.
RawSetLock(g) ==
  /\ raw < MaxRaw
  /\ \E k \in Key : Begin(g, "rawSet", k, "rawStore")
  /\ Lock(g)
  /\ UNCHANGED <<data, cnt, now, sweeper, stray, fatal, raw>>

RawSetStore(g) ==
  /\ Return(g, "rawStore") /\ Store(key[g]) /\ Unlock(g)
  /\ raw' = IF key[g] \in Present THEN raw ELSE raw + 1
  /\ UNCHANGED <<cnt, now, sweeper>>

\* Get looks under the read lock; a miss ends it, and leaves nothing behind.
GetRead(g) ==
  /\ mutex = Free
  /\ \E k \in Present : Begin(g, "get", k, "getLock")
  /\ UNCHANGED <<data, cnt, mutex, now, sweeper, stray, fatal, raw>>

GetLock(g) ==
  /\ Goto(g, "getLock", "getCheck") /\ Lock(g)
  /\ UNCHANGED <<data, cnt, now, sweeper, stray, fatal, raw>>

\* The double check under the write lock: an item past its deadline is to go.
GetCheck(g) ==
  LET expired == key[g] \in Present /\ DeadlineBefore(data[key[g]], now) IN
  \/ /\ expired
     /\ Goto(g, "getCheck", "getDelete")
     /\ UNCHANGED <<data, cnt, mutex, now, sweeper, stray, fatal, raw>>
  \/ /\ ~expired
     /\ Return(g, "getCheck") /\ Unlock(g)
     /\ UNCHANGED <<data, cnt, now, sweeper, raw>>

\* delete looks the key up again and removes whatever is there by now.
GetDelete(g) ==
  /\ Return(g, "getDelete") /\ Evict({key[g]}) /\ Unlock(g)
  /\ UNCHANGED <<now, sweeper, raw>>

DeleteRead(g) ==
  /\ mutex = Free
  /\ \E k \in Key : Begin(g, "delete", k, IF k \in Present THEN "delLock" ELSE "delMiss")
  /\ UNCHANGED <<data, cnt, mutex, now, sweeper, stray, fatal, raw>>

\* On a miss the deferred Unlock runs although the write lock was never taken.
DeleteMiss(g) ==
  /\ Return(g, "delMiss") /\ Unlock(g)
  /\ UNCHANGED <<data, cnt, now, sweeper, raw>>

DeleteLock(g) ==
  /\ Goto(g, "delLock", "delBody") /\ Lock(g)
  /\ UNCHANGED <<data, cnt, now, sweeper, stray, fatal, raw>>

DeleteBody(g) ==
  /\ Return(g, "delBody") /\ Evict({key[g]}) /\ Unlock(g)
  /\ UNCHANGED <<now, sweeper, raw>>

\* Close offers a value on the unbuffered channel close ...
CallClose(g) ==
  /\ Begin(g, "close", None, "close")
  /\ UNCHANGED <<data, cnt, mutex, now, sweeper, stray, fatal, raw>>

\* Mutant: the select with default that Close has commented out.
CloseMeets_Default(g) ==
  /\ sweep' = IF sweep = "select" THEN "done" ELSE sweep
  /\ Return(g, "close")
  /\ UNCHANGED <<data, cnt, mutex, now, tick, at, stray, fatal, raw>>

\* ... which the sweeper takes in its select, and returns.
CloseMeets(g) ==
  /\ sweep = "select" /\ sweep' = "done"
  /\ Return(g, "close")
  /\ UNCHANGED <<data, cnt, mutex, now, tick, at, stray, fatal, raw>>

(***************************************************************************)
(* The sweeping goroutine, its ticker and the clock.                       *)
(***************************************************************************)
\* ticker.C holds one time; a tick that finds it full is dropped.
TickerFires ==
  /\ ~fatal /\ tick = 0 /\ tick' = now
  /\ UNCHANGED <<data, cnt, mutex, calls, now, sweep, at,
                 stray, fatal, raw>>

SweepReceive ==
  /\ ~fatal /\ sweep = "select" /\ tick # 0
  /\ sweep' = "lock" /\ at' = tick /\ tick' = 0
  /\ UNCHANGED <<data, cnt, mutex, calls, now, stray, fatal, raw>>

SweepLock ==
  /\ ~fatal /\ sweep = "lock" /\ sweep' = "body" /\ Lock(Sweeper)
  /\ UNCHANGED <<data, cnt, calls, now, tick, at, stray, fatal, raw>>

\* The loop over the map, which Go visits in any order, looks at an item while
\* i is at most ScanLimit.
Visited == {ks \in SUBSET Present :
              \/ ks = Present /\ Cardinality(ks) <= ScanLimit
              \/ Cardinality(ks) = ScanLimit + 1}

\* Mutant: the loop ends at the first item that is still alive.
SweepOver_StopsAtLive(ks) ==
  /\ ~fatal /\ sweep = "body" /\ sweep' = "select" /\ at' = 0
  /\ Evict(IF \A k \in Present : DeadlineBefore(data[k], at) THEN ks ELSE {})
  /\ Unlock(Sweeper)
  /\ UNCHANGED <<calls, now, tick, raw>>

SweepOver(ks) ==
  /\ ~fatal /\ sweep = "body" /\ sweep' = "select" /\ at' = 0
  /\ Evict({k \in ks : DeadlineBefore(data[k], at)})
  /\ Unlock(Sweeper)
  /\ UNCHANGED <<calls, now, tick, raw>>

SweepBody == \E ks \in Visited : SweepOver(ks)

Clock ==
  /\ ~fatal /\ now < MaxTime /\ now' = now + 1
  /\ UNCHANGED <<data, cnt, mutex, calls, sweeper, stray, fatal, raw>>

\* Go's map is not safe for concurrent use: when a stray Unlock has let a second
\* goroutine into the map while one writes, the runtime may notice and end the
\* program.
MapRace ==
  /\ ~fatal
  /\ \/ \E x, y \in Writing : x # y
     \/ Writing # {} /\ mutex = Free /\ \E g \in G : pc[g] = "idle"
  /\ fatal' = TRUE
  /\ UNCHANGED <<data, cnt, mutex, calls, now, sweeper, stray, raw>>

Client(g) ==
  \/ SetLock(g) \/ SetCheck(g) \/ SetStore(g) \/ RawSetLock(g)
  \/ RawSetStore(g) \/ GetRead(g) \/ GetLock(g) \/ GetCheck(g) \/ GetDelete(g)
  \/ DeleteRead(g) \/ DeleteMiss(g) \/ DeleteLock(g) \/ DeleteBody(g)
  \/ CallClose(g) \/ CloseMeets(g)

Next ==
  \/ \E g \in G : Client(g)
  \/ TickerFires \/ SweepReceive \/ SweepLock \/ SweepBody
  \/ Clock \/ MapRace

Spec == Init /\ [][Next]_vars

\* A goroutine inside a locked section goes on; the ticker fires; a goroutine
\* waiting for the mutex gets it (it hands itself over to the longest waiter),
\* select takes each ready case now and then, and the random order of a map
\* reaches every key now and then.
Fairness ==
  /\ WF_vars(TickerFires) /\ WF_vars(SweepBody)
  /\ SF_vars(SweepReceive) /\ SF_vars(SweepLock)
  /\ SF_vars(\E g \in G : CloseMeets(g))
  /\ \A k \in Key : SF_vars(\E ks \in Visited : k \in ks /\ SweepOver(ks))
  /\ \A g \in G : WF_vars(\/ SetCheck(g) \/ SetStore(g) \/ RawSetStore(g)
                           \/ GetCheck(g) \/ GetDelete(g) \/ DeleteBody(g))

FairSpec == Spec /\ Fairness

(***************************************************************************)
(* Properties.                                                             *)
(***************************************************************************)
\* A key counted by SetCheck whose value SetStore has not stored yet.
Counted == {g \in G : pc[g] = "setStore" /\ key[g] \notin Present}

\* Until a Delete misses, MaxCntCache counts exactly the keys added through it,
\* less the ones added behind its back and evicted since, whatever Set, Get,
\* Delete and the sweeper do at the same time; and the count stays within maxCnt.
CountExact ==
  ~stray => /\ cnt <= MaxCnt
            /\ cnt + raw = Cardinality(Present) + Cardinality(Counted)

\* "使用double-check，防止在加写锁之前有goroutine更新": until a Delete misses, an item
\* leaves the map only because Delete was called for its key or because its own
\* deadline has passed.  Neither the sweeper, whose time may be old, nor a Get
\* that found an older item, or that has already judged the item it is about to
\* delete, removes one that is still alive.  (After a stray Unlock, a Set may
\* replace the item between the two.)
OnlyExpiredEvicted ==
  [][\A k \in Key :
       ~stray /\ data[k] # None /\ data'[k] = None =>
         \/ data[k].dl # 0 /\ data[k].dl < now
         \/ \E g \in G : pc[g] = "delBody" /\ key[g] = k]_vars

\* "找到所有过期的key，然后删除": an expired item is removed or replaced, although
\* nobody asks for it, while the sweeper runs.
ExpiredRemoved ==
  \A k \in Key :
    (data[k] # None /\ data[k].dl \in 1..now - 1)
      ~> \/ data[k] = None \/ data[k].dl \notin 1..now - 1
         \/ sweep = "done" \/ stray

\* A Close ends the sweeper, wherever in its loop it is.
CloseStopsSweeper == (\E g \in G : pc[g] = "close") ~> sweep = "done" \/ stray

(***************************************************************************)
(* The inductive invariant.                                                *)
(***************************************************************************)
\* The values of the variables; a method has its key from its first step on, and
\* the times the sweeper knows are not in the future.
TypeOK ==
  /\ data \in [Key -> Item \cup {None}] /\ cnt \in Int /\ raw \in Nat
  /\ mutex \in G \cup {Sweeper, Free}
  /\ pc \in [G -> {"idle", "getLock", "delLock", "delMiss", "close"} \cup Writers]
  /\ key \in [G -> Key \cup {None}]
  /\ \A g \in G : pc[g] \notin {"idle", "close"} => key[g] \in Key
  /\ now \in Nat \ {0} /\ tick \in 0..now /\ at \in 0..now
  /\ sweep \in {"select", "lock", "body", "done"}
  /\ stray \in BOOLEAN /\ fatal \in BOOLEAN /\ after \in Nat

\* Until a Delete misses, the holder of the write lock, and nobody else, is in a
\* section under it.
MutexHeld == ~stray => Writing = {mutex} \ {Free}

\* Until then, what a Get is about to delete is still the item it judged.
Judged ==
  ~stray => \A g \in G : pc[g] = "getDelete" =>
              key[g] \in Present /\ DeadlineBefore(data[key[g]], now)

LockInv == TypeOK /\ MutexHeld /\ CountExact

IInv == LockInv /\ Judged
===============================================================================
