---------------------------- MODULE MapCacheProofs ----------------------------
(***************************************************************************)
(* Proofs about MapCache, for every number of goroutines and keys, every   *)
(* maxCnt and every limit of the sweeper.                                  *)
(***************************************************************************)
EXTENDS MapCache, FiniteSetTheorems, TLAPS

(***************************************************************************)
(* The map: how many keys its operations add and remove.                   *)
(***************************************************************************)
LEMMA PresentFinite ==
  TypeOK => IsFiniteSet(Present) /\ Cardinality(Present) \in Nat
<1>1. Present \subseteq Key
  BY DEF Present
<1> QED BY <1>1, ConstAssumption, FS_Subset, FS_CardinalityType

\* What is stored is an item, with its deadline in the future.
LEMMA StoreFacts ==
  ASSUME TypeOK, NEW k \in Key, Store(k)
  PROVE  /\ data' \in [Key -> Item \cup {None}] /\ Present' = Present \cup {k}
         /\ Cardinality(Present') = Cardinality(Present) + (IF k \in Present THEN 0 ELSE 1)
<1>1. PICK item \in Item : data' = [data EXCEPT ![k] = item]
  <2>1. PICK v \in Val, e \in Expiration :
          data' = [data EXCEPT ![k] = [val |-> v, dl |-> IF e > 0 THEN now + e ELSE 0]]
    BY DEF Store
  <2>2. (IF e > 0 THEN now + e ELSE 0) \in Nat
    BY ConstAssumption DEF TypeOK
  <2>3. [val |-> v, dl |-> IF e > 0 THEN now + e ELSE 0] \in Item
    BY <2>2 DEF Item
  <2> QED BY <2>1, <2>3
<1>2. item # None
  BY NoneAssumption
<1>3. data' \in [Key -> Item \cup {None}]
  BY <1>1 DEF TypeOK
<1>4. Present' = Present \cup {k}
  BY <1>1, <1>2 DEF TypeOK, Present
<1>5. CASE k \in Present
  <2>1. Present' = Present
    BY <1>4, <1>5
  <2>2. Cardinality(Present') = Cardinality(Present)
    BY <2>1, Zenon
  <2> QED BY <1>3, <1>4, <1>5, <2>2, PresentFinite
<1>6. CASE k \notin Present
  BY <1>3, <1>4, <1>6, PresentFinite, FS_AddElement
<1> QED BY <1>5, <1>6

\* The callback is called for the keys that leave, once for each.
LEMMA EvictFacts ==
  ASSUME TypeOK, NEW ks \in SUBSET Key, Evict(ks)
  PROVE  /\ data' \in [Key -> Item \cup {None}]
         /\ \A k \in Key \ ks : data'[k] = data[k]
         /\ cnt' \in Int /\ cnt' <= cnt
         /\ cnt' - Cardinality(Present') = cnt - Cardinality(Present)
<1>1. data' = [k \in Key |-> IF k \in ks THEN None ELSE data[k]]
      /\ cnt' = cnt - Cardinality(ks \cap Present)
  BY DEF Evict, OnEvicted
<1>2. Present' = Present \ ks
  BY <1>1 DEF Present
<1>3. /\ IsFiniteSet(Present) /\ Cardinality(Present) \in Nat
      /\ Cardinality(Present \ ks) = Cardinality(Present) - Cardinality(Present \cap ks)
  BY PresentFinite, FS_Difference
<1>4. Cardinality(Present \cap ks) \in Nat /\ ks \cap Present = Present \cap ks
  BY <1>3, FS_Intersection, FS_CardinalityType
<1>5. data' \in [Key -> Item \cup {None}]
  BY <1>1 DEF TypeOK
<1>6. cnt' \in Int /\ cnt' <= cnt /\ cnt' - Cardinality(Present') = cnt - Cardinality(Present)
  <2>1. Cardinality(Present') = Cardinality(Present \ ks)
    BY <1>2, Zenon
  <2>2. Cardinality(ks \cap Present) = Cardinality(Present \cap ks)
    BY <1>4, Zenon
  <2> QED BY <1>1, <1>3, <1>4, <2>1, <2>2 DEF TypeOK
<1> QED BY <1>1, <1>5, <1>6

(***************************************************************************)
(* The write lock.                                                         *)
(***************************************************************************)
Members == G \cup {Sweeper}

\* Whoever is in a section has the lock, alone.
LEMMA Alone ==
  ASSUME TypeOK, MutexHeld, ~stray, NEW x \in Writing
  PROVE  mutex = x /\ Writing = {x}
  BY DEF MutexHeld

\* A set of at most one goroutine that is between its two halves of Set.
LEMMA CountedInWriting == Counted \subseteq Writing /\ (Counted' \subseteq Writing')
  BY DEF Counted, Writing, Writers

\* Somebody takes the lock and enters a section.
LEMMA EnterHeld ==
  ASSUME TypeOK, MutexHeld, NEW x \in Members, Lock(x), Writing' = Writing \cup {x}, stray' = stray
  PROVE  MutexHeld' /\ (~stray => Writing = {})
  BY ConstAssumption DEF MutexHeld, Lock, Members, Sweeper, Free

\* Somebody unlocks and leaves: if that was no stray Unlock it had the lock, and
\* the sections are empty now.
LEMMA LeaveHeld ==
  ASSUME TypeOK, MutexHeld, NEW x \in Members, Unlock(x), Writing' = Writing \ {x}
  PROVE  /\ MutexHeld' /\ mutex' = Free /\ stray' \in BOOLEAN /\ fatal' \in BOOLEAN
         /\ ~stray' => ~stray /\ mutex = x /\ Writing = {x} /\ Writing' = {}
<1>1. mutex' = Free /\ stray' \in BOOLEAN /\ fatal' \in BOOLEAN
  BY DEF Unlock
<1>2. ~stray' => ~stray /\ mutex = x
  BY DEF Unlock
<1>3. x # Free
  BY ConstAssumption DEF Members, Sweeper, Free
<1>4. ~stray' => Writing = {x} /\ Writing' = {}
  BY <1>2, <1>3 DEF MutexHeld
<1> QED BY <1>1, <1>2, <1>4 DEF MutexHeld

(***************************************************************************)
(* The count.                                                              *)
(***************************************************************************)
\* A step that leaves the map, the counters and the Sets under way alone.
LEMMA CountSame ==
  ASSUME CountExact, UNCHANGED <<data, cnt, raw>>, ~stray' => ~stray /\ Counted' = Counted
  PROVE  CountExact'
<1>1. Present' = Present
  BY DEF Present
<1> QED BY <1>1, Zenon DEF CountExact

\* A step that ends a section: nobody is in a Set after it.
LEMMA CountLeave ==
  ASSUME TypeOK, CountExact, NEW n \in Nat,
         cnt' \in Int, raw' \in Nat, cnt' <= cnt, Cardinality(Present') \in Nat,
         ~stray' => /\ ~stray /\ Counted' = {} /\ Cardinality(Counted) = n
                    /\ cnt' + raw' - Cardinality(Present') = cnt + raw - Cardinality(Present) - n
  PROVE  CountExact'
<1> SUFFICES ASSUME ~stray'
             PROVE  cnt' <= MaxCnt /\ cnt' + raw' = Cardinality(Present') + Cardinality(Counted')
  BY Zenon DEF CountExact
<1>1. Cardinality(Counted') = 0
  <2>1. Counted' = {}
    OBVIOUS
  <2> QED BY <2>1, FS_EmptySet, Zenon
<1>2. cnt <= MaxCnt /\ cnt + raw = Cardinality(Present) + n
  BY DEF CountExact
<1>3. Cardinality(Present) \in Nat
  BY PresentFinite
<1> QED BY <1>1, <1>2, <1>3, ConstAssumption DEF TypeOK

\* No item, nobody calling.
LEMMA InitLockInv == Init => LockInv
<1> SUFFICES ASSUME Init PROVE LockInv
  OBVIOUS
<1>1. TypeOK
  <2>1. data \in [Key -> Item \cup {None}] /\ cnt \in Int /\ raw \in Nat
    BY DEF Init
  <2>2. /\ pc \in [G -> {"idle", "getLock", "delLock", "delMiss", "close"} \cup Writers]
        /\ key \in [G -> Key \cup {None}]
        /\ \A g \in G : pc[g] \notin {"idle", "close"} => key[g] \in Key
    BY DEF Init
  <2>3. /\ mutex \in G \cup {Sweeper, Free} /\ stray \in BOOLEAN /\ fatal \in BOOLEAN
        /\ sweep \in {"select", "lock", "body", "done"}
    BY DEF Init
  <2>4. now \in Nat \ {0} /\ tick \in 0..now /\ at \in 0..now /\ after \in Nat
    BY DEF Init
  <2> QED BY <2>1, <2>2, <2>3, <2>4 DEF TypeOK
<1>2. Writing = {} /\ MutexHeld
  BY DEF Init, Writing, Writers, MutexHeld
<1>3. Present = {} /\ Counted = {}
  BY DEF Init, Present, Counted
<1>4. Cardinality(Present) = 0 /\ Cardinality(Counted) = 0
  BY <1>3, FS_EmptySet, Zenon
<1>5. CountExact
  BY <1>4, ConstAssumption DEF Init, CountExact
<1> QED BY <1>1, <1>2, <1>5 DEF LockInv

(***************************************************************************)
(* The steps.                                                              *)
(***************************************************************************)
\* A method of g begins, with key k.
LEMMA BeginType ==
  ASSUME TypeOK, NEW g \in G, NEW op, NEW k \in Key \cup {None},
         NEW to \in {"getLock", "delLock", "delMiss", "close"} \cup Writers,
         Begin(g, op, k, to), k \in Key \/ to = "close",
         UNCHANGED <<data, cnt, now, sweeper, stray, fatal, raw>>,
         mutex' \in G \cup {Sweeper, Free}
  PROVE  /\ TypeOK' /\ pc[g] = "idle" /\ pc'[g] = to
         /\ \A h \in G : h # g => pc'[h] = pc[h] /\ key'[h] = key[h]
<1>1. after' \in Nat
  BY DEF TypeOK, Begin
<1> QED BY <1>1 DEF TypeOK, Begin, sweeper

\* The goroutine takes the write lock, in its first step or after a look under
\* the read lock.
LEMMA LockStep ==
  ASSUME LockInv, NEW g \in G, SetLock(g) \/ RawSetLock(g) \/ GetLock(g) \/ DeleteLock(g) PROVE LockInv'
<1> USE DEF LockInv
<1>1. /\ Lock(g) /\ UNCHANGED <<data, cnt, now, sweeper, stray, fatal, raw>>
      /\ mutex' \in G \cup {Sweeper, Free}
  BY DEF SetLock, RawSetLock, GetLock, DeleteLock, Lock
<1> DEFINE Enters ==
      /\ TypeOK' /\ pc[g] \in {"idle", "getLock", "delLock"} /\ pc'[g] \in Writers \ {"setStore"}
      /\ \A h \in G : h # g => pc'[h] = pc[h] /\ key'[h] = key[h]
<1>2. Enters
  <2>1. ASSUME NEW k \in Key, Begin(g, "set", k, "setCheck") \/ Begin(g, "rawSet", k, "rawStore")
        PROVE  Enters
    BY <1>1, <2>1, BeginType DEF Writers
  <2>2. CASE GetLock(g) \/ DeleteLock(g)
    BY <1>1, <2>2 DEF GetLock, DeleteLock, Goto, TypeOK, Writers, sweeper
  <2> QED BY <2>1, <2>2 DEF SetLock, RawSetLock
<1>3. Writing' = Writing \cup {g}
  BY <1>1, <1>2 DEF Writing, Writers, sweeper
<1>4. MutexHeld'
  BY <1>1, <1>3, EnterHeld DEF Members
<1>5. Counted' = Counted
  <2>1. Present' = Present
    BY <1>1 DEF Present
  <2> QED BY <1>2, <2>1 DEF Counted, Writers
<1> QED BY <1>1, <1>2, <1>4, <1>5, CountSame

\* The first looks under the read lock, the calls of Close, and what the ticker,
\* the clock and the sweeper do outside the lock.
LEMMA OutsideStep ==
  ASSUME LockInv,
         \/ \E g \in G : GetRead(g) \/ DeleteRead(g) \/ CallClose(g) \/ CloseMeets(g)
         \/ TickerFires \/ SweepReceive \/ Clock \/ MapRace
  PROVE  LockInv'
<1> USE DEF LockInv
<1> DEFINE Outside == {"idle", "getLock", "delLock", "delMiss", "close"}
           Stays ==
             /\ TypeOK' /\ UNCHANGED <<data, cnt, raw, mutex, stray>>
             /\ \A h \in G : (pc'[h] = pc[h] /\ key'[h] = key[h]) \/ {pc[h], pc'[h]} \subseteq Outside
             /\ sweep = "body" <=> sweep' = "body"
<1>1. Stays
  <2>1. ASSUME NEW g \in G, GetRead(g) PROVE Stays
    <3>1. PICK k \in Present : Begin(g, "get", k, "getLock")
      BY <2>1 DEF GetRead
    <3>2. k \in Key
      BY DEF Present
    <3> QED BY <2>1, <3>1, <3>2, BeginType DEF GetRead, TypeOK, sweeper
  <2>2. ASSUME NEW g \in G, DeleteRead(g) PROVE Stays
    <3>1. PICK k \in Key : Begin(g, "delete", k, IF k \in Present THEN "delLock" ELSE "delMiss")
      BY <2>2 DEF DeleteRead
    <3> QED BY <2>2, <3>1, BeginType DEF DeleteRead, TypeOK, sweeper
  <2>3. ASSUME NEW g \in G, CallClose(g) PROVE Stays
    BY <2>3, BeginType DEF CallClose, TypeOK, sweeper
  <2>4. ASSUME NEW g \in G, CloseMeets(g) PROVE Stays
    BY <2>4 DEF CloseMeets, Return, TypeOK
  <2>5. CASE TickerFires
    BY <2>5 DEF TickerFires, TypeOK, calls
  <2>6. CASE SweepReceive
    BY <2>6 DEF SweepReceive, TypeOK, calls
  <2>7. CASE Clock
    BY <2>7 DEF Clock, TypeOK, sweeper, calls
  <2>8. CASE MapRace
    BY <2>8 DEF MapRace, TypeOK, sweeper, calls
  <2> QED BY <2>1, <2>2, <2>3, <2>4, <2>5, <2>6, <2>7, <2>8
<1>2. Writing' = Writing
  BY <1>1 DEF Writing, Writers
<1>3. Counted' = Counted
  <2>1. Present' = Present
    BY <1>1 DEF Present
  <2> QED BY <1>1, <2>1 DEF Counted
<1>4. MutexHeld'
  BY <1>1, <1>2 DEF MutexHeld
<1> QED BY <1>1, <1>3, <1>4, CountSame

\* The sweeper takes the write lock.
LEMMA SweepLockStep == ASSUME LockInv, SweepLock PROVE LockInv'
<1> USE DEF LockInv
<1>1. TypeOK' /\ Writing' = Writing \cup {Sweeper}
  BY DEF SweepLock, Lock, TypeOK, Writing, calls
<1>2. MutexHeld'
  BY <1>1, EnterHeld DEF SweepLock, Members
<1>3. Counted' = Counted
  BY DEF SweepLock, Counted, Present, calls
<1> QED BY <1>1, <1>2, <1>3, CountSame DEF SweepLock

\* Set has looked for room and goes on: a key it did not find is counted, and is
\* the only one in the making, since nobody else is in a section.
LEMMA SetGoesOn ==
  ASSUME LockInv, NEW g \in G, Goto(g, "setCheck", "setStore"),
         UNCHANGED <<data, mutex, now, sweeper, stray, fatal, raw>>,
         \/ key[g] \in Present /\ cnt' = cnt
         \/ key[g] \notin Present /\ cnt + 1 <= MaxCnt /\ cnt' = cnt + 1
  PROVE  LockInv'
<1> USE DEF LockInv
<1>1. TypeOK'
  BY DEF Goto, TypeOK, Writers, sweeper
<1>2. /\ Writing' = Writing /\ g \in Writing /\ pc[g] = "setCheck" /\ pc'[g] = "setStore"
      /\ key' = key /\ Present' = Present
  BY DEF Goto, TypeOK, Writing, Writers, sweeper, Present
<1>3. MutexHeld'
  BY <1>2 DEF MutexHeld
<1>4. ~stray => Counted = {} /\ Counted' = IF key[g] \in Present THEN {} ELSE {g}
  <2> HAVE ~stray
  <2>1. Counted \subseteq {g} /\ Counted' \subseteq {g}
    BY <1>2, Alone, CountedInWriting
  <2> QED BY <1>2, <2>1 DEF Counted
<1>5. CASE key[g] \in Present
  BY <1>1, <1>3, <1>4, <1>5, CountSame
<1>6. CASE key[g] \notin Present
  <2>1. ~stray => Cardinality(Counted) = 0 /\ Cardinality(Counted') = 1
    BY <1>4, <1>6, FS_EmptySet, FS_Singleton, Zenon
  <2>2. Cardinality(Present') = Cardinality(Present) /\ Cardinality(Present) \in Nat
    <3>1. Cardinality(Present') = Cardinality(Present)
      BY <1>2, Zenon
    <3> QED BY <3>1, PresentFinite
  <2>3. CountExact'
    BY <1>6, <2>1, <2>2, ConstAssumption DEF CountExact, TypeOK
  <2> QED BY <1>1, <1>3, <2>3
<1> QED BY <1>5, <1>6

\* A method of g ends with its Unlock.  Unless that was a stray one, as it is
\* when Delete misses, nobody is in a section any more, and g alone was in one.
LEMMA ReturnFacts ==
  ASSUME LockInv, NEW g \in G, NEW from \in Writers \cup {"delMiss"}, Return(g, from), Unlock(g),
         UNCHANGED <<now, sweeper>>, data' \in [Key -> Item \cup {None}], cnt' \in Int, raw' \in Nat
  PROVE  /\ TypeOK' /\ MutexHeld' /\ key[g] \in Key /\ Cardinality(Present') \in Nat
         /\ ~stray' => ~stray /\ from # "delMiss" /\ Counted' = {}
         /\ ~stray' => Cardinality(Counted) =
                         IF from = "setStore" /\ key[g] \notin Present THEN 1 ELSE 0
<1> USE DEF LockInv
<1>1. pc[g] = from /\ key[g] \in Key
  BY DEF Return, TypeOK, Writers
<1>2. Writing' = Writing \ {g} /\ (g \in Writing <=> from # "delMiss")
  BY <1>1, ConstAssumption DEF Return, TypeOK, Writing, Writers, sweeper
<1>3. /\ MutexHeld' /\ mutex' = Free /\ stray' \in BOOLEAN /\ fatal' \in BOOLEAN
      /\ ~stray' => ~stray /\ Writing = {g} /\ Writing' = {}
  BY <1>2, LeaveHeld DEF Members
<1>4. TypeOK'
  BY <1>3 DEF TypeOK, Return, sweeper
<1>5. Cardinality(Present') \in Nat
  <2>1. Present' \subseteq Key
    BY DEF Present
  <2> QED BY <2>1, ConstAssumption, FS_Subset, FS_CardinalityType
<1>6. ASSUME ~stray'
      PROVE  /\ Counted' = {}
             /\ Counted = IF from = "setStore" /\ key[g] \notin Present THEN {g} ELSE {}
  <2>1. Counted' = {} /\ Counted \subseteq {g}
    BY <1>3, <1>6, CountedInWriting
  <2> QED BY <1>1, <2>1 DEF Counted
<1>7. ~stray' => Cardinality(Counted) =
                   IF from = "setStore" /\ key[g] \notin Present THEN 1 ELSE 0
  BY <1>6, FS_EmptySet, FS_Singleton, Zenon
<1> QED BY <1>1, <1>2, <1>3, <1>4, <1>5, <1>6, <1>7

\* Set finds no room, Delete no key, and Get no item past its deadline.
LEMMA RefusedStep ==
  ASSUME LockInv, NEW g \in G, NEW from \in {"setCheck", "getCheck", "delMiss"}, Return(g, from), Unlock(g),
         UNCHANGED <<data, cnt, now, sweeper, raw>>
  PROVE  LockInv'
<1> USE DEF LockInv
<1>1. /\ TypeOK' /\ MutexHeld' /\ Cardinality(Present') \in Nat
      /\ ~stray' => ~stray /\ Counted' = {} /\ Cardinality(Counted) = 0
  BY ReturnFacts DEF TypeOK, Writers
<1>2. Cardinality(Present') = Cardinality(Present)
  <2>1. Present' = Present
    BY DEF Present
  <2> QED BY <2>1, Zenon
<1>3. CountExact'
  BY <1>1, <1>2, CountLeave DEF TypeOK
<1> QED BY <1>1, <1>3

\* The value is stored: by the Set that counted its key, or behind its back.
LEMMA StoreStep == ASSUME LockInv, NEW g \in G, SetStore(g) \/ RawSetStore(g) PROVE LockInv'
<1> USE DEF LockInv
<1>1. PICK from \in {"setStore", "rawStore"} :
        /\ Return(g, from) /\ Store(key[g]) /\ Unlock(g) /\ UNCHANGED <<cnt, now, sweeper>>
        /\ raw' = IF from = "rawStore" /\ key[g] \notin Present THEN raw + 1 ELSE raw
  BY DEF SetStore, RawSetStore
<1>2. key[g] \in Key /\ raw' \in Nat /\ cnt' \in Int
  BY <1>1 DEF Return, TypeOK
<1>3. /\ data' \in [Key -> Item \cup {None}]
      /\ Cardinality(Present') = Cardinality(Present) + (IF key[g] \in Present THEN 0 ELSE 1)
  BY <1>1, <1>2, StoreFacts
<1>4. /\ TypeOK' /\ MutexHeld' /\ Cardinality(Present') \in Nat
      /\ ~stray' => ~stray /\ Counted' = {}
      /\ ~stray' => Cardinality(Counted) =
                      IF from = "setStore" /\ key[g] \notin Present THEN 1 ELSE 0
  BY <1>1, <1>2, <1>3, ReturnFacts DEF Writers
<1> DEFINE n == IF from = "setStore" /\ key[g] \notin Present THEN 1 ELSE 0
<1>5. /\ n \in Nat /\ cnt' <= cnt
      /\ cnt' + raw' - Cardinality(Present') = cnt + raw - Cardinality(Present) - n
  BY <1>1, <1>3, PresentFinite DEF TypeOK
<1>6. CountExact'
  BY <1>2, <1>4, <1>5, CountLeave
<1> QED BY <1>4, <1>6

\* Get has found an item past its deadline, and goes on to delete it.
LEMMA GetGoesOn ==
  ASSUME LockInv, NEW g \in G, Goto(g, "getCheck", "getDelete"),
         UNCHANGED <<data, cnt, mutex, now, sweeper, stray, fatal, raw>>
  PROVE  LockInv'
<1> USE DEF LockInv
<1>1. TypeOK'
  BY DEF Goto, TypeOK, Writers, sweeper
<1>2. Writing' = Writing
  BY DEF Goto, TypeOK, Writing, Writers, sweeper
<1>3. MutexHeld'
  BY <1>2 DEF MutexHeld
<1>4. Counted' = Counted
  BY DEF Goto, TypeOK, Counted, Present
<1> QED BY <1>1, <1>3, <1>4, CountSame

\* Get and Delete, under the write lock: the callback counts down what they evict.
LEMMA BodyStep == ASSUME LockInv, NEW g \in G, GetDelete(g) \/ DeleteBody(g) PROVE LockInv'
<1> USE DEF LockInv
<1>1. PICK from \in {"getDelete", "delBody"} :
        /\ Return(g, from) /\ Unlock(g) /\ UNCHANGED <<now, sweeper, raw>>
        /\ Evict({key[g]})
  BY DEF GetDelete, DeleteBody
<1>2. key[g] \in Key
  BY <1>1 DEF Return, TypeOK
<1>3. /\ data' \in [Key -> Item \cup {None}] /\ cnt' \in Int /\ cnt' <= cnt
      /\ cnt' - Cardinality(Present') = cnt - Cardinality(Present)
  BY <1>1, <1>2, EvictFacts
<1>4. raw' \in Nat
  BY <1>1 DEF TypeOK
<1>5. /\ TypeOK' /\ MutexHeld' /\ Cardinality(Present') \in Nat
      /\ ~stray' => ~stray /\ Counted' = {} /\ Cardinality(Counted) = 0
  BY <1>1, <1>3, <1>4, ReturnFacts DEF Writers
<1>6. CountExact'
  <2>1. cnt' + raw' - Cardinality(Present') = cnt + raw - Cardinality(Present) - 0
    BY <1>1, <1>3, <1>5, PresentFinite DEF TypeOK
  <2> QED BY <1>3, <1>4, <1>5, <2>1, CountLeave
<1> QED BY <1>5, <1>6

\* A round of the sweeper.
LEMMA SweepStep == ASSUME LockInv, NEW ks \in Visited, SweepOver(ks) PROVE LockInv'
<1> USE DEF LockInv
<1> DEFINE dead == {k \in ks : DeadlineBefore(data[k], at)}
<1>1. dead \in SUBSET Key /\ Evict(dead)
  BY DEF Visited, Present, SweepOver
<1>2. /\ data' \in [Key -> Item \cup {None}] /\ cnt' \in Int /\ cnt' <= cnt
      /\ cnt' - Cardinality(Present') = cnt - Cardinality(Present)
  <2> HIDE DEF dead
  <2> QED BY <1>1, EvictFacts
<1>3. Writing' = Writing \ {Sweeper}
  BY ConstAssumption DEF SweepOver, Writing, calls
<1>4. /\ MutexHeld' /\ mutex' = Free /\ stray' \in BOOLEAN /\ fatal' \in BOOLEAN
      /\ ~stray' => ~stray /\ Writing = {Sweeper} /\ Writing' = {}
  BY <1>3, LeaveHeld DEF SweepOver, Members
<1>5. TypeOK'
  BY <1>2, <1>4 DEF SweepOver, TypeOK, calls
<1>6. ~stray' => ~stray /\ Counted' = {} /\ Cardinality(Counted) = 0
  <2>1. ~stray' => ~stray /\ Counted' = {} /\ Counted = {}
    BY <1>4, CountedInWriting, ConstAssumption DEF Counted
  <2> QED BY <2>1, FS_EmptySet, Zenon
<1>7. CountExact'
  <2>1. Cardinality(Present') \in Nat
    <3>1. Present' \subseteq Key
      BY DEF Present
    <3> QED BY <3>1, ConstAssumption, FS_Subset, FS_CardinalityType
  <2>2. raw' = raw
    BY DEF SweepOver
  <2>3. cnt' + raw' - Cardinality(Present') = cnt + raw - Cardinality(Present) - 0
    BY <1>2, <2>1, <2>2, PresentFinite DEF TypeOK
  <2>4. raw' \in Nat
    BY <2>2 DEF TypeOK
  <2> QED BY <1>2, <1>6, <2>1, <2>3, <2>4, CountLeave
<1> QED BY <1>4, <1>5, <1>7

\* Every step keeps the write lock and the count as LockInv has them.
LEMMA NextLockInv == ASSUME LockInv, [Next]_vars PROVE LockInv'
<1>1. ASSUME NEW g \in G, Client(g) PROVE LockInv'
  <2>1. CASE SetLock(g) \/ RawSetLock(g) \/ GetLock(g) \/ DeleteLock(g)
    BY <2>1, LockStep
  <2>2. CASE GetRead(g) \/ DeleteRead(g) \/ CallClose(g) \/ CloseMeets(g)
    BY <2>2, OutsideStep
  <2>3. CASE SetCheck(g)
    <3>1. CASE Goto(g, "setCheck", "setStore") /\ UNCHANGED <<data, mutex, now, sweeper, stray, fatal, raw>>
               /\ \/ key[g] \in Present /\ cnt' = cnt
                  \/ key[g] \notin Present /\ cnt + 1 <= MaxCnt /\ cnt' = cnt + 1
      BY <3>1, SetGoesOn
    <3>2. CASE Return(g, "setCheck") /\ Unlock(g) /\ UNCHANGED <<data, cnt, now, sweeper, raw>>
      BY <3>2, RefusedStep
    <3> QED BY <2>3, <3>1, <3>2 DEF SetCheck
  <2>4. CASE SetStore(g) \/ RawSetStore(g)
    BY <2>4, StoreStep
  <2>5. CASE GetDelete(g) \/ DeleteBody(g)
    BY <2>5, BodyStep
  <2>6. CASE DeleteMiss(g)
    BY <2>6, RefusedStep DEF DeleteMiss
  <2>7. CASE GetCheck(g)
    <3>1. CASE /\ Goto(g, "getCheck", "getDelete")
               /\ UNCHANGED <<data, cnt, mutex, now, sweeper, stray, fatal, raw>>
      BY <3>1, GetGoesOn
    <3>2. CASE Return(g, "getCheck") /\ Unlock(g) /\ UNCHANGED <<data, cnt, now, sweeper, raw>>
      BY <3>2, RefusedStep
    <3> QED BY <2>7, <3>1, <3>2 DEF GetCheck
  <2> QED BY <1>1, <2>1, <2>2, <2>3, <2>4, <2>5, <2>6, <2>7 DEF Client
<1>2. CASE TickerFires \/ SweepReceive \/ Clock \/ MapRace
  BY <1>2, OutsideStep
<1>3. CASE SweepLock
  BY <1>3, SweepLockStep
<1>4. CASE SweepBody
  BY <1>4, SweepStep DEF SweepBody
<1>5. CASE UNCHANGED vars
  <2>1. TypeOK' /\ Writing' = Writing /\ Present' = Present /\ Counted' = Counted
    BY <1>5 DEF vars, LockInv, TypeOK, Writing, Present, Counted
  <2>2. CountExact'
    BY <1>5, <2>1, CountSame DEF vars, LockInv
  <2> QED BY <1>5, <2>1, <2>2 DEF vars, LockInv, MutexHeld
<1> QED BY <1>1, <1>2, <1>3, <1>4, <1>5 DEF Next

(***************************************************************************)
(* What a Get has judged.                                                  *)
(***************************************************************************)
\* Only these steps, all of them under the write lock, change the map.
LEMMA MapWriters ==
  ASSUME Next
  PROVE  \/ UNCHANGED data \/ SweepBody
         \/ \E g \in G : SetStore(g) \/ RawSetStore(g) \/ GetDelete(g) \/ DeleteBody(g)
  BY DEF Next, Client, SetLock, SetCheck, RawSetLock, GetRead, GetLock, GetCheck, DeleteRead,
         DeleteMiss, DeleteLock, CallClose, CloseMeets, TickerFires, SweepReceive, SweepLock,
         Clock, MapRace

\* A stray Unlock is not forgotten.
LEMMA UnlockStray == ASSUME NEW x, Unlock(x) PROVE stray => stray'
  BY Zenon DEF Unlock

\* Time does not go back, and a stray Unlock is not forgotten.
LEMMA Onward == ASSUME TypeOK, Next PROVE now' >= now /\ (stray => stray')
<1>1. ASSUME NEW g \in G, Client(g) PROVE now' = now /\ (stray => stray')
  <2>1. now' = now
    BY <1>1 DEF Client, SetLock, SetCheck, SetStore, RawSetLock, RawSetStore, GetRead, GetLock,
       GetCheck, GetDelete, DeleteRead, DeleteMiss, DeleteLock, DeleteBody, CallClose, CloseMeets
  <2>2. stray' = stray \/ Unlock(g)
    BY <1>1, Zenon DEF Client, SetLock, SetCheck, SetStore, RawSetLock, RawSetStore, GetRead,
       GetLock, GetCheck, GetDelete, DeleteRead, DeleteMiss, DeleteLock, DeleteBody, CallClose,
       CloseMeets
  <2> QED BY <2>1, <2>2, UnlockStray
<1>2. CASE SweepBody
  BY <1>2, UnlockStray DEF SweepBody, SweepOver, TypeOK
<1>3. CASE TickerFires \/ SweepReceive \/ SweepLock \/ Clock \/ MapRace
  BY <1>3 DEF TickerFires, SweepReceive, SweepLock, Clock, MapRace, TypeOK
<1> QED BY <1>1, <1>2, <1>3 DEF Next, TypeOK

\* A goroutine reaches getDelete only from its own check, and keeps its key there.
LEMMA ReachDelete ==
  ASSUME TypeOK, Next, NEW g \in G, pc'[g] = "getDelete"
  PROVE  \/ pc[g] = "getDelete" /\ key'[g] = key[g]
         \/ /\ key[g] \in Present /\ DeadlineBefore(data[key[g]], now)
            /\ UNCHANGED <<data, key, now>>
<1>1. ASSUME NEW h \in G, Client(h), h # g PROVE pc'[g] = pc[g] /\ key'[g] = key[g]
  BY <1>1 DEF Client, SetLock, SetCheck, SetStore, RawSetLock, RawSetStore, GetRead, GetLock,
     GetCheck, GetDelete, DeleteRead, DeleteMiss, DeleteLock, DeleteBody, CallClose, CloseMeets,
     Begin, Goto, Return, TypeOK
<1>2. CASE GetCheck(g)
  BY <1>2 DEF GetCheck, Goto, Return, TypeOK
<1>3. CASE \/ SetLock(g) \/ SetCheck(g) \/ SetStore(g) \/ RawSetLock(g) \/ RawSetStore(g)
           \/ GetRead(g) \/ GetLock(g) \/ GetDelete(g) \/ DeleteRead(g) \/ DeleteMiss(g)
           \/ DeleteLock(g) \/ DeleteBody(g) \/ CallClose(g) \/ CloseMeets(g)
  BY <1>3 DEF SetLock, SetCheck, SetStore, RawSetLock, RawSetStore, GetRead, GetLock,
     GetDelete, DeleteRead, DeleteMiss, DeleteLock, DeleteBody, CallClose, CloseMeets,
     Begin, Goto, Return, TypeOK
<1>4. CASE TickerFires \/ SweepReceive \/ SweepLock \/ SweepBody \/ Clock \/ MapRace
  BY <1>4 DEF TickerFires, SweepReceive, SweepLock, SweepBody, SweepOver, Clock, MapRace, calls
<1> QED BY <1>1, <1>2, <1>3, <1>4 DEF Next, Client

\* Until a Delete misses, the item a Get has judged cannot change: its goroutine
\* is the only one in a section under the write lock.
LEMMA JudgedStep == ASSUME LockInv, Judged, [Next]_vars PROVE Judged'
<1> SUFFICES ASSUME ~stray', NEW g \in G, pc'[g] = "getDelete"
             PROVE  key'[g] \in Present' /\ DeadlineBefore(data'[key'[g]], now')
  BY DEF Judged
<1>0. TypeOK /\ MutexHeld
  BY DEF LockInv
<1>1. CASE UNCHANGED vars
  <2>1. Present' = Present
    BY <1>1 DEF vars, Present
  <2> QED BY <1>1, <2>1 DEF vars, Judged
<1>2. CASE Next
  <2>1. now' >= now /\ ~stray
    BY <1>0, <1>2, Onward
  <2>2. CASE pc[g] = "getDelete" /\ key'[g] = key[g]
    <3>1. key[g] \in Present /\ DeadlineBefore(data[key[g]], now)
      BY <2>1, <2>2 DEF Judged
    <3>2. Writing = {g}
      <4>1. g \in Writing
        BY <2>2 DEF Writing, Writers
      <4> QED BY <1>0, <2>1, <4>1, Alone
    <3>3. CASE UNCHANGED data
      <4>1. data[key[g]].dl \in Nat
        BY <1>0, <3>1 DEF TypeOK, Present, Item
      <4>2. Present' = Present
        BY <3>3 DEF Present
      <4>3. now \in Nat /\ now' \in Nat
        BY <1>0, NextLockInv DEF LockInv, TypeOK
      <4>4. DeadlineBefore(data[key[g]], now')
        BY <2>1, <3>1, <4>1, <4>3 DEF DeadlineBefore
      <4> QED BY <2>2, <3>1, <3>3, <4>2, <4>4
    <3>4. ASSUME NEW h \in G, SetStore(h) \/ RawSetStore(h) \/ DeleteBody(h) PROVE FALSE
      <4>1. pc[h] \in Writers \ {"getDelete"}
        BY <3>4 DEF SetStore, RawSetStore, DeleteBody, Return, Writers
      <4> QED BY <2>2, <3>2, <4>1 DEF Writing
    <3>5. ASSUME NEW h \in G, GetDelete(h) PROVE FALSE
      <4>1. pc[h] \in Writers /\ pc'[h] = "idle"
        BY <1>0, <3>5 DEF GetDelete, Return, Writers, TypeOK
      <4> QED BY <3>2, <4>1 DEF Writing
    <3>6. ASSUME SweepBody PROVE FALSE
      <4>1. Sweeper \in Writing
        BY <3>6 DEF SweepBody, SweepOver, Writing
      <4> QED BY <3>2, <4>1, ConstAssumption
    <3> QED BY <1>2, <3>3, <3>4, <3>5, <3>6, MapWriters
  <2>3. CASE /\ key[g] \in Present /\ DeadlineBefore(data[key[g]], now)
             /\ UNCHANGED <<data, key, now>>
    BY <2>3 DEF Present
  <2> QED BY <1>0, <1>2, <2>2, <2>3, ReachDelete
<1> QED BY <1>1, <1>2

(***************************************************************************)
(* The theorems.                                                           *)
(***************************************************************************)
\* The write lock, the count and what a Get has judged, as IInv relates them, in
\* every behaviour.
THEOREM CacheInvariant == Spec => []IInv
<1>1. Init => IInv
  <2>1. Init => Judged
    BY DEF Init, Judged
  <2> QED BY <2>1, InitLockInv DEF IInv
<1>2. IInv /\ [Next]_vars => IInv'
  BY NextLockInv, JudgedStep DEF IInv
<1> QED BY <1>1, <1>2, PTL DEF Spec

\* Until a Delete of a missing key releases somebody else's lock, MaxCntCache's
\* counter is exact and within maxCnt, for any number of goroutines and keys.
THEOREM CounterExact == Spec => []CountExact
<1>1. IInv => CountExact
  BY DEF IInv, LockInv
<1> QED BY CacheInvariant, <1>1, PTL

\* Until a Delete misses, Get and the sweeper remove only items whose deadline has
\* passed: between the check of a Get and its delete nobody replaces the item.
THEOREM NoLiveEviction == Spec => OnlyExpiredEvicted
<1> DEFINE A == \A k \in Key :
                  ~stray /\ data[k] # None /\ data'[k] = None =>
                    \/ data[k].dl # 0 /\ data[k].dl < now
                    \/ \E g \in G : pc[g] = "delBody" /\ key[g] = k
<1>1. ASSUME IInv, [Next]_vars PROVE [A]_vars
  <2> SUFFICES ASSUME Next PROVE A
    BY <1>1
  <2>0. TypeOK
    BY <1>1 DEF IInv, LockInv
  <2>1. CASE UNCHANGED data
    BY <2>1
  <2>2. ASSUME NEW g \in G, SetStore(g) \/ RawSetStore(g) PROVE A
    <3>1. key[g] \in Key /\ Store(key[g])
      BY <2>0, <2>2 DEF SetStore, RawSetStore, Return, TypeOK
    <3>2. Present' = Present \cup {key[g]}
      BY <2>0, <3>1, StoreFacts
    <3> QED BY <3>2 DEF Present
  <2>3. ASSUME NEW g \in G, GetDelete(g) PROVE A
    <3>1. ~stray => DeadlineBefore(data[key[g]], now)
      BY <1>1, <2>3 DEF IInv, Judged, GetDelete, Return
    <3> QED BY <2>3, <3>1 DEF GetDelete, Evict, DeadlineBefore
  <2>4. ASSUME NEW g \in G, DeleteBody(g) PROVE A
    BY <2>4 DEF DeleteBody, Return, Evict
  <2>5. CASE SweepBody
    <3>1. PICK ks \in Visited : SweepOver(ks)
      BY <2>5 DEF SweepBody
    <3> SUFFICES ASSUME NEW k \in Key, data[k] # None, data'[k] = None
                 PROVE  data[k].dl # 0 /\ data[k].dl < now
      OBVIOUS
    <3>2. data[k].dl # 0 /\ data[k].dl < at
      BY <3>1 DEF SweepOver, Evict, DeadlineBefore
    <3>3. data[k].dl \in Nat /\ at \in 0..now /\ now \in Nat
      BY <2>0 DEF TypeOK, Item
    <3> QED BY <3>2, <3>3
  <2> QED BY <2>1, <2>2, <2>3, <2>4, <2>5, MapWriters
<1> QED BY <1>1, CacheInvariant, PTL DEF Spec, OnlyExpiredEvicted
===============================================================================
