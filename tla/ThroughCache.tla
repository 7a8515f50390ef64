----------------------------- MODULE ThroughCache -----------------------------
(***************************************************************************)
(* The cache patterns: the readers of cache/read_through.go,               *)
(* cache/singleflight.go and cache/bloom_cache.go and the writers of       *)
(* cache/write_through.go over one cache and one database, for one key.    *)
(*                                                                         *)
(* An application has one kind of reader, one kind of writer and one kind  *)
(* of cache underneath: BuildInMapCache, whose miss is errNoValue, or      *)
(* RedisCache, whose miss is another error.  The n-th value written is n;  *)
(* the database starts without the row.  LoadFunc, StoreFunc and the Set   *)
(* of the cache may fail; a StoreFunc that fails may have stored.          *)
(***************************************************************************)
EXTENDS Integers, FiniteSets

CONSTANTS
  Caller,     \* goroutines of the application
  Worker,     \* goroutines its calls have started; their number is a bound
  ReadKinds,  \* the kinds of reader looked at
  WriteKinds, \* the kinds of writer
  MaxWrites   \* how many values are written

Readers == {"Get", "GetV1", "GetV2", "GetV3", "GenericGet",
            "SingleFlight", "SingleFlightV1", "Bloom", "BloomV1"}
Writers == {"Set", "SetV1", "SetV2", "SetV3"}

ASSUME ConstAssumption ==
  /\ IsFiniteSet(Caller) /\ IsFiniteSet(Worker) /\ Caller \cap Worker = {}
  /\ ReadKinds \subseteq Readers /\ WriteKinds \subseteq Writers
  /\ MaxWrites \in Nat

VARIABLES
  kind,    \* the application: its reader, writer and cache
  db,      \* the row, 0 if there is none
  had,     \* history: every value the row has had
  cache,   \* the cached value; 0 for nil, which is no value of the row
  cached,  \* "no"; "yes"; or "forever", without an expiration
  written, \* how many values have been given to a writer
  flight,  \* the callers in a call of singleflight; the leader is not at "wait"
  dead,    \* log.Fatalln has ended the process
  pc, val, \* each goroutine: where it is, the value it loaded or writes
  ans      \* what the last call of a caller returned

vars == <<kind, db, had, cache, cached, written, flight, dead, pc, val, ans>>
Goroutine == Caller \cup Worker
Values == 1 .. MaxWrites

Init ==
  /\ kind \in [read : ReadKinds, write : WriteKinds, redis : BOOLEAN]
  /\ db = 0 /\ had = {} /\ cache = 0 /\ cached = "no" /\ written = 0
  /\ flight = {} /\ dead = FALSE
  /\ pc = [g \in Goroutine |-> "idle"]
  /\ val = [g \in Goroutine |-> 0]
  /\ ans = [c \in Caller |-> "none"]

\* The readers that share a group; NewSingleFlightCache makes one in every load.
Shares == kind.read \in {"GetV3", "SingleFlightV1"}

\* The goroutines that return when g does: with singleflight, all of its call.
Together(g) == IF g \in flight THEN flight ELSE {g}

(***************************************************************************)
(* Goroutine g ends what it is doing with answer a (a worker answers       *)
(* nobody), everyone in its flight with it; singleflight forgets the call. *)
(***************************************************************************)
Answer(g, a) ==
  /\ pc' = [h \in Goroutine |-> IF h \in Together(g) THEN "idle" ELSE pc[h]]
  /\ val' = [h \in Goroutine |-> IF h \in Together(g) THEN 0 ELSE val[h]]
  /\ ans' = [c \in Caller |-> IF c \in Together(g) THEN a ELSE ans[c]]
  /\ flight' = flight \ Together(g)

\* Goroutine g goes on at label with value v.
Goto(g, label, v) ==
  /\ pc' = [pc EXCEPT ![g] = label]
  /\ val' = [val EXCEPT ![g] = v]
  /\ UNCHANGED <<ans, flight>>

\* Caller c starts a goroutine at label with value v and answers a.
Spawn(c, label, v, a) ==
  \E w \in Worker :
    /\ pc[w] = "idle"
    /\ pc' = [pc EXCEPT ![c] = "idle", ![w] = label]
    /\ val' = [val EXCEPT ![c] = 0, ![w] = v]
    /\ ans' = [ans EXCEPT ![c] = a]
    /\ UNCHANGED flight

----------------------------------------------------------------------------
\* The readers.

\* The filter knows every key the database has had, and may be wrong on others.
HasKey(b) == had # {} => b

\* singleflight.Group.Do: lead a call, or wait for the one there is.
Do(c) ==
  /\ flight' = flight \cup {c}
  /\ pc' = [pc EXCEPT ![c] = IF flight = {} THEN "load" ELSE "wait"]
  /\ UNCHANGED <<val, ans>>

GetHit(c) ==
  /\ cached # "no"
  /\ Answer(c, IF cache = 0 THEN "nil" ELSE "value")

(***************************************************************************)
(* Only errNoValue makes a reader load; BloomFilterCacheV1 loads after     *)
(* every error, unless the filter denies the key.                          *)
(***************************************************************************)
GetFails(c) ==
  /\ \/ kind.redis /\ kind.read # "BloomV1"
     \/ /\ kind.redis \/ cached = "no"
        /\ kind.read = "BloomV1" /\ HasKey(FALSE)
  /\ Answer(c, "error")

GetLoad_NewGroup(c) ==
  /\ cached = "no"
  /\ Goto(c, "load", 0)

GetLoad(c) ==
  /\ \/ ~kind.redis /\ cached = "no"
     \/ kind.redis /\ kind.read = "BloomV1" /\ HasKey(TRUE)
  /\ \/ kind.read = "GetV2" /\ Spawn(c, "load", 0, "error")
     \/ Shares /\ Do(c)
     \/ kind.read # "GetV2" /\ ~Shares /\ Goto(c, "load", 0)

Get(c) ==
  /\ pc[c] = "idle"
  /\ GetHit(c) \/ GetFails(c) \/ GetLoad(c)
  /\ UNCHANGED <<kind, db, had, cache, cached, written, dead>>

(***************************************************************************)
(* What a reader answers when it has loaded nothing.  In                   *)
(* ReadThroughCacheV1 the type assertion on the nil of the miss panics;    *)
(* the application is taken to recover and go on.                          *)
(***************************************************************************)
MissAnswer == IF kind.read = "GenericGet" THEN "panic" ELSE "error"

LoadFails(g) ==
  /\ pc[g] = "load"
  /\ Answer(g, MissAnswer)
  /\ UNCHANGED <<kind, db, had, cache, cached, written, dead>>

Load(g) ==
  /\ pc[g] = "load" /\ db # 0
  /\ \/ kind.read = "GetV1" /\ Spawn(g, "refresh", db, "error")
     \/ kind.read # "GetV1" /\ Goto(g, "refresh", db)
  /\ UNCHANGED <<kind, db, had, cache, cached, written, dead>>

(***************************************************************************)
(* What a reader answers after it has loaded and refreshed the cache.  In  *)
(* Get the loaded value and its error are variables of the inner block:    *)
(* the miss is returned.                                                   *)
(***************************************************************************)
LoadedAnswer ==
  CASE Shares \/ kind.read = "BloomV1" -> "value"
    [] OTHER -> MissAnswer

\* The Set of the cache, with or without an expiration.
Put(v, expires) == cache' = v /\ cached' = IF expires THEN "yes" ELSE "forever"

Refresh_Forever(g) ==
  /\ pc[g] = "refresh"
  /\ Put(IF kind.read = "SingleFlightV1" THEN 0 ELSE val[g], FALSE)
  /\ Answer(g, LoadedAnswer)
  /\ UNCHANGED <<kind, db, had, written, dead>>

(***************************************************************************)
(* The reader puts what it loaded into the cache.  SingleFlightCacheV1     *)
(* puts the nil of the miss, and NewBloomFilterCache sets no expiration.   *)
(***************************************************************************)
Refresh(g) ==
  /\ pc[g] = "refresh"
  /\ Put(IF kind.read = "SingleFlightV1" THEN 0 ELSE val[g], kind.read # "Bloom")
  /\ Answer(g, LoadedAnswer)
  /\ UNCHANGED <<kind, db, had, written, dead>>

RefreshFails(g) ==
  /\ pc[g] = "refresh"
  /\ Answer(g, "error")
  /\ UNCHANGED <<kind, db, had, cache, cached, written, dead>>

----------------------------------------------------------------------------
\* The writers.

Set(c) ==
  /\ pc[c] = "idle" /\ written < MaxWrites
  /\ written' = written + 1
  /\ \/ kind.write = "SetV3" /\ Spawn(c, "store", written', "ok")
     \/ /\ kind.write # "SetV3"
        /\ Goto(c, IF kind.write = "SetV1" THEN "update" ELSE "store", written')
  /\ UNCHANGED <<kind, db, had, cache, cached, dead>>

\* log.Fatalln: the process ends, and a cache in its memory with it.
Fatal ==
  /\ dead' = TRUE
  /\ cached' = IF kind.redis THEN cached ELSE "no"
  /\ UNCHANGED <<cache, pc, val, ans, flight>>

\* StoreFunc has returned nil.
Stored(g) ==
  /\ CASE kind.write = "SetV1" -> Answer(g, "ok")
       [] kind.write = "SetV2" -> Spawn(g, "update", val[g], "ok")
       [] OTHER -> Goto(g, "update", val[g])
  /\ UNCHANGED <<cache, cached, dead>>

StoreFailed_GoesOn(g) == Stored(g)

\* StoreFunc has returned an error; SetV2 updates the cache nevertheless.
StoreFailed(g) ==
  CASE kind.write = "SetV3" -> Fatal
    [] kind.write = "SetV2" -> Spawn(g, "update", val[g], "error")
                               /\ UNCHANGED <<cache, cached, dead>>
    [] OTHER -> Answer(g, "error") /\ UNCHANGED <<cache, cached, dead>>

Store(g) ==
  /\ pc[g] = "store"
  /\ \/ /\ db' = val[g] /\ had' = had \cup {val[g]}
        /\ Stored(g) \/ StoreFailed(g)
     \/ StoreFailed(g) /\ UNCHANGED <<db, had>>
  /\ UNCHANGED <<kind, written>>

\* The writer puts the value into the cache.
Update(g) ==
  /\ pc[g] = "update"
  /\ Put(val[g], TRUE)
  /\ IF kind.write = "SetV1" THEN Goto(g, "store", val[g]) ELSE Answer(g, "ok")
  /\ UNCHANGED <<kind, db, had, written, dead>>

UpdateFails(g) ==
  /\ pc[g] = "update"
  /\ \/ g \in Worker /\ Fatal
     \/ g \in Caller /\ Answer(g, "error") /\ UNCHANGED <<cache, cached, dead>>
  /\ UNCHANGED <<kind, db, had, written>>

----------------------------------------------------------------------------
\* The cached value expires.
Expire ==
  /\ cached = "yes"
  /\ cached' = "no" /\ cache' = 0
  /\ UNCHANGED <<kind, db, had, written, flight, dead, pc, val, ans>>

Step(g) ==
  \/ Load(g) \/ LoadFails(g) \/ Refresh(g) \/ RefreshFails(g)
  \/ Store(g) \/ Update(g) \/ UpdateFails(g)

Next ==
  \/ ~dead /\ \E c \in Caller : Get(c) \/ Set(c)
  \/ ~dead /\ \E g \in Goroutine : Step(g)
  \/ Expire

Spec == Init /\ [][Next]_vars

\* A goroutine inside a call goes on, and expirations come.
FairSpec ==
  /\ Spec
  /\ \A g \in Goroutine : WF_vars(~dead /\ Step(g))
  /\ WF_vars(Expire)

----------------------------------------------------------------------------
\* Properties.

Loading == {g \in Goroutine : pc[g] = "load"}

\* Set and SetV3 write the database first and the cache only after that worked,
\* and a reader puts what it loaded: the cache never has a value which the
\* database never had.  SetV1, SetV2 and SingleFlightCacheV1 do not keep this.
CacheFromDB ==
  kind.read # "SingleFlightV1" /\ kind.write \notin {"SetV1", "SetV2"}
    => cached = "no" \/ cache \in had

\* With a singleflight group that lives as long as the cache (GetV3,
\* SingleFlightCacheV1) the database sees one load at a time.
OneLoad == Shares => Cardinality(Loading) <= 1

\* Set, SetV1 and SetV2 return nil only if the value has been in the database.
AckStored ==
  [][\A c \in Caller : pc[c] \in {"store", "update"} /\ pc'[c] = "idle" /\ ans'[c] = "ok"
       => val[c] \in had']_vars

\* A loaded value may be put into the cache after a newer one was written, and
\* two writers may pass each other between database and cache; the expiration
\* ends that: once no more is written, the cache agrees with the database or is
\* empty.  (Not so for NewBloomFilterCache, whose items stay, and
\* SingleFlightCacheV1, which caches nil.)
StaleEnds ==
  kind.read \notin {"Bloom", "SingleFlightV1"} => <>[](cached = "no" \/ cache = db)

\* A caller that waits for the load of another one, in singleflight, is in a call
\* that somebody is still carrying out: nobody is left waiting, however loads
\* fail.
NobodyStranded ==
  \A c \in Caller : pc[c] = "wait" =>
    c \in flight /\ \E l \in flight : pc[l] \in {"load", "refresh"}

----------------------------------------------------------------------------
\* The inductive invariant.

\* The values of the variables; a value on its way to the database or the cache
\* is one that was written.
TypeOK ==
  /\ kind \in [read : Readers, write : Writers, redis : BOOLEAN]
  /\ db \in {0} \cup Values /\ had \subseteq Values /\ cache \in {0} \cup Values
  /\ cached \in {"no", "yes", "forever"} /\ written \in 0..MaxWrites
  /\ flight \subseteq Caller /\ dead \in BOOLEAN
  /\ pc \in [Goroutine -> {"idle", "load", "wait", "refresh", "store", "update"}]
  /\ val \in [Goroutine -> {0} \cup Values]
  /\ \A g \in Goroutine : pc[g] \in {"refresh", "store", "update"} => val[g] # 0
  /\ ans \in [Caller -> {"none", "nil", "value", "error", "panic", "ok"}]

\* The row, and what a reader is about to put, have been in the database; so has
\* what a writer is about to put, unless it is SetV1 or SetV2; and only the
\* callers of Set and SetV1 update the cache themselves.
FromDB ==
  /\ db = 0 \/ db \in had
  /\ \A g \in Goroutine :
       /\ pc[g] = "refresh" => val[g] \in had
       /\ pc[g] = "update" /\ kind.write \notin {"SetV1", "SetV2"} => val[g] \in had
  /\ \A c \in Caller : pc[c] = "update" => kind.write # "SetV2"

\* A call of singleflight has one leader, and every reader that loads while the
\* group is shared is in the call.
OneLeader ==
  /\ flight # {} => Shares
  /\ \A c \in flight : pc[c] \in {"load", "wait", "refresh"}
  /\ \A c, d \in flight : pc[c] # "wait" /\ pc[d] # "wait" => c = d
  /\ Shares => \A g \in Goroutine : pc[g] \in {"load", "refresh"} => g \in flight

IInv == TypeOK /\ FromDB /\ CacheFromDB /\ OneLeader /\ NobodyStranded
=============================================================================
