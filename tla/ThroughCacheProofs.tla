-------------------------- MODULE ThroughCacheProofs --------------------------
(***************************************************************************)
(* Proofs about ThroughCache, for every number of goroutines, every kind   *)
(* of reader, writer and cache, and any number of values written.          *)
(***************************************************************************)
EXTENDS ThroughCache, FiniteSetTheorems, TLAPS

Labels == {"idle", "load", "wait", "refresh", "store", "update"}
Answers == {"none", "nil", "value", "error", "panic", "ok"}

(***************************************************************************)
(* IInv falls into what it says of the goroutines and their calls, which   *)
(* the operators Answer, Goto, Spawn and Do keep whoever uses them, and    *)
(* what it says of the database and the cache.                             *)
(***************************************************************************)
Calls ==
  /\ flight \subseteq Caller /\ pc \in [Goroutine -> Labels]
  /\ val \in [Goroutine -> {0} \cup Values] /\ ans \in [Caller -> Answers]
  /\ \A g \in Goroutine :
       /\ pc[g] \in {"refresh", "store", "update"} => val[g] # 0
       /\ pc[g] = "refresh" => val[g] \in had
       /\ pc[g] = "update" /\ kind.write \notin {"SetV1", "SetV2"} => val[g] \in had
  /\ \A c \in Caller : pc[c] = "update" => kind.write # "SetV2"
  /\ OneLeader /\ NobodyStranded

Contents ==
  /\ kind \in [read : Readers, write : Writers, redis : BOOLEAN]
  /\ db \in {0} \cup Values /\ had \subseteq Values /\ cache \in {0} \cup Values
  /\ cached \in {"no", "yes", "forever"} /\ written \in 0..MaxWrites /\ dead \in BOOLEAN
  /\ db = 0 \/ db \in had
  /\ CacheFromDB

\* The two halves make up the invariant.
LEMMA Halves == (IInv <=> Calls /\ Contents) /\ (IInv' <=> Calls' /\ Contents')
<1>1. IInv <=> Calls /\ Contents
  BY DEF IInv, TypeOK, FromDB, Calls, Contents, Labels, Answers
<1>2. IInv' <=> Calls' /\ Contents'
  BY DEF IInv, TypeOK, FromDB, Calls, Contents, Labels, Answers
<1> QED BY <1>1, <1>2

\* Everybody idle, nothing stored.
LEMMA InitIInv == Init => IInv
<1> SUFFICES ASSUME Init PROVE Calls /\ Contents
  BY Halves
<1>1. Calls
  BY DEF Init, Calls, Labels, Answers, OneLeader, NobodyStranded, Goroutine
<1>2. kind \in [read : Readers, write : Writers, redis : BOOLEAN]
  <2>1. PICK r \in ReadKinds, w \in WriteKinds, b \in BOOLEAN :
          kind = [read |-> r, write |-> w, redis |-> b]
    BY DEF Init
  <2>2. r \in Readers /\ w \in Writers
    BY ConstAssumption
  <2> QED BY <2>1, <2>2
<1>3. db = 0 /\ had = {} /\ cache = 0 /\ cached = "no" /\ written = 0 /\ dead = FALSE
  BY DEF Init
<1>4. 0 \in 0..MaxWrites
  BY ConstAssumption
<1>5. CacheFromDB
  BY <1>3 DEF CacheFromDB
<1> QED BY <1>1, <1>2, <1>3, <1>4, <1>5, Zenon DEF Contents

(***************************************************************************)
(* The operators that move goroutines.                                     *)
(***************************************************************************)
\* A goroutine answers, with everyone in its flight: nobody who waits is left
\* behind, since either the whole flight ends or the flight is not touched.
LEMMA AnswerCalls ==
  ASSUME Calls, NEW g \in Goroutine, NEW a \in Answers, Answer(g, a), kind' = kind, had \subseteq had'
  PROVE  Calls'
<1> USE DEF Calls
<1>1. /\ pc' \in [Goroutine -> Labels] /\ val' \in [Goroutine -> {0} \cup Values]
      /\ ans' \in [Caller -> Answers]
  BY DEF Answer, Labels
<1>2. /\ \A h \in Goroutine : h \in Together(g) => pc'[h] = "idle"
      /\ \A h \in Goroutine : h \notin Together(g) => pc'[h] = pc[h] /\ val'[h] = val[h]
      /\ flight' = flight \ Together(g) /\ Shares' = Shares
  BY DEF Answer, Shares
<1>3. (g \in flight => flight' = {}) /\ (g \notin flight => flight' = flight)
      /\ (g \notin flight => Together(g) = {g})
  BY <1>2 DEF Together
<1>4. OneLeader'
  BY <1>2, <1>3 DEF OneLeader, Goroutine
<1>5. NobodyStranded'
  <2> SUFFICES ASSUME NEW c \in Caller, pc'[c] = "wait"
               PROVE  c \in flight' /\ \E l \in flight' : pc'[l] \in {"load", "refresh"}
    BY DEF NobodyStranded
  <2>1. c \notin Together(g) /\ pc[c] = "wait"
    BY <1>2 DEF Goroutine
  <2>2. c \in flight /\ g \notin flight
    BY <2>1 DEF NobodyStranded, Together
  <2>3. PICK l \in flight : pc[l] \in {"load", "refresh"}
    BY <2>1 DEF NobodyStranded
  <2>4. l \in Goroutine /\ l \notin Together(g)
    BY <1>3, <2>2 DEF Goroutine
  <2> QED BY <1>2, <1>3, <2>2, <2>3, <2>4
<1> QED BY <1>1, <1>2, <1>4, <1>5 DEF Goroutine

\* A goroutine goes on inside its call.
LEMMA GotoCalls ==
  ASSUME Calls, NEW g \in Goroutine, NEW label \in {"load", "refresh", "store", "update"},
         NEW v \in {0} \cup Values, Goto(g, label, v), kind' = kind, had \subseteq had',
         pc[g] # "wait",
         label # "load" => v # 0,
         label = "refresh" => v \in had',
         label = "update" /\ kind.write \notin {"SetV1", "SetV2"} => v \in had',
         label = "update" /\ g \in Caller => kind.write # "SetV2",
         label \in {"load", "refresh"} /\ Shares => g \in flight,
         g \in flight => label \in {"load", "refresh"}
  PROVE  Calls'
<1> USE DEF Calls
<1>1. /\ pc' \in [Goroutine -> Labels] /\ val' \in [Goroutine -> {0} \cup Values]
      /\ ans' = ans /\ flight' = flight /\ Shares' = Shares
      /\ pc'[g] = label /\ val'[g] = v
      /\ \A h \in Goroutine : h # g => pc'[h] = pc[h] /\ val'[h] = val[h]
  BY DEF Goto, Shares, Labels
<1>2. OneLeader'
  BY <1>1 DEF OneLeader, Goroutine
<1>3. NobodyStranded'
  <2> SUFFICES ASSUME NEW c \in Caller, pc'[c] = "wait"
               PROVE  c \in flight' /\ \E l \in flight' : pc'[l] \in {"load", "refresh"}
    BY DEF NobodyStranded
  <2>1. pc[c] = "wait"
    BY <1>1 DEF Goroutine
  <2>2. PICK l \in flight : c \in flight /\ pc[l] \in {"load", "refresh"}
    BY <2>1 DEF NobodyStranded
  <2>3. pc'[l] \in {"load", "refresh"}
    BY <1>1, <2>2 DEF Goroutine
  <2> QED BY <1>1, <2>2, <2>3
<1> QED BY <1>1, <1>2, <1>3 DEF Goroutine

\* A goroutine that is in no flight answers and leaves the rest to a worker.
LEMMA SpawnCalls ==
  ASSUME Calls, NEW g \in Goroutine, NEW label \in {"load", "refresh", "store", "update"},
         NEW v \in {0} \cup Values, NEW a \in Answers, Spawn(g, label, v, a),
         kind' = kind, had \subseteq had',
         g \notin flight,
         label # "load" => v # 0,
         label = "refresh" => v \in had',
         label = "update" => kind.write = "SetV2",
         label \in {"load", "refresh"} => ~Shares
  PROVE  Calls'
<1> USE DEF Calls
<1>1. PICK w \in Worker :
        /\ pc[w] = "idle" /\ pc' = [pc EXCEPT ![g] = "idle", ![w] = label]
        /\ val' = [val EXCEPT ![g] = 0, ![w] = v] /\ ans' = [ans EXCEPT ![g] = a]
        /\ flight' = flight
  BY DEF Spawn
<1>2. w \in Goroutine /\ w \notin Caller /\ w \notin flight
  BY ConstAssumption DEF Goroutine
<1>3. /\ pc' \in [Goroutine -> Labels] /\ val' \in [Goroutine -> {0} \cup Values]
      /\ ans' \in [Caller -> Answers]
  BY <1>1, <1>2 DEF Labels
<1>4. /\ pc'[w] = label /\ val'[w] = v /\ Shares' = Shares
      /\ g # w => pc'[g] = "idle"
      /\ \A h \in Goroutine : h # g /\ h # w => pc'[h] = pc[h] /\ val'[h] = val[h]
  BY <1>1, <1>2 DEF Shares
<1>5. OneLeader'
  BY <1>1, <1>2, <1>4 DEF OneLeader, Goroutine
<1>6. NobodyStranded'
  <2> SUFFICES ASSUME NEW c \in Caller, pc'[c] = "wait"
               PROVE  c \in flight' /\ \E l \in flight' : pc'[l] \in {"load", "refresh"}
    BY DEF NobodyStranded
  <2>1. pc[c] = "wait"
    BY <1>2, <1>4 DEF Goroutine
  <2>2. PICK l \in flight : c \in flight /\ pc[l] \in {"load", "refresh"}
    BY <2>1 DEF NobodyStranded
  <2>3. pc'[l] \in {"load", "refresh"}
    BY <1>2, <1>4, <2>2 DEF Goroutine
  <2> QED BY <1>1, <2>2, <2>3
<1> QED BY <1>1, <1>2, <1>3, <1>4, <1>5, <1>6 DEF Goroutine

\* A caller leads a call of singleflight or joins the one there is, whose leader
\* goes on.
LEMMA DoCalls ==
  ASSUME Calls, NEW c \in Caller, pc[c] = "idle", Shares, Do(c), kind' = kind, had' = had
  PROVE  Calls'
<1> USE DEF Calls
<1>1. /\ pc' \in [Goroutine -> Labels] /\ val' = val /\ ans' = ans
      /\ flight' = flight \cup {c} /\ Shares' = Shares
      /\ pc'[c] = (IF flight = {} THEN "load" ELSE "wait")
      /\ \A h \in Goroutine : h # c => pc'[h] = pc[h]
  BY DEF Do, Shares, Labels, Goroutine
<1>2. c \notin flight
  BY DEF OneLeader
<1>3. OneLeader'
  BY <1>1, <1>2 DEF OneLeader, Goroutine
<1>4. NobodyStranded'
  <2> SUFFICES ASSUME NEW d \in Caller, pc'[d] = "wait"
               PROVE  d \in flight' /\ \E l \in flight' : pc'[l] \in {"load", "refresh"}
    BY DEF NobodyStranded
  <2>1. d \in flight' /\ flight # {}
    BY <1>1 DEF NobodyStranded, Goroutine
  <2>2. PICK e \in flight : TRUE
    BY <2>1
  <2>3. PICK l \in flight : pc[l] \in {"load", "refresh"}
    BY <2>2 DEF NobodyStranded, OneLeader
  <2>4. l # c /\ l \in Goroutine /\ l \in flight'
    BY <1>1, <1>2 DEF Goroutine
  <2> QED BY <1>1, <2>1, <2>3, <2>4
<1> QED BY <1>1, <1>3, <1>4 DEF Goroutine

\* The process ends, or a value expires: no goroutine moves.
LEMMA StillCalls ==
  ASSUME Calls, UNCHANGED <<kind, pc, val, ans, flight>>, had \subseteq had'
  PROVE  Calls'
<1>1. Shares' = Shares
  BY DEF Shares
<1> QED BY <1>1 DEF Calls, OneLeader, NobodyStranded

(***************************************************************************)
(* The steps of the readers.                                               *)
(***************************************************************************)
\* Get: a hit, an error, or a load, which changes no more than its own call.
LEMMA GetStep == ASSUME IInv, NEW c \in Caller, Get(c) PROVE IInv'
<1>1. Calls /\ Contents
  BY Halves
<1>2. pc[c] = "idle" /\ UNCHANGED <<kind, db, had, cache, cached, written, dead>> /\ c \in Goroutine
  BY DEF Get, Goroutine
<1>3. Contents'
  BY <1>1, <1>2 DEF Contents, CacheFromDB
<1>4. c \notin flight
  BY <1>1, <1>2 DEF Calls, OneLeader
<1>5. CASE GetHit(c)
  <2>1. PICK a \in Answers : Answer(c, a)
    BY <1>5 DEF GetHit, Answers
  <2> QED BY <1>1, <1>2, <1>3, <2>1, AnswerCalls, Halves
<1>6. CASE GetFails(c)
  BY <1>1, <1>2, <1>3, <1>6, AnswerCalls, Halves DEF GetFails, Answers
<1>7. CASE GetLoad(c)
  <2>1. CASE kind.read = "GetV2" /\ Spawn(c, "load", 0, "error")
    <3>1. ~Shares
      BY <2>1 DEF Shares
    <3> QED BY <1>1, <1>2, <1>3, <1>4, <2>1, <3>1, SpawnCalls, Halves DEF Answers
  <2>2. CASE Shares /\ Do(c)
    BY <1>1, <1>2, <1>3, <2>2, DoCalls, Halves
  <2>3. CASE ~Shares /\ Goto(c, "load", 0)
    BY <1>1, <1>2, <1>3, <1>4, <2>3, GotoCalls, Halves
  <2> QED BY <1>7, <2>1, <2>2, <2>3 DEF GetLoad
<1> QED BY <1>5, <1>6, <1>7 DEF Get

\* A load fails, or a refresh does: everyone in the call gets the error.
LEMMA FailStep == ASSUME IInv, NEW g \in Goroutine, LoadFails(g) \/ RefreshFails(g) PROVE IInv'
<1>1. Calls /\ Contents
  BY Halves
<1>2. UNCHANGED <<kind, db, had, cache, cached, written, dead>>
  BY DEF LoadFails, RefreshFails
<1>3. Contents'
  BY <1>1, <1>2 DEF Contents, CacheFromDB
<1>4. PICK a \in Answers : Answer(g, a)
  BY DEF LoadFails, RefreshFails, MissAnswer, Answers
<1> QED BY <1>1, <1>2, <1>3, <1>4, AnswerCalls, Halves

\* A load finds the row, which is in had.
LEMMA LoadStep == ASSUME IInv, NEW g \in Goroutine, Load(g) PROVE IInv'
<1>1. Calls /\ Contents
  BY Halves
<1>2. /\ pc[g] = "load" /\ db # 0 /\ UNCHANGED <<kind, db, had, cache, cached, written, dead>>
      /\ \/ kind.read = "GetV1" /\ Spawn(g, "refresh", db, "error")
         \/ kind.read # "GetV1" /\ Goto(g, "refresh", db)
  BY DEF Load
<1>3. Contents'
  BY <1>1, <1>2 DEF Contents, CacheFromDB
<1>4. db \in {0} \cup Values /\ db \in had'
  BY <1>1, <1>2 DEF Contents
<1>5. CASE kind.read = "GetV1" /\ Spawn(g, "refresh", db, "error")
  <2>1. ~Shares /\ g \notin flight
    BY <1>1, <1>5 DEF Shares, Calls, OneLeader
  <2> QED BY <1>1, <1>2, <1>3, <1>4, <1>5, <2>1, SpawnCalls, Halves DEF Answers
<1>6. CASE Goto(g, "refresh", db)
  <2>1. Shares => g \in flight
    BY <1>1, <1>2 DEF Calls, OneLeader
  <2> QED BY <1>1, <1>2, <1>3, <1>4, <1>6, <2>1, GotoCalls, Halves
<1> QED BY <1>2, <1>5, <1>6

\* The reader puts what it loaded, and all in its call return.
LEMMA RefreshStep == ASSUME IInv, NEW g \in Goroutine, Refresh(g) PROVE IInv'
<1>1. Calls /\ Contents
  BY Halves
<1>2. /\ pc[g] = "refresh" /\ UNCHANGED <<kind, db, had, written, dead>>
      /\ cache' = IF kind.read = "SingleFlightV1" THEN 0 ELSE val[g]
      /\ cached' \in {"yes", "forever"}
  BY DEF Refresh, Put
<1>3. val[g] \in had /\ val[g] \in Values
  BY <1>1, <1>2 DEF Calls, Contents
<1>4. Contents'
  BY <1>1, <1>2, <1>3 DEF Contents, CacheFromDB
<1>5. PICK a \in Answers : Answer(g, a)
  <2>1. LoadedAnswer \in Answers
    BY DEF LoadedAnswer, MissAnswer, Answers
  <2> QED BY <2>1 DEF Refresh
<1> QED BY <1>1, <1>2, <1>4, <1>5, AnswerCalls, Halves

(***************************************************************************)
(* The steps of the writers.                                               *)
(***************************************************************************)
\* A writer begins, with the next value.
LEMMA SetStep == ASSUME IInv, NEW c \in Caller, Set(c) PROVE IInv'
<1>1. Calls /\ Contents
  BY Halves
<1>2. /\ pc[c] = "idle" /\ written < MaxWrites /\ written' = written + 1
      /\ UNCHANGED <<kind, db, had, cache, cached, dead>> /\ c \in Goroutine
  BY DEF Set, Goroutine
<1>3. written' \in 0..MaxWrites /\ written' \in Values /\ written' # 0
  BY <1>1, <1>2, ConstAssumption DEF Contents, Values
<1>4. Contents'
  BY <1>1, <1>2, <1>3 DEF Contents, CacheFromDB
<1>5. c \notin flight
  BY <1>1, <1>2 DEF Calls, OneLeader
<1>6. CASE kind.write = "SetV3" /\ Spawn(c, "store", written', "ok")
  BY <1>1, <1>2, <1>3, <1>4, <1>5, <1>6, SpawnCalls, Halves DEF Answers
<1>7. CASE kind.write = "SetV1" /\ Goto(c, "update", written')
  BY <1>1, <1>2, <1>3, <1>4, <1>5, <1>7, GotoCalls, Halves
<1>8. CASE Goto(c, "store", written')
  BY <1>1, <1>2, <1>3, <1>4, <1>5, <1>8, GotoCalls, Halves
<1> QED BY <1>6, <1>7, <1>8 DEF Set

\* What a goroutine at "store" or "update" is: in no flight, with a value.
LEMMA WriterFacts ==
  ASSUME Calls, NEW g \in Goroutine, pc[g] \in {"store", "update"}
  PROVE  g \notin flight /\ val[g] \in Values /\ val[g] # 0 /\ Together(g) = {g}
  BY DEF Calls, OneLeader, Together

\* StoreFunc returns, with the value stored or not; had grows with the row.
LEMMA StoreStep == ASSUME IInv, NEW g \in Goroutine, Store(g) PROVE IInv'
<1>1. Calls /\ Contents
  BY Halves
<1>2. /\ pc[g] = "store" /\ UNCHANGED <<kind, written>>
      /\ \/ db' = val[g] /\ had' = had \cup {val[g]}
         \/ UNCHANGED <<db, had>>
      /\ StoreFailed(g) \/ (Stored(g) /\ had' = had \cup {val[g]})
  BY DEF Store
<1>3. g \notin flight /\ val[g] \in Values /\ val[g] # 0 /\ had \subseteq had'
  BY <1>1, <1>2, WriterFacts
<1>4. ASSUME UNCHANGED <<cache, dead>>, cached' \in {cached, "no"} PROVE Contents'
  BY <1>1, <1>2, <1>3, <1>4 DEF Contents, CacheFromDB
<1>5. CASE Stored(g) /\ had' = had \cup {val[g]}
  <2>1. UNCHANGED <<cache, cached, dead>>
    BY <1>5 DEF Stored
  <2>2. CASE Answer(g, "ok")
    BY <1>1, <1>2, <1>3, <1>4, <2>1, <2>2, AnswerCalls, Halves DEF Answers
  <2>3. CASE kind.write = "SetV2" /\ Spawn(g, "update", val[g], "ok")
    BY <1>1, <1>2, <1>3, <1>4, <2>1, <2>3, SpawnCalls, Halves DEF Answers
  <2>4. CASE kind.write # "SetV2" /\ Goto(g, "update", val[g])
    BY <1>1, <1>2, <1>3, <1>4, <1>5, <2>1, <2>4, GotoCalls, Halves
  <2> QED BY <1>5, <2>2, <2>3, <2>4 DEF Stored
<1>6. CASE StoreFailed(g)
  <2>1. CASE Fatal
    <3>1. UNCHANGED <<cache, pc, val, ans, flight>> /\ cached' \in {cached, "no"} /\ dead'
      BY <2>1 DEF Fatal
    <3>2. Contents'
      BY <1>1, <1>2, <1>3, <3>1 DEF Contents, CacheFromDB
    <3> QED BY <1>1, <1>2, <1>3, <3>1, <3>2, StillCalls, Halves
  <2>2. CASE kind.write = "SetV2" /\ Spawn(g, "update", val[g], "error")
             /\ UNCHANGED <<cache, cached, dead>>
    BY <1>1, <1>2, <1>3, <1>4, <2>2, SpawnCalls, Halves DEF Answers
  <2>3. CASE Answer(g, "error") /\ UNCHANGED <<cache, cached, dead>>
    BY <1>1, <1>2, <1>3, <1>4, <2>3, AnswerCalls, Halves DEF Answers
  <2> QED BY <1>6, <2>1, <2>2, <2>3 DEF StoreFailed
<1> QED BY <1>2, <1>5, <1>6

\* The writer puts its value: stored before, unless SetV1 or SetV2 wrote it.
LEMMA UpdateStep == ASSUME IInv, NEW g \in Goroutine, Update(g) PROVE IInv'
<1>1. Calls /\ Contents
  BY Halves
<1>2. /\ pc[g] = "update" /\ cache' = val[g] /\ cached' = "yes"
      /\ UNCHANGED <<kind, db, had, written, dead>>
      /\ IF kind.write = "SetV1" THEN Goto(g, "store", val[g]) ELSE Answer(g, "ok")
  BY DEF Update, Put
<1>3. g \notin flight /\ val[g] \in Values /\ val[g] # 0
  BY <1>1, <1>2, WriterFacts
<1>4. Contents'
  BY <1>1, <1>2, <1>3 DEF Calls, Contents, CacheFromDB
<1>5. CASE Goto(g, "store", val[g])
  BY <1>1, <1>2, <1>3, <1>4, <1>5, GotoCalls, Halves
<1>6. CASE Answer(g, "ok")
  BY <1>1, <1>2, <1>4, <1>6, AnswerCalls, Halves DEF Answers
<1> QED BY <1>2, <1>5, <1>6

\* The Set of the cache fails.
LEMMA UpdateFailsStep == ASSUME IInv, NEW g \in Goroutine, UpdateFails(g) PROVE IInv'
<1>1. Calls /\ Contents
  BY Halves
<1>2. UNCHANGED <<kind, db, had, written>>
  BY DEF UpdateFails
<1>3. CASE Fatal
  <2>1. UNCHANGED <<cache, pc, val, ans, flight>> /\ cached' \in {cached, "no"} /\ dead'
    BY <1>3 DEF Fatal
  <2>2. Contents'
    BY <1>1, <1>2, <2>1 DEF Contents, CacheFromDB
  <2> QED BY <1>1, <1>2, <2>1, <2>2, StillCalls, Halves
<1>4. CASE Answer(g, "error") /\ UNCHANGED <<cache, cached, dead>>
  <2>1. Contents'
    BY <1>1, <1>2, <1>4 DEF Contents, CacheFromDB
  <2> QED BY <1>1, <1>2, <1>4, <2>1, AnswerCalls, Halves DEF Answers
<1> QED BY <1>3, <1>4 DEF UpdateFails

\* The cached value expires.
LEMMA ExpireStep == ASSUME IInv, Expire PROVE IInv'
<1>1. Calls /\ Contents
  BY Halves
<1>2. /\ cached' = "no" /\ cache' = 0
      /\ UNCHANGED <<kind, db, had, written, flight, dead, pc, val, ans>>
  BY DEF Expire
<1>3. Contents'
  BY <1>1, <1>2 DEF Contents, CacheFromDB
<1> QED BY <1>1, <1>2, <1>3, StillCalls, Halves

\* Every step keeps the invariant.
LEMMA NextIInv == IInv /\ [Next]_vars => IInv'
<1> SUFFICES ASSUME IInv, [Next]_vars PROVE IInv'
  OBVIOUS
<1>1. ASSUME NEW c \in Caller, Get(c) \/ Set(c) PROVE IInv'
  BY <1>1, GetStep, SetStep
<1>2. ASSUME NEW g \in Goroutine, Step(g) PROVE IInv'
  BY <1>2, LoadStep, FailStep, RefreshStep, StoreStep, UpdateStep, UpdateFailsStep DEF Step
<1>3. CASE UNCHANGED vars
  <2>1. Calls /\ Contents
    BY Halves
  <2>2. UNCHANGED <<kind, db, had, cache, cached, written, flight, dead, pc, val, ans>>
    BY <1>3 DEF vars
  <2>3. Contents'
    BY <2>1, <2>2 DEF Contents, CacheFromDB
  <2> QED BY <2>1, <2>2, <2>3, StillCalls, Halves
<1> QED BY <1>1, <1>2, <1>3, ExpireStep DEF Next

\* The invariant holds in every reachable state.
THEOREM ThroughInvariant == Spec => []IInv
  BY InitIInv, NextIInv, PTL DEF Spec

\* Where the writer stores first, the cache has only what the database had.
THEOREM CacheHasRows == Spec => []CacheFromDB
  BY ThroughInvariant, PTL DEF IInv

\* A shared singleflight group lets one load through at a time.
THEOREM SingleLoad == Spec => []OneLoad
<1>1. ASSUME IInv PROVE OneLoad
  <2> SUFFICES ASSUME Shares PROVE Cardinality(Loading) <= 1
    BY DEF OneLoad
  <2>1. \A g, h \in Loading : g = h
    BY <1>1 DEF IInv, OneLeader, Loading
  <2>2. CASE Loading = {}
    BY <2>2, FS_EmptySet
  <2>3. ASSUME NEW g \in Loading PROVE Cardinality(Loading) <= 1
    <3>1. Loading = {g}
      BY <2>1
    <3> QED BY <3>1, FS_Singleton
  <2> QED BY <2>2, <2>3
<1> QED BY <1>1, ThroughInvariant, PTL

\* No caller waits in a call of singleflight that nobody carries out.
THEOREM NoneStranded == Spec => []NobodyStranded
  BY ThroughInvariant, PTL DEF IInv

(***************************************************************************)
(* What an acknowledgement of a writer means.                              *)
(***************************************************************************)
\* Nobody moves a caller at "store" or "update" but itself.
LEMMA OthersKeep ==
  ASSUME Calls, NEW c \in Caller, pc[c] \in {"store", "update"},
         NEW g \in Goroutine, g # c,
         \/ \E a \in Answers : Answer(g, a)
         \/ \E label \in Labels, v \in {0} \cup Values : Goto(g, label, v)
         \/ \E label \in Labels, v \in {0} \cup Values, a \in Answers : Spawn(g, label, v, a)
         \/ Do(g)
         \/ pc' = pc
  PROVE  pc'[c] = pc[c]
<1>1. c \in Goroutine /\ c \notin flight /\ c \notin Worker
  BY ConstAssumption, WriterFacts DEF Goroutine
<1>2. ASSUME NEW a \in Answers, Answer(g, a) PROVE pc'[c] = pc[c]
  <2>1. c \notin Together(g)
    BY <1>1 DEF Together
  <2> QED BY <1>1, <1>2, <2>1 DEF Answer
<1>3. ASSUME NEW label \in Labels, NEW v \in {0} \cup Values, Goto(g, label, v) PROVE pc'[c] = pc[c]
  BY <1>1, <1>3 DEF Goto, Calls
<1>4. ASSUME NEW label \in Labels, NEW v \in {0} \cup Values, NEW a \in Answers, Spawn(g, label, v, a)
      PROVE  pc'[c] = pc[c]
  BY <1>1, <1>4 DEF Spawn, Calls
<1>5. CASE Do(g)
  BY <1>1, <1>5 DEF Do, Calls
<1> QED BY <1>2, <1>3, <1>4, <1>5

\* The step in which a caller's Set, SetV1 or SetV2 returns nil.
LEMMA AckStep ==
  ASSUME IInv, Next, NEW c \in Caller, pc[c] \in {"store", "update"},
         pc'[c] = "idle", ans'[c] = "ok"
  PROVE  val[c] \in had'
<1>1. Calls /\ Contents
  BY Halves
<1>2. c \in Goroutine /\ c \notin flight /\ c \in Together(c)
  BY <1>1, WriterFacts DEF Goroutine
<1>3. CASE Store(c)
  <2>1. CASE StoreFailed(c)
    <3>1. pc'[c] = pc[c] \/ ans'[c] = "error"
      BY <1>1, <1>2, <2>1 DEF StoreFailed, Fatal, Spawn, Answer, Calls
    <3> QED BY <3>1
  <2>2. CASE had' = had \cup {val[c]}
    BY <2>2
  <2> QED BY <1>3, <2>1, <2>2 DEF Store
<1>4. CASE Update(c)
  <2>1. kind.write # "SetV1"
    <3>1. ASSUME Goto(c, "store", val[c]) PROVE pc'[c] = "store"
      BY <1>1, <1>2, <3>1 DEF Goto, Calls
    <3> QED BY <1>4, <3>1 DEF Update
  <2> QED BY <1>1, <1>2, <1>4, <2>1 DEF Update, Calls
<1>5. CASE UpdateFails(c)
  <2>1. pc'[c] = pc[c] \/ ans'[c] = "error"
    BY <1>2, <1>5 DEF UpdateFails, Fatal, Answer
  <2> QED BY <2>1
<1>6. CASE \E g \in Goroutine : g # c /\ (Step(g) \/ (g \in Caller /\ (Get(g) \/ Set(g))))
  <2>1. PICK g \in Goroutine : g # c /\ (Step(g) \/ (g \in Caller /\ (Get(g) \/ Set(g))))
    BY <1>6
  <2>2. \/ \E a \in Answers : Answer(g, a)
        \/ \E label \in Labels, v \in {0} \cup Values : Goto(g, label, v)
        \/ \E label \in Labels, v \in {0} \cup Values, a \in Answers : Spawn(g, label, v, a)
        \/ Do(g)
        \/ pc' = pc
    <3>1. db \in {0} \cup Values /\ val[g] \in {0} \cup Values /\ 0 \in {0} \cup Values
      BY <1>1 DEF Calls, Contents
    <3>2. CASE Get(g)
      BY <3>1, <3>2 DEF Get, GetHit, GetFails, GetLoad, Answers, Labels
    <3>3. CASE Set(g)
      <4>1. written' \in {0} \cup Values
        BY <1>1, <3>3, ConstAssumption DEF Set, Contents, Values
      <4> QED BY <3>3, <4>1 DEF Set, Answers, Labels
    <3>4. CASE Load(g) \/ LoadFails(g) \/ Refresh(g) \/ RefreshFails(g)
      BY <3>1, <3>4 DEF Load, LoadFails, Refresh, RefreshFails, LoadedAnswer, MissAnswer, Answers, Labels
    <3>5. CASE Store(g)
      BY <3>1, <3>5 DEF Store, Stored, StoreFailed, Fatal, Answers, Labels
    <3>6. CASE Update(g) \/ UpdateFails(g)
      BY <3>1, <3>6 DEF Update, UpdateFails, Fatal, Answers, Labels
    <3> QED BY <2>1, <3>2, <3>3, <3>4, <3>5, <3>6 DEF Step
  <2> QED BY <1>1, <2>1, <2>2, OthersKeep
<1>7. CASE Expire
  BY <1>7 DEF Expire
<1>8. CASE Get(c) \/ Set(c)
  BY <1>8 DEF Get, Set
<1>9. CASE Load(c) \/ LoadFails(c) \/ Refresh(c) \/ RefreshFails(c)
  BY <1>9 DEF Load, LoadFails, Refresh, RefreshFails
<1> QED BY <1>3, <1>4, <1>5, <1>6, <1>7, <1>8, <1>9 DEF Next, Step, Goroutine

\* A writer that returns nil, other than SetV3, has stored its value.
THEOREM AckMeansStored == Spec => AckStored
<1>1. ASSUME IInv, [Next]_vars
      PROVE  [\A c \in Caller : pc[c] \in {"store", "update"} /\ pc'[c] = "idle" /\ ans'[c] = "ok"
                => val[c] \in had']_vars
  BY <1>1, AckStep
<1> QED BY <1>1, ThroughInvariant, PTL DEF Spec, AckStored
===============================================================================
