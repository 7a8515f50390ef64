---------------------------- MODULE ConnPoolProofs ----------------------------
(***************************************************************************)
(* Proofs about ConnPool, for every number of callers and connections and  *)
(* every choice of the limits.                                             *)
(***************************************************************************)
EXTENDS ConnPool, FiniteSetTheorems, TLAPS

Entry == [conn : Conn, old : BOOLEAN]
Conns(q) == {q[i].conn : i \in DOMAIN q}
OnceEach(q) == \A i, j \in DOMAIN q : q[i].conn = q[j].conn => i = j

(***************************************************************************)
(* What the operations on the idle queue do to the connections in it.      *)
(***************************************************************************)
\* A connection that is put into the queue, if it was not there.
LEMMA AppendConns ==
  ASSUME NEW q \in Seq(Entry), OnceEach(q),
         NEW c \in Conn, c \notin Conns(q)
  PROVE  /\ Append(q, [conn |-> c, old |-> FALSE]) \in Seq(Entry)
         /\ Conns(Append(q, [conn |-> c, old |-> FALSE])) = Conns(q) \cup {c}
         /\ OnceEach(Append(q, [conn |-> c, old |-> FALSE]))
<1> DEFINE e == [conn |-> c, old |-> FALSE]
           r == Append(q, e)
<1>0. e \in Entry /\ e.conn = c
  BY DEF Entry
<1> HIDE DEF e
<1>1. r \in Seq(Entry) /\ Len(r) = Len(q) + 1 /\ r[Len(q) + 1] = e
      /\ Len(q) \in Nat /\ DOMAIN q = 1..Len(q) /\ DOMAIN r = 1..Len(q) + 1
      /\ \A i \in DOMAIN q : r[i] = q[i]
  BY <1>0
<1> HIDE DEF r
<1>2. DOMAIN r = DOMAIN q \cup {Len(q) + 1} /\ Len(q) + 1 \notin DOMAIN q
  BY <1>1
<1>3. Conns(r) = Conns(q) \cup {c}
  BY <1>0, <1>1, <1>2 DEF Conns
<1>4. OnceEach(r)
  BY <1>0, <1>1, <1>2 DEF Conns, OnceEach
<1> QED BY <1>1, <1>3, <1>4, Zenon DEF r, e

\* The first connection leaves the queue.
LEMMA TailConns ==
  ASSUME NEW q \in Seq(Entry), q # <<>>, OnceEach(q)
  PROVE  /\ Tail(q) \in Seq(Entry) /\ Len(Tail(q)) = Len(q) - 1
         /\ Head(q) \in Entry /\ Head(q).conn \in Conns(q)
         /\ Conns(Tail(q)) = Conns(q) \ {Head(q).conn}
         /\ OnceEach(Tail(q))
<1> DEFINE r == Tail(q)
<1>1. r \in Seq(Entry) /\ Len(r) = Len(q) - 1 /\ Len(q) \in Nat \ {0}
      /\ DOMAIN q = 1..Len(q) /\ DOMAIN r = 1..Len(q) - 1
      /\ Head(q) = q[1]
      /\ \A i \in DOMAIN r : r[i] = q[i + 1]
  OBVIOUS
<1> HIDE DEF r
<1>2. 1 \in DOMAIN q /\ Head(q) \in Entry /\ Head(q).conn \in Conns(q)
  BY <1>1 DEF Conns
<1>3. \A i \in DOMAIN r : i + 1 \in DOMAIN q /\ i + 1 # 1
  BY <1>1
<1>4. \A j \in DOMAIN q : j # 1 => j - 1 \in DOMAIN r /\ r[j - 1] = q[j]
  BY <1>1
<1>5. OnceEach(r)
  <2> SUFFICES ASSUME NEW i \in DOMAIN r, NEW j \in DOMAIN r, r[i].conn = r[j].conn
               PROVE  i = j
    BY DEF OnceEach
  <2>1. i + 1 = j + 1
    BY <1>1, <1>3 DEF OnceEach
  <2> QED BY <1>1, <2>1
<1>6. Conns(r) \subseteq Conns(q) \ {Head(q).conn}
  BY <1>1, <1>2, <1>3 DEF Conns, OnceEach
<1>7. Conns(q) \ {Head(q).conn} \subseteq Conns(r)
  BY <1>1, <1>2, <1>4 DEF Conns
<1> QED BY <1>1, <1>2, <1>5, <1>6, <1>7 DEF r

\* An expiration leaves every connection where it is.
LEMMA ExpireConns ==
  ASSUME NEW q \in Seq(Entry), NEW k \in DOMAIN q
  PROVE  /\ [q EXCEPT ![k].old = TRUE] \in Seq(Entry)
         /\ Len([q EXCEPT ![k].old = TRUE]) = Len(q)
         /\ Conns([q EXCEPT ![k].old = TRUE]) = Conns(q)
         /\ OnceEach(q) => OnceEach([q EXCEPT ![k].old = TRUE])
<1> DEFINE r == [q EXCEPT ![k].old = TRUE]
<1>0. q[k] \in Entry
  OBVIOUS
<1>1. [q[k] EXCEPT !.old = TRUE] \in Entry /\ [q[k] EXCEPT !.old = TRUE].conn = q[k].conn
  BY <1>0, Zenon DEF Entry
<1>2. r = [q EXCEPT ![k] = [q[k] EXCEPT !.old = TRUE]]
  OBVIOUS
<1>3. r \in Seq(Entry) /\ Len(r) = Len(q) /\ DOMAIN r = DOMAIN q
  BY <1>1, <1>2
<1>4. \A i \in DOMAIN q : r[i].conn = q[i].conn
  BY <1>1, <1>2
<1> HIDE DEF r
<1>5. Conns(r) = Conns(q) /\ (OnceEach(q) => OnceEach(r))
  BY <1>3, <1>4 DEF Conns, OnceEach
<1> QED BY <1>3, <1>5 DEF r

(***************************************************************************)
(* The queue of requests.                                                  *)
(***************************************************************************)
Members(q) == {q[i] : i \in DOMAIN q}
NoRepeats(q) == \A i, j \in DOMAIN q : q[i] = q[j] => i = j

\* A request joins the queue.
LEMMA AppendRequest ==
  ASSUME NEW q \in Seq(Caller), NEW g \in Caller, g \notin Members(q), NoRepeats(q)
  PROVE  /\ Append(q, g) \in Seq(Caller)
         /\ Members(Append(q, g)) = Members(q) \cup {g}
         /\ NoRepeats(Append(q, g))
<1> DEFINE r == Append(q, g)
<1>1. r \in Seq(Caller) /\ r[Len(q) + 1] = g
      /\ Len(q) \in Nat /\ DOMAIN q = 1..Len(q) /\ DOMAIN r = 1..Len(q) + 1
      /\ \A i \in DOMAIN q : r[i] = q[i]
  OBVIOUS
<1> HIDE DEF r
<1>2. DOMAIN r = DOMAIN q \cup {Len(q) + 1}
  BY <1>1
<1>3. Members(r) = Members(q) \cup {g}
  BY <1>1, <1>2 DEF Members
<1>4. NoRepeats(r)
  BY <1>1, <1>2 DEF NoRepeats, Members
<1> QED BY <1>1, <1>3, <1>4 DEF r

\* The first request leaves the queue.
LEMMA TailRequest ==
  ASSUME NEW q \in Seq(Caller), q # <<>>, NoRepeats(q)
  PROVE  /\ Tail(q) \in Seq(Caller) /\ Head(q) \in Members(q)
         /\ Members(Tail(q)) = Members(q) \ {Head(q)}
         /\ NoRepeats(Tail(q))
<1> DEFINE r == Tail(q)
<1>1. r \in Seq(Caller) /\ Len(q) \in Nat \ {0}
      /\ DOMAIN q = 1..Len(q) /\ DOMAIN r = 1..Len(q) - 1
      /\ Head(q) = q[1] /\ \A i \in DOMAIN r : r[i] = q[i + 1]
  OBVIOUS
<1> HIDE DEF r
<1>2. 1 \in DOMAIN q
  BY <1>1
<1>3. \A i \in DOMAIN r : i + 1 \in DOMAIN q /\ i + 1 # 1
  BY <1>1
<1>4. \A j \in DOMAIN q : j # 1 => j - 1 \in DOMAIN r /\ r[j - 1] = q[j]
  BY <1>1
<1>5. NoRepeats(r)
  <2> SUFFICES ASSUME NEW i \in DOMAIN r, NEW j \in DOMAIN r, r[i] = r[j] PROVE i = j
    BY DEF NoRepeats
  <2>1. i + 1 = j + 1
    BY <1>1, <1>3 DEF NoRepeats
  <2> QED BY <1>1, <2>1
<1>6. Members(r) = Members(q) \ {q[1]}
  BY <1>1, <1>2, <1>3, <1>4 DEF Members, NoRepeats
<1> QED BY <1>1, <1>2, <1>5, <1>6, Zenon DEF r, Members

(***************************************************************************)
(* The invariant holds initially and every step keeps it.                  *)
(***************************************************************************)
\* The two queues in the terms of the lemmas above.
LEMMA IdleFacts ==
  ASSUME TypeOK, Apart
  PROVE  /\ IdleSet = Conns(idleConn) /\ IdleSet' = Conns(idleConn')
         /\ idleConn \in Seq(Entry) /\ OnceEach(idleConn) /\ IdleSet \subseteq made
         /\ Len(idleConn) \in Nat /\ (idleConn = <<>> <=> Len(idleConn) = 0)
         /\ (Len(idleConn) > 0 => IdleSet # {})
<1>1. IdleSet = Conns(idleConn) /\ IdleSet' = Conns(idleConn')
  BY DEF IdleSet, Conns
<1>2. idleConn \in Seq(Entry)
  BY DEF TypeOK, Entry
<1>3. OnceEach(idleConn) /\ IdleSet \subseteq made
  BY DEF Apart, OnceEach
<1>4. Len(idleConn) \in Nat /\ (idleConn = <<>> <=> Len(idleConn) = 0)
  BY <1>2
<1>5. Len(idleConn) > 0 => 1 \in DOMAIN idleConn
  BY <1>2
<1>6. Len(idleConn) > 0 => IdleSet # {}
  BY <1>5 DEF IdleSet
<1> QED BY <1>1, <1>2, <1>3, <1>4, <1>6

(* The queue of waiting requests, seen as a set of callers without repetition. *)
LEMMA QueueFacts ==
  ASSUME TypeOK, QueueOnce
  PROVE  /\ Queued = Members(connReq) /\ Queued' = Members(connReq')
         /\ Queued \subseteq Caller /\ NoRepeats(connReq)
<1>1. Queued = Members(connReq) /\ Queued' = Members(connReq') /\ NoRepeats(connReq)
  BY DEF Queued, Members, NoRepeats, QueueOnce
<1>2. Queued \subseteq Caller
  BY DEF TypeOK, Queued
<1> QED BY <1>1, <1>2

\* Nothing was made and nobody has called.
LEMMA InitIInv == Init => IInv
<1> SUFFICES ASSUME Init PROVE IInv
  OBVIOUS
<1> USE ConstAssumption DEF Init
<1>1. TypeOK
  BY DEF TypeOK, Waiting, Holding
<1>2. IdleSet = {} /\ Queued = {}
  BY DEF IdleSet, Queued
<1>3. HeldInUse /\ Apart /\ Kept
  BY <1>2 DEF HeldInUse, Apart, Kept, Holding
<1>4. QueueOnce /\ SendHasRoom
  BY <1>2 DEF QueueOnce, SendHasRoom
<1>5. Cardinality(made) = 0
  BY FS_EmptySet
<1>6. Started /\ Circulates
  BY <1>5 DEF Started, Circulates
<1> QED BY <1>1, <1>3, <1>4, <1>6 DEF IInv

\* A connection from the factory is new, and one more.
LEMMA DialFacts ==
  ASSUME TypeOK, NEW c \in Conn, Dial(c)
  PROVE  /\ c \notin made /\ c # NoConn /\ made' = made \cup {c} /\ open' = open \cup {c}
         /\ made' \subseteq Conn /\ open' \subseteq made'
         /\ Cardinality(made) \in Nat /\ Cardinality(made') = Cardinality(made) + 1
<1>1. c \notin made /\ c # NoConn /\ made' = made \cup {c} /\ open' = open \cup {c}
  BY ConstAssumption DEF Dial
<1>2. IsFiniteSet(made)
  BY ConstAssumption, FS_Subset DEF TypeOK
<1>3. Cardinality(made) \in Nat /\ Cardinality(made \cup {c}) = Cardinality(made) + 1
  BY <1>1, <1>2, FS_AddElement, FS_CardinalityType, Zenon
<1> QED BY <1>1, <1>3 DEF TypeOK

\* NewPool: while it runs nobody else does.
LEMMA NewPoolStep ==
  ASSUME IInv, NewPoolDial \/ NewPoolError \/ NewPoolReturn PROVE IInv'
<1> USE ConstAssumption DEF IInv
<1>1. ASSUME NEW c \in Conn, Dial(c), pool = "building",
             Len(idleConn) < InitCnt, Len(idleConn) < MaxIdleCnt,
             idleConn' = Append(idleConn, [conn |-> c, old |-> FALSE]),
             UNCHANGED <<pool, lock, cnt, connReq, reqCh, pc, held, to>>
      PROVE  IInv'
  <2>1. /\ c \notin made /\ c # NoConn /\ made' = made \cup {c} /\ open' = open \cup {c}
        /\ made' \subseteq Conn /\ open' \subseteq made'
        /\ Cardinality(made) \in Nat /\ Cardinality(made') = Cardinality(made) + 1
    BY <1>1, DialFacts
  <2>2. /\ idleConn \in Seq(Entry) /\ OnceEach(idleConn)
        /\ IdleSet \subseteq made /\ Len(idleConn) \in Nat
        /\ IdleSet = Conns(idleConn) /\ IdleSet' = Conns(idleConn')
    BY IdleFacts
  <2>3. /\ idleConn' \in Seq(Entry) /\ OnceEach(idleConn') /\ IdleSet' = IdleSet \cup {c}
    BY <1>1, <2>1, <2>2, AppendConns
  <2>4. Len(idleConn') = Len(idleConn) + 1
    BY <1>1, <2>2
  <2>5. TypeOK'
    BY <1>1, <2>1, <2>2, <2>3, <2>4 DEF TypeOK, Entry
  <2>6. HeldInUse' /\ QueueOnce' /\ SendHasRoom'
    BY <1>1 DEF HeldInUse, QueueOnce, SendHasRoom, Queued
  <2>7. Apart'
    BY <1>1, <2>1, <2>3 DEF Apart, OnceEach
  <2>8. Kept'
    BY <1>1, <2>1, <2>3 DEF Kept
  <2>9. Started'
    BY <1>1, <2>1, <2>2, <2>4 DEF Started, TypeOK
  <2>10. Circulates'
    BY <2>3 DEF Circulates
  <2> QED BY <2>5, <2>6, <2>7, <2>8, <2>9, <2>10
<1>2. CASE NewPoolError \/ NewPoolReturn
  <2>1. pool = "building" /\ UNCHANGED <<lock, cnt, connReq, reqCh, idleConn, made, open, pc, held, to>>
    BY <1>2 DEF NewPoolError, NewPoolReturn
  <2>2. TypeOK'
    BY <1>2, <2>1 DEF TypeOK, NewPoolError, NewPoolReturn
  <2>3. HeldInUse' /\ QueueOnce' /\ SendHasRoom' /\ Apart' /\ Kept' /\ Circulates'
    BY <2>1 DEF HeldInUse, QueueOnce, SendHasRoom, Queued, Apart, Kept, Circulates, IdleSet
  <2>4. Started'
    <3>1. CASE NewPoolError
      BY <2>1, <3>1 DEF Started, NewPoolError
    <3>2. CASE NewPoolReturn
      <4>1. InitCnt > 0 => IdleSet # {} /\ IdleSet \subseteq made
        BY <3>2, IdleFacts DEF NewPoolReturn
      <4> QED BY <2>1, <3>2, <4>1 DEF Started, NewPoolReturn
    <3> QED BY <1>2, <3>1, <3>2
  <2> QED BY <2>2, <2>3, <2>4
<1> QED BY <1>1, <1>2, Zenon DEF NewPoolDial

\* Get takes an idle connection: it goes from the queue to the caller.
LEMMA GetIdleStep ==
  ASSUME IInv, NEW g \in Caller, GetIdle(g) PROVE IInv'
<1> USE ConstAssumption DEF IInv
<1> DEFINE c == Head(idleConn).conn
<1>1. /\ pool = "ready" /\ idleConn # <<>> /\ pc[g] = "idle"
      /\ pc' = [pc EXCEPT ![g] = "using"] /\ held' = [held EXCEPT ![g] = c]
      /\ open' \subseteq open /\ idleConn' = Tail(idleConn)
      /\ UNCHANGED <<pool, lock, cnt, connReq, reqCh, made, to>>
  BY DEF GetIdle, Move
<1>2. /\ idleConn \in Seq(Entry) /\ OnceEach(idleConn)
      /\ IdleSet \subseteq made /\ Len(idleConn) \in Nat
      /\ IdleSet = Conns(idleConn) /\ IdleSet' = Conns(idleConn')
  BY IdleFacts
<1>3. /\ idleConn' \in Seq(Entry) /\ Len(idleConn') = Len(idleConn) - 1
      /\ c \in IdleSet /\ IdleSet' = IdleSet \ {c} /\ OnceEach(idleConn')
  BY <1>1, <1>2, TailConns
<1> HIDE DEF c
<1>4. c \in Conn /\ c # NoConn /\ c \in made
  BY <1>2, <1>3 DEF TypeOK
<1>5. /\ held'[g] = c /\ held[g] = NoConn /\ pc'[g] = "using"
      /\ \A h \in Caller : h # g => held'[h] = held[h] /\ pc'[h] = pc[h]
  BY <1>1, Zenon DEF TypeOK, HeldInUse, Holding
<1>6. TypeOK'
  BY <1>1, <1>2, <1>3, <1>4 DEF TypeOK, Entry, Holding
<1>7. HeldInUse'
  BY <1>4, <1>5 DEF HeldInUse, Holding
<1>8. Apart'
  BY <1>1, <1>3, <1>4, <1>5 DEF Apart, OnceEach
<1>9. Kept'
  BY <1>1, <1>3, <1>5 DEF Kept, TypeOK
<1>10. QueueOnce'
  BY <1>1, <1>5, QueueFacts DEF QueueOnce, Queued, Waiting
<1>11. SendHasRoom'
  BY <1>1, <1>5 DEF SendHasRoom, TypeOK
<1>12. Started' /\ Circulates'
  BY <1>1, <1>4, <1>5, Zenon DEF Started, Circulates
<1> QED BY <1>6, <1>7, <1>8, <1>9, <1>10, <1>11, <1>12

\* Steps that move no connection and no request: no idle connection, a failing
\* factory, a context that ends.
LEMMA GetMoveStep ==
  ASSUME IInv, NEW g \in Caller, GetNoIdle(g) \/ GetDialError(g) \/ GetTimeout(g) PROVE IInv'
<1> USE ConstAssumption DEF IInv
<1>1. UNCHANGED <<pool, cnt, connReq, reqCh, idleConn, made, open, held, to>>
  BY DEF GetNoIdle, GetDialError, GetTimeout
<1>2. /\ \/ pc[g] \in {"idle", "lock"} /\ pc'[g] \in {"lock", "failed"}
         \/ pc[g] = "wait" /\ pc'[g] = "forward"
      /\ pc' = [pc EXCEPT ![g] = pc'[g]] /\ lock' \in {"free", "held"}
  BY DEF GetNoIdle, GetDialError, GetTimeout, Move, TypeOK
<1>3. \A h \in Caller : h # g => pc'[h] = pc[h]
  BY <1>2 DEF TypeOK
<1>4. pool = "ready" /\ IdleSet' = IdleSet /\ Queued' = Queued
  BY <1>1 DEF Started, GetNoIdle, GetDialError, GetTimeout, Move, IdleSet, Queued
<1>5. TypeOK'
  BY <1>1, <1>2 DEF TypeOK, Waiting, Holding
<1>6. HeldInUse'
  BY <1>1, <1>2, <1>3 DEF HeldInUse, Holding
<1>7. Apart' /\ Kept' /\ Circulates'
  BY <1>1, <1>4, Zenon DEF Apart, Kept, Circulates
<1>8. QueueOnce'
  BY <1>1, <1>2, <1>3, <1>4, QueueFacts DEF QueueOnce, Waiting
<1>9. SendHasRoom'
  BY <1>1, <1>2, <1>3 DEF SendHasRoom, TypeOK
<1>10. Started'
  BY <1>1, <1>4 DEF Started
<1> QED BY <1>5, <1>6, <1>7, <1>8, <1>9, <1>10

\* A request joins the queue; its caller is in no channel and in no queue yet.
LEMMA GetQueueStep ==
  ASSUME IInv, NEW g \in Caller, GetQueue(g) PROVE IInv'
<1> USE ConstAssumption DEF IInv
<1>1. /\ cnt >= MaxCnt /\ pc[g] = "lock" /\ pc' = [pc EXCEPT ![g] = "wait"]
      /\ connReq' = Append(connReq, g)
      /\ UNCHANGED <<pool, lock, cnt, reqCh, idleConn, made, open, held, to>>
  BY DEF GetQueue, Move
<1>2. pc'[g] = "wait" /\ \A h \in Caller : h # g => pc'[h] = pc[h]
  BY <1>1 DEF TypeOK
<1>3. g \notin Queued /\ reqCh[g] = NoConn /\ pool = "ready"
  BY <1>1 DEF QueueOnce, Waiting, Started
<1>4. connReq' \in Seq(Caller) /\ Queued' = Queued \cup {g} /\ NoRepeats(connReq')
  BY <1>1, <1>3, QueueFacts, AppendRequest DEF TypeOK
<1>5. TypeOK'
  BY <1>1, <1>4 DEF TypeOK, Waiting
<1>6. HeldInUse'
  BY <1>1, <1>2 DEF HeldInUse, Holding
<1>7. Apart' /\ Kept' /\ Circulates'
  <2>1. IdleSet' = IdleSet
    BY <1>1 DEF IdleSet
  <2> QED BY <1>1, <2>1, Zenon DEF Apart, Kept, Circulates
<1>8. QueueOnce'
  BY <1>1, <1>2, <1>3, <1>4, QueueFacts DEF QueueOnce, Waiting, NoRepeats
<1>9. SendHasRoom'
  <2> SUFFICES ASSUME NEW h \in Caller, pc'[h] \in {"sending", "forwarding"}
               PROVE  /\ reqCh'[to'[h]] = NoConn /\ pc'[to'[h]] \in {"wait", "forward"}
                      /\ to'[h] \notin Queued'
                      /\ \A k \in Caller \ {h} :
                           pc'[k] \in {"sending", "forwarding"} => to'[k] # to'[h]
    BY DEF SendHasRoom, Queued
  <2>1. h # g /\ pc[h] \in {"sending", "forwarding"} /\ to[h] \in Caller
    BY <1>1, <1>2 DEF TypeOK
  <2>2. to[h] # g /\ to[h] \notin Queued
    BY <1>1, <2>1 DEF SendHasRoom, Queued
  <2> QED BY <1>1, <1>2, <1>4, <2>1, <2>2 DEF SendHasRoom
<1>10. Started'
  BY <1>1, <1>3 DEF Started, TypeOK
<1> QED BY <1>5, <1>6, <1>7, <1>8, <1>9, <1>10

\* Get makes a connection, which nobody else can have.
LEMMA GetDialStep ==
  ASSUME IInv, NEW g \in Caller, GetDial(g) PROVE IInv'
<1> USE ConstAssumption DEF IInv
<1>1. PICK c \in Conn : Dial(c) /\ held' = [held EXCEPT ![g] = c]
  BY Zenon DEF GetDial
<1>2. /\ cnt < MaxCnt /\ cnt' = cnt + 1 /\ pc[g] = "lock" /\ pc' = [pc EXCEPT ![g] = "using"]
      /\ UNCHANGED <<pool, lock, connReq, reqCh, idleConn, to>>
  BY DEF GetDial, Move
<1>3. /\ c \notin made /\ c # NoConn /\ made' = made \cup {c} /\ open' = open \cup {c}
      /\ made' \subseteq Conn /\ open' \subseteq made'
      /\ Cardinality(made) \in Nat /\ Cardinality(made') = Cardinality(made) + 1
  BY <1>1, DialFacts
<1>4. /\ held'[g] = c /\ held[g] = NoConn /\ pc'[g] = "using"
      /\ \A h \in Caller : h # g => held'[h] = held[h] /\ pc'[h] = pc[h]
  BY <1>1, <1>2 DEF TypeOK, HeldInUse, Holding
<1>5. IdleSet' = IdleSet /\ Queued' = Queued /\ pool = "ready"
  BY <1>2 DEF IdleSet, Queued, Started
<1>6. TypeOK'
  BY <1>1, <1>2, <1>3 DEF TypeOK, Holding
<1>7. HeldInUse'
  BY <1>3, <1>4 DEF HeldInUse, Holding
<1>8. Apart'
  BY <1>2, <1>3, <1>4, <1>5 DEF Apart
<1>9. Kept'
  BY <1>2, <1>3, <1>4, <1>5 DEF Kept
<1>10. QueueOnce'
  BY <1>2, <1>4, <1>5, QueueFacts DEF QueueOnce, Waiting
<1>11. SendHasRoom'
  BY <1>2, <1>4 DEF SendHasRoom, TypeOK
<1>12. Started'
  BY <1>2, <1>3, <1>5 DEF Started, TypeOK
<1>13. Circulates'
  BY <1>3, <1>4 DEF Circulates
<1> QED BY <1>6, <1>7, <1>8, <1>9, <1>10, <1>11, <1>12, <1>13

\* A waiting Get, or the goroutine of one that gave up, takes the connection out
\* of its channel.
LEMMA ReceiveStep ==
  ASSUME IInv, NEW g \in Caller, GetReceive(g) \/ ForwardReceive(g) PROVE IInv'
<1> USE ConstAssumption DEF IInv
<1> DEFINE c == reqCh[g]
<1>1. /\ c # NoConn /\ held' = [held EXCEPT ![g] = c] /\ reqCh' = [reqCh EXCEPT ![g] = NoConn]
      /\ pc[g] \in Waiting /\ pc'[g] \in {"using", "forwardPut"} /\ pc' = [pc EXCEPT ![g] = pc'[g]]
      /\ UNCHANGED <<pool, lock, cnt, connReq, idleConn, made, open, to>>
  BY DEF GetReceive, ForwardReceive, Move, TypeOK, Waiting
<1>2. /\ held'[g] = c /\ held[g] = NoConn /\ reqCh'[g] = NoConn
      /\ \A h \in Caller : h # g => held'[h] = held[h] /\ pc'[h] = pc[h] /\ reqCh'[h] = reqCh[h]
  BY <1>1 DEF TypeOK, HeldInUse, Holding, Waiting
<1>3. IdleSet' = IdleSet /\ Queued' = Queued /\ pool = "ready"
  BY <1>1 DEF IdleSet, Queued, Started, Waiting
<1>4. g \notin Queued /\ \A h \in Caller : pc[h] \in {"sending", "forwarding"} => to[h] # g
  BY <1>1 DEF QueueOnce, SendHasRoom
<1>5. TypeOK'
  BY <1>1 DEF TypeOK, Holding
<1>6. HeldInUse'
  BY <1>1, <1>2 DEF HeldInUse, Holding
<1>7. Apart'
  BY <1>1, <1>2, <1>3 DEF Apart
<1>8. Kept'
  BY <1>1, <1>2, <1>3 DEF Kept, TypeOK
<1>9. QueueOnce'
  BY <1>1, <1>2, <1>3, <1>4, QueueFacts DEF QueueOnce, NoRepeats
<1>10. SendHasRoom'
  BY <1>1, <1>2, <1>4 DEF SendHasRoom, TypeOK
<1>11. Started'
  BY <1>1, <1>3 DEF Started
<1>12. Circulates'
  BY <1>1, <1>2 DEF Circulates
<1> QED BY <1>5, <1>6, <1>7, <1>8, <1>9, <1>10, <1>11, <1>12

\* Put takes the first request: from the queue into the hands of one goroutine.
LEMMA PutServeStep ==
  ASSUME IInv, NEW g \in Caller, PutServe(g) PROVE IInv'
<1> USE ConstAssumption DEF IInv
<1> DEFINE r == Head(connReq)
<1>1. /\ pc[g] \in {"using", "forwardPut"} /\ connReq # <<>> /\ connReq' = Tail(connReq)
      /\ to' = [to EXCEPT ![g] = r]
      /\ pc'[g] \in {"sending", "forwarding"} /\ pc' = [pc EXCEPT ![g] = pc'[g]]
      /\ UNCHANGED <<pool, lock, cnt, reqCh, idleConn, made, open, held>>
  BY DEF PutServe, Putting, TypeOK
<1>2. /\ r \in Queued /\ Queued' = Queued \ {r} /\ NoRepeats(connReq')
      /\ connReq' \in Seq(Caller) /\ r \in Caller
  BY <1>1, QueueFacts, TailRequest DEF TypeOK
<1> HIDE DEF r
<1>3. /\ to'[g] = r /\ \A h \in Caller : h # g => pc'[h] = pc[h] /\ to'[h] = to[h]
  BY <1>1 DEF TypeOK
<1>4. r # g /\ pc[r] \in Waiting /\ reqCh[r] = NoConn
      /\ \A h \in Caller : pc[h] \in {"sending", "forwarding"} => to[h] # r
  BY <1>1, <1>2 DEF QueueOnce, Waiting, SendHasRoom, Queued
<1>5. IdleSet' = IdleSet /\ pool = "ready"
  BY <1>1 DEF IdleSet, Started
<1>6. TypeOK'
  BY <1>1, <1>2 DEF TypeOK, Holding
<1>7. HeldInUse'
  BY <1>1, <1>3 DEF HeldInUse, Holding
<1>8. Apart' /\ Kept' /\ Circulates'
  <2>1. Apart'
    BY <1>1, <1>5, Zenon DEF Apart
  <2>2. Kept' /\ Circulates'
    BY <1>1, <1>5, Zenon DEF Kept, Circulates
  <2> QED BY <2>1, <2>2
<1>9. QueueOnce'
  BY <1>1, <1>2, <1>3, QueueFacts, Zenon DEF QueueOnce, NoRepeats, Waiting
<1>10. SendHasRoom'
  <2> SUFFICES ASSUME NEW h \in Caller, pc'[h] \in {"sending", "forwarding"}
               PROVE  /\ reqCh'[to'[h]] = NoConn /\ pc'[to'[h]] \in {"wait", "forward"}
                      /\ to'[h] \notin Queued'
                      /\ \A k \in Caller \ {h} :
                           pc'[k] \in {"sending", "forwarding"} => to'[k] # to'[h]
    BY DEF SendHasRoom, Queued
  <2>1. CASE h = g
    BY <1>1, <1>2, <1>3, <1>4, <2>1 DEF Waiting
  <2>2. CASE h # g
    <3>1. /\ pc[h] \in {"sending", "forwarding"} /\ to'[h] = to[h] /\ to[h] \in Caller
          /\ reqCh[to[h]] = NoConn /\ pc[to[h]] \in {"wait", "forward"} /\ to[h] \notin Queued
      BY <1>3, <2>2 DEF SendHasRoom, TypeOK, Queued
    <3>2. to[h] # g
      BY <1>1, <3>1
    <3> QED BY <1>1, <1>2, <1>3, <1>4, <3>1, <3>2 DEF SendHasRoom
  <2> QED BY <2>1, <2>2
<1>11. Started'
  <2>1. connReq' # <<>> => cnt' = MaxCnt
    BY <1>1 DEF Started
  <2> QED BY <1>1, <1>5, <2>1 DEF Started
<1> QED BY <1>6, <1>7, <1>8, <1>9, <1>10, <1>11

\* Put sends the connection into the channel of the request it took: there is
\* room, and whoever receives it has not returned.
LEMMA PutSendStep ==
  ASSUME IInv, NEW g \in Caller, PutSend(g) PROVE IInv'
<1> USE ConstAssumption DEF IInv
<1> DEFINE r == to[g]
           c == held[g]
<1>1. /\ pc[g] \in {"sending", "forwarding"}
      /\ reqCh' = [reqCh EXCEPT ![r] = c] /\ held' = [held EXCEPT ![g] = NoConn]
      /\ to' = [to EXCEPT ![g] = g]
      /\ pc'[g] \in {"idle", "failed"} /\ pc' = [pc EXCEPT ![g] = pc'[g]]
      /\ UNCHANGED <<pool, lock, cnt, connReq, idleConn, made, open>>
  BY DEF PutSend, Done, TypeOK
<1>2. /\ r \in Caller /\ r # g /\ reqCh[r] = NoConn /\ pc[r] \in Waiting /\ r \notin Queued
      /\ \A h \in Caller : h # g /\ pc[h] \in {"sending", "forwarding"} => to[h] # r
  BY <1>1 DEF TypeOK, SendHasRoom, Waiting, Queued
<1>3. c # NoConn /\ c \in Conn
  BY <1>1 DEF HeldInUse, Holding, TypeOK
<1>4. /\ held'[g] = NoConn /\ reqCh'[r] = c
      /\ \A h \in Caller : h # g => held'[h] = held[h] /\ pc'[h] = pc[h] /\ to'[h] = to[h]
      /\ \A h \in Caller : h # r => reqCh'[h] = reqCh[h]
  BY <1>1, <1>2 DEF TypeOK
<1>5. IdleSet' = IdleSet /\ Queued' = Queued /\ pool = "ready"
  BY <1>1 DEF IdleSet, Queued, Started
<1>6. TypeOK'
  BY <1>1, <1>3 DEF TypeOK
<1>7. HeldInUse'
  BY <1>1, <1>4 DEF HeldInUse, Holding
<1>8. Apart'
  BY <1>1, <1>2, <1>3, <1>4, <1>5 DEF Apart
<1>9. Kept'
  BY <1>1, <1>2, <1>4, <1>5 DEF Kept, TypeOK
<1>10. QueueOnce'
  <2>1. g \notin Queued
    BY <1>1 DEF QueueOnce, Waiting
  <2> QED BY <1>1, <1>2, <1>4, <1>5, <2>1, QueueFacts DEF QueueOnce, NoRepeats, Waiting
<1>11. SendHasRoom'
  <2> SUFFICES ASSUME NEW h \in Caller, pc'[h] \in {"sending", "forwarding"}
               PROVE  /\ reqCh'[to'[h]] = NoConn /\ pc'[to'[h]] \in {"wait", "forward"}
                      /\ to'[h] \notin Queued'
                      /\ \A k \in Caller \ {h} :
                           pc'[k] \in {"sending", "forwarding"} => to'[k] # to'[h]
    BY DEF SendHasRoom, Queued
  <2>1. h # g /\ pc[h] \in {"sending", "forwarding"} /\ to'[h] = to[h] /\ to[h] \in Caller
    BY <1>1, <1>4 DEF TypeOK
  <2>2. /\ reqCh[to[h]] = NoConn /\ pc[to[h]] \in {"wait", "forward"} /\ to[h] \notin Queued
        /\ to[h] # r /\ to[h] # g
    BY <1>1, <1>2, <2>1 DEF SendHasRoom, Queued
  <2> QED BY <1>1, <1>4, <1>5, <2>1, <2>2 DEF SendHasRoom
<1>12. Started'
  BY <1>1, <1>5 DEF Started
<1>13. Circulates'
  <2>1. {held'[r], reqCh'[r]} # {NoConn}
    BY <1>3, <1>4
  <2> QED BY <1>2, <2>1, Zenon DEF Circulates
<1> QED BY <1>6, <1>7, <1>8, <1>9, <1>10, <1>11, <1>12, <1>13

\* What the two ways of Put without a request have in common: the goroutine's
\* connection leaves its hands, the requests stay as they are.
LEMMA PutFacts ==
  ASSUME IInv, NEW g \in Caller, pc[g] \in {"using", "forwardPut"},
         held' = [held EXCEPT ![g] = NoConn], pc' = [pc EXCEPT ![g] = Done(g)],
         UNCHANGED <<pool, lock, cnt, connReq, reqCh, made, to>>
  PROVE  /\ held[g] \in Conn \cap made /\ held[g] # NoConn /\ held'[g] = NoConn
         /\ pc'[g] \in {"idle", "failed"} /\ pc' \in [Caller -> {"idle", "lock", "failed"} \cup Waiting \cup Holding]
         /\ \A h \in Caller : h # g => held'[h] = held[h] /\ pc'[h] = pc[h]
         /\ held' \in [Caller -> Conn \cup {NoConn}]
         /\ HeldInUse' /\ QueueOnce' /\ SendHasRoom' /\ pool = "ready"
<1> USE ConstAssumption DEF IInv
<1>1. held[g] \in Conn \cap made /\ held[g] # NoConn
  BY DEF HeldInUse, Holding, TypeOK, Apart
<1>2. /\ held'[g] = NoConn /\ pc'[g] \in {"idle", "failed"}
      /\ \A h \in Caller : h # g => held'[h] = held[h] /\ pc'[h] = pc[h]
      /\ held' \in [Caller -> Conn \cup {NoConn}]
      /\ pc' \in [Caller -> {"idle", "lock", "failed"} \cup Waiting \cup Holding]
  BY DEF TypeOK, Done
<1>3. HeldInUse'
  BY <1>2 DEF HeldInUse, Holding
<1>4. g \notin Queued /\ Queued' = Queued /\ pool = "ready"
  BY DEF QueueOnce, Waiting, Queued, Started
<1>5. QueueOnce'
  BY <1>2, <1>4, QueueFacts DEF QueueOnce, NoRepeats, Waiting
<1>6. SendHasRoom'
  BY <1>2 DEF SendHasRoom, TypeOK
<1> QED BY <1>1, <1>2, <1>3, <1>4, <1>5, <1>6

\* Put of a connection nobody asks for, while the idle queue has room.
LEMMA PutIdleStep ==
  ASSUME IInv, NEW g \in Caller, PutIdle(g) PROVE IInv'
<1> USE ConstAssumption DEF IInv
<1> DEFINE c == held[g]
<1>1. /\ pc[g] \in {"using", "forwardPut"} /\ Len(idleConn) < MaxIdleCnt
      /\ idleConn' = Append(idleConn, [conn |-> c, old |-> FALSE])
      /\ held' = [held EXCEPT ![g] = NoConn] /\ pc' = [pc EXCEPT ![g] = Done(g)]
      /\ UNCHANGED <<pool, lock, cnt, connReq, reqCh, made, open, to>>
  BY DEF PutIdle, Putting
<1>2. /\ c \in Conn \cap made /\ c # NoConn /\ held'[g] = NoConn
      /\ pc' \in [Caller -> {"idle", "lock", "failed"} \cup Waiting \cup Holding]
      /\ \A h \in Caller : h # g => held'[h] = held[h]
      /\ held' \in [Caller -> Conn \cup {NoConn}]
      /\ HeldInUse' /\ QueueOnce' /\ SendHasRoom' /\ pool = "ready"
  BY <1>1, PutFacts, Zenon
<1>3. /\ idleConn \in Seq(Entry) /\ OnceEach(idleConn) /\ Len(idleConn) \in Nat
      /\ IdleSet = Conns(idleConn) /\ IdleSet' = Conns(idleConn')
  BY IdleFacts
<1>4. c \notin IdleSet
  BY DEF Apart
<1>5. idleConn' \in Seq(Entry) /\ OnceEach(idleConn') /\ IdleSet' = IdleSet \cup {c}
  BY <1>1, <1>2, <1>3, <1>4, AppendConns
<1>6. Len(idleConn') = Len(idleConn) + 1
  BY <1>1, <1>3
<1> HIDE DEF c
<1>7. TypeOK'
  BY <1>1, <1>2, <1>3, <1>5, <1>6 DEF TypeOK, Entry
<1>8. Apart'
  <2>1. NoConn \notin IdleSet' /\ IdleSet' \subseteq made
    BY <1>2, <1>5 DEF Apart, TypeOK
  <2>2. \A h \in Caller : held'[h] \notin IdleSet' /\ reqCh'[h] \notin IdleSet'
    BY <1>1, <1>2, <1>5, <2>1 DEF Apart, c
  <2> QED BY <1>1, <1>2, <1>5, <2>1, <2>2 DEF Apart, OnceEach
<1>9. Kept'
  BY <1>1, <1>2, <1>5 DEF Kept, c
<1>10. Started' /\ Circulates'
  BY <1>1, <1>2, <1>5 DEF Started, Circulates
<1> QED BY <1>2, <1>7, <1>8, <1>9, <1>10

\* Put closes the connection: the idle queue is full, so it holds one if it can
\* hold any.
LEMMA PutCloseStep ==
  ASSUME IInv, NEW g \in Caller, PutClose(g) PROVE IInv'
<1> USE ConstAssumption DEF IInv
<1>1. /\ pc[g] \in {"using", "forwardPut"} /\ Len(idleConn) = MaxIdleCnt
      /\ open' = open \ {held[g]}
      /\ held' = [held EXCEPT ![g] = NoConn] /\ pc' = [pc EXCEPT ![g] = Done(g)]
      /\ UNCHANGED <<pool, lock, cnt, connReq, reqCh, idleConn, made, to>>
  BY DEF PutClose, Putting
<1>2. /\ held[g] # NoConn /\ held'[g] = NoConn
      /\ pc' \in [Caller -> {"idle", "lock", "failed"} \cup Waiting \cup Holding]
      /\ \A h \in Caller : h # g => held'[h] = held[h]
      /\ held' \in [Caller -> Conn \cup {NoConn}]
      /\ HeldInUse' /\ QueueOnce' /\ SendHasRoom' /\ pool = "ready"
  BY <1>1, PutFacts, Zenon
<1>3. IdleSet' = IdleSet /\ (MaxIdleCnt > 0 => IdleSet # {})
  BY <1>1, IdleFacts, Zenon DEF IdleSet
<1>4. TypeOK'
  BY <1>1, <1>2 DEF TypeOK
<1>5. Apart'
  BY <1>1, <1>2, <1>3 DEF Apart, TypeOK
<1>6. Kept'
  BY <1>1, <1>2, <1>3 DEF Kept
<1>7. Started' /\ Circulates'
  BY <1>1, <1>2, <1>3 DEF Started, Circulates
<1> QED BY <1>2, <1>4, <1>5, <1>6, <1>7

\* Time passes for the idle connections.
LEMMA ExpireStep == ASSUME IInv, Expire PROVE IInv'
<1> USE ConstAssumption DEF IInv
<1>1. PICK i \in DOMAIN idleConn : idleConn' = [idleConn EXCEPT ![i].old = TRUE]
  BY Zenon DEF Expire
<1>2. UNCHANGED <<pool, lock, cnt, connReq, reqCh, made, open, pc, held, to>>
  BY DEF Expire
<1>3. idleConn \in Seq(Entry) /\ OnceEach(idleConn)
      /\ IdleSet = Conns(idleConn) /\ IdleSet' = Conns(idleConn')
  BY IdleFacts
<1>4. /\ idleConn' \in Seq(Entry) /\ Len(idleConn') = Len(idleConn)
      /\ IdleSet' = IdleSet /\ OnceEach(idleConn')
  BY <1>1, <1>3, ExpireConns, Zenon
<1>5. TypeOK'
  BY <1>2, <1>4 DEF TypeOK, Entry
<1>6. HeldInUse' /\ QueueOnce' /\ SendHasRoom'
  BY <1>2 DEF HeldInUse, QueueOnce, SendHasRoom, Queued
<1>7. Apart'
  BY <1>2, <1>4 DEF Apart, OnceEach
<1>8. Kept' /\ Started' /\ Circulates'
  BY <1>2, <1>4, Zenon DEF Kept, Started, Circulates
<1> QED BY <1>5, <1>6, <1>7, <1>8

\* Every step keeps the invariant.
LEMMA NextIInv == IInv /\ [Next]_vars => IInv'
<1> SUFFICES ASSUME IInv, [Next]_vars PROVE IInv'
  OBVIOUS
<1>1. CASE NewPoolDial \/ NewPoolError \/ NewPoolReturn
  BY <1>1, NewPoolStep
<1>2. ASSUME NEW g \in Caller, Get(g) PROVE IInv'
  BY <1>2, GetIdleStep, GetMoveStep, GetQueueStep, GetDialStep, ReceiveStep DEF Get
<1>3. ASSUME NEW g \in Caller, Put(g) PROVE IInv'
  BY <1>3, PutServeStep, PutSendStep, PutIdleStep, PutCloseStep DEF Put
<1>4. CASE Expire
  BY <1>4, ExpireStep
<1>5. CASE UNCHANGED vars
  <2>1. IdleSet' = IdleSet /\ Queued' = Queued
    BY <1>5, Zenon DEF vars, IdleSet, Queued
  <2>2. TypeOK' /\ HeldInUse' /\ SendHasRoom' /\ Started'
    BY <1>5 DEF vars, IInv, TypeOK, HeldInUse, SendHasRoom, Started
  <2>3. Apart' /\ Kept' /\ QueueOnce' /\ Circulates'
    BY <1>5, <2>1, Zenon DEF vars, IInv, Apart, Kept, QueueOnce, Circulates
  <2> QED BY <2>2, <2>3 DEF IInv
<1> QED BY <1>1, <1>2, <1>3, <1>4, <1>5 DEF Next

\* The invariant holds in every reachable state of the pool.
THEOREM PoolInvariant == Spec => []IInv
  BY InitIInv, NextIInv, PTL DEF Spec

(***************************************************************************)
(* What the invariant says of the pool.                                    *)
(***************************************************************************)
\* A set with at most one member.
LEMMA AtMostOne ==
  ASSUME NEW S, \A x, y \in S : x = y
  PROVE  Cardinality(S) <= 1
<1>1. CASE S = {}
  BY <1>1, FS_EmptySet
<1>2. ASSUME NEW x \in S PROVE Cardinality(S) <= 1
  <2>1. S = {x}
    OBVIOUS
  <2> QED BY <2>1, FS_Singleton
<1> QED BY <1>1, <1>2

\* IInv in the terms of Places.
LEMMA PlacesFacts ==
  ASSUME IInv, NEW c \in made
  PROVE  /\ \A x, y \in Places(c) : x = y
         /\ Places(c) # {} <=> c \in IdleSet \/ \E g \in Caller : c \in {held[g], reqCh[g]}
<1>1. c # NoConn
  BY ConstAssumption DEF IInv, TypeOK
<1>2. \A x, y \in Places(c) : x = y
  <2> SUFFICES ASSUME NEW x \in Places(c), NEW y \in Places(c) PROVE x = y
    OBVIOUS
  <2>1. /\ \/ \E i \in DOMAIN idleConn : idleConn[i].conn = c /\ x = <<"idle", i>>
           \/ \E g \in Caller : reqCh[g] = c /\ x = <<"request", g>>
           \/ \E g \in Caller : held[g] = c /\ x = <<"caller", g>>
        /\ \/ \E i \in DOMAIN idleConn : idleConn[i].conn = c /\ y = <<"idle", i>>
           \/ \E g \in Caller : reqCh[g] = c /\ y = <<"request", g>>
           \/ \E g \in Caller : held[g] = c /\ y = <<"caller", g>>
    BY DEF Places
  <2>2. (\E i \in DOMAIN idleConn : idleConn[i].conn = c) => c \in IdleSet
    BY Zenon DEF IdleSet
  <2> QED BY <1>1, <2>1, <2>2 DEF IInv, Apart
<1>3. Places(c) # {} <=> c \in IdleSet \/ \E g \in Caller : c \in {held[g], reqCh[g]}
  BY Zenon DEF Places, IdleSet
<1> QED BY <1>2, <1>3

\* No connection is in two places at once, and no open one is lost, in any
\* interleaving of Get, Put, timeouts and forwarding goroutines.
THEOREM OneUserEach == Spec => []OnePlace
<1>1. ASSUME IInv PROVE OnePlace
  BY <1>1, PlacesFacts, AtMostOne DEF OnePlace, IInv, Kept
<1> QED BY <1>1, PoolInvariant, PTL

\* Put never blocks on the channel of a request.
THEOREM SendNeverBlocks == Spec => []SendHasRoom
  BY PoolInvariant, PTL DEF IInv

\* A request in the queue has a connection to wait for.
THEOREM NoVainWait == Spec => []WaitersHaveHope
<1>1. ASSUME IInv PROVE WaitersHaveHope
  <2> SUFFICES ASSUME MaxIdleCnt > 0, MaxCnt + InitCnt > 0, connReq # <<>>
               PROVE  \E c \in made : Places(c) # {}
    BY DEF WaitersHaveHope
  <2>1. made # {}
    BY <1>1, ConstAssumption DEF IInv, Started, TypeOK
  <2>2. IdleSet # {} \/ \E g \in Caller : {held[g], reqCh[g]} # {NoConn}
    BY <1>1, <2>1, Zenon DEF IInv, Circulates
  <2>3. PICK c \in made : c \in IdleSet \/ \E g \in Caller : c \in {held[g], reqCh[g]}
    BY <1>1, <2>2 DEF IInv, Apart
  <2> QED BY <1>1, <2>3, PlacesFacts
<1> QED BY <1>1, PoolInvariant, PTL

\* However long the pool is used, the factory has made at most MaxCnt + InitCnt
\* connections.
THEOREM FactoryBound == Spec => []MadeBounded
<1>1. ASSUME IInv PROVE MadeBounded
  <2>1. Cardinality(made) \in Nat
    BY <1>1, ConstAssumption, FS_Subset, FS_CardinalityType DEF IInv, TypeOK
  <2> QED BY <1>1, <2>1, ConstAssumption DEF IInv, Started, TypeOK, MadeBounded
<1> QED BY <1>1, PoolInvariant, PTL
===============================================================================
