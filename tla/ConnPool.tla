------------------------------- MODULE ConnPool -------------------------------
(***************************************************************************)
(* The connection pool of micro/net/pool.go.                               *)
(*                                                                         *)
(* A caller gets a connection, uses it and puts it back, over and over,    *)
(* until a Get of its fails; what it leaves behind then is the forwarding  *)
(* goroutine of that Get, which keeps the caller's name.  A section under  *)
(* p.lock is one step: nothing inside it waits for another goroutine.      *)
(***************************************************************************)
EXTENDS Integers, Sequences, FiniteSets

CONSTANTS
  Caller,
  Conn,          \* connections the factory can make
  MaxCnt, MaxIdleCnt, InitCnt,
  FactoryFails,  \* whether the factory may return an error
  Timeouts,      \* whether the context of a waiting Get may end
  NoConn

ASSUME ConstAssumption ==
  /\ MaxCnt \in Nat /\ MaxIdleCnt \in Nat /\ InitCnt \in Nat
  /\ FactoryFails \in BOOLEAN /\ Timeouts \in BOOLEAN
  /\ NoConn \notin Conn
  /\ IsFiniteSet(Conn) /\ Cardinality(Conn) >= MaxCnt + InitCnt

VARIABLES
  pool,      \* NewPool: "building", then "ready", or "failed" with an error
  lock,      \* "free", or "held" for good
  cnt,       \* Pool.cnt
  connReq,   \* the queue of requests, named by their callers
  reqCh,     \* the channel of each caller's request, of capacity 1
  idleConn,  \* the idle queue: connections, and whether they have expired
  made,      \* connections the factory has made
  open,      \* those that have not been closed
  pc, held, to  \* each caller: where it is, its connection, whom it serves

vars == <<pool, lock, cnt, connReq, reqCh, idleConn, made, open, pc, held, to>>

Init ==
  /\ pool = "building" /\ lock = "free" /\ cnt = 0
  /\ connReq = <<>> /\ idleConn = <<>>
  /\ reqCh = [g \in Caller |-> NoConn]
  /\ made = {} /\ open = {}
  /\ pc = [g \in Caller |-> "idle"]
  /\ held = [g \in Caller |-> NoConn]
  /\ to = [g \in Caller |-> g]

\* The factory makes connection c.
Dial(c) ==
  /\ c \in Conn \ made
  /\ made' = made \cup {c} /\ open' = open \cup {c}

(***************************************************************************)
(* NewPool fills the idle queue; its send blocks when the queue is full.   *)
(***************************************************************************)
NewPoolDial ==
  /\ pool = "building" /\ Len(idleConn) < InitCnt
  /\ Len(idleConn) < MaxIdleCnt
  /\ \E c \in Conn : Dial(c) /\ idleConn' = Append(idleConn, [conn |-> c, old |-> FALSE])
  /\ UNCHANGED <<pool, lock, cnt, connReq, reqCh, pc, held, to>>

NewPoolError ==
  /\ FactoryFails /\ pool = "building" /\ Len(idleConn) < InitCnt
  /\ pool' = "failed"
  /\ UNCHANGED <<lock, cnt, connReq, reqCh, idleConn, made, open, pc, held, to>>

NewPoolReturn ==
  /\ pool = "building" /\ Len(idleConn) = InitCnt
  /\ pool' = "ready"
  /\ UNCHANGED <<lock, cnt, connReq, reqCh, idleConn, made, open, pc, held, to>>

(***************************************************************************)
(* Get.                                                                    *)
(***************************************************************************)
Move(g, from, next) == pc[g] = from /\ pc' = [pc EXCEPT ![g] = next]

\* Mutant: an idle connection is looked at but stays in the queue.
GetIdle_Peeks(g) ==
  /\ pool = "ready" /\ idleConn # <<>>
  /\ Move(g, "idle", "using")
  /\ held' = [held EXCEPT ![g] = Head(idleConn).conn]
  /\ UNCHANGED <<pool, lock, cnt, connReq, reqCh, idleConn, made, open, to>>

\* The first idle connection; an expired one is closed, and returned too.
GetIdle(g) ==
  /\ pool = "ready" /\ idleConn # <<>>
  /\ Move(g, "idle", "using")
  /\ held' = [held EXCEPT ![g] = Head(idleConn).conn]
  /\ open' = IF Head(idleConn).old THEN open \ {Head(idleConn).conn} ELSE open
  /\ idleConn' = Tail(idleConn)
  /\ UNCHANGED <<pool, lock, cnt, connReq, reqCh, made, to>>

\* The default case: no idle connection at this moment.
GetNoIdle(g) ==
  /\ pool = "ready" /\ idleConn = <<>>
  /\ Move(g, "idle", "lock")
  /\ UNCHANGED <<pool, lock, cnt, connReq, reqCh, idleConn, made, open, held, to>>

\* The pool is full: join the queue.
GetQueue(g) ==
  /\ lock = "free" /\ cnt >= MaxCnt
  /\ Move(g, "lock", "wait")
  /\ connReq' = Append(connReq, g)
  /\ UNCHANGED <<pool, lock, cnt, reqCh, idleConn, made, open, held, to>>

GetDial(g) ==
  /\ lock = "free" /\ cnt < MaxCnt
  /\ Move(g, "lock", "using")
  /\ \E c \in Conn : Dial(c) /\ held' = [held EXCEPT ![g] = c]
  /\ cnt' = cnt + 1
  /\ UNCHANGED <<pool, lock, connReq, reqCh, idleConn, to>>

\* The factory fails: Get returns the error without unlocking.
GetDialError(g) ==
  /\ FactoryFails /\ lock = "free" /\ cnt < MaxCnt
  /\ Move(g, "lock", "failed")
  /\ lock' = "held"
  /\ UNCHANGED <<pool, cnt, connReq, reqCh, idleConn, made, open, held, to>>

GetReceive(g) ==
  /\ reqCh[g] # NoConn
  /\ Move(g, "wait", "using")
  /\ held' = [held EXCEPT ![g] = reqCh[g]]
  /\ reqCh' = [reqCh EXCEPT ![g] = NoConn]
  /\ UNCHANGED <<pool, lock, cnt, connReq, idleConn, made, open, to>>

\* ctx.Done, even if a connection has just arrived; a goroutine waits for what
\* the request, which stays in the queue, will receive.
GetTimeout(g) ==
  /\ Timeouts /\ Move(g, "wait", "forward")
  /\ UNCHANGED <<pool, lock, cnt, connReq, reqCh, idleConn, made, open, held, to>>

\* Mutant: a Get that gives up starts no goroutine.
ForwardReceive_Missing(g) == FALSE /\ UNCHANGED vars

ForwardReceive(g) ==
  /\ reqCh[g] # NoConn
  /\ Move(g, "forward", "forwardPut")
  /\ held' = [held EXCEPT ![g] = reqCh[g]]
  /\ reqCh' = [reqCh EXCEPT ![g] = NoConn]
  /\ UNCHANGED <<pool, lock, cnt, connReq, idleConn, made, open, to>>

(***************************************************************************)
(* Put, called by a user of a connection or by a forwarding goroutine.     *)
(***************************************************************************)
\* Where a goroutine goes after Put: a forwarding one ends.
Done(g) == IF pc[g] \in {"using", "sending"} THEN "idle" ELSE "failed"

Putting(g) == pc[g] \in {"using", "forwardPut"} /\ lock = "free"

\* Mutant: the request that is served stays in the queue.
PutServe_NoPop(g) ==
  /\ Putting(g) /\ connReq # <<>>
  /\ to' = [to EXCEPT ![g] = Head(connReq)]
  /\ pc' = [pc EXCEPT ![g] = IF @ = "using" THEN "sending" ELSE "forwarding"]
  /\ UNCHANGED <<pool, lock, cnt, connReq, reqCh, idleConn, made, open, held>>

\* The first request in the queue gets the connection, once p.lock is free.
PutServe(g) ==
  /\ Putting(g) /\ connReq # <<>>
  /\ to' = [to EXCEPT ![g] = Head(connReq)]
  /\ connReq' = Tail(connReq)
  /\ pc' = [pc EXCEPT ![g] = IF @ = "using" THEN "sending" ELSE "forwarding"]
  /\ UNCHANGED <<pool, lock, cnt, reqCh, idleConn, made, open, held>>

PutSend(g) ==
  /\ pc[g] \in {"sending", "forwarding"} /\ reqCh[to[g]] = NoConn
  /\ reqCh' = [reqCh EXCEPT ![to[g]] = held[g]]
  /\ held' = [held EXCEPT ![g] = NoConn]
  /\ to' = [to EXCEPT ![g] = g]
  /\ pc' = [pc EXCEPT ![g] = Done(g)]
  /\ UNCHANGED <<pool, lock, cnt, connReq, idleConn, made, open>>

PutIdle(g) ==
  /\ Putting(g) /\ connReq = <<>> /\ Len(idleConn) < MaxIdleCnt
  /\ idleConn' = Append(idleConn, [conn |-> held[g], old |-> FALSE])
  /\ held' = [held EXCEPT ![g] = NoConn]
  /\ pc' = [pc EXCEPT ![g] = Done(g)]
  /\ UNCHANGED <<pool, lock, cnt, connReq, reqCh, made, open, to>>

\* Mutant: a connection is closed although the idle queue has room.
PutClose_Eager(g) ==
  /\ Putting(g) /\ connReq = <<>>
  /\ open' = open \ {held[g]}
  /\ held' = [held EXCEPT ![g] = NoConn]
  /\ pc' = [pc EXCEPT ![g] = Done(g)]
  /\ UNCHANGED <<pool, lock, cnt, connReq, reqCh, idleConn, made, to>>

\* The idle queue is full: the connection is closed, cnt stays as it is.
PutClose(g) ==
  /\ Putting(g) /\ connReq = <<>> /\ Len(idleConn) = MaxIdleCnt
  /\ open' = open \ {held[g]}
  /\ held' = [held EXCEPT ![g] = NoConn]
  /\ pc' = [pc EXCEPT ![g] = Done(g)]
  /\ UNCHANGED <<pool, lock, cnt, connReq, reqCh, idleConn, made, to>>

\* Time passes: idle connections expire in the order they came back.
Expire ==
  /\ \E i \in DOMAIN idleConn :
       /\ ~idleConn[i].old /\ \A j \in 1..i - 1 : idleConn[j].old
       /\ idleConn' = [idleConn EXCEPT ![i].old = TRUE]
  /\ UNCHANGED <<pool, lock, cnt, connReq, reqCh, made, open, pc, held, to>>

Get(g) ==
  \/ GetIdle(g) \/ GetNoIdle(g) \/ GetQueue(g) \/ GetDial(g) \/ GetDialError(g)
  \/ GetReceive(g) \/ GetTimeout(g) \/ ForwardReceive(g)

Put(g) == PutServe(g) \/ PutSend(g) \/ PutIdle(g) \/ PutClose(g)

Next ==
  \/ NewPoolDial \/ NewPoolError \/ NewPoolReturn
  \/ \E g \in Caller : Get(g) \/ Put(g)
  \/ Expire

Spec == Init /\ [][Next]_vars

\* Goroutines run, and callers put back what they got.
Fairness ==
  \A g \in Caller :
    /\ WF_vars(ForwardReceive(g)) /\ WF_vars(GetReceive(g)) /\ WF_vars(Put(g))
    /\ WF_vars(GetQueue(g) \/ GetDial(g) \/ GetDialError(g))

FairSpec == Spec /\ Fairness

(***************************************************************************)
(* Properties.                                                             *)
(***************************************************************************)
\* The places where a connection can be: in the idle queue, in the channel of a
\* request, or with a goroutine.
Places(c) ==
  {<<"idle", i>> : i \in {j \in DOMAIN idleConn : idleConn[j].conn = c}}
    \cup {<<"request", g>> : g \in {h \in Caller : reqCh[h] = c}}
    \cup {<<"caller", g>> : g \in {h \in Caller : held[h] = c}}

\* No connection is handed to two users or queued while somebody uses it, and
\* none that is open gets lost, however Get, Put, timeouts and the forwarding
\* goroutines interleave.
OnePlace ==
  \A c \in made : /\ Cardinality(Places(c)) <= 1
                  /\ c \in open => Places(c) # {}

\* The channel of a request has room when Put sends into it, after unlocking:
\* a request is served once, and only after it has joined the queue.
SendHasRoom ==
  \A g \in Caller : pc[g] \in {"sending", "forwarding"} =>
    /\ reqCh[to[g]] = NoConn /\ pc[to[g]] \in {"wait", "forward"}
    /\ ~ \E i \in DOMAIN connReq : connReq[i] = to[g]
    /\ \A h \in Caller \ {g} :
         pc[h] \in {"sending", "forwarding"} => to[h] # to[g]

\* A request never waits for nothing: although cnt is not reduced when Put
\* closes a connection, some connection stays in circulation for the request to
\* be served with, provided that the idle queue has room for one and that the
\* pool may have a connection at all.
WaitersHaveHope ==
  MaxIdleCnt > 0 /\ MaxCnt + InitCnt > 0 /\ connReq # <<>>
    => \E c \in made : Places(c) # {}

\* Every connection counts against maxCnt for good, open or closed, but for the
\* ones NewPool made: the factory is called at most MaxCnt + InitCnt times.
MadeBounded == Cardinality(made) <= MaxCnt + InitCnt

\* "要么删除，要么转发": a connection given to a request is taken out again, and
\* put back if the Get that asked for it has given up - unless a failure of the
\* factory has left p.lock held.
HandoverCompletes ==
  \A g \in Caller :
    reqCh[g] # NoConn ~> \/ reqCh[g] = NoConn /\ pc[g] # "forwardPut"
                         \/ lock = "held"

(***************************************************************************)
(* The inductive invariant.                                                *)
(***************************************************************************)
Holding == {"using", "sending", "forwardPut", "forwarding"}
Waiting == {"wait", "forward"}
IdleSet == {idleConn[i].conn : i \in DOMAIN idleConn}
Queued == {connReq[i] : i \in DOMAIN connReq}

\* The values of the variables; the count and the idle queue stay within their
\* limits.
TypeOK ==
  /\ pool \in {"building", "ready", "failed"} /\ lock \in {"free", "held"}
  /\ cnt \in 0..MaxCnt
  /\ connReq \in Seq(Caller) /\ reqCh \in [Caller -> Conn \cup {NoConn}]
  /\ idleConn \in Seq([conn : Conn, old : BOOLEAN]) /\ Len(idleConn) <= MaxIdleCnt
  /\ made \subseteq Conn /\ open \subseteq made
  /\ pc \in [Caller -> {"idle", "lock", "failed"} \cup Waiting \cup Holding]
  /\ held \in [Caller -> Conn \cup {NoConn}]
  /\ to \in [Caller -> Caller]

\* A goroutine has a connection exactly while it uses it or puts it back.
HeldInUse == \A g \in Caller : held[g] = NoConn <=> pc[g] \notin Holding

\* The idle queue, the channels and the goroutines have different connections,
\* all of them made by the factory, and every open one is with one of them.
Apart ==
  /\ \A i, j \in DOMAIN idleConn : idleConn[i].conn = idleConn[j].conn => i = j
  /\ \A g, h \in Caller : held[g] = held[h] => g = h \/ held[g] = NoConn
  /\ \A g, h \in Caller : reqCh[g] = reqCh[h] => g = h \/ reqCh[g] = NoConn
  /\ \A g, h \in Caller : held[g] = reqCh[h] => held[g] = NoConn
  /\ \A g \in Caller : held[g] \notin IdleSet /\ reqCh[g] \notin IdleSet
  /\ \A g \in Caller : {held[g], reqCh[g]} \subseteq made \cup {NoConn}
  /\ IdleSet \subseteq made

Kept == \A c \in open : c \in IdleSet \/ \E g \in Caller : c \in {held[g], reqCh[g]}

\* A request is in the queue once, for a Get that waits or has given up, and its
\* channel is empty; nobody else has a channel with a connection.
QueueOnce ==
  /\ \A i, j \in DOMAIN connReq : connReq[i] = connReq[j] => i = j
  /\ \A g \in Queued : pc[g] \in Waiting /\ reqCh[g] = NoConn
  /\ \A g \in Caller : reqCh[g] # NoConn => pc[g] \in Waiting

\* Nothing is called before NewPool has returned, and a queue forms only after
\* MaxCnt connections were dialled.
Started ==
  /\ pool # "ready" => cnt = 0 /\ connReq = <<>> /\ \A g \in Caller : pc[g] = "idle"
  /\ pool # "ready" => Cardinality(made) <= Len(idleConn) /\ Len(idleConn) <= InitCnt
  /\ Cardinality(made) <= cnt + InitCnt
  /\ connReq # <<>> => cnt = MaxCnt
  /\ cnt + InitCnt > 0 /\ pool = "ready" => made # {}

\* Once there is a connection there always is one: Put closes one only when the
\* idle queue is full.
Circulates ==
  MaxIdleCnt > 0 /\ made # {}
    => IdleSet # {} \/ \E g \in Caller : {held[g], reqCh[g]} # {NoConn}

IInv ==
  /\ TypeOK /\ HeldInUse /\ Apart /\ Kept /\ QueueOnce /\ SendHasRoom
  /\ Started /\ Circulates
===============================================================================
