------------------------------- MODULE OrmDB -------------------------------
(***************************************************************************)
(* What the goroutines of a program share when they use one orm.DB:        *)
(* transactions (src/orm/db.go, src/orm/transaction.go) and the registry   *)
(* of models (src/orm/model/model.go).                                     *)
(*                                                                         *)
(* A client is a goroutine.  It runs DoTx, or holds a transaction it got   *)
(* from BeginTxV2 through its context, or asks the registry.  database/sql *)
(* is external: a transaction it opened is committed or rolled back once,  *)
(* a statement or a finish on one that is over fails with ErrTxDone, and   *)
(* the end of the context it was begun with rolls it back.                 *)
(***************************************************************************)
EXTENDS Naturals

CONSTANTS
  Client,   \* goroutines
  Tx,       \* the transactions the program may begin (a bound)
  NoTx      \* no transaction

ASSUME NoTxAssumption == NoTx \notin Tx

VARIABLES
  sqlTx,    \* [Tx -> "new" | "open" | "committed" | "rolledback"]: the sql.Tx
  done,     \* [Tx -> BOOLEAN]: Tx.done
  ctxTx,    \* [Client -> Tx or NoTx]: the *Tx under txKey in its context
  mode,     \* [Client -> Modes]: what it is doing
  cur,      \* [Client -> Tx or NoTx]: the transaction it does it with
  fin,      \* [Client -> Finishes]: Commit or Rollback between done and sql
  ret,      \* [Client -> Results]: how its last DoTx ended
  fn,       \* [Client -> Results]: how the fn of that DoTx ended
  models    \* "none" | "plain" | "custom": sync.Map entry of the type

vars == <<sqlTx, done, ctxTx, mode, cur, fin, ret, fn, models>>

Modes == {"idle", "fn", "deferred", "tx", "parse"}
Finishes == {"no", "Commit", "Rollback", "RollbackIfNotCommit"}
Results == {"none", "nil", "error", "panic"}

Init ==
  /\ sqlTx = [t \in Tx |-> "new"] /\ done = [t \in Tx |-> FALSE]
  /\ ctxTx = [c \in Client |-> NoTx] /\ cur = [c \in Client |-> NoTx]
  /\ mode = [c \in Client |-> "idle"] /\ fin = [c \in Client |-> "no"]
  /\ ret = [c \in Client |-> "none"] /\ fn = [c \in Client |-> "none"]
  /\ models = "none"

-----------------------------------------------------------------------------
(* DB.BeginTx; the failing call changes nothing. *)
BeginTx(c, t, m) ==
  /\ sqlTx[t] = "new"
  /\ sqlTx' = [sqlTx EXCEPT ![t] = "open"]
  /\ cur' = [cur EXCEPT ![c] = t]
  /\ mode' = [mode EXCEPT ![c] = m]

DoTx(c) ==
  /\ mode[c] = "idle"
  /\ \E t \in Tx : BeginTx(c, t, "fn")
  /\ ret' = [ret EXCEPT ![c] = "none"] /\ fn' = [fn EXCEPT ![c] = "none"]
  /\ UNCHANGED <<done, ctxTx, fin, models>>

(* BeginTxV2 takes the transaction of its context unless it is done. *)
Propagates_Never(c) == FALSE
Propagates(c) == ctxTx[c] # NoTx /\ ~done[ctxTx[c]]

BeginTxV2(c) ==
  /\ mode[c] \in {"idle", "tx"} /\ fin[c] = "no"
  /\ \/ /\ Propagates(c)
        /\ cur' = [cur EXCEPT ![c] = ctxTx[c]]
        /\ mode' = [mode EXCEPT ![c] = "tx"]
        /\ UNCHANGED <<sqlTx, ctxTx>>
     \/ /\ ~Propagates(c)
        /\ \E t \in Tx : BeginTx(c, t, "tx") /\ ctxTx' = [ctxTx EXCEPT ![c] = t]
  /\ ret' = [ret EXCEPT ![c] = "none"] /\ fn' = [fn EXCEPT ![c] = "none"]
  /\ UNCHANGED <<done, fin, models>>

(* A goroutine starts another one with its context. *)
Spawn(c, d) ==
  /\ mode[d] = "idle" /\ ctxTx[d] = NoTx /\ ctxTx[c] # NoTx
  /\ ctxTx' = [ctxTx EXCEPT ![d] = ctxTx[c]]
  /\ UNCHANGED <<sqlTx, done, mode, cur, fin, ret, fn, models>>

(* Tx.Commit, Tx.Rollback, Tx.RollbackIfNotCommit: first the flag, ... *)
Finish(c, how) ==
  /\ fin' = [fin EXCEPT ![c] = how]
  /\ done' = [done EXCEPT ![cur[c]] = TRUE]

CallFinish(c) ==
  /\ mode[c] \in {"fn", "tx"} /\ fin[c] = "no"
  /\ \E how \in Finishes \ {"no"} : Finish(c, how)
  /\ UNCHANGED <<sqlTx, ctxTx, mode, cur, ret, fn, models>>

(* ... then the sql.Tx.  A Commit that fails leaves either outcome. *)
SqlOutcome(how, t) ==
  IF sqlTx[t] # "open" THEN { <<sqlTx[t], IF how = "RollbackIfNotCommit" THEN "nil" ELSE "error">> }
  ELSE IF how = "Commit" THEN { <<"committed", "nil">>, <<"committed", "error">>, <<"rolledback", "error">> }
  ELSE { <<"rolledback", "nil">>, <<"rolledback", "error">> }

SqlFinish(c) ==
  /\ fin[c] # "no"
  /\ fin' = [fin EXCEPT ![c] = "no"]
  /\ \E o \in SqlOutcome(fin[c], cur[c]) :
       /\ sqlTx' = [sqlTx EXCEPT ![cur[c]] = o[1]]
       /\ \/ mode[c] \in {"fn", "tx"} /\ UNCHANGED <<mode, cur, ret>>
          \/ /\ mode[c] = "tx"    \* its last call on the transaction
             /\ mode' = [mode EXCEPT ![c] = "idle"] /\ cur' = [cur EXCEPT ![c] = NoTx]
             /\ UNCHANGED ret
          \/ /\ mode[c] = "deferred"
             /\ mode' = [mode EXCEPT ![c] = "idle"]
             /\ ret' = [ret EXCEPT ![c] = IF fn[c] = "panic" THEN "panic" ELSE o[2]]
             /\ UNCHANGED cur
  /\ UNCHANGED <<done, ctxTx, fn, models>>

(* fn is over: the deferred function of DoTx rolls back after a panic and  *)
(* commits otherwise, whatever fn returned.                                *)
Deferred_Commits(c, r) == Finish(c, "Commit")
Deferred_RollsBack(c, r) == Finish(c, "Rollback")
Deferred(c, r) == Finish(c, IF r = "panic" THEN "Rollback" ELSE "Commit")

FnEnds_PanicEscapes(c) ==
  /\ mode[c] = "fn" /\ fin[c] = "no"
  /\ \/ /\ Deferred(c, "nil") /\ fn' = [fn EXCEPT ![c] = "nil"]
        /\ mode' = [mode EXCEPT ![c] = "deferred"] /\ UNCHANGED ret
     \/ /\ ret' = [ret EXCEPT ![c] = "panic"] /\ mode' = [mode EXCEPT ![c] = "idle"]
        /\ UNCHANGED <<done, fin, fn>>
  /\ UNCHANGED <<sqlTx, ctxTx, cur, models>>

FnEnds(c) ==
  /\ mode[c] = "fn" /\ fin[c] = "no"
  /\ \E r \in Results \ {"none"} : Deferred(c, r) /\ fn' = [fn EXCEPT ![c] = r]
  /\ mode' = [mode EXCEPT ![c] = "deferred"]
  /\ UNCHANGED <<sqlTx, ctxTx, cur, ret, models>>

(* The context a transaction was begun with ends. *)
CtxDone(t) ==
  /\ sqlTx[t] = "open"
  /\ sqlTx' = [sqlTx EXCEPT ![t] = "rolledback"]
  /\ UNCHANGED <<done, ctxTx, mode, cur, fin, ret, fn, models>>

-----------------------------------------------------------------------------
(* registry.Get: a hit returns the stored model and changes nothing; after *)
(* a miss the type is parsed and stored, whatever was stored meanwhile.    *)
GetMiss_NoLoad(c) ==
  /\ mode[c] = "idle"
  /\ mode' = [mode EXCEPT ![c] = "parse"]
  /\ UNCHANGED <<sqlTx, done, ctxTx, cur, fin, ret, fn, models>>

GetMiss(c) ==
  /\ mode[c] = "idle" /\ models = "none"
  /\ mode' = [mode EXCEPT ![c] = "parse"]
  /\ UNCHANGED <<sqlTx, done, ctxTx, cur, fin, ret, fn, models>>

GetStore(c) ==
  /\ mode[c] = "parse"
  /\ mode' = [mode EXCEPT ![c] = "idle"]
  /\ models' \in {"plain", models}   \* an invalid type or tag stores nothing
  /\ UNCHANGED <<sqlTx, done, ctxTx, cur, fin, ret, fn>>

(* registry.Register with options: they are applied before the Store, and  *)
(* one that fails stores nothing.                                          *)
Register(c) ==
  /\ mode[c] = "idle"
  /\ models' = "custom"
  /\ UNCHANGED <<sqlTx, done, ctxTx, mode, cur, fin, ret, fn>>

Next ==
  \/ \E c \in Client : \/ DoTx(c) \/ BeginTxV2(c) \/ CallFinish(c) \/ SqlFinish(c) \/ FnEnds(c)
                       \/ GetMiss(c) \/ GetStore(c) \/ Register(c)
                       \/ \E d \in Client : Spawn(c, d)
  \/ \E t \in Tx : CtxDone(t)

Spec == Init /\ [][Next]_vars

-----------------------------------------------------------------------------
(* Properties *)

InTx(c) == mode[c] \in {"fn", "deferred", "tx"}

(* Types; a goroutine that works with a transaction has one that was begun. *)
TypeOK ==
  /\ sqlTx \in [Tx -> {"new", "open", "committed", "rolledback"}]
  /\ done \in [Tx -> BOOLEAN]
  /\ ctxTx \in [Client -> Tx \cup {NoTx}] /\ cur \in [Client -> Tx \cup {NoTx}]
  /\ mode \in [Client -> Modes] /\ fin \in [Client -> Finishes]
  /\ ret \in [Client -> Results] /\ fn \in [Client -> Results]
  /\ models \in {"none", "plain", "custom"}
  /\ \A c \in Client : InTx(c) => cur[c] \in Tx /\ sqlTx[cur[c]] # "new"

(* A DoTx that returned nil has committed, also when its fn had already    *)
(* finished the transaction, its context ended or the commit failed.       *)
NilMeansCommitted ==
  \A c \in Client : ret[c] = "nil" => cur[c] \in Tx /\ sqlTx[cur[c]] = "committed"

(* However a DoTx ends - nil, an error or a panic - its transaction is     *)
(* over and its connection free.                                           *)
DoTxSettles ==
  \A c \in Client : ret[c] # "none" =>
    cur[c] \in Tx /\ sqlTx[cur[c]] \in {"committed", "rolledback"}

(* Tx.done tells BeginTxV2 the truth: a transaction with the flag is over, *)
(* or some goroutine is about to finish it.                                *)
DoneIsOver ==
  \A t \in Tx : done[t] /\ sqlTx[t] = "open" =>
    \E c \in Client : cur[c] = t /\ fin[c] # "no"

(* No open transaction is forgotten: some context still carries it, or     *)
(* some goroutine is working with it.                                      *)
NoOrphan ==
  \A t \in Tx : sqlTx[t] = "open" =>
    \E c \in Client : ctxTx[c] = t \/ (cur[c] = t /\ InTx(c))

(* Between its calls the implementation also keeps: the transaction of a   *)
(* DoTx is in no context and no other goroutine works with it, a pending   *)
(* finish has set the flag, and a deferred function is always pending with *)
(* the finish that the end of fn calls for.                                *)
Discipline ==
  /\ \A t \in Tx : sqlTx[t] = "new" => ~done[t]
  /\ \A c \in Client :
       /\ ctxTx[c] \in Tx => sqlTx[ctxTx[c]] # "new"
       /\ InTx(c) => ret[c] = "none"
       /\ fin[c] # "no" => InTx(c) /\ done[cur[c]]
       /\ mode[c] = "tx" => cur[c] = ctxTx[c]
       /\ mode[c] = "deferred" => fin[c] = IF fn[c] = "panic" THEN "Rollback" ELSE "Commit"
  /\ \A c, d \in Client : mode[c] \in {"fn", "deferred"} =>
       ctxTx[d] # cur[c] /\ (InTx(d) /\ cur[d] = cur[c] => d = c)

(* The inductive invariant: what DoTx promises holds together with that    *)
(* discipline of the code.                                                 *)
IInv == TypeOK /\ Discipline /\ NilMeansCommitted /\ DoTxSettles /\ DoneIsOver /\ NoOrphan

(* After a panic of fn, DoTx does not commit what fn left uncommitted. *)
PanicNeverCommits ==
  [][\A c \in Client :
       fn[c] = "panic" /\ mode[c] = "deferred" /\ sqlTx[cur[c]] = "open" =>
         sqlTx'[cur[c]] # "committed"]_vars

Customised == models = "custom" /\ \A c \in Client : mode[c] # "parse"

(* A model registered with options is replaced by the default one only by  *)
(* a Get that missed before: once no such Get is left it stays for good.   *)
CustomStays == [][Customised => Customised']_vars

(* go实战.md:192: DoTx rolls back when an error or a panic occurs.  The    *)
(* error of fn is dropped, and its transaction is committed.               *)
ErrorRollsBack ==
  [][\A c \in Client :
       fn[c] = "error" /\ mode[c] = "deferred" /\ sqlTx[cur[c]] = "open" =>
         sqlTx'[cur[c]] # "committed"]_vars

=============================================================================
