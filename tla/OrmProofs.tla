----------------------------- MODULE OrmProofs -----------------------------
(***************************************************************************)
(* Proofs about the ORM: first the transactions of a DB (OrmDB), for every *)
(* set of goroutines and of transactions, then a statement (OrmCore), for  *)
(* every set of entities, list of middlewares and text of a Selector.      *)
(***************************************************************************)
EXTENDS OrmDB, OrmCore, SequenceTheorems, WellFoundedInduction, NaturalsInduction, TLAPS

(* The facts that hold initially: no transaction was begun. *)
LEMMA InitIInv == Init => IInv
  BY NoTxAssumption DEF Init, IInv, TypeOK, Discipline, NilMeansCommitted, DoTxSettles, DoneIsOver,
     NoOrphan, InTx, Modes, Finishes, Results

(* Every step keeps the types.  SqlFinish needs the discipline: a pending  *)
(* finish is of a transaction that was begun.                              *)
LEMMA TypeStep == IInv /\ [Next]_vars => TypeOK'
<1> SUFFICES ASSUME IInv, [Next]_vars PROVE TypeOK'
  OBVIOUS
<1> USE NoTxAssumption DEF IInv, TypeOK, InTx, Modes, Finishes, Results
<1>1. CASE UNCHANGED vars
  BY <1>1 DEF vars
<1>2. ASSUME NEW c \in Client, DoTx(c) PROVE TypeOK'
  BY <1>2 DEF DoTx, BeginTx
<1>3. ASSUME NEW c \in Client, BeginTxV2(c) PROVE TypeOK'
  <2>1. CASE Propagates(c) /\ cur' = [cur EXCEPT ![c] = ctxTx[c]] /\ mode' = [mode EXCEPT ![c] = "tx"]
             /\ UNCHANGED <<sqlTx, ctxTx>>
    BY <1>3, <2>1 DEF BeginTxV2, Propagates, Discipline
  <2>2. ASSUME NEW t \in Tx, BeginTx(c, t, "tx"), ctxTx' = [ctxTx EXCEPT ![c] = t] PROVE TypeOK'
    BY <1>3, <2>2 DEF BeginTxV2, BeginTx
  <2>. QED BY <1>3, <2>1, <2>2 DEF BeginTxV2
<1>4. ASSUME NEW c \in Client, CallFinish(c) PROVE TypeOK'
  BY <1>4 DEF CallFinish, Finish
<1>5. ASSUME NEW c \in Client, SqlFinish(c) PROVE TypeOK'
  <2>1. cur[c] \in Tx /\ sqlTx[cur[c]] # "new"
    BY <1>5 DEF SqlFinish, Discipline
  <2>2. PICK o \in SqlOutcome(fin[c], cur[c]) : sqlTx' = [sqlTx EXCEPT ![cur[c]] = o[1]]
    BY <1>5 DEF SqlFinish
  <2> QED BY <1>5, <2>1 DEF SqlFinish, SqlOutcome
<1>6. ASSUME NEW c \in Client, FnEnds(c) PROVE TypeOK'
  BY <1>6 DEF FnEnds, Deferred, Finish
<1>7. ASSUME NEW c \in Client, GetMiss(c) \/ GetStore(c) \/ Register(c) PROVE TypeOK'
  BY <1>7 DEF GetMiss, GetStore, Register
<1>8. ASSUME NEW c \in Client, NEW d \in Client, Spawn(c, d) PROVE TypeOK'
  BY <1>8 DEF Spawn
<1>9. ASSUME NEW t \in Tx, CtxDone(t) PROVE TypeOK'
  BY <1>9 DEF CtxDone
<1>. QED BY <1>1, <1>2, <1>3, <1>4, <1>5, <1>6, <1>7, <1>8, <1>9 DEF Next

Promises == Discipline /\ NilMeansCommitted /\ DoTxSettles /\ DoneIsOver /\ NoOrphan

(* DoTx begins a transaction that nobody else has. *)
LEMMA DoTxStep == ASSUME IInv, TypeOK', NEW c \in Client, DoTx(c) PROVE Promises'
<1> USE NoTxAssumption DEF IInv, TypeOK, InTx
<1>1. Discipline'
  BY DEF DoTx, BeginTx, Discipline
<1>2. NilMeansCommitted'
  BY DEF DoTx, BeginTx, NilMeansCommitted, Discipline
<1>3. DoTxSettles'
  BY DEF DoTx, BeginTx, DoTxSettles, Discipline
<1>4. DoneIsOver'
  BY DEF DoTx, BeginTx, DoneIsOver, Discipline
<1>5. NoOrphan'
  BY DEF DoTx, BeginTx, NoOrphan, Discipline
<1>. QED BY <1>1, <1>2, <1>3, <1>4, <1>5 DEF Promises

(* Commit, Rollback and RollbackIfNotCommit set the flag and are pending. *)
LEMMA CallFinishStep == ASSUME IInv, TypeOK', NEW c \in Client, CallFinish(c) PROVE Promises'
<1> USE NoTxAssumption DEF IInv, TypeOK, InTx
<1>1. Discipline'
  BY DEF CallFinish, Finish, Discipline
<1>2. NilMeansCommitted'
  BY DEF CallFinish, Finish, NilMeansCommitted, Discipline
<1>3. DoTxSettles'
  BY DEF CallFinish, Finish, DoTxSettles, Discipline
<1>4. DoneIsOver'
  BY DEF CallFinish, Finish, DoneIsOver, Discipline
<1>5. NoOrphan'
  BY DEF CallFinish, Finish, NoOrphan, Discipline
<1>. QED BY <1>1, <1>2, <1>3, <1>4, <1>5 DEF Promises

(* The deferred function of DoTx sets the flag and is pending. *)
LEMMA FnEndsStep == ASSUME IInv, TypeOK', NEW c \in Client, FnEnds(c) PROVE Promises'
<1> USE NoTxAssumption DEF IInv, TypeOK, InTx
<1>1. Discipline'
  BY DEF FnEnds, Deferred, Finish, Discipline
<1>2. NilMeansCommitted'
  BY DEF FnEnds, Deferred, Finish, NilMeansCommitted, Discipline
<1>3. DoTxSettles'
  BY DEF FnEnds, Deferred, Finish, DoTxSettles, Discipline
<1>4. DoneIsOver'
  BY DEF FnEnds, Deferred, Finish, DoneIsOver, Discipline
<1>5. NoOrphan'
  BY DEF FnEnds, Deferred, Finish, NoOrphan, Discipline
<1>. QED BY <1>1, <1>2, <1>3, <1>4, <1>5 DEF Promises


(* BeginTxV2 joins the transaction of its context, or begins one that      *)
(* nobody else has when that one is done.                                  *)
LEMMA BeginTxV2Step == ASSUME IInv, TypeOK', NEW c \in Client, BeginTxV2(c) PROVE Promises'
<1> USE NoTxAssumption DEF IInv, TypeOK, InTx
<1>1. CASE Propagates(c) /\ cur' = [cur EXCEPT ![c] = ctxTx[c]] /\ mode' = [mode EXCEPT ![c] = "tx"]
           /\ UNCHANGED <<sqlTx, ctxTx>>
  <2>1. Discipline'
    BY <1>1 DEF BeginTxV2, Propagates, Discipline
  <2>2. NilMeansCommitted'
    BY <1>1 DEF BeginTxV2, Propagates, NilMeansCommitted, Discipline
  <2>3. DoTxSettles'
    BY <1>1 DEF BeginTxV2, Propagates, DoTxSettles, Discipline
  <2>4. DoneIsOver'
    BY <1>1 DEF BeginTxV2, Propagates, DoneIsOver, Discipline
  <2>5. NoOrphan'
    BY <1>1 DEF BeginTxV2, Propagates, NoOrphan, Discipline
  <2>. QED BY <2>1, <2>2, <2>3, <2>4, <2>5 DEF Promises
<1>2. ASSUME NEW t \in Tx, ~Propagates(c), BeginTx(c, t, "tx"), ctxTx' = [ctxTx EXCEPT ![c] = t]
      PROVE Promises'
  <2>1. Discipline'
    BY <1>2 DEF BeginTxV2, BeginTx, Propagates, Discipline
  <2>2. NilMeansCommitted'
    BY <1>2 DEF BeginTxV2, BeginTx, Propagates, NilMeansCommitted, Discipline
  <2>3. DoTxSettles'
    BY <1>2 DEF BeginTxV2, BeginTx, Propagates, DoTxSettles, Discipline
  <2>4. DoneIsOver'
    BY <1>2 DEF BeginTxV2, BeginTx, Propagates, DoneIsOver, Discipline
  <2>5. NoOrphan'
    BY <1>2 DEF BeginTxV2, BeginTx, Propagates, NoOrphan, DoneIsOver, Discipline
  <2>. QED BY <2>1, <2>2, <2>3, <2>4, <2>5 DEF Promises
<1>. QED BY <1>1, <1>2 DEF BeginTxV2

(* The sql.Tx is over once a finish has reached it; a commit that is       *)
(* reported as nil has happened.                                           *)
LEMMA SqlFinishStep == ASSUME IInv, TypeOK', NEW c \in Client, SqlFinish(c) PROVE Promises'
<1> USE NoTxAssumption DEF IInv, TypeOK, InTx
<1> DEFINE t == cur[c]
<1>a. t \in Tx /\ done[t]
  BY DEF SqlFinish, Discipline
<1>b. sqlTx'[t] \in {"committed", "rolledback"} /\ \A u \in Tx : u # t => sqlTx'[u] = sqlTx[u]
  BY <1>a DEF SqlFinish, SqlOutcome, Discipline
<1>c. sqlTx[t] # "open" => sqlTx'[t] = sqlTx[t]
  BY <1>a DEF SqlFinish, SqlOutcome
<1>d. ret'[c] = "nil" => \/ mode[c] = "deferred" /\ sqlTx'[t] = "committed"
                         \/ ret'[c] = ret[c] /\ InTx(c)
  BY <1>a DEF SqlFinish, SqlOutcome, Discipline
<1>1. Discipline'
  BY <1>a, <1>b, <1>c, <1>d DEF SqlFinish, Discipline
<1>2. NilMeansCommitted'
  BY <1>a, <1>b, <1>c, <1>d DEF SqlFinish, NilMeansCommitted, Discipline
<1>3. DoTxSettles'
  BY <1>a, <1>b, <1>c, <1>d DEF SqlFinish, DoTxSettles, Discipline
<1>4. DoneIsOver'
  BY <1>a, <1>b, <1>c, <1>d DEF SqlFinish, DoneIsOver, Discipline
<1>5. NoOrphan'
  BY <1>a, <1>b, <1>c, <1>d DEF SqlFinish, NoOrphan, Discipline
<1>. QED BY <1>1, <1>2, <1>3, <1>4, <1>5 DEF Promises

(* The other steps touch no call in progress. *)
LEMMA OtherStep ==
  ASSUME IInv, TypeOK',
         \/ \E c \in Client : GetMiss(c) \/ GetStore(c) \/ Register(c) \/ \E d \in Client : Spawn(c, d)
         \/ \E t \in Tx : CtxDone(t)
  PROVE  Promises'
<1> USE NoTxAssumption DEF IInv, TypeOK, InTx
<1>1. ASSUME NEW c \in Client, GetMiss(c) \/ GetStore(c) \/ Register(c) PROVE Promises'
  <2>1. Discipline'
    BY <1>1 DEF GetMiss, GetStore, Register, Discipline
  <2>2. NilMeansCommitted'
    BY <1>1 DEF GetMiss, GetStore, Register, NilMeansCommitted, Discipline
  <2>3. DoTxSettles'
    BY <1>1 DEF GetMiss, GetStore, Register, DoTxSettles, Discipline
  <2>4. DoneIsOver'
    BY <1>1 DEF GetMiss, GetStore, Register, DoneIsOver, Discipline
  <2>5. NoOrphan'
    BY <1>1 DEF GetMiss, GetStore, Register, NoOrphan, Discipline
  <2>. QED BY <2>1, <2>2, <2>3, <2>4, <2>5 DEF Promises
<1>2. ASSUME NEW c \in Client, NEW d \in Client, Spawn(c, d) PROVE Promises'
  <2>1. Discipline'
    BY <1>2 DEF Spawn, Discipline
  <2>2. NilMeansCommitted'
    BY <1>2 DEF Spawn, NilMeansCommitted, Discipline
  <2>3. DoTxSettles'
    BY <1>2 DEF Spawn, DoTxSettles, Discipline
  <2>4. DoneIsOver'
    BY <1>2 DEF Spawn, DoneIsOver, Discipline
  <2>5. NoOrphan'
    BY <1>2 DEF Spawn, NoOrphan, Discipline
  <2>. QED BY <2>1, <2>2, <2>3, <2>4, <2>5 DEF Promises
<1>3. ASSUME NEW t \in Tx, CtxDone(t) PROVE Promises'
  <2>1. Discipline'
    BY <1>3 DEF CtxDone, Discipline
  <2>2. NilMeansCommitted'
    BY <1>3 DEF CtxDone, NilMeansCommitted, Discipline
  <2>3. DoTxSettles'
    BY <1>3 DEF CtxDone, DoTxSettles, Discipline
  <2>4. DoneIsOver'
    BY <1>3 DEF CtxDone, DoneIsOver, Discipline
  <2>5. NoOrphan'
    BY <1>3 DEF CtxDone, NoOrphan, Discipline
  <2>. QED BY <2>1, <2>2, <2>3, <2>4, <2>5 DEF Promises
<1>. QED BY <1>1, <1>2, <1>3

(* IInv is inductive, so every reachable state keeps what DoTx promises. *)
THEOREM DBInvariant == Spec => []IInv
<1>1. Init => IInv
  BY InitIInv
<1>2. IInv /\ [Next]_vars => IInv'
  <2> SUFFICES ASSUME IInv, [Next]_vars PROVE IInv'
    OBVIOUS
  <2>1. TypeOK'
    BY TypeStep
  <2>2. CASE UNCHANGED vars
    BY <2>2 DEF vars, IInv, TypeOK, Discipline, NilMeansCommitted, DoTxSettles, DoneIsOver, NoOrphan, InTx
  <2>3. CASE Next
    <3>1. Promises'
      BY <2>1, <2>3, DoTxStep, BeginTxV2Step, CallFinishStep, SqlFinishStep, FnEndsStep, OtherStep DEF Next
    <3> QED BY <2>1, <3>1 DEF IInv, Promises
  <2> QED BY <2>2, <2>3
<1> QED BY <1>1, <1>2, PTL DEF Spec

(* A DoTx that returned nil has committed, for any number of goroutines    *)
(* and transactions (DB.DoTx).                                             *)
THEOREM NilCommitted == Spec => []NilMeansCommitted
  <1>1. IInv => NilMeansCommitted
    BY DEF IInv
  <1> QED BY <1>1, DBInvariant, PTL

(* No DoTx leaves its transaction open (DB.DoTx). *)
THEOREM Settled == Spec => []DoTxSettles
  <1>1. IInv => DoTxSettles
    BY DEF IInv
  <1> QED BY <1>1, DBInvariant, PTL

(* No open transaction is lost by DoTx and BeginTxV2. *)
THEOREM NothingOrphaned == Spec => []NoOrphan
  <1>1. IInv => NoOrphan
    BY DEF IInv
  <1> QED BY <1>1, DBInvariant, PTL

(* DoTx never commits after a panic (DB.DoTx): the transaction is its own, *)
(* and its deferred finish is a rollback.                                  *)
THEOREM PanicSafe == Spec => PanicNeverCommits
<1> DEFINE Step == \A c \in Client :
                     fn[c] = "panic" /\ mode[c] = "deferred" /\ sqlTx[cur[c]] = "open" =>
                       sqlTx'[cur[c]] # "committed"
<1>1. IInv /\ [Next]_vars => [Step]_vars
  <2> SUFFICES ASSUME IInv, Next, NEW c \in Client,
                      fn[c] = "panic", mode[c] = "deferred", sqlTx[cur[c]] = "open"
               PROVE  sqlTx'[cur[c]] # "committed"
    BY DEF IInv
  <2> USE NoTxAssumption DEF IInv, TypeOK, InTx
  <2>1. cur[c] \in Tx /\ fin[c] = "Rollback"
    BY DEF Discipline
  <2>2. ASSUME NEW d \in Client, DoTx(d) \/ CallFinish(d) \/ FnEnds(d) \/ GetMiss(d) \/ GetStore(d) \/ Register(d)
                                 \/ \E e \in Client : Spawn(d, e)
        PROVE sqlTx'[cur[c]] # "committed"
    BY <2>1, <2>2 DEF DoTx, BeginTx, CallFinish, FnEnds, GetMiss, GetStore, Register, Spawn
  <2>3. ASSUME NEW d \in Client, BeginTxV2(d) PROVE sqlTx'[cur[c]] # "committed"
    BY <2>1, <2>3 DEF BeginTxV2, BeginTx
  <2>4. ASSUME NEW d \in Client, SqlFinish(d) PROVE sqlTx'[cur[c]] # "committed"
    <3>1. cur[d] \in Tx /\ InTx(d)
      BY <2>4 DEF SqlFinish, Discipline
    <3>2. CASE d = c
      BY <2>1, <2>4, <3>2 DEF SqlFinish, SqlOutcome
    <3>3. CASE d # c
      <4>1. cur[d] # cur[c]
        BY <3>1, <3>3 DEF Discipline
      <4> QED BY <2>1, <2>4, <3>1, <4>1 DEF SqlFinish
    <3> QED BY <3>2, <3>3
  <2>5. ASSUME NEW t \in Tx, CtxDone(t) PROVE sqlTx'[cur[c]] # "committed"
    BY <2>1, <2>5 DEF CtxDone
  <2> QED BY <2>2, <2>3, <2>4, <2>5 DEF Next
<1> QED BY <1>1, DBInvariant, PTL DEF Spec, PanicNeverCommits

(* A customised model that no pending Get can replace stays for good       *)
(* (registry.Get, registry.Register).                                      *)
THEOREM CustomForever == Spec => CustomStays
<1>1. TypeOK /\ [Next]_vars => [Customised => Customised']_vars
  <2> SUFFICES ASSUME TypeOK, Next, Customised PROVE Customised'
    OBVIOUS
  <2> USE DEF TypeOK, Customised
  <2>1. ASSUME NEW c \in Client, DoTx(c) \/ CallFinish(c) \/ FnEnds(c) \/ \E d \in Client : Spawn(c, d)
        PROVE Customised'
    BY <2>1 DEF DoTx, BeginTx, CallFinish, FnEnds, Spawn
  <2>2. ASSUME NEW c \in Client, BeginTxV2(c) PROVE Customised'
    BY <2>2 DEF BeginTxV2, BeginTx
  <2>3. ASSUME NEW c \in Client, SqlFinish(c) PROVE Customised'
    BY <2>3 DEF SqlFinish
  <2>4. ASSUME NEW c \in Client, GetMiss(c) \/ GetStore(c) \/ Register(c) PROVE Customised'
    BY <2>4 DEF GetMiss, GetStore, Register
  <2>5. ASSUME NEW t \in Tx, CtxDone(t) PROVE Customised'
    BY <2>5 DEF CtxDone
  <2> QED BY <2>1, <2>2, <2>3, <2>4, <2>5 DEF Next
<1>2. IInv => TypeOK
  BY DEF IInv
<1> QED BY <1>1, <1>2, DBInvariant, PTL DEF Spec, CustomStays

-----------------------------------------------------------------------------
(* A statement *)

(* A builder of the statement: its model is the entity's or not looked up. *)
IsBuilder(x, m) ==
  /\ x = [model |-> x.model, sb |-> x.sb, args |-> x.args, err |-> x.err]
  /\ x.model \in {NoModel, m}

(* The query of a fresh builder, and the queries w of an Inserter or a     *)
(* RawQuerier that are all that one.                                       *)
TheQuery == Query(Build(NewBuilder))
OneQuery(w) == st.kind # "select" => \A i \in DOMAIN w : w[i].query = TheQuery

(* The inductive invariant of a statement: the DB is the one it was made   *)
(* with, the builder has the model of the entity or none, and the last     *)
(* call kept its promises.                                                 *)
StatementInv ==
  /\ db.r = Models /\ db.mdls \in Mdls
  /\ st.entity \in Entity /\ st.kind \in {"select", "insert", "raw"}
  /\ st = [kind |-> st.kind, entity |-> st.entity, table |-> st.table, where |-> st.where,
           columns |-> st.columns, values |-> st.values, upsert |-> st.upsert, raw |-> st.raw]
  /\ IsBuilder(b, Models[st.entity])
  /\ OneQuery(out.built) /\ SuccessIsReal

(***************************************************************************)
(* Induction, with a set in the place of a predicate.                      *)
(***************************************************************************)
\* Induction along 0..n.
LEMMA RangeInduction ==
  ASSUME NEW n \in Nat, NEW T, 0 \in T, \A k \in 1..n : k - 1 \in T => k \in T
  PROVE  0..n \subseteq T
<1> DEFINE Less == {ss \in Nat \X Nat : ss[1] < ss[2]}
           bad == (0..n) \ T
<1> SUFFICES ASSUME bad # {} PROVE FALSE
  OBVIOUS
<1>1. IsWellFoundedOn(Less, Nat)
  BY NatLessThanWellFounded, Zenon DEF OpToRel
<1>2. bad \subseteq Nat
  OBVIOUS
<1>3. PICK x \in bad : \A y \in bad : <<y, x>> \notin Less
  <2> HIDE DEF Less, bad
  <2> QED BY <1>1, <1>2, WFMin, Zenon
<1>4. x \in 1..n /\ x - 1 \in 0..n
  OBVIOUS
<1>5. x - 1 \in bad
  BY <1>4
<1>6. <<x - 1, x>> \in Less
  BY <1>4
<1> QED BY <1>3, <1>5, <1>6, Zenon

(***************************************************************************)
(* The metadata of an entity.                                              *)
(***************************************************************************)
\* x has the fields and the columns of p.
SameColumns(x, p) ==
  /\ DOMAIN x = {"err", "table", "fields", "fieldMap", "columnMap"}
  /\ x.fields = p.fields /\ x.columnMap = p.columnMap

\* An option that names a table leaves the fields and their columns alone.
LEMMA TableOptKeeps ==
  ASSUME NEW x, NEW p, SameColumns(x, p), NEW o, o.opt = "table"
  PROVE  SameColumns(ApplyOpt(x, o), p)
<1>1. CASE x.err # NoError
  <2>1. ApplyOpt(x, o) = x
    BY <1>1 DEF ApplyOpt
  <2> QED BY <2>1
<1>2. CASE x.err = NoError
  <2>1. ApplyOpt(x, o) = [x EXCEPT !.table = o.name]
    BY <1>2 DEF ApplyOpt, WithTableName
  <2> QED BY <2>1 DEF SameColumns
<1> QED BY <1>1, <1>2

\* Register with options that only name tables keeps the parsed columns.
LEMMA TableOptsKeep ==
  ASSUME NEW p, SameColumns(p, p), NEW opts, Len(opts) \in Nat,
         \A i \in 1..Len(opts) : opts[i].opt = "table"
  PROVE  SameColumns(ApplyOpts(p, opts), p)
<1> DEFINE n == Len(opts)
           IsApplied(f, k) == f = [i \in 0..k |-> IF i = 0 THEN p ELSE ApplyOpt(f[i - 1], opts[i])]
           applied == CHOOSE f : IsApplied(f, n)
<1>1. \E f : IsApplied(f, n)
  <2> DEFINE T == {k \in 0..n : \E f : IsApplied(f, k)}
  <2>1. 0 \in T
    <3>1. IsApplied([i \in 0..0 |-> p], 0) /\ 0 \in 0..n
      OBVIOUS
    <3> HIDE DEF IsApplied
    <3> QED BY <3>1
  <2>2. ASSUME NEW k \in 1..n, k - 1 \in T PROVE k \in T
    <3>1. PICK f : IsApplied(f, k - 1)
      BY <2>2
    <3> DEFINE g == [i \in 0..k |-> IF i = k THEN ApplyOpt(f[k - 1], opts[k]) ELSE f[i]]
    <3>2. ASSUME NEW i \in 0..k
          PROVE  g[i] = IF i = 0 THEN p ELSE ApplyOpt(g[i - 1], opts[i])
      BY <3>1
    <3>3. IsApplied(g, k) /\ k \in 0..n
      BY <3>2
    <3> HIDE DEF IsApplied, g
    <3> QED BY <3>3
  <2>3. 0..n \subseteq T
    <3> HIDE DEF T
    <3> QED BY <2>1, <2>2, RangeInduction
  <2> QED BY <2>3
<1>2. IsApplied(applied, n)
  <2> HIDE DEF IsApplied
  <2> QED BY <1>1
<1>3. ApplyOpts(p, opts) = applied[n]
  BY DEF ApplyOpts
<1> HIDE DEF applied
<1>4. \A k \in 0..n : applied[k] = IF k = 0 THEN p ELSE ApplyOpt(applied[k - 1], opts[k])
  BY <1>2, Zenon
<1> DEFINE T == {k \in 0..n : SameColumns(applied[k], p)}
<1>5. 0 \in T
  <2>1. 0 \in 0..n
    OBVIOUS
  <2> QED BY <1>4, <2>1
<1>6. ASSUME NEW k \in 1..n, k - 1 \in T PROVE k \in T
  <2>1. k \in 0..n /\ k # 0
    OBVIOUS
  <2>2. applied[k] = ApplyOpt(applied[k - 1], opts[k])
    BY <1>4, <2>1
  <2> QED BY <1>6, <2>1, <2>2, TableOptKeeps
<1>7. 0..n \subseteq T
  <2> HIDE DEF T
  <2> QED BY <1>5, <1>6, RangeInduction
<1>8. n \in 0..n
  OBVIOUS
<1> QED BY <1>3, <1>7, <1>8

\* With columns of their own, the fields of an entity that no option renamed
\* are found again by their columns: ColumnMap undoes the list of fields.
LEMMA ReadsOwnFields ==
  ASSUME StatementAssumption, NEW e \in DOMAIN Struct, NEW m, m = Models[e], m.err = NoError,
         \A i \in DOMAIN Opts[e] : Opts[e][i].opt # "column",
         \A i, j \in DOMAIN m.fields : m.fields[i].col = m.fields[j].col => i = j
  PROVE  /\ KnowsColumns(m, "row")
         /\ FieldsRead(m) = [i \in DOMAIN m.fields |-> m.fields[i].go]
<1> DEFINE p == ParsedModel(Struct[e])
           places == 1..Len(Struct[e].fields)
           cols == [i \in places |-> FieldColumn(Struct[e].fields[i])]
<1>1. /\ p.fields = [i \in places |-> [go |-> Struct[e].fields[i].name, col |-> cols[i]]]
      /\ p.columnMap = ColumnMap(cols)
      /\ DOMAIN p = {"err", "table", "fields", "fieldMap", "columnMap"}
  BY Zenon DEF ParsedModel
<1>2. m = RegisterModel(e)
  BY DEF Models
<1>3. m = ApplyOpts(p, Opts[e])
  <2> HIDE DEF p
  <2>1. DOMAIN p = {"err", "table", "fields", "fieldMap", "columnMap"}
    BY <1>1
  <2>2. \A x : x # NoError => [p EXCEPT !.err = x].err # NoError
    BY <2>1
  <2>3. "point only" # NoError /\ "invalid tag" # NoError
    BY DEF NoError
  <2>4. m # [p EXCEPT !.err = "point only"] /\ m # [p EXCEPT !.err = "invalid tag"]
    BY <2>2, <2>3
  <2> QED BY <1>2, <2>4, Zenon DEF RegisterModel, p
<1>4. SameColumns(m, p)
  <2>1. SameColumns(p, p)
    BY <1>1 DEF SameColumns
  <2>2. Len(Opts[e]) \in Nat /\ \A i \in 1..Len(Opts[e]) : Opts[e][i].opt = "table"
    BY DEF StatementAssumption
  <2> HIDE DEF p
  <2> QED BY <1>3, <2>1, <2>2, TableOptsKeep
<1>5. DOMAIN cols = places /\ \A i \in places : i \in Nat
  BY DEF StatementAssumption
<1> HIDE DEF p, cols
<1>6. /\ m.columnMap = ColumnMap(cols) /\ DOMAIN m.fields = places
      /\ \A i \in places : m.fields[i].col = cols[i]
  BY <1>1, <1>4 DEF SameColumns
<1>7. DOMAIN m.columnMap = Elements(cols)
  BY <1>6 DEF ColumnMap
<1>8. ASSUME NEW i \in places PROVE m.fields[i].col \in DOMAIN m.columnMap /\ m.columnMap[m.fields[i].col] = i
  <2>1. cols[i] \in Elements(cols)
    BY <1>5 DEF Elements
  <2>2. {j \in DOMAIN cols : cols[j] = cols[i]} = {i}
    BY <1>5, <1>6
  <2>3. Max({i}) = i
    BY <1>5 DEF Max
  <2>4. ColumnMap(cols)[cols[i]] = Max({j \in DOMAIN cols : cols[j] = cols[i]})
    BY <2>1 DEF ColumnMap
  <2> QED BY <1>6, <1>7, <2>1, <2>2, <2>3, <2>4
<1> HIDE DEF places
<1>9. KnowsColumns(m, "row")
  BY <1>6, <1>8 DEF KnowsColumns
<1>10. FieldsRead(m) = [i \in DOMAIN m.fields |-> m.fields[i].go]
  BY <1>6, <1>8 DEF FieldsRead
<1> QED BY <1>9, <1>10

(***************************************************************************)
(* Build.                                                                  *)
(***************************************************************************)
\* What the invariant says of the DB and the statement.
Opened ==
  /\ db.r = Models /\ db.mdls \in Mdls
  /\ st.entity \in Entity /\ st.kind \in {"select", "insert", "raw"}

\* A builder finds the model of its entity.
LEMMA FindsModel ==
  ASSUME Opened, NEW x, IsBuilder(x, Models[st.entity])
  PROVE  ModelOf(db.r, st, x) = Models[st.entity]
<1>1. CASE x.model = NoModel
  <2>1. x.model.err = "nil"
    BY <1>1 DEF NoModel
  <2> QED BY <2>1 DEF ModelOf, Opened
<1>2. CASE x.model = Models[st.entity]
  BY <1>2 DEF ModelOf, Opened
<1> QED BY <1>1, <1>2 DEF IsBuilder
\* The model of a builder with its model is kept by Build.
BuiltFrom(q, x, m) ==
  /\ IsBuilder(q, m)
  /\ x.model = m /\ m.err = NoError => q.model = m
  /\ st.kind # "select" /\ q.err = NoError => Query(q) = TheQuery

\* Selector.Build leaves a builder of the statement.
LEMMA SelectKeeps ==
  ASSUME Opened, NEW x, IsBuilder(x, Models[st.entity]), st.kind = "select"
  PROVE  BuiltFrom(Build(x), x, Models[st.entity])
<1> DEFINE m == Models[st.entity]
<1>1. Build(x) = SelectWith(db.r, st, x, m)
  BY FindsModel DEF Build, SelectBuild
<1> HIDE DEF m
<1>2. CASE m.err # NoError
  <2>1. Build(x) = [x EXCEPT !.err = m.err]
    BY <1>1, <1>2 DEF SelectWith
  <2>2. IsBuilder(Build(x), m)
    BY <2>1 DEF IsBuilder, m
  <2> QED BY <1>2, <2>2 DEF BuiltFrom, m
<1>3. CASE m.err = NoError
  <2>1. PICK t : Build(x) = Written(m, t)
    BY <1>1, <1>3, Zenon DEF SelectWith
  <2>2. IsBuilder(Build(x), m) /\ Build(x).model = m
    BY <2>1 DEF IsBuilder, Written
  <2> QED BY <2>2 DEF BuiltFrom, m
<1> QED BY <1>2, <1>3

\* A RawQuerier has one query.
LEMMA RawKeeps ==
  ASSUME Opened, NEW x, IsBuilder(x, Models[st.entity]), st.kind = "raw"
  PROVE  BuiltFrom(Build(x), x, Models[st.entity])
<1>1. \A y : Build(y) = [model |-> y.model, sb |-> st.raw.sql, args |-> st.raw.args, err |-> NoError]
  BY DEF Build
<1>2. Query(Build(x)) = TheQuery
  BY <1>1 DEF Query, TheQuery
<1>3. IsBuilder(Build(x), Models[st.entity]) /\ Build(x).model = x.model
  BY <1>1 DEF IsBuilder
<1> QED BY <1>2, <1>3 DEF BuiltFrom

\* What is written before the values of an INSERT, with the arguments that an
\* earlier Build left.
TableText(m, args) == [model |-> m, sb |-> <<"INSERT INTO">> \o <<m.table, "(">>, args |-> args, err |-> NoError]

\* Inserter.Build forgets the arguments of an earlier Build: what it writes
\* does not depend on them.
LEMMA ArgsForgotten ==
  ASSUME NEW r, NEW s, NEW m, NEW args1, NEW args2, NEW fields, NEW dialect
  PROVE  InsertText(r, s, TableText(m, args1), fields, dialect)
           = InsertText(r, s, TableText(m, args2), fields, dialect)
<1> DEFINE toks == Listed(fields) \o <<")", "VALUES">>
           head(args) == WriteString(TableText(m, args), toks)
<1>1. \A args : [head(args) EXCEPT !.args = <<>>]
        = [model |-> m, sb |-> (<<"INSERT INTO">> \o <<m.table, "(">>) \o toks, args |-> <<>>, err |-> NoError]
  <2>1. \A s0, args, tk : WriteString([model |-> m, sb |-> s0, args |-> args, err |-> NoError], tk)
                            = [model |-> m, sb |-> s0 \o tk, args |-> args, err |-> NoError]
    BY DEF WriteString
  <2>2. \A s0, args : [[model |-> m, sb |-> s0, args |-> args, err |-> NoError] EXCEPT !.args = <<>>]
                      = [model |-> m, sb |-> s0, args |-> <<>>, err |-> NoError]
    OBVIOUS
  <2> DEFINE s1 == <<"INSERT INTO">> \o <<m.table, "(">>
  <2> HIDE DEF toks
  <2> TAKE args
  <2>3. TableText(m, args) = [model |-> m, sb |-> s1, args |-> args, err |-> NoError]
    BY DEF TableText
  <2> HIDE DEF s1
  <2>4. head(args) = [model |-> m, sb |-> s1 \o toks, args |-> args, err |-> NoError]
    BY <2>1, <2>3, Zenon
  <2> HIDE DEF head
  <2>5. [head(args) EXCEPT !.args = <<>>] = [model |-> m, sb |-> s1 \o toks, args |-> <<>>, err |-> NoError]
    BY <2>2, <2>4
  <2> QED BY <2>5 DEF s1
<1>2. [head(args1) EXCEPT !.args = <<>>] = [head(args2) EXCEPT !.args = <<>>]
  <2> HIDE DEF head, toks
  <2> QED BY <1>1, Zenon
<1> QED BY <1>2, Zenon DEF InsertText

\* Inserter.Build, case by case.
InsertOutcome(q, r, s, x, m, dialect) ==
  \/ s.values = <<>> /\ q = [x EXCEPT !.err = "insert zero row"]
  \/ /\ s.values # <<>> /\ m.err # NoError
     /\ q = [model |-> NoModel, sb |-> <<"INSERT INTO">>, args |-> x.args, err |-> m.err]
  \/ /\ s.values # <<>> /\ m.err = NoError /\ ~(Elements(s.columns) \subseteq DOMAIN m.fieldMap)
     /\ q = [TableText(m, x.args) EXCEPT !.err = "unknown column"]
  \/ /\ s.values # <<>> /\ m.err = NoError /\ Elements(s.columns) \subseteq DOMAIN m.fieldMap
     /\ q = Written(m, InsertText(r, s, TableText(m, x.args), InsertFields(s, m), dialect))

\* Inserter.Build has one of these outcomes.
LEMMA InsertCases ==
  ASSUME NEW r, NEW s, NEW x, NEW m, NEW dialect, IsBuilder(x, m)
  PROVE  InsertOutcome(InsertWith(r, s, x, m, dialect), r, s, x, m, dialect)
<1>1. WriteString(Restart(x, m), <<m.table, "(">>) = TableText(m, x.args)
  BY DEF WriteString, Restart, TableText
<1>2. CASE s.values = <<>>
  <2>1. InsertWith(r, s, x, m, dialect) = [x EXCEPT !.err = "insert zero row"]
    BY <1>2, Zenon DEF InsertWith
  <2> QED BY <1>2, <2>1, Zenon DEF InsertOutcome
<1>3. CASE s.values # <<>> /\ m.err # NoError
  <2>1. InsertWith(r, s, x, m, dialect) = [Restart(x, NoModel) EXCEPT !.err = m.err]
    BY <1>3, Zenon DEF InsertWith
  <2>2. [Restart(x, NoModel) EXCEPT !.err = m.err]
          = [model |-> NoModel, sb |-> <<"INSERT INTO">>, args |-> x.args, err |-> m.err]
    <3>1. \A n, s0, a, e0, e : [[model |-> n, sb |-> s0, args |-> a, err |-> e0] EXCEPT !.err = e]
                               = [model |-> n, sb |-> s0, args |-> a, err |-> e]
      OBVIOUS
    <3> DEFINE s1 == <<"INSERT INTO">>
    <3>2. Restart(x, NoModel) = [model |-> NoModel, sb |-> s1, args |-> x.args, err |-> NoError]
      BY DEF Restart
    <3> HIDE DEF s1
    <3>3. [Restart(x, NoModel) EXCEPT !.err = m.err] = [model |-> NoModel, sb |-> s1, args |-> x.args, err |-> m.err]
      BY <3>1, <3>2
    <3> QED BY <3>3 DEF s1
  <2> QED BY <1>3, <2>1, <2>2, Zenon DEF InsertOutcome
<1>4. CASE s.values # <<>> /\ m.err = NoError /\ ~(Elements(s.columns) \subseteq DOMAIN m.fieldMap)
  <2>1. InsertWith(r, s, x, m, dialect) = Fail(TableText(m, x.args), "unknown column")
    BY <1>1, <1>4, Zenon DEF InsertWith
  <2>2. Fail(TableText(m, x.args), "unknown column") = [TableText(m, x.args) EXCEPT !.err = "unknown column"]
    BY DEF Fail, TableText
  <2> QED BY <1>4, <2>1, <2>2, Zenon DEF InsertOutcome
<1>5. CASE s.values # <<>> /\ m.err = NoError /\ Elements(s.columns) \subseteq DOMAIN m.fieldMap
  <2>1. InsertWith(r, s, x, m, dialect)
          = Written(m, InsertText(r, s, TableText(m, x.args), InsertFields(s, m), dialect))
    BY <1>1, <1>5, Zenon DEF InsertWith
  <2> QED BY <1>5, <2>1, Zenon DEF InsertOutcome
<1> QED BY <1>2, <1>3, <1>4, <1>5

\* Inserter.Build leaves a builder of the statement and makes one query.
LEMMA InsertKeeps ==
  ASSUME Opened, NEW x, IsBuilder(x, Models[st.entity]), st.kind = "insert"
  PROVE  BuiltFrom(Build(x), x, Models[st.entity])
<1> DEFINE m == Models[st.entity]
           W(y) == InsertWith(db.r, st, y, m, db.dialect)
           T(y) == InsertText(db.r, st, TableText(m, y.args), InsertFields(st, m), db.dialect)
<1>1. IsBuilder(NewBuilder, m)
  BY DEF IsBuilder, NewBuilder
<1>2. Build(x) = W(x) /\ Build(NewBuilder) = W(NewBuilder)
  BY <1>1, FindsModel DEF Build, InsertBuild
<1>3. "insert zero row" # NoError /\ "unknown column" # NoError
  BY DEF NoError
<1>4. T(x) = T(NewBuilder)
  BY ArgsForgotten
<1>9. /\ InsertOutcome(Build(x), db.r, st, x, m, db.dialect)
      /\ InsertOutcome(Build(NewBuilder), db.r, st, NewBuilder, m, db.dialect)
  BY <1>1, <1>2, InsertCases, Zenon
<1> HIDE DEF m
<1>5. CASE st.values = <<>>
  <2>1. Build(x) = [x EXCEPT !.err = "insert zero row"]
    BY <1>5, <1>9, Zenon DEF InsertOutcome
  <2>2. IsBuilder(Build(x), m) /\ Build(x).model = x.model /\ Build(x).err # NoError
    BY <1>3, <2>1 DEF IsBuilder, m
  <2> QED BY <2>2 DEF BuiltFrom, m
<1>6. CASE st.values # <<>> /\ m.err # NoError
  <2>1. Build(x) = [model |-> NoModel, sb |-> <<"INSERT INTO">>, args |-> x.args, err |-> m.err]
    BY <1>6, <1>9, Zenon DEF InsertOutcome
  <2> DEFINE s1 == <<"INSERT INTO">>
  <2>2. Build(x) = [model |-> NoModel, sb |-> s1, args |-> x.args, err |-> m.err]
    BY <2>1
  <2> HIDE DEF s1
  <2>3. IsBuilder(Build(x), m) /\ Build(x).err # NoError
    BY <1>6, <2>2 DEF IsBuilder
  <2> QED BY <1>6, <2>3 DEF BuiltFrom, m
<1>7. CASE st.values # <<>> /\ m.err = NoError /\ ~(Elements(st.columns) \subseteq DOMAIN m.fieldMap)
  <2>1. Build(x) = [TableText(m, x.args) EXCEPT !.err = "unknown column"]
    BY <1>7, <1>9, Zenon DEF InsertOutcome
  <2>2. IsBuilder(Build(x), m) /\ Build(x).model = m /\ Build(x).err # NoError
    BY <1>3, <2>1 DEF IsBuilder, TableText
  <2> QED BY <2>2 DEF BuiltFrom, m
<1>8. CASE st.values # <<>> /\ m.err = NoError /\ Elements(st.columns) \subseteq DOMAIN m.fieldMap
  <2>1. Build(x) = Written(m, T(x)) /\ Build(NewBuilder) = Written(m, T(NewBuilder))
    BY <1>8, <1>9, Zenon DEF InsertOutcome
  <2>2. IsBuilder(Build(x), m) /\ Build(x).model = m
    <3> HIDE DEF T
    <3> QED BY <2>1 DEF IsBuilder, Written
  <2>3. Query(Build(x)) = TheQuery
    <3> HIDE DEF T
    <3> QED BY <1>4, <2>1 DEF TheQuery
  <2> QED BY <2>2, <2>3 DEF BuiltFrom, m
<1> QED BY <1>5, <1>6, <1>7, <1>8

\* Build, of every kind of statement.
LEMMA BuildKeeps ==
  ASSUME Opened, NEW x, IsBuilder(x, Models[st.entity])
  PROVE  BuiltFrom(Build(x), x, Models[st.entity])
BY SelectKeeps, InsertKeeps, RawKeeps DEF Opened

(***************************************************************************)
(* A call on its way through the middlewares.                              *)
(***************************************************************************)
IsLog(w) == \E S : w \in Seq(S)
Sends(w) == {i \in DOMAIN w : w[i].by = "send"}
Once(S) == \E i \in S : S = {i}

\* v is w with the query of q, if it was built, at its end.
Grown(v, w, by, q) ==
  /\ IsLog(v) /\ OneQuery(v)
  /\ by # "send" \/ q.err # NoError => Sends(v) = Sends(w)
  /\ by = "send" /\ q.err = NoError => Sends(v) = Sends(w) \cup {Len(w) + 1}

\* What a handler adds to the queries that were built.
LEMMA LogGrows ==
  ASSUME NEW w, IsLog(w), OneQuery(w), NEW by, NEW q,
         st.kind # "select" /\ q.err = NoError => Query(q) = TheQuery
  PROVE  Grown(w \o Built(by, q), w, by, q)
<1>1. PICK S : w \in Seq(S)
  BY DEF IsLog
<1>2. CASE q.err # NoError
  <2>1. Built(by, q) = <<>>
    BY <1>2 DEF Built
  <2>2. w \o <<>> = w
    BY <1>1
  <2> QED BY <1>2, <2>1, <2>2, Zenon DEF Grown
<1>3. CASE q.err = NoError
  <2> DEFINE e == [by |-> by, query |-> Query(q)]
             v == w \o <<e>>
  <2>1. Built(by, q) = <<e>>
    BY <1>3, Zenon DEF Built
  <2>2. e.by = by /\ e.query = Query(q)
    OBVIOUS
  <2> HIDE DEF e
  <2>3. w \in Seq(S \cup {e}) /\ <<e>> \in Seq(S \cup {e})
    BY <1>1
  <2>4. /\ v \in Seq(S \cup {e}) /\ Len(w) \in Nat /\ DOMAIN w = 1..Len(w) /\ DOMAIN v = 1..(Len(w) + 1)
        /\ \A i \in 1..Len(w) : v[i] = w[i]
        /\ v[Len(w) + 1] = e
    BY <2>3
  <2> HIDE DEF v
  <2>5. DOMAIN v = DOMAIN w \cup {Len(w) + 1} /\ Len(w) + 1 \notin DOMAIN w
    BY <2>4
  <2>6. IsLog(v)
    BY <2>4, Zenon DEF IsLog
  <2>7. OneQuery(v)
    BY <1>3, <2>2, <2>4, <2>5, Zenon DEF OneQuery
  <2>8. by # "send" => Sends(v) = Sends(w)
    BY <2>2, <2>4, <2>5 DEF Sends
  <2>9. by = "send" => Sends(v) = Sends(w) \cup {Len(w) + 1}
    BY <2>2, <2>4, <2>5 DEF Sends
  <2>10. w \o Built(by, q) = v
    BY <2>1 DEF v
  <2> QED BY <1>3, <2>6, <2>7, <2>8, <2>9, <2>10, Zenon DEF Grown
<1> QED BY <1>2, <1>3

\* A call on a statement whose entity has the model m.
IsPass(s, m) ==
  /\ s = [b |-> s.b, built |-> s.built, defers |-> s.defers, back |-> s.back, err |-> s.err, into |-> s.into]
  /\ s.defers \in Nat /\ s.back \in BOOLEAN
  /\ IsBuilder(s.b, m) /\ s.b.model = m
  /\ IsLog(s.built) /\ OneQuery(s.built)

\* The statement can be executed: its entity has a model.
Executable(m) == Opened /\ m = Models[st.entity] /\ m.err = NoError

\* What a call builds on its way.
LEMMA PassBuilds ==
  ASSUME NEW m, Executable(m), NEW s, IsPass(s, m), NEW by
  PROVE  /\ IsBuilder(Build(s.b), m) /\ Build(s.b).model = m
         /\ Grown(s.built \o Built(by, Build(s.b)), s.built, by, Build(s.b))
<1>1. BuiltFrom(Build(s.b), s.b, m)
  BY BuildKeeps DEF Executable, IsPass
<1>2. IsBuilder(Build(s.b), m) /\ Build(s.b).model = m
  BY <1>1 DEF BuiltFrom, Executable, IsPass
<1>3. st.kind # "select" /\ Build(s.b).err = NoError => Query(Build(s.b)) = TheQuery
  BY <1>1 DEF BuiltFrom
<1> QED BY <1>2, <1>3, LogGrows DEF IsPass

\* A middleware that logs adds its query and changes nothing else.
LEMMA PassedKeeps ==
  ASSUME NEW m, Executable(m), NEW s, IsPass(s, m)
  PROVE  LET p == Passed(s, Build(s.b))
         IN  /\ IsPass(p, m) /\ Sends(p.built) = Sends(s.built)
             /\ p.back = s.back /\ p.err = s.err /\ p.into = s.into /\ p.defers = s.defers
<1> DEFINE q == Build(s.b)
           v == s.built \o Built("log", q)
           p == Passed(s, q)
<1>1. IsBuilder(q, m) /\ q.model = m /\ Grown(v, s.built, "log", q)
  BY PassBuilds
<1>2. p = [b |-> q, built |-> v, defers |-> s.defers, back |-> s.back, err |-> s.err, into |-> s.into]
  BY DEF Passed
<1> HIDE DEF q, v, p
<1>3. /\ p.b = q /\ p.built = v /\ p.back = s.back /\ p.err = s.err /\ p.into = s.into /\ p.defers = s.defers
      /\ p = [b |-> p.b, built |-> p.built, defers |-> p.defers, back |-> p.back, err |-> p.err, into |-> p.into]
  BY <1>2, Zenon
<1>4. IsLog(v) /\ OneQuery(v) /\ Sends(v) = Sends(s.built)
  BY <1>1 DEF Grown
<1>5. IsPass(p, m)
  BY <1>1, <1>3, <1>4, Zenon DEF IsPass
<1> QED BY <1>3, <1>4, <1>5, Zenon DEF p, q

\* p is s on its way back, with an answer.
AnsweredBy(p, s, m, by, err, into) ==
  /\ IsPass(p, m) /\ Grown(p.built, s.built, by, Build(s.b))
  /\ p.back = TRUE /\ p.err = err /\ p.into = into

\* A handler that answers adds its query and turns the call back.
LEMMA ResultKeeps ==
  ASSUME NEW m, Executable(m), NEW s, IsPass(s, m), NEW by, NEW err, NEW into
  PROVE  AnsweredBy(Result(s, by, Build(s.b), err, into), s, m, by, err, into)
<1> DEFINE q == Build(s.b)
           v == s.built \o Built(by, q)
           p == Result(s, by, q, err, into)
<1>1. IsBuilder(q, m) /\ q.model = m /\ Grown(v, s.built, by, q)
  BY PassBuilds
<1>2. p = [b |-> q, built |-> v, defers |-> s.defers, back |-> TRUE, err |-> err, into |-> into]
  BY DEF Result
<1> HIDE DEF q, v, p
<1>3. /\ p.b = q /\ p.built = v /\ p.back = TRUE /\ p.err = err /\ p.into = into /\ p.defers = s.defers
      /\ p = [b |-> p.b, built |-> p.built, defers |-> p.defers, back |-> p.back, err |-> p.err, into |-> p.into]
  BY <1>2, Zenon
<1>4. IsLog(v) /\ OneQuery(v)
  BY <1>1 DEF Grown
<1>5. IsPass(p, m)
  BY <1>1, <1>3, <1>4, Zenon DEF IsPass
<1> QED BY <1>1, <1>3, <1>5, Zenon DEF p, q, AnsweredBy

\* On the way in nothing is sent, and a middleware that turns a call back
\* has an error.
Going(s, m) == IsPass(s, m) /\ Sends(s.built) = {} /\ (s.back => s.err # NoError)

\* querylog and opentelemetry.
LEMMA LogFirstGoes ==
  ASSUME NEW m, Executable(m), NEW s, Going(s, m), ~s.back, NEW minds
  PROVE  Going(LogFirst(s, Build(s.b), minds), m)
<1> DEFINE q == Build(s.b)
<1>1. IsPass(s, m) /\ Sends(s.built) = {}
  BY DEF Going
<1>2. CASE q.err = Panic \/ (minds /\ q.err # NoError)
  <2> DEFINE p == Result(s, "log", q, q.err, <<>>)
  <2>1. LogFirst(s, q, minds) = p
    BY <1>2, Zenon DEF LogFirst
  <2>2. AnsweredBy(p, s, m, "log", q.err, <<>>)
    BY <1>1, ResultKeeps, Zenon
  <2>3. q.err # NoError
    BY <1>2 DEF Panic, NoError
  <2> HIDE DEF p, q
  <2>4. Sends(p.built) = {}
    BY <1>1, <2>2 DEF AnsweredBy, Grown
  <2> QED BY <2>1, <2>2, <2>3, <2>4, Zenon DEF AnsweredBy, Going, q
<1>3. CASE ~(q.err = Panic \/ (minds /\ q.err # NoError))
  <2>1. LogFirst(s, q, minds) = Passed(s, q)
    BY <1>3, Zenon DEF LogFirst
  <2>2. /\ IsPass(Passed(s, q), m) /\ Sends(Passed(s, q).built) = Sends(s.built)
        /\ Passed(s, q).back = s.back
    BY <1>1, PassedKeeps, Zenon
  <2> HIDE DEF q
  <2> QED BY <1>1, <2>1, <2>2, Zenon DEF Going, q
<1> QED BY <1>2, <1>3

\* slowquery defers a function.
LEMMA SlowGoes ==
  ASSUME NEW m, NEW s, Going(s, m)
  PROVE  Going(slowquery(s), m)
<1> DEFINE p == slowquery(s)
<1>1. IsPass(s, m)
  BY DEF Going
<1>2. p = [b |-> s.b, built |-> s.built, defers |-> s.defers + 1, back |-> s.back, err |-> s.err, into |-> s.into]
  BY <1>1 DEF slowquery, IsPass
<1> HIDE DEF p
<1>3. /\ p.b = s.b /\ p.built = s.built /\ p.back = s.back /\ p.err = s.err /\ p.defers = s.defers + 1
      /\ p = [b |-> p.b, built |-> p.built, defers |-> p.defers, back |-> p.back, err |-> p.err, into |-> p.into]
  BY <1>2, Zenon
<1>4. s.defers + 1 \in Nat
  BY <1>1 DEF IsPass
<1>5. IsPass(p, m)
  BY <1>1, <1>3, <1>4, Zenon DEF IsPass
<1> QED BY <1>3, <1>5, Zenon DEF Going, p

Middlewares == {"querylog", "opentelemetry", "slowquery", "prometheus"}

\* A call enters a middleware.
LEMMA EnterGoes ==
  ASSUME NEW m, Executable(m), NEW s, Going(s, m), NEW mdl \in Middlewares
  PROVE  Going(Enter(s, mdl), m)
<1>1. CASE s.back
  <2>1. Enter(s, mdl) = s
    BY <1>1, Zenon DEF Enter
  <2> QED BY <2>1
<1>2. CASE ~s.back /\ mdl = "querylog"
  <2>1. Enter(s, mdl) = LogFirst(s, Build(s.b), TRUE)
    BY <1>2, Zenon DEF Enter, querylog
  <2> QED BY <1>2, <2>1, LogFirstGoes, Zenon
<1>3. CASE ~s.back /\ mdl = "opentelemetry"
  <2>1. Enter(s, mdl) = LogFirst(s, Build(s.b), FALSE)
    BY <1>3, Zenon DEF Enter, opentelemetry
  <2> QED BY <1>3, <2>1, LogFirstGoes, Zenon
<1>4. CASE ~s.back /\ mdl = "slowquery"
  <2>1. Enter(s, mdl) = slowquery(s)
    BY <1>4, Zenon DEF Enter
  <2> QED BY <2>1, SlowGoes, Zenon
<1>5. CASE ~s.back /\ mdl = "prometheus"
  <2>1. Enter(s, mdl) = s
    BY <1>5, Zenon DEF Enter, prometheus
  <2> QED BY <2>1
<1> QED BY <1>1, <1>2, <1>3, <1>4, <1>5, Zenon DEF Middlewares

\* A call that has not entered a middleware yet.
LEMMA InwardGoes ==
  ASSUME NEW m, NEW x, IsBuilder(x, m), x.model = m
  PROVE  Going(Inward(x), m)
<1> DEFINE p == Inward(x)
<1>1. p = [b |-> x, built |-> <<>>, defers |-> 0, back |-> FALSE, err |-> NoError, into |-> <<>>]
  BY DEF Inward
<1> HIDE DEF p
<1>2. /\ p.b = x /\ p.built = <<>> /\ p.back = FALSE /\ p.defers = 0
      /\ p = [b |-> p.b, built |-> p.built, defers |-> p.defers, back |-> p.back, err |-> p.err, into |-> p.into]
  BY <1>1, Zenon
<1>3. <<>> \in Seq({}) /\ DOMAIN <<>> = {} /\ 0 \in Nat
  OBVIOUS
<1>4. IsLog(<<>>) /\ OneQuery(<<>>) /\ Sends(<<>>) = {}
  BY <1>3, Zenon DEF IsLog, OneQuery, Sends
<1> QED BY <1>2, <1>3, <1>4, Zenon DEF Going, IsPass, p

\* A call reaches the handler, or turns back, as Going says.
LEMMA EnteredGoes ==
  ASSUME NEW m, Executable(m), NEW x, IsBuilder(x, m), x.model = m, NEW mdls \in Seq(Middlewares)
  PROVE  Going(Entered(mdls, x), m)
<1> DEFINE n == Len(mdls)
           IsIn(f, k) == f = [i \in 0..k |-> IF i = 0 THEN Inward(x) ELSE Enter(f[i - 1], mdls[i])]
           in == CHOOSE f : IsIn(f, n)
<1>0. n \in Nat /\ \A i \in 1..n : mdls[i] \in Middlewares
  OBVIOUS
<1>1. \E f : IsIn(f, n)
  <2> DEFINE T == {k \in 0..n : \E f : IsIn(f, k)}
  <2>1. 0 \in T
    <3>1. IsIn([i \in 0..0 |-> Inward(x)], 0) /\ 0 \in 0..n
      BY <1>0
    <3> HIDE DEF IsIn
    <3> QED BY <3>1
  <2>2. ASSUME NEW k \in 1..n, k - 1 \in T PROVE k \in T
    <3>1. PICK f : IsIn(f, k - 1)
      BY <2>2
    <3> DEFINE g == [i \in 0..k |-> IF i = k THEN Enter(f[k - 1], mdls[k]) ELSE f[i]]
    <3>2. ASSUME NEW i \in 0..k
          PROVE  g[i] = IF i = 0 THEN Inward(x) ELSE Enter(g[i - 1], mdls[i])
      BY <1>0, <3>1
    <3>3. g = [i \in 0..k |-> g[i]] /\ k \in 0..n
      BY <1>0
    <3> HIDE DEF g
    <3>4. IsIn(g, k)
      BY <3>2, <3>3
    <3> HIDE DEF IsIn
    <3> QED BY <3>3, <3>4
  <2>3. 0..n \subseteq T
    <3> HIDE DEF T
    <3> QED BY <1>0, <2>1, <2>2, RangeInduction
  <2> QED BY <1>0, <2>3
<1>2. IsIn(in, n)
  <2> HIDE DEF IsIn
  <2> QED BY <1>1
<1>3. Entered(mdls, x) = in[n]
  BY DEF Entered
<1> HIDE DEF in
<1>4. \A k \in 0..n : in[k] = IF k = 0 THEN Inward(x) ELSE Enter(in[k - 1], mdls[k])
  BY <1>2, Zenon
<1> DEFINE T == {k \in 0..n : Going(in[k], m)}
<1>5. 0 \in T
  <2>1. 0 \in 0..n
    BY <1>0
  <2> QED BY <1>4, <2>1, InwardGoes
<1>6. ASSUME NEW k \in 1..n, k - 1 \in T PROVE k \in T
  <2>1. k \in 0..n /\ k # 0
    BY <1>0
  <2>2. in[k] = Enter(in[k - 1], mdls[k])
    BY <1>4, <2>1
  <2> QED BY <1>0, <1>6, <2>1, <2>2, EnterGoes
<1>7. 0..n \subseteq T
  <2> HIDE DEF T
  <2> QED BY <1>0, <1>5, <1>6, RangeInduction
<1>8. n \in 0..n
  BY <1>0
<1> QED BY <1>3, <1>7, <1>8

\* What a call has to show on its way back: success only if its query was
\* sent once and answered with a row, and a row only as SetColumns read it.
Answers(s, op, reply, m) ==
  /\ IsPass(s, m)
  /\ s.err = NoError /\ (op = "exec" \/ db.creator = "reflect") => Once(Sends(s.built)) /\ reply = "row"
  /\ op = "get" /\ reply = "row" /\ Once(Sends(s.built)) =>
       s.err = SetColumns(m, "row").err /\ s.into = SetColumns(m, "row").into

\* One send makes a call that sent nothing one that sent once.
LEMMA SendsOnce ==
  ASSUME NEW v, NEW w, NEW q, Sends(w) = {}, Grown(v, w, "send", q)
  PROVE  Once(Sends(v)) <=> q.err = NoError
<1>1. CASE q.err = NoError
  <2>1. Sends(v) = {Len(w) + 1}
    BY <1>1, Zenon DEF Grown
  <2> HIDE DEF Sends
  <2> QED BY <1>1, <2>1, Zenon DEF Once
<1>2. CASE q.err # NoError
  <2>1. Sends(v) = {}
    BY <1>2 DEF Grown
  <2> QED BY <1>2, <2>1, Zenon DEF Once
<1> QED BY <1>1, <1>2

\* getHandler.
LEMMA GetAnswers ==
  ASSUME NEW m, Executable(m), NEW s, Going(s, m), NEW reply \in Replies
  PROVE  Answers(getHandler(s, reply), "get", reply, m)
<1> DEFINE q == Build(s.b)
           R(err, into) == Result(s, "send", q, err, into)
           set == SetColumns(m, reply)
<1>1. IsPass(s, m) /\ Sends(s.built) = {}
  BY DEF Going
<1>2. q.model = m
  BY <1>1, PassBuilds
<1>3. \A err, into : AnsweredBy(R(err, into), s, m, "send", err, into)
  BY <1>1, ResultKeeps, Zenon
<1>4. \A err, into : Once(Sends(R(err, into).built)) <=> q.err = NoError
  <2> TAKE err, into
  <2>1. Grown(R(err, into).built, s.built, "send", q)
    BY <1>3, Zenon DEF AnsweredBy
  <2> HIDE DEF R, q
  <2> QED BY <1>1, <2>1, SendsOnce, Zenon
<1>5. getHandler(s, reply) = Queried(s, q, reply)
  BY DEF getHandler
<1> HIDE DEF q, R
<1>6. CASE q.err # NoError
  <2>1. getHandler(s, reply) = R(q.err, <<>>)
    BY <1>5, <1>6, Zenon DEF Queried, R
  <2>2. AnsweredBy(R(q.err, <<>>), s, m, "send", q.err, <<>>) /\ ~Once(Sends(R(q.err, <<>>).built))
    BY <1>3, <1>4, <1>6
  <2> QED BY <1>6, <2>1, <2>2, Zenon DEF AnsweredBy, Answers
<1>7. CASE q.err = NoError /\ reply = "error"
  <2>1. getHandler(s, reply) = R("query error", <<>>)
    BY <1>5, <1>7, Zenon DEF Queried, R
  <2>2. "query error" # NoError /\ reply # "row"
    BY <1>7 DEF NoError
  <2> QED BY <1>3, <2>1, <2>2, Zenon DEF AnsweredBy, Answers
<1>8. CASE q.err = NoError /\ reply = "none"
  <2>1. getHandler(s, reply) = R("no rows", <<>>)
    BY <1>5, <1>8 DEF Queried, R
  <2>2. "no rows" # NoError /\ reply # "row"
    BY <1>8 DEF NoError
  <2> QED BY <1>3, <2>1, <2>2, Zenon DEF AnsweredBy, Answers
<1>9. CASE q.err = NoError /\ reply # "error" /\ reply # "none"
  <2>1. getHandler(s, reply) = R(set.err, set.into)
    BY <1>2, <1>5, <1>9, Zenon DEF Queried, R
  <2>2. db.creator = "reflect" /\ set.err = NoError => reply = "row"
    <3>1. "unknown column" # NoError /\ "scan error" # NoError
      BY DEF NoError
    <3>2. CASE reply = "foreign column"
      BY <3>1, <3>2 DEF SetColumns, reflectSetColumns, KnowsColumns
    <3>3. CASE reply = "bad value"
      BY <3>1, <3>3 DEF SetColumns, reflectSetColumns
    <3> QED BY <1>9, <3>2, <3>3 DEF Replies
  <2>3. /\ AnsweredBy(R(set.err, set.into), s, m, "send", set.err, set.into)
        /\ Once(Sends(R(set.err, set.into).built))
    BY <1>3, <1>4, <1>9, Zenon
  <2>4. reply = "row" => set = SetColumns(m, "row")
    OBVIOUS
  <2> HIDE DEF set
  <2>5. "get" # "exec"
    OBVIOUS
  <2> QED BY <2>1, <2>2, <2>3, <2>4, <2>5, Zenon DEF AnsweredBy, Answers
<1> QED BY <1>6, <1>7, <1>8, <1>9

\* execHandler.
LEMMA ExecAnswers ==
  ASSUME NEW m, Executable(m), NEW s, Going(s, m), NEW reply \in {"error", "row"}
  PROVE  Answers(execHandler(s, reply), "exec", reply, m)
<1> DEFINE q == Build(s.b)
           R(err, into) == Result(s, "send", q, err, into)
           e == IF q.err = NoError /\ reply = "error" THEN "exec error" ELSE q.err
<1>1. IsPass(s, m) /\ Sends(s.built) = {}
  BY DEF Going
<1>2. AnsweredBy(R(e, <<>>), s, m, "send", e, <<>>)
  BY <1>1, ResultKeeps, Zenon
<1>3. Once(Sends(R(e, <<>>).built)) <=> q.err = NoError
  BY <1>1, <1>2, SendsOnce, Zenon DEF AnsweredBy
<1>4. execHandler(s, reply) = R(e, <<>>)
  BY DEF execHandler, Executed
<1>5. e = NoError => q.err = NoError /\ reply = "row"
  <2> HIDE DEF q
  <2> QED BY DEF NoError
<1>6. "exec" # "get"
  OBVIOUS
<1> HIDE DEF q, R, e
<1> QED BY <1>2, <1>3, <1>4, <1>5, <1>6, Zenon DEF AnsweredBy, Answers

\* The handler behind the middlewares, or the answer of the one that turned
\* the call back.
LEMMA HandleAnswers ==
  ASSUME NEW m, Executable(m), NEW s, Going(s, m), NEW op, NEW reply,
         \/ op = "get" /\ reply \in Replies
         \/ op = "exec" /\ reply \in {"error", "row"}
  PROVE  Answers(Handle(s, op, reply), op, reply, m)
<1>1. CASE s.back
  <2>1. Handle(s, op, reply) = s
    BY <1>1, Zenon DEF Handle
  <2>2. ~Once(Sends(s.built)) /\ s.err # NoError /\ IsPass(s, m)
    BY <1>1, Zenon DEF Going, Once
  <2> QED BY <2>1, <2>2, Zenon DEF Answers
<1>2. CASE ~s.back /\ op = "get"
  <2>1. Handle(s, op, reply) = getHandler(s, reply) /\ reply \in Replies
    BY <1>2, Zenon DEF Handle
  <2> QED BY <1>2, <2>1, GetAnswers, Zenon
<1>3. CASE ~s.back /\ op = "exec"
  <2>1. Handle(s, op, reply) = execHandler(s, reply) /\ reply \in {"error", "row"}
    BY <1>3, Zenon DEF Handle
  <2> QED BY <1>3, <2>1, ExecAnswers, Zenon
<1> QED BY <1>1, <1>2, <1>3

\* A deferred function of slowquery leaves the answer as it is.
LEMMA LogAfterAnswers ==
  ASSUME NEW m, Executable(m), NEW s, NEW op, NEW reply, Answers(s, op, reply, m)
  PROVE  Answers(LogAfter(s), op, reply, m)
<1> DEFINE p == Passed(s, Build(s.b))
<1>1. IsPass(s, m)
  BY DEF Answers
<1>2. IsPass(p, m) /\ Sends(p.built) = Sends(s.built) /\ p.err = s.err /\ p.into = s.into
  BY <1>1, PassedKeeps, Zenon
<1>3. LogAfter(s) = p
  BY DEF LogAfter
<1> HIDE DEF p
<1> QED BY <1>2, <1>3, Zenon DEF Answers

\* Nor do all of them.
LEMMA ReturnedAnswers ==
  ASSUME NEW m, Executable(m), NEW s, NEW op, NEW reply, Answers(s, op, reply, m)
  PROVE  Answers(Returned(s), op, reply, m)
<1> DEFINE n == s.defers
           IsLeft(f, k) == f = [i \in 0..k |-> IF i = 0 THEN s ELSE LogAfter(f[i - 1])]
           left == CHOOSE f : IsLeft(f, n)
<1>0. n \in Nat
  BY DEF Answers, IsPass
<1>1. \E f : IsLeft(f, n)
  <2> DEFINE T == {k \in 0..n : \E f : IsLeft(f, k)}
  <2>1. 0 \in T
    <3>1. IsLeft([i \in 0..0 |-> s], 0) /\ 0 \in 0..n
      BY <1>0
    <3> HIDE DEF IsLeft
    <3> QED BY <3>1
  <2>2. ASSUME NEW k \in 1..n, k - 1 \in T PROVE k \in T
    <3>1. PICK f : IsLeft(f, k - 1)
      BY <2>2
    <3> DEFINE g == [i \in 0..k |-> IF i = k THEN LogAfter(f[k - 1]) ELSE f[i]]
    <3>2. ASSUME NEW i \in 0..k
          PROVE  g[i] = IF i = 0 THEN s ELSE LogAfter(g[i - 1])
      BY <1>0, <3>1
    <3>3. g = [i \in 0..k |-> g[i]] /\ k \in 0..n
      BY <1>0
    <3> HIDE DEF g
    <3>4. IsLeft(g, k)
      BY <3>2, <3>3
    <3> HIDE DEF IsLeft
    <3> QED BY <3>3, <3>4
  <2>3. 0..n \subseteq T
    <3> HIDE DEF T
    <3> QED BY <1>0, <2>1, <2>2, RangeInduction
  <2> QED BY <1>0, <2>3
<1>2. IsLeft(left, n)
  <2> HIDE DEF IsLeft
  <2> QED BY <1>1
<1>3. Returned(s) = left[n]
  BY DEF Returned
<1> HIDE DEF left
<1>4. \A k \in 0..n : left[k] = IF k = 0 THEN s ELSE LogAfter(left[k - 1])
  BY <1>2, Zenon
<1> DEFINE T == {k \in 0..n : Answers(left[k], op, reply, m)}
<1>5. 0 \in T
  <2>1. 0 \in 0..n
    BY <1>0
  <2> QED BY <1>4, <2>1
<1>6. ASSUME NEW k \in 1..n, k - 1 \in T PROVE k \in T
  <2>1. k \in 0..n /\ k # 0
    BY <1>0
  <2>2. left[k] = LogAfter(left[k - 1])
    BY <1>4, <2>1
  <2> QED BY <1>6, <2>1, <2>2, LogAfterAnswers
<1>7. 0..n \subseteq T
  <2> HIDE DEF T
  <2> QED BY <1>0, <1>5, <1>6, RangeInduction
<1>8. n \in 0..n
  BY <1>0
<1> QED BY <1>3, <1>7, <1>8

(***************************************************************************)
(* The steps of a statement.                                               *)
(***************************************************************************)
\* What a call returns keeps what SuccessIsReal says.
Succeeds(s, op, reply) ==
  /\ s.err = NoError /\ (op = "exec" \/ (op = "get" /\ db.creator = "reflect")) =>
       Once(Sends(s.built)) /\ reply = "row"
  /\ op = "get" /\ reply = "row" /\ Once(Sends(s.built)) /\ OwnColumns(s.b.model) =>
       s.err = NoError /\ s.into = [i \in DOMAIN s.b.model.fields |-> s.b.model.fields[i].go]

\* get and exec, through the middlewares.
LEMMA ThroughSucceeds ==
  ASSUME NEW m, Executable(m), NEW x, IsBuilder(x, m), x.model = m, NEW op, NEW reply,
         \/ op = "get" /\ reply \in Replies
         \/ op = "exec" /\ reply \in {"error", "row"}
  PROVE  LET s == Through(db.mdls, op, reply, x)
         IN  IsBuilder(s.b, m) /\ OneQuery(s.built) /\ Succeeds(s, op, reply)
<1> DEFINE s == Through(db.mdls, op, reply, x)
<1>1. db.mdls \in Seq(Middlewares)
  BY StatementAssumption DEF Executable, Opened, StatementAssumption, Middlewares
<1>2. Answers(s, op, reply, m)
  BY <1>1, EnteredGoes, HandleAnswers, ReturnedAnswers, Zenon DEF Through
<1> HIDE DEF s
<1>3. IsBuilder(s.b, m) /\ OneQuery(s.built) /\ s.b.model = m
  BY <1>2 DEF Answers, IsPass
<1>4. ASSUME OwnColumns(m)
      PROVE  /\ SetColumns(m, "row").err = NoError
             /\ SetColumns(m, "row").into = [i \in DOMAIN m.fields |-> m.fields[i].go]
  <2>1. st.entity \in DOMAIN Struct /\ m = Models[st.entity]
    BY StatementAssumption DEF StatementAssumption, Executable, Opened
  <2>2. KnowsColumns(m, "row") /\ FieldsRead(m) = [i \in DOMAIN m.fields |-> m.fields[i].go]
    BY <1>4, <2>1, ReadsOwnFields, StatementAssumption, Zenon DEF OwnColumns
  <2>3. "row" # "bad value"
    OBVIOUS
  <2>4. SetColumns(m, "row") = [err |-> NoError, into |-> FieldsRead(m)]
    BY <2>2, <2>3, Zenon DEF SetColumns, reflectSetColumns, unsafeSetColumns
  <2> QED BY <2>2, <2>4
<1>5. Succeeds(s, op, reply)
  <2>1. /\ s.err = NoError /\ (op = "exec" \/ db.creator = "reflect") => Once(Sends(s.built)) /\ reply = "row"
        /\ op = "get" /\ reply = "row" /\ Once(Sends(s.built)) =>
             s.err = SetColumns(m, "row").err /\ s.into = SetColumns(m, "row").into
    BY <1>2 DEF Answers
  <2> QED BY <1>3, <1>4, <2>1, Zenon DEF Succeeds
<1> QED BY <1>3, <1>5 DEF s

\* A call that returns s keeps the invariant.
LEMMA ReturnKeeps ==
  ASSUME StatementInv, Call, NEW op, NEW reply, NEW s, Return(op, reply, s),
         IsBuilder(s.b, Models[st.entity]), OneQuery(s.built), Succeeds(s, op, reply)
  PROVE  StatementInv'
<1>1. db' = db /\ st' = st /\ b' = s.b
  BY DEF Call, Return
<1>2. /\ out'.op = op /\ out'.reply = reply /\ out'.built = s.built
      /\ out'.err = s.err /\ out'.into = s.into
  BY DEF Return
<1>3. TheQuery' = TheQuery
  BY <1>1 DEF TheQuery, Build
<1>4. OneQuery(out.built)'
  BY <1>1, <1>2, <1>3, Zenon DEF OneQuery
<1>5. IsBuilder(b, Models[st.entity])'
  BY <1>1, Zenon DEF IsBuilder
<1>6. SuccessIsReal'
  <2>1. Sent' = Sends(s.built)
    BY <1>2, Zenon DEF Sent, Sends
  <2>2. SentOnce' = Once(Sends(s.built))
    BY <2>1, Zenon DEF SentOnce, Once
  <2>3. \A m : OwnColumns(m)' = OwnColumns(m)
    BY <1>1, Zenon DEF OwnColumns
  <2> QED BY <1>1, <1>2, <2>2, <2>3, Zenon DEF SuccessIsReal, Succeeds
<1>7. /\ db'.r = Models /\ db'.mdls \in Mdls
      /\ st'.entity \in Entity /\ st'.kind \in {"select", "insert", "raw"}
      /\ st' = [kind |-> st'.kind, entity |-> st'.entity, table |-> st'.table, where |-> st'.where,
                columns |-> st'.columns, values |-> st'.values, upsert |-> st'.upsert, raw |-> st'.raw]
  BY <1>1, Zenon DEF StatementInv
<1> QED BY <1>4, <1>5, <1>6, <1>7, Zenon DEF StatementInv

\* A call that configures the statement forgets what the last one did.
LEMMA ConfigureKeeps ==
  ASSUME StatementInv, NEW kind,
         NEW field \in {"where", "table", "columns", "values", "upsert"},
         NEW val, Configure(kind, field, val)
  PROVE  StatementInv'
<1>1. db' = db /\ b' = b /\ out' = NoOut
  BY DEF Configure, Call
<1>2. /\ st'.entity = st.entity /\ st'.kind = st.kind
      /\ st' = [kind |-> st'.kind, entity |-> st'.entity, table |-> st'.table, where |-> st'.where,
                columns |-> st'.columns, values |-> st'.values, upsert |-> st'.upsert, raw |-> st'.raw]
  BY DEF Configure, StatementInv
<1>3. out'.op = "none" /\ out'.built = <<>>
  BY <1>1 DEF NoOut
<1>4. OneQuery(out.built)'
  BY <1>3 DEF OneQuery
<1>5. SuccessIsReal'
  BY <1>3 DEF SuccessIsReal
<1>6. IsBuilder(b, Models[st.entity])'
  BY <1>1, <1>2, Zenon DEF IsBuilder, StatementInv
<1> QED BY <1>1, <1>2, <1>4, <1>5, <1>6, Zenon DEF StatementInv

\* Build called by the caller, or by GetMulti.
LEMMA BuildReturns ==
  ASSUME StatementInv, Call, NEW op, op \notin {"get", "exec"}, NEW reply, NEW by,
         Return(op, reply, Result(Inward(b), by, Build(b), Build(b).err, <<>>))
  PROVE  StatementInv'
<1> DEFINE q == Build(b)
           s == Result(Inward(b), by, q, q.err, <<>>)
<1>1. Opened /\ IsBuilder(b, Models[st.entity])
  BY DEF StatementInv, Opened
<1>2. BuiltFrom(q, b, Models[st.entity])
  BY <1>1, BuildKeeps
<1> HIDE DEF q
<1>3. IsLog(<<>>) /\ OneQuery(<<>>)
  <2>1. <<>> \in Seq({})
    OBVIOUS
  <2> QED BY <2>1 DEF IsLog, OneQuery
<1> DEFINE v == <<>> \o Built(by, q)
<1>4. Grown(v, <<>>, by, q)
  <2> HIDE DEF v
  <2> QED BY <1>2, <1>3, LogGrows, Zenon DEF BuiltFrom, v
<1>5. s.b = q /\ s.built = v
  BY DEF Result, Inward
<1> HIDE DEF v, s
<1>6. IsBuilder(s.b, Models[st.entity]) /\ OneQuery(s.built)
  BY <1>2, <1>4, <1>5 DEF BuiltFrom, Grown
<1>7. Succeeds(s, op, reply)
  BY DEF Succeeds
<1>8. Return(op, reply, s)
  BY DEF s, q
<1> QED BY <1>6, <1>7, <1>8, ReturnKeeps

\* Get and Exec, with the model the entity has or with its error.
LEMMA RunKeeps ==
  ASSUME StatementInv, Call, NEW m, m = Models[st.entity], NEW op, NEW reply, Run(op, reply, m),
         \/ op = "get" /\ reply \in Replies
         \/ op = "exec" /\ reply \in {"error", "row"}
  PROVE  StatementInv'
<1>1. Opened /\ IsBuilder(b, m)
  BY DEF StatementInv, Opened
<1>2. CASE m.err # NoError
  <2> DEFINE s == [Inward(b) EXCEPT !.err = m.err]
  <2>1. s.b = b /\ s.built = <<>> /\ s.err = m.err
    BY DEF Inward
  <2>2. Return(op, "none", s)
    BY <1>2, Zenon DEF Run
  <2> HIDE DEF s
  <2>3. OneQuery(s.built)
    BY <2>1 DEF OneQuery
  <2>4. Succeeds(s, op, "none")
    BY <1>2, <2>1 DEF Succeeds
  <2> QED BY <1>1, <2>1, <2>2, <2>3, <2>4, ReturnKeeps
<1>3. CASE m.err = NoError
  <2> DEFINE x == [b EXCEPT !.model = m]
             s == Through(db.mdls, op, reply, x)
  <2>1. IsBuilder(x, m) /\ x.model = m
    BY <1>1 DEF IsBuilder
  <2>2. Return(op, reply, s)
    BY <1>3, Zenon DEF Run
  <2>3. Executable(m)
    BY <1>1, <1>3 DEF Executable
  <2> HIDE DEF x
  <2>4. IsBuilder(s.b, m) /\ OneQuery(s.built) /\ Succeeds(s, op, reply)
    BY <2>1, <2>3, ThroughSucceeds, Zenon
  <2> HIDE DEF s
  <2> QED BY <2>2, <2>4, ReturnKeeps
<1> QED BY <1>2, <1>3

\* A new statement has a fresh builder and has built nothing.
LEMMA StatementInitInv ==
  ASSUME StatementInit
  PROVE  StatementInv
<1>1. db.r = Models /\ db.mdls \in Mdls /\ b = NewBuilder /\ out = NoOut
  BY DEF StatementInit
<1>2. PICK e \in Entity : \/ st \in {NewSelector(e), NewInserter(e)}
                          \/ \E q \in Raws : st = RawQuery(e, q)
  BY DEF StatementInit
<1>3. /\ st.entity \in Entity /\ st.kind \in {"select", "insert", "raw"}
      /\ st = [kind |-> st.kind, entity |-> st.entity, table |-> st.table, where |-> st.where,
               columns |-> st.columns, values |-> st.values, upsert |-> st.upsert, raw |-> st.raw]
  <2> DEFINE none == <<>>
  <2>1. \A kind : NewStatement(kind, e) =
          [kind |-> kind, entity |-> e, table |-> NoTable, where |-> none, columns |-> none,
           values |-> none, upsert |-> NoUpsert, raw |-> [sql |-> none, args |-> none]]
    BY DEF NewStatement
  <2> HIDE DEF none
  <2>2. CASE st = NewSelector(e)
    BY <2>1, <2>2 DEF NewSelector
  <2>3. CASE st = NewInserter(e)
    BY <2>1, <2>3 DEF NewInserter
  <2>4. CASE \E q \in Raws : st = RawQuery(e, q)
    BY <2>1, <2>4 DEF RawQuery
  <2> QED BY <1>2, <2>2, <2>3, <2>4
<1>4. IsBuilder(b, Models[st.entity])
  BY <1>1 DEF NewBuilder, IsBuilder
<1>5. out.op = "none" /\ out.built = <<>>
  BY <1>1 DEF NoOut
<1>6. OneQuery(out.built) /\ SuccessIsReal
  BY <1>5 DEF OneQuery, SuccessIsReal
<1> QED BY <1>1, <1>3, <1>4, <1>6, Zenon DEF StatementInv

\* Every call of a statement keeps the invariant.
LEMMA StatementNextInv ==
  ASSUME StatementInv, [StatementNext]_statementVars
  PROVE  StatementInv'
<1>0. db.r[st.entity] = Models[st.entity]
  BY DEF StatementInv
<1>1. CASE Where
  BY <1>1, ConfigureKeeps DEF Where
<1>2. CASE From
  BY <1>2, ConfigureKeeps DEF From
<1>3. CASE Select
  BY <1>3, ConfigureKeeps DEF Select
<1>4. CASE Columns
  BY <1>4, ConfigureKeeps DEF Columns
<1>5. CASE Values
  BY <1>5, ConfigureKeeps DEF Values
<1>6. CASE OnDuplicateKey
  BY <1>6, ConfigureKeeps DEF OnDuplicateKey
<1>7. CASE CallBuild
  <2>1. Call /\ Return("build", "none", Result(Inward(b), "caller", Build(b), Build(b).err, <<>>))
    BY <1>7, Zenon DEF CallBuild
  <2>2. "build" \notin {"get", "exec"}
    OBVIOUS
  <2> QED BY <2>1, <2>2, BuildReturns, Zenon
<1>8. CASE GetMulti
  <2>1. PICK reply : Call /\ Return("getmulti", reply, Result(Inward(b), "send", Build(b), Build(b).err, <<>>))
    BY <1>8, Zenon DEF GetMulti
  <2>2. "getmulti" \notin {"get", "exec"}
    OBVIOUS
  <2> QED BY <2>1, <2>2, BuildReturns, Zenon
<1>9. CASE Get
  <2>1. PICK reply \in Replies : Call /\ Run("get", reply, Models[st.entity])
    BY <1>0, <1>9, Zenon DEF Get
  <2> QED BY <2>1, RunKeeps, Zenon
<1>10. CASE Exec
  <2>1. (IF b.model = NoModel THEN db.r[st.entity] ELSE b.model) = Models[st.entity]
    BY <1>0 DEF StatementInv, IsBuilder
  <2>2. PICK reply \in {"error", "row"} : Call /\ Run("exec", reply, Models[st.entity])
    BY <1>10, <2>1, Zenon DEF Exec
  <2> QED BY <2>2, RunKeeps, Zenon
<1>11. CASE RawGet
  <2>1. PICK reply \in Replies : Call /\ Run("get", reply, Models[st.entity])
    BY <1>0, <1>11, Zenon DEF RawGet
  <2> QED BY <2>1, RunKeeps, Zenon
<1>12. CASE RawExec
  <2>1. PICK reply \in {"error", "row"} : Call /\ Run("exec", reply, Models[st.entity])
    BY <1>0, <1>12, Zenon DEF RawExec
  <2> QED BY <2>1, RunKeeps, Zenon
<1>13. CASE UNCHANGED statementVars
  <2>1. db' = db /\ st' = st /\ b' = b /\ out' = out
    BY <1>13 DEF statementVars
  <2>2. OneQuery(out.built)' = OneQuery(out.built)
    BY <2>1 DEF OneQuery, TheQuery, Build
  <2>3. SuccessIsReal' = SuccessIsReal
    BY <2>1, Zenon DEF SuccessIsReal, SentOnce, Sent, OwnColumns
  <2>4. IsBuilder(b, Models[st.entity])' = IsBuilder(b, Models[st.entity])
    BY <2>1, Zenon DEF IsBuilder
  <2> QED BY <2>1, <2>2, <2>3, <2>4, Zenon DEF StatementInv
<1> QED
  BY <1>1, <1>2, <1>3, <1>4, <1>5, <1>6, <1>7, <1>8, <1>9, <1>10, <1>11, <1>12, <1>13
     DEF StatementNext

\* The inductive invariant of a statement holds in every state, for every
\* registry of entities, list of middlewares and text a Selector may write.
THEOREM StatementInvariant == StatementSpec => []StatementInv
<1>1. StatementInit => StatementInv
  BY StatementInitInv
<1>2. StatementInv /\ [StatementNext]_statementVars => StatementInv'
  BY StatementNextInv
<1> QED BY <1>1, <1>2, PTL DEF StatementSpec

\* Every query an Inserter or a RawQuerier builds, in whatever call and after
\* however many earlier builds, is the one a fresh builder would make of what
\* it holds: Inserter.Build starts its text and its arguments anew.
THEOREM InsertRestarts == StatementSpec => []OneQuery(out.built)
<1>1. StatementInv => OneQuery(out.built)
  BY DEF StatementInv
<1> QED BY <1>1, StatementInvariant, PTL

\* The middlewares that log a query and the handler that sends it build the
\* same one, as long as the statement is an Inserter or a RawQuerier.
THEOREM InsertSame == StatementSpec => []InsertStable
<1>1. StatementInv => InsertStable
  BY DEF StatementInv, OneQuery, InsertStable, Queries
<1> QED BY <1>1, StatementInvariant, PTL

\* An Exec, or a Get with the reflect valuer, that reports success has sent
\* its query once to a database that took it, and a row is read back into the
\* fields its columns were made of, through any list of middlewares.
THEOREM SuccessReal == StatementSpec => []SuccessIsReal
<1>1. StatementInv => SuccessIsReal
  BY DEF StatementInv
<1> QED BY <1>1, StatementInvariant, PTL
=============================================================================
