--------------------------- MODULE WebServerProofs ---------------------------
(***************************************************************************)
(* Proofs about WebServer, for every set of routes, request paths and      *)
(* middleware lists, and every size of the cache.  The router and the      *)
(* chain of middlewares are folds over sequences of any length: the first  *)
(* sections give them the states they go through and a way to reason by    *)
(* induction about these.                                                  *)
(***************************************************************************)
EXTENDS WebServer, FiniteSetTheorems, SequenceTheorems, WellFoundedInduction, TLAPS

(***************************************************************************)
(* Induction, with a set in the place of a predicate.                      *)
(***************************************************************************)
\* T has the empty set, and every set whose proper subsets it has.
Inductive(T, S) ==
  /\ {} \in T
  /\ \A s \in SUBSET S : s # {} /\ (\A u \in SUBSET s : u # s => u \in T) => s \in T

\* A set that is Inductive has every subset of a finite set.
LEMMA SubsetInduction ==
  ASSUME NEW S, IsFiniteSet(S), NEW T, Inductive(T, S)
  PROVE  SUBSET S \subseteq T
<1> SUFFICES ASSUME (SUBSET S) \ T # {} PROVE FALSE
  OBVIOUS
<1>1. IsWellFoundedOn(StrictSubsetOrdering(S), SUBSET S)
  BY FS_StrictSubsetOrderingWellFounded, FS_FiniteSubsetsOfFinite, Zenon
<1>2. PICK s \in (SUBSET S) \ T : \A u \in (SUBSET S) \ T : <<u, s>> \notin StrictSubsetOrdering(S)
  BY <1>1, WFMin, Zenon
<1> QED BY <1>2, Zenon DEF StrictSubsetOrdering, Inductive

\* it[s] is the fold of step over s, in the order in which pick takes out
\* the elements, from b.
Picks(pick, S) == \A s \in SUBSET S : s # {} => pick[s] \in s
Steps(step, S, B) == \A x \in S, y \in B : step[x][y] \in B
Iterates(it, S, b, pick, step) ==
  \A s \in SUBSET S : it[s] = IF s = {} THEN b ELSE step[pick[s]][it[s \ {pick[s]}]]

\* The function that a fold over a finite set defines by recursion exists.
LEMMA IterExists ==
  ASSUME NEW S, IsFiniteSet(S), NEW B, NEW b \in B, NEW pick, NEW step,
         Picks(pick, S), Steps(step, S, B)
  PROVE  \E it \in [SUBSET S -> B] : Iterates(it, S, b, pick, step)
<1> USE DEF Picks, Steps, Iterates
<1> DEFINE Rec(g, t) ==
             /\ g \in [SUBSET t -> B]
             /\ \A s \in SUBSET t : g[s] = IF s = {} THEN b ELSE step[pick[s]][g[s \ {pick[s]}]]
<1>1. ASSUME NEW t \in SUBSET S, NEW u \in SUBSET S, NEW g, NEW h, Rec(g, t), Rec(h, u),
             NEW s \in SUBSET (t \cap u)
      PROVE  g[s] = h[s]
  <2> DEFINE Same == {r \in SUBSET (t \cap u) : g[r] = h[r]}
  <2>1. IsFiniteSet(t \cap u)
    BY FS_Subset
  <2>2. {} \in Same
    BY <1>1, Zenon
  <2>3. ASSUME NEW r \in SUBSET (t \cap u), r # {}, \A q \in SUBSET r : q # r => q \in Same
        PROVE  r \in Same
    <3>1. r \ {pick[r]} \in Same
      BY <2>3
    <3>2. g[r] = step[pick[r]][g[r \ {pick[r]}]] /\ h[r] = step[pick[r]][h[r \ {pick[r]}]]
      BY <1>1, <2>3, Zenon
    <3> QED BY <3>1, <3>2, Zenon
  <2>4. SUBSET (t \cap u) \subseteq Same
    <3> HIDE DEF Same
    <3>1. Inductive(Same, t \cap u)
      BY <2>2, <2>3 DEF Inductive
    <3> QED BY <2>1, <3>1, SubsetInduction
  <2> QED BY <2>4
<1> DEFINE Done == {t \in SUBSET S : \E g : Rec(g, t)}
<1>2. {} \in Done
  <2>1. Rec([s \in SUBSET {} |-> b], {})
    OBVIOUS
  <2> QED BY <2>1, Zenon
<1>3. ASSUME NEW t \in SUBSET S, t # {}, \A u \in SUBSET t : u # t => u \in Done
      PROVE  t \in Done
  <2> DEFINE G == [u \in SUBSET t |-> CHOOSE g : Rec(g, u)]
             g == [s \in SUBSET t |-> IF s = {} THEN b
                                      ELSE step[pick[s]][G[s \ {pick[s]}][s \ {pick[s]}]]]
  <2>1. ASSUME NEW u \in SUBSET t, u # t PROVE Rec(G[u], u)
    <3>1. \E x : Rec(x, u)
      BY <1>3, <2>1, Zenon
    <3> HIDE DEF Rec
    <3> QED BY <3>1
  <2>2. ASSUME NEW s \in SUBSET t, s # {}
        PROVE  /\ s \ {pick[s]} \in SUBSET t /\ s \ {pick[s]} # t /\ pick[s] \in S
               /\ G[s \ {pick[s]}][s \ {pick[s]}] \in B
    <3>1. s \ {pick[s]} \in SUBSET t /\ s \ {pick[s]} # t /\ pick[s] \in S
      BY <2>2
    <3>2. G[s \ {pick[s]}] \in [SUBSET (s \ {pick[s]}) -> B]
      BY <2>1, <3>1, Zenon
    <3> HIDE DEF G
    <3> QED BY <3>1, <3>2, Zenon
  <2>3. g \in [SUBSET t -> B]
    <3> HIDE DEF G
    <3> QED BY <2>2
  <2>4. ASSUME NEW u \in SUBSET t, u # t PROVE g[u] = G[u][u]
    <3>1. CASE u = {}
      <4> HIDE DEF G
      <4> QED BY <2>1, <2>4, <3>1, Zenon
    <3>2. CASE u # {}
      <4> DEFINE v == u \ {pick[u]}
      <4>1. v \in SUBSET t /\ v # t /\ u \in SUBSET S /\ v \in SUBSET S /\ v \in SUBSET (v \cap u)
        BY <3>2, <2>2
      <4>2. Rec(G[v], v) /\ Rec(G[u], u)
        BY <2>1, <2>4, <4>1, Zenon
      <4>3. G[v][v] = G[u][v]
        <5> HIDE DEF G, Rec, v
        <5>1. \A x, y : Rec(x, v) /\ Rec(y, u) => x[v] = y[v]
          BY <1>1, <4>1
        <5> QED BY <4>2, <5>1
      <4>4. G[u][u] = step[pick[u]][G[u][v]]
        BY <3>2, <4>2, Zenon
      <4> HIDE DEF G
      <4> QED BY <3>2, <4>3, <4>4, Zenon
    <3> QED BY <3>1, <3>2, Zenon
  <2>5. Rec(g, t)
    <3> HIDE DEF G
    <3>1. ASSUME NEW s \in SUBSET t, s # {} PROVE g[s] = step[pick[s]][g[s \ {pick[s]}]]
      BY <3>1, <2>2, <2>4, Zenon
    <3> QED BY <2>3, <3>1, Zenon
  <2> HIDE DEF Rec
  <2> QED BY <2>5
<1>4. S \in Done
  <2>1. SUBSET S \subseteq Done
    <3> HIDE DEF Done
    <3>1. Inductive(Done, S)
      BY <1>2, <1>3 DEF Inductive
    <3> QED BY <3>1, SubsetInduction
  <2> QED BY <2>1, Zenon
<1> QED BY <1>4, Zenon

\* Min picks the least element.
LEMMA MinFacts ==
  ASSUME NEW s \in SUBSET Nat, s # {}
  PROVE  Min(s) \in s /\ \A y \in s : Min(s) <= y
<1> DEFINE Less == {ss \in Nat \X Nat : ss[1] < ss[2]}
<1>1. IsWellFoundedOn(Less, Nat)
  BY NatLessThanWellFounded, Zenon DEF OpToRel
<1>2. PICK x \in s : \A y \in s : <<y, x>> \notin Less
  <2> HIDE DEF Less
  <2> QED BY <1>1, WFMin, Zenon
<1>3. ASSUME NEW y \in s PROVE x <= y
  <2>1. x \in Nat /\ y \in Nat
    OBVIOUS
  <2>2. <<y, x>> \notin Less
    BY <1>2
  <2> QED BY <2>1, <2>2
<1> QED BY <1>3, Zenon DEF Min

\* Max picks the greatest element.
LEMMA MaxFacts ==
  ASSUME NEW n \in Nat, NEW s \in SUBSET (1..n), s # {}
  PROVE  Max(s) \in s /\ \A y \in s : Max(s) >= y
<1> DEFINE co == {n - x : x \in s}
<1>1. co \in SUBSET Nat /\ co # {}
  <2>1. \A x \in s : x \in 1..n /\ n - x \in Nat
    OBVIOUS
  <2> QED BY <2>1, Zenon
<1> HIDE DEF co
<1>2. Min(co) \in co /\ \A y \in co : Min(co) <= y
  BY <1>1, MinFacts
<1> USE DEF co
<1>3. PICK x \in s : Min(co) = n - x
  BY <1>2
<1>4. ASSUME NEW y \in s PROVE x >= y
  <2>1. Min(co) <= n - y
    BY <1>2
  <2>2. x \in 1..n /\ y \in 1..n
    OBVIOUS
  <2> HIDE DEF co
  <2> QED BY <1>3, <2>1, <2>2
<1> QED BY <1>4, Zenon DEF Max

\* Induction along 0..n.
LEMMA RangeInduction ==
  ASSUME NEW n \in Nat, NEW T, 0 \in T, \A k \in 1..n : k - 1 \in T => k \in T
  PROVE  0..n \subseteq T
<1> DEFINE bad == (0..n) \ T
<1> SUFFICES ASSUME bad # {} PROVE FALSE
  OBVIOUS
<1>1. Min(bad) \in bad /\ \A y \in bad : Min(bad) <= y
  <2>1. bad \in SUBSET Nat
    OBVIOUS
  <2> HIDE DEF bad
  <2> QED BY <2>1, MinFacts
<1> QED BY <1>1

(***************************************************************************)
(* The folds.                                                              *)
(***************************************************************************)
\* The two folds from the left: findRoute's walk over a path's names in the
\* tree t, and addRoute's over the segments of a route.
Does(walk, t, x, e) == IF walk THEN Step(t, x, e) ELSE childOrCreate(x, e)
IsFold(walk, t, b, seq, g) ==
  g = [s \in SUBSET DOMAIN seq |->
         IF s = {} THEN b ELSE Does(walk, t, g[s \ {Max(s)}], seq[Max(s)])]

\* The function of sets of indices by which FoldLeft is defined exists.
LEMMA FoldExists ==
  ASSUME NEW walk, NEW t, NEW b, NEW S, NEW seq \in Seq(S)
  PROVE  \E g : IsFold(walk, t, b, seq, g)
<1> DEFINE n == Len(seq)
           Rec(g, k) == \A s \in SUBSET (1..k) :
                          g[s] = IF s = {} THEN b ELSE Does(walk, t, g[s \ {Max(s)}], seq[Max(s)])
           T == {k \in 0..n : \E g : Rec(g, k)}
<1>1. DOMAIN seq = 1..n /\ n \in Nat
  OBVIOUS
<1>2. 0 \in T
  <2>1. SUBSET (1..0) = {{}}
    OBVIOUS
  <2>2. Rec([s \in {{}} |-> b], 0)
    BY <2>1, Zenon
  <2>3. 0 \in 0..n
    BY <1>1
  <2> QED BY <2>2, <2>3, Zenon
<1>3. ASSUME NEW k \in 1..n, k - 1 \in T PROVE k \in T
  <2>1. PICK g : Rec(g, k - 1)
    BY <1>3, Zenon
  <2> DEFINE h == [s \in SUBSET (1..k) |-> IF k \in s THEN Does(walk, t, g[s \ {k}], seq[k]) ELSE g[s]]
  <2>2. ASSUME NEW s \in SUBSET (1..k), k \in s
        PROVE  Max(s) = k /\ s \ {k} \in SUBSET (1..(k - 1)) /\ s \ {k} \in SUBSET (1..k) /\ k \notin s \ {k}
    <3>1. k \in Nat /\ s # {}
      BY <1>1, <2>2
    <3>2. Max(s) \in s /\ Max(s) >= k
      BY <2>2, <3>1, MaxFacts, Zenon
    <3>3. Max(s) = k
      <4>1. Max(s) \in 1..k
        BY <3>2, Zenon
      <4> QED BY <3>1, <3>2, <4>1
    <3>4. \A i \in s : i # k => i \in 1..(k - 1)
      OBVIOUS
    <3> QED BY <3>3, <3>4, Zenon
  <2>3. ASSUME NEW s \in SUBSET (1..k), k \notin s
        PROVE  /\ s \in SUBSET (1..(k - 1)) /\ s \ {Max(s)} \in SUBSET (1..k)
               /\ k \notin s \ {Max(s)}
    <3>1. \A i \in s : i \in 1..(k - 1)
      BY <2>3
    <3> QED BY <2>3, <3>1, Zenon
  <2>4. Rec(h, k)
    <3> SUFFICES ASSUME NEW s \in SUBSET (1..k)
                 PROVE  h[s] = IF s = {} THEN b ELSE Does(walk, t, h[s \ {Max(s)}], seq[Max(s)])
      BY Zenon
    <3>1. CASE k \in s
      <4>1. h[s] = Does(walk, t, g[s \ {k}], seq[k]) /\ h[s \ {k}] = g[s \ {k}]
        BY <2>2, <3>1, Zenon
      <4> HIDE DEF h
      <4> QED BY <2>2, <3>1, <4>1, Zenon
    <3>2. CASE k \notin s
      <4>1. h[s] = g[s] /\ h[s \ {Max(s)}] = g[s \ {Max(s)}]
        BY <2>3, <3>2, Zenon
      <4> HIDE DEF h
      <4> QED BY <2>1, <2>3, <3>2, <4>1, Zenon
    <3> QED BY <3>1, <3>2, Zenon
  <2>5. k \in 0..n
    BY <1>1
  <2> HIDE DEF Rec, h
  <2> QED BY <2>4, <2>5
<1>4. n \in T
  <2>1. 0..n \subseteq T
    <3> HIDE DEF T
    <3> QED BY <1>1, <1>2, <1>3, RangeInduction, Zenon
  <2>2. n \in 0..n
    BY <1>1
  <2> QED BY <2>1, <2>2, Zenon
<1>5. PICK g : Rec(g, n)
  BY <1>4, Zenon
<1> DEFINE it == [s \in SUBSET DOMAIN seq |-> g[s]]
<1>6. \A s \in SUBSET DOMAIN seq : it[s] = g[s] /\ it[s \ {Max(s)}] = g[s \ {Max(s)}]
  BY Zenon
<1>7. \A s \in SUBSET DOMAIN seq :
        it[s] = IF s = {} THEN b ELSE Does(walk, t, it[s \ {Max(s)}], seq[Max(s)])
  <2> HIDE DEF it
  <2> QED BY <1>1, <1>5, <1>6, Zenon
<1>8. IsFold(walk, t, b, seq, it)
  BY <1>7, Zenon DEF IsFold
<1> QED BY <1>8, Zenon

\* g[1..k] is the state of such a fold after k elements.
Trace(walk, t, b, seq, g) ==
  /\ g[1..0] = b
  /\ \A k \in 1..Len(seq) : g[1..k] = Does(walk, t, g[1..(k - 1)], seq[k])

\* A fold goes through such states, from its base to its result.
LEMMA FoldStates ==
  ASSUME NEW walk, NEW t, NEW b, NEW S, NEW seq \in Seq(S), NEW g, IsFold(walk, t, b, seq, g)
  PROVE  Trace(walk, t, b, seq, g)
<1>1. DOMAIN seq = 1..Len(seq) /\ Len(seq) \in Nat
  OBVIOUS
<1>2. \A s \in SUBSET DOMAIN seq :
        g[s] = IF s = {} THEN b ELSE Does(walk, t, g[s \ {Max(s)}], seq[Max(s)])
  BY Zenon DEF IsFold
<1>3. g[1..0] = b
  <2>1. 1..0 = {}
    OBVIOUS
  <2> QED BY <1>2, <2>1, Zenon
<1>4. ASSUME NEW k \in 1..Len(seq) PROVE g[1..k] = Does(walk, t, g[1..(k - 1)], seq[k])
  <2>1. k \in 1..k /\ 1..k \in SUBSET DOMAIN seq /\ 1..k # {}
    <3>1. k \in 1..k
      OBVIOUS
    <3>2. 1..k \subseteq 1..Len(seq)
      BY <1>1
    <3> QED BY <1>1, <3>1, <3>2, Zenon
  <2>2. Max(1..k) = k
    <3>1. Max(1..k) \in 1..k /\ Max(1..k) >= k
      BY <1>1, <2>1, MaxFacts, Zenon
    <3> QED BY <3>1
  <2>3. (1..k) \ {k} = 1..(k - 1)
    OBVIOUS
  <2> QED BY <1>2, <2>1, <2>2, <2>3, Zenon
<1> QED BY <1>3, <1>4, Zenon DEF Trace

\* st lists the states of findRoute's walk over names, from root on.
IsWalk(st, t, root, names) ==
  /\ st[0] = root
  /\ st[Len(names)] = FoldLeft(LAMBDA x, name : Step(t, x, name), root, names)
  /\ \A k \in 1..Len(names) : st[k] = Step(t, st[k - 1], names[k])

\* findRoute's walk goes through such states.
LEMMA WalkStates ==
  ASSUME NEW t, NEW root, NEW S, NEW names \in Seq(S)
  PROVE  \E st : IsWalk(st, t, root, names)
<1> DEFINE n == Len(names)
           Def(g) == [s \in SUBSET DOMAIN names |->
                        IF s = {} THEN root ELSE Step(t, g[s \ {Max(s)}], names[Max(s)])]
           iter == CHOOSE g : g = Def(g)
           st == [k \in 0..n |-> iter[1..k]]
<1>1. FoldLeft(LAMBDA x, name : Step(t, x, name), root, names) = iter[DOMAIN names]
  BY Zenon DEF FoldLeft, MapThenFoldSet
<1>2. \A g : g = Def(g) <=> IsFold(TRUE, t, root, names, g)
  BY DEF IsFold, Does
<1>3. iter = Def(iter)
  <2> HIDE DEF Def
  <2> QED BY <1>2, FoldExists
<1> HIDE DEF iter
<1>4. /\ iter[1..0] = root
      /\ \A k \in 1..n : iter[1..k] = Step(t, iter[1..(k - 1)], names[k])
  <2>1. IsFold(TRUE, t, root, names, iter)
    BY <1>2, <1>3, Zenon
  <2>2. Trace(TRUE, t, root, names, iter)
    BY <2>1, FoldStates, Zenon
  <2> QED BY <2>2, Zenon DEF Trace, Does
<1>5. /\ 0 \in 0..n /\ n \in 0..n /\ DOMAIN names = 1..n
      /\ \A k \in 1..n : k \in 0..n /\ k - 1 \in 0..n
  OBVIOUS
<1>6. st[0] = root /\ st[n] = iter[DOMAIN names]
  BY <1>4, <1>5, Zenon
<1>7. ASSUME NEW k \in 1..n PROVE st[k] = Step(t, st[k - 1], names[k])
  BY <1>4, <1>5, Zenon
<1> HIDE DEF st
<1> QED BY <1>1, <1>6, <1>7, Zenon DEF IsWalk

\* st lists the states of addRoute's walk over the segments, from start on.
IsGrowth(st, start, segs) ==
  /\ st[0] = start
  /\ st[Len(segs)] = FoldLeft(childOrCreate, start, segs)
  /\ \A k \in 1..Len(segs) : st[k] = childOrCreate(st[k - 1], segs[k])

\* addRoute's walk goes through such states.
LEMMA GrowthStates ==
  ASSUME NEW start, NEW S, NEW segs \in Seq(S)
  PROVE  \E st : IsGrowth(st, start, segs)
<1> DEFINE n == Len(segs)
           Def(g) == [s \in SUBSET DOMAIN segs |->
                        IF s = {} THEN start ELSE childOrCreate(g[s \ {Max(s)}], segs[Max(s)])]
           iter == CHOOSE g : g = Def(g)
           st == [k \in 0..n |-> iter[1..k]]
<1>1. FoldLeft(childOrCreate, start, segs) = iter[DOMAIN segs]
  BY Zenon DEF FoldLeft, MapThenFoldSet
<1>2. \A g : g = Def(g) <=> IsFold(FALSE, {}, start, segs, g)
  BY DEF IsFold, Does
<1>3. iter = Def(iter)
  <2> HIDE DEF Def
  <2> QED BY <1>2, FoldExists
<1> HIDE DEF iter
<1>4. /\ iter[1..0] = start
      /\ \A k \in 1..n : iter[1..k] = childOrCreate(iter[1..(k - 1)], segs[k])
  <2>1. IsFold(FALSE, {}, start, segs, iter)
    BY <1>2, <1>3, Zenon
  <2>2. Trace(FALSE, {}, start, segs, iter)
    BY <2>1, FoldStates, Zenon
  <2> QED BY <2>2, Zenon DEF Trace, Does
<1>5. /\ 0 \in 0..n /\ n \in 0..n /\ DOMAIN segs = 1..n
      /\ \A k \in 1..n : k \in 0..n /\ k - 1 \in 0..n
  OBVIOUS
<1>6. st[0] = start /\ st[n] = iter[DOMAIN segs]
  BY <1>4, <1>5, Zenon
<1>7. ASSUME NEW k \in 1..n PROVE st[k] = childOrCreate(st[k - 1], segs[k])
  BY <1>4, <1>5, Zenon
<1> HIDE DEF st
<1> QED BY <1>1, <1>6, <1>7, Zenon DEF IsGrowth

\* it[s] is what the middlewares at s make of ctx.
IsChain(it, ctx, B) ==
  /\ it \in [SUBSET DOMAIN mdls -> B]
  /\ Chain(ctx) = it[DOMAIN mdls]
  /\ \A s \in SUBSET DOMAIN mdls :
       it[s] = IF s = {} THEN ctx ELSE Wrap(mdls[Min(s)], it[s \ {Min(s)}])

\* The middlewares are applied one by one, the last of the list first.
LEMMA ChainIter ==
  ASSUME NEW ctx, NEW B, ctx \in B, IsFiniteSet(DOMAIN mdls), DOMAIN mdls \subseteq Nat,
         \A m, y : y \in B => Wrap(m, y) \in B
  PROVE  \E it : IsChain(it, ctx, B)
<1> DEFINE S == DOMAIN mdls
           Def(g) == [s \in SUBSET S |-> IF s = {} THEN ctx ELSE Wrap(mdls[Min(s)], g[s \ {Min(s)}])]
           iter == CHOOSE g : g = Def(g)
           pick == [s \in SUBSET S |-> Min(s)]
           step == [i \in S |-> [y \in B |-> Wrap(mdls[i], y)]]
<1>1. Chain(ctx) = iter[S]
  BY Zenon DEF Chain, FoldRight, MapThenFoldSet
<1>2. IsFiniteSet(S) /\ Picks(pick, S)
  BY MinFacts DEF Picks
<1>3. Steps(step, S, B)
  BY DEF Steps
<1>4. PICK it \in [SUBSET S -> B] : Iterates(it, S, ctx, pick, step)
  <2> HIDE DEF S, pick, step
  <2> QED BY <1>2, <1>3, IterExists, Zenon
<1>5. \A s \in SUBSET S : it[s] = IF s = {} THEN ctx ELSE Wrap(mdls[Min(s)], it[s \ {Min(s)}])
  BY <1>2, <1>4, Zenon DEF Picks, Iterates
<1>6. it = Def(it)
  BY <1>5
<1>7. iter = Def(iter)
  <2> HIDE DEF Def
  <2> QED BY <1>6
<1>8. \A s \in SUBSET S : iter[s] = it[s]
  <2> HIDE DEF iter
  <2> DEFINE Same == {s \in SUBSET S : iter[s] = it[s]}
  <2>1. {} \in Same
    BY <1>5, <1>7, Zenon
  <2>2. ASSUME NEW s \in SUBSET S, s # {}, \A u \in SUBSET s : u # s => u \in Same
        PROVE  s \in Same
    <3>1. s \ {Min(s)} \in Same
      BY <2>2, MinFacts
    <3> QED BY <1>5, <1>7, <3>1, Zenon
  <2> HIDE DEF Same, S
  <2>3. SUBSET S \subseteq Same
    <3>1. Inductive(Same, S)
      BY <2>1, <2>2 DEF Inductive
    <3> QED BY <1>2, <3>1, SubsetInduction
  <2> QED BY <2>3 DEF Same
<1> QED BY <1>1, <1>5, <1>8, Zenon DEF IsChain

(***************************************************************************)
(* Sequences and trees.                                                    *)
(***************************************************************************)
\* IsPrefix, element by element.
LEMMA PrefixIff ==
  ASSUME NEW S, NEW a \in Seq(S), NEW b \in Seq(S)
  PROVE  IsPrefix(a, b) <=> Len(a) <= Len(b) /\ \A i \in 1..Len(a) : a[i] = b[i]
BY DEF IsPrefix

\* Front and Last take apart what Append puts together.
LEMMA AppendFacts ==
  ASSUME NEW S, NEW n \in Seq(S), NEW e \in S
  PROVE  /\ Append(n, e) \in Seq(S) /\ Append(n, e) # <<>> /\ Len(Append(n, e)) = Len(n) + 1
         /\ Front(Append(n, e)) = n /\ Last(Append(n, e)) = e
         /\ \A i \in 1..Len(n) : Append(n, e)[i] = n[i]
<1>1. /\ Append(n, e) \in Seq(S) /\ Append(n, e) # <<>> /\ Len(Append(n, e)) = Len(n) + 1
      /\ Last(Append(n, e)) = e /\ \A i \in 1..Len(n) : Append(n, e)[i] = n[i]
  BY DEF Last
<1>2. Front(Append(n, e)) = n
  BY DEF Front
<1> QED BY <1>1, <1>2

\* Append puts together what Front and Last take apart.
LEMMA FrontFacts ==
  ASSUME NEW S, NEW k \in Seq(S), k # <<>>
  PROVE  /\ Front(k) \in Seq(S) /\ Len(Front(k)) = Len(k) - 1 /\ Last(k) \in S
         /\ \A i \in 1..(Len(k) - 1) : Front(k)[i] = k[i]
         /\ k = Append(Front(k), Last(k))
<1>1. Len(k) \in Nat \ {0}
  OBVIOUS
<1>2. /\ Front(k) \in Seq(S) /\ Len(Front(k)) = Len(k) - 1 /\ Last(k) \in S
      /\ \A i \in 1..(Len(k) - 1) : Front(k)[i] = k[i]
  <2> DEFINE f == SubSeq(k, 1, Len(k) - 1)
  <2>1. f \in Seq(S) /\ Len(f) = Len(k) - 1
    <3>1. \A i \in 1..(Len(k) - 1) : k[i] \in S
      BY <1>1
    <3>2. f \in Seq(S) /\ Len(f) = IF 1 <= Len(k) - 1 THEN Len(k) - 1 - 1 + 1 ELSE 0
      BY <1>1, <3>1, SubSeqProperties
    <3> DEFINE raw == IF 1 <= Len(k) - 1 THEN Len(k) - 1 - 1 + 1 ELSE 0
    <3>3. raw = Len(k) - 1
      BY <1>1
    <3>4. Len(f) = raw
      BY <3>2
    <3> HIDE DEF f, raw
    <3> QED BY <3>2, <3>3, <3>4, Zenon
  <2>2. \A i \in 1..(Len(k) - 1) : f[i] = k[i]
    BY <1>1
  <2>3. Last(k) \in S
    BY <1>1 DEF Last
  <2> HIDE DEF f
  <2>4. Front(k) = f
    BY DEF Front, f
  <2> QED BY <2>1, <2>2, <2>3, <2>4
<1>3. k = Append(Front(k), Last(k))
  <2> DEFINE a == Append(Front(k), Last(k))
  <2>1. a \in Seq(S) /\ Len(a) = Len(k) /\ \A i \in 1..(Len(k) - 1) : a[i] = Front(k)[i]
    BY <1>1, <1>2
  <2>2. a[Len(k)] = k[Len(k)]
    BY <1>1, <1>2 DEF Last
  <2> HIDE DEF a
  <2>3. \A i \in 1..Len(k) : a[i] = k[i]
    BY <1>1, <1>2, <2>1, <2>2
  <2>4. a = k
    BY <2>1, <2>3, SeqEqual
  <2> QED BY <2>4 DEF a
<1> QED BY <1>2, <1>3

\* The children of a node are the nodes whose Front it is.
LEMMA KidIff ==
  ASSUME NEW S, NEW t, DOMAIN t \subseteq Seq(S), NEW n \in Seq(S), NEW kind, NEW k
  PROVE  k \in Children(t, n, kind) <=> k \in DOMAIN t /\ k # <<>> /\ Front(k) = n /\ Last(k).kind = kind
<1> SUFFICES ASSUME k \in DOMAIN t
             PROVE  Len(k) = Len(n) + 1 /\ IsPrefix(n, k) <=> k # <<>> /\ Front(k) = n
  BY DEF Children
<1>1. k \in Seq(S) /\ Len(k) \in Nat /\ Len(n) \in Nat
  OBVIOUS
<1>2. ASSUME k # <<>>, Front(k) = n PROVE Len(k) = Len(n) + 1 /\ IsPrefix(n, k)
  <2>1. Len(n) = Len(k) - 1 /\ \A i \in 1..Len(n) : n[i] = k[i]
    BY <1>1, <1>2, FrontFacts
  <2> QED BY <1>1, <2>1, PrefixIff
<1>3. ASSUME Len(k) = Len(n) + 1, IsPrefix(n, k) PROVE k # <<>> /\ Front(k) = n
  <2>1. k # <<>> /\ \A i \in 1..Len(n) : n[i] = k[i]
    BY <1>1, <1>3, PrefixIff
  <2>2. /\ Front(k) \in Seq(S) /\ Len(Front(k)) = Len(n)
        /\ \A i \in 1..Len(n) : Front(k)[i] = k[i]
    BY <1>1, <1>3, <2>1, FrontFacts
  <2>3. Front(k) = n
    BY <2>1, <2>2, SeqEqual
  <2> QED BY <2>1, <2>3
<1> QED BY <1>2, <1>3

\* Add brings one node, without a handler, and changes no other.
LEMMA AddFacts ==
  ASSUME NEW t, NEW k
  PROVE  /\ DOMAIN Add(t, k) = DOMAIN t \cup {k}
         /\ \A n \in DOMAIN t : Add(t, k)[n] = t[n]
         /\ k \notin DOMAIN t => Add(t, k)[k] = NoHandler
BY DEF Add, With

\* The nodes that Replace keeps, and its result u.
Kept(t, old) == {x \in DOMAIN t : \A o \in old : ~IsPrefix(o, x)}

Replaced(t, old, k, u) ==
  /\ DOMAIN u = Kept(t, old) \cup {k}
  /\ \A n \in Kept(t, old) : u[n] = t[n]
  /\ k \notin Kept(t, old) => u[k] = NoHandler

\* Replace brings one node without a handler, and of the others drops those
\* below an old one.
LEMMA ReplaceFacts ==
  ASSUME NEW t, NEW old, NEW k
  PROVE  Replaced(t, old, k, Replace(t, old, k))
<1> DEFINE r == [x \in Kept(t, old) |-> t[x]]
<1>1. Replace(t, old, k) = Add(r, k)
  BY Zenon DEF Replace, RestrictDomain, Restrict, Kept
<1>2. DOMAIN r = Kept(t, old) /\ \A n \in Kept(t, old) : r[n] = t[n]
  OBVIOUS
<1> HIDE DEF r
<1>3. /\ DOMAIN Add(r, k) = DOMAIN r \cup {k}
      /\ \A n \in DOMAIN r : Add(r, k)[n] = r[n]
      /\ k \notin DOMAIN r => Add(r, k)[k] = NoHandler
  BY AddFacts, Zenon
<1> QED BY <1>1, <1>2, <1>3, Zenon DEF Replaced

\* What the steps of addRoute keep of the tree t.
Grows(t, u) ==
  /\ \A n \in DOMAIN u : u[n] # NoHandler => n \in DOMAIN t /\ u[n] = t[n]
  /\ \A n \in DOMAIN t : AllStatic(n) => n \in DOMAIN u /\ u[n] = t[n]

\* A new static child of a node leaves a tree a tree.
LEMMA AddTree ==
  ASSUME NEW t, IsTree(t), NEW n \in DOMAIN t, NEW seg \in NodeSegment, seg.kind = "static"
  PROVE  /\ IsTree(Add(t, Append(n, seg))) /\ Grows(t, Add(t, Append(n, seg)))
         /\ Append(n, seg) \in DOMAIN Add(t, Append(n, seg))
<1> DEFINE k == Append(n, seg)
           u == Add(t, k)
<1>1. n \in Seq(NodeSegment)
  BY DEF IsTree
<1>2. k \in Seq(NodeSegment) /\ k # <<>> /\ Front(k) = n /\ Last(k).kind = "static"
  BY <1>1, AppendFacts
<1> HIDE DEF k
<1>3. /\ DOMAIN u = DOMAIN t \cup {k}
      /\ \A a \in DOMAIN t : u[a] = t[a]
      /\ k \notin DOMAIN t => u[k] = NoHandler
  BY AddFacts, Zenon
<1> HIDE DEF u
<1>4. IsTree(u)
  <2>1. DOMAIN u \subseteq Seq(NodeSegment) /\ <<>> \in DOMAIN u
    BY <1>2, <1>3 DEF IsTree
  <2>2. \A a \in DOMAIN u \ {<<>>} : Front(a) \in DOMAIN u
    BY <1>2, <1>3 DEF IsTree
  <2>3. ASSUME NEW a \in DOMAIN u \ {<<>>}, NEW b \in DOMAIN u \ {<<>>},
               Front(a) = Front(b), Last(a).kind # "static", Last(b).kind # "static"
        PROVE  a = b
    BY <1>2, <1>3, <2>3 DEF IsTree
  <2> QED BY <2>1, <2>2, <2>3 DEF IsTree
<1>5. Grows(t, u)
  BY <1>3 DEF Grows
<1> QED BY <1>3, <1>4, <1>5 DEF k, u

\* A parameter or wildcard child that takes the place of the old one leaves
\* a tree a tree: no sibling is left, and nothing below the old child.
LEMMA ReplaceTree ==
  ASSUME NEW t, IsTree(t), NEW n \in DOMAIN t, NEW seg \in NodeSegment, seg.kind # "static",
         \A kind : kind # "static" /\ kind # seg.kind => Children(t, n, kind) = {}
  PROVE  LET u == Replace(t, Children(t, n, seg.kind), Append(n, seg))
         IN IsTree(u) /\ Grows(t, u) /\ Append(n, seg) \in DOMAIN u
<1> DEFINE k == Append(n, seg)
           old == Children(t, n, seg.kind)
           u == Replace(t, old, k)
           kept == Kept(t, old)
<1>1. n \in Seq(NodeSegment) /\ DOMAIN t \subseteq Seq(NodeSegment)
  BY DEF IsTree
<1>2. k \in Seq(NodeSegment) /\ k # <<>> /\ Front(k) = n /\ Last(k) = seg
  BY <1>1, AppendFacts
<1> HIDE DEF k
<1>3. \A o : o \in old <=> o \in DOMAIN t /\ o # <<>> /\ Front(o) = n /\ Last(o).kind = seg.kind
  BY <1>1, KidIff
<1>4. \A a \in DOMAIN t \ {<<>>} : Front(a) = n /\ Last(a).kind # "static" => a \in old
  BY <1>1, KidIff, Zenon
<1> HIDE DEF old
<1>5. /\ DOMAIN u = kept \cup {k}
      /\ \A a \in kept : u[a] = t[a]
      /\ k \notin kept => u[k] = NoHandler
  <2>1. Replaced(t, old, k, u)
    BY ReplaceFacts, Zenon
  <2> QED BY <2>1, Zenon DEF Replaced
<1> USE DEF Kept
<1> HIDE DEF u
<1>6. \A a \in old : a \notin kept
  <2>1. ASSUME NEW a \in old PROVE IsPrefix(a, a)
    BY <1>1, <1>3, PrefixIff
  <2> QED BY <2>1, Zenon
<1>7. \A a \in kept \ {<<>>} : Front(a) \in kept
  <2> SUFFICES ASSUME NEW a \in kept, a # <<>>, NEW o \in old, IsPrefix(o, Front(a))
               PROVE  FALSE
    BY DEF IsTree
  <2>1. a \in Seq(NodeSegment) /\ o \in Seq(NodeSegment)
    BY <1>1, <1>3
  <2>2. /\ Front(a) \in Seq(NodeSegment) /\ Len(Front(a)) = Len(a) - 1
        /\ \A i \in 1..(Len(a) - 1) : Front(a)[i] = a[i]
    BY <2>1, FrontFacts
  <2>3. Len(o) <= Len(Front(a)) /\ \A i \in 1..Len(o) : o[i] = Front(a)[i]
    BY <2>1, <2>2, PrefixIff
  <2>4. Len(o) \in Nat /\ Len(a) \in Nat
    BY <2>1
  <2>5. Len(o) <= Len(a) /\ \A i \in 1..Len(o) : o[i] = a[i]
    BY <2>2, <2>3, <2>4
  <2>6. IsPrefix(o, a)
    BY <2>1, <2>5, PrefixIff
  <2> QED BY <2>6
<1>8. n \in kept /\ <<>> \in kept
  <2>1. ASSUME NEW o \in old, NEW a \in {n, <<>>} PROVE ~IsPrefix(o, a)
    <3>1. o \in Seq(NodeSegment) /\ Len(n) = Len(o) - 1 /\ Len(o) \in Nat
      <4>1. o \in Seq(NodeSegment) /\ o # <<>> /\ Front(o) = n
        BY <1>1, <1>3
      <4>2. Len(Front(o)) = Len(o) - 1
        BY <4>1, FrontFacts
      <4> QED BY <4>1, <4>2
    <3>2. Len(a) < Len(o)
      BY <1>1, <3>1
    <3>3. a \in Seq(NodeSegment) /\ Len(a) \in Nat
      BY <1>1, EmptySeq, Zenon
    <3> QED BY <3>1, <3>2, <3>3, PrefixIff
  <2> QED BY <2>1 DEF IsTree
<1>9. IsTree(u)
  <2>1. DOMAIN u \subseteq Seq(NodeSegment) /\ <<>> \in DOMAIN u
    BY <1>1, <1>2, <1>5, <1>8
  <2>2. \A a \in DOMAIN u \ {<<>>} : Front(a) \in DOMAIN u
    BY <1>2, <1>5, <1>7, <1>8
  <2>3. ASSUME NEW a \in DOMAIN u \ {<<>>}, NEW b \in DOMAIN u \ {<<>>},
               Front(a) = Front(b), Last(a).kind # "static", Last(b).kind # "static"
        PROVE  a = b
    <3>1. CASE Front(a) = n
      <4>1. a = k
        BY <1>4, <1>5, <1>6, <2>3, <3>1
      <4>2. b = k
        BY <1>4, <1>5, <1>6, <2>3, <3>1, Zenon
      <4> QED BY <4>1, <4>2
    <3>2. CASE Front(a) # n
      BY <1>2, <1>5, <2>3, <3>2 DEF IsTree
    <3> QED BY <3>1, <3>2
  <2> QED BY <2>1, <2>2, <2>3 DEF IsTree
<1>10. \A a \in DOMAIN t : AllStatic(a) => a \in kept
  <2> SUFFICES ASSUME NEW a \in DOMAIN t, AllStatic(a), NEW o \in old, IsPrefix(o, a)
               PROVE  FALSE
    OBVIOUS
  <2>1. a \in Seq(NodeSegment) /\ o \in Seq(NodeSegment) /\ o # <<>>
    BY <1>1, <1>3
  <2>2. Len(o) <= Len(a) /\ \A i \in 1..Len(o) : o[i] = a[i]
    BY <2>1, PrefixIff
  <2>3. Len(o) \in 1..Len(o) /\ Len(o) \in DOMAIN a
    BY <2>1, <2>2
  <2>4. o[Len(o)].kind = "static"
    BY <2>2, <2>3 DEF AllStatic
  <2> QED BY <1>3, <2>4 DEF Last
<1>11. Grows(t, u)
  BY <1>5, <1>10 DEF Grows
<1> QED BY <1>5, <1>9, <1>11, Zenon DEF k, u, old

(***************************************************************************)
(* addRoute.                                                               *)
(***************************************************************************)
\* The state y of addRoute after k of the segments, begun with the tree t.
Growth(t, segs, k, y) ==
  /\ y \in [t : {y.t}, at : {y.at}, panic : BOOLEAN]
  /\ IsTree(y.t) /\ Grows(t, y.t)
  /\ ~y.panic => /\ y.at \in DOMAIN y.t /\ Len(y.at) = k
                 /\ \A i \in 1..k : y.at[i] = segs[i]

\* Two steps keep what each of them keeps.
LEMMA GrowsTrans ==
  ASSUME NEW t, NEW u, NEW v, Grows(t, u), Grows(u, v)
  PROVE  Grows(t, v)
BY DEF Grows

\* childOrCreate takes addRoute one segment further, or panics.
LEMMA GrowthStep ==
  ASSUME NEW t, NEW segs \in Seq(Segment \ {Static(Fresh)}), NEW k \in 1..Len(segs), NEW y,
         Growth(t, segs, k - 1, y)
  PROVE  Growth(t, segs, k, childOrCreate(y, segs[k]))
<1> DEFINE seg == segs[k]
           at == Append(y.at, seg)
           Go(u) == [y EXCEPT !.t = u, !.at = at]
           Kids(kind) == Children(y.t, y.at, kind)
           z == childOrCreate(y, seg)
<1>1. /\ seg \in Segment /\ seg # Static(Fresh) /\ k \in Nat /\ k - 1 \in Nat
      /\ seg.kind \in {"static", "param", "star"}
  BY DEF Segment
<1>2. Growth(t, segs, k, [y EXCEPT !.panic = TRUE])
  <2>1. PICK yes \in BOOLEAN : yes = TRUE
    BY Zenon
  <2> DEFINE p == [y EXCEPT !.panic = yes]
  <2>2. p.t = y.t /\ p.at = y.at /\ p.panic = yes /\ p \in [t : {y.t}, at : {y.at}, panic : BOOLEAN]
    BY DEF Growth
  <2> HIDE DEF p
  <2>3. Growth(t, segs, k, p)
    BY <2>1, <2>2 DEF Growth
  <2> QED BY <2>1, <2>3 DEF p
<1>3. CASE y.panic \/ seg = Static("")
  <2>1. z = [y EXCEPT !.panic = TRUE]
    <3>1. CASE y.panic
      BY <3>1 DEF childOrCreate
    <3>2. CASE ~y.panic /\ seg = Static("")
      <4>1. seg.kind # "param" /\ seg.kind # "star"
        <5>1. \A name : Static(name).kind = "static"
          BY DEF Static
        <5>2. seg.kind = "static"
          BY <3>2, <5>1, Zenon
        <5> QED BY <5>2
      <4> QED BY <3>2, <4>1, Zenon DEF childOrCreate
    <3> QED BY <1>3, <3>1, <3>2, Zenon
  <2> QED BY <1>2, <2>1
<1>4. CASE ~y.panic /\ seg # Static("")
  <2>1. /\ seg \in NodeSegment /\ y.at \in DOMAIN y.t /\ IsTree(y.t) /\ Len(y.at) = k - 1
        /\ \A i \in 1..(k - 1) : y.at[i] = segs[i]
    BY <1>1, <1>4, Zenon DEF Growth, NodeSegment
  <2>2. y.at \in Seq(NodeSegment)
    BY <2>1 DEF IsTree
  <2>3. Len(at) = k /\ \A i \in 1..k : at[i] = segs[i]
    <3>1. Len(at) = Len(y.at) + 1 /\ Last(at) = seg /\ \A i \in 1..Len(y.at) : at[i] = y.at[i]
      BY <2>1, <2>2, AppendFacts
    <3> HIDE DEF at
    <3> QED BY <1>1, <2>1, <3>1 DEF Last
  <2> HIDE DEF at
  <2>4. ASSUME NEW u, IsTree(u), Grows(y.t, u), at \in DOMAIN u PROVE Growth(t, segs, k, Go(u))
    <3>1. /\ Go(u).t = u /\ Go(u).at = at /\ Go(u).panic = y.panic
          /\ Go(u) \in [t : {u}, at : {at}, panic : BOOLEAN]
      BY Zenon DEF Growth
    <3>2. Grows(t, u)
      BY <2>4, GrowsTrans DEF Growth
    <3> HIDE DEF Go
    <3> QED BY <2>3, <2>4, <3>1, <3>2 DEF Growth
  <2>5. CASE seg.kind = "static"
    <3>1. z = Go(Add(y.t, at))
      BY <1>4, <2>5, Zenon DEF childOrCreate, at
    <3>2. IsTree(Add(y.t, at)) /\ Grows(y.t, Add(y.t, at)) /\ at \in DOMAIN Add(y.t, at)
      BY <2>1, <2>5, AddTree DEF at
    <3> HIDE DEF Go, z
    <3> QED BY <2>4, <3>1, <3>2 DEF z
  <2>6. ASSUME seg.kind # "static", \A kind : kind # "static" /\ kind # seg.kind => Kids(kind) = {}
        PROVE  Growth(t, segs, k, Go(Replace(y.t, Kids(seg.kind), at)))
    <3> DEFINE u == Replace(y.t, Kids(seg.kind), at)
    <3>1. IsTree(u) /\ Grows(y.t, u) /\ at \in DOMAIN u
      BY <2>1, <2>6, ReplaceTree DEF at
    <3> HIDE DEF Go, u
    <3>2. Growth(t, segs, k, Go(u))
      BY <2>4, <3>1
    <3> QED BY <3>2 DEF u
  <2>7. \A kind : Kids(kind) # {} => kind \in {"static", "param", "star"}
    <3> SUFFICES ASSUME NEW kind, NEW c \in Kids(kind) PROVE kind \in {"static", "param", "star"}
      OBVIOUS
    <3>1. c \in Seq(NodeSegment) /\ c # <<>> /\ Last(c).kind = kind
      <4>1. DOMAIN y.t \subseteq Seq(NodeSegment)
        BY <2>1 DEF IsTree
      <4>2. c \in DOMAIN y.t /\ c # <<>> /\ Last(c).kind = kind
        BY <2>2, <4>1, KidIff
      <4> QED BY <4>1, <4>2
    <3>2. Last(c) \in NodeSegment
      BY <3>1, FrontFacts
    <3> QED BY <3>1, <3>2, Zenon DEF NodeSegment, Segment
  <2>8. CASE seg.kind = "param"
    <3>1. CASE Kids("star") # {}
      <4>1. z = [y EXCEPT !.panic = TRUE]
        BY <1>4, <2>8, <3>1, Zenon DEF childOrCreate
      <4> QED BY <1>2, <4>1
    <3>2. CASE Kids("star") = {}
      <4>1. z = Go(Replace(y.t, Kids("param"), at))
        BY <1>4, <2>8, <3>2, Zenon DEF childOrCreate, at
      <4>2. \A kind : kind # "static" /\ kind # seg.kind => Kids(kind) = {}
        BY <2>7, <2>8, <3>2
      <4> HIDE DEF Go, Kids, z
      <4> QED BY <2>6, <2>8, <4>1, <4>2 DEF z
    <3> QED BY <3>1, <3>2
  <2>9. CASE seg.kind = "star"
    <3>1. CASE Kids("param") # {}
      <4>1. z = [y EXCEPT !.panic = TRUE]
        BY <1>4, <2>9, <3>1, Zenon DEF childOrCreate
      <4> QED BY <1>2, <4>1
    <3>2. CASE Kids("param") = {}
      <4>1. z = Go(Replace(y.t, Kids("star"), at))
        BY <1>4, <2>9, <3>2, Zenon DEF childOrCreate, at
      <4>2. \A kind : kind # "static" /\ kind # seg.kind => Kids(kind) = {}
        BY <2>7, <2>9, <3>2
      <4> HIDE DEF Go, Kids, z
      <4> QED BY <2>6, <2>9, <4>1, <4>2 DEF z
    <3> QED BY <3>1, <3>2
  <2> QED BY <1>1, <2>5, <2>8, <2>9
<1> QED BY <1>3, <1>4, Zenon

\* What addRoute makes of the tree t for the route p and the handler h.
Registered(t, p, h, r) ==
  /\ IsTree(r.t) /\ r.panic \in BOOLEAN
  /\ ~r.panic => p.segs \in DOMAIN r.t /\ r.t[p.segs] = h
  /\ \A n \in DOMAIN r.t : r.t[n] # NoHandler =>
       (n \in DOMAIN t /\ r.t[n] = t[n]) \/ (~r.panic /\ n = p.segs)
  /\ \A n \in DOMAIN t : AllStatic(n) /\ t[n] # NoHandler => n \in DOMAIN r.t /\ r.t[n] = t[n]

\* addRoute gives the node of the route its handler or panics; it takes no
\* handler from a node of static segments and moves none.
LEMMA AddRouteFacts ==
  ASSUME NEW t, IsTree(t), NEW p \in Route, NEW h
  PROVE  Registered(t, p, h, addRoute(t, p, h))
<1> DEFINE segs == p.segs
           start == [t |-> t, at |-> <<>>, panic |-> FALSE]
           end == IF ~p.slash \/ (p.segs # <<>> /\ Last(p.segs) = Static(""))
                  THEN [start EXCEPT !.panic = TRUE]
                  ELSE FoldLeft(childOrCreate, start, p.segs)
           r == addRoute(t, p, h)
<1>1. segs \in Seq(Segment \ {Static(Fresh)}) /\ segs \in Seq(Segment) /\ Len(segs) \in Nat
  <2>1. segs \in Seq(Segment \ {Static(Fresh)})
    BY ConstAssumption
  <2> HIDE DEF segs
  <2>2. segs \in Seq(Segment)
    BY <2>1, SeqMonotonic
  <2> QED BY <2>1, <2>2
<1>2. r = IF end.panic \/ end.t[end.at] # NoHandler THEN [end EXCEPT !.panic = TRUE]
          ELSE [end EXCEPT !.t[end.at] = h]
  BY Zenon DEF addRoute
<1>3. Grows(t, t)
  BY DEF Grows
<1>4. Growth(t, segs, Len(segs), end)
  <2>1. CASE ~p.slash \/ (p.segs # <<>> /\ Last(p.segs) = Static(""))
    <3>1. end = [start EXCEPT !.panic = TRUE]
      BY <2>1, Zenon
    <3>2. PICK yes \in BOOLEAN : yes = TRUE
      BY Zenon
    <3> DEFINE e == [start EXCEPT !.panic = yes]
    <3>3. /\ e.t = t /\ e.at = <<>> /\ e.panic = yes
          /\ e \in [t : {t}, at : {<<>>}, panic : BOOLEAN]
      OBVIOUS
    <3> HIDE DEF e
    <3>4. Growth(t, segs, Len(segs), e)
      BY <1>3, <3>2, <3>3 DEF Growth
    <3>5. end = e
      BY <3>1, <3>2, Zenon DEF e
    <3> QED BY <3>4, <3>5, Zenon
  <2>2. CASE ~(~p.slash \/ (p.segs # <<>> /\ Last(p.segs) = Static("")))
    <3>1. end = FoldLeft(childOrCreate, start, segs)
      BY <2>2, Zenon
    <3>2. PICK st : IsGrowth(st, start, segs)
      <4> HIDE DEF start, segs
      <4> QED BY <1>1, GrowthStates, Zenon
    <3>3. Growth(t, segs, 0, start)
      <4>1. PICK no \in BOOLEAN : no = FALSE
        BY Zenon
      <4> DEFINE s == [t |-> t, at |-> <<>>, panic |-> no]
      <4>2. s.t = t /\ s.at = <<>> /\ s \in [t : {t}, at : {<<>>}, panic : BOOLEAN]
        OBVIOUS
      <4>3. <<>> \in DOMAIN t /\ Len(<<>>) = 0
        BY DEF IsTree
      <4> HIDE DEF s
      <4>4. Growth(t, segs, 0, s)
        BY <1>3, <4>2, <4>3 DEF Growth
      <4> QED BY <4>1, <4>4, Zenon DEF s
    <3> HIDE DEF start, end, segs
    <3> DEFINE T == {k \in 0..Len(segs) : Growth(t, segs, k, st[k])}
    <3>4. 0 \in T
      BY <1>1, <3>2, <3>3 DEF IsGrowth
    <3>5. ASSUME NEW k \in 1..Len(segs), k - 1 \in T PROVE k \in T
      <4>1. Growth(t, segs, k, childOrCreate(st[k - 1], segs[k]))
        BY <1>1, <3>5, GrowthStep
      <4>2. st[k] = childOrCreate(st[k - 1], segs[k])
        BY <3>2 DEF IsGrowth
      <4>3. k \in 0..Len(segs)
        BY <1>1
      <4> QED BY <4>1, <4>2, <4>3
    <3>6. Len(segs) \in T
      <4> HIDE DEF T
      <4>1. 0..Len(segs) \subseteq T
        BY <1>1, <3>4, <3>5, RangeInduction, Zenon
      <4> QED BY <1>1, <4>1
    <3>7. st[Len(segs)] = end
      BY <3>1, <3>2, Zenon DEF IsGrowth
    <3> QED BY <3>6, <3>7
  <2> QED BY <2>1, <2>2, Zenon
<1> HIDE DEF end, r
<1>5. CASE end.panic \/ end.t[end.at] # NoHandler
  <2>1. r = [end EXCEPT !.panic = TRUE]
    BY <1>2, <1>5
  <2>2. r.t = end.t /\ r.panic = TRUE
    BY <1>4, <2>1 DEF Growth
  <2>3. IsTree(r.t) /\ Grows(t, r.t)
    BY <1>4, <2>2 DEF Growth
  <2>4. Registered(t, p, h, r)
    BY <2>2, <2>3, Zenon DEF Registered, Grows
  <2> QED BY <2>4 DEF r
<1>6. CASE ~(end.panic \/ end.t[end.at] # NoHandler)
  <2>1. r = [end EXCEPT !.t[end.at] = h]
    BY <1>2, <1>6
  <2>2. r.t = [end.t EXCEPT ![end.at] = h] /\ r.panic = FALSE
    BY <1>4, <1>6, <2>1 DEF Growth
  <2>3. end.at = segs /\ end.at \in DOMAIN end.t /\ IsTree(end.t) /\ Grows(t, end.t)
    <3>1. /\ end.at \in DOMAIN end.t /\ Len(end.at) = Len(segs) /\ IsTree(end.t) /\ Grows(t, end.t)
          /\ \A i \in 1..Len(segs) : end.at[i] = segs[i]
      BY <1>4, <1>6 DEF Growth
    <3>2. end.at \in Seq(Segment)
      <4>1. end.at \in Seq(NodeSegment) /\ NodeSegment \subseteq Segment
        BY <3>1, Zenon DEF IsTree, NodeSegment
      <4> QED BY <4>1, SeqMonotonic
    <3> HIDE DEF segs
    <3>3. end.at = segs
      BY <1>1, <3>1, <3>2, SeqEqual
    <3> QED BY <3>1, <3>3
  <2>4. DOMAIN r.t = DOMAIN end.t /\ \A n \in DOMAIN end.t : r.t[n] = IF n = segs THEN h ELSE end.t[n]
    BY <2>2, <2>3
  <2>5. IsTree(r.t)
    BY <2>3, <2>4 DEF IsTree
  <2>6. end.t[segs] = NoHandler
    BY <1>6, <2>3
  <2>7. Registered(t, p, h, r)
    <3>1. ~r.panic => p.segs \in DOMAIN r.t /\ r.t[p.segs] = h
      BY <2>3, <2>4
    <3>2. \A n \in DOMAIN r.t : r.t[n] # NoHandler =>
            (n \in DOMAIN t /\ r.t[n] = t[n]) \/ (~r.panic /\ n = p.segs)
      BY <2>2, <2>3, <2>4 DEF Grows
    <3>3. \A n \in DOMAIN t : AllStatic(n) /\ t[n] # NoHandler => n \in DOMAIN r.t /\ r.t[n] = t[n]
      BY <2>3, <2>4, <2>6 DEF Grows
    <3> QED BY <2>2, <2>5, <3>1, <3>2, <3>3, Zenon DEF Registered
  <2> QED BY <2>7 DEF r
<1> QED BY <1>5, <1>6

(***************************************************************************)
(* The inductive invariant of the router.                                  *)
(***************************************************************************)
\* The router starts without trees.
LEMMA RouterInit == Init => RouterInv
<1> SUFFICES ASSUME Init PROVE RouterInv
  OBVIOUS
<1>1. routes = <<>> /\ calls = 0 /\ DOMAIN trees = {} /\ DOMAIN routes = {}
  BY DEF Init
<1>2. routes \in Seq([method : Method, segs : Seq(NodeSegment), handler : 1..calls])
  BY <1>1, EmptySeq
<1> QED BY <1>1, <1>2 DEF RouterInv

\* The tree of a new method has a root without a handler.
LEMMA NewTreeFacts == IsTree(NewTree) /\ \A n \in DOMAIN NewTree : NewTree[n] = NoHandler
<1>1. DOMAIN NewTree = {<<>>} /\ NewTree[<<>>] = NoHandler
  BY DEF NewTree
<1>2. <<>> \in Seq(NodeSegment)
  BY EmptySeq
<1> QED BY <1>1, <1>2 DEF IsTree

\* Get, Post and Options preserve the invariant, also when addRoute panics.
LEMMA RouterRegister == RouterInv /\ Register => RouterInv'
<1> SUFFICES ASSUME RouterInv, Register PROVE RouterInv'
  OBVIOUS
<1> DEFINE R(n) == [method : Method, segs : Seq(NodeSegment), handler : 1..n]
<1>1. calls \in Nat /\ calls' = calls + 1 /\ routes \in Seq(R(calls))
  BY DEF RouterInv, Register
<1>2. routes \in Seq(R(calls + 1))
  <2>1. R(calls) \subseteq R(calls + 1)
    BY <1>1
  <2> HIDE DEF R
  <2> QED BY <1>1, <2>1, SeqMonotonic
<1>3. \A i \in DOMAIN routes : routes[i].handler \in 1..calls
  <2>1. \A i \in DOMAIN routes : routes[i] \in R(calls)
    <3> HIDE DEF R
    <3> QED BY <1>1
  <2> QED BY <2>1
<1>4. routes # <<>> => Last(routes).handler # calls + 1
  <2>1. routes # <<>> => Len(routes) \in DOMAIN routes
    BY <1>1
  <2> QED BY <1>1, <1>3, <2>1 DEF Last
<1>5. PICK p \in Route :
        IF p.segs = <<>> /\ ~p.slash THEN UNCHANGED <<trees, routes>>
        ELSE LET m == p.method
                 t == IF m \in DOMAIN trees THEN trees[m] ELSE NewTree
                 r == addRoute(t, p, calls + 1)
             IN /\ trees' = With(trees, m, r.t)
                /\ routes' = IF r.panic THEN routes
                             ELSE Append(routes, [method |-> m, segs |-> p.segs, handler |-> calls + 1])
  BY DEF Register
<1>6. CASE p.segs = <<>> /\ ~p.slash
  <2>1. trees' = trees /\ routes' = routes
    BY <1>5, <1>6
  <2> QED BY <1>1, <1>2, <1>4, <2>1 DEF RouterInv, Holds
<1>7. CASE ~(p.segs = <<>> /\ ~p.slash)
  <2> DEFINE m == p.method
             h == calls + 1
             t == IF m \in DOMAIN trees THEN trees[m] ELSE NewTree
             r == addRoute(t, p, h)
             new == [method |-> m, segs |-> p.segs, handler |-> h]
  <2>1. /\ trees' = With(trees, m, r.t)
        /\ routes' = IF r.panic THEN routes ELSE Append(routes, new)
    BY <1>5, <1>7, Zenon
  <2>2. m \in Method
    BY ConstAssumption
  <2>3. /\ IsTree(t) /\ (m \in DOMAIN trees => t = trees[m])
        /\ \A n \in DOMAIN t : t[n] # NoHandler => m \in DOMAIN trees
    BY NewTreeFacts DEF RouterInv
  <2> HIDE DEF t
  <2>4. Registered(t, p, h, r)
    BY <2>3, AddRouteFacts
  <2> HIDE DEF r
  <2>5. /\ DOMAIN trees' = DOMAIN trees \cup {m} /\ trees'[m] = r.t
        /\ \A x \in DOMAIN trees \ {m} : trees'[x] = trees[x]
    BY <2>1 DEF With
  <2>6. ~r.panic => new \in R(h)
    <3>1. ~r.panic => p.segs \in Seq(NodeSegment)
      BY <2>4 DEF Registered, IsTree
    <3> QED BY <1>1, <2>2, <3>1
  <2>7. /\ ~r.panic => new.method = m /\ new.segs = p.segs /\ new.handler = h
        /\ h # NoHandler
    BY <1>1 DEF NoHandler
  <2> HIDE DEF new
  <2>8. routes' \in Seq(R(h)) /\ DOMAIN routes \subseteq DOMAIN routes' /\ \A i \in DOMAIN routes : routes'[i] = routes[i]
    <3> HIDE DEF R, h
    <3>1. CASE r.panic
      BY <1>2, <2>1, <3>1 DEF h
    <3>2. CASE ~r.panic
      BY <1>2, <2>1, <2>6, <3>2 DEF h
    <3> QED BY <3>1, <3>2
  <2>9. ~r.panic => /\ DOMAIN routes' = DOMAIN routes \cup {Len(routes) + 1} /\ routes'[Len(routes) + 1] = new
                    /\ routes' # <<>> /\ Last(routes') = new
    <3> HIDE DEF R, h
    <3> QED BY <1>2, <2>1, <2>6 DEF h, Last
  <2>10. \A x \in DOMAIN trees' : IsTree(trees'[x])
    BY <2>4, <2>5 DEF RouterInv, Registered
  <2>11. ASSUME NEW x \in DOMAIN trees', NEW n \in DOMAIN trees'[x], trees'[x][n] # NoHandler
         PROVE  \E i \in DOMAIN routes' : routes'[i] = [method |-> x, segs |-> n, handler |-> trees'[x][n]]
    <3>1. CASE ~r.panic /\ x = m /\ n = p.segs
      <4>1. trees'[x][n] = h
        BY <2>4, <2>5, <3>1 DEF Registered
      <4> QED BY <2>9, <3>1, <4>1 DEF new
    <3>2. CASE ~(~r.panic /\ x = m /\ n = p.segs)
      <4>1. x \in DOMAIN trees /\ n \in DOMAIN trees[x] /\ trees'[x][n] = trees[x][n]
        BY <2>3, <2>4, <2>5, <2>11, <3>2 DEF Registered
      <4>2. PICK i \in DOMAIN routes : routes[i] = [method |-> x, segs |-> n, handler |-> trees[x][n]]
        BY <2>11, <4>1 DEF RouterInv
      <4> QED BY <2>8, <4>1, <4>2, Zenon
    <3> QED BY <3>1, <3>2
  <2>12. ~r.panic => Holds(trees', new)
    BY <2>4, <2>5, <2>7 DEF Holds, Registered
  <2>13. ASSUME NEW i \in DOMAIN routes', AllStatic(routes'[i].segs) PROVE Holds(trees', routes'[i])
    <3>1. CASE i \in DOMAIN routes
      <4> DEFINE q == routes[i]
      <4>1. q \in R(calls) /\ routes'[i] = q /\ q.handler # NoHandler
        <5>1. q \in R(calls) /\ routes'[i] = q
          <6> HIDE DEF R
          <6> QED BY <1>1, <2>8, <3>1
        <5>2. q.handler \in 1..calls
          BY <5>1
        <5> QED BY <1>1, <5>1, <5>2 DEF NoHandler
      <4>2. Holds(trees, q)
        BY <2>13, <3>1, <4>1 DEF RouterInv
      <4>3. /\ q.method \in DOMAIN trees' /\ q.segs \in DOMAIN trees'[q.method]
            /\ trees'[q.method][q.segs] = q.handler
        <5> HIDE DEF q
        <5>1. CASE q.method = m
          BY <2>3, <2>4, <2>5, <2>13, <4>1, <4>2, <5>1 DEF Holds, Registered
        <5>2. CASE q.method # m
          BY <2>5, <4>2, <5>2 DEF Holds
        <5> QED BY <5>1, <5>2
      <4> QED BY <4>1, <4>3 DEF Holds
    <3>2. CASE i \notin DOMAIN routes
      <4>1. ~r.panic /\ routes'[i] = new
        BY <2>1, <2>9, <3>2
      <4> QED BY <2>12, <4>1 DEF Holds
    <3> QED BY <3>1, <3>2
  <2>14. routes' # <<>> /\ Last(routes').handler = calls' => Holds(trees', Last(routes'))
    <3>1. CASE r.panic
      BY <1>1, <1>4, <2>1, <3>1
    <3>2. CASE ~r.panic
      BY <2>9, <2>12, <3>2 DEF Holds
    <3> QED BY <3>1, <3>2
  <2> QED BY <1>1, <2>8, <2>10, <2>11, <2>13, <2>14 DEF RouterInv
<1> QED BY <1>6, <1>7

\* No other step touches the trees or the routes.
LEMMA RouterNext == RouterInv /\ [Next]_vars => RouterInv'
<1> SUFFICES ASSUME RouterInv, [Next]_vars PROVE RouterInv'
  OBVIOUS
<1>1. CASE Register
  BY <1>1, RouterRegister
<1>2. CASE UNCHANGED <<trees, routes, calls>>
  BY <1>2 DEF RouterInv, Holds
<1> QED BY <1>1, <1>2 DEF Next, Start, ServeHTTP, EndOfRequest, vars

(***************************************************************************)
(* findRoute.                                                              *)
(***************************************************************************)
\* childOf returns a child, and a static one only for its own name.
LEMMA ChildOfFacts ==
  ASSUME NEW t, IsTree(t), NEW n \in DOMAIN t, NEW name, NEW c \in childOf(t, n, name)
  PROVE  c \in DOMAIN t /\ c # <<>> /\ Front(c) = n /\ (Last(c).kind = "static" => Last(c).name = name)
<1>1. n \in Seq(NodeSegment) /\ DOMAIN t \subseteq Seq(NodeSegment)
  BY DEF IsTree
<1>2. CASE c = Append(n, Static(name)) /\ c \in DOMAIN t
  <2> DEFINE S == NodeSegment \cup {Static(name)}
  <2>1. n \in Seq(S) /\ Static(name) \in S
    <3>1. NodeSegment \subseteq S
      OBVIOUS
    <3> QED BY <1>1, <3>1, SeqMonotonic
  <2> HIDE DEF S
  <2>2. c # <<>> /\ Front(c) = n /\ Last(c) = Static(name)
    BY <1>2, <2>1, AppendFacts
  <2>3. Static(name).name = name
    BY DEF Static
  <2> QED BY <1>2, <2>2, <2>3
<1>3. CASE \E kind \in {"param", "star"} : c \in Children(t, n, kind)
  BY <1>1, <1>3, KidIff
<1> QED BY <1>2, <1>3, Zenon DEF childOf

\* Bind keeps the parameters those of the node, a name's last place winning.
LEMMA BindFacts ==
  ASSUME NEW c \in Seq(NodeSegment), c # <<>>, NEW names, NEW params, Binds(Front(c), names, params)
  PROVE  Binds(c, names, Bind(params, c, names[Len(c)]))
<1> DEFINE n == Front(c)
           k == Len(c)
<1>1. /\ n \in Seq(NodeSegment) /\ Len(n) = k - 1 /\ k \in Nat \ {0}
      /\ \A i \in 1..(k - 1) : n[i] = c[i]
  BY FrontFacts
<1> HIDE DEF n
<1>2. DOMAIN n = 1..(k - 1) /\ DOMAIN c = 1..k /\ k \in DOMAIN c /\ k \notin DOMAIN n
      /\ DOMAIN c = DOMAIN n \cup {k}
  BY <1>1
<1>3. \A i \in DOMAIN n : n[i] = c[i] /\ i < k
  BY <1>1, <1>2
<1>4. Binds(n, names, params)
  BY DEF n
<1> HIDE DEF k
<1>5. CASE c[k].kind = "param"
  <2> DEFINE nm == c[k].name
             q == With(params, nm, names[k])
  <2>1. Bind(params, c, names[k]) = q
    BY <1>5 DEF Bind, Last, k
  <2>2. ParamsOf(c) = ParamsOf(n) \cup {k}
    BY <1>2, <1>3, <1>5 DEF ParamsOf
  <2>3. DOMAIN q = DOMAIN params \cup {nm} /\ q[nm] = names[k] /\ \A x \in DOMAIN params \ {nm} : q[x] = params[x]
    BY DEF With
  <2> HIDE DEF q
  <2>4. \A i \in ParamsOf(n) : i \in DOMAIN n /\ n[i] = c[i] /\ i < k
    BY <1>3 DEF ParamsOf
  <2>5. DOMAIN q = {c[i].name : i \in ParamsOf(c)}
    <3>1. DOMAIN params = {n[i].name : i \in ParamsOf(n)}
      BY <1>4, Zenon DEF Binds
    <3> QED BY <2>2, <2>3, <2>4, <3>1
  <2>6. ASSUME NEW i \in ParamsOf(c), \A j \in ParamsOf(c) : j > i => c[j].name # c[i].name
        PROVE  q[c[i].name] = names[i]
    <3>1. CASE i = k
      BY <2>3, <3>1
    <3>2. CASE i # k
      <4>1. i \in ParamsOf(n) /\ k > i /\ i \in Nat
        BY <1>1, <1>2, <2>2, <2>4, <3>2
      <4>2. c[i].name # nm
        BY <2>2, <2>6, <4>1, Zenon
      <4>3. \A j \in ParamsOf(n) : j > i => n[j].name # n[i].name
        BY <2>2, <2>4, <2>6, <4>1
      <4>4. params[n[i].name] = names[i] /\ n[i].name \in DOMAIN params
        BY <1>4, <4>1, <4>3, Zenon DEF Binds
      <4> QED BY <2>3, <2>4, <4>1, <4>2, <4>4
    <3> QED BY <3>1, <3>2
  <2>7. Binds(c, names, q)
    BY <2>5, <2>6 DEF Binds
  <2> QED BY <2>1, <2>7 DEF k
<1>6. CASE c[k].kind # "param"
  <2>1. Bind(params, c, names[k]) = params
    BY <1>6 DEF Bind, Last, k
  <2>2. ParamsOf(c) = ParamsOf(n) /\ \A i \in ParamsOf(n) : n[i] = c[i]
    BY <1>2, <1>3, <1>6 DEF ParamsOf
  <2>3. Binds(c, names, params)
    <3>1. DOMAIN params = {c[i].name : i \in ParamsOf(c)}
      <4>1. DOMAIN params = {n[i].name : i \in ParamsOf(n)}
        BY <1>4, Zenon DEF Binds
      <4> QED BY <2>2, <4>1
    <3>2. ASSUME NEW i \in ParamsOf(c), \A j \in ParamsOf(c) : j > i => c[j].name # c[i].name
          PROVE  params[c[i].name] = names[i]
      <4>1. \A j \in ParamsOf(n) : j > i => n[j].name # n[i].name
        BY <2>2, <3>2
      <4> QED BY <1>4, <2>2, <4>1 DEF Binds
    <3> QED BY <3>1, <3>2, Zenon DEF Binds
  <2> QED BY <2>1, <2>3 DEF k
<1> QED BY <1>5, <1>6

\* The state x of findRoute's walk after k of the names.
Walked(t, names, k, x) ==
  /\ x \in [found : BOOLEAN, at : {x.at}, params : {x.params}]
  /\ x.found => /\ x.at \in DOMAIN t /\ Len(x.at) = k
                /\ \A i \in 1..k : x.at[i].kind = "static" => x.at[i].name = names[i]
                /\ Binds(x.at, names, x.params)

\* A step of findRoute reads one more name, or finds nothing.
LEMMA WalkStep ==
  ASSUME NEW t, IsTree(t), NEW names, NEW k \in Nat \ {0}, NEW x, Walked(t, names, k - 1, x)
  PROVE  Walked(t, names, k, Step(t, x, names[k]))
<1> DEFINE name == names[k]
           next == IF x.found THEN childOf(t, x.at, name) ELSE {}
           c == CHOOSE c \in next : TRUE
           y == Step(t, x, name)
<1>1. CASE next = {}
  <2>1. y = [x EXCEPT !.found = FALSE]
    BY <1>1, Zenon DEF Step
  <2>2. PICK no \in BOOLEAN : no = FALSE
    BY Zenon
  <2> DEFINE z == [x EXCEPT !.found = no]
  <2>3. z.found = no /\ z.at = x.at /\ z.params = x.params /\ z \in [found : BOOLEAN, at : {x.at}, params : {x.params}]
    BY DEF Walked
  <2> HIDE DEF z, y
  <2>4. y = z
    BY <2>1, <2>2, Zenon DEF z
  <2>5. Walked(t, names, k, y)
    BY <2>2, <2>3, <2>4 DEF Walked
  <2> QED BY <2>5 DEF y
<1>2. CASE next # {}
  <2>1. x.found /\ c \in childOf(t, x.at, name)
    BY <1>2
  <2>2. y = [x EXCEPT !.at = c, !.params = Bind(x.params, c, name)]
    BY <1>2, Zenon DEF Step
  <2> HIDE DEF c, y
  <2>3. /\ x.at \in DOMAIN t /\ Len(x.at) = k - 1 /\ Binds(x.at, names, x.params)
        /\ \A i \in 1..(k - 1) : x.at[i].kind = "static" => x.at[i].name = names[i]
    BY <2>1 DEF Walked
  <2>4. c \in DOMAIN t /\ c # <<>> /\ Front(c) = x.at /\ (Last(c).kind = "static" => Last(c).name = name)
    BY <2>1, <2>3, ChildOfFacts
  <2>5. c \in Seq(NodeSegment)
    BY <2>4 DEF IsTree
  <2>6. Len(c) = k /\ \A i \in 1..(k - 1) : c[i] = x.at[i]
    <3>1. Len(x.at) = Len(c) - 1 /\ Len(c) \in Nat /\ \A i \in 1..(Len(c) - 1) : x.at[i] = c[i]
      BY <2>4, <2>5, FrontFacts
    <3>2. Len(c) = k
      BY <2>3, <3>1
    <3> QED BY <3>1, <3>2
  <2>7. \A i \in 1..k : c[i].kind = "static" => c[i].name = names[i]
    <3>1. c[k].kind = "static" => c[k].name = names[k]
      BY <2>4, <2>6 DEF Last
    <3>2. \A i \in 1..k : i = k \/ i \in 1..(k - 1)
      OBVIOUS
    <3> QED BY <2>3, <2>6, <3>1, <3>2
  <2> DEFINE q == Bind(x.params, c, name)
  <2>8. Binds(c, names, q)
    BY <2>3, <2>4, <2>5, <2>6, BindFacts
  <2> HIDE DEF q
  <2>9. y.found = x.found /\ y.at = c /\ y.params = q /\ y \in [found : BOOLEAN, at : {c}, params : {q}]
    BY <2>2, Zenon DEF Walked, q
  <2>10. Walked(t, names, k, y)
    BY <2>4, <2>6, <2>7, <2>8, <2>9 DEF Walked
  <2> QED BY <2>10 DEF y
<1> QED BY <1>1, <1>2

\* strings.Trim leaves a sequence of the path's segments, and the whole path
\* where no segment is empty.
LEMMA TrimFacts ==
  ASSUME NEW S, NEW req \in Seq(S)
  PROVE  /\ Trim(req) \in Seq(S \cup {""})
         /\ req # <<>> /\ (\A i \in DOMAIN req : req[i] # "") => Trim(req) = req
<1> DEFINE e == ""
           full == {i \in DOMAIN req : req[i] # e}
           lo == CHOOSE i \in full : \A j \in full : i <= j
           hi == CHOOSE i \in full : \A j \in full : i >= j
<1>1. Trim(req) = IF full = {} THEN <<e>> ELSE SubSeq(req, lo, hi)
  BY Zenon DEF Trim
<1> HIDE DEF e
<1>2. Len(req) \in Nat /\ DOMAIN req = 1..Len(req) /\ \A i \in DOMAIN req : req[i] \in S
  OBVIOUS
<1> SUFFICES /\ Trim(req) \in Seq(S \cup {e})
             /\ req # <<>> /\ (\A i \in DOMAIN req : req[i] # e) => Trim(req) = req
  BY Zenon DEF e
<1>3. CASE full = {}
  <2>1. Trim(req) = <<e>>
    BY <1>1, <1>3
  <2>2. <<e>> \in Seq(S \cup {e})
    OBVIOUS
  <2>3. req # <<>> => \E i \in DOMAIN req : req[i] = e
    BY <1>2, <1>3
  <2> QED BY <2>1, <2>2, <2>3
<1>4. CASE full # {}
  <2>1. Trim(req) = SubSeq(req, lo, hi)
    BY <1>1, <1>4, Zenon
  <2>2. full \in SUBSET Nat /\ full \in SUBSET (1..Len(req))
    BY <1>2
  <2>3. lo \in full /\ \A j \in full : lo <= j
    <3> HIDE DEF full
    <3>1. \E i \in full : \A j \in full : i <= j
      BY <1>4, <2>2, MinFacts, Zenon
    <3> QED BY <3>1
  <2>4. hi \in full /\ \A j \in full : hi >= j
    <3> HIDE DEF full
    <3>1. \E i \in full : \A j \in full : i >= j
      BY <1>2, <1>4, <2>2, MaxFacts, Zenon
    <3> QED BY <3>1
  <2> HIDE DEF lo, hi
  <2>5. lo \in 1..Len(req) /\ hi \in 1..Len(req)
    BY <2>2, <2>3, <2>4
  <2>6. SubSeq(req, lo, hi) \in Seq(S \cup {e})
    <3>1. \A i \in lo..hi : req[i] \in S \cup {e}
      BY <1>2, <2>5
    <3>2. lo \in Int /\ hi \in Int
      BY <1>2, <2>5
    <3> QED BY <3>1, <3>2, SubSeqProperties
  <2>7. ASSUME \A i \in DOMAIN req : req[i] # e PROVE SubSeq(req, lo, hi) = req
    <3>1. full = 1..Len(req)
      BY <1>2, <2>7
    <3>2. 1 \in full /\ Len(req) \in full
      BY <1>2, <1>4, <3>1
    <3>3. lo = 1 /\ hi = Len(req)
      BY <1>2, <2>3, <2>4, <2>5, <3>2
    <3> QED BY <3>3
  <2> QED BY <2>1, <2>6, <2>7
<1> QED BY <1>3, <1>4

\* What findRoute returns.
LEMMA FindFacts ==
  ASSUME RouterInv, NEW m, m \in DOMAIN trees, NEW req \in Seq(STRING), findRoute(m, req).found
  PROVE  LET x == findRoute(m, req)
         IN x.at \in DOMAIN trees[m] /\ Matches(x.at, Names(req)) /\ Binds(x.at, Names(req), x.params)
<1> DEFINE t == trees[m]
           names == Names(req)
           N == STRING \cup {""}
           root == [found |-> m \in DOMAIN trees, at |-> <<>>, params |-> NoParams]
           x == findRoute(m, req)
<1>1. IsTree(t)
  BY DEF RouterInv
<1>2. Walked(t, names, 0, root)
  <2>1. root.found \in BOOLEAN /\ root.at = <<>> /\ root.params = NoParams
        /\ root \in [found : BOOLEAN, at : {<<>>}, params : {NoParams}]
    OBVIOUS
  <2>2. <<>> \in DOMAIN t /\ Len(<<>>) = 0 /\ ParamsOf(<<>>) = {}
    BY <1>1 DEF IsTree, ParamsOf
  <2>3. Binds(<<>>, names, NoParams)
    BY <2>2 DEF Binds, NoParams
  <2> HIDE DEF root, names, t
  <2> QED BY <2>1, <2>2, <2>3 DEF Walked
<1> HIDE DEF N
<1>3. /\ names \in Seq(N) /\ Len(names) \in Nat
  <2>1. CASE req = <<>>
    BY <2>1, EmptySeq DEF Names
  <2>2. CASE req # <<>>
    <3>1. Trim(req) \in Seq(N)
      BY TrimFacts, Zenon DEF N
    <3>2. names \in Seq(N)
      BY <2>2, <3>1 DEF Names
    <3> HIDE DEF names
    <3> QED BY <3>2
  <2> QED BY <2>1, <2>2
<1>4. Walked(t, names, Len(names), x)
  <2>1. CASE req = <<>>
    <3>1. x = root /\ names = <<>>
      BY <2>1, Zenon DEF findRoute, Names
    <3>2. Len(names) = 0
      BY <3>1
    <3> HIDE DEF x, root, names
    <3> QED BY <1>2, <3>1, <3>2
  <2>2. CASE req # <<>>
    <3>1. names = Trim(req) /\ x = FoldLeft(LAMBDA y, name : Step(trees[m], y, name), root, Trim(req))
      BY <2>2, Zenon DEF findRoute, Names
    <3>2. PICK st : IsWalk(st, t, root, names)
      <4> HIDE DEF t, root, names
      <4> QED BY <1>3, WalkStates, Zenon
    <3>3. st[0] = root /\ st[Len(names)] = x /\ \A k \in 1..Len(names) : st[k] = Step(t, st[k - 1], names[k])
      BY <3>1, <3>2, Zenon DEF IsWalk
    <3> HIDE DEF t, root, names, x
    <3> DEFINE T == {k \in 0..Len(names) : Walked(t, names, k, st[k])}
    <3>4. 0 \in T
      BY <1>2, <1>3, <3>3
    <3>5. ASSUME NEW k \in 1..Len(names), k - 1 \in T PROVE k \in T
      <4>1. k \in 0..Len(names) /\ k \in Nat \ {0}
        BY <1>3
      <4>2. Walked(t, names, k, Step(t, st[k - 1], names[k]))
        BY <1>1, <3>5, <4>1, WalkStep
      <4> QED BY <3>3, <4>1, <4>2
    <3>6. Len(names) \in T
      <4> HIDE DEF T
      <4>1. 0..Len(names) \subseteq T
        BY <1>3, <3>4, <3>5, RangeInduction, Zenon
      <4> QED BY <1>3, <4>1
    <3> QED BY <3>3, <3>6
  <2> QED BY <2>1, <2>2
<1> HIDE DEF t, names, x
<1>5. x.found
  BY DEF x
<1>6. x.at \in DOMAIN t /\ Len(x.at) = Len(names) /\ Binds(x.at, names, x.params)
      /\ \A i \in 1..Len(names) : x.at[i].kind = "static" => x.at[i].name = names[i]
  BY <1>4, <1>5 DEF Walked
<1>7. x.at \in Seq(NodeSegment)
  BY <1>1, <1>6 DEF IsTree
<1>8. Matches(x.at, names)
  BY <1>6, <1>7 DEF Matches
<1> QED BY <1>6, <1>8 DEF t, names, x

\* The first k segments of n.
Pre(n, k) == SubSeq(n, 1, k)

\* The prefixes of a node, one segment after the other.
LEMMA PreFacts ==
  ASSUME NEW S, NEW n \in Seq(S)
  PROVE  /\ Pre(n, 0) = <<>> /\ Pre(n, Len(n)) = n
         /\ \A k \in 1..Len(n) : /\ Pre(n, k) # <<>> /\ Pre(n, k) \in Seq(S) /\ Len(Pre(n, k)) = k
                                 /\ Front(Pre(n, k)) = Pre(n, k - 1) /\ Last(Pre(n, k)) = n[k]
<1>1. Pre(n, 0) = <<>> /\ Pre(n, Len(n)) = n
  BY DEF Pre
<1>2. ASSUME NEW k \in 0..Len(n)
      PROVE  /\ Pre(n, k) \in Seq(S) /\ Len(Pre(n, k)) = k /\ \A i \in 1..k : Pre(n, k)[i] = n[i]
  <2>1. k \in Nat /\ \A i \in 1..k : n[i] \in S
    OBVIOUS
  <2> DEFINE f == SubSeq(n, 1, k)
             raw == IF 1 <= k THEN k - 1 + 1 ELSE 0
  <2>2. f \in Seq(S) /\ Len(f) = raw
    BY <2>1, SubSeqProperties
  <2>3. raw = k
    BY <2>1
  <2>4. \A i \in 1..k : f[i] = n[i]
    BY <2>1
  <2> HIDE DEF f, raw
  <2>5. f \in Seq(S) /\ Len(f) = k
    BY <2>2, <2>3, Zenon
  <2> QED BY <2>4, <2>5 DEF Pre, f
<1>3. ASSUME NEW k \in 1..Len(n)
      PROVE  /\ Pre(n, k) # <<>> /\ Pre(n, k) \in Seq(S) /\ Len(Pre(n, k)) = k
             /\ Front(Pre(n, k)) = Pre(n, k - 1) /\ Last(Pre(n, k)) = n[k]
  <2> DEFINE a == Pre(n, k)
             b == Pre(n, k - 1)
  <2>1. k \in 0..Len(n) /\ k - 1 \in 0..Len(n) /\ k \in Nat \ {0}
    OBVIOUS
  <2>2. a \in Seq(S) /\ Len(a) = k /\ \A i \in 1..k : a[i] = n[i]
    BY <1>2, <2>1
  <2>3. b \in Seq(S) /\ Len(b) = k - 1 /\ \A i \in 1..(k - 1) : b[i] = n[i]
    BY <1>2, <2>1
  <2> HIDE DEF a, b
  <2>4. a # <<>>
    BY <2>1, <2>2
  <2>5. Front(a) \in Seq(S) /\ Len(Front(a)) = k - 1 /\ \A i \in 1..(k - 1) : Front(a)[i] = a[i]
    BY <2>2, <2>4, FrontFacts
  <2>6. \A i \in 1..(k - 1) : Front(a)[i] = b[i]
    BY <2>1, <2>2, <2>3, <2>5
  <2>7. Front(a) = b
    BY <2>3, <2>5, <2>6, SeqEqual
  <2>8. Last(a) = n[k]
    BY <2>1, <2>2 DEF Last
  <2> QED BY <2>2, <2>4, <2>7, <2>8 DEF a, b
<1> QED BY <1>1, <1>3

\* Every prefix of a node is a node.
LEMMA PrefixNodes ==
  ASSUME NEW t, IsTree(t), NEW n \in DOMAIN t
  PROVE  \A k \in 0..Len(n) : Pre(n, k) \in DOMAIN t
<1>1. n \in Seq(NodeSegment) /\ Len(n) \in Nat
  BY DEF IsTree
<1> DEFINE T == {j \in 0..Len(n) : Pre(n, Len(n) - j) \in DOMAIN t}
<1>2. 0 \in T
  <2>1. 0 \in 0..Len(n) /\ Len(n) - 0 = Len(n)
    BY <1>1
  <2> QED BY <1>1, <2>1, PreFacts
<1>3. ASSUME NEW j \in 1..Len(n), j - 1 \in T PROVE j \in T
  <2> DEFINE k == Len(n) - (j - 1)
  <2>1. k \in 1..Len(n) /\ k - 1 = Len(n) - j /\ j \in 0..Len(n)
    BY <1>1
  <2>2. Pre(n, k) \in DOMAIN t
    BY <1>3
  <2> HIDE DEF k
  <2>3. Pre(n, k) # <<>> /\ Front(Pre(n, k)) = Pre(n, k - 1)
    BY <1>1, <2>1, PreFacts
  <2>4. Pre(n, k - 1) \in DOMAIN t
    BY <2>2, <2>3 DEF IsTree
  <2> QED BY <2>1, <2>4
<1>4. 0..Len(n) \subseteq T
  <2> HIDE DEF T
  <2> QED BY <1>1, <1>2, <1>3, RangeInduction, Zenon
<1> SUFFICES ASSUME NEW k \in 0..Len(n) PROVE Pre(n, k) \in DOMAIN t
  OBVIOUS
<1>5. Len(n) - k \in 0..Len(n) /\ Len(n) - (Len(n) - k) = k
  BY <1>1
<1>6. Len(n) - k \in T
  BY <1>4, <1>5, Zenon
<1> QED BY <1>5, <1>6

\* The name that leads to a child by its segment.
NameOf(seg) == IF seg.kind = "static" THEN seg.name ELSE Fresh

\* The name of a node leads from its parent to it and to no other: the static
\* child comes first, and there is one parameter or wildcard at most.
LEMMA ChildOfName ==
  ASSUME NEW t, IsTree(t), NEW c \in DOMAIN t, c # <<>>
  PROVE  childOf(t, Front(c), NameOf(Last(c))) = {c}
<1> DEFINE a == Front(c)
           seg == Last(c)
           static == Append(a, Static(NameOf(seg)))
<1>1. DOMAIN t \subseteq Seq(NodeSegment) /\ c \in Seq(NodeSegment)
  BY DEF IsTree
<1>2. a \in Seq(NodeSegment) /\ seg \in NodeSegment /\ c = Append(a, seg) /\ a \in DOMAIN t
  BY <1>1, FrontFacts, Zenon DEF IsTree
<1> HIDE DEF a, seg
<1>3. CASE seg.kind = "static"
  <2>1. seg = Static(NameOf(seg))
    BY <1>2, <1>3, Zenon DEF NodeSegment, Segment, NameOf, Static
  <2>2. static = c
    BY <1>2, <2>1
  <2>3. static \in DOMAIN t
    BY <2>2
  <2> HIDE DEF static
  <2>4. childOf(t, a, NameOf(seg)) = {static}
    BY <2>3, Zenon DEF childOf, static
  <2> QED BY <2>2, <2>4 DEF a, seg
<1>4. CASE seg.kind # "static"
  <2>1. static \notin DOMAIN t
    <3> SUFFICES ASSUME static \in DOMAIN t PROVE FALSE
      OBVIOUS
    <3> DEFINE S == NodeSegment \cup {Static(Fresh)}
    <3>1. a \in Seq(S) /\ Static(Fresh) \in S
      <4>1. NodeSegment \subseteq S
        OBVIOUS
      <4> QED BY <1>2, <4>1, SeqMonotonic
    <3> HIDE DEF S
    <3>2. static = Append(a, Static(Fresh))
      BY <1>4 DEF NameOf
    <3> HIDE DEF static
    <3>3. static # <<>> /\ Last(static) = Static(Fresh)
      BY <3>1, <3>2, AppendFacts
    <3>4. Last(static) \in NodeSegment
      BY <1>1, <3>3, FrontFacts
    <3> QED BY <3>3, <3>4, Zenon DEF NodeSegment
  <2>2. \A d \in DOMAIN t \ {<<>>} : Front(d) = a /\ Last(d).kind # "static" => d = c
    BY <1>4 DEF IsTree, a, seg
  <2>3. \A kind, d : d \in Children(t, a, kind) <=> d \in DOMAIN t /\ d # <<>> /\ Front(d) = a /\ Last(d).kind = kind
    BY <1>1, <1>2, KidIff
  <2>4. seg.kind \in {"param", "star"}
    BY <1>2, <1>4, Zenon DEF NodeSegment, Segment
  <2>5. \A kind : kind # "static" => Children(t, a, kind) = IF kind = seg.kind THEN {c} ELSE {}
    BY <2>2, <2>3 DEF a, seg
  <2>6. CASE seg.kind = "param"
    <3>1. Children(t, a, "param") = {c}
      BY <2>5, <2>6
    <3> QED BY <2>1, <3>1 DEF childOf, a, seg
  <2>7. CASE seg.kind = "star"
    <3>1. Children(t, a, "param") = {} /\ Children(t, a, "star") = {c}
      BY <2>5, <2>7
    <3> QED BY <2>1, <3>1 DEF childOf, a, seg
  <2> QED BY <2>4, <2>6, <2>7
<1> QED BY <1>3, <1>4

\* The path of the names that lead to the node n.
PathOf(n) == [j \in DOMAIN n |-> NameOf(n[j])]

\* The state x of the walk to n, after k names.
LedTo(n, k, x) ==
  x \in [found : BOOLEAN, at : {x.at}, params : {x.params}] /\ x.found /\ x.at = Pre(n, k)

\* A step of findRoute along the names of the node n.
LEMMA LedStep ==
  ASSUME NEW t, IsTree(t), NEW n \in DOMAIN t, NEW k \in 1..Len(n), NEW x, LedTo(n, k - 1, x)
  PROVE  LedTo(n, k, Step(t, x, NameOf(n[k])))
<1> DEFINE c == Pre(n, k)
           name == NameOf(n[k])
           y == Step(t, x, name)
<1>1. n \in Seq(NodeSegment) /\ k \in 0..Len(n)
  BY DEF IsTree
<1>2. c \in DOMAIN t /\ c # <<>> /\ Front(c) = x.at /\ Last(c) = n[k]
  BY <1>1, PreFacts, PrefixNodes DEF LedTo
<1> HIDE DEF c
<1>3. childOf(t, x.at, name) = {c}
  BY <1>2, ChildOfName
<1> HIDE DEF name
<1> DEFINE next == IF x.found THEN childOf(t, x.at, name) ELSE {}
           d == CHOOSE d \in next : TRUE
<1>4. next = {c}
  BY <1>3 DEF LedTo
<1>5. y = IF next = {} THEN [x EXCEPT !.found = FALSE] ELSE [x EXCEPT !.at = d, !.params = Bind(x.params, d, name)]
  BY Zenon DEF Step
<1> HIDE DEF next, y
<1>6. d = c
  BY <1>4
<1> HIDE DEF d
<1> DEFINE q == Bind(x.params, c, name)
<1>7. y = [x EXCEPT !.at = c, !.params = q]
  BY <1>4, <1>5, <1>6
<1> HIDE DEF q
<1>8. y.found = x.found /\ y.at = c /\ y.params = q /\ y \in [found : BOOLEAN, at : {c}, params : {q}]
  BY <1>7, Zenon DEF LedTo
<1>9. LedTo(n, k, y)
  BY <1>8 DEF LedTo, c
<1> QED BY <1>9 DEF y, name

\* findRoute finds every node of a tree by the names that lead to it.
LEMMA FindLeads ==
  ASSUME RouterInv, NEW m, m \in DOMAIN trees, NEW n \in DOMAIN trees[m]
  PROVE  findRoute(m, PathOf(n)).found /\ findRoute(m, PathOf(n)).at = n
<1> DEFINE t == trees[m]
           req == PathOf(n)
           N == {NameOf(n[j]) : j \in DOMAIN n}
           root == [found |-> m \in DOMAIN trees, at |-> <<>>, params |-> NoParams]
           x == findRoute(m, req)
<1>1. IsTree(t)
  BY DEF RouterInv
<1>2. n \in Seq(NodeSegment) /\ Len(n) \in Nat /\ DOMAIN n = 1..Len(n)
  BY <1>1 DEF IsTree
<1>3. req \in Seq(N) /\ Len(req) = Len(n) /\ DOMAIN req = DOMAIN n /\ \A j \in DOMAIN n : req[j] = NameOf(n[j])
  BY <1>2 DEF PathOf
<1>a. \A j \in DOMAIN n : n[j] \in NodeSegment
  BY <1>2
<1>4. \A j \in DOMAIN n : NameOf(n[j]) # ""
  <2> SUFFICES ASSUME NEW j \in DOMAIN n, NameOf(n[j]) = "" PROVE FALSE
    BY Zenon
  <2> DEFINE e == ""
  <2>1. Fresh # e
    BY Zenon DEF Fresh
  <2>3. n[j] # Static(e) /\ n[j] \in Segment
    BY <1>a, Zenon DEF NodeSegment
  <2>4. NameOf(n[j]) = e
    BY Zenon
  <2> HIDE DEF e
  <2> QED BY <2>1, <2>3, <2>4, Zenon DEF NameOf, Segment, Static
<1>5. LedTo(n, 0, root)
  <2>1. root.found /\ root.at = <<>> /\ root \in [found : BOOLEAN, at : {<<>>}, params : {NoParams}]
        /\ root.params = NoParams
    BY Zenon
  <2> HIDE DEF root
  <2> QED BY <1>2, <2>1, PreFacts DEF LedTo
<1>6. LedTo(n, Len(n), x)
  <2>1. CASE n = <<>>
    <3>1. req = <<>> /\ Len(n) = 0
      BY <1>2, <1>3, <2>1
    <3>2. x = root
      BY <3>1, Zenon DEF findRoute
    <3> HIDE DEF x, root
    <3> QED BY <1>5, <3>1, <3>2
  <2>2. CASE n # <<>>
    <3>1. req # <<>>
      BY <1>2, <1>3, <2>2
    <3>2. Trim(req) = req
      <4> HIDE DEF req, N
      <4>1. \A i \in DOMAIN req : req[i] # ""
        BY <1>3, <1>4, Zenon
      <4> QED BY <1>3, <3>1, <4>1, TrimFacts, Zenon
    <3>3. x = FoldLeft(LAMBDA y, name : Step(t, y, name), root, req)
      BY <3>1, <3>2, Zenon DEF findRoute
    <3>4. PICK st : IsWalk(st, t, root, req)
      <4> HIDE DEF t, root, req, N
      <4> QED BY <1>3, WalkStates, Zenon
    <3>5. st[0] = root /\ st[Len(req)] = x /\ \A k \in 1..Len(req) : st[k] = Step(t, st[k - 1], req[k])
      BY <3>3, <3>4, Zenon DEF IsWalk
    <3> HIDE DEF t, root, req, x
    <3> DEFINE T == {k \in 0..Len(n) : LedTo(n, k, st[k])}
    <3>6. 0 \in T
      BY <1>2, <1>5, <3>5
    <3>7. ASSUME NEW k \in 1..Len(n), k - 1 \in T PROVE k \in T
      <4>1. k \in 0..Len(n) /\ req[k] = NameOf(n[k])
        BY <1>2, <1>3
      <4>2. n \in DOMAIN t
        BY DEF t
      <4>3. LedTo(n, k, Step(t, st[k - 1], NameOf(n[k])))
        BY <1>1, <3>7, <4>2, LedStep
      <4>4. st[k] = Step(t, st[k - 1], req[k])
        BY <1>3, <3>5
      <4> QED BY <4>1, <4>3, <4>4
    <3>8. Len(n) \in T
      <4> HIDE DEF T
      <4>1. 0..Len(n) \subseteq T
        BY <1>2, <3>6, <3>7, RangeInduction, Zenon
      <4> QED BY <1>2, <4>1
    <3> QED BY <1>3, <3>5, <3>8
  <2> QED BY <2>1, <2>2
<1> HIDE DEF x
<1>7. x.found /\ x.at = n
  BY <1>2, <1>6, PreFacts DEF LedTo
<1> QED BY <1>7 DEF x

\* Where a handler is found, the invariant has the route of the node.
LEMMA InvFound == RouterInv => FoundMatches
<1> SUFFICES ASSUME RouterInv, NEW m \in Method, NEW req \in Request, Hit(m, req)
             PROVE  LET x == findRoute(m, req)
                    IN \E i \in DOMAIN routes :
                         /\ routes[i].method = m /\ routes[i].handler = trees[m][x.at]
                         /\ Matches(routes[i].segs, Names(req))
                         /\ Binds(routes[i].segs, Names(req), x.params)
  BY Zenon DEF FoundMatches
<1> DEFINE x == findRoute(m, req)
<1>1. x.found /\ trees[m][x.at] # NoHandler
  BY Zenon DEF Hit
<1>2. m \in DOMAIN trees
  <2> SUFFICES ASSUME m \notin DOMAIN trees PROVE FALSE
    OBVIOUS
  <2>1. x = [found |-> m \in DOMAIN trees, at |-> <<>>, params |-> NoParams]
    BY Zenon DEF findRoute
  <2>2. x.found = (m \in DOMAIN trees)
    BY <2>1
  <2> QED BY <1>1, <2>2, Zenon
<1>3. req \in Seq(STRING)
  BY ConstAssumption
<1>4. x.at \in DOMAIN trees[m] /\ Matches(x.at, Names(req)) /\ Binds(x.at, Names(req), x.params)
  BY <1>1, <1>2, <1>3, FindFacts, Zenon
<1> HIDE DEF x
<1>5. PICK i \in DOMAIN routes : routes[i] = [method |-> m, segs |-> x.at, handler |-> trees[m][x.at]]
  BY <1>1, <1>2, <1>4 DEF RouterInv
<1>6. routes[i].method = m /\ routes[i].segs = x.at /\ routes[i].handler = trees[m][x.at]
  BY <1>5
<1> QED BY <1>4, <1>6, Zenon DEF x

\* Where the node of a route holds its handler, findRoute finds it.
LEMMA InvKept == RouterInv => RoutesKept
<1> SUFFICES ASSUME RouterInv PROVE RoutesKept
  OBVIOUS
<1>1. TreesAreTrees
  <2> SUFFICES ASSUME NEW m \in DOMAIN trees, NEW n \in DOMAIN trees[m]
               PROVE  /\ n # <<>> => Front(n) \in DOMAIN trees[m]
                      /\ \A a, b \in Children(trees[m], n, "param") \cup Children(trees[m], n, "star") : a = b
    BY DEF TreesAreTrees
  <2>1. IsTree(trees[m])
    BY DEF RouterInv
  <2>2. \A kind, d : d \in Children(trees[m], n, kind) <=>
          d \in DOMAIN trees[m] /\ d # <<>> /\ Front(d) = n /\ Last(d).kind = kind
    BY <2>1, KidIff DEF IsTree
  <2> QED BY <2>1, <2>2, Zenon DEF IsTree
<1>2. ASSUME NEW i \in DOMAIN routes, Holds(trees, routes[i])
      PROVE  LET x == findRoute(routes[i].method, PathOf(routes[i].segs))
             IN x.found /\ trees[routes[i].method][x.at] = routes[i].handler
  <2>1. /\ routes[i].method \in DOMAIN trees /\ routes[i].segs \in DOMAIN trees[routes[i].method]
        /\ trees[routes[i].method][routes[i].segs] = routes[i].handler
    BY <1>2 DEF Holds
  <2> QED BY <2>1, FindLeads
<1>3. StaticKept
  <2> SUFFICES ASSUME NEW i \in DOMAIN routes, AllStatic(routes[i].segs)
               PROVE  LET x == findRoute(routes[i].method, [j \in DOMAIN routes[i].segs |-> routes[i].segs[j].name])
                      IN x.found /\ trees[routes[i].method][x.at] = routes[i].handler
    BY Zenon DEF StaticKept
  <2>1. [j \in DOMAIN routes[i].segs |-> routes[i].segs[j].name] = PathOf(routes[i].segs)
    BY DEF PathOf, NameOf, AllStatic
  <2>2. Holds(trees, routes[i])
    BY DEF RouterInv
  <2> QED BY <1>2, <2>1, <2>2, Zenon
<1>4. LatestServes
  <2> DEFINE r == Last(routes)
             path == [j \in DOMAIN r.segs |-> IF r.segs[j].kind = "static" THEN r.segs[j].name ELSE Fresh]
  <2>1. path = PathOf(r.segs)
    BY Zenon DEF PathOf, NameOf
  <2> SUFFICES ASSUME routes # <<>>, r.handler = calls
               PROVE  findRoute(r.method, path).found /\ trees[r.method][findRoute(r.method, path).at] = r.handler
    BY Zenon DEF LatestServes
  <2>2. Len(routes) \in DOMAIN routes /\ r = routes[Len(routes)] /\ Holds(trees, r)
    BY DEF RouterInv, Last
  <2> HIDE DEF r, path
  <2>3. LET x == findRoute(r.method, PathOf(r.segs)) IN x.found /\ trees[r.method][x.at] = r.handler
    BY <1>2, <2>2, Zenon
  <2> QED BY <2>1, <2>3, Zenon
<1> QED BY <1>1, <1>3, <1>4 DEF RoutesKept

\* The trees are trees, each of their handlers belongs to a registered route,
\* and the static routes and the latest one hold their handlers, after every
\* sequence of calls of Get, Post and Options, the rejected ones included.
THEOREM RouterInvariant == Spec => []RouterInv
BY RouterInit, RouterNext, PTL DEF Spec

\* No request is ever led to the handler of a route that its path does not
\* match, nor given other path parameters than the segments at their places.
THEOREM RouterFinds == Spec => []FoundMatches
BY RouterInvariant, InvFound, PTL

\* addRoute keeps the trees trees, never loses a route of static segments, and
\* what it has just registered answers.
THEOREM RouterKeeps == Spec => []RoutesKept
BY RouterInvariant, InvKept, PTL

(***************************************************************************)
(* The cache of the static files, the Contexts and the handlers.           *)
(***************************************************************************)
\* LRU Add: no name twice, and no more entries than the capacity.
LEMMA CacheAddFacts ==
  ASSUME NEW c, Sound(c), NEW entry \in Entry
  PROVE  Sound(CacheAdd(c, entry))
<1> DEFINE old == {i \in DOMAIN c : c[i].name = entry.name}
           rest == IF old = {} THEN c ELSE RemoveAt(c, CHOOSE i \in old : TRUE)
           all == <<entry>> \o rest
           n == IF Len(all) > CacheSize THEN CacheSize ELSE Len(all)
<1>1. c \in Seq(Entry) /\ Len(c) \in Nat /\ DOMAIN c = 1..Len(c) /\ CacheSize \in Nat
  BY ConstAssumption DEF Sound
<1>2. /\ rest \in Seq(Entry) /\ Len(rest) \in Nat
      /\ \A i \in 1..Len(rest) : rest[i].name # entry.name
      /\ \A i, j \in 1..Len(rest) : rest[i].name = rest[j].name => i = j
  <2>1. CASE old = {}
    BY <1>1, <2>1 DEF Sound
  <2>2. CASE old # {}
    <3>1. PICK k \in old : rest = SubSeq(c, 1, k - 1) \o SubSeq(c, k + 1, Len(c))
      BY <2>2, Zenon DEF RemoveAt
    <3>2. k \in 1..Len(c) /\ c[k].name = entry.name
      BY <1>1
    <3> HIDE DEF rest, old
    <3> DEFINE lo == SubSeq(c, 1, k - 1)
               hi == SubSeq(c, k + 1, Len(c))
    <3>3. lo \in Seq(Entry) /\ Len(lo) = k - 1 /\ \A i \in 1..(k - 1) : lo[i] = c[i]
      BY <1>1, <3>2, SubSeqProperties
    <3>4. hi \in Seq(Entry) /\ Len(hi) = Len(c) - k /\ \A i \in 1..(Len(c) - k) : hi[i] = c[k + i]
      <4>1. \A i \in (k + 1)..Len(c) : c[i] \in Entry
        BY <1>1, <3>2
      <4>2. /\ hi \in Seq(Entry) /\ Len(hi) = (IF k + 1 <= Len(c) THEN Len(c) - (k + 1) + 1 ELSE 0)
            /\ \A i \in 1..(Len(c) - (k + 1) + 1) : hi[i] = c[(k + 1) + i - 1]
        BY <1>1, <3>2, <4>1, SubSeqProperties
      <4> HIDE DEF hi
      <4>3. Len(hi) = Len(c) - k /\ Len(c) - (k + 1) + 1 = Len(c) - k
        <5>1. k \in Nat /\ Len(c) \in Nat /\ k <= Len(c)
          BY <1>1, <3>2
        <5>2. Len(c) - (k + 1) + 1 = Len(c) - k
          BY <5>1
        <5>3. CASE k + 1 <= Len(c)
          BY <4>2, <5>2, <5>3
        <5>4. CASE k = Len(c)
          BY <4>2, <5>1, <5>2, <5>4
        <5> QED BY <5>1, <5>3, <5>4
      <4>4. ASSUME NEW i \in 1..(Len(c) - k) PROVE hi[i] = c[k + i]
        <5>1. hi[i] = c[(k + 1) + i - 1]
          BY <4>2, <4>3, <4>4
        <5>2. (k + 1) + i - 1 = k + i
          BY <1>1, <3>2
        <5> QED BY <5>1, <5>2
      <4> QED BY <4>2, <4>3, <4>4
    <3>a. rest = lo \o hi
      BY <3>1
    <3> HIDE DEF lo, hi
    <3>5. rest \in Seq(Entry) /\ Len(rest) = Len(c) - 1
      <4>1. lo \o hi \in Seq(Entry) /\ Len(lo \o hi) = Len(lo) + Len(hi)
        BY <3>3, <3>4, ConcatProperties, Zenon
      <4>2. (k - 1) + (Len(c) - k) = Len(c) - 1
        BY <1>1, <3>2
      <4> QED BY <3>a, <3>3, <3>4, <4>1, <4>2
    <3>6. ASSUME NEW i \in 1..(Len(c) - 1) PROVE rest[i] = IF i < k THEN c[i] ELSE c[i + 1]
      <4>1. rest[i] = IF i <= Len(lo) THEN lo[i] ELSE hi[i - Len(lo)]
        BY <1>1, <3>a, <3>2, <3>3, <3>4, <3>6, ConcatProperties
      <4> QED BY <1>1, <3>2, <3>3, <3>4, <4>1
    <3>7. \A i, j \in 1..Len(c) : c[i].name = c[j].name => i = j
      BY <1>1 DEF Sound
    <3>8. \A i \in 1..Len(rest) : rest[i].name # entry.name
      BY <1>1, <3>2, <3>5, <3>6, <3>7
    <3>9. ASSUME NEW i \in 1..Len(rest), NEW j \in 1..Len(rest), rest[i].name = rest[j].name PROVE i = j
      BY <1>1, <3>2, <3>5, <3>6, <3>7, <3>9
    <3> QED BY <1>1, <3>5, <3>8, <3>9
  <2> QED BY <2>1, <2>2, Zenon
<1> HIDE DEF rest, old
<1>3. /\ all \in Seq(Entry) /\ Len(all) = Len(rest) + 1
      /\ \A i \in 1..(Len(rest) + 1) : all[i] = IF i = 1 THEN entry ELSE rest[i - 1]
  BY <1>2
<1>4. ASSUME NEW i \in 1..Len(all), NEW j \in 1..Len(all), all[i].name = all[j].name PROVE i = j
  <2> HIDE DEF all
  <2>1. CASE i = 1
    BY <1>2, <1>3, <1>4, <2>1
  <2>2. CASE j = 1
    BY <1>2, <1>3, <1>4, <2>2
  <2>3. CASE i # 1 /\ j # 1
    <3>1. i - 1 \in 1..Len(rest) /\ j - 1 \in 1..Len(rest)
      BY <1>2, <1>3, <2>3
    <3>2. rest[i - 1].name = rest[j - 1].name
      BY <1>2, <1>3, <1>4, <2>3
    <3>3. i - 1 = j - 1
      BY <1>2, <3>1, <3>2
    <3> QED BY <1>2, <1>3, <3>3
  <2> QED BY <2>1, <2>2, <2>3
<1> HIDE DEF all
<1>5. /\ SubSeq(all, 1, n) \in Seq(Entry) /\ Len(SubSeq(all, 1, n)) = n /\ n <= CacheSize
      /\ \A i \in 1..n : SubSeq(all, 1, n)[i] = all[i]
  BY <1>1, <1>2, <1>3, SubSeqProperties
<1>6. CacheAdd(c, entry) = SubSeq(all, 1, n)
  BY Zenon DEF CacheAdd, all, rest, old
<1>7. n \in Nat /\ n <= Len(all)
  BY <1>1, <1>2, <1>3
<1> QED BY <1>4, <1>5, <1>6, <1>7 DEF Sound

\* The statuses and the bodies of the handlers.
Statuses == {0, 200, 400, 404, 500}
Bodies == {"", "data", "upload", "file", "noFile", "badPath", "small", "big", "serverError", "notFound"}

\* The Contexts of one request.
Context(R, P, H) ==
  [status : Statuses, data : Bodies, route : R, params : P, handler : H, cache : Seq(Entry),
   wire : {<<>>} \cup (Statuses \X Bodies), logged : Nat, panic : BOOLEAN]

\* A response kept in the Context, or written, leaves the cache alone.
LEMMA StoredFacts ==
  ASSUME NEW R, NEW P, NEW H, NEW c \in Context(R, P, H), NEW s \in Statuses, NEW d \in Bodies
  PROVE  /\ Stored(c, s, d) \in Context(R, P, H)
         /\ Stored(c, s, d).cache = c.cache /\ Stored(c, s, d).logged = c.logged
         /\ Written(c, s, d) \in Context(R, P, H)
         /\ Written(c, s, d).cache = c.cache /\ Written(c, s, d).logged = c.logged
  BY Zenon DEF Context, Stored, Written

\* A panic leaves the Context as it was.
LEMMA PanicsFacts ==
  ASSUME NEW R, NEW P, NEW H, NEW c \in Context(R, P, H)
  PROVE  /\ Panics(c) \in Context(R, P, H)
         /\ Panics(c).cache = c.cache /\ Panics(c).logged = c.logged /\ Panics(c).panic
  BY Zenon DEF Context, Panics

\* A Context with another cache.
LEMMA WithCache ==
  ASSUME NEW R, NEW P, NEW H, NEW c \in Context(R, P, H), NEW x \in Seq(Entry)
  PROVE  /\ [c EXCEPT !.cache = x] \in Context(R, P, H)
         /\ [c EXCEPT !.cache = x].cache = x /\ [c EXCEPT !.cache = x].logged = c.logged
  BY DEF Context

\* Only files up to maxSize, and failed reads, enter the cache.
LEMMA ToCacheFacts ==
  ASSUME NEW c, Sound(c), NEW name \in HasExt, NEW file \in Files
  PROVE  Sound(ToCache(c, name, file))
<1>1. CASE file = "big"
  BY <1>1 DEF ToCache
<1>2. CASE file # "big"
  <2>1. [name |-> name, data |-> IF file = "unreadable" THEN "" ELSE file] \in Entry
    BY <1>2, Zenon DEF Entry, Files
  <2> QED BY <1>2, <2>1, CacheAddFacts, Zenon DEF ToCache
<1> QED BY <1>1, <1>2

\* A Context with a sound cache, not yet logged.
Unlogged(c, R, P, H) == c \in Context(R, P, H) /\ Sound(c.cache) /\ c.logged = 0

\* The handlers leave an unlogged Context with a sound cache.
LEMMA UnloggedFacts ==
  ASSUME NEW R, NEW P, NEW H, NEW c, Unlogged(c, R, P, H), NEW s \in Statuses, NEW d \in Bodies
  PROVE  Unlogged(Stored(c, s, d), R, P, H) /\ Unlogged(Written(c, s, d), R, P, H)
<1>1. c \in Context(R, P, H) /\ Sound(c.cache) /\ c.logged = 0
  BY DEF Unlogged
<1>2. /\ Stored(c, s, d) \in Context(R, P, H)
      /\ Stored(c, s, d).cache = c.cache /\ Stored(c, s, d).logged = c.logged
      /\ Written(c, s, d) \in Context(R, P, H)
      /\ Written(c, s, d).cache = c.cache /\ Written(c, s, d).logged = c.logged
  BY <1>1, StoredFacts
<1>3. Sound(Stored(c, s, d).cache) /\ Sound(Written(c, s, d).cache)
  BY <1>1, <1>2
<1> QED BY <1>1, <1>2, <1>3 DEF Unlogged

\* The statuses and bodies that the handlers use.
LEMMA BodiesFacts ==
  /\ 200 \in Statuses /\ 400 \in Statuses /\ 404 \in Statuses /\ 500 \in Statuses
  /\ "data" \in Bodies /\ "upload" \in Bodies /\ "file" \in Bodies /\ "noFile" \in Bodies
  /\ "badPath" \in Bodies /\ "serverError" \in Bodies /\ "notFound" \in Bodies
  BY DEF Bodies, Statuses

\* StaticResourceHandler keeps the cache sound, on each of its returns.
LEMMA StaticFileFacts ==
  ASSUME NEW R, NEW P, NEW H, NEW c, Unlogged(c, R, P, H), NEW file \in Files
  PROVE  Unlogged(StaticFile(c, file), R, P, H)
<1> DEFINE name == c.params["file"]
           hit == {i \in DOMAIN c.cache : c.cache[i].name = name}
<1> USE DEF Unlogged
<1>1. CASE "file" \notin DOMAIN c.params
  <2>1. StaticFile(c, file) = Stored(c, 400, "badPath")
    BY <1>1 DEF StaticFile
  <2>2. Unlogged(Stored(c, 400, "badPath"), R, P, H)
    <3> HIDE DEF Unlogged
    <3>1. 400 \in Statuses /\ "badPath" \in Bodies
      BY BodiesFacts
    <3> QED BY <3>1, UnloggedFacts
  <2> QED BY <2>1, <2>2
<1>2. CASE "file" \in DOMAIN c.params /\ name \notin HasExt
  BY <1>2, PanicsFacts DEF StaticFile
<1>3. CASE "file" \in DOMAIN c.params /\ name \in HasExt /\ hit # {}
  <2> DEFINE e == c.cache[CHOOSE i \in hit : TRUE]
             d == Stored(c, 200, e.data)
  <2>1. e \in Entry
    BY <1>3 DEF Sound
  <2>2. StaticFile(c, file) = [d EXCEPT !.cache = CacheAdd(@, e)]
    BY <1>3, Zenon DEF StaticFile
  <2> HIDE DEF e
  <2>3. e.data \in Bodies
    BY <2>1, Zenon DEF Entry, Bodies
  <2>4. d \in Context(R, P, H) /\ d.cache = c.cache /\ d.logged = c.logged
    <3>1. c \in Context(R, P, H) /\ 200 \in Statuses
      BY BodiesFacts
    <3> QED BY <2>3, <3>1, StoredFacts
  <2>5. StaticFile(c, file) = [d EXCEPT !.cache = CacheAdd(c.cache, e)]
    BY <2>2, <2>4
  <2>6. Sound(CacheAdd(c.cache, e)) /\ CacheAdd(c.cache, e) \in Seq(Entry)
    BY <2>1, CacheAddFacts DEF Sound
  <2> HIDE DEF d
  <2> QED BY <2>4, <2>5, <2>6, WithCache
<1>4. CASE "file" \in DOMAIN c.params /\ name \in HasExt /\ hit = {}
  <2> DEFINE read == [c EXCEPT !.cache = ToCache(@, name, file)]
  <2>1. Sound(ToCache(c.cache, name, file)) /\ ToCache(c.cache, name, file) \in Seq(Entry)
    BY <1>4, ToCacheFacts DEF Sound
  <2>2. Unlogged(read, R, P, H)
    BY <2>1, WithCache
  <2>3. StaticFile(c, file) = IF file = "unreadable" THEN Stored(read, 500, "serverError")
                              ELSE Stored(read, 200, file)
    BY <1>4, Zenon DEF StaticFile
  <2> HIDE DEF read
  <2>4. file # "unreadable" => file \in Bodies
    BY Zenon DEF Files, Bodies
  <2>5. Unlogged(Stored(read, 500, "serverError"), R, P, H)
    <3>1. 500 \in Statuses /\ "serverError" \in Bodies
      BY BodiesFacts
    <3> HIDE DEF Unlogged
    <3> QED BY <2>2, <3>1, UnloggedFacts
  <2>6. file # "unreadable" => Unlogged(Stored(read, 200, file), R, P, H)
    <3> HIDE DEF Unlogged
    <3>1. 200 \in Statuses
      BY BodiesFacts
    <3> QED BY <2>2, <2>4, <3>1, UnloggedFacts
  <2> HIDE DEF Unlogged
  <2> QED BY <2>3, <2>5, <2>6
<1> QED BY <1>1, <1>2, <1>3, <1>4

\* Every handler keeps the cache sound, and one that panics leaves the panic.
LEMMA HandlerFacts ==
  ASSUME NEW R, NEW P, NEW H, NEW c, Unlogged(c, R, P, H), NEW does \in Behaviours
  PROVE  /\ Unlogged(Handler(c, does), R, P, H)
         /\ does[1] = "panic" => Handler(c, does).panic
<1>1. CASE \E s \in {200, 500}, ok \in BOOLEAN : does = <<"json", s, ok>>
  <2>1. PICK s \in {200, 500}, ok \in BOOLEAN : does = <<"json", s, ok>>
    BY <1>1
  <2>2. \/ Handler(c, does) = Written(Stored(c, s, "data"), s, "data")
        \/ Handler(c, does) = c
    BY <2>1 DEF Handler, RespJSON
  <2>3. Unlogged(Written(Stored(c, s, "data"), s, "data"), R, P, H)
    <3>1. s \in Statuses /\ "data" \in Bodies
      BY BodiesFacts
    <3>2. Unlogged(Stored(c, s, "data"), R, P, H)
      BY <3>1, UnloggedFacts
    <3> QED BY <3>1, <3>2, UnloggedFacts
  <2> QED BY <2>1, <2>2, <2>3
<1>2. CASE \E ok \in BOOLEAN : does = <<"render", ok>>
  <2>1. \/ Handler(c, does) = Stored(c, 200, "data")
        \/ Handler(c, does) = [c EXCEPT !.status = 500]
    BY <1>2 DEF Handler, Render
  <2>2. Unlogged([c EXCEPT !.status = 500], R, P, H)
    BY DEF Unlogged, Context, Statuses
  <2>3. Unlogged(Stored(c, 200, "data"), R, P, H)
    <3>1. 200 \in Statuses /\ "data" \in Bodies
      BY BodiesFacts
    <3> QED BY <3>1, UnloggedFacts
  <2> QED BY <1>2, <2>1, <2>2, <2>3
<1>3. CASE \E ok \in BOOLEAN : does = <<"upload", ok>>
  <2>1. \E s \in Statuses : Handler(c, does) = Stored(c, s, "upload")
    BY <1>3 DEF Handler, Upload, Statuses
  <2>2. \A s \in Statuses : Unlogged(Stored(c, s, "upload"), R, P, H)
    <3>1. "upload" \in Bodies
      BY BodiesFacts
    <3> QED BY <3>1, UnloggedFacts
  <2> QED BY <1>3, <2>1, <2>2
<1>4. CASE \E ok \in BOOLEAN : does = <<"download", ok>>
  <2>1. \/ Handler(c, does) = Written(c, 200, "file")
        \/ Handler(c, does) = Stored(c, 400, "noFile")
    BY <1>4 DEF Handler, Download
  <2>2. Unlogged(Written(c, 200, "file"), R, P, H)
    <3>1. 200 \in Statuses /\ "file" \in Bodies
      BY BodiesFacts
    <3> QED BY <3>1, UnloggedFacts
  <2>3. Unlogged(Stored(c, 400, "noFile"), R, P, H)
    <3>1. 400 \in Statuses /\ "noFile" \in Bodies
      BY BodiesFacts
    <3> QED BY <3>1, UnloggedFacts
  <2>4. does[1] # "panic"
    BY <1>4
  <2> QED BY <2>1, <2>2, <2>3, <2>4
<1>5. CASE \E file \in Files : does = <<"static", file>>
  BY <1>5, StaticFileFacts DEF Handler
<1>6. CASE does = <<"panic">>
  BY <1>6, PanicsFacts DEF Handler, Unlogged
<1> QED BY <1>1, <1>2, <1>3, <1>4, <1>5, <1>6 DEF Behaviours

\* What a handler that does so may have sent.
Sent(does, wire) ==
  /\ does[1] \notin {"json", "download"} => wire = <<>>
  /\ wire # <<>> => wire[2] \in {"data", "file"}

\* What was sent with one Context was sent with the other.
SameWire(a, c) == a.wire = c.wire

\* What becomes of wire when the Context changes.
Wires(c) ==
  /\ \A s, d : SameWire(Stored(c, s, d), c)
  /\ \A s, d : Written(Stored(c, s, d), s, d).wire = <<s, d>> /\ Written(c, s, d).wire = <<s, d>>
  /\ SameWire(Panics(c), c)
  /\ \A s, d, x : SameWire([Stored(c, s, d) EXCEPT !.cache = x], c)
  /\ \A s, d, x : SameWire(Stored([c EXCEPT !.cache = x], s, d), c)

\* What a handler stores in the Context is not sent.
LEMMA WireFacts ==
  ASSUME NEW R, NEW P, NEW H, NEW c \in Context(R, P, H)
  PROVE  Wires(c)
  BY Zenon DEF Context, Stored, Written, Panics, Wires, SameWire

\* StaticResourceHandler sends nothing.
LEMMA StaticWire ==
  ASSUME NEW R, NEW P, NEW H, NEW c \in Context(R, P, H), NEW file
  PROVE  SameWire(StaticFile(c, file), c)
<1> DEFINE name == c.params["file"]
           hit == {i \in DOMAIN c.cache : c.cache[i].name = name}
           e == c.cache[CHOOSE i \in hit : TRUE]
           d == Stored(c, 200, e.data)
           read == [c EXCEPT !.cache = ToCache(@, name, file)]
<1>0. Wires(c)
  BY WireFacts
<1>a. \A s, b : SameWire(Stored(c, s, b), c)
  BY <1>0, Zenon DEF Wires
<1>b. SameWire(Panics(c), c)
  BY <1>0, Zenon DEF Wires
<1>c. \A s, b, x : SameWire([Stored(c, s, b) EXCEPT !.cache = x], c)
  BY <1>0, Zenon DEF Wires
<1>d. \A s, b, x : SameWire(Stored([c EXCEPT !.cache = x], s, b), c)
  BY <1>0, Zenon DEF Wires
<1>1. CASE "file" \notin DOMAIN c.params
  <2>1. StaticFile(c, file) = Stored(c, 400, "badPath")
    BY <1>1 DEF StaticFile
  <2> QED BY <1>a, <2>1, Zenon
<1>2. CASE "file" \in DOMAIN c.params /\ name \notin HasExt
  <2>1. StaticFile(c, file) = Panics(c)
    BY <1>2, Zenon DEF StaticFile
  <2> QED BY <1>b, <2>1, Zenon
<1>3. CASE "file" \in DOMAIN c.params /\ name \in HasExt /\ hit # {}
  <2>1. StaticFile(c, file) = [d EXCEPT !.cache = CacheAdd(@, e)]
    BY <1>3, Zenon DEF StaticFile
  <2>2. PICK x : StaticFile(c, file) = [d EXCEPT !.cache = x]
    <3> HIDE DEF d, e
    <3>1. [d EXCEPT !.cache = CacheAdd(@, e)] = [d EXCEPT !.cache = CacheAdd(d.cache, e)]
      OBVIOUS
    <3> QED BY <2>1, <3>1, Zenon
  <2>3. SameWire([d EXCEPT !.cache = x], c)
    <3> HIDE DEF e
    <3> QED BY <1>c, Zenon
  <2> HIDE DEF d
  <2> QED BY <2>2, <2>3, Zenon
<1>4. CASE "file" \in DOMAIN c.params /\ name \in HasExt /\ hit = {}
  <2>1. PICK x : read = [c EXCEPT !.cache = x]
    <3>1. read = [c EXCEPT !.cache = ToCache(c.cache, name, file)]
      OBVIOUS
    <3> QED BY <3>1, Zenon
  <2>2. \/ StaticFile(c, file) = Stored(read, 500, "serverError")
        \/ StaticFile(c, file) = Stored(read, 200, file)
    BY <1>4, Zenon DEF StaticFile
  <2> HIDE DEF read
  <2>3. \A s, b : SameWire(Stored([c EXCEPT !.cache = x], s, b), c)
    BY <1>d, Zenon
  <2>4. \A s, b : SameWire(Stored(read, s, b), c)
    BY <2>1, <2>3
  <2> QED BY <2>2, <2>4, Zenon
<1> QED BY <1>1, <1>2, <1>3, <1>4

\* What each handler sends, if nothing was sent before.
LEMMA HandlerWire ==
  ASSUME NEW R, NEW P, NEW H, NEW c \in Context(R, P, H), c.wire = <<>>, NEW does \in Behaviours
  PROVE  Sent(does, Handler(c, does).wire)
<1> DEFINE w == Handler(c, does).wire
<1> SUFFICES Sent(does, w)
  OBVIOUS
<1>0. Wires(c)
  BY WireFacts
<1>a. \A s, d : Stored(c, s, d).wire = <<>>
  BY <1>0, Zenon DEF Wires, SameWire
<1>b. \A s, d : Written(Stored(c, s, d), s, d).wire = <<s, d>> /\ Written(c, s, d).wire = <<s, d>>
  BY <1>0, Zenon DEF Wires
<1>c. Panics(c).wire = <<>>
  BY <1>0, Zenon DEF Wires, SameWire
<1>1. CASE \E s \in {200, 500}, ok \in BOOLEAN : does = <<"json", s, ok>>
  <2>1. PICK s \in {200, 500}, ok \in BOOLEAN : does = <<"json", s, ok>>
    BY <1>1
  <2>2. \/ Handler(c, does) = Written(Stored(c, s, "data"), s, "data")
        \/ Handler(c, does) = c
    BY <2>1 DEF Handler, RespJSON
  <2>3. w = <<>> \/ w = <<s, "data">>
    BY <1>b, <2>2
  <2> HIDE DEF w
  <2> QED BY <2>1, <2>3 DEF Sent
<1>2. CASE \E ok \in BOOLEAN : does = <<"render", ok>>
  <2>1. \/ Handler(c, does) = Stored(c, 200, "data")
        \/ Handler(c, does) = [c EXCEPT !.status = 500]
    BY <1>2 DEF Handler, Render
  <2>2. w = <<>>
    <3>1. CASE Handler(c, does) = Stored(c, 200, "data")
      BY <1>a, <3>1
    <3>2. CASE Handler(c, does) = [c EXCEPT !.status = 500]
      BY <3>2 DEF Context
    <3> QED BY <2>1, <3>1, <3>2
  <2> HIDE DEF w
  <2> QED BY <2>2 DEF Sent
<1>3. CASE \E ok \in BOOLEAN : does = <<"upload", ok>>
  <2>1. \E s \in Statuses : Handler(c, does) = Stored(c, s, "upload")
    BY <1>3 DEF Handler, Upload, Statuses
  <2>2. w = <<>>
    BY <1>a, <2>1
  <2> HIDE DEF w
  <2> QED BY <2>2 DEF Sent
<1>4. CASE \E ok \in BOOLEAN : does = <<"download", ok>>
  <2>1. \/ Handler(c, does) = Written(c, 200, "file")
        \/ Handler(c, does) = Stored(c, 400, "noFile")
    BY <1>4 DEF Handler, Download
  <2>2. w = <<>> \/ w = <<200, "file">>
    BY <1>a, <1>b, <2>1
  <2> HIDE DEF w
  <2> QED BY <1>4, <2>2 DEF Sent
<1>5. CASE \E file \in Files : does = <<"static", file>>
  <2>1. PICK file \in Files : does = <<"static", file>>
    BY <1>5
  <2>2. Handler(c, does) = StaticFile(c, file)
    BY <2>1 DEF Handler
  <2>3. SameWire(StaticFile(c, file), c)
    BY StaticWire
  <2>4. w = <<>>
    BY <2>2, <2>3, Zenon DEF SameWire
  <2> HIDE DEF w
  <2> QED BY <2>4 DEF Sent
<1>6. CASE does = <<"panic">>
  <2>1. Handler(c, does) = Panics(c)
    BY <1>6 DEF Handler
  <2>2. w = <<>>
    BY <1>c, <2>1
  <2> HIDE DEF w
  <2> QED BY <2>2 DEF Sent
<1> QED BY <1>1, <1>2, <1>3, <1>4, <1>5, <1>6 DEF Behaviours

(***************************************************************************)
(* The middlewares and serve.                                              *)
(***************************************************************************)
\* The Contexts that a chain may make of ctx.
Ctx(ctx) ==
  [status : {ctx.status, 500}, data : {ctx.data, "recovered", "page"}, route : {ctx.route}, params : {ctx.params}, handler : {ctx.handler},
   cache : {ctx.cache}, wire : {ctx.wire}, logged : Nat, panic : BOOLEAN]

\* What one middleware does to the Context of the one inside it.
LEMMA WrapFacts ==
  ASSUME NEW ctx, NEW y \in Ctx(ctx), NEW m
  PROVE  /\ Wrap(m, y) \in Ctx(ctx)
         /\ m = "recover" => ~Wrap(m, y).panic
         /\ ~y.panic => ~Wrap(m, y).panic /\ Wrap(m, y).status = y.status
         /\ y.panic => Wrap(m, y).panic \/ Wrap(m, y).status = 500
         /\ Wrap(m, y).logged = IF m = "accesslog" THEN y.logged + 1 ELSE y.logged
         /\ m = "errhdl" /\ ~Wrap(m, y).panic /\ Wrap(m, y).status \in ErrCodes => Wrap(m, y).data = "page"
<1>1. CASE m \in {"recover", "recoverNoLog"}
  <2>1. PICK again \in BOOLEAN : again = (m = "recoverNoLog")
    BY Zenon
  <2>2. ~y.panic => Wrap(m, y) = y
    BY <1>1 DEF Wrap, Recovered
  <2>3. CASE y.panic
    <3>1. Wrap(m, y) = [y EXCEPT !.panic = again, !.data = "recovered", !.status = 500]
      BY <1>1, <2>1, <2>3 DEF Wrap, Recovered
    <3>2. /\ Wrap(m, y).panic = again /\ Wrap(m, y).status = 500 /\ Wrap(m, y).logged = y.logged
      BY <3>1 DEF Ctx
    <3>3. Wrap(m, y) \in Ctx(ctx)
      <4> DEFINE y1 == [y EXCEPT !.panic = again]
                 y2 == [y1 EXCEPT !.data = "recovered"]
      <4>2. y1 \in Ctx(ctx)
        BY DEF Ctx
      <4>3. y2 \in Ctx(ctx)
        <5> HIDE DEF y1
        <5> QED BY <4>2 DEF Ctx
      <4>4. [y2 EXCEPT !.status = 500] \in Ctx(ctx)
        <5> HIDE DEF y2
        <5> QED BY <4>3 DEF Ctx
      <4> QED BY <3>1, <4>4, Zenon
    <3> QED BY <1>1, <2>1, <2>3, <3>2, <3>3
  <2>4. CASE ~y.panic
    BY <1>1, <2>2, <2>4 DEF Ctx
  <2> QED BY <2>3, <2>4
<1>2. CASE m = "errhdl"
  <2>1. CASE ~y.panic /\ y.status \in ErrCodes
    <3>1. Wrap(m, y) = [y EXCEPT !.data = "page"]
      BY <1>2, <2>1 DEF Wrap, ErrorPage
    <3> QED BY <1>2, <2>1, <3>1 DEF Ctx
  <2>2. CASE ~(~y.panic /\ y.status \in ErrCodes)
    <3>1. Wrap(m, y) = y
      BY <1>2, <2>2 DEF Wrap, ErrorPage
    <3> QED BY <1>2, <2>2, <3>1 DEF Ctx
  <2> QED BY <2>1, <2>2
<1>3. CASE m = "accesslog"
  BY <1>3 DEF Ctx, Wrap, AccessLogged
<1>4. CASE m \notin {"recover", "recoverNoLog", "errhdl", "accesslog"}
  BY <1>4 DEF Ctx, Wrap
<1> QED BY <1>1, <1>2, <1>3, <1>4

\* What a whole chain does: by induction over the middlewares, the last first.
LEMMA ChainFacts ==
  ASSUME mdls \in Seq(STRING), NEW ctx, ctx \in Ctx(ctx), ctx.logged = 0
  PROVE  /\ Chain(ctx) \in Ctx(ctx)
         /\ Has("recover") => ~Chain(ctx).panic /\ (ctx.panic => Chain(ctx).status = 500)
         /\ Chain(ctx).logged = Cardinality({i \in DOMAIN mdls : mdls[i] = "accesslog"})
         /\ mdls # <<>> /\ Head(mdls) = "errhdl" /\ ~Chain(ctx).panic /\ Chain(ctx).status \in ErrCodes
              => Chain(ctx).data = "page"
<1> DEFINE S == DOMAIN mdls
           Logs(s) == {i \in s : mdls[i] = "accesslog"}
<1>1. IsFiniteSet(S) /\ S \subseteq Nat /\ S = 1..Len(mdls) /\ Len(mdls) \in Nat
  <2>1. S = 1..Len(mdls) /\ Len(mdls) \in Nat
    OBVIOUS
  <2>2. IsFiniteSet(1..Len(mdls))
    BY <2>1, FS_Interval
  <2> QED BY <2>1, <2>2
<1>2. PICK it : IsChain(it, ctx, Ctx(ctx))
  <2>1. \A m, y : y \in Ctx(ctx) => Wrap(m, y) \in Ctx(ctx)
    BY WrapFacts
  <2> QED BY <1>1, <2>1, ChainIter
<1>a. /\ it \in [SUBSET S -> Ctx(ctx)] /\ Chain(ctx) = it[S]
      /\ \A s \in SUBSET S : it[s] = IF s = {} THEN ctx ELSE Wrap(mdls[Min(s)], it[s \ {Min(s)}])
  BY <1>2, Zenon DEF IsChain
<1> DEFINE Good(s) ==
             /\ (\E i \in s : mdls[i] = "recover") => ~it[s].panic
             /\ ctx.panic => it[s].panic \/ it[s].status = 500
             /\ it[s].logged = Cardinality(Logs(s))
           T == {s \in SUBSET S : Good(s)}
<1>3. {} \in T
  <2>1. it[{}] = ctx /\ Logs({}) = {}
    BY <1>a, Zenon
  <2>2. Cardinality(Logs({})) = 0
    BY <2>1, FS_EmptySet, Zenon
  <2> QED BY <2>1, <2>2
<1>4. ASSUME NEW s \in SUBSET S, s # {}, \A u \in SUBSET s : u # s => u \in T
      PROVE  s \in T
  <2> DEFINE i == Min(s)
             u == s \ {i}
  <2>1. i \in s /\ i \in S /\ u \in SUBSET s /\ u # s /\ u \in SUBSET S
    BY <1>1, <1>4, MinFacts
  <2>2. Good(u) /\ it[u] \in Ctx(ctx) /\ it[s] = Wrap(mdls[i], it[u])
    <3>1. u \in T
      BY <1>4, <2>1, Zenon
    <3>2. it[s] = Wrap(mdls[i], it[u])
      BY <1>a, <1>4
    <3>3. it[u] \in Ctx(ctx)
      BY <1>a, <2>1
    <3> QED BY <3>1, <3>2, <3>3
  <2> HIDE DEF i
  <2>3. Cardinality(Logs(s)) = Cardinality(Logs(u)) + (IF mdls[i] = "accesslog" THEN 1 ELSE 0)
    <3>1. Logs(s) = (IF mdls[i] = "accesslog" THEN Logs(u) \cup {i} ELSE Logs(u)) /\ i \notin Logs(u)
      BY <2>1
    <3>2. IsFiniteSet(Logs(u)) /\ Cardinality(Logs(u)) \in Nat
      BY <1>1, <2>1, FS_Subset, FS_CardinalityType
    <3> HIDE DEF Logs
    <3>3. CASE mdls[i] = "accesslog"
      <4>1. Cardinality(Logs(s)) = Cardinality(Logs(u) \cup {i})
        BY <3>1, <3>3, Zenon
      <4> QED BY <3>1, <3>2, <3>3, <4>1, FS_AddElement, Zenon
    <3>4. CASE mdls[i] # "accesslog"
      <4>1. Cardinality(Logs(s)) = Cardinality(Logs(u))
        BY <3>1, <3>4, Zenon
      <4> QED BY <3>2, <3>4, <4>1
    <3> QED BY <3>3, <3>4
  <2>4. it[s].logged = Cardinality(Logs(s))
    <3>1. it[s].logged = IF mdls[i] = "accesslog" THEN it[u].logged + 1 ELSE it[u].logged
      BY <2>2, WrapFacts
    <3>2. it[u].logged \in Nat /\ it[u].logged = Cardinality(Logs(u))
      BY <2>2 DEF Ctx
    <3> QED BY <2>3, <3>1, <3>2
  <2>5. (\E j \in s : mdls[j] = "recover") => ~it[s].panic
    BY <2>2, WrapFacts
  <2>6. ctx.panic => it[s].panic \/ it[s].status = 500
    BY <2>2, WrapFacts
  <2> QED BY <2>4, <2>5, <2>6
<1>5. Good(S)
  <2>1. SUBSET S \subseteq T
    <3> HIDE DEF S, T
    <3>1. Inductive(T, S)
      BY <1>3, <1>4 DEF Inductive
    <3> QED BY <1>1, <3>1, SubsetInduction
  <2> QED BY <2>1, Zenon
<1>6. mdls # <<>> /\ Head(mdls) = "errhdl" /\ ~Chain(ctx).panic /\ Chain(ctx).status \in ErrCodes
        => Chain(ctx).data = "page"
  <2> SUFFICES ASSUME mdls # <<>>, Head(mdls) = "errhdl", ~Chain(ctx).panic, Chain(ctx).status \in ErrCodes
               PROVE  Chain(ctx).data = "page"
    OBVIOUS
  <2>1. S # {} /\ 1 \in S /\ mdls[1] = "errhdl"
    BY <1>1
  <2>2. Min(S) = 1
    <3>1. Min(S) \in S /\ Min(S) <= 1
      BY <1>1, <2>1, MinFacts
    <3> QED BY <1>1, <3>1
  <2>3. Chain(ctx) = Wrap("errhdl", it[S \ {1}]) /\ it[S \ {1}] \in Ctx(ctx)
    BY <1>a, <2>1, <2>2
  <2> QED BY <2>3, WrapFacts
<1> QED BY <1>a, <1>5, <1>6 DEF Has

\* A Context is one that a chain may make of itself.
LEMMA ShapeFacts ==
  ASSUME NEW R, NEW P, NEW H, NEW c \in Context(R, P, H)
  PROVE  c \in Ctx(c)
  BY DEF Context, Ctx

\* serve on a fresh Context: what the handler leaves, or the 404.
LEMMA ServeFacts ==
  ASSUME Sound(cache), NEW m, NEW req, NEW does, Hit(m, req) => does \in Behaviours
  PROVE  LET c == serve(NewContext, m, req, does)
         IN  /\ c \in Ctx(c) /\ Sound(c.cache) /\ c.logged = 0
             /\ Hit(m, req) /\ does[1] = "panic" => c.panic
             /\ Hit(m, req) => Sent(does, c.wire)
             /\ ~Hit(m, req) => c.wire = <<>>
<1> DEFINE x == findRoute(m, req)
           h == trees[m][x.at]
           R == {<<>>, x.at}
           P == {NoParams, x.params}
           H == {NoHandler, h}
           c == serve(NewContext, m, req, does)
           Goal == /\ c \in Ctx(c) /\ Sound(c.cache) /\ c.logged = 0
                   /\ Hit(m, req) /\ does[1] = "panic" => c.panic
                   /\ Hit(m, req) => Sent(does, c.wire)
                   /\ ~Hit(m, req) => c.wire = <<>>
<1>1. Unlogged(NewContext, R, P, H)
  <2>1. /\ NewContext.cache = cache /\ NewContext.logged = 0 /\ 0 \in Statuses /\ "" \in Bodies
        /\ cache \in Seq(Entry)
    BY DEF NewContext, Statuses, Bodies, Sound
  <2>2. NewContext \in Context(R, P, H)
    <3> HIDE DEF x, h
    <3> QED BY <2>1, Zenon DEF NewContext, Context
  <2> QED BY <2>1, <2>2, Zenon DEF Unlogged
<1>2. ASSUME Hit(m, req) PROVE Goal
  <2> DEFINE c1 == [NewContext EXCEPT !.params = x.params, !.route = x.at, !.handler = h]
  <2>1. c = Handler(c1, does)
    BY <1>2 DEF serve
  <2>2. Unlogged(c1, R, P, H)
    <3> HIDE DEF x, h
    <3> QED BY <1>1, Zenon DEF Unlogged, Context
  <2>3. Unlogged(c, R, P, H) /\ (does[1] = "panic" => c.panic)
    <3> HIDE DEF c, c1, R, P, H
    <3> QED BY <1>2, <2>1, <2>2, HandlerFacts
  <2>4. c1.wire = <<>> /\ c1 \in Context(R, P, H)
    <3>1. c1.wire = <<>>
      BY DEF NewContext
    <3> HIDE DEF c1, R, P, H
    <3> QED BY <2>2, <3>1 DEF Unlogged
  <2>5. Sent(does, c.wire)
    <3> HIDE DEF c, c1, R, P, H
    <3> QED BY <1>2, <2>1, <2>4, HandlerWire
  <2> HIDE DEF c, R, P, H
  <2> QED BY <1>2, <2>3, <2>5, ShapeFacts DEF Unlogged
<1>3. ASSUME ~Hit(m, req) PROVE Goal
  <2>1. c = Stored(NewContext, 404, "notFound")
    BY <1>3 DEF serve, Stored
  <2>2. Unlogged(c, R, P, H)
    <3> HIDE DEF c, R, P, H
    <3>1. 404 \in Statuses /\ "notFound" \in Bodies
      BY BodiesFacts
    <3> QED BY <1>1, <2>1, <3>1, UnloggedFacts
  <2>3. c.wire = <<>>
    BY <2>1 DEF Stored, NewContext
  <2> HIDE DEF c, R, P, H
  <2> QED BY <1>3, <2>2, <2>3, ShapeFacts DEF Unlogged
<1> QED BY <1>2, <1>3

\* A server starts with an empty cache and no request.
LEMMA ServeInit == Init => ServeInv
<1> SUFFICES ASSUME Init PROVE ServeInv
  OBVIOUS
<1>1. mdls \in Seq(STRING) /\ cache = <<>> /\ out.done = FALSE
  BY ConstAssumption DEF Init
<1>2. Sound(cache)
  BY <1>1, ConstAssumption DEF Sound
<1>3. ChainContains
  BY <1>1 DEF ChainContains, RecoverContains, ErrorPageLast, LoggedOnce, OnlyHandlersWrite
<1> QED BY <1>1, <1>2, <1>3 DEF ServeInv

\* A request, and its end, preserve the invariant.
LEMMA ServeNext == ServeInv /\ [Next]_vars => ServeInv'
<1> SUFFICES ASSUME ServeInv, [Next]_vars PROVE ServeInv'
  OBVIOUS
<1> USE DEF ServeInv
<1>1. CASE UNCHANGED <<mdls, cache, out>>
  BY <1>1 DEF ChainContains, RecoverContains, ErrorPageLast, LoggedOnce, OnlyHandlersWrite, Has, Sound
<1>2. CASE ServeHTTP
  <2>1. PICK m \in Method, req \in Request : \E does \in IF Hit(m, req) THEN Behaviours ELSE {<<"none">>} :
         LET ctx == Chain(serve(NewContext, m, req, does))
         IN out' = [done |-> TRUE, does |-> does[1], ctx |-> ctx] /\ cache' = ctx.cache
    BY <1>2, Zenon DEF ServeHTTP
  <2>2. PICK does \in IF Hit(m, req) THEN Behaviours ELSE {<<"none">>} :
         LET ctx == Chain(serve(NewContext, m, req, does))
         IN out' = [done |-> TRUE, does |-> does[1], ctx |-> ctx] /\ cache' = ctx.cache
    BY <2>1, Zenon
  <2> DEFINE c == serve(NewContext, m, req, does)
  <2>3. /\ c \in Ctx(c) /\ Sound(c.cache) /\ c.logged = 0
        /\ Hit(m, req) /\ does[1] = "panic" => c.panic
        /\ Hit(m, req) => Sent(does, c.wire)
        /\ ~Hit(m, req) => c.wire = <<>>
    BY <2>2, ServeFacts
  <2>4. ~Hit(m, req) => does[1] # "panic"
    BY <2>2
  <2>5. /\ out'.done /\ out'.does = does[1] /\ out'.ctx = Chain(c) /\ cache' = Chain(c).cache /\ mdls' = mdls
    BY <1>2, <2>2 DEF ServeHTTP
  <2> HIDE DEF c
  <2>6. /\ Chain(c) \in Ctx(c)
        /\ Has("recover") => ~Chain(c).panic /\ (c.panic => Chain(c).status = 500)
        /\ Chain(c).logged = Cardinality({i \in DOMAIN mdls : mdls[i] = "accesslog"})
        /\ mdls # <<>> /\ Head(mdls) = "errhdl" /\ ~Chain(c).panic /\ Chain(c).status \in ErrCodes
             => Chain(c).data = "page"
    BY <2>3, ChainFacts
  <2>7. Sound(cache')
    <3>1. cache' = c.cache
      BY <2>5, <2>6 DEF Ctx
    <3> QED BY <2>3, <3>1
  <2>8. Sound(cache)'
    BY <2>7 DEF Sound
  <2>9. RecoverContains'
    BY <2>3, <2>4, <2>5, <2>6 DEF RecoverContains, Has
  <2>10. ErrorPageLast'
    BY <2>5, <2>6 DEF ErrorPageLast
  <2>11. LoggedOnce'
    BY <2>5, <2>6 DEF LoggedOnce
  <2>12. OnlyHandlersWrite'
    <3>1. out'.ctx.wire = c.wire
      BY <2>5, <2>6 DEF Ctx
    <3>2. Sent(does, c.wire)
      BY <2>3 DEF Sent
    <3> QED BY <2>5, <3>1, <3>2 DEF OnlyHandlersWrite, Sent
  <2> QED BY <2>5, <2>8, <2>9, <2>10, <2>11, <2>12 DEF ChainContains
<1>3. CASE EndOfRequest
  BY <1>3 DEF EndOfRequest, ChainContains, RecoverContains, ErrorPageLast, LoggedOnce, OnlyHandlersWrite, Sound
<1> QED BY <1>1, <1>2, <1>3 DEF Next, Register, Start, vars

\* The cache stays sound, and each request leaves the chain as it should.
THEOREM ServeInvariant == Spec => []ServeInv
  BY ServeInit, ServeNext, PTL DEF Spec

\* For every list of middlewares: recover with its Log lets no panic through,
\* an outermost errhdl has the last word on RespData, accesslog logs each
\* request once, and nothing but a handler's own write is sent.
THEOREM ChainHolds == Spec => []ChainContains
<1>1. ServeInv => ChainContains
  BY DEF ServeInv
<1> QED BY <1>1, ServeInvariant, PTL

\* The cache of the static files never exceeds its capacity, has no file
\* twice and none above maxSize.
THEOREM CacheStaysBounded == Spec => []CacheBounded
<1>1. ServeInv => CacheBounded
  <2> SUFFICES ASSUME Sound(cache) PROVE CacheBounded
    BY DEF ServeInv
  <2>1. \A i \in DOMAIN cache : cache[i] \in Entry
    BY DEF Sound
  <2>2. \A i \in DOMAIN cache : cache[i].data # "big"
    BY <2>1, Zenon DEF Entry
  <2> QED BY <2>2 DEF Sound, CacheBounded
<1> QED BY <1>1, ServeInvariant, PTL
===============================================================================
