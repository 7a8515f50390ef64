---------------------------- MODULE ServiceProofs ----------------------------
(***************************************************************************)
(* Proofs about two parts that have a model of their own and share no      *)
(* state: the messages a service exchanges and the way it stops.  First    *)
(* MessageCodec, for every set of messages that the format can carry; its  *)
(* loops run over sequences of any length, so its proofs begin with        *)
(* induction.  Then GracefulShutdown, for every number of servers, every   *)
(* set of requests and callbacks and every choice of the timeouts.         *)
(***************************************************************************)
EXTENDS GracefulShutdown, MessageCodec, FiniteSetTheorems, SequenceTheorems, TLAPS

(***************************************************************************)
(* Induction, with a set in the place of a predicate.                      *)
(***************************************************************************)
\* Induction along 0..n.
LEMMA RangeInduction ==
  ASSUME NEW n \in Nat, NEW T, 0 \in T, \A k \in 1..n : k - 1 \in T => k \in T
  PROVE  0..n \subseteq T
<1> DEFINE Less == {ss \in Nat \X Nat : ss[1] < ss[2]}
           bad == (0..n) \ T
<1> SUFFICES ASSUME bad # {} PROVE FALSE
  OBVIOUS
<1>1. IsWellFoundedOn(Less, Nat)
  BY NatLessThanWellFounded, Zenon DEF OpToRel
<1>2. bad \subseteq Nat
  OBVIOUS
<1>3. PICK x \in bad : \A y \in bad : <<y, x>> \notin Less
  <2> HIDE DEF Less, bad
  <2> QED BY <1>1, <1>2, WFMin, Zenon
<1>4. x \in 1..n /\ x - 1 \in 0..n
  OBVIOUS
<1>5. x - 1 \in bad
  BY <1>4
<1>6. <<x - 1, x>> \in Less
  BY <1>4
<1> QED BY <1>3, <1>5, <1>6, Zenon

\* T has the empty set, and every set whose proper subsets it has.
Inductive(T, S) ==
  /\ {} \in T
  /\ \A s \in SUBSET S : s # {} /\ (\A u \in SUBSET s : u # s => u \in T) => s \in T

\* A set that is Inductive has every subset of a finite set.
LEMMA SubsetInduction ==
  ASSUME NEW S, IsFiniteSet(S), NEW T, Inductive(T, S)
  PROVE  SUBSET S \subseteq T
<1> SUFFICES ASSUME (SUBSET S) \ T # {} PROVE FALSE
  OBVIOUS
<1>1. IsWellFoundedOn(StrictSubsetOrdering(S), SUBSET S)
  BY FS_StrictSubsetOrderingWellFounded, FS_FiniteSubsetsOfFinite, Zenon
<1>2. PICK s \in (SUBSET S) \ T : \A u \in (SUBSET S) \ T : <<u, s>> \notin StrictSubsetOrdering(S)
  BY <1>1, WFMin, Zenon
<1> QED BY <1>2, Zenon DEF StrictSubsetOrdering, Inductive

\* A run of a loop: state k comes from state k - 1 by step k.
IsRun(g, n, b, step) == g[0] = b /\ \A k \in 1..n : g[k] = step[k][g[k - 1]]

\* Every loop with a fixed number of rounds has a run.
LEMMA RunExists ==
  ASSUME NEW n \in Nat, NEW B, NEW b \in B, NEW step \in [1..n -> [B -> B]]
  PROVE  \E g \in [0..n -> B] : IsRun(g, n, b, step)
<1> DEFINE T == {m \in 0..n : \E g \in [0..m -> B] : IsRun(g, m, b, step)}
<1>1. 0 \in T
  <2>1. IsRun([i \in 0..0 |-> b], 0, b, step) /\ 0 \in 0..n
    BY DEF IsRun
  <2>2. [i \in 0..0 |-> b] \in [0..0 -> B]
    OBVIOUS
  <2> QED BY <2>1, <2>2, Zenon
<1>2. ASSUME NEW k \in 1..n, k - 1 \in T PROVE k \in T
  <2>1. PICK g \in [0..(k - 1) -> B] : IsRun(g, k - 1, b, step)
    BY <1>2, Zenon
  <2> DEFINE h == [i \in 0..k |-> IF i = k THEN step[k][g[k - 1]] ELSE g[i]]
  <2>2. k \in Nat /\ k \in 0..n /\ k # 0 /\ 0 \in 0..k /\ k \in 0..k /\ k - 1 \in 0..k /\ k - 1 # k /\ k - 1 \in 0..(k - 1)
    OBVIOUS
  <2>3. \A i \in 0..k : i = k \/ i \in 0..(k - 1)
    OBVIOUS
  <2>4. h \in [0..k -> B]
    <3>1. step[k][g[k - 1]] \in B
      BY <2>2, Zenon
    <3> QED BY <2>3, <3>1, Zenon
  <2>5. h[0] = b
    BY <2>1, <2>2, Zenon DEF IsRun
  <2>6. ASSUME NEW i \in 1..k PROVE h[i] = step[i][h[i - 1]]
    <3>1. CASE i = k
      <4>1. h[k] = step[k][g[k - 1]] /\ h[k - 1] = g[k - 1]
        BY <2>2, Zenon
      <4> QED BY <3>1, <4>1, Zenon
    <3>2. CASE i # k
      <4>1. i \in 0..k /\ i - 1 \in 0..k /\ i - 1 # k /\ i \in 1..(k - 1)
        BY <3>2
      <4>2. h[i] = g[i] /\ h[i - 1] = g[i - 1]
        BY <3>2, <4>1, Zenon
      <4> QED BY <2>1, <4>1, <4>2, Zenon DEF IsRun
    <3> QED BY <3>1, <3>2, Zenon
  <2>7. IsRun(h, k, b, step)
    BY <2>5, <2>6, Zenon DEF IsRun
  <2> HIDE DEF h
  <2> QED BY <2>2, <2>4, <2>7, Zenon
<1>3. 0..n \subseteq T
  <2> HIDE DEF T
  <2> QED BY <1>1, <1>2, RangeInduction, Zenon
<1>4. n \in 0..n
  OBVIOUS
<1> QED BY <1>3, <1>4, Zenon

(***************************************************************************)
(* Sequences of bytes.                                                     *)
(***************************************************************************)
\* The sequence s is cut into a, b and c.
CutInto(s, a, b, c) ==
  /\ Len(s) = Len(a) + Len(b) + Len(c)
  /\ SubSeq(s, 1, Len(a)) = a
  /\ SubSeq(s, Len(a) + 1, Len(a) + Len(b)) = b
  /\ SubSeq(s, Len(a) + Len(b) + 1, Len(a) + Len(b) + Len(c)) = c

\* The parts of a concatenation are found where their lengths say.
LEMMA Parts ==
  ASSUME NEW S, NEW a \in Seq(S), NEW b \in Seq(S), NEW c \in Seq(S)
  PROVE  CutInto(a \o b \o c, a, b, c)
<1> DEFINE s == a \o b \o c
<1>1. Len(a) \in Nat /\ Len(b) \in Nat /\ Len(c) \in Nat
  OBVIOUS
<1>2. /\ s \in Seq(S) /\ Len(s) = Len(a) + Len(b) + Len(c)
      /\ \A i \in 1..Len(a) : s[i] = a[i]
      /\ \A i \in 1..Len(b) : s[Len(a) + i] = b[i]
      /\ \A i \in 1..Len(c) : s[Len(a) + Len(b) + i] = c[i]
  OBVIOUS
<1>3. \A i \in 1..Len(s) : s[i] \in S
  BY <1>2
<1> HIDE DEF s
<1>4. SubSeq(s, 1, Len(a)) = a
  <2> DEFINE u == SubSeq(s, 1, Len(a))
  <2>1. u \in Seq(S) /\ Len(u) = Len(a) /\ \A i \in 1..Len(a) : u[i] = s[i]
    BY <1>1, <1>2, <1>3
  <2> HIDE DEF u
  <2>2. u = a
    BY <1>2, <2>1, SeqEqual
  <2> QED BY <2>2 DEF u
<1>5. SubSeq(s, Len(a) + 1, Len(a) + Len(b)) = b
  <2> DEFINE u == SubSeq(s, Len(a) + 1, Len(a) + Len(b))
  <2>1. u \in Seq(S) /\ Len(u) = Len(b) /\ \A i \in 1..Len(b) : u[i] = s[Len(a) + i]
    BY <1>1, <1>2, <1>3
  <2> HIDE DEF u
  <2>2. u = b
    BY <1>2, <2>1, SeqEqual
  <2> QED BY <2>2 DEF u
<1>6. SubSeq(s, Len(a) + Len(b) + 1, Len(a) + Len(b) + Len(c)) = c
  <2> DEFINE u == SubSeq(s, Len(a) + Len(b) + 1, Len(a) + Len(b) + Len(c))
  <2>1. u \in Seq(S) /\ Len(u) = Len(c) /\ \A i \in 1..Len(c) : u[i] = s[Len(a) + Len(b) + i]
    BY <1>1, <1>2, <1>3
  <2> HIDE DEF u
  <2>2. u = c
    BY <1>2, <2>1, SeqEqual
  <2> QED BY <2>2 DEF u
<1> QED BY <1>2, <1>4, <1>5, <1>6 DEF s, CutInto

\* Concatenation of bytes is associative.
Assoc(a, b, c) == (a \o b) \o c = a \o (b \o c)
(* Parentheses do not matter between parts of a buffer. *)
LEMMA ByteAssoc ==
  ASSUME NEW a \in Seq(Byte), NEW b \in Seq(Byte), NEW c \in Seq(Byte)
  PROVE  Assoc(a, b, c)
BY ConcatAssociative DEF Assoc

\* s is a, and b behind it.
Joined(s, a, b) ==
  /\ s \in Seq(Byte) /\ Len(s) = Len(a) + Len(b)
  /\ \A i \in 1..Len(a) : s[i] = a[i]
  /\ \A i \in 1..Len(b) : s[Len(a) + i] = b[i]

(* Concatenation of bytes: its type, its length and what its places hold. *)
LEMMA ByteCat ==
  ASSUME NEW a \in Seq(Byte), NEW b \in Seq(Byte)
  PROVE  Joined(a \o b, a, b)
BY DEF Joined

\* IndexByte finds the byte behind a part that does not have it, and Before
\* and After are what is on its two sides.
LEMMA IndexByteFinds ==
  ASSUME NEW b \in Byte, NEW a \in Seq(Byte \ {b}), NEW c \in Seq(Byte)
  PROVE  /\ IndexByte(a \o <<b>> \o c, b) = Len(a) + 1
         /\ Before(a \o <<b>> \o c, b) = a
         /\ After(a \o <<b>> \o c, b) = c
<1> DEFINE s == a \o <<b>> \o c
           x == <<b>>
<1>1. a \in Seq(Byte) /\ x \in Seq(Byte) /\ Len(x) = 1 /\ Len(a) \in Nat /\ Len(c) \in Nat
  <2>1. Byte \ {b} \subseteq Byte
    OBVIOUS
  <2> QED BY <2>1, SeqMonotonic
<1>2. /\ Len(s) = Len(a) + 1 + Len(c) /\ DOMAIN s = 1..Len(s)
      /\ \A i \in 1..Len(a) : s[i] = a[i]
      /\ s[Len(a) + 1] = b
  BY <1>1
<1>3. \A i \in 1..Len(a) : s[i] # b
  <2>1. \A i \in 1..Len(a) : a[i] \in Byte \ {b}
    OBVIOUS
  <2> QED BY <1>2, <2>1
<1>4. IndexByte(s, b) = Len(a) + 1
  <2> DEFINE First(i) == s[i] = b /\ \A j \in 1..(i - 1) : s[j] # b
  <2>1. Len(a) + 1 \in DOMAIN s /\ First(Len(a) + 1)
    <3> HIDE DEF s
    <3> QED BY <1>1, <1>2, <1>3
  <2>2. ASSUME NEW i \in DOMAIN s, First(i) PROVE i = Len(a) + 1
    <3>1. i \in Nat /\ i >= 1
      <4> HIDE DEF s
      <4> QED BY <1>1, <1>2
    <3>2. ~(i <= Len(a))
      BY <1>1, <1>3, <2>2, <3>1
    <3>3. ~(i > Len(a) + 1)
      <4> SUFFICES ASSUME i > Len(a) + 1 PROVE FALSE
        OBVIOUS
      <4>1. Len(a) + 1 \in 1..(i - 1)
        BY <1>1, <3>1
      <4> QED BY <1>2, <2>2, <4>1
    <3> QED BY <1>1, <3>1, <3>2, <3>3
  <2> HIDE DEF s
  <2>3. \E i \in DOMAIN s : s[i] = b
    BY <1>2, <2>1
  <2>4. (CHOOSE i \in DOMAIN s : First(i)) = Len(a) + 1
    <3> HIDE DEF First
    <3> QED BY <2>1, <2>2
  <2> QED BY <2>3, <2>4, Zenon DEF IndexByte
<1>5. SubSeq(s, 1, Len(a)) = a /\ SubSeq(s, Len(a) + 1 + 1, Len(a) + 1 + Len(c)) = c
  <2>1. CutInto(a \o x \o c, a, x, c)
    <3> HIDE DEF x
    <3> QED BY <1>1, Parts
  <2>3. s = a \o x \o c
    OBVIOUS
  <2> HIDE DEF x, s
  <2> QED BY <1>1, <2>1, <2>3 DEF CutInto
<1>6. Len(a) + 1 - 1 = Len(a)
  BY <1>1
<1> HIDE DEF x
<1>7. Before(s, b) = a /\ After(s, b) = c
  <2> HIDE DEF s
  <2> QED BY <1>2, <1>4, <1>5, <1>6 DEF Before, After
<1> QED BY <1>4, <1>7 DEF s

\* Division by 256.
LEMMA DivMod ==
  ASSUME NEW n \in Nat
  PROVE  n \div 256 \in Nat /\ n % 256 \in Byte /\ n = 256 * (n \div 256) + (n % 256)
<1>1. n % 256 = n - 256 * (n \div 256) /\ n \div 256 \in Nat /\ n % 256 \in 0..255
  BY SMT
<1> DEFINE q == n \div 256
           r == n % 256
<1> HIDE DEF q, r
<1>2. r = n - 256 * q /\ q \in Nat /\ r \in Byte
  BY <1>1, SMT DEF q, r, Byte
<1>3. n = 256 * q + r
  BY <1>2, SMT DEF Byte
<1> QED BY <1>2, <1>3, Zenon DEF q, r

\* The four bytes of a number give the number back.
LEMMA Uint32Put ==
  ASSUME NEW n \in Nat, FitsUint32(n)
  PROVE  /\ PutUint32(n) \in Seq(Byte) /\ Len(PutUint32(n)) = 4
         /\ Uint32(PutUint32(n)) = n
<1> DEFINE q1 == n \div 16777216
           q2 == n \div 65536
           q3 == n \div 256
           c2 == q2 % 256
           c3 == q3 % 256
           c4 == n % 256
<1>1. q2 = q3 \div 256 /\ q1 = q2 \div 256
  BY SMT
<1>2. q1 < 256
  BY DEF FitsUint32
<1>3. PutUint32(n) = <<q1 % 256, c2, c3, c4>>
  BY SMT DEF PutUint32
<1> HIDE DEF q1, q2, q3, c2, c3, c4
<1>4. q3 \in Nat /\ c4 \in Byte /\ n = 256 * q3 + c4
  BY DivMod DEF q3, c4
<1>5. q2 \in Nat /\ c3 \in Byte /\ q3 = 256 * q2 + c3
  BY DivMod, <1>1, <1>4 DEF c3
<1>6. q1 \in Nat /\ c2 \in Byte /\ q2 = 256 * q1 + c2
  BY DivMod, <1>1, <1>5 DEF c2
<1>7. q1 % 256 = q1 /\ q1 \in Byte
  BY <1>2, <1>6, SMT DEF Byte
<1>8. PutUint32(n) = <<q1, c2, c3, c4>>
  BY <1>3, <1>7
<1>9. PutUint32(n) \in Seq(Byte) /\ Len(PutUint32(n)) = 4
  <2>1. \A a, b, c, d \in Byte : <<a, b, c, d>> \in Seq(Byte) /\ Len(<<a, b, c, d>>) = 4
    OBVIOUS
  <2>2. <<q1, c2, c3, c4>> \in Seq(Byte) /\ Len(<<q1, c2, c3, c4>>) = 4
    BY <1>4, <1>5, <1>6, <1>7, <2>1
  <2> QED BY <1>8, <2>2
<1>10. ASSUME NEW bs, bs = <<q1, c2, c3, c4>> PROVE bs[1] = q1 /\ bs[2] = c2 /\ bs[3] = c3 /\ bs[4] = c4
  BY <1>10
<1>11. Uint32(PutUint32(n)) = q1 * 16777216 + c2 * 65536 + c3 * 256 + c4
  BY <1>8, <1>10, SMT DEF Uint32
<1>12. q1 * 16777216 + c2 * 65536 + c3 * 256 + c4 = n
  BY <1>4, <1>5, <1>6, SMT DEF Byte
<1> QED BY <1>9, <1>11, <1>12, SMT

(***************************************************************************)
(* The pairs of a Meta map, as EncodeReq writes them.                      *)
(***************************************************************************)
\* What CodecAssumption says of a Meta map.
IsMeta(meta) ==
  /\ IsFiniteSet(DOMAIN meta) /\ DOMAIN meta \subseteq Seq(Byte \ {splitter, pairSplitter})
  /\ meta \in [DOMAIN meta -> Seq(Byte \ {splitter})]

\* An order of a map names every key once.
OnceEachKey(keys, D) ==
  /\ keys \in Seq(D) /\ Len(keys) = Cardinality(D)
  /\ \A k \in D : \E i \in 1..Len(keys) : keys[i] = k
  /\ \A i, j \in 1..Len(keys) : keys[i] = keys[j] => i = j

(* What an order of the Go map is, as a sequence of its keys. *)
LEMMA OrderFacts ==
  ASSUME NEW D, IsFiniteSet(D), NEW keys \in Orders(D)
  PROVE  OnceEachKey(keys, D)
<1>1. Cardinality(D) \in Nat
  BY FS_CardinalityType
<1>2. /\ keys \in [1..Cardinality(D) -> D] /\ DOMAIN keys = 1..Cardinality(D)
      /\ \A k \in D : \E i \in DOMAIN keys : \A j \in DOMAIN keys : keys[j] = k <=> j = i
  BY DEF Orders
<1>3. keys \in Seq(D) /\ Len(keys) = Cardinality(D)
  BY <1>1, <1>2
<1>4. ASSUME NEW i \in DOMAIN keys, NEW j \in DOMAIN keys, keys[i] = keys[j] PROVE i = j
  <2>1. keys[i] \in D
    BY <1>2
  <2> QED BY <1>2, <1>4, <2>1, Zenon
<1>5. \A k \in D : \E i \in DOMAIN keys : keys[i] = k
  BY <1>2, Zenon
<1> QED BY <1>2, <1>3, <1>4, <1>5, Zenon DEF OnceEachKey

\* Every Meta map can be visited in some order.
LEMMA OrderExists ==
  ASSUME NEW D, IsFiniteSet(D)
  PROVE  Orders(D) # {}
<1>1. PICK f \in [1..Cardinality(D) -> D] :
        /\ \A a, b \in 1..Cardinality(D) : f[a] = f[b] => a = b
        /\ \A k \in D : \E i \in 1..Cardinality(D) : f[i] = k
  <2>1. ExistsBijection(1..Cardinality(D), D)
    BY FS_CardinalityType
  <2>2. PICK f : f \in Bijection(1..Cardinality(D), D)
    BY <2>1 DEF ExistsBijection
  <2>3. f \in [1..Cardinality(D) -> D] /\ DOMAIN f = 1..Cardinality(D) /\ IsInjective(f)
    BY <2>2 DEF Bijection, Injection
  <2>4. \A k \in D : \E i \in 1..Cardinality(D) : f[i] = k
    BY <2>2 DEF Bijection, Surjection
  <2> QED BY <2>3, <2>4, Zenon DEF IsInjective
<1>2. DOMAIN f = 1..Cardinality(D)
  OBVIOUS
<1>3. f \in Orders(D)
  BY <1>1, <1>2, Zenon DEF Orders
<1> QED BY <1>3, Zenon

\* A pair is a sequence of bytes that the splitter ends.
LEMMA PairFacts ==
  ASSUME NEW meta, IsMeta(meta), NEW key \in DOMAIN meta
  PROVE  /\ key \in Seq(Byte) /\ meta[key] \in Seq(Byte) /\ Pair(meta, key) \in Seq(Byte)
         /\ Len(Pair(meta, key)) = Len(key) + 1 + Len(meta[key]) + 1
         /\ Pair(meta, key)[Len(Pair(meta, key))] = splitter
<1>1. key \in Seq(Byte \ {splitter, pairSplitter}) /\ meta[key] \in Seq(Byte \ {splitter})
  BY Zenon DEF IsMeta
<1>2. key \in Seq(Byte) /\ meta[key] \in Seq(Byte)
  <2>1. Byte \ {splitter, pairSplitter} \subseteq Byte /\ Byte \ {splitter} \subseteq Byte
    OBVIOUS
  <2> QED BY <1>1, <2>1, SeqMonotonic
<1>3. splitter \in Byte /\ pairSplitter \in Byte
  BY DEF splitter, pairSplitter, Byte
<1>4. \A s, u \in Seq(Byte) : \A x, y \in Byte :
        /\ s \o <<x>> \o u \o <<y>> \in Seq(Byte)
        /\ Len(s \o <<x>> \o u \o <<y>>) = Len(s) + 1 + Len(u) + 1
        /\ (s \o <<x>> \o u \o <<y>>)[Len(s) + 1 + Len(u) + 1] = y
  OBVIOUS
<1> DEFINE p == Pair(meta, key)
<1>5. p \in Seq(Byte) /\ Len(p) = Len(key) + 1 + Len(meta[key]) + 1 /\ p[Len(key) + 1 + Len(meta[key]) + 1] = splitter
  BY <1>2, <1>3, <1>4 DEF Pair
<1> HIDE DEF p
<1>6. p[Len(p)] = splitter
  BY <1>5, Zenon
<1> QED BY <1>2, <1>5, <1>6, Zenon DEF p

\* w[k] is what is written after k pairs.
Written(w, meta, keys) ==
  /\ w[0] = <<>> /\ \A k \in 0..Len(keys) : w[k] \in Seq(Byte)
  /\ \A k \in 1..Len(keys) : w[k] = w[k - 1] \o Pair(meta, keys[k])

(* EncodeReq writes the pairs one behind the other, each once. *)
LEMMA PairsWritten ==
  ASSUME NEW meta, IsMeta(meta), NEW keys, OnceEachKey(keys, DOMAIN meta)
  PROVE  \E w : Written(w, meta, keys) /\ Pairs(meta, keys) = w[Len(keys)]
<1> DEFINE n == Len(keys)
           step == [k \in 1..n |-> [s \in Seq(Byte) |-> s \o Pair(meta, keys[k])]]
           IsW(w) == w = [k \in 0..n |-> IF k = 0 THEN <<>> ELSE w[k - 1] \o Pair(meta, keys[k])]
<1>1. n \in Nat /\ \A k \in 1..n : keys[k] \in DOMAIN meta
  BY DEF OnceEachKey
<1>2. \A k \in 1..n : Pair(meta, keys[k]) \in Seq(Byte)
  BY <1>1, PairFacts
<1>3. step \in [1..n -> [Seq(Byte) -> Seq(Byte)]]
  <2>1. \A k \in 1..n : \A s \in Seq(Byte) : s \o Pair(meta, keys[k]) \in Seq(Byte)
    BY <1>2, ConcatProperties
  <2> QED BY <2>1, Zenon
<1>4. <<>> \in Seq(Byte)
  OBVIOUS
<1>5. PICK g \in [0..n -> Seq(Byte)] : IsRun(g, n, <<>>, step)
  <2> HIDE DEF n, step
  <2> QED BY <1>1, <1>3, <1>4, RunExists, Zenon
<1>6. \A k \in 0..n : k = 0 \/ (k \in 1..n /\ k - 1 \in 0..n)
  BY <1>1
<1>7. \A k \in 1..n : k \in 0..n /\ k # 0 /\ k - 1 \in 0..n
  BY <1>1
<1>8. 0 \in 0..n /\ n \in 0..n
  BY <1>1
<1>9. g[0] = <<>> /\ \A k \in 1..n : g[k] = g[k - 1] \o Pair(meta, keys[k])
  BY <1>5, <1>7, Zenon DEF IsRun
<1>10. IsW(g)
  <2>1. \A k \in 0..n : g[k] = IF k = 0 THEN <<>> ELSE g[k - 1] \o Pair(meta, keys[k])
    BY <1>6, <1>9, Zenon
  <2> QED BY <2>1, Zenon
<1> DEFINE w == CHOOSE x : IsW(x)
<1>11. IsW(w)
  <2> HIDE DEF IsW
  <2> QED BY <1>10, Zenon
<1>12. Pairs(meta, keys) = w[n]
  BY Zenon DEF Pairs
<1> HIDE DEF w
<1>13. w[0] = <<>> /\ \A k \in 1..n : w[k] = w[k - 1] \o Pair(meta, keys[k])
  BY <1>7, <1>8, <1>11, Zenon
<1> DEFINE T == {k \in 0..n : w[k] \in Seq(Byte)}
<1>14. 0..n \subseteq T
  <2>1. 0 \in T
    BY <1>4, <1>8, <1>13, Zenon
  <2>2. ASSUME NEW k \in 1..n, k - 1 \in T PROVE k \in T
    <3>1. w[k - 1] \in Seq(Byte) /\ Pair(meta, keys[k]) \in Seq(Byte) /\ w[k] = w[k - 1] \o Pair(meta, keys[k])
      BY <1>2, <1>13, <2>2, Zenon
    <3>2. w[k] \in Seq(Byte)
      BY <3>1, ConcatProperties, Zenon
    <3> QED BY <1>7, <3>2, Zenon
  <2> HIDE DEF T
  <2> QED BY <1>1, <2>1, <2>2, RangeInduction, Zenon
<1>15. Written(w, meta, keys)
  BY <1>13, <1>14, Zenon DEF Written
<1> QED BY <1>12, <1>15, Zenon

(***************************************************************************)
(* The length that SetHeadLength adds up is the length of the pairs that   *)
(* EncodeReq writes: neither depends on the order in which Go visits the   *)
(* map, and the two may visit it in different orders.                      *)
(***************************************************************************)
PairLength(meta, key) == Len(key) + 1 + Len(meta[key]) + 1

\* a[k] is the length of those of the first k pairs whose keys are in U.
IsTotal(a, meta, keys, U) ==
  /\ a[0] = 0 /\ \A k \in 0..Len(keys) : a[k] \in Nat
  /\ \A k \in 1..Len(keys) : a[k] = a[k - 1] + (IF keys[k] \in U THEN PairLength(meta, keys[k]) ELSE 0)

(* There are such lengths, for the keys of every set. *)
LEMMA TotalExists ==
  ASSUME NEW meta, IsMeta(meta), NEW keys, OnceEachKey(keys, DOMAIN meta), NEW U
  PROVE  \E a : IsTotal(a, meta, keys, U)
<1> DEFINE n == Len(keys)
           add == [k \in 1..n |-> IF keys[k] \in U THEN PairLength(meta, keys[k]) ELSE 0]
           step == [k \in 1..n |-> [s \in Nat |-> s + add[k]]]
<1>1. n \in Nat /\ \A k \in 1..n : keys[k] \in DOMAIN meta
  BY DEF OnceEachKey
<1>2. \A k \in 1..n : PairLength(meta, keys[k]) \in Nat
  <2>1. ASSUME NEW key \in DOMAIN meta PROVE PairLength(meta, key) \in Nat
    <3>1. key \in Seq(Byte) /\ meta[key] \in Seq(Byte)
      BY PairFacts
    <3> QED BY <3>1 DEF PairLength
  <2> QED BY <1>1, <2>1, Zenon
<1>3. \A k \in 1..n : add[k] \in Nat
  BY <1>2
<1>4. step \in [1..n -> [Nat -> Nat]]
  <2> HIDE DEF add
  <2> QED BY <1>3
<1>5. PICK a \in [0..n -> Nat] : IsRun(a, n, 0, step)
  <2> HIDE DEF n, step
  <2> QED BY <1>1, <1>4, RunExists, Zenon
<1>6. \A k \in 1..n : k - 1 \in 0..n
  BY <1>1
<1>7. a[0] = 0 /\ \A k \in 1..n : a[k] = a[k - 1] + add[k]
  <2> HIDE DEF add
  <2> QED BY <1>5, <1>6, Zenon DEF IsRun
<1>8. IsTotal(a, meta, keys, U)
  BY <1>7, Zenon DEF IsTotal
<1> QED BY <1>8, Zenon

\* The total without a key is less by the length of that key's pair.
LEMMA TotalWithout ==
  ASSUME NEW meta, IsMeta(meta), NEW keys, OnceEachKey(keys, DOMAIN meta),
         NEW U \in SUBSET DOMAIN meta, NEW key \in U,
         NEW a, IsTotal(a, meta, keys, U), NEW b, IsTotal(b, meta, keys, U \ {key})
  PROVE  a[Len(keys)] = b[Len(keys)] + PairLength(meta, key)
<1> DEFINE n == Len(keys)
           Up(k) == IF keys[k] \in U THEN PairLength(meta, keys[k]) ELSE 0
           Low(k) == IF keys[k] \in U \ {key} THEN PairLength(meta, keys[k]) ELSE 0
<1>1. n \in Nat /\ \A k \in 1..n : keys[k] \in DOMAIN meta
  BY DEF OnceEachKey
<1>2. PICK p \in 1..n : keys[p] = key
  BY DEF OnceEachKey
<1>3. \A k \in 1..n : k # p => keys[k] # key
  BY <1>2, Zenon DEF OnceEachKey
<1>4. \A x \in DOMAIN meta : PairLength(meta, x) \in Nat
  <2> TAKE x \in DOMAIN meta
  <2>1. x \in Seq(Byte) /\ meta[x] \in Seq(Byte)
    BY PairFacts
  <2> QED BY <2>1 DEF PairLength
<1> DEFINE d == PairLength(meta, key)
<1>5. d \in Nat
  BY <1>4
<1>6. \A k \in 1..n : Low(k) \in Nat /\ Up(k) = Low(k) + (IF k = p THEN d ELSE 0)
  <2> TAKE k \in 1..n
  <2>1. CASE k = p
    <3>1. Up(k) = d /\ Low(k) = 0
      BY <1>2, <2>1
    <3> HIDE DEF Up, Low, d
    <3> QED BY <1>5, <2>1, <3>1
  <2>2. CASE k # p
    <3>1. Up(k) = Low(k) /\ Low(k) \in Nat
      BY <1>1, <1>3, <1>4, <2>2, Zenon
    <3> HIDE DEF Up, Low, d
    <3> QED BY <1>5, <2>2, <3>1
  <2> QED BY <2>1, <2>2, Zenon
<1>7. /\ a[0] = 0 /\ b[0] = 0 /\ \A k \in 0..n : a[k] \in Nat /\ b[k] \in Nat
      /\ \A k \in 1..n : a[k] = a[k - 1] + Up(k) /\ b[k] = b[k - 1] + Low(k)
  BY DEF IsTotal
<1> HIDE DEF Up, Low, d
<1> DEFINE T == {k \in 0..n : a[k] = b[k] + (IF k >= p THEN d ELSE 0)}
<1>8. 0 \in T
  <2>1. ~(0 >= p) /\ 0 \in 0..n /\ 0 = 0 + 0
    BY <1>1
  <2> QED BY <1>7, <2>1, Zenon
<1>9. ASSUME NEW k \in 1..n, k - 1 \in T PROVE k \in T
  <2>1. /\ a[k] = a[k - 1] + Up(k) /\ b[k] = b[k - 1] + Low(k)
        /\ a[k - 1] = b[k - 1] + (IF k - 1 >= p THEN d ELSE 0)
        /\ Low(k) \in Nat /\ Up(k) = Low(k) + (IF k = p THEN d ELSE 0)
    BY <1>6, <1>7, <1>9
  <2>2. b[k - 1] \in Nat /\ k \in 0..n
    <3>1. k \in 0..n /\ k - 1 \in 0..n
      BY <1>1
    <3> QED BY <1>7, <3>1, Zenon
  <2>3. a[k] = b[k] + (IF k >= p THEN d ELSE 0)
    BY <1>1, <1>5, <2>1, <2>2
  <2> QED BY <2>2, <2>3
<1>10. n \in T
  <2>1. 0..n \subseteq T
    <3> HIDE DEF T
    <3> QED BY <1>1, <1>8, <1>9, RangeInduction, Zenon
  <2> QED BY <1>1, <2>1
<1>11. a[n] = b[n] + d
  BY <1>1, <1>10
<1> QED BY <1>11 DEF d

\* SetHeadLength's sum, in its own order, is the length of what EncodeReq
\* writes in any order.
LEMMA MetaLengthExact ==
  ASSUME NEW meta, IsMeta(meta), NEW keys, OnceEachKey(keys, DOMAIN meta),
         NEW w, Written(w, meta, keys)
  PROVE  MetaLength(meta) = Len(w[Len(keys)])
<1> DEFINE n == Len(keys)
           D == DOMAIN meta
           Pick(U) == CHOOSE k \in U : TRUE
           total == [U \in SUBSET D |-> (CHOOSE a : IsTotal(a, meta, keys, U))[n]]
           IsLen(f) == f = [U \in SUBSET D |->
                              IF U = {} THEN 0
                              ELSE f[U \ {Pick(U)}] + Len(Pick(U)) + 1 + Len(meta[Pick(U)]) + 1]
           len == CHOOSE f : IsLen(f)
<1>1. n \in Nat /\ \A k \in 1..n : keys[k] \in D
  BY DEF OnceEachKey
<1>2. ASSUME NEW U \in SUBSET D
      PROVE  \E a : IsTotal(a, meta, keys, U) /\ total[U] = a[n]
  <2>1. \E a : IsTotal(a, meta, keys, U)
    BY TotalExists
  <2> DEFINE a == CHOOSE x : IsTotal(x, meta, keys, U)
  <2>2. IsTotal(a, meta, keys, U)
    BY <2>1, Zenon
  <2>3. total[U] = a[n]
    BY Zenon
  <2> HIDE DEF a, total
  <2> QED BY <2>2, <2>3, Zenon
<1>3. total[{}] = 0
  <2>1. PICK a : IsTotal(a, meta, keys, {}) /\ total[{}] = a[n]
    BY <1>2, Zenon
  <2> HIDE DEF total
  <2> DEFINE T == {k \in 0..n : a[k] = 0}
  <2>2. 0 \in T
    BY <1>1, <2>1 DEF IsTotal
  <2>3. ASSUME NEW k \in 1..n, k - 1 \in T PROVE k \in T
    <3>1. a[k] = a[k - 1] + (IF keys[k] \in {} THEN PairLength(meta, keys[k]) ELSE 0)
      BY <2>1, Zenon DEF IsTotal
    <3> QED BY <2>3, <3>1
  <2>4. 0..n \subseteq T
    <3> HIDE DEF T
    <3> QED BY <1>1, <2>2, <2>3, RangeInduction, Zenon
  <2> QED BY <1>1, <2>1, <2>4
<1>4. ASSUME NEW U \in SUBSET D, NEW key \in U
      PROVE  /\ total[U] = total[U \ {key}] + Len(key) + 1 + Len(meta[key]) + 1
             /\ total[U \ {key}] \in Nat
  <2>1. PICK a : IsTotal(a, meta, keys, U) /\ total[U] = a[n]
    BY <1>2, Zenon
  <2>2. PICK b : IsTotal(b, meta, keys, U \ {key}) /\ total[U \ {key}] = b[n]
    <3>1. U \ {key} \in SUBSET D
      OBVIOUS
    <3> QED BY <1>2, <3>1, Zenon
  <2> HIDE DEF total
  <2>3. a[n] = b[n] + PairLength(meta, key)
    <3>1. ASSUME NEW x, NEW z, IsTotal(x, meta, keys, U), IsTotal(z, meta, keys, U \ {key})
          PROVE  x[n] = z[n] + PairLength(meta, key)
      BY <3>1, TotalWithout
    <3> QED BY <2>1, <2>2, <3>1, Zenon
  <2>4. b[n] \in Nat
    BY <1>1, <2>2 DEF IsTotal
  <2>5. key \in Seq(Byte) /\ meta[key] \in Seq(Byte)
    BY PairFacts
  <2>6. \A x, y, z \in Nat : x + (y + 1 + z + 1) = x + y + 1 + z + 1
    OBVIOUS
  <2>7. Len(key) \in Nat /\ Len(meta[key]) \in Nat
    BY <2>5
  <2>8. b[n] + PairLength(meta, key) = b[n] + Len(key) + 1 + Len(meta[key]) + 1
    BY <2>4, <2>6, <2>7, Zenon DEF PairLength
  <2> QED BY <2>1, <2>2, <2>3, <2>4, <2>8, Zenon
<1>5. \A U \in SUBSET D : U # {} => Pick(U) \in U
  OBVIOUS
<1>6. IsLen(total)
  <2>1. total = [U \in SUBSET D |-> total[U]]
    OBVIOUS
  <2> HIDE DEF total, Pick
  <2>2. ASSUME NEW U \in SUBSET D
        PROVE  total[U] = IF U = {} THEN 0
                          ELSE total[U \ {Pick(U)}] + Len(Pick(U)) + 1 + Len(meta[Pick(U)]) + 1
    BY <1>3, <1>4, <1>5, Zenon
  <2> QED BY <2>1, <2>2, Zenon
<1>7. IsLen(len)
  <2> HIDE DEF IsLen, total
  <2> QED BY <1>6, Zenon
<1>8. MetaLength(meta) = len[D]
  BY Zenon DEF MetaLength
<1> HIDE DEF len, total, Pick
<1> DEFINE T == {U \in SUBSET D : len[U] = total[U]}
<1>9. SUBSET D \subseteq T
  <2>1. {} \in T
    BY <1>3, <1>7
  <2>2. ASSUME NEW U \in SUBSET D, U # {}, \A V \in SUBSET U : V # U => V \in T PROVE U \in T
    <3> DEFINE V == U \ {Pick(U)}
    <3>1. Pick(U) \in U /\ V \in SUBSET U /\ V # U
      BY <1>5, <2>2
    <3>2. len[V] = total[V]
      BY <2>2, <3>1, Zenon
    <3>3. len[U] = len[V] + Len(Pick(U)) + 1 + Len(meta[Pick(U)]) + 1
      BY <1>7, <2>2, Zenon
    <3>4. total[U] = total[V] + Len(Pick(U)) + 1 + Len(meta[Pick(U)]) + 1
      BY <1>4, <3>1, Zenon
    <3> HIDE DEF V
    <3> QED BY <3>2, <3>3, <3>4, Zenon
  <2>3. IsFiniteSet(D)
    BY DEF IsMeta
  <2> HIDE DEF T
  <2>4. Inductive(T, D)
    BY <2>1, <2>2 DEF Inductive
  <2> QED BY <2>3, <2>4, SubsetInduction
<1>10. PICK a : IsTotal(a, meta, keys, D) /\ total[D] = a[n]
  BY <1>2, Zenon
<1> DEFINE R == {k \in 0..n : a[k] = Len(w[k])}
<1>11. 0..n \subseteq R
  <2>1. 0 \in R
    BY <1>1, <1>10 DEF IsTotal, Written
  <2>2. ASSUME NEW k \in 1..n, k - 1 \in R PROVE k \in R
    <3>1. k \in 0..n /\ k - 1 \in 0..n /\ keys[k] \in D
      BY <1>1
    <3>2. a[k] = a[k - 1] + PairLength(meta, keys[k])
      BY <1>10, <3>1, Zenon DEF IsTotal
    <3>3. w[k] = w[k - 1] \o Pair(meta, keys[k]) /\ w[k - 1] \in Seq(Byte)
      BY <3>1, Zenon DEF Written
    <3>4. Pair(meta, keys[k]) \in Seq(Byte) /\ Len(Pair(meta, keys[k])) = PairLength(meta, keys[k])
      BY <3>1, PairFacts, Zenon DEF PairLength
    <3>5. Len(w[k]) = Len(w[k - 1]) + Len(Pair(meta, keys[k]))
      BY <3>3, <3>4, ConcatProperties, Zenon
    <3> QED BY <2>2, <3>1, <3>2, <3>4, <3>5, Zenon
  <2> HIDE DEF R
  <2> QED BY <1>1, <2>1, <2>2, RangeInduction, Zenon
<1>12. a[n] = Len(w[n])
  BY <1>1, <1>11
<1> QED BY <1>8, <1>9, <1>10, <1>12, Zenon

(***************************************************************************)
(* DecodeReq's loop over the pairs.                                        *)
(***************************************************************************)
\* h[k] is what is left of the pairs behind the first k.
Left(h, meta, keys) ==
  /\ h[Len(keys)] = <<>> /\ \A k \in 0..Len(keys) : h[k] \in Seq(Byte) /\ Len(h[k]) >= Len(keys) - k
  /\ \A k \in 1..Len(keys) : h[k - 1] = Pair(meta, keys[k]) \o h[k]

(* There is such a rest for every order of the map. *)
LEMMA LeftExists ==
  ASSUME NEW meta, IsMeta(meta), NEW keys, OnceEachKey(keys, DOMAIN meta)
  PROVE  \E h : Left(h, meta, keys)
<1> DEFINE n == Len(keys)
           step == [k \in 1..n |-> [s \in Seq(Byte) |-> Pair(meta, keys[n + 1 - k]) \o s]]
<1>1. n \in Nat /\ \A k \in 1..n : keys[k] \in DOMAIN meta
  BY DEF OnceEachKey
<1>2. \A k \in 1..n : Pair(meta, keys[k]) \in Seq(Byte) /\ Len(Pair(meta, keys[k])) >= 1
  <2> TAKE k \in 1..n
  <2>1. /\ keys[k] \in Seq(Byte) /\ meta[keys[k]] \in Seq(Byte) /\ Pair(meta, keys[k]) \in Seq(Byte)
        /\ Len(Pair(meta, keys[k])) = Len(keys[k]) + 1 + Len(meta[keys[k]]) + 1
    BY <1>1, PairFacts, Zenon
  <2>2. \A a, b \in Seq(Byte) : Len(a) + 1 + Len(b) + 1 >= 1
    OBVIOUS
  <2> QED BY <2>1, <2>2, Zenon
<1>3. \A k \in 1..n : n + 1 - k \in 1..n /\ n - k \in 0..n /\ n + 1 - (n + 1 - k) = k /\ n - (n + 1 - k) = k - 1
  BY <1>1
<1>4. step \in [1..n -> [Seq(Byte) -> Seq(Byte)]]
  <2>1. \A k \in 1..n : \A s \in Seq(Byte) : Pair(meta, keys[n + 1 - k]) \o s \in Seq(Byte)
    BY <1>2, <1>3, ConcatProperties
  <2> QED BY <2>1, Zenon
<1>5. <<>> \in Seq(Byte) /\ Len(<<>>) = 0
  OBVIOUS
<1>6. PICK u \in [0..n -> Seq(Byte)] : IsRun(u, n, <<>>, step)
  <2> HIDE DEF n, step
  <2> QED BY <1>1, <1>4, <1>5, RunExists, Zenon
<1>7. \A k \in 1..n : k \in 0..n /\ k - 1 \in 0..n
  BY <1>1
<1>8. u[0] = <<>> /\ \A k \in 1..n : u[k] = Pair(meta, keys[n + 1 - k]) \o u[k - 1]
  BY <1>6, <1>7, Zenon DEF IsRun
<1> HIDE DEF step
<1> DEFINE T == {k \in 0..n : Len(u[k]) >= k}
<1>9. 0..n \subseteq T
  <2>1. 0 \in T
    BY <1>1, <1>5, <1>8
  <2>2. ASSUME NEW k \in 1..n, k - 1 \in T PROVE k \in T
    <3> DEFINE p == Pair(meta, keys[n + 1 - k])
    <3>1. p \in Seq(Byte) /\ Len(p) >= 1 /\ u[k - 1] \in Seq(Byte) /\ u[k] = p \o u[k - 1]
      BY <1>2, <1>3, <1>7, <1>8, Zenon
    <3> HIDE DEF p
    <3>2. Len(u[k]) = Len(p) + Len(u[k - 1]) /\ Len(p) \in Nat /\ Len(u[k - 1]) \in Nat
      BY <3>1
    <3>3. Len(u[k - 1]) >= k - 1 /\ k \in 0..n
      BY <1>7, <2>2
    <3>4. Len(u[k]) >= k
      BY <3>1, <3>2, <3>3
    <3> QED BY <3>3, <3>4
  <2> HIDE DEF T
  <2> QED BY <1>1, <2>1, <2>2, RangeInduction, Zenon
<1> DEFINE h == [k \in 0..n |-> u[n - k]]
<1>10. n \in 0..n /\ n - n = 0 /\ \A k \in 0..n : n - k \in 0..n
  BY <1>1
<1>11. \A k \in 0..n : h[k] \in Seq(Byte) /\ Len(h[k]) >= n - k
  BY <1>9, <1>10, Zenon
<1>12. h[n] = <<>>
  BY <1>8, <1>10, Zenon
<1>13. ASSUME NEW k \in 1..n PROVE h[k - 1] = Pair(meta, keys[k]) \o h[k]
  <2> DEFINE i == n + 1 - k
  <2>1. i \in 1..n /\ n + 1 - i = k /\ i - 1 = n - k /\ n - (k - 1) = i
    BY <1>1
  <2>2. u[i] = Pair(meta, keys[n + 1 - i]) \o u[i - 1]
    BY <1>8, <2>1, Zenon
  <2>3. h[k - 1] = u[n - (k - 1)] /\ h[k] = u[n - k]
    BY <1>7, Zenon
  <2> HIDE DEF i, h
  <2> QED BY <2>1, <2>2, <2>3, Zenon
<1> HIDE DEF h
<1>14. Left(h, meta, keys)
  BY <1>11, <1>12, <1>13, Zenon DEF Left
<1> QED BY <1>14, Zenon

\* Behind no pair, everything that was written is left.
LEMMA LeftOfAll ==
  ASSUME NEW meta, IsMeta(meta), NEW keys, OnceEachKey(keys, DOMAIN meta),
         NEW w, Written(w, meta, keys), NEW h, Left(h, meta, keys)
  PROVE  h[0] = w[Len(keys)]
<1> DEFINE n == Len(keys)
           T == {k \in 0..n : h[0] = w[k] \o h[k]}
<1>1. n \in Nat /\ \A k \in 1..n : keys[k] \in DOMAIN meta
  BY DEF OnceEachKey
<1>2. 0 \in 0..n /\ n \in 0..n /\ \A k \in 1..n : k \in 0..n /\ k - 1 \in 0..n
  BY <1>1
<1>3. \A k \in 0..n : h[k] \in Seq(Byte) /\ w[k] \in Seq(Byte)
  BY DEF Left, Written
<1>4. 0 \in T
  <2>1. w[0] = <<>> /\ h[0] \in Seq(Byte)
    BY <1>2, <1>3, Zenon DEF Written
  <2>2. <<>> \o h[0] = h[0]
    BY <2>1, ConcatEmptySeq, Zenon
  <2> QED BY <1>2, <2>1, <2>2, Zenon
<1>5. ASSUME NEW k \in 1..n, k - 1 \in T PROVE k \in T
  <2>1. h[0] = w[k - 1] \o h[k - 1]
    BY <1>5, Zenon
  <2>2. h[k - 1] = Pair(meta, keys[k]) \o h[k] /\ w[k] = w[k - 1] \o Pair(meta, keys[k])
    BY Zenon DEF Left, Written
  <2>3. Pair(meta, keys[k]) \in Seq(Byte) /\ h[k] \in Seq(Byte) /\ w[k - 1] \in Seq(Byte)
    BY <1>1, <1>2, <1>3, PairFacts, Zenon
  <2>4. (w[k - 1] \o Pair(meta, keys[k])) \o h[k] = w[k - 1] \o (Pair(meta, keys[k]) \o h[k])
    <3>1. Assoc(w[k - 1], Pair(meta, keys[k]), h[k])
      BY <2>3, ByteAssoc, Zenon
    <3> QED BY <3>1, Zenon DEF Assoc
  <2>5. h[0] = w[k] \o h[k]
    BY <2>1, <2>2, <2>4, Zenon
  <2> QED BY <1>2, <2>5, Zenon
<1>6. 0..n \subseteq T
  <2> HIDE DEF T
  <2> QED BY <1>1, <1>4, <1>5, RangeInduction, Zenon
<1>7. h[0] = w[n] \o h[n] /\ h[n] = <<>> /\ w[n] \in Seq(Byte)
  BY <1>2, <1>3, <1>6, Zenon DEF Left
<1>8. w[n] \o <<>> = w[n]
  BY <1>7, ConcatEmptySeq, Zenon
<1> QED BY <1>7, <1>8, Zenon

\* A round of the loop takes the first pair off and puts it into the map.
LEMMA NextPairReads ==
  ASSUME NEW meta, IsMeta(meta), NEW key \in DOMAIN meta, NEW rest \in Seq(Byte), NEW m
  PROVE  NextPair([tmp |-> Pair(meta, key) \o rest, meta |-> m])
           = [tmp |-> rest, meta |-> SetPair(m, key, meta[key])]
<1> DEFINE val == meta[key]
           x == <<pairSplitter>>
           y == <<splitter>>
           a == key \o x \o val
           u == Pair(meta, key) \o rest
<1>1. key \in Seq(Byte \ {splitter, pairSplitter}) /\ val \in Seq(Byte \ {splitter})
  BY Zenon DEF IsMeta
<1>2. key \in Seq(Byte) /\ val \in Seq(Byte)
  BY PairFacts
<1>3. splitter \in Byte /\ pairSplitter \in Byte /\ splitter # pairSplitter
  BY DEF splitter, pairSplitter, Byte
<1>4. x \in Seq(Byte) /\ y \in Seq(Byte) /\ Len(x) = 1 /\ Len(y) = 1
  BY <1>3
<1>5. a \in Seq(Byte \ {splitter}) /\ key \in Seq(Byte \ {pairSplitter})
  <2>1. Byte \ {splitter, pairSplitter} \subseteq Byte \ {splitter} /\ Byte \ {splitter, pairSplitter} \subseteq Byte \ {pairSplitter}
    OBVIOUS
  <2>2. key \in Seq(Byte \ {splitter}) /\ key \in Seq(Byte \ {pairSplitter})
    BY <1>1, <2>1, SeqMonotonic
  <2>3. x \in Seq(Byte \ {splitter})
    BY <1>3
  <2> HIDE DEF x, val
  <2>4. \A S : \A s1, s2, s3 \in Seq(S) : s1 \o s2 \o s3 \in Seq(S)
    OBVIOUS
  <2> QED BY <1>1, <2>2, <2>3, <2>4
<1>6. u = a \o y \o rest
  BY DEF Pair
<1>7. IndexByte(u, splitter) = Len(a) + 1 /\ After(u, splitter) = rest
  <2>1. IndexByte(a \o <<splitter>> \o rest, splitter) = Len(a) + 1 /\ After(a \o <<splitter>> \o rest, splitter) = rest
    <3> HIDE DEF a
    <3> QED BY <1>3, <1>5, IndexByteFinds
  <2> HIDE DEF a, u
  <2> QED BY <1>6, <2>1, Zenon
<1> HIDE DEF val, x, y
<1>8. key \o x \in Seq(Byte) /\ y \o rest \in Seq(Byte) /\ Len(key \o x) = Len(key) + 1 /\ Len(a) = Len(key) + 1 + Len(val)
  <2>1. \A s1, s2 \in Seq(Byte) : s1 \o s2 \in Seq(Byte) /\ Len(s1 \o s2) = Len(s1) + Len(s2)
    OBVIOUS
  <2>2. y \o rest \in Seq(Byte)
    BY <1>4, <2>1
  <2>3. key \o x \in Seq(Byte) /\ Len(key \o x) = Len(key) + Len(x)
    BY <1>2, <1>4, <2>1, Zenon
  <2>4. Len(a) = Len(key \o x) + Len(val)
    BY <1>2, <2>1, <2>3, Zenon
  <2> HIDE DEF a
  <2> QED BY <1>4, <2>2, <2>3, <2>4, Zenon
<1>9. u = key \o x \o (val \o (y \o rest))
  <2>1. u = (key \o x) \o val \o y \o rest
    BY <1>6
  <2> DEFINE kx == key \o x
  <2>2. kx \in Seq(Byte) /\ kx \o val \in Seq(Byte)
    BY <1>2, <1>8, ConcatProperties
  <2> HIDE DEF kx
  <2>3. ((kx \o val) \o y) \o rest = (kx \o val) \o (y \o rest)
    <3>1. Assoc(kx \o val, y, rest)
      BY <1>4, <2>2, ByteAssoc, Zenon
    <3> QED BY <3>1, Zenon DEF Assoc
  <2>4. \A c \in Seq(Byte) : (kx \o val) \o c = kx \o (val \o c)
    <3>1. \A c \in Seq(Byte) : Assoc(kx, val, c)
      BY <1>2, <2>2, ByteAssoc, Zenon
    <3> QED BY <3>1, Zenon DEF Assoc
  <2> QED BY <1>8, <2>1, <2>3, <2>4, Zenon DEF kx
<1>10. val \o (y \o rest) \in Seq(Byte)
  BY <1>2, <1>8, ConcatProperties
<1>11. IndexByte(u, pairSplitter) = Len(key) + 1 /\ SubSeq(u, 1, Len(key)) = key
  <2> DEFINE c == val \o (y \o rest)
  <2>1. c \in Seq(Byte) /\ u = key \o <<pairSplitter>> \o c
    BY <1>9, <1>10 DEF x
  <2> HIDE DEF c, u
  <2>2. IndexByte(u, pairSplitter) = Len(key) + 1 /\ Before(u, pairSplitter) = key
    BY <1>3, <1>5, <2>1, IndexByteFinds, Zenon
  <2>3. Len(key) + 1 - 1 = Len(key)
    BY <1>2
  <2> QED BY <2>2, <2>3 DEF Before
<1>12. SubSeq(u, Len(key) + 1 + 1, Len(key) + 1 + Len(val)) = val
  <2> DEFINE kx == key \o x
             c == y \o rest
  <2>1. kx \in Seq(Byte) /\ c \in Seq(Byte) /\ Len(kx) = Len(key) + 1
    BY <1>8
  <2>2. u = kx \o val \o c
    <3>1. u = (kx \o val) \o y \o rest
      BY <1>6
    <3>2. kx \o val \in Seq(Byte)
      BY <1>2, <2>1, ConcatProperties
    <3> HIDE DEF kx, u
    <3>3. Assoc(kx \o val, y, rest)
      BY <1>4, <3>2, ByteAssoc, Zenon
    <3> QED BY <3>1, <3>3, Zenon DEF Assoc
  <2> HIDE DEF kx, c, u
  <2>3. CutInto(u, kx, val, c)
    BY <1>2, <2>1, <2>2, Parts
  <2> QED BY <2>1, <2>3 DEF CutInto
<1> DEFINE s == [tmp |-> u, meta |-> m]
<1>13. s.tmp = u /\ s.meta = m
  OBVIOUS
<1> HIDE DEF s, u, a
<1>14. Len(key) \in Nat /\ Len(val) \in Nat
  BY <1>2
<1>15. /\ IndexByte(s.tmp, splitter) = Len(key) + 1 + Len(val) + 1
       /\ IndexByte(s.tmp, splitter) # 0 /\ IndexByte(s.tmp, splitter) - 1 = Len(key) + 1 + Len(val)
       /\ IndexByte(s.tmp, pairSplitter) = Len(key) + 1 /\ IndexByte(s.tmp, pairSplitter) - 1 = Len(key)
       /\ After(s.tmp, splitter) = rest
  BY <1>7, <1>8, <1>11, <1>13, <1>14
<1>16. NextPair(s) = [tmp |-> rest, meta |-> SetPair(m, key, val)]
  BY <1>11, <1>12, <1>13, <1>15, Zenon DEF NextPair
<1> QED BY <1>16 DEF s, u, val

\* Where nothing is left the loop is over.
LEMMA NextPairDone ==
  ASSUME NEW m
  PROVE  NextPair([tmp |-> <<>>, meta |-> m]) = [tmp |-> <<>>, meta |-> m]
<1> DEFINE s == [tmp |-> <<>>, meta |-> m]
<1>1. s.tmp = <<>> /\ DOMAIN <<>> = {}
  OBVIOUS
<1> HIDE DEF s
<1>2. IndexByte(s.tmp, splitter) = 0
  BY <1>1, Zenon DEF IndexByte
<1>3. NextPair(s) = s
  BY <1>2, Zenon DEF NextPair
<1> QED BY <1>3 DEF s

\* The loop reads back the map whose pairs were written.
LEMMA DecodeMetaReads ==
  ASSUME NEW meta, IsMeta(meta), NEW keys, OnceEachKey(keys, DOMAIN meta)
  PROVE  DecodeMeta(Pairs(meta, keys)) = meta
<1> DEFINE n == Len(keys)
           Part(k) == [key \in {keys[i] : i \in 1..k} |-> meta[key]]
<1>1. n \in Nat /\ \A k \in 1..n : keys[k] \in DOMAIN meta
  BY DEF OnceEachKey
<1>2. PICK w : Written(w, meta, keys) /\ Pairs(meta, keys) = w[n]
  BY PairsWritten
<1>3. PICK h : Left(h, meta, keys)
  BY LeftExists
<1> DEFINE u == Pairs(meta, keys)
<1>4. u = h[0]
  BY <1>2, <1>3, LeftOfAll
<1> HIDE DEF u
<1>5. 0 \in 0..n /\ n \in 0..n /\ \A k \in 1..n : k \in 0..n /\ k - 1 \in 0..n
  BY <1>1
<1>6. Len(u) \in Nat /\ n <= Len(u)
  <2>1. h[0] \in Seq(Byte) /\ Len(h[0]) >= n - 0
    BY <1>3, <1>5, Zenon DEF Left
  <2> QED BY <1>1, <1>4, <2>1
<1>7. Part(0) = NoMeta
  <2>1. {keys[i] : i \in 1..0} = {}
    OBVIOUS
  <2> QED BY <2>1, Zenon DEF NoMeta
<1>8. Part(n) = meta
  <2>1. {keys[i] : i \in 1..n} = DOMAIN meta
    <3>1. \A k \in DOMAIN meta : \E i \in 1..n : k = keys[i]
      BY DEF OnceEachKey
    <3> QED BY <1>1, <3>1, Zenon
  <2>2. meta = [key \in DOMAIN meta |-> meta[key]]
    BY Zenon DEF IsMeta
  <2> QED BY <2>1, <2>2, Zenon
<1>9. ASSUME NEW k \in 1..n PROVE SetPair(Part(k - 1), keys[k], meta[keys[k]]) = Part(k)
  <2>1. \A i : i \in 1..k <=> i \in 1..(k - 1) \/ i = k
    BY <1>1
  <2>2. {keys[i] : i \in 1..(k - 1)} \cup {keys[k]} = {keys[i] : i \in 1..k}
    BY <2>1, Zenon
  <2> QED BY <2>2, Zenon DEF SetPair
<1> DEFINE state(k) == [tmp |-> h[k], meta |-> Part(k)]
           done == [tmp |-> <<>>, meta |-> meta]
           g == [k \in 0..Len(u) |-> IF k <= n THEN state(k) ELSE done]
           IsLoop(f) == f = [k \in 0..Len(u) |-> IF k = 0 THEN [tmp |-> u, meta |-> NoMeta] ELSE NextPair(f[k - 1])]
           f == CHOOSE x : IsLoop(x)
<1>10. state(0) = [tmp |-> u, meta |-> NoMeta]
  BY <1>4, <1>7, Zenon
<1>11. state(n) = done
  BY <1>3, <1>8, Zenon DEF Left
<1>12. ASSUME NEW k \in 1..n PROVE state(k) = NextPair(state(k - 1))
  <2>1. h[k - 1] = Pair(meta, keys[k]) \o h[k] /\ h[k] \in Seq(Byte) /\ keys[k] \in DOMAIN meta
    BY <1>1, <1>3, <1>5, Zenon DEF Left
  <2> HIDE DEF Part
  <2>2. NextPair([tmp |-> Pair(meta, keys[k]) \o h[k], meta |-> Part(k - 1)])
          = [tmp |-> h[k], meta |-> SetPair(Part(k - 1), keys[k], meta[keys[k]])]
    BY <2>1, NextPairReads, Zenon
  <2> QED BY <1>9, <2>1, <2>2, Zenon
<1>13. NextPair(done) = done
  BY NextPairDone
<1> HIDE DEF state, done, Part
<1>14. \A k \in 0..Len(u) : g[k] = IF k <= n THEN state(k) ELSE done
  OBVIOUS
<1>15. ASSUME NEW k \in 1..Len(u) PROVE g[k] = NextPair(g[k - 1])
  <2>1. k \in 0..Len(u) /\ k - 1 \in 0..Len(u)
    BY <1>6
  <2>2. CASE k <= n
    <3>1. k \in 1..n /\ k - 1 <= n
      BY <1>1, <1>6, <2>2
    <3> HIDE DEF g
    <3> QED BY <1>12, <1>14, <2>1, <2>2, <3>1, Zenon
  <2>3. CASE k = n + 1
    <3>1. ~(k <= n) /\ k - 1 <= n /\ k - 1 = n
      BY <1>1, <2>3
    <3> HIDE DEF g
    <3> QED BY <1>11, <1>13, <1>14, <2>1, <3>1, Zenon
  <2>4. CASE k > n + 1
    <3>1. ~(k <= n) /\ ~(k - 1 <= n)
      BY <1>1, <1>6, <2>4
    <3> HIDE DEF g
    <3> QED BY <1>13, <1>14, <2>1, <3>1, Zenon
  <2>5. k <= n \/ k = n + 1 \/ k > n + 1
    BY <1>1, <1>6
  <2> QED BY <2>2, <2>3, <2>4, <2>5, Zenon
<1>16. g[0] = [tmp |-> u, meta |-> NoMeta]
  <2>1. 0 \in 0..Len(u) /\ 0 <= n
    BY <1>1, <1>6
  <2> HIDE DEF g
  <2> QED BY <1>10, <1>14, <2>1, Zenon
<1>17. g[Len(u)].meta = meta
  <2>1. Len(u) \in 0..Len(u) /\ (Len(u) <= n => Len(u) = n)
    BY <1>1, <1>6
  <2>2. g[Len(u)] = done
    <3> HIDE DEF g
    <3> QED BY <1>11, <1>14, <2>1, Zenon
  <2> HIDE DEF g
  <2> QED BY <2>2 DEF done
<1>18. \A k \in 0..Len(u) : k = 0 \/ k \in 1..Len(u)
  BY <1>6
<1>19. IsLoop(g)
  <2>1. g = [k \in 0..Len(u) |-> g[k]]
    OBVIOUS
  <2> HIDE DEF g
  <2>2. \A k \in 0..Len(u) : g[k] = IF k = 0 THEN [tmp |-> u, meta |-> NoMeta] ELSE NextPair(g[k - 1])
    BY <1>15, <1>16, <1>18, Zenon
  <2> QED BY <2>1, <2>2, Zenon
<1>20. IsLoop(f)
  <2> HIDE DEF IsLoop, g
  <2> QED BY <1>19, Zenon
<1>21. DecodeMeta(u) = f[Len(u)].meta
  BY Zenon DEF DecodeMeta
<1> HIDE DEF f, g
<1> DEFINE T == {k \in 0..Len(u) : f[k] = g[k]}
<1>22. 0..Len(u) \subseteq T
  <2>1. 0 \in 0..Len(u) /\ \A k \in 1..Len(u) : k \in 0..Len(u) /\ k # 0
    BY <1>6
  <2>2. f[0] = [tmp |-> u, meta |-> NoMeta] /\ \A k \in 1..Len(u) : f[k] = NextPair(f[k - 1])
    BY <1>20, <2>1, Zenon
  <2>3. 0 \in T
    BY <1>16, <2>1, <2>2, Zenon
  <2>4. ASSUME NEW k \in 1..Len(u), k - 1 \in T PROVE k \in T
    BY <1>15, <2>1, <2>2, <2>4, Zenon
  <2> HIDE DEF T
  <2> QED BY <1>6, <2>3, <2>4, RangeInduction, Zenon
<1>23. f[Len(u)] = g[Len(u)]
  BY <1>6, <1>22
<1> QED BY <1>17, <1>21, <1>23, Zenon DEF u

(***************************************************************************)
(* Messages.                                                               *)
(***************************************************************************)
\* What fits into a uint32 leaves room for what is less.
LEMMA FitsLess ==
  ASSUME NEW a \in Nat, NEW b \in Nat, FitsUint32(a + b)
  PROVE  FitsUint32(a) /\ FitsUint32(b)
<1>1. \A x, y \in Nat : x <= y => x \div 16777216 <= y \div 16777216
  BY SMT
<1>2. \A x \in Nat : x \div 16777216 \in Nat
  BY SMT
<1>3. a <= a + b /\ b <= a + b /\ a + b \in Nat
  BY SMT
<1>4. (a + b) \div 16777216 < 256
  BY SMT DEF FitsUint32
<1>5. a \div 16777216 < 256 /\ b \div 16777216 < 256
  BY <1>1, <1>2, <1>3, <1>4, SMT
<1> QED BY <1>5, SMT DEF FitsUint32

\* A buffer of the right length holds exactly what is copied into it.
LEMMA InBufferExact ==
  ASSUME NEW m, NEW bs \in Seq(Byte), Len(bs) = m.headLength + m.bodyLength
  PROVE  InBuffer(m, bs) = bs
<1>1. bs = [i \in 1..Len(bs) |-> bs[i]]
  OBVIOUS
<1>2. InBuffer(m, bs) = [i \in 1..Len(bs) |-> IF i <= Len(bs) THEN bs[i] ELSE 0]
  BY Zenon DEF InBuffer
<1>3. \A i \in 1..Len(bs) : i <= Len(bs)
  OBVIOUS
<1>4. [i \in 1..Len(bs) |-> IF i <= Len(bs) THEN bs[i] ELSE 0] = [i \in 1..Len(bs) |-> bs[i]]
  BY <1>3, Zenon
<1> QED BY <1>1, <1>2, <1>4, Zenon

\* The head of a message whose lengths are set.
HasHead(m) ==
  /\ m.headLength \in Nat /\ m.bodyLength \in Nat /\ m.fixed \in Fixed
  /\ FitsUint32(m.headLength) /\ FitsUint32(m.bodyLength)

\* The fields of m are read back from bs.
HeadIsRead(m, bs) ==
  /\ Uint32(SubSeq(bs, 1, 4)) = m.headLength
  /\ Uint32(SubSeq(bs, 5, 8)) = m.bodyLength
  /\ DecodeFixed(bs) = m.fixed

(* DecodeFixed and the lengths read back the fifteen bytes of FixedHead. *)
LEMMA FixedHeadReads ==
  ASSUME NEW m, HasHead(m), NEW rest \in Seq(Byte)
  PROVE  /\ FixedHead(m) \in Seq(Byte) /\ Len(FixedHead(m)) = 15
         /\ HeadIsRead(m, FixedHead(m) \o rest)
<1> DEFINE p1 == PutUint32(m.headLength)
           p2 == PutUint32(m.bodyLength)
           p3 == PutUint32(m.fixed.id)
           v == m.fixed.version
           c == m.fixed.compresser
           s == m.fixed.serializer
           fh == FixedHead(m)
           bs == FixedHead(m) \o rest
<1>1. /\ m.fixed.id \in Nat /\ FitsUint32(m.fixed.id) /\ v \in Byte /\ c \in Byte /\ s \in Byte
      /\ m.fixed = [id |-> m.fixed.id, version |-> v, compresser |-> c, serializer |-> s]
  BY CodecAssumption DEF HasHead
<1>2. /\ p1 \in Seq(Byte) /\ Len(p1) = 4 /\ Uint32(p1) = m.headLength
      /\ p2 \in Seq(Byte) /\ Len(p2) = 4 /\ Uint32(p2) = m.bodyLength
      /\ p3 \in Seq(Byte) /\ Len(p3) = 4 /\ Uint32(p3) = m.fixed.id
  BY <1>1, Uint32Put, Zenon DEF HasHead
<1>3. fh = p1 \o p2 \o p3 \o <<v, c, s>>
  BY Zenon DEF FixedHead
<1> HIDE DEF p1, p2, p3, v, c, s, fh
<1> DEFINE z == <<v, c, s>>
<1>4. z \in Seq(Byte) /\ Len(z) = 3 /\ z[1] = v /\ z[2] = c /\ z[3] = s
  BY <1>1
<1>5. fh = p1 \o p2 \o p3 \o z
  BY <1>3
<1> HIDE DEF z
<1> DEFINE d == p1 \o p2
           e == d \o p3
<1>6. Joined(d, p1, p2) /\ Len(d) = 8 /\ d \in Seq(Byte)
  <2>1. Joined(d, p1, p2)
    BY <1>2, ByteCat
  <2> QED BY <1>2, <2>1 DEF Joined
<1> HIDE DEF d
<1>7. Joined(e, d, p3) /\ Len(e) = 12 /\ e \in Seq(Byte)
  <2>1. Joined(e, d, p3)
    BY <1>2, <1>6, ByteCat
  <2>2. Len(e) = Len(d) + Len(p3) /\ e \in Seq(Byte)
    BY <2>1, Zenon DEF Joined
  <2> HIDE DEF e
  <2> QED BY <1>2, <1>6, <2>1, <2>2
<1>8. fh = e \o z
  BY <1>5 DEF d
<1> HIDE DEF e
<1>9. Joined(fh, e, z) /\ Len(fh) = 15 /\ fh \in Seq(Byte)
  <2>1. Joined(fh, e, z)
    BY <1>4, <1>7, <1>8, ByteCat
  <2>2. Len(fh) = Len(e) + Len(z) /\ fh \in Seq(Byte)
    BY <2>1, Zenon DEF Joined
  <2> QED BY <1>4, <1>7, <2>1, <2>2
<1> HIDE DEF bs
<1>10. /\ \A i \in 1..4 : SubSeq(bs, 1, 4)[i] = p1[i] /\ SubSeq(bs, 5, 8)[i] = p2[i] /\ SubSeq(bs, 9, 12)[i] = p3[i]
       /\ bs[13] = v /\ bs[14] = c /\ bs[15] = s
  <2>1. Joined(bs, fh, rest)
    BY <1>9, ByteCat DEF bs, fh
  <2>2. bs \in Seq(Byte) /\ Len(bs) >= 15 /\ \A i \in 1..15 : bs[i] = fh[i]
    <3>1. Len(rest) \in Nat
      OBVIOUS
    <3>2. bs \in Seq(Byte) /\ Len(bs) = Len(fh) + Len(rest) /\ \A i \in 1..Len(fh) : bs[i] = fh[i]
      BY <2>1, Zenon DEF Joined
    <3> QED BY <1>9, <3>1, <3>2
  <2>3. /\ \A i \in 1..4 : d[i] = p1[i] /\ d[4 + i] = p2[i]
        /\ \A i \in 1..8 : e[i] = d[i]
        /\ \A i \in 1..4 : e[8 + i] = p3[i]
        /\ \A i \in 1..12 : fh[i] = e[i]
        /\ \A i \in 1..3 : fh[12 + i] = z[i]
    BY <1>2, <1>4, <1>6, <1>7, <1>9 DEF Joined
  <2>4. \A i \in 1..4 : bs[i] = p1[i] /\ bs[4 + i] = p2[i] /\ bs[8 + i] = p3[i]
    <3> TAKE i \in 1..4
    <3>1. i \in 1..8 /\ 4 + i \in 1..8 /\ i \in 1..12 /\ 4 + i \in 1..12 /\ 8 + i \in 1..12 /\ i \in 1..15 /\ 4 + i \in 1..15 /\ 8 + i \in 1..15
      OBVIOUS
    <3>2. fh[i] = p1[i] /\ fh[4 + i] = p2[i] /\ fh[8 + i] = p3[i]
      BY <2>3, <3>1, Zenon
    <3> QED BY <2>2, <3>1, <3>2, Zenon
  <2>5. \A i \in 1..4 : SubSeq(bs, 1, 4)[i] = bs[i] /\ SubSeq(bs, 5, 8)[i] = bs[4 + i] /\ SubSeq(bs, 9, 12)[i] = bs[8 + i]
    <3>1. \A i \in 1..15 : bs[i] \in Byte
      <4>1. \A l \in Nat : l >= 15 => 1..15 \subseteq 1..l
        OBVIOUS
      <4>2. 1..15 \subseteq 1..Len(bs)
        <5>1. Len(bs) \in Nat
          BY <2>2
        <5> QED BY <2>2, <4>1, <5>1, Zenon
      <4> QED BY <2>2, <4>2, ElementOfSeq, Zenon
    <3> HIDE DEF bs
    <3>2. ASSUME NEW j \in 1..12, j + 3 <= 15, NEW i \in 1..4 PROVE SubSeq(bs, j, j + 3)[i] = bs[j + i - 1]
      <4>1. \A k \in j..(j + 3) : bs[k] \in Byte
        <5>1. \A k \in j..(j + 3) : k \in 1..15
          OBVIOUS
        <5> QED BY <3>1, <5>1, Zenon
      <4>2. i \in 1..((j + 3) - j + 1) /\ j \in Int /\ j + 3 \in Int
        OBVIOUS
      <4> QED BY <4>1, <4>2, SubSeqProperties
    <3> TAKE i \in 1..4
    <3>3. SubSeq(bs, 1, 4)[i] = bs[1 + i - 1] /\ SubSeq(bs, 5, 8)[i] = bs[5 + i - 1] /\ SubSeq(bs, 9, 12)[i] = bs[9 + i - 1]
      <4>1. SubSeq(bs, 1, 1 + 3)[i] = bs[1 + i - 1] /\ SubSeq(bs, 5, 5 + 3)[i] = bs[5 + i - 1] /\ SubSeq(bs, 9, 9 + 3)[i] = bs[9 + i - 1]
        BY <3>2
      <4>2. 1 + 3 = 4 /\ 5 + 3 = 8 /\ 9 + 3 = 12
        OBVIOUS
      <4> QED BY <4>1, <4>2
    <3> QED BY <3>3
  <2>6. bs[13] = fh[12 + 1] /\ bs[14] = fh[12 + 2] /\ bs[15] = fh[12 + 3]
    BY <2>2
  <2>7. fh[12 + 1] = v /\ fh[12 + 2] = c /\ fh[12 + 3] = s
    BY <1>4, <2>3
  <2> QED BY <2>4, <2>5, <2>6, <2>7, Zenon
<1>11. ASSUME NEW p, NEW q, \A i \in 1..4 : p[i] = q[i] PROVE Uint32(p) = Uint32(q)
  <2>1. p[1] = q[1] /\ p[2] = q[2] /\ p[3] = q[3] /\ p[4] = q[4]
    BY <1>11
  <2> QED BY <2>1, SMT DEF Uint32
<1>12. /\ Uint32(SubSeq(bs, 1, 4)) = m.headLength /\ Uint32(SubSeq(bs, 5, 8)) = m.bodyLength
       /\ Uint32(SubSeq(bs, 9, 12)) = m.fixed.id
  BY <1>2, <1>10, <1>11, Zenon
<1>13. DecodeFixed(bs) = m.fixed
  BY <1>1, <1>10, <1>12, Zenon DEF DecodeFixed
<1>14. HeadIsRead(m, bs)
  BY <1>12, <1>13, Zenon DEF HeadIsRead
<1> QED BY <1>9, <1>14 DEF fh, bs

\* A message whose lengths are set, both as SetHeadLength and SetBodyLength
\* set them.
SizedRequest(m) ==
  /\ m \in [kind : {"req"}, headLength : Nat, bodyLength : Nat, fixed : Fixed, service : Name,
            method : Name, meta : Metas, data : Body, nils : SUBSET {"meta", "data"}]
  /\ m.headLength = SetHeadLength(m) /\ m.bodyLength = SetBodyLength(m)
  /\ FitsUint32(m.headLength + m.bodyLength)
SizedResponse(m) ==
  /\ m \in [kind : {"resp"}, headLength : Nat, bodyLength : Nat, fixed : Fixed, error : Body, data : Body,
            nils : SUBSET {"error", "data"}]
  /\ m.headLength = RespSetHeadLength(m) /\ m.bodyLength = SetBodyLength(m)
  /\ FitsUint32(m.headLength + m.bodyLength)

\* The part of a request's head behind the fixed fields.
Names(m, keys) == m.service \o <<splitter>> \o m.method \o <<splitter>> \o Pairs(m.meta, keys)

\* The parts that EncodeReq writes have the lengths that were set, so that
\* nothing is cut off and nothing of the buffer is left.
LEMMA RequestWire ==
  ASSUME NEW m, SizedRequest(m), NEW keys \in Orders(DOMAIN m.meta)
  PROVE  /\ IsMeta(m.meta) /\ OnceEachKey(keys, DOMAIN m.meta) /\ HasHead(m)
         /\ m.service \in Seq(Byte \ {splitter}) /\ m.method \in Seq(Byte \ {splitter})
         /\ Pairs(m.meta, keys) \in Seq(Byte) /\ Names(m, keys) \in Seq(Byte) /\ m.data \in Seq(Byte)
         /\ m.headLength = 15 + Len(Names(m, keys)) /\ m.bodyLength = Len(m.data)
         /\ Len(Names(m, keys)) > 0 /\ Names(m, keys)[Len(Names(m, keys))] = splitter
         /\ EncodeReq(m, keys) = FixedHead(m) \o Names(m, keys) \o m.data
         /\ Pairs(m.meta, keys) = <<>> <=> DOMAIN m.meta = {}
<1> DEFINE n == Len(keys)
           y == <<splitter>>
           sv == m.service
           mt == m.method
           da == m.data
           ps == Pairs(m.meta, keys)
           na == Names(m, keys)
           fh == FixedHead(m)
<1>1. IsMeta(m.meta)
  BY CodecAssumption DEF SizedRequest, IsMeta
<1>2. OnceEachKey(keys, DOMAIN m.meta)
  BY <1>1, OrderFacts DEF IsMeta
<1>3. sv \in Seq(Byte \ {splitter}) /\ mt \in Seq(Byte \ {splitter}) /\ da \in Seq(Byte)
  BY CodecAssumption DEF SizedRequest
<1>4. sv \in Seq(Byte) /\ mt \in Seq(Byte)
  <2>1. Byte \ {splitter} \subseteq Byte
    OBVIOUS
  <2> QED BY <1>3, <2>1, SeqMonotonic
<1>5. /\ m.headLength \in Nat /\ m.bodyLength \in Nat /\ m.fixed \in Fixed /\ m.headLength = SetHeadLength(m)
      /\ m.bodyLength = Len(da) /\ FitsUint32(m.headLength + m.bodyLength)
  BY DEF SizedRequest, SetBodyLength
<1>6. HasHead(m)
  BY <1>5, FitsLess, Zenon DEF HasHead
<1>7. PICK w : Written(w, m.meta, keys) /\ ps = w[n]
  BY <1>1, <1>2, PairsWritten
<1>8. MetaLength(m.meta) = Len(ps)
  BY <1>1, <1>2, <1>7, MetaLengthExact
<1>9. n \in Nat /\ \A k \in 1..n : keys[k] \in DOMAIN m.meta
  BY <1>2 DEF OnceEachKey
<1>10. ps \in Seq(Byte)
  <2>1. n \in 0..n
    BY <1>9
  <2> QED BY <1>7, <2>1, Zenon DEF Written
<1>11. (IF n = 0 THEN ps = <<>> ELSE ps # <<>>) /\ (ps = <<>> \/ ps[Len(ps)] = splitter)
  <2>1. CASE n = 0
    BY <1>7, <2>1, Zenon DEF Written
  <2>2. CASE n # 0
    <3> DEFINE p == Pair(m.meta, keys[n])
    <3>1. n \in 1..n /\ n - 1 \in 0..n
      BY <1>9, <2>2
    <3>2. ps = w[n - 1] \o p /\ w[n - 1] \in Seq(Byte)
      BY <1>7, <3>1, Zenon DEF Written
    <3>3. p \in Seq(Byte) /\ p[Len(p)] = splitter /\ Len(p) # 0
      <4>1. /\ keys[n] \in Seq(Byte) /\ m.meta[keys[n]] \in Seq(Byte) /\ p \in Seq(Byte) /\ p[Len(p)] = splitter
            /\ Len(p) = Len(keys[n]) + 1 + Len(m.meta[keys[n]]) + 1
        BY <1>1, <1>9, <3>1, PairFacts, Zenon
      <4>2. \A a, b \in Seq(Byte) : Len(a) + 1 + Len(b) + 1 # 0
        OBVIOUS
      <4> QED BY <4>1, <4>2, Zenon
    <3> HIDE DEF p, ps
    <3>4. Joined(ps, w[n - 1], p)
      BY <3>2, <3>3, ByteCat, Zenon
    <3>5. Len(p) \in 1..Len(p)
      BY <3>3
    <3>6. Len(ps) = Len(w[n - 1]) + Len(p)
      BY <3>4, Zenon DEF Joined
    <3>7. ps # <<>>
      BY <3>2, <3>3, <3>6
    <3> QED BY <2>2, <3>3, <3>4, <3>5, <3>7, Zenon DEF Joined
  <2> QED BY <2>1, <2>2, Zenon
<1>28. ps = <<>> <=> DOMAIN m.meta = {}
  <2>1. n = 0 <=> DOMAIN m.meta = {}
    BY <1>2, <1>9 DEF OnceEachKey
  <2> QED BY <1>11, <2>1, Zenon
<1>12. splitter \in Byte /\ y \in Seq(Byte) /\ Len(y) = 1 /\ y[1] = splitter
  BY DEF splitter, Byte
<1>13. na = sv \o y \o mt \o y \o ps
  BY Zenon DEF Names
<1> HIDE DEF y, sv, mt, da, ps, na, fh
<1> DEFINE a1 == sv \o y
           a2 == a1 \o mt
           a3 == a2 \o y
<1>14. a1 \in Seq(Byte) /\ Len(a1) = Len(sv) + Len(y)
  BY <1>4, <1>12, ByteCat, Zenon DEF Joined
<1> HIDE DEF a1
<1>15. a2 \in Seq(Byte) /\ Len(a2) = Len(a1) + Len(mt)
  BY <1>4, <1>14, ByteCat, Zenon DEF Joined
<1> HIDE DEF a2
<1>16. Joined(a3, a2, y)
  BY <1>12, <1>15, ByteCat
<1>17. na = a3 \o ps
  BY <1>13, Zenon DEF a1, a2
<1> HIDE DEF a3
<1>18. a3 \in Seq(Byte) /\ Len(a3) = Len(a2) + Len(y) /\ a3[Len(a2) + 1] = splitter
  BY <1>12, <1>16 DEF Joined
<1>19. Joined(na, a3, ps)
  BY <1>10, <1>17, <1>18, ByteCat
<1>20. na \in Seq(Byte) /\ Len(na) = Len(sv) + 1 + Len(mt) + 1 + Len(ps)
  <2>1. na \in Seq(Byte) /\ Len(na) = Len(a3) + Len(ps)
    BY <1>19, Zenon DEF Joined
  <2> QED BY <1>12, <1>14, <1>15, <1>18, <2>1, Zenon
<1>21. na[Len(na)] = splitter
  <2>1. CASE ps = <<>>
    <3>1. na = a3
      BY <1>17, <1>18, <2>1, ConcatEmptySeq
    <3> QED BY <1>12, <1>18, <3>1
  <2>2. CASE ps # <<>>
    <3>1. Len(ps) \in 1..Len(ps)
      BY <1>10, <2>2
    <3> QED BY <1>11, <1>19, <2>2, <3>1, Zenon DEF Joined
  <2> QED BY <2>1, <2>2, Zenon
<1>22. m.headLength = 15 + Len(na) /\ Len(na) > 0
  <2>1. m.headLength = 15 + Len(sv) + 1 + Len(mt) + 1 + Len(ps)
    BY <1>5, <1>8, Zenon DEF SetHeadLength, FixedPart, sv, mt
  <2>2. Len(sv) \in Nat /\ Len(mt) \in Nat /\ Len(ps) \in Nat
    BY <1>4, <1>10
  <2> QED BY <1>20, <2>1, <2>2
<1>23. fh \in Seq(Byte) /\ Len(fh) = 15
  BY <1>6, <1>10, FixedHeadReads DEF fh
<1>24. fh \o sv \o y \o mt \o y \o ps = fh \o na
  <2>1. (fh \o sv) \o y = fh \o a1
    <3>1. Assoc(fh, sv, y)
      BY <1>4, <1>12, <1>23, ByteAssoc, Zenon
    <3> QED BY <3>1, Zenon DEF Assoc, a1
  <2>2. (fh \o a1) \o mt = fh \o a2
    <3>1. Assoc(fh, a1, mt)
      BY <1>4, <1>14, <1>23, ByteAssoc, Zenon
    <3> QED BY <3>1, Zenon DEF Assoc, a2
  <2>3. (fh \o a2) \o y = fh \o a3
    <3>1. Assoc(fh, a2, y)
      BY <1>12, <1>15, <1>23, ByteAssoc, Zenon
    <3> QED BY <3>1, Zenon DEF Assoc, a3
  <2>4. (fh \o a3) \o ps = fh \o na
    <3>1. Assoc(fh, a3, ps)
      BY <1>10, <1>18, <1>23, ByteAssoc, Zenon
    <3> QED BY <1>17, <3>1, Zenon DEF Assoc
  <2> QED BY <2>1, <2>2, <2>3, <2>4, Zenon
<1>25. EncodeReq(m, keys) = InBuffer(m, fh \o na \o da)
  <2>1. EncodeReq(m, keys) = InBuffer(m, fh \o sv \o y \o mt \o y \o ps \o da)
    BY Zenon DEF EncodeReq, fh, sv, y, mt, ps, da
  <2> QED BY <1>24, <2>1, Zenon
<1>26. fh \o na \o da \in Seq(Byte) /\ Len(fh \o na \o da) = m.headLength + m.bodyLength
  <2>1. \A a, b, c \in Seq(Byte) : a \o b \o c \in Seq(Byte) /\ Len(a \o b \o c) = Len(a) + Len(b) + Len(c)
    OBVIOUS
  <2>2. fh \o na \o da \in Seq(Byte) /\ Len(fh \o na \o da) = Len(fh) + Len(na) + Len(da)
    BY <1>3, <1>20, <1>23, <2>1, Zenon
  <2> QED BY <1>5, <1>22, <1>23, <2>2, Zenon
<1>27. EncodeReq(m, keys) = fh \o na \o da
  BY <1>25, <1>26, InBufferExact, Zenon
<1> QED BY <1>1, <1>2, <1>3, <1>5, <1>6, <1>10, <1>20, <1>21, <1>22, <1>27, <1>28, Zenon DEF sv, mt, ps, na, fh, da

\* What WireExact says of an encoded message.
ExactWire(m, bs) ==
  /\ Len(bs) = m.headLength + m.bodyLength
  /\ SubSeq(bs, m.headLength + 1, Len(bs)) = m.data
  /\ m.kind = "req" => bs[m.headLength] = splitter

(* The buffer that EncodeReq returns is exact, in every order of the map. *)
LEMMA RequestExact ==
  ASSUME NEW m, SizedRequest(m), NEW keys \in Orders(DOMAIN m.meta)
  PROVE  ExactWire(m, EncodeReq(m, keys))
<1> DEFINE fh == FixedHead(m)
           na == Names(m, keys)
           da == m.data
           bs == EncodeReq(m, keys)
<1>1. /\ na \in Seq(Byte) /\ da \in Seq(Byte) /\ HasHead(m)
      /\ m.headLength = 15 + Len(na) /\ m.bodyLength = Len(da) /\ Len(na) > 0 /\ na[Len(na)] = splitter
      /\ bs = fh \o na \o da
  BY RequestWire, Zenon
<1>2. fh \in Seq(Byte) /\ Len(fh) = 15
  BY <1>1, FixedHeadReads
<1> HIDE DEF fh, na, da, bs
<1>3. CutInto(bs, fh, na, da)
  BY <1>1, <1>2, Parts
<1>4. Len(bs) = m.headLength + m.bodyLength
  BY <1>1, <1>2, <1>3, Zenon DEF CutInto
<1>5. SubSeq(bs, m.headLength + 1, Len(bs)) = da
  BY <1>1, <1>2, <1>3, <1>4, Zenon DEF CutInto
<1>6. bs[m.headLength] = splitter
  <2> DEFINE hd == fh \o na
  <2>1. Joined(hd, fh, na)
    BY <1>1, <1>2, ByteCat
  <2>2. hd \in Seq(Byte) /\ Len(hd) = m.headLength /\ \A i \in 1..Len(na) : hd[15 + i] = na[i]
    BY <1>1, <1>2, <2>1, Zenon DEF Joined
  <2>3. bs = hd \o da
    BY <1>1
  <2> HIDE DEF hd
  <2>4. Joined(bs, hd, da)
    BY <1>1, <2>2, <2>3, ByteCat
  <2>5. Len(na) \in Nat
    BY <1>1
  <2>6. Len(na) \in 1..Len(na) /\ m.headLength \in 1..Len(hd)
    BY <1>1, <2>2, <2>5
  <2>7. bs[m.headLength] = hd[m.headLength]
    BY <2>4, <2>6, Zenon DEF Joined
  <2> QED BY <1>1, <2>2, <2>6, <2>7, Zenon
<1> QED BY <1>4, <1>5, <1>6 DEF ExactWire, bs, da

\* DecodeReq reads back the request, with Meta nil if it has no pairs and Data
\* not nil.
LEMMA RequestRead ==
  ASSUME NEW m, SizedRequest(m), NEW keys \in Orders(DOMAIN m.meta)
  PROVE  DecodeReq(EncodeReq(m, keys)) = [m EXCEPT !.nils = NilsOf(m)]
<1> DEFINE y == <<splitter>>
           fh == FixedHead(m)
           na == Names(m, keys)
           ps == Pairs(m.meta, keys)
           sv == m.service
           mt == m.method
           da == m.data
           bs == EncodeReq(m, keys)
<1>1. /\ na \in Seq(Byte) /\ da \in Seq(Byte) /\ ps \in Seq(Byte) /\ HasHead(m)
      /\ sv \in Seq(Byte \ {splitter}) /\ mt \in Seq(Byte \ {splitter})
      /\ m.headLength = 15 + Len(na) /\ m.bodyLength = Len(da)
      /\ bs = fh \o na \o da /\ IsMeta(m.meta) /\ OnceEachKey(keys, DOMAIN m.meta)
      /\ ps = <<>> <=> DOMAIN m.meta = {}
  BY RequestWire, Zenon
<1>2. fh \in Seq(Byte) /\ Len(fh) = 15
  BY <1>1, FixedHeadReads
<1>3. sv \in Seq(Byte) /\ mt \in Seq(Byte)
  <2>1. Byte \ {splitter} \subseteq Byte
    OBVIOUS
  <2> QED BY <1>1, <2>1, SeqMonotonic
<1>4. splitter \in Byte /\ y \in Seq(Byte)
  BY DEF splitter, Byte
<1>5. HeadIsRead(m, bs)
  <2> DEFINE rest == na \o da
  <2>1. rest \in Seq(Byte)
    BY <1>1, ByteCat DEF Joined
  <2>2. bs = fh \o rest
    <3> HIDE DEF fh, na, da, bs
    <3>1. Assoc(fh, na, da)
      BY <1>1, <1>2, ByteAssoc, Zenon
    <3> QED BY <1>1, <3>1, Zenon DEF Assoc
  <2> HIDE DEF rest, bs
  <2>3. HeadIsRead(m, fh \o rest)
    BY <1>1, <2>1, FixedHeadReads
  <2> QED BY <2>2, <2>3, Zenon
<1>6. na = sv \o y \o mt \o y \o ps
  BY Zenon DEF Names
<1>7. DecodeMeta(ps) = m.meta
  BY <1>1, DecodeMetaReads
<1>8. [m EXCEPT !.nils = NilsOf(m)] =
        [kind |-> "req", headLength |-> m.headLength, bodyLength |-> m.bodyLength, fixed |-> m.fixed,
         service |-> sv, method |-> mt, meta |-> m.meta, data |-> da, nils |-> NilsOf(m)]
  BY DEF SizedRequest
<1>16. NilsOf(m) = IF Len(ps) > 0 THEN {} ELSE {"meta"}
  <2>1. m.kind = "req"
    BY DEF SizedRequest
  <2>2. NilsOf(m) = IF DOMAIN m.meta = {} THEN {"meta"} ELSE {}
    BY <2>1 DEF NilsOf
  <2>3. Len(ps) > 0 <=> ps # <<>>
    <3>1. \A s \in Seq(Byte) : Len(s) > 0 <=> s # <<>>
      OBVIOUS
    <3> QED BY <1>1, <3>1, Zenon
  <2> QED BY <1>1, <2>2, <2>3, Zenon
<1> HIDE DEF fh, na, ps, sv, mt, da, bs, y
<1>9. na = sv \o y \o (mt \o y \o ps) /\ mt \o y \o ps \in Seq(Byte)
  <2> DEFINE a == sv \o y
             b == mt \o y
  <2>1. a \in Seq(Byte) /\ b \in Seq(Byte)
    BY <1>3, <1>4, ByteCat DEF Joined
  <2>2. na = ((a \o mt) \o y) \o ps
    BY <1>6
  <2> HIDE DEF a
  <2>3. (a \o mt) \o y = a \o b
    <3>1. Assoc(a, mt, y)
      BY <1>3, <1>4, <2>1, ByteAssoc, Zenon
    <3> QED BY <3>1, Zenon DEF Assoc
  <2> HIDE DEF b
  <2>4. (a \o b) \o ps = a \o (b \o ps)
    <3>1. Assoc(a, b, ps)
      BY <1>1, <2>1, ByteAssoc, Zenon
    <3> QED BY <3>1, Zenon DEF Assoc
  <2>5. b \o ps \in Seq(Byte)
    BY <1>1, <2>1, ByteCat DEF Joined
  <2> QED BY <2>2, <2>3, <2>4, <2>5, Zenon DEF a, b
<1> DEFINE rest == mt \o y \o ps
<1>10. Before(na, splitter) = sv /\ After(na, splitter) = rest
  <2>1. rest \in Seq(Byte) /\ na = sv \o <<splitter>> \o rest
    BY <1>9 DEF y
  <2> HIDE DEF rest
  <2> QED BY <1>1, <1>4, <2>1, IndexByteFinds, Zenon
<1>11. Before(rest, splitter) = mt /\ After(rest, splitter) = ps
  <2>1. rest = mt \o <<splitter>> \o ps
    BY DEF y
  <2> HIDE DEF rest
  <2> QED BY <1>1, <1>4, <2>1, IndexByteFinds, Zenon
<1> HIDE DEF rest
<1>12. CutInto(bs, fh, na, da)
  BY <1>1, <1>2, Parts
<1>13. SubSeq(bs, FixedPart + 1, m.headLength) = na
  BY <1>1, <1>2, <1>12, Zenon DEF CutInto, FixedPart
<1>14. SubSeq(bs, m.headLength + 1, Len(bs)) = da
  BY <1>1, <1>2, <1>12, Zenon DEF CutInto
<1>15. DecodeReq(bs) = [kind |-> "req", headLength |-> m.headLength, bodyLength |-> m.bodyLength, fixed |-> m.fixed,
                        service |-> sv, method |-> mt, meta |-> m.meta, data |-> da, nils |-> NilsOf(m)]
  BY <1>5, <1>7, <1>10, <1>11, <1>13, <1>14, <1>16, Zenon DEF DecodeReq, HeadIsRead
<1> QED BY <1>8, <1>15 DEF bs

\* EncodeResp fills its buffer, and DecodeResp reads back the response: an
\* empty error and an empty body too, which are nil then.
LEMMA ResponseRead ==
  ASSUME NEW m, SizedResponse(m)
  PROVE  ExactWire(m, EncodeResp(m)) /\ DecodeResp(EncodeResp(m)) = [m EXCEPT !.nils = NilsOf(m)]
<1> DEFINE fh == FixedHead(m)
           er == m.error
           da == m.data
           bs == EncodeResp(m)
<1>1. /\ er \in Seq(Byte) /\ da \in Seq(Byte)
      /\ m.headLength = 15 + Len(er) /\ m.bodyLength = Len(da)
  BY CodecAssumption DEF SizedResponse, RespSetHeadLength, SetBodyLength, FixedPart
<1>2. /\ m.headLength \in Nat /\ m.bodyLength \in Nat /\ m.fixed \in Fixed /\ m.kind = "resp"
      /\ FitsUint32(m.headLength + m.bodyLength)
  BY DEF SizedResponse
<1>3. HasHead(m)
  BY <1>2, FitsLess, Zenon DEF HasHead
<1>4. [m EXCEPT !.nils = NilsOf(m)] =
        [kind |-> "resp", headLength |-> m.headLength, bodyLength |-> m.bodyLength, fixed |-> m.fixed,
         error |-> er, data |-> da, nils |-> NilsOf(m)]
  BY DEF SizedResponse
<1>5. fh \in Seq(Byte) /\ Len(fh) = 15
  BY <1>1, <1>3, FixedHeadReads
<1>6. bs = InBuffer(m, fh \o er \o da)
  BY Zenon DEF EncodeResp
<1> HIDE DEF fh, er, da, bs
<1>7. CutInto(fh \o er \o da, fh, er, da)
  BY <1>1, <1>5, Parts
<1>8. bs = fh \o er \o da
  <2>1. \A a, b, c \in Seq(Byte) : a \o b \o c \in Seq(Byte)
    OBVIOUS
  <2>2. fh \o er \o da \in Seq(Byte)
    BY <1>1, <1>5, <2>1
  <2>3. Len(fh \o er \o da) = m.headLength + m.bodyLength
    BY <1>1, <1>5, <1>7, Zenon DEF CutInto
  <2> QED BY <1>6, <2>2, <2>3, InBufferExact, Zenon
<1>9. CutInto(bs, fh, er, da)
  BY <1>7, <1>8, Zenon
<1>10. /\ Len(bs) = m.headLength + m.bodyLength
       /\ SubSeq(bs, FixedPart + 1, m.headLength) = er
       /\ SubSeq(bs, m.headLength + 1, Len(bs)) = da
  <2>1. Len(bs) = m.headLength + m.bodyLength
    BY <1>1, <1>5, <1>9, Zenon DEF CutInto
  <2>2. SubSeq(bs, FixedPart + 1, m.headLength) = er
    BY <1>1, <1>5, <1>9, Zenon DEF CutInto, FixedPart
  <2>3. SubSeq(bs, m.headLength + 1, Len(bs)) = da
    BY <1>1, <1>5, <1>9, <2>1, Zenon DEF CutInto
  <2> QED BY <2>1, <2>2, <2>3
<1>11. HeadIsRead(m, bs)
  <2> DEFINE rest == er \o da
  <2>1. rest \in Seq(Byte)
    BY <1>1, ByteCat DEF Joined
  <2>2. bs = fh \o rest
    <3>1. Assoc(fh, er, da)
      BY <1>1, <1>5, ByteAssoc, Zenon
    <3> QED BY <1>8, <3>1, Zenon DEF Assoc
  <2> HIDE DEF rest
  <2>3. HeadIsRead(m, fh \o rest)
    BY <1>3, <2>1, FixedHeadReads DEF fh
  <2> QED BY <2>2, <2>3, Zenon
<1>12. ~(m.headLength > FixedPart) => er = <<>>
  BY <1>1 DEF FixedPart
<1>13. m.bodyLength = 0 => da = <<>>
  <2>1. \A s \in Seq(Byte) : Len(s) = 0 => s = <<>>
    OBVIOUS
  <2> QED BY <1>1, <2>1, Zenon
<1>16. NilsOf(m) = {f \in {"error", "data"} : IF f = "error" THEN m.headLength <= FixedPart ELSE m.bodyLength = 0}
  <2>1. er = <<>> <=> m.headLength <= FixedPart
    BY <1>1, <1>12 DEF FixedPart
  <2>2. da = <<>> <=> m.bodyLength = 0
    BY <1>1, <1>13
  <2>3. NilsOf(m) = {f \in {"error", "data"} : IF f = "error" THEN er = <<>> ELSE da = <<>>}
    BY <1>2 DEF NilsOf, er, da
  <2> QED BY <2>1, <2>2, <2>3
<1>14. DecodeResp(bs) = [kind |-> "resp", headLength |-> m.headLength, bodyLength |-> m.bodyLength,
                         fixed |-> m.fixed, error |-> er, data |-> da, nils |-> NilsOf(m)]
  BY <1>10, <1>11, <1>12, <1>13, <1>16, Zenon DEF DecodeResp, HeadIsRead
<1>15. ExactWire(m, bs)
  BY <1>2, <1>10 DEF ExactWire, da
<1> QED BY <1>4, <1>14, <1>15 DEF bs

(***************************************************************************)
(* The specification.                                                      *)
(***************************************************************************)
\* The inductive invariant: what is known of the message at every stage.
\* WireExact and RoundTrip say nothing of the stages before, so neither is
\* inductive: that the lengths are those of this message, and the wire the
\* encoding of this message in an order of its map, has to be carried along.
CodecInv ==
  /\ stage \in {"new", "sized", "encoded", "decoded"}
  /\ stage = "new" => msg \in Request \cup Response
  /\ stage # "new" => SizedRequest(msg) \/ SizedResponse(msg)
  /\ stage \in {"encoded", "decoded"} =>
       IF msg.kind = "req" THEN order \in Orders(DOMAIN msg.meta) /\ wire = EncodeReq(msg, order)
       ELSE wire = EncodeResp(msg)
  /\ stage = "decoded" => got = IF msg.kind = "req" THEN DecodeReq(wire) ELSE DecodeResp(wire)

\* Setting the lengths of a new message gives one whose lengths are exact
\* and fit into the head.
LEMMA SetLengthsSizes ==
  ASSUME msg \in Request \cup Response, SetLengths
  PROVE  SizedRequest(msg') \/ SizedResponse(msg')
<1>1. CASE msg \in Request
  <2> DEFINE h == SetHeadLength(msg)
             b == SetBodyLength(msg)
  <2>1. /\ msg.kind = "req" /\ msg.fixed \in Fixed /\ msg.service \in Name /\ msg.method \in Name
        /\ msg.meta \in Metas /\ msg.data \in Body
    BY <1>1 DEF Request
  <2>2. msg' = [msg EXCEPT !.headLength = h, !.bodyLength = b]
    BY <2>1 DEF SetLengths
  <2>3. FitsUint32(h + b)
    BY <2>1, SizeAssumption, Zenon DEF Size
  <2>4. h \in Nat /\ b \in Nat
    <3>1. IsMeta(msg.meta)
      BY <2>1, CodecAssumption, Zenon DEF IsMeta
    <3>2. PICK keys \in Orders(DOMAIN msg.meta) : TRUE
      BY <3>1, OrderExists DEF IsMeta
    <3>3. OnceEachKey(keys, DOMAIN msg.meta)
      BY <3>1, OrderFacts DEF IsMeta
    <3>4. PICK w : Written(w, msg.meta, keys)
      BY <3>1, <3>3, PairsWritten
    <3>5. MetaLength(msg.meta) = Len(w[Len(keys)])
      BY <3>1, <3>3, <3>4, MetaLengthExact
    <3>6. w[Len(keys)] \in Seq(Byte)
      <4>1. Len(keys) \in 0..Len(keys)
        BY <3>3 DEF OnceEachKey
      <4> QED BY <3>4, <4>1, Zenon DEF Written
    <3>7. MetaLength(msg.meta) \in Nat
      BY <3>5, <3>6
    <3>8. Len(msg.service) \in Nat /\ Len(msg.method) \in Nat /\ Len(msg.data) \in Nat
      BY <2>1, CodecAssumption
    <3>9. \A i, j, k \in Nat : 15 + i + 1 + j + 1 + k \in Nat
      OBVIOUS
    <3> QED BY <3>7, <3>8, <3>9, Zenon DEF SetHeadLength, SetBodyLength, FixedPart
  <2> HIDE DEF h, b
  <2>5. /\ msg' \in [kind : {"req"}, headLength : Nat, bodyLength : Nat, fixed : Fixed, service : Name,
                     method : Name, meta : Metas, data : Body, nils : SUBSET {"meta", "data"}]
        /\ msg'.headLength = h /\ msg'.bodyLength = b /\ msg'.service = msg.service
        /\ msg'.method = msg.method /\ msg'.meta = msg.meta /\ msg'.data = msg.data
    BY <1>1, <2>2, <2>4, Zenon DEF Request
  <2>6. SetHeadLength(msg') = h /\ SetBodyLength(msg') = b
    BY <2>5, Zenon DEF SetHeadLength, SetBodyLength, h, b
  <2> QED BY <2>3, <2>5, <2>6, Zenon DEF SizedRequest
<1>2. CASE msg \in Response
  <2> DEFINE h == RespSetHeadLength(msg)
             b == SetBodyLength(msg)
  <2>1. msg.kind = "resp" /\ msg.kind # "req" /\ msg.fixed \in Fixed /\ msg.error \in Body /\ msg.data \in Body
    BY <1>2 DEF Response
  <2>2. msg' = [msg EXCEPT !.headLength = h, !.bodyLength = b]
    BY <2>1 DEF SetLengths
  <2>3. FitsUint32(h + b)
    BY <2>1, SizeAssumption, Zenon DEF Size
  <2>4. h \in Nat /\ b \in Nat
    <3>1. Len(msg.error) \in Nat /\ Len(msg.data) \in Nat
      BY <2>1, CodecAssumption
    <3> QED BY <3>1 DEF RespSetHeadLength, SetBodyLength, FixedPart
  <2> HIDE DEF h, b
  <2>5. /\ msg' \in [kind : {"resp"}, headLength : Nat, bodyLength : Nat, fixed : Fixed, error : Body, data : Body,
                     nils : SUBSET {"error", "data"}]
        /\ msg'.headLength = h /\ msg'.bodyLength = b /\ msg'.error = msg.error /\ msg'.data = msg.data
    BY <1>2, <2>2, <2>4, Zenon DEF Response
  <2>6. RespSetHeadLength(msg') = h /\ SetBodyLength(msg') = b
    BY <2>5, Zenon DEF RespSetHeadLength, SetBodyLength, h, b
  <2> QED BY <2>3, <2>5, <2>6, Zenon DEF SizedResponse
<1> QED BY <1>1, <1>2

\* The invariant holds at every stage of every message.
THEOREM CodecInvariant == CodecSpec => []CodecInv
<1>1. CodecInit => CodecInv
  BY DEF CodecInit, CodecInv
<1>2. CodecInv /\ [CodecNext]_codecVars => CodecInv'
  <2> SUFFICES ASSUME CodecInv, [CodecNext]_codecVars PROVE CodecInv'
    OBVIOUS
  <2>1. CASE SetLengths
    <3>1. stage = "new" /\ stage' = "sized" /\ msg \in Request \cup Response
      BY <2>1 DEF SetLengths, CodecInv
    <3>2. SizedRequest(msg') \/ SizedResponse(msg')
      BY <2>1, <3>1, SetLengthsSizes
    <3> QED BY <3>1, <3>2 DEF CodecInv
  <2>2. CASE Encode
    <3>1. stage = "sized" /\ stage' = "encoded" /\ msg' = msg /\ (SizedRequest(msg) \/ SizedResponse(msg))
      BY <2>2 DEF Encode, CodecInv
    <3>2. IF msg.kind = "req" THEN order' \in Orders(DOMAIN msg.meta) /\ wire' = EncodeReq(msg, order')
          ELSE wire' = EncodeResp(msg)
      BY <2>2 DEF Encode
    <3> QED BY <3>1, <3>2 DEF CodecInv
  <2>3. CASE Decode
    <3>1. stage = "encoded" /\ stage' = "decoded" /\ msg' = msg /\ order' = order /\ wire' = wire
      BY <2>3 DEF Decode
    <3>2. got' = IF msg.kind = "req" THEN DecodeReq(wire) ELSE DecodeResp(wire)
      BY <2>3 DEF Decode
    <3> QED BY <3>1, <3>2 DEF CodecInv
  <2>4. CASE UNCHANGED codecVars
    BY <2>4 DEF codecVars, CodecInv
  <2> QED BY <2>1, <2>2, <2>3, <2>4 DEF CodecNext
<1> QED BY <1>1, <1>2, PTL DEF CodecSpec

\* The lengths set before encoding are exact for every message and every
\* order of its Meta pairs: SetHeadLength and EncodeReq, EncodeResp.
THEOREM WireIsExact == CodecSpec => []WireExact
<1>1. CodecInv => WireExact
  <2> SUFFICES ASSUME CodecInv, stage \in {"encoded", "decoded"} PROVE ExactWire(msg, wire)
    BY DEF WireExact, ExactWire
  <2>1. SizedRequest(msg) \/ SizedResponse(msg)
    BY DEF CodecInv
  <2>2. CASE SizedRequest(msg)
    <3>1. msg.kind = "req"
      BY <2>2 DEF SizedRequest
    <3>2. order \in Orders(DOMAIN msg.meta) /\ wire = EncodeReq(msg, order)
      BY <3>1 DEF CodecInv
    <3> QED BY <2>2, <3>2, RequestExact
  <2>3. CASE SizedResponse(msg)
    <3>1. msg.kind # "req"
      BY <2>3 DEF SizedResponse
    <3>2. wire = EncodeResp(msg)
      BY <3>1 DEF CodecInv
    <3> QED BY <2>3, <3>2, ResponseRead
  <2> QED BY <2>1, <2>2, <2>3
<1> QED BY <1>1, CodecInvariant, PTL

\* Decoding undoes encoding: DecodeReq and DecodeResp give back every field
\* of the message, the whole Meta map included, but not which of its empty
\* slices and maps were nil.
THEOREM DecodeUndoesEncode == CodecSpec => []RoundTrip
<1>1. CodecInv => RoundTrip
  <2> SUFFICES ASSUME CodecInv, stage = "decoded" PROVE got = [msg EXCEPT !.nils = NilsOf(msg)]
    BY DEF RoundTrip
  <2>1. SizedRequest(msg) \/ SizedResponse(msg)
    BY DEF CodecInv
  <2>2. CASE SizedRequest(msg)
    <3>1. msg.kind = "req"
      BY <2>2 DEF SizedRequest
    <3>2. order \in Orders(DOMAIN msg.meta) /\ wire = EncodeReq(msg, order) /\ got = DecodeReq(wire)
      BY <3>1 DEF CodecInv
    <3> QED BY <2>2, <3>2, RequestRead
  <2>3. CASE SizedResponse(msg)
    <3>1. msg.kind # "req"
      BY <2>3 DEF SizedResponse
    <3>2. wire = EncodeResp(msg) /\ got = DecodeResp(wire)
      BY <3>1 DEF CodecInv
    <3> QED BY <2>3, <3>2, ResponseRead
  <2> QED BY <2>1, <2>2, <2>3
<1> QED BY <1>1, CodecInvariant, PTL

(***************************************************************************)
(* GracefulShutdown.                                                       *)
(***************************************************************************)
(* Initially nothing was signalled and every server runs. *)
LEMMA InitIInv == Init => IInv
  BY ConstAssumption DEF Init, IInv, TypeOK, StopPhases, CloseAfterCallbacks, StoppedIdle, InTime,
     SecondSignal, GracefulInTime, Ended, Finished

(* The steps of clients and handlers: a stopped server has closed its      *)
(* listener, so no request becomes active there again.                     *)
LEMMA RequestStep ==
  ASSUME IInv, NEW r \in Req, Accept(r) \/ ServeHTTP(r) \/ HandlerReturns(r) PROVE IInv'
<1> USE ConstAssumption DEF IInv
<1>0. UNCHANGED <<phase, signals, sig, t, due, rejected, stop, at, cb, flushed>>
  BY DEF Accept, ServeHTTP, HandlerReturns
<1>1. TypeOK'
  BY <1>0 DEF TypeOK, Accept, ServeHTTP, HandlerReturns, Server
<1>2. StopPhases'
  BY <1>0 DEF StopPhases
<1>3. CloseAfterCallbacks'
  BY <1>0 DEF CloseAfterCallbacks
<1>4. StoppedIdle'
  <2>1. CASE Accept(r)
    BY <1>0, <2>1 DEF TypeOK, StoppedIdle, Active, Accept, Listening
  <2>2. CASE ServeHTTP(r) \/ HandlerReturns(r)
    <3>1. \A s \in Server : Active(s)' \subseteq Active(s)
      BY <1>0, <2>2 DEF TypeOK, Active, ServeHTTP, HandlerReturns
    <3> QED BY <1>0, <3>1 DEF StoppedIdle
  <2> QED BY <2>1, <2>2
<1>5. InTime'
  BY <1>0 DEF InTime, Overrun
<1>6. SecondSignal'
  BY <1>0 DEF SecondSignal
<1>7. GracefulInTime'
  BY <1>0 DEF GracefulInTime, Overrun
<1> QED BY <1>1, <1>2, <1>3, <1>4, <1>5, <1>6, <1>7

(* A signal, and the two ways to the forced exit: the first needs a second *)
(* signal, the second that the phases used up shutdownTimeout.             *)
LEMMA SignalStep ==
  ASSUME IInv, Signal \/ ReceiveSignal \/ ForceSignal \/ ForceTimeout PROVE IInv'
<1> USE ConstAssumption DEF IInv
<1>0. UNCHANGED <<t, due, rejected, stop, req, at, cb, flushed>>
  BY DEF Signal, ReceiveSignal, ForceSignal, ForceTimeout
<1>1. TypeOK'
  BY <1>0 DEF TypeOK, Signal, ReceiveSignal, ForceSignal, ForceTimeout, Ended
<1>2. StopPhases'
  BY <1>0 DEF StopPhases, Signal, ReceiveSignal, ForceSignal, ForceTimeout, Ended
<1>3. CloseAfterCallbacks'
  BY <1>0 DEF CloseAfterCallbacks, Signal, ReceiveSignal, ForceSignal, ForceTimeout
<1>4. StoppedIdle'
  BY <1>0 DEF StoppedIdle, Active
<1>5. InTime'
  BY <1>0 DEF InTime, Overrun, Signal, ReceiveSignal, ForceSignal, ForceTimeout
<1>6. SecondSignal'
  BY <1>0 DEF SecondSignal, TypeOK, Signal, ReceiveSignal, ForceSignal, ForceTimeout, Ended
<1>7. GracefulInTime'
  <2>1. CASE Signal \/ ReceiveSignal
    BY <1>0, <2>1 DEF GracefulInTime, Signal, ReceiveSignal, Ended
  <2>2. CASE ForceSignal
    BY <1>0, <2>2 DEF GracefulInTime, ForceSignal, SecondSignal, TypeOK, Ended
  <2>3. CASE ForceTimeout
    <3>1. phase \in {"reject", "wait", "callbacks", "close"} /\ t >= ShutdownTimeout
      BY <2>3 DEF ForceTimeout, TypeOK, Ended
    <3>2. WaitTime + CbTimeout + CloseTime < ShutdownTimeout => Overrun
      BY <3>1 DEF StopPhases, InTime, TypeOK
    <3> QED BY <1>0, <3>2 DEF GracefulInTime, Overrun
  <2> QED BY <2>1, <2>2, <2>3
<1> QED BY <1>1, <1>2, <1>3, <1>4, <1>5, <1>6, <1>7

(* The exit up to the callbacks.  A server stops before waitTime is over   *)
(* only when it has no active request.                                     *)
LEMMA StopStep ==
  ASSUME IInv,
         RejectReq \/ StopServers \/ StartCallbacks \/ \E s \in Server : StopBegin(s) \/ StopReturns(s)
  PROVE  IInv'
<1> USE ConstAssumption DEF IInv
<1>0. UNCHANGED <<signals, sig, t, req, at, flushed>> /\ phase \in {"reject", "wait"}
      /\ phase' \in {"reject", "wait", "callbacks"}
  BY DEF RejectReq, StopServers, StartCallbacks, StopBegin, StopReturns
<1>1. TypeOK'
  <2>1. CASE RejectReq
    BY <2>1 DEF TypeOK, RejectReq
  <2>2. CASE StopServers
    BY <2>2 DEF TypeOK, StopServers
  <2>3. CASE StartCallbacks
    BY <2>3 DEF TypeOK, StartCallbacks
  <2>4. ASSUME NEW s \in Server, StopBegin(s) \/ StopReturns(s) PROVE TypeOK'
    BY <2>4 DEF TypeOK, StopBegin, StopReturns
  <2> QED BY <2>1, <2>2, <2>3, <2>4
<1>2. StopPhases'
  BY <1>0 DEF TypeOK, StopPhases, RejectReq, StopServers, StartCallbacks, StopBegin, StopReturns
<1>3. CloseAfterCallbacks'
  BY <1>0 DEF CloseAfterCallbacks
<1>4. StoppedIdle'
  <2>1. CASE RejectReq \/ StopServers \/ StartCallbacks
    BY <2>1, <1>0 DEF StoppedIdle, Active, RejectReq, StopServers, StartCallbacks
  <2>2. ASSUME NEW s \in Server, StopBegin(s) \/ StopReturns(s) PROVE StoppedIdle'
    <3>1. \A u \in Server : Active(u)' = Active(u)
      BY <1>0 DEF Active
    <3>2. CASE StopBegin(s)
      BY <1>0, <3>1, <3>2 DEF StoppedIdle, StopBegin, TypeOK
    <3>3. CASE StopReturns(s)
      <4>1. t < WaitTime => Active(s) = {}
        BY <3>3 DEF StopReturns, InTime, TypeOK
      <4>2. \A u \in Server : u # s => stop'[u] = stop[u]
        BY <3>3 DEF StopReturns, TypeOK
      <4> QED BY <1>0, <3>1, <4>1, <4>2 DEF StoppedIdle
    <3> QED BY <2>2, <3>2, <3>3
  <2> QED BY <2>1, <2>2
<1>5. InTime'
  <2>1. CASE RejectReq
    BY <2>1 DEF RejectReq, InTime
  <2>2. CASE StopServers
    BY <2>2 DEF StopServers, InTime, StopPhases, TypeOK
  <2>3. CASE StartCallbacks
    BY <2>3 DEF StartCallbacks, InTime, TypeOK
  <2>4. ASSUME NEW s \in Server, StopBegin(s) \/ StopReturns(s) PROVE InTime'
    BY <2>4 DEF StopBegin, StopReturns, InTime
  <2> QED BY <2>1, <2>2, <2>3, <2>4
<1>6. SecondSignal'
  BY <1>0 DEF SecondSignal
<1>7. GracefulInTime'
  BY <1>0 DEF GracefulInTime
<1> QED BY <1>1, <1>2, <1>3, <1>4, <1>5, <1>6, <1>7

(* The callbacks and the release of resources.  *)
LEMMA CallbackStep ==
  ASSUME IInv,
         \/ StartClose \/ CloseReturns
         \/ \E c \in Callback : CallbackBegin(c) \/ CallbackTimeout(c) \/ CallbackReturns(c) \/ Flush(c)
  PROVE  IInv'
<1> USE ConstAssumption DEF IInv
<1>0. UNCHANGED <<signals, sig, t, rejected, stop, req, at>>
  BY DEF StartClose, CloseReturns, CallbackBegin, CallbackTimeout, CallbackReturns, Flush
<1>1. CASE StartClose \/ CloseReturns
  <2>1. TypeOK'
    BY <1>0, <1>1 DEF TypeOK, StartClose, CloseReturns, Ended
  <2>2. StopPhases' /\ StoppedIdle' /\ SecondSignal' /\ GracefulInTime'
    BY <1>0, <1>1 DEF StopPhases, StoppedIdle, Active, SecondSignal, GracefulInTime, StartClose, CloseReturns
  <2>3. CloseAfterCallbacks'
    BY <1>1 DEF CloseAfterCallbacks, StartClose, CloseReturns
  <2>4. InTime'
    BY <1>0, <1>1 DEF InTime, Overrun, StartClose, CloseReturns, TypeOK
  <2> QED BY <2>1, <2>2, <2>3, <2>4
<1>2. ASSUME NEW c \in Callback, CallbackBegin(c) \/ CallbackTimeout(c) \/ CallbackReturns(c)
      PROVE IInv'
  <2>0. phase = "callbacks" /\ UNCHANGED <<phase, due, flushed>>
    BY <1>2 DEF CallbackBegin, CallbackTimeout, CallbackReturns
  <2>1. TypeOK'
    BY <1>0, <2>0, <1>2 DEF TypeOK, CallbackBegin, CallbackTimeout, CallbackReturns, Finished
  <2>5. StopPhases'
    BY <1>0, <2>0, <1>2 DEF StopPhases, TypeOK, CallbackBegin, CallbackTimeout, CallbackReturns
  <2>2. StoppedIdle' /\ SecondSignal' /\ GracefulInTime' /\ CloseAfterCallbacks'
    BY <1>0, <2>0 DEF StoppedIdle, Active, SecondSignal, GracefulInTime, CloseAfterCallbacks
  <2>3. Overrun => Overrun'
    BY <1>2 DEF Overrun, TypeOK, CallbackBegin, CallbackTimeout, CallbackReturns
  <2>4. InTime'
    BY <1>0, <2>0, <2>3 DEF InTime
  <2> QED BY <2>1, <2>2, <2>4, <2>5
<1>3. ASSUME NEW c \in Callback, Flush(c) PROVE IInv'
  <2>0. UNCHANGED <<phase, due, cb>> /\ flushed' = flushed \cup {c}
    BY <1>3 DEF Flush
  <2> QED BY <1>0, <2>0 DEF TypeOK, StopPhases, StoppedIdle, Active, SecondSignal, GracefulInTime,
             CloseAfterCallbacks, InTime, Overrun
<1> QED BY <1>1, <1>2, <1>3

(* Time passes only when no goroutine of the App can go on: in "wait" and  *)
(* in "close" not beyond due, in "callbacks" only for a stubborn one.      *)
LEMMA TickStep == ASSUME IInv, Tick PROVE IInv'
<1> USE ConstAssumption DEF IInv
<1>0. phase \in {"wait", "callbacks", "close"} /\ t < ShutdownTimeout /\ t' = t + 1
      /\ UNCHANGED <<phase, signals, sig, due, rejected, stop, req, at, cb, flushed>>
  BY DEF Tick, Ready, TypeOK, Ended
<1>1. TypeOK'
  BY <1>0 DEF TypeOK
<1>2. StopPhases' /\ CloseAfterCallbacks' /\ SecondSignal' /\ GracefulInTime'
  BY <1>0 DEF StopPhases, CloseAfterCallbacks, SecondSignal, GracefulInTime, TypeOK
<1>3. StoppedIdle'
  BY <1>0 DEF StoppedIdle, Active, TypeOK
<1>4. InTime'
  <2>1. CASE phase = "wait"
    <3>1. PICK s \in Server : stop[s] # "done"
      BY <2>1 DEF Tick, Ready
    <3>2. stop[s] = "stopping"
      BY <2>1, <3>1 DEF Tick, Ready, TypeOK, StopPhases
    <3>3. t < due
      BY <2>1, <3>2 DEF Tick, Ready, TypeOK
    <3> QED BY <1>0, <2>1, <3>3 DEF InTime, TypeOK
  <2>2. CASE phase = "callbacks"
    <3>1. PICK c \in Callback : cb[c] \notin Finished
      BY <2>2 DEF Tick, Ready
    <3>2. cb[c] = "running" => (c \in Stubborn \/ t < due)
      BY <2>2, <3>1 DEF Tick, Ready, TypeOK
    <3>3. cb[c] = "running"
      BY <2>2, <3>1 DEF Tick, Ready, TypeOK, StopPhases
    <3>4. c \in Stubborn => Overrun
      BY <3>3 DEF Overrun
    <3> QED BY <1>0, <2>2, <3>2, <3>3, <3>4 DEF InTime, Overrun, TypeOK
  <2>3. CASE phase = "close"
    BY <1>0, <2>3 DEF Tick, Ready, InTime, Overrun, TypeOK
  <2> QED BY <1>0, <2>1, <2>2, <2>3
<1> QED BY <1>1, <1>2, <1>3, <1>4

(* The inductive invariant holds in every state: the argument for the      *)
(* order and the timing of the phases of App.shutdown.                     *)
THEOREM ShutdownInvariant == Spec => []IInv
<1>1. IInv /\ [Next]_vars => IInv'
  <2> SUFFICES ASSUME IInv, [Next]_vars PROVE IInv'
    OBVIOUS
  <2>1. CASE UNCHANGED vars
    BY <2>1 DEF vars, IInv, TypeOK, StopPhases, CloseAfterCallbacks, StoppedIdle, Active, InTime, Overrun,
       SecondSignal, GracefulInTime
  <2>2. CASE Next
    BY <2>2, RequestStep, SignalStep, StopStep, CallbackStep, TickStep DEF Next, Main
  <2> QED BY <2>1, <2>2
<1> QED BY InitIInv, <1>1, PTL DEF Spec

(* Exit callbacks run while an accepted request is in progress only when   *)
(* waitTime is used up: shutdown waits for the requests.                   *)
THEOREM CallbacksWait == Spec => []CallbacksAfterRequests
<1>1. IInv => CallbacksAfterRequests
  BY DEF IInv, StopPhases, StoppedIdle, CallbacksAfterRequests
<1> QED BY <1>1, ShutdownInvariant, PTL

(* Resources are released after the callbacks. *)
THEOREM CloseWaits == Spec => []CloseAfterCallbacks
<1>1. IInv => CloseAfterCallbacks
  BY DEF IInv
<1> QED BY <1>1, ShutdownInvariant, PTL

(* With timeouts that fit into shutdownTimeout and one signal, the exit is *)
(* graceful unless a callback ignores its context.                         *)
THEOREM ExitIsGraceful == Spec => []GracefulInTime
<1>1. IInv => GracefulInTime
  BY DEF IInv
<1> QED BY <1>1, ShutdownInvariant, PTL
=============================================================================
