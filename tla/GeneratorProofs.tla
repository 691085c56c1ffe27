--------------------------- MODULE GeneratorProofs ---------------------------
(***************************************************************************)
(* Proofs about Generator and Load: every stream is its authority's ids in *)
(* closed form, nothing of it is lost between the generator and the queue, *)
(* the metric lags by less than a tick, and until a restart what the store *)
(* executes creates fresh objects only. They hold for every seed, load,    *)
(* block size and queue, and for every width of the ids, the last one for  *)
(* every power of two of randoms.                                          *)
(***************************************************************************)
EXTENDS Load, OperatorProofs

-----------------------------------------------------------------------------
Triangle(n) == (n * (n - 1)) \div 2

(***************************************************************************)
(* The triangular numbers, in steps.                                       *)
(***************************************************************************)
LEMMA Triangles ==
    ASSUME NEW n \in Nat
    PROVE  /\ Triangle(n) \in Nat
           /\ Triangle(n + 1) = Triangle(n) + n
<1>1. PICK k \in Nat : n = 2 * k \/ n = 2 * k + 1
  <2>1. n \div 2 \in Nat /\ n % 2 \in 0..1 /\ n = 2 * (n \div 2) + (n % 2)
    BY Division
  <2> QED
    BY <2>1
<1>2. \A x \in Nat : (2 * x) \div 2 = x
  OBVIOUS
<1>3. CASE n = 2 * k
  <2>1. CASE k = 0
    BY <1>3, <2>1 DEF Triangle
  <2>2. CASE k >= 1
    <3>1. n * (n - 1) = 2 * (k * (2 * k - 1)) /\ (n + 1) * n = 2 * (k * (2 * k + 1))
      BY <1>3
    <3>2. PICK x \in Nat : x = k * (2 * k - 1)
      BY <2>2
    <3>3. k * (2 * k + 1) = x + n
      BY <1>3, <3>2
    <3>4. (n + 1) - 1 = n
      OBVIOUS
    <3>5. Triangle(n) = x
      BY <1>2, <3>1, <3>2 DEF Triangle
    <3>6. Triangle(n + 1) = x + n
      <4>1. x + n \in Nat /\ (n + 1) * ((n + 1) - 1) = 2 * (x + n)
        BY <3>1, <3>3, <3>4
      <4> QED
        BY <1>2, <4>1 DEF Triangle
    <3> QED
      BY <3>2, <3>5, <3>6
  <2> QED
    BY <2>1, <2>2
<1>4. CASE n = 2 * k + 1
  <2>1. n * (n - 1) = 2 * (k * n) /\ (n + 1) * n = 2 * ((k + 1) * n)
    BY <1>4
  <2>2. PICK x \in Nat : x = k * n
    OBVIOUS
  <2>3. (k + 1) * n = x + n
    BY <2>2
  <2>4. (n + 1) - 1 = n
    OBVIOUS
  <2>5. Triangle(n) = x
    BY <1>2, <2>1, <2>2 DEF Triangle
  <2>6. Triangle(n + 1) = x + n
    <3>1. x + n \in Nat /\ (n + 1) * ((n + 1) - 1) = 2 * (x + n)
      BY <2>1, <2>3, <2>4
    <3> QED
      BY <1>2, <3>1 DEF Triangle
  <2> QED
    BY <2>2, <2>5, <2>6
<1> QED
  BY <1>1, <1>3, <1>4
-----------------------------------------------------------------------------
(***************************************************************************)
(* What the stream of an authority is after n draws.                       *)
(***************************************************************************)
Random(a, n) == (Seed[a] + Triangle(n)) % WordRange

StreamAt(a, n) == [counter |-> n, random |-> Random(a, n)]

IdsUpTo(a, n) == [k \in 1..n |-> Id(a, k)]

\* k draws from the n-th.
Drawn(a, n, k) == [stream |-> StreamAt(a, n + k), ids |-> [i \in 1..k |-> Id(a, n + i)]]

(***************************************************************************)
(* The width of an id is positive, and a seed is a word.                   *)
(***************************************************************************)
LEMMA WordRangeType ==
    /\ WordRange \in Nat \ {0}
    /\ \A a \in Generators : Seed[a] \in Nat /\ Seed[a] % WordRange = Seed[a]
<1>1. AuthorityRange \in Nat \ {0} /\ RandomRange \in Nat \ {0}
  BY GeneratorAssumption
<1>2. WordRange \in Nat \ {0}
  BY <1>1 DEF WordRange
<1>3. \A x \in 0..(WordRange - 1) : x \in Nat /\ x % WordRange = x
  BY <1>2
<1>4. \A a \in Generators : Seed[a] \in 0..(WordRange - 1)
  BY GeneratorAssumption DEF Words
<1> QED
  BY <1>2, <1>3, <1>4

(***************************************************************************)
(* The random is a word.                                                   *)
(***************************************************************************)
LEMMA RandomType ==
    ASSUME NEW a \in Generators, NEW n \in Nat
    PROVE  Random(a, n) \in Words
<1>1. Seed[a] + Triangle(n) \in Nat
  BY WordRangeType, Triangles
<1>2. (Seed[a] + Triangle(n)) % WordRange \in 0..(WordRange - 1)
  BY <1>1, WordRangeType, Division
<1> QED
  BY <1>2 DEF Random, Words

(***************************************************************************)
(* The number of a word's authority, shifted past the randoms.             *)
(***************************************************************************)
LEMMA Placed ==
    ASSUME NEW a \in Generators
    PROVE  /\ a * RandomRange \in Nat
           /\ (a * RandomRange) % WordRange = a * RandomRange
           /\ \A v \in 0..(RandomRange - 1) : (a * RandomRange) + v \in Words
<1>1. /\ AuthorityRange \in Nat \ {0} /\ RandomRange \in Nat \ {0}
      /\ a \in 0..(AuthorityRange - 1)
  BY GeneratorAssumption
<1>2. PICK b \in Nat : AuthorityRange = a + 1 + b
  <2>1. AuthorityRange - a - 1 \in Nat /\ AuthorityRange = a + 1 + (AuthorityRange - a - 1)
    BY <1>1
  <2> QED
    BY <2>1
<1>3. PICK p \in Nat : p = a * RandomRange
  BY <1>1
<1>4. PICK q \in Nat : q = b * RandomRange
  BY <1>1
<1>5. WordRange = p + RandomRange + q
  BY <1>1, <1>2, <1>3, <1>4 DEF WordRange
<1>6. WordRange \in Nat \ {0} /\ p \in 0..(WordRange - 1)
  BY <1>1, <1>5
<1>7. p % WordRange = p
  BY <1>6
<1>8. \A v \in 0..(RandomRange - 1) : p + v \in 0..(WordRange - 1)
  BY <1>1, <1>5
<1> QED
  BY <1>3, <1>7, <1>8 DEF Words

(***************************************************************************)
(* An id is a word.                                                        *)
(***************************************************************************)
LEMMA IdType ==
    ASSUME NEW a \in Generators, NEW k \in Nat
    PROVE  Id(a, k) \in Words
<1>1. Seed[a] + Triangle(k) \in Nat /\ RandomRange \in Nat \ {0}
  BY WordRangeType, Triangles, GeneratorAssumption
<1>2. PICK v \in 0..(RandomRange - 1) : v = (Seed[a] + Triangle(k)) % RandomRange
  BY <1>1, Division
<1>3. Id(a, k) = (a * RandomRange) + v
  BY <1>2 DEF Id, Triangle
<1> QED
  BY <1>3, Placed

(***************************************************************************)
(* A draw moves the random to the next triangular number, and the id that  *)
(* it forms is the next one in closed form (generator.rs:151-156).         *)
(***************************************************************************)
LEMMA DrawNext ==
    ASSUME NEW a \in Generators, NEW n \in Nat, NEW k \in Nat
    PROVE  Draw(a, Drawn(a, n, k)) = Drawn(a, n, k + 1)
<1> DEFINE d == Drawn(a, n, k)
           x == Seed[a] + Triangle(n + k)
<1>1. PICK c \in Nat : c = n + k
  OBVIOUS
<1>2. /\ x \in Nat /\ Triangle(c + 1) = Triangle(c) + c /\ Seed[a] \in Nat
      /\ Triangle(c) \in Nat /\ x = Seed[a] + Triangle(c)
  BY <1>1, WordRangeType, Triangles
<1>3. (Random(a, c) + c) % WordRange = (x + c) % WordRange
  <2> HIDE DEF x
  <2>1. Random(a, c) = x % WordRange
    BY <1>2 DEF Random
  <2> QED
    BY <1>2, <2>1, WordRangeType, RemainderOfSum
<1>4. x + c = Seed[a] + Triangle(c + 1)
  BY <1>2
<1>5. (Random(a, c) + c) % WordRange = Random(a, c + 1)
  BY <1>3, <1>4 DEF Random
<1>6. ObjectId(a, Random(a, c + 1)) = Id(a, c + 1)
  <2>1. PICK y \in Nat : y = Seed[a] + Triangle(c + 1)
    BY <1>2
  <2>2. (y % WordRange) % RandomRange = y % RandomRange
    BY GeneratorAssumption, RemainderOfRemainder, ZenonT(60) DEF WordRange
  <2>3. ObjectId(a, Random(a, c + 1)) = (a * RandomRange) + (y % RandomRange)
    BY <2>1, <2>2, Placed DEF ObjectId, Random
  <2>4. Id(a, c + 1) = (a * RandomRange) + (y % RandomRange)
    BY <2>1 DEF Id, Triangle
  <2> QED
    BY <2>3, <2>4
<1>7. Append(d.ids, Id(a, c + 1)) = [i \in 1..(k + 1) |-> Id(a, n + i)]
  <2> DEFINE s == [i \in 1..k |-> Id(a, n + i)]
             t == [i \in 1..(k + 1) |-> Id(a, n + i)]
  <2>1. \A i \in Nat : Id(a, n + i) \in Words
    BY IdType
  <2>2. s \in Seq(Words) /\ Len(s) = k /\ t \in Seq(Words) /\ Len(t) = k + 1
    BY <2>1
  <2>3. Id(a, c + 1) \in Words /\ n + (k + 1) = c + 1
    BY <1>1, IdType
  <2>4. Len(Append(s, Id(a, c + 1))) = k + 1 /\ Append(s, Id(a, c + 1)) \in Seq(Words)
    BY <2>2, <2>3
  <2>5. \A i \in 1..(k + 1) : Append(s, Id(a, c + 1))[i] = t[i]
    BY <2>2, <2>3
  <2>6. Append(s, Id(a, c + 1)) = t
    <3> HIDE DEF s, t
    <3> QED
      BY <2>2, <2>4, <2>5, SeqEqual
  <2> QED
    BY <2>6 DEF Drawn
<1>8. d.stream.counter = c /\ d.stream.random = Random(a, c)
  BY <1>1 DEF Drawn, StreamAt
<1>9. Draw(a, d) = [stream |-> [counter |-> c + 1, random |-> Random(a, c + 1)],
                    ids    |-> Append(d.ids, Id(a, c + 1))]
  <2> HIDE DEF d
  <2> QED
    BY <1>5, <1>6, <1>8 DEF Draw
<1>10. n + (k + 1) = c + 1
  BY <1>1
<1> QED
  BY <1>7, <1>9, <1>10 DEF Drawn, StreamAt

(***************************************************************************)
(* A batch is the next ids of the stream, and leaves the stream behind it  *)
(* (generator.rs:141-161).                                                 *)
(***************************************************************************)
LEMMA BatchIsTheStream ==
    ASSUME NEW a \in Generators, NEW n \in Nat
    PROVE  FillBatch(a, StreamAt(a, n)) = Drawn(a, n, TransactionsPerInterval)
<1> DEFINE m == TransactionsPerInterval
           rounds == [i \in 1..m |-> i]
           X == {Drawn(a, n, k) : k \in Nat}
           h == [pair \in (1..m) \X X |-> Draw(a, pair[2])]
           base == [stream |-> StreamAt(a, n), ids |-> << >>]
           Solves(f) == f = [t \in SUBSET DOMAIN rounds |->
                                IF t = {} THEN base ELSE Draw(a, f[t \ {Max(t)}])]
<1>1. m \in Nat /\ m >= 1 /\ DOMAIN rounds = 1..m
  BY GeneratorAssumption
<1>2. base = Drawn(a, n, 0)
  <2>1. 1..0 = {} /\ n + 0 = n
    OBVIOUS
  <2>2. [i \in 1..0 |-> Id(a, n + i)] = << >>
    BY <2>1
  <2> QED
    BY <2>1, <2>2 DEF Drawn
<1> HIDE DEF base
<1>3. base \in X
  BY <1>2
<1>4. \A x \in X : Draw(a, x) \in X
  <2> SUFFICES ASSUME NEW k \in Nat PROVE Draw(a, Drawn(a, n, k)) \in X
    OBVIOUS
  <2>1. Draw(a, Drawn(a, n, k)) = Drawn(a, n, k + 1) /\ k + 1 \in Nat
    BY DrawNext
  <2> QED
    BY <2>1
<1> HIDE DEF X
<1>5. \E f : Solves(f)
  <2>1. PICK f : Folds(f, X, base, m, h)
    <3>1. \A k \in 1..m, x \in X : h[<<k, x>>] \in X
      BY <1>4
    <3> HIDE DEF h, m
    <3> QED
      BY <1>1, <1>3, <3>1, FoldExists
  <2>2. /\ f \in [SUBSET (1..m) -> X] /\ f[{}] = base
        /\ \A t \in (SUBSET (1..m)) \ {{}} : f[t] = h[<<Max(t), f[t \ {Max(t)}]>>]
    <3> HIDE DEF h, m
    <3> QED
      BY <2>1 DEF Folds
  <2>3. ASSUME NEW t \in SUBSET (1..m), t # {} PROVE f[t] = Draw(a, f[t \ {Max(t)}])
    <3>1. Max(t) \in 1..m
      BY <1>1, <2>3, MaxOfInterval
    <3>2. f[t \ {Max(t)}] \in X
      BY <2>2
    <3>3. h[<<Max(t), f[t \ {Max(t)}]>>] = Draw(a, f[t \ {Max(t)}])
      <4> HIDE DEF m
      <4> QED
        BY <3>1, <3>2
    <3>4. f[t] = h[<<Max(t), f[t \ {Max(t)}]>>]
      <4> HIDE DEF h, m
      <4> QED
        BY <2>2, <2>3
    <3> QED
      BY <3>3, <3>4
  <2>4. Solves(f)
    <3> HIDE DEF rounds, m
    <3> QED
      BY <1>1, <2>2, <2>3
  <2> HIDE DEF Solves
  <2> QED
    BY <2>4
<1> DEFINE fold == CHOOSE f : Solves(f)
           T == {k \in 0..m : fold[1..k] = Drawn(a, n, k)}
<1>6. Solves(fold)
  <2> HIDE DEF Solves
  <2> QED
    BY <1>5
<1>7. FillBatch(a, StreamAt(a, n)) = fold[1..m]
  BY <1>1 DEF FillBatch, FoldLeft, MapThenFoldSet, base
<1> HIDE DEF fold
<1>8. 0 \in T
  <2>1. 1..0 = {} /\ 1..0 \in SUBSET DOMAIN rounds
    OBVIOUS
  <2>2. fold[1..0] = base
    <3> HIDE DEF rounds
    <3> QED
      BY <1>6, <2>1
  <2> QED
    BY <1>1, <1>2, <2>2
<1>9. ASSUME NEW k \in 1..m, k - 1 \in T PROVE k \in T
  <2>1. Max(1..k) = k /\ (1..k) \ {k} = 1..(k - 1) /\ k \in 0..m
    BY <1>1, MaxOfBounded
  <2>2. fold[1..k] = Draw(a, fold[(1..k) \ {Max(1..k)}])
    <3>1. 1..k \in SUBSET DOMAIN rounds /\ 1..k # {}
      BY <1>1
    <3> HIDE DEF rounds, m
    <3> QED
      BY <1>6, <3>1
  <2>3. fold[1..(k - 1)] = Drawn(a, n, k - 1)
    BY <1>9
  <2>4. k - 1 \in Nat /\ (k - 1) + 1 = k
    OBVIOUS
  <2>5. Draw(a, Drawn(a, n, k - 1)) = Drawn(a, n, k)
    BY <2>4, DrawNext
  <2> QED
    BY <2>1, <2>2, <2>3, <2>5
<1>10. 0..m \subseteq T
  <2> HIDE DEF T, m
  <2> QED
    BY <1>1, <1>8, <1>9, IntervalInduction
<1> QED
  BY <1>1, <1>7, <1>10

(***************************************************************************)
(* A block takes at least one transaction of what is left, and no more     *)
(* than what is left (generator.rs:172-183).                               *)
(***************************************************************************)
LEMMA BlockLengthBound ==
    ASSUME NEW n \in Nat, n >= 1
    PROVE  BlockLength(n) \in 1..n
<1> DEFINE S == {n} \cup {k \in 1..n : k * TransactionSize >= MaxBlockSize}
<1>1. S \in SUBSET (1..n) /\ S # {}
  OBVIOUS
<1>2. BlockLength(n) = Min(S)
  BY DEF BlockLength
<1> HIDE DEF S
<1>3. 1..n \subseteq Nat
  OBVIOUS
<1>4. S \in SUBSET Nat /\ S # {}
  BY <1>1, <1>3
<1>5. \E x \in S : \A y \in S : x <= y
  BY <1>4, LeastElement
<1>6. Min(S) \in S
  BY <1>5 DEF Min
<1> QED
  BY <1>1, <1>2, <1>6

(***************************************************************************)
(* The next block and the rest are the batch, and the rest is shorter.     *)
(***************************************************************************)
LEMMA BlockAndRest ==
    ASSUME NEW a \in Generators, batch[a] \in Seq(Words), batch[a] # << >>
    PROVE  /\ NextBlock(a) \in Seq(Words) /\ Rest(a) \in Seq(Words)
           /\ NextBlock(a) \o Rest(a) = batch[a]
           /\ Len(Rest(a)) < Len(batch[a])
<1> DEFINE b == batch[a]
           l == Len(b)
           j == BlockLength(l)
<1>1. l \in Nat /\ l >= 1 /\ \A i \in 1..l : b[i] \in Words
  <2>1. l \in Nat /\ l >= 1
    BY HeadAndTail
  <2> QED
    BY <2>1, ElementOfSeq
<1>2. j \in 1..l
  <2> HIDE DEF l
  <2> QED
    BY <1>1, BlockLengthBound
<1> HIDE DEF j
<1>3. /\ SubSeq(b, 1, j) \in Seq(Words)
      /\ SubSeq(b, j + 1, l) \in Seq(Words)
      /\ Len(SubSeq(b, j + 1, l)) = l - j
  <2> HIDE DEF b, l
  <2>1. \A i \in 1..j : b[i] \in Words
    BY <1>1, <1>2
  <2>2. \A i \in (j + 1)..l : b[i] \in Words
    BY <1>1, <1>2
  <2>3. SubSeq(b, 1, j) \in Seq(Words)
    BY <1>2, <2>1, SubSeqProperties
  <2>4. /\ SubSeq(b, j + 1, l) \in Seq(Words)
        /\ Len(SubSeq(b, j + 1, l)) = IF j + 1 <= l THEN l - (j + 1) + 1 ELSE 0
    <3>1. PICK i \in Int : i = j + 1
      BY <1>2
    <3>2. \A p \in i..l : b[p] \in Words
      BY <2>2, <3>1
    <3> QED
      BY <1>1, <3>1, <3>2, SubSeqProperties
  <2> QED
    BY <1>1, <1>2, <2>3, <2>4
<1>4. SubSeq(b, 1, j) \o SubSeq(b, j + 1, l) = SubSeq(b, 1, l)
  <2>1. 1 \in 1..(Len(b) + 1) /\ j \in (1 - 1)..Len(b) /\ l \in j..Len(b)
    BY <1>1, <1>2
  <2> HIDE DEF b, l
  <2>2. b \in Seq(Words)
    BY DEF b
  <2> QED
    BY <2>1, <2>2, ConcatAdjacentSubSeq
<1>5. SubSeq(b, 1, l) = b
  BY SubSeqFull
<1>6. NextBlock(a) = SubSeq(b, 1, j) /\ Rest(a) = SubSeq(b, j + 1, l)
  BY DEF NextBlock, Rest, j
<1> QED
  BY <1>1, <1>2, <1>3, <1>4, <1>5, <1>6
-----------------------------------------------------------------------------
(***************************************************************************)
(* The inductive invariant, of one authority: its stream is where its      *)
(* counter says, what is submitted and the rest of the batch are that      *)
(* stream, the metric is behind the counter by the batch that is not       *)
(* shipped yet, and a batch is left exactly when the generator ships.      *)
(***************************************************************************)
Unreported(a) == IF batch[a] = << >> THEN 0 ELSE TransactionsPerInterval

Accounted(a) ==
    /\ stream[a] = StreamAt(a, stream[a].counter)
    /\ accepted[a] \o batch[a] = IdsUpTo(a, stream[a].counter)
    /\ reported[a] + Unreported(a) = stream[a].counter
    /\ Len(batch[a]) <= TransactionsPerInterval
    /\ (task[a] = "ticking") <=> (batch[a] = << >>)

Inv == TypeOK /\ \A a \in Generators : Accounted(a)

(***************************************************************************)
(* The fields of a well-formed state, one generator at a time.             *)
(***************************************************************************)
LEMMA Types ==
    ASSUME TypeOK, NEW a \in Generators
    PROVE  /\ task[a] \in {"ticking", "shipping", "stopped"}
           /\ stream[a] \in [counter : 0..RandomRange, random : Words]
           /\ stream[a].counter \in 0..RandomRange
           /\ stream[a].counter \in Nat
           /\ batch[a] \in Seq(Words) /\ accepted[a] \in Seq(Words)
           /\ reported[a] \in Nat
           /\ queue[a] \in Seq(Seq(Words))
<1>1. batch \in [Generators -> Seq(Words)] /\ accepted \in [Generators -> Seq(Words)]
  BY DEF TypeOK
<1>2. /\ task[a] \in {"ticking", "shipping", "stopped"}
      /\ stream[a] \in [counter : 0..RandomRange, random : Words]
      /\ reported[a] \in Nat
      /\ queue[a] \in Seq(Seq(Words))
  BY DEF TypeOK
<1>3. stream[a].counter \in 0..RandomRange
  BY <1>2
<1>4. 0..RandomRange \subseteq Nat
  OBVIOUS
<1> QED
  BY <1>1, <1>2, <1>3, <1>4

(***************************************************************************)
(* The stream up to a count, in parts.                                     *)
(***************************************************************************)
LEMMA StreamInParts ==
    ASSUME NEW a \in Generators, NEW n \in Nat, NEW k \in Nat
    PROVE  /\ IdsUpTo(a, n) \in Seq(Words) /\ Len(IdsUpTo(a, n)) = n
           /\ Drawn(a, n, k).ids \in Seq(Words) /\ Len(Drawn(a, n, k).ids) = k
           /\ IdsUpTo(a, n) \o Drawn(a, n, k).ids = IdsUpTo(a, n + k)
<1> DEFINE s == [i \in 1..n |-> Id(a, i)]
           t == [i \in 1..k |-> Id(a, n + i)]
           u == [i \in 1..(n + k) |-> Id(a, i)]
<1>1. \A i \in Nat : Id(a, i) \in Words /\ Id(a, n + i) \in Words
  BY IdType
<1>2. /\ s \in Seq(Words) /\ Len(s) = n
      /\ t \in Seq(Words) /\ Len(t) = k
      /\ u \in Seq(Words) /\ Len(u) = n + k
  BY <1>1
<1>3. /\ \A i \in 1..n : s[i] = Id(a, i)
      /\ \A i \in 1..k : t[i] = Id(a, n + i)
      /\ \A i \in 1..(n + k) : u[i] = Id(a, i)
  OBVIOUS
<1> HIDE DEF s, t, u
<1>4. /\ s \o t \in Seq(Words)
      /\ Len(s \o t) = n + k
      /\ \A i \in 1..(n + k) : (s \o t)[i] = IF i <= n THEN s[i] ELSE t[i - n]
  BY <1>2, ConcatProperties
<1>5. \A i \in 1..(n + k) : (s \o t)[i] = u[i]
  <2> TAKE i \in 1..(n + k)
  <2>1. CASE i <= n
    BY <1>3, <1>4, <2>1
  <2>2. CASE i > n
    <3>1. PICK j \in 1..k : i = n + j
      <4>1. i - n \in 1..k /\ i = n + (i - n)
        BY <2>2
      <4> QED
        BY <4>1
    <3>2. i - n = j /\ ~(i <= n)
      BY <3>1, <2>2
    <3>3. (s \o t)[i] = t[j]
      BY <1>4, <3>2
    <3>4. t[j] = Id(a, n + j) /\ u[i] = Id(a, i)
      BY <1>3
    <3> QED
      BY <3>1, <3>3, <3>4
  <2>3. i <= n \/ i > n
    OBVIOUS
  <2> QED
    BY <2>1, <2>2, <2>3, Zenon
<1>6. s \o t = u
  BY <1>2, <1>4, <1>5, SeqEqual
<1> QED
  BY <1>2, <1>6 DEF IdsUpTo, Drawn, s, t, u

(***************************************************************************)
(* A generator that starts is accounted for: nothing is drawn or reported. *)
(***************************************************************************)
LEMMA Started ==
    ASSUME NEW a \in Generators
    PROVE  /\ NewStream(a) = StreamAt(a, 0)
           /\ NewStream(a) \in [counter : 0..RandomRange, random : Words]
           /\ << >> \o << >> = IdsUpTo(a, 0)
           /\ << >> \in Seq(Words) /\ << >> \in Seq(Seq(Words))
           /\ Len(<< >>) = 0
<1>1. Triangle(0) = 0
  BY DEF Triangle
<1>2. Random(a, 0) = Seed[a]
  BY <1>1, WordRangeType DEF Random
<1>3. NewStream(a) = StreamAt(a, 0)
  BY <1>2 DEF NewStream, StreamAt
<1>4. NewStream(a) \in [counter : 0..RandomRange, random : Words]
  BY GeneratorAssumption DEF NewStream
<1>5. 1..0 = {}
  OBVIOUS
<1>6. << >> \in Seq(Words) /\ << >> \in Seq(Seq(Words))
  BY EmptySeq
<1>7. IdsUpTo(a, 0) = << >>
  BY <1>5 DEF IdsUpTo
<1>8. << >> \o << >> = << >>
  BY <1>6, ConcatEmptySeq
<1> QED
  BY <1>3, <1>4, <1>6, <1>7, <1>8

(***************************************************************************)
(* Initially nothing was drawn, shipped or reported (generator.rs:93-133). *)
(***************************************************************************)
LEMMA InitInv == Init => Inv
<1> SUFFICES ASSUME Init PROVE Inv
  OBVIOUS
<1>1. TypeOK
  <2>1. MaxRestarts \in Nat
    BY GeneratorAssumption
  <2>2. stream \in [Generators -> [counter : 0..RandomRange, random : Words]]
    BY Started DEF Init
  <2>3. << >> \in Seq(Words) /\ << >> \in Seq(Seq(Words))
    BY EmptySeq
  <2>4. {batch, accepted} \subseteq [Generators -> Seq(Words)]
    BY <2>3 DEF Init
  <2>5. /\ task \in [Generators -> {"ticking", "shipping", "stopped"}]
        /\ reported \in [Generators -> Nat]
        /\ queue \in [Generators -> Seq(Seq(Words))]
        /\ closed \in [Generators -> BOOLEAN]
        /\ restarts \in 0..MaxRestarts
    BY <2>1, <2>3 DEF Init
  <2> QED
    BY <2>2, <2>4, <2>5 DEF TypeOK
<1>2. ASSUME NEW a \in Generators PROVE Accounted(a)
  <2>1. /\ stream[a] = NewStream(a) /\ batch[a] = << >> /\ accepted[a] = << >>
        /\ reported[a] = 0 /\ task[a] = "ticking"
    BY DEF Init
  <2>2. stream[a].counter = 0
    BY <2>1 DEF NewStream
  <2>3. Unreported(a) = 0
    BY <2>1 DEF Unreported
  <2>4. TransactionsPerInterval \in Nat
    BY GeneratorAssumption
  <2> QED
    BY <2>1, <2>2, <2>3, <2>4, Started DEF Accounted
<1> QED
  BY <1>1, <1>2 DEF Inv

(***************************************************************************)
(* A step of one authority's generator or queue leaves the generators of   *)
(* the others where they are.                                              *)
(***************************************************************************)
LEMMA OthersKeep ==
    ASSUME Inv, NEW a \in Generators, Step(a) \/ Take(a),
           NEW b \in Generators, b # a
    PROVE  Accounted(b)'
<1>1. /\ task' = [task EXCEPT ![a] = task'[a]]
      /\ stream' = [stream EXCEPT ![a] = stream'[a]]
      /\ batch' = [batch EXCEPT ![a] = batch'[a]]
      /\ accepted' = [accepted EXCEPT ![a] = accepted'[a]]
      /\ reported' = [reported EXCEPT ![a] = reported'[a]]
  <2>1. /\ task \in [Generators -> {"ticking", "shipping", "stopped"}]
        /\ stream \in [Generators -> [counter : 0..RandomRange, random : Words]]
        /\ batch \in [Generators -> Seq(Words)]
        /\ accepted \in [Generators -> Seq(Words)]
        /\ reported \in [Generators -> Nat]
    BY DEF Inv, TypeOK
  <2>2. CASE Tick(a)
    BY <2>1, <2>2 DEF Tick
  <2>3. CASE Submit(a)
    BY <2>1, <2>3 DEF Submit
  <2>4. CASE Stop(a)
    BY <2>1, <2>4 DEF Stop
  <2>5. CASE Close(a)
    BY <2>1, <2>5 DEF Close
  <2>6. CASE Restart(a)
    BY <2>1, <2>6 DEF Restart
  <2>7. CASE Take(a)
    BY <2>1, <2>7 DEF Take
  <2> QED
    BY <2>2, <2>3, <2>4, <2>5, <2>6, <2>7 DEF Step
<1>2. /\ task'[b] = task[b] /\ stream'[b] = stream[b] /\ batch'[b] = batch[b]
      /\ accepted'[b] = accepted[b] /\ reported'[b] = reported[b]
  <2>1. /\ task \in [Generators -> {"ticking", "shipping", "stopped"}]
        /\ stream \in [Generators -> [counter : 0..RandomRange, random : Words]]
        /\ batch \in [Generators -> Seq(Words)]
        /\ accepted \in [Generators -> Seq(Words)]
        /\ reported \in [Generators -> Nat]
    BY DEF Inv, TypeOK
  <2> QED
    BY <1>1, <2>1
<1> QED
  BY <1>2 DEF Inv, Accounted, Unreported, StreamAt, IdsUpTo

(***************************************************************************)
(* A tick draws the next batch, and the batch before it is shipped.        *)
(***************************************************************************)
LEMMA TickKeeps ==
    ASSUME Inv, NEW a \in Generators, Tick(a)
    PROVE  TypeOK' /\ Accounted(a)'
<1> DEFINE n == stream[a].counter
           m == TransactionsPerInterval
<1>1. /\ n \in Nat /\ m \in Nat \ {0} /\ n + m <= RandomRange
      /\ RandomRange \in Nat /\ accepted[a] \in Seq(Words) /\ reported[a] \in Nat
  BY Types, GeneratorAssumption DEF Inv, Tick
<1>2. batch[a] = << >> /\ stream[a] = StreamAt(a, n) /\ accepted[a] = IdsUpTo(a, n)
      /\ reported[a] = n
  <2>1. Accounted(a) /\ task[a] = "ticking"
    BY DEF Inv, Tick
  <2>2. batch[a] = << >>
    BY <2>1 DEF Accounted
  <2>3. accepted[a] \o << >> = accepted[a]
    BY <1>1, ConcatEmptySeq
  <2> QED
    BY <1>1, <2>1, <2>2, <2>3 DEF Accounted, Unreported
<1> HIDE DEF n, m
<1>3. FillBatch(a, stream[a]) = Drawn(a, n, m)
  BY <1>1, <1>2, BatchIsTheStream DEF m
<1>4. /\ stream' = [stream EXCEPT ![a] = StreamAt(a, n + m)]
      /\ batch' = [batch EXCEPT ![a] = Drawn(a, n, m).ids]
  BY <1>3 DEF Tick, Drawn
<1>5. /\ Drawn(a, n, m).ids \in Seq(Words) /\ Len(Drawn(a, n, m).ids) = m
      /\ IdsUpTo(a, n) \o Drawn(a, n, m).ids = IdsUpTo(a, n + m)
  <2>1. n \in Nat /\ m \in Nat
    BY <1>1
  <2>2. PICK x \in Nat, y \in Nat : x = n /\ y = m
    BY <2>1
  <2>3. Drawn(a, x, y).ids \in Seq(Words)
    BY <2>2, StreamInParts
  <2>4. Len(Drawn(a, x, y).ids) = y
    <3>1. Drawn(a, x, y).ids = [i \in 1..y |-> Id(a, x + i)] /\ y \in Nat
      BY <2>2 DEF Drawn
    <3> QED
      BY <3>1
  <2>5. IdsUpTo(a, x) \o Drawn(a, x, y).ids = IdsUpTo(a, x + y)
    BY <2>2, StreamInParts
  <2> QED
    BY <2>2, <2>3, <2>4, <2>5
<1>6. StreamAt(a, n + m) \in [counter : 0..RandomRange, random : Words]
  <2>1. n + m \in Nat /\ n + m \in 0..RandomRange
    BY <1>1
  <2>2. Random(a, n + m) \in Words
    BY <2>1, RandomType
  <2> QED
    BY <2>1, <2>2 DEF StreamAt
<1>7. TypeOK'
  <2>1. stream' \in [Generators -> [counter : 0..RandomRange, random : Words]]
    BY <1>4, <1>6 DEF Inv, TypeOK
  <2>2. {batch, accepted}' \subseteq [Generators -> Seq(Words)]
    BY <1>4, <1>5 DEF Inv, TypeOK, Tick
  <2> QED
    BY <2>1, <2>2 DEF Inv, TypeOK, Tick
<1>8. Accounted(a)'
  <2>1. /\ stream'[a] = StreamAt(a, n + m) /\ batch'[a] = Drawn(a, n, m).ids
        /\ accepted'[a] = IdsUpTo(a, n) /\ reported'[a] = n /\ task'[a] = "shipping"
    BY <1>2, <1>4 DEF Inv, TypeOK, Tick
  <2>2. stream'[a].counter = n + m
    BY <2>1 DEF StreamAt
  <2>3. batch'[a] # << >> /\ Len(batch'[a]) = m
    BY <1>1, <1>5, <2>1
  <2>4. m \in Nat /\ m <= m
    BY <1>1
  <2> QED
    BY <1>5, <2>1, <2>2, <2>3, <2>4 DEF m, Accounted, Unreported, StreamAt, IdsUpTo
<1> QED
  BY <1>7, <1>8

(***************************************************************************)
(* The next block moves from the batch to what is submitted, and the tick  *)
(* is reported with its last block.                                        *)
(***************************************************************************)
LEMMA SubmitKeeps ==
    ASSUME Inv, NEW a \in Generators, Submit(a)
    PROVE  TypeOK' /\ Accounted(a)'
<1> DEFINE m == TransactionsPerInterval
           n == stream[a].counter
<1>1. /\ n \in Nat /\ m \in Nat \ {0} /\ reported[a] \in Nat
      /\ accepted[a] \in Seq(Words) /\ batch[a] \in Seq(Words)
      /\ queue[a] \in Seq(Seq(Words))
  BY Types, GeneratorAssumption DEF Inv
<1>2. Accounted(a) /\ task[a] = "shipping" /\ batch[a] # << >>
  BY DEF Inv, Submit, Accounted
<1>3. /\ NextBlock(a) \in Seq(Words) /\ Rest(a) \in Seq(Words)
      /\ NextBlock(a) \o Rest(a) = batch[a]
      /\ Len(Rest(a)) < Len(batch[a])
  BY <1>1, <1>2, BlockAndRest
<1>4. TypeOK'
  <2>1. accepted[a] \o NextBlock(a) \in Seq(Words)
    BY <1>1, <1>3, ConcatProperties
  <2>2. accepted' \in [Generators -> Seq(Words)]
    BY <2>1 DEF Inv, TypeOK, Submit
  <2>3. batch' \in [Generators -> Seq(Words)]
    BY <1>3 DEF Inv, TypeOK, Submit
  <2>4. Append(queue[a], NextBlock(a)) \in Seq(Seq(Words))
    BY <1>1, <1>3, AppendProperties
  <2>5. queue' \in [Generators -> Seq(Seq(Words))]
    BY <2>4 DEF Inv, TypeOK, Submit
  <2>6. reported' \in [Generators -> Nat]
    <3>1. Reported(a) \in Nat
      BY <1>1 DEF Reported
    <3> QED
      BY <3>1 DEF Inv, TypeOK, Submit
  <2>7. task' \in [Generators -> {"ticking", "shipping", "stopped"}]
    BY DEF Inv, TypeOK, Submit
  <2> QED
    BY <2>2, <2>3, <2>5, <2>6, <2>7 DEF Inv, TypeOK, Submit
<1>5. Accounted(a)'
  <2>1. /\ stream'[a] = stream[a] /\ batch'[a] = Rest(a)
        /\ accepted'[a] = accepted[a] \o NextBlock(a)
        /\ reported'[a] = Reported(a)
        /\ task'[a] = IF Rest(a) = << >> THEN "ticking" ELSE "shipping"
    BY <1>2 DEF Inv, TypeOK, Submit
  <2>2. (accepted[a] \o NextBlock(a)) \o Rest(a) = accepted[a] \o batch[a]
    <3>1. /\ accepted[a] \in Seq(Words)
          /\ NextBlock(a) \in Seq(Words) /\ Rest(a) \in Seq(Words)
      BY <1>1, <1>3
    <3>2. PICK s \in Seq(Words), t \in Seq(Words), u \in Seq(Words) :
              s = accepted[a] /\ t = NextBlock(a) /\ u = Rest(a)
      BY <3>1
    <3>3. s \in Seq(Words) /\ t \in Seq(Words) /\ u \in Seq(Words)
      BY <3>2
    <3>4. (s \o t) \o u = s \o (t \o u)
      BY <3>3
    <3> QED
      BY <1>3, <3>2, <3>4
  <2>3. reported'[a] + (IF batch'[a] = << >> THEN 0 ELSE m) = n
    <3>1. reported[a] + m = n
      BY <1>2 DEF Accounted, Unreported
    <3> HIDE DEF n, m
    <3> QED
      BY <1>1, <2>1, <3>1 DEF Reported, m
  <2>4. Len(batch'[a]) <= m
    <3>1. Len(batch[a]) <= m
      BY <1>2 DEF Accounted
    <3>2. Len(batch[a]) \in Nat /\ Len(Rest(a)) \in Nat
      BY <1>1, <1>3, LenProperties
    <3> QED
      BY <1>1, <1>3, <2>1, <3>1, <3>2
  <2> QED
    BY <1>2, <2>1, <2>2, <2>3, <2>4 DEF Accounted, Unreported, StreamAt, IdsUpTo
<1> QED
  BY <1>4, <1>5

(***************************************************************************)
(* A generator that is run again starts its stream again, and its metric.  *)
(***************************************************************************)
LEMMA RestartKeeps ==
    ASSUME Inv, NEW a \in Generators, Restart(a)
    PROVE  TypeOK' /\ Accounted(a)'
<1>1. TypeOK'
  <2>1. stream' \in [Generators -> [counter : 0..RandomRange, random : Words]]
    BY Started DEF Inv, TypeOK, Restart
  <2>2. << >> \in Seq(Words) /\ << >> \in Seq(Seq(Words))
    BY EmptySeq
  <2>3. {batch, accepted}' \subseteq [Generators -> Seq(Words)]
    BY <2>2 DEF Inv, TypeOK, Restart
  <2>4. restarts' \in 0..MaxRestarts
    <3>1. MaxRestarts \in Nat
      BY GeneratorAssumption
    <3> QED
      BY <3>1 DEF Inv, TypeOK, Restart
  <2> QED
    BY <2>1, <2>2, <2>3, <2>4 DEF Inv, TypeOK, Restart
<1>2. Accounted(a)'
  <2>1. /\ stream'[a] = NewStream(a) /\ batch'[a] = << >> /\ accepted'[a] = << >>
        /\ reported'[a] = 0 /\ task'[a] = "ticking"
    BY DEF Inv, TypeOK, Restart
  <2>2. stream'[a].counter = 0
    BY <2>1 DEF NewStream
  <2>3. TransactionsPerInterval \in Nat
    BY GeneratorAssumption
  <2> QED
    BY <2>1, <2>2, <2>3, Started DEF Accounted, Unreported, StreamAt, IdsUpTo
<1> QED
  BY <1>1, <1>2

(***************************************************************************)
(* A generator that stops keeps the rest of its batch; the replica takes   *)
(* its submissions, and stops, without touching the generator.             *)
(***************************************************************************)
LEMMA OtherStepsKeep ==
    ASSUME Inv, NEW a \in Generators, Stop(a) \/ Close(a) \/ Take(a)
    PROVE  TypeOK' /\ Accounted(a)'
<1>1. CASE Stop(a)
  <2>1. TypeOK'
    BY <1>1 DEF Inv, TypeOK, Stop
  <2>2. Accounted(a)'
    BY <1>1 DEF Inv, TypeOK, Stop, Accounted, Unreported, StreamAt, IdsUpTo
  <2> QED
    BY <2>1, <2>2
<1>2. CASE Close(a)
  <2>1. TypeOK'
    BY <1>2 DEF Inv, TypeOK, Close
  <2>2. Accounted(a)'
    BY <1>2 DEF Inv, Close, Accounted, Unreported, StreamAt, IdsUpTo
  <2> QED
    BY <2>1, <2>2
<1>3. CASE Take(a)
  <2>1. queue[a] \in Seq(Seq(Words)) /\ queue[a] # << >>
    BY <1>3, Types DEF Inv, Take
  <2>2. Tail(queue[a]) \in Seq(Seq(Words))
    BY <2>1, HeadTailProperties
  <2>3. TypeOK'
    BY <1>3, <2>2 DEF Inv, TypeOK, Take
  <2>4. Accounted(a)'
    BY <1>3 DEF Inv, Take, Accounted, Unreported, StreamAt, IdsUpTo
  <2> QED
    BY <2>3, <2>4
<1> QED
  BY <1>1, <1>2, <1>3

(***************************************************************************)
(* Every step of a generator, of the queues and of a restart keeps the     *)
(* invariant (generator.rs:123-241).                                       *)
(***************************************************************************)
LEMMA NextInv == Inv /\ [Next]_vars => Inv'
<1> SUFFICES ASSUME Inv, [Next]_vars PROVE Inv'
  OBVIOUS
<1>1. CASE Next
  <2>1. PICK a \in Generators : Step(a) \/ Take(a)
    BY <1>1 DEF Next
  <2>2. TypeOK' /\ Accounted(a)'
    BY <2>1, TickKeeps, SubmitKeeps, RestartKeeps, OtherStepsKeep DEF Step
  <2>3. \A b \in Generators : b # a => Accounted(b)'
    BY <2>1, OthersKeep
  <2> QED
    BY <2>2, <2>3 DEF Inv
<1>2. CASE UNCHANGED vars
  BY <1>2 DEF Inv, TypeOK, Accounted, Unreported, StreamAt, IdsUpTo, vars
<1> QED
  BY <1>1, <1>2

(***************************************************************************)
(* The invariant holds in every reachable state.                           *)
(***************************************************************************)
LEMMA AlwaysInv == Spec => []Inv
BY InitInv, NextInv, PTL DEF Spec
-----------------------------------------------------------------------------
(***************************************************************************)
(* The generators and the queues are well-formed.                          *)
(***************************************************************************)
THEOREM GeneratorType == Spec => []TypeOK
<1>1. Inv => TypeOK
  BY DEF Inv
<1> QED
  BY <1>1, AlwaysInv, PTL

(***************************************************************************)
(* What is submitted and the rest of the batch are the authority's stream  *)
(* in closed form, for every size of blocks and batches, wherever the      *)
(* stream wraps and however often the processes restart                    *)
(* (generator.rs:141-184).                                                 *)
(***************************************************************************)
THEOREM StreamIsShipped == Spec => []ShipsTheStream
<1>1. Inv => ShipsTheStream
  BY DEF Inv, Accounted, ShipsTheStream, IdsUpTo
<1> QED
  BY <1>1, AlwaysInv, PTL

(***************************************************************************)
(* The metric never counts what was not submitted and is behind by less    *)
(* than a tick; between ticks it is exact (generator.rs:235-238).          *)
(***************************************************************************)
THEOREM MetricLagsByATick == Spec => []ReportsLagByATick
<1>1. Inv => ReportsLagByATick
  <2> SUFFICES ASSUME Inv, NEW a \in Generators
               PROVE  /\ reported[a] <= Len(accepted[a])
                      /\ Len(accepted[a]) < reported[a] + TransactionsPerInterval
                      /\ task[a] = "ticking" => reported[a] = Len(accepted[a])
    BY DEF ReportsLagByATick
  <2> DEFINE n == stream[a].counter
             m == TransactionsPerInterval
             l == Len(batch[a])
             k == Len(accepted[a])
  <2>1. /\ n \in Nat /\ m \in Nat \ {0} /\ reported[a] \in Nat
        /\ accepted[a] \in Seq(Words) /\ batch[a] \in Seq(Words)
    BY Types, GeneratorAssumption DEF Inv
  <2>2. Accounted(a)
    BY DEF Inv
  <2>3. k + l = n
    <3>1. Len(accepted[a] \o batch[a]) = k + l
      BY <2>1, ConcatProperties
    <3>2. Len(IdsUpTo(a, n)) = n
      BY <2>1, StreamInParts
    <3> QED
      BY <2>2, <3>1, <3>2 DEF Accounted
  <2>4. k \in Nat /\ l \in Nat /\ l <= m
    BY <2>1, <2>2, LenProperties DEF Accounted
  <2>5. CASE batch[a] = << >>
    <3>1. l = 0 /\ reported[a] + 0 = n
      BY <2>2, <2>5 DEF Accounted, Unreported
    <3> HIDE DEF n, m, l, k
    <3>2. reported[a] <= k /\ k < reported[a] + m /\ reported[a] = k
      BY <2>1, <2>3, <2>4, <3>1
    <3> QED
      BY <3>2 DEF k, m
  <2>6. CASE batch[a] # << >>
    <3>1. l # 0 /\ reported[a] + m = n /\ task[a] # "ticking"
      <4>1. l >= 1
        BY <2>1, <2>6, HeadAndTail
      <4> QED
        BY <2>2, <2>6, <4>1 DEF Accounted, Unreported
    <3> HIDE DEF n, m, l, k
    <3>2. reported[a] <= k /\ k < reported[a] + m
      BY <2>1, <2>3, <2>4, <3>1
    <3> QED
      BY <3>1, <3>2 DEF k, m
  <2> QED
    BY <2>5, <2>6
<1> QED
  BY <1>1, AlwaysInv, PTL
-----------------------------------------------------------------------------
(***************************************************************************)
(* The ids of first lives. A stream takes triangular numbers, which are    *)
(* all different modulo a power of two (generator.rs:88-91).               *)
(***************************************************************************)
Doubles(p, m) == /\ p \in [0..m -> Nat] /\ p[0] = 1
                 /\ \A k \in 1..m : p[k] = 2 * p[k - 1]

IsPowerOfTwo(n) == \E m \in Nat : \E p : Doubles(p, m) /\ n = p[m]

(***************************************************************************)
(* A number is even or odd, and not both.                                  *)
(***************************************************************************)
LEMMA EvenOrOdd ==
    ASSUME NEW n \in Nat
    PROVE  /\ \E k \in Nat : n = 2 * k \/ n = (2 * k) + 1
           /\ \A k, l \in Nat : 2 * k # (2 * l) + 1
<1>1. \E k \in Nat : n = 2 * k \/ n = (2 * k) + 1
  <2>1. n \div 2 \in Nat /\ n % 2 \in 0..1 /\ n = 2 * (n \div 2) + (n % 2)
    BY Division
  <2> QED
    BY <2>1
<1> QED
  BY <1>1

(***************************************************************************)
(* An odd factor can be taken from a multiple of a power of two.           *)
(***************************************************************************)
LEMMA OddFactor ==
    ASSUME NEW m \in Nat, NEW p, Doubles(p, m)
    PROVE  \A a, b, c \in Nat : ((2 * a) + 1) * b = p[m] * c => \E d \in Nat : b = p[m] * d
<1> DEFINE T == {k \in 0..m : \A a, b, c \in Nat :
                     ((2 * a) + 1) * b = p[k] * c => \E d \in Nat : b = p[k] * d}
<1>1. 0 \in T
  <2>1. p[0] = 1 /\ \A b \in Nat : b = 1 * b
    BY DEF Doubles
  <2> QED
    BY <2>1
<1>2. ASSUME NEW k \in 1..m, k - 1 \in T PROVE k \in T
  <2> SUFFICES ASSUME NEW a \in Nat, NEW b \in Nat, NEW c \in Nat,
                      ((2 * a) + 1) * b = p[k] * c
               PROVE  \E d \in Nat : b = p[k] * d
    OBVIOUS
  <2>1. PICK q \in Nat : q = p[k - 1] /\ p[k] = 2 * q
    <3>1. k - 1 \in 0..m
      OBVIOUS
    <3> QED
      BY <3>1 DEF Doubles
  <2>2. PICK x \in Nat, y \in Nat : x = a * b /\ y = q * c
    OBVIOUS
  <2>3. (2 * x) + b = 2 * y
    BY <2>1, <2>2
  <2>4. PICK e \in Nat : b = 2 * e
    <3>1. PICK e \in Nat : b = 2 * e \/ b = (2 * e) + 1
      BY EvenOrOdd
    <3>2. b # (2 * e) + 1
      <4> SUFFICES ASSUME b = (2 * e) + 1 PROVE FALSE
        OBVIOUS
      <4>1. (2 * (x + e)) + 1 = 2 * y
        BY <2>3
      <4>2. x + e \in Nat
        OBVIOUS
      <4> QED
        BY <4>1, <4>2, EvenOrOdd
    <3> QED
      BY <3>1, <3>2
  <2>5. ((2 * a) + 1) * e = q * c
    <3>1. PICK z \in Nat : z = a * e
      OBVIOUS
    <3>2. x = 2 * z
      BY <2>2, <2>4, <3>1
    <3>3. (2 * z) + e = y
      BY <2>3, <2>4, <3>2
    <3>4. ((2 * a) + 1) * e = (2 * z) + e
      BY <3>1
    <3> QED
      BY <2>2, <3>3, <3>4
  <2>6. PICK d \in Nat : e = q * d
    BY <1>2, <2>1, <2>5
  <2>7. b = (2 * q) * d
    BY <2>4, <2>6
  <2> QED
    BY <2>1, <2>7
<1>3. 0..m \subseteq T
  <2> HIDE DEF T
  <2> QED
    BY <1>1, <1>2, IntervalInduction
<1>4. m \in T
  <2> HIDE DEF T
  <2> QED
    BY <1>3
<1> QED
  BY <1>4

(***************************************************************************)
(* Multiples are zero or at least as large.                                *)
(***************************************************************************)
LEMMA NoMultipleBetween ==
    ASSUME NEW n \in Nat \ {0}, NEW d \in Nat, NEW x \in Nat \ {0}, x = n * d
    PROVE  x >= n
<1>1. CASE d = 0
  BY <1>1
<1>2. CASE d >= 1
  <2>1. PICK e \in Nat : d = e + 1
    <3>1. d - 1 \in Nat /\ d = (d - 1) + 1
      BY <1>2
    <3> QED
      BY <3>1
  <2>2. x = n * e + n /\ n * e \in Nat
    BY <2>1
  <2> QED
    BY <2>2
<1> QED
  BY <1>1, <1>2

(***************************************************************************)
(* Twice a triangular number.                                              *)
(***************************************************************************)
LEMMA TwiceTriangle ==
    ASSUME NEW n \in Nat, n >= 1
    PROVE  Triangle(n) \in Nat /\ 2 * Triangle(n) = n * (n - 1)
<1>1. PICK k \in Nat : n = 2 * k \/ n = (2 * k) + 1
  BY EvenOrOdd
<1>2. \A x \in Nat : (2 * x) \div 2 = x
  OBVIOUS
<1>3. PICK x \in Nat : n * (n - 1) = 2 * x
  <2>1. CASE n = 2 * k
    <3>1. n - 1 \in Nat /\ k * (n - 1) \in Nat
      OBVIOUS
    <3>2. n * (n - 1) = 2 * (k * (n - 1))
      BY <2>1
    <3> QED
      BY <3>1, <3>2
  <2>2. CASE n = (2 * k) + 1
    <3>1. n - 1 = 2 * k /\ n * k \in Nat
      BY <2>2
    <3>2. n * (n - 1) = 2 * (n * k)
      BY <3>1
    <3> QED
      BY <3>1, <3>2
  <2> QED
    BY <1>1, <2>1, <2>2
<1> QED
  BY <1>2, <1>3 DEF Triangle

(***************************************************************************)
(* The triangular numbers of one period are all different modulo a power   *)
(* of two, also behind a seed.                                             *)
(***************************************************************************)
LEMMA TrianglesApart ==
    ASSUME NEW n \in Nat \ {0}, IsPowerOfTwo(n), NEW seed \in Nat,
           NEW i \in 1..n, NEW j \in 1..n, i < j
    PROVE  (seed + Triangle(i)) % n # (seed + Triangle(j)) % n
<1> SUFFICES ASSUME (seed + Triangle(i)) % n = (seed + Triangle(j)) % n PROVE FALSE
  OBVIOUS
<1>1. PICK m \in Nat : \E p : Doubles(p, m) /\ n = p[m]
  BY DEF IsPowerOfTwo
<1>2. PICK p : Doubles(p, m) /\ n = p[m]
  BY <1>1
<1>3. PICK s \in Nat, t \in Nat : /\ s = Triangle(i) /\ t = Triangle(j)
                                  /\ 2 * s = i * (i - 1) /\ 2 * t = j * (j - 1)
  <2>1. i \in Nat /\ j \in Nat /\ i >= 1 /\ j >= 1
    OBVIOUS
  <2>2. Triangle(i) \in Nat /\ 2 * Triangle(i) = i * (i - 1)
    BY <2>1, TwiceTriangle
  <2>3. Triangle(j) \in Nat /\ 2 * Triangle(j) = j * (j - 1)
    BY <2>1, TwiceTriangle
  <2> QED
    BY <2>2, <2>3
<1>4. PICK x \in Nat \ {0}, y \in Nat \ {0} : j = i + x /\ y = (i + j) - 1
  <2>1. j - i \in Nat \ {0} /\ j = i + (j - i) /\ (i + j) - 1 \in Nat \ {0}
    OBVIOUS
  <2> QED
    BY <2>1
<1>5. x < n /\ y < 2 * n /\ y = x + 2 * i - 1
  BY <1>4
<1>6. 2 * t = 2 * s + x * y
  <2>1. j * (j - 1) = (i + x) * ((i + x) - 1)
    BY <1>4
  <2>2. (i + x) * ((i + x) - 1) = i * (i - 1) + x * ((i + (i + x)) - 1)
    <3>1. PICK a \in Nat, b \in Nat, c \in Nat : a = i * i /\ b = i * x /\ c = x * x
      OBVIOUS
    <3>2. (i + x) * ((i + x) - 1) = a + 2 * b + c - i - x
      BY <3>1
    <3>3. i * (i - 1) = a - i /\ x * ((i + (i + x)) - 1) = 2 * b + c - x
      BY <3>1
    <3> QED
      BY <3>1, <3>2, <3>3
  <2>3. y = (i + (i + x)) - 1
    BY <1>4
  <2> QED
    BY <1>3, <2>1, <2>2, <2>3
<1>7. PICK c \in Nat : t = s + n * c
  <2>1. PICK q \in Nat, r \in 0..(n - 1) : seed + s = n * q + r /\ (seed + s) % n = r
    <3>1. seed + s \in Nat
      OBVIOUS
    <3> QED
      BY <3>1, Division
  <2>2. PICK u \in Nat, v \in 0..(n - 1) : seed + t = n * u + v /\ (seed + t) % n = v
    <3>1. seed + t \in Nat
      OBVIOUS
    <3> QED
      BY <3>1, Division
  <2>3. r = v
    BY <1>3, <2>1, <2>2
  <2>4. s <= t
    <3>1. x * y \in Nat
      OBVIOUS
    <3> QED
      BY <1>6, <3>1
  <2>5. n * q <= n * u /\ n * q \in Nat /\ n * u \in Nat
    BY <2>1, <2>2, <2>3, <2>4
  <2>6. q <= u
    <3> SUFFICES ASSUME u + 1 <= q PROVE FALSE
      OBVIOUS
    <3>1. n * (u + 1) <= n * q
      BY ProductGrows
    <3>2. n * (u + 1) = n * u + n
      OBVIOUS
    <3> QED
      BY <2>5, <3>1, <3>2
  <2>7. PICK c \in Nat : u = q + c
    <3>1. u - q \in Nat /\ u = q + (u - q)
      BY <2>6
    <3> QED
      BY <3>1
  <2>8. n * u = n * q + n * c
    BY <2>7
  <2>9. t = s + n * c
    BY <2>1, <2>2, <2>3, <2>5, <2>8
  <2> QED
    BY <2>9
<1>8. x * y = 2 * (n * c)
  BY <1>6, <1>7
<1>9. PICK k \in Nat : x = 2 * k \/ x = (2 * k) + 1
  BY EvenOrOdd
<1>10. CASE x = 2 * k
  <2>1. PICK a \in Nat : y = (2 * a) + 1
    <3>1. k + i - 1 \in Nat /\ y = (2 * (k + i - 1)) + 1
      BY <1>5, <1>10
    <3> QED
      BY <3>1
  <2>2. ((2 * a) + 1) * k = n * c
    <3>1. PICK z \in Nat, w \in Nat : z = k * y /\ w = n * c
      OBVIOUS
    <3>2. x * y = 2 * z
      BY <1>10, <3>1
    <3>3. z = w
      BY <1>8, <3>1, <3>2
    <3> QED
      BY <2>1, <3>1, <3>3
  <2>3. PICK d \in Nat : k = n * d
    BY <1>2, <2>2, OddFactor
  <2>4. k \in Nat \ {0}
    BY <1>10
  <2>5. k >= n
    BY <2>3, <2>4, NoMultipleBetween
  <2> QED
    BY <1>5, <1>10, <2>5
<1>11. CASE x = (2 * k) + 1
  <2>1. PICK e \in Nat \ {0} : y = 2 * e
    <3>1. k + i \in Nat \ {0} /\ y = 2 * (k + i)
      BY <1>5, <1>11
    <3> QED
      BY <3>1
  <2>2. ((2 * k) + 1) * e = n * c
    <3>1. PICK z \in Nat, w \in Nat : z = x * e /\ w = n * c
      OBVIOUS
    <3>2. x * y = 2 * z
      BY <2>1, <3>1
    <3>3. z = w
      BY <1>8, <3>1, <3>2
    <3> QED
      BY <1>11, <3>1, <3>3
  <2>3. PICK d \in Nat : e = n * d
    BY <1>2, <2>2, OddFactor
  <2>4. e >= n
    BY <2>3, NoMultipleBetween
  <2> QED
    BY <1>5, <2>1, <2>4
<1> QED
  BY <1>9, <1>10, <1>11

(***************************************************************************)
(* No id is formed twice: those of two authorities differ above the shift, *)
(* and those of one within a period below it (generator.rs:88-91 and       *)
(* 151-156).                                                               *)
(***************************************************************************)
LEMMA IdsApart ==
    ASSUME IsPowerOfTwo(RandomRange), NEW a \in Generators, NEW b \in Generators,
           NEW i \in 1..RandomRange, NEW j \in 1..RandomRange, Id(a, i) = Id(b, j)
    PROVE  a = b /\ i = j
<1>1. /\ RandomRange \in Nat \ {0} /\ a \in Nat /\ b \in Nat
      /\ Seed[a] \in Nat /\ Seed[b] \in Nat
  BY GeneratorAssumption, WordRangeType
<1>2. Triangle(i) \in Nat /\ Triangle(j) \in Nat
  <2>1. i \in Nat /\ j \in Nat /\ i >= 1 /\ j >= 1
    BY <1>1
  <2> QED
    BY <2>1, TwiceTriangle
<1>3. PICK v \in 0..(RandomRange - 1) : v = (Seed[a] + Triangle(i)) % RandomRange
  <2>1. Seed[a] + Triangle(i) \in Nat
    BY <1>1, <1>2
  <2> QED
    BY <1>1, <2>1, Division
<1>4. PICK w \in 0..(RandomRange - 1) : w = (Seed[b] + Triangle(j)) % RandomRange
  <2>1. Seed[b] + Triangle(j) \in Nat
    BY <1>1, <1>2
  <2> QED
    BY <1>1, <2>1, Division
<1>5. (a * RandomRange) + v = (b * RandomRange) + w
  BY <1>3, <1>4 DEF Id, Triangle
<1>6. a = b
  <2>1. ASSUME NEW x \in Nat, NEW y \in Nat, x < y
        PROVE  y * RandomRange >= (x * RandomRange) + RandomRange
    <3>1. PICK z \in Nat : y = x + 1 + z
      <4>1. y - x - 1 \in Nat /\ y = x + 1 + (y - x - 1)
        BY <2>1
      <4> QED
        BY <4>1
    <3>2. y * RandomRange = x * RandomRange + RandomRange + z * RandomRange
      BY <1>1, <3>1
    <3>3. z * RandomRange \in Nat /\ x * RandomRange \in Nat
      BY <1>1
    <3> QED
      BY <1>1, <3>2, <3>3
  <2>2. PICK p \in Nat, q \in Nat : p = a * RandomRange /\ q = b * RandomRange
    BY <1>1
  <2>3. a < b => q >= p + RandomRange
    BY <1>1, <2>1, <2>2
  <2>4. b < a => p >= q + RandomRange
    BY <1>1, <2>1, <2>2
  <2>5. p + v = q + w
    BY <1>5, <2>2
  <2>6. ~(a < b) /\ ~(b < a)
    BY <1>1, <2>3, <2>4, <2>5
  <2> QED
    BY <1>1, <2>6
<1>7. v = w
  <2>1. PICK p \in Nat : p = a * RandomRange
    BY <1>1
  <2>2. p + v = p + w
    BY <1>5, <1>6, <2>1
  <2> QED
    BY <2>1, <2>2
<1>8. (Seed[a] + Triangle(i)) % RandomRange = (Seed[a] + Triangle(j)) % RandomRange
  BY <1>3, <1>4, <1>6, <1>7
<1>9. ~(i < j)
  BY <1>1, <1>8, TrianglesApart
<1>10. ~(j < i)
  BY <1>1, <1>8, TrianglesApart
<1> QED
  BY <1>1, <1>6, <1>9, <1>10
-----------------------------------------------------------------------------
(***************************************************************************)
(* Sequences without repetitions, and queues of blocks without any.        *)
(***************************************************************************)
Holds(s, x) == \E i \in 1..Len(s) : s[i] = x
Once(s) == \A i, j \in 1..Len(s) : s[i] = s[j] => i = j

InBlocks(q, x) == \E i \in 1..Len(q) : Holds(q[i], x)
BlocksOnce(q) ==
    /\ \A i \in 1..Len(q) : Once(q[i])
    /\ \A i, j \in 1..Len(q) : \A x : Holds(q[i], x) /\ Holds(q[j], x) => i = j

(***************************************************************************)
(* One sequence after another.                                             *)
(***************************************************************************)
LEMMA HoldsConcat ==
    ASSUME NEW s \in Seq(Words), NEW t \in Seq(Words)
    PROVE  /\ \A x : Holds(s \o t, x) <=> Holds(s, x) \/ Holds(t, x)
           /\ Once(s) /\ Once(t) /\ (\A x : ~(Holds(s, x) /\ Holds(t, x))) => Once(s \o t)
           /\ Once(s \o t) => Once(t) /\ Once(s) /\ \A x : ~(Holds(s, x) /\ Holds(t, x))
<1> DEFINE m == Len(s)
           n == Len(t)
           u == s \o t
<1>1. m \in Nat /\ n \in Nat /\ Len(u) = m + n
  BY LenProperties
<1>2. \A i \in 1..m : u[i] = s[i] /\ i \in 1..(m + n)
  BY <1>1
<1>3. \A i \in 1..n : u[m + i] = t[i] /\ m + i \in 1..(m + n)
  BY <1>1
<1>4. \A i \in 1..(m + n) : i \in 1..m \/ \E k \in 1..n : i = m + k
  <2> TAKE i \in 1..(m + n)
  <2>1. CASE i <= m
    BY <1>1, <2>1
  <2>2. CASE i > m
    <3>1. i - m \in 1..n /\ i = m + (i - m)
      BY <1>1, <2>2
    <3> QED
      BY <3>1
  <2> QED
    BY <1>1, <2>1, <2>2
<1> HIDE DEF u, m, n
<1>5. \A x : Holds(u, x) <=> Holds(s, x) \/ Holds(t, x)
  <2> TAKE x
  <2>1. Holds(s, x) => Holds(u, x)
    BY <1>1, <1>2 DEF Holds, m
  <2>2. Holds(t, x) => Holds(u, x)
    BY <1>1, <1>3 DEF Holds, n
  <2>3. Holds(u, x) => Holds(s, x) \/ Holds(t, x)
    <3> SUFFICES ASSUME NEW i \in 1..(m + n), u[i] = x PROVE Holds(s, x) \/ Holds(t, x)
      BY <1>1 DEF Holds
    <3>1. CASE i \in 1..m
      BY <1>2, <3>1 DEF Holds, m
    <3>2. CASE \E k \in 1..n : i = m + k
      BY <1>3, <3>2 DEF Holds, n
    <3> QED
      BY <1>4, <3>1, <3>2
  <2> QED
    BY <2>1, <2>2, <2>3
<1>6. Once(s) /\ Once(t) /\ (\A x : ~(Holds(s, x) /\ Holds(t, x))) => Once(u)
  <2> SUFFICES ASSUME Once(s), Once(t), \A x : ~(Holds(s, x) /\ Holds(t, x)),
                      NEW i \in 1..(m + n), NEW j \in 1..(m + n), u[i] = u[j]
               PROVE  i = j
    BY <1>1 DEF Once
  <2>1. CASE i \in 1..m /\ j \in 1..m
    BY <1>2, <2>1 DEF Once, m
  <2>2. CASE i \in 1..m /\ \E k \in 1..n : j = m + k
    <3>1. Holds(s, u[i])
      BY <1>2, <2>2 DEF Holds, m
    <3>2. Holds(t, u[j])
      BY <1>3, <2>2 DEF Holds, n
    <3> QED
      BY <3>1, <3>2
  <2>3. CASE (\E k \in 1..n : i = m + k) /\ j \in 1..m
    <3>1. Holds(s, u[j])
      BY <1>2, <2>3 DEF Holds, m
    <3>2. Holds(t, u[i])
      BY <1>3, <2>3 DEF Holds, n
    <3> QED
      BY <3>1, <3>2
  <2>4. CASE (\E k \in 1..n : i = m + k) /\ (\E l \in 1..n : j = m + l)
    <3>1. PICK k \in 1..n, l \in 1..n : i = m + k /\ j = m + l
      BY <2>4
    <3>2. t[k] = t[l]
      BY <1>3, <3>1
    <3>3. k = l
      BY <3>2 DEF Once, n
    <3> QED
      BY <3>1, <3>3
  <2> QED
    BY <1>4, <2>1, <2>2, <2>3, <2>4
<1>7. Once(u) => Once(t) /\ Once(s) /\ \A x : ~(Holds(s, x) /\ Holds(t, x))
  <2> SUFFICES ASSUME Once(u)
               PROVE  Once(t) /\ Once(s) /\ \A x : ~(Holds(s, x) /\ Holds(t, x))
    OBVIOUS
  <2>1. \A i, j \in 1..(m + n) : u[i] = u[j] => i = j
    BY <1>1 DEF Once
  <2>2. Once(s)
    BY <1>2, <2>1 DEF Once, m
  <2>3. Once(t)
    <3> SUFFICES ASSUME NEW k \in 1..n, NEW l \in 1..n, t[k] = t[l] PROVE k = l
      BY DEF Once, n
    <3>1. m + k = m + l
      BY <1>3, <2>1
    <3> QED
      BY <1>1, <3>1
  <2>4. ASSUME NEW x, Holds(s, x), Holds(t, x) PROVE FALSE
    <3>1. PICK i \in 1..m : s[i] = x
      BY <2>4 DEF Holds, m
    <3>2. PICK k \in 1..n : t[k] = x
      BY <2>4 DEF Holds, n
    <3>3. i = m + k
      BY <1>2, <1>3, <2>1, <3>1, <3>2
    <3> QED
      BY <1>1, <3>3
  <2> QED
    BY <2>2, <2>3, <2>4
<1> QED
  BY <1>5, <1>6, <1>7 DEF u

(***************************************************************************)
(* A sequence and its tail.                                                *)
(***************************************************************************)
LEMMA TailOnce ==
    ASSUME NEW s \in Seq(Words), s # << >>, Once(s)
    PROVE  /\ Tail(s) \in Seq(Words) /\ Head(s) \in Words /\ Holds(s, Head(s))
           /\ Once(Tail(s))
           /\ \A x : Holds(Tail(s), x) => Holds(s, x) /\ x # Head(s)
<1> DEFINE n == Len(s)
           t == Tail(s)
<1>1. /\ n \in Nat /\ n >= 1 /\ Head(s) = s[1] /\ 1 \in 1..n /\ s[1] \in Words
      /\ t \in Seq(Words) /\ Len(t) = n - 1
      /\ \A i \in 1..(n - 1) : t[i] = s[i + 1]
  <2>1. n \in Nat /\ n # 0
    BY LenProperties, EmptySeq
  <2>2. t \in Seq(Words) /\ Len(t) = n - 1 /\ \A i \in 1..(n - 1) : t[i] = s[i + 1]
    BY <2>1, HeadTailProperties
  <2> QED
    BY <2>1, <2>2, ElementOfSeq
<1> HIDE DEF t
<1>2. \A i, j \in 1..n : s[i] = s[j] => i = j
  BY DEF Once
<1>3. \A i \in 1..(n - 1) : i + 1 \in 1..n /\ i + 1 # 1
  BY <1>1
<1> HIDE DEF n
<1>4. Once(t)
  <2> SUFFICES ASSUME NEW i \in 1..(n - 1), NEW j \in 1..(n - 1), t[i] = t[j] PROVE i = j
    BY <1>1 DEF Once
  <2>1. i + 1 = j + 1
    BY <1>1, <1>2, <1>3
  <2> QED
    BY <1>1, <2>1
<1>5. ASSUME NEW x, Holds(t, x) PROVE Holds(s, x) /\ x # Head(s)
  <2>1. PICK i \in 1..(n - 1) : t[i] = x
    BY <1>1, <1>5 DEF Holds
  <2>2. i + 1 \in 1..n /\ i + 1 # 1 /\ s[i + 1] = x
    BY <1>1, <1>3, <2>1
  <2>3. x # s[1]
    BY <1>1, <1>2, <2>2
  <2> QED
    BY <1>1, <2>2, <2>3 DEF Holds, n
<1>6. Holds(s, Head(s))
  BY <1>1 DEF Holds, n
<1> QED
  BY <1>1, <1>4, <1>5, <1>6 DEF t

(***************************************************************************)
(* A queue with another block, all of whose ids are new to it.             *)
(***************************************************************************)
LEMMA BlockAppended ==
    ASSUME NEW q \in Seq(Seq(Words)), NEW b \in Seq(Words), BlocksOnce(q), Once(b),
           \A x : ~(Holds(b, x) /\ InBlocks(q, x))
    PROVE  /\ BlocksOnce(Append(q, b))
           /\ \A x : InBlocks(Append(q, b), x) => InBlocks(q, x) \/ Holds(b, x)
<1> DEFINE n == Len(q)
           u == Append(q, b)
<1>1. n \in Nat /\ Len(u) = n + 1 /\ (\A i \in 1..n : u[i] = q[i]) /\ u[n + 1] = b
  BY LenProperties
<1>2. \A i \in 1..(n + 1) : i \in 1..n \/ i = n + 1
  BY <1>1
<1> HIDE DEF u, n
<1>3. \A i \in 1..n : \A x : Holds(q[i], x) => InBlocks(q, x)
  BY DEF InBlocks, n
<1>4. \A i \in 1..(n + 1) : Once(u[i])
  BY <1>1, <1>2 DEF BlocksOnce, n
<1>5. ASSUME NEW i \in 1..(n + 1), NEW j \in 1..(n + 1), NEW x, Holds(u[i], x), Holds(u[j], x)
      PROVE  i = j
  <2>1. CASE i \in 1..n /\ j \in 1..n
    BY <1>1, <1>5, <2>1 DEF BlocksOnce, n
  <2>2. CASE i \in 1..n /\ j = n + 1
    BY <1>1, <1>3, <1>5, <2>2
  <2>3. CASE i = n + 1 /\ j \in 1..n
    BY <1>1, <1>3, <1>5, <2>3
  <2>4. CASE i = n + 1 /\ j = n + 1
    BY <2>4
  <2> QED
    BY <1>2, <2>1, <2>2, <2>3, <2>4
<1>6. \A x : InBlocks(u, x) => InBlocks(q, x) \/ Holds(b, x)
  BY <1>1, <1>2, <1>3 DEF InBlocks
<1>7. BlocksOnce(u)
  BY <1>1, <1>4, <1>5 DEF BlocksOnce
<1> QED
  BY <1>6, <1>7 DEF u

(***************************************************************************)
(* A queue without its first block has none of the ids of that block.      *)
(***************************************************************************)
LEMMA BlockTaken ==
    ASSUME NEW q \in Seq(Seq(Words)), q # << >>, BlocksOnce(q)
    PROVE  /\ BlocksOnce(Tail(q)) /\ Head(q) \in Seq(Words) /\ Once(Head(q))
           /\ \A x : InBlocks(Tail(q), x) => InBlocks(q, x) /\ ~Holds(Head(q), x)
           /\ \A x : Holds(Head(q), x) => InBlocks(q, x)
<1> DEFINE n == Len(q)
           t == Tail(q)
<1>1. /\ n \in Nat /\ n >= 1 /\ Head(q) = q[1] /\ 1 \in 1..n /\ q[1] \in Seq(Words)
      /\ t \in Seq(Seq(Words)) /\ Len(t) = n - 1
      /\ \A i \in 1..(n - 1) : t[i] = q[i + 1]
  <2>1. n \in Nat /\ n # 0
    BY LenProperties, EmptySeq
  <2>2. t \in Seq(Seq(Words)) /\ Len(t) = n - 1 /\ \A i \in 1..(n - 1) : t[i] = q[i + 1]
    BY <2>1, HeadTailProperties
  <2> QED
    BY <2>1, <2>2, ElementOfSeq
<1>2. \A i \in 1..(n - 1) : i + 1 \in 1..n /\ i + 1 # 1
  BY <1>1
<1> HIDE DEF t, n
<1>3. /\ \A i \in 1..n : Once(q[i])
      /\ \A i, j \in 1..n : \A x : Holds(q[i], x) /\ Holds(q[j], x) => i = j
  BY DEF BlocksOnce, n
<1>4. BlocksOnce(t)
  <2>1. \A i \in 1..(n - 1) : Once(t[i])
    BY <1>1, <1>2, <1>3
  <2>2. ASSUME NEW i \in 1..(n - 1), NEW j \in 1..(n - 1), NEW x, Holds(t[i], x), Holds(t[j], x)
        PROVE  i = j
    <3>1. i + 1 = j + 1
      BY <1>1, <1>2, <1>3, <2>2
    <3> QED
      BY <1>1, <3>1
  <2> QED
    BY <1>1, <2>1, <2>2 DEF BlocksOnce
<1>5. ASSUME NEW x, InBlocks(t, x) PROVE InBlocks(q, x) /\ ~Holds(Head(q), x)
  <2>1. PICK i \in 1..(n - 1) : Holds(t[i], x)
    BY <1>1, <1>5 DEF InBlocks
  <2>2. i + 1 \in 1..n /\ i + 1 # 1 /\ Holds(q[i + 1], x)
    BY <1>1, <1>2, <2>1
  <2>3. ~Holds(q[1], x)
    BY <1>1, <1>3, <2>2
  <2> QED
    BY <1>1, <2>2, <2>3 DEF InBlocks, n
<1>6. \A x : Holds(Head(q), x) => InBlocks(q, x)
  BY <1>1 DEF InBlocks, n
<1> QED
  BY <1>1, <1>3, <1>4, <1>5, <1>6 DEF t
-----------------------------------------------------------------------------
(***************************************************************************)
(* Executing a creation writes no other object (effects.rs:28-66).         *)
(***************************************************************************)
LEMMA CreationWritesItself ==
    ASSUME NEW s, NEW id \in Words, NEW x \in Words, x # id
    PROVE  Exec!Apply(s, Exec!OutputWrites(s, Creation(id))).latest[x] = s.latest[x]
<1> DEFINE inputs == <<[id |-> id, mode |-> "WriteOnly"]>>
           version == Exec!NextVersion(s, Creation(id))
           w == <<[id |-> id, version |-> version]>>
           step(writes, input) == IF input.mode = "ReadOnly" THEN writes
                                  ELSE Append(writes, [id |-> input.id, version |-> version])
           Solves(f) == f = [t \in SUBSET DOMAIN inputs |->
                                IF t = {} THEN << >>
                                ELSE step(f[t \ {Max(t)}], inputs[Max(t)])]
           fold == CHOOSE f : Solves(f)
<1>1. DOMAIN inputs = {1} /\ inputs[1] = [id |-> id, mode |-> "WriteOnly"]
  <2>1. 1..1 = {1}
    OBVIOUS
  <2> QED
    BY <2>1
<1>2. Max({1}) = 1
  <2>1. \A y \in {1} : 1 >= y
    OBVIOUS
  <2> QED
    BY <2>1 DEF Max
<1>3. step(<< >>, inputs[1]) = w
  BY <1>1
<1>4. \E f : Solves(f)
  <2> DEFINE f == [t \in SUBSET {1} |-> IF t = {} THEN << >> ELSE w]
  <2>1. \A t \in SUBSET {1} : t = {} \/ t = {1}
    OBVIOUS
  <2>2. f[{}] = << >> /\ {1} \ {1} = {} /\ {1} # {}
    OBVIOUS
  <2> HIDE DEF w, step, inputs
  <2>3. ASSUME NEW t \in SUBSET {1}
        PROVE  f[t] = IF t = {} THEN << >> ELSE step(f[t \ {Max(t)}], inputs[Max(t)])
    <3>1. CASE t = {}
      BY <3>1
    <3>2. CASE t = {1}
      <4>1. f[t] = w
        BY <3>2
      <4>2. f[t \ {Max(t)}] = << >>
        BY <1>2, <2>2, <3>2
      <4> HIDE DEF f
      <4> QED
        BY <1>2, <1>3, <2>2, <3>2, <4>1, <4>2
    <3> QED
      BY <2>1, <3>1, <3>2
  <2>4. f = [t \in SUBSET {1} |-> IF t = {} THEN << >>
                                  ELSE step(f[t \ {Max(t)}], inputs[Max(t)])]
    BY <2>3
  <2> HIDE DEF f
  <2>5. Solves(f)
    BY <1>1, <2>4
  <2> HIDE DEF Solves
  <2> QED
    BY <2>5
<1>5. Solves(fold)
  <2> HIDE DEF Solves
  <2> QED
    BY <1>4
<1>6. Exec!Writes(s, Creation(id)) = fold[DOMAIN inputs]
  BY DEF Exec!Writes, Creation, Exec!FoldLeft, Exec!MapThenFoldSet, Exec!Max, Max
<1> HIDE DEF fold
<1>7. fold[{1}] = w
  <2> HIDE DEF w, step, inputs
  <2>1. {1} \in SUBSET {1} /\ {} \in SUBSET {1} /\ {1} # {} /\ {1} \ {1} = {}
    OBVIOUS
  <2>2. fold = [t \in SUBSET {1} |-> IF t = {} THEN << >>
                                     ELSE step(fold[t \ {Max(t)}], inputs[Max(t)])]
    BY <1>1, <1>5
  <2>3. fold[{}] = << >>
    BY <2>1, <2>2
  <2>4. fold[{1}] = step(fold[{1} \ {Max({1})}], inputs[Max({1})])
    BY <2>1, <2>2
  <2> QED
    BY <1>2, <1>3, <2>1, <2>3, <2>4
<1>8. Exec!OutputWrites(s, Creation(id)) = w \/ Exec!OutputWrites(s, Creation(id)) = << >>
  BY <1>1, <1>6, <1>7 DEF Exec!OutputWrites
<1>9. \A i \in DOMAIN Exec!OutputWrites(s, Creation(id)) :
          Exec!OutputWrites(s, Creation(id))[i].id = id
  <2>1. \A i \in DOMAIN w : w[i].id = id
    OBVIOUS
  <2> HIDE DEF w
  <2> QED
    BY <1>8, <2>1
<1> QED
  BY <1>9 DEF Exec!Apply
-----------------------------------------------------------------------------
(***************************************************************************)
(* The inductive invariant of first lives. What was submitted since the    *)
(* processes started is on its way in at most one place, the queue of its  *)
(* authority or the log, and is in the store only once it has left both.   *)
(***************************************************************************)
Submitted(x) == \E a \in Generators : Holds(accepted[a], x)
Waiting(x) == \E a \in Generators : InBlocks(queue[a], x)

OnTheWay ==
    /\ \A a \in Generators : /\ BlocksOnce(queue[a])
                             /\ \A x : InBlocks(queue[a], x) => Holds(accepted[a], x)
    /\ Once(log)
    /\ \A x : Holds(log, x) => Submitted(x) /\ ~Waiting(x)
    /\ \A x \in Words :
           store.latest[x] # 0 => Submitted(x) /\ ~Waiting(x) /\ ~Holds(log, x)

LoadInv == Inv /\ log \in Seq(Words) /\ (restarts = 0 => OnTheWay)

(***************************************************************************)
(* What an authority submitted is from its stream, whose ids are all       *)
(* different.                                                              *)
(***************************************************************************)
LEMMA StreamOnce ==
    ASSUME IsPowerOfTwo(RandomRange), Inv, NEW a \in Generators
    PROVE  /\ Once(accepted[a] \o batch[a])
           /\ \A x : Holds(accepted[a] \o batch[a], x) =>
                         \E k \in 1..RandomRange : x = Id(a, k)
<1>1. PICK n \in 0..RandomRange : n = stream[a].counter
  BY Types DEF Inv
<1>2. accepted[a] \o batch[a] = IdsUpTo(a, n)
  BY <1>1 DEF Inv, Accounted
<1>3. RandomRange \in Nat /\ n \in Nat /\ \A k \in 1..n : k \in 1..RandomRange
  BY GeneratorAssumption
<1>4. Len(IdsUpTo(a, n)) = n /\ \A k \in 1..n : IdsUpTo(a, n)[k] = Id(a, k)
  BY <1>3 DEF IdsUpTo
<1>5. \A i, j \in 1..n : Id(a, i) = Id(a, j) => i = j
  BY <1>3, IdsApart
<1>6. Once(IdsUpTo(a, n))
  BY <1>4, <1>5 DEF Once
<1>7. \A x : Holds(IdsUpTo(a, n), x) => \E k \in 1..RandomRange : x = Id(a, k)
  BY <1>3, <1>4 DEF Holds
<1> QED
  BY <1>2, <1>6, <1>7

(***************************************************************************)
(* Two authorities submit different ids.                                   *)
(***************************************************************************)
LEMMA OwnIds ==
    ASSUME IsPowerOfTwo(RandomRange), Inv, NEW a \in Generators, NEW b \in Generators, NEW x,
           Holds(accepted[a] \o batch[a], x), Holds(accepted[b], x)
    PROVE  a = b
<1>1. PICK i \in 1..RandomRange : x = Id(a, i)
  BY StreamOnce
<1>2. Holds(accepted[b] \o batch[b], x)
  <2>1. accepted[b] \in Seq(Words) /\ batch[b] \in Seq(Words)
    BY Types DEF Inv
  <2> QED
    BY <2>1, HoldsConcat
<1>3. PICK j \in 1..RandomRange : x = Id(b, j)
  BY <1>2, StreamOnce
<1> QED
  BY <1>1, <1>3, IdsApart

(***************************************************************************)
(* The next block of a batch has no id twice and none that was submitted   *)
(* (generator.rs:163-184).                                                 *)
(***************************************************************************)
LEMMA NextBlockIsNew ==
    ASSUME IsPowerOfTwo(RandomRange), Inv, NEW a \in Generators, batch[a] # << >>
    PROVE  /\ NextBlock(a) \in Seq(Words) /\ Once(NextBlock(a))
           /\ \A x : Holds(NextBlock(a), x) => ~Submitted(x)
<1>1. accepted[a] \in Seq(Words) /\ batch[a] \in Seq(Words)
  BY Types DEF Inv
<1>2. PICK s \in Seq(Words), t \in Seq(Words) : s = accepted[a] /\ t = batch[a]
  BY <1>1
<1>3. PICK b \in Seq(Words), r \in Seq(Words) : b = NextBlock(a) /\ r = Rest(a) /\ b \o r = t
  BY <1>1, <1>2, BlockAndRest
<1>4. Once(t) /\ (\A x : ~(Holds(s, x) /\ Holds(t, x)))
      /\ \A x : Holds(t, x) => Holds(s \o t, x)
  <2>1. Once(s \o t)
    BY <1>2, StreamOnce
  <2> QED
    BY <2>1, HoldsConcat
<1>5. Once(b) /\ \A x : Holds(b, x) => Holds(t, x)
  <2>1. Once(b \o r)
    BY <1>3, <1>4
  <2>2. Once(b)
    BY <2>1, HoldsConcat
  <2>3. \A x : Holds(b, x) => Holds(b \o r, x)
    BY HoldsConcat
  <2> QED
    BY <1>3, <2>2, <2>3
<1>6. ASSUME NEW x, Holds(b, x), NEW c \in Generators, Holds(accepted[c], x) PROVE FALSE
  <2>1. Holds(s, x) \/ Holds(t, x)
    BY <1>5, <1>6
  <2>2. Holds(accepted[a] \o batch[a], x)
    BY <1>2, <1>4, <1>5, <1>6
  <2>3. a = c
    BY <1>6, <2>2, OwnIds
  <2> QED
    BY <1>2, <1>4, <1>5, <1>6, <2>3
<1> QED
  BY <1>3, <1>5, <1>6 DEF Submitted

(***************************************************************************)
(* Initially nothing is on its way.                                        *)
(***************************************************************************)
LEMMA LoadInitInv == LoadInit => LoadInv
<1> SUFFICES ASSUME LoadInit PROVE LoadInv
  OBVIOUS
<1>1. Inv
  BY InitInv DEF LoadInit
<1>2. log = << >> /\ \A a \in Generators : queue[a] = << >>
  BY DEF LoadInit, Init
<1>3. \A x : ~Holds(<< >>, x) /\ ~InBlocks(<< >>, x)
  BY EmptySeq DEF Holds, InBlocks
<1>4. Once(<< >>) /\ BlocksOnce(<< >>)
  BY EmptySeq DEF Once, BlocksOnce
<1>5. \A x \in Words : store.latest[x] = 0
  BY DEF LoadInit, Exec!Init, Exec!EmptyStore
<1>6. log \in Seq(Words)
  BY <1>2, EmptySeq
<1>7. OnTheWay
  BY <1>2, <1>3, <1>4, <1>5 DEF OnTheWay
<1> QED
  BY <1>1, <1>6, <1>7 DEF LoadInv

(***************************************************************************)
(* A submission puts new ids into the queue of their authority.            *)
(***************************************************************************)
LEMMA SubmitOnTheWay ==
    ASSUME IsPowerOfTwo(RandomRange), Inv, OnTheWay, NEW a \in Generators, Submit(a),
           UNCHANGED <<log, execution>>
    PROVE  OnTheWay'
<1>1. batch[a] # << >>
  BY DEF Inv, Accounted, Submit
<1>2. PICK b \in Seq(Words) : /\ b = NextBlock(a) /\ Once(b)
                              /\ \A x : Holds(b, x) => ~Submitted(x)
  BY <1>1, NextBlockIsNew
<1>3. /\ queue \in [Generators -> Seq(Seq(Words))] /\ queue[a] \in Seq(Seq(Words))
      /\ accepted \in [Generators -> Seq(Words)] /\ accepted[a] \in Seq(Words)
  BY DEF Inv, TypeOK
<1>4. /\ queue' = [queue EXCEPT ![a] = Append(queue[a], b)]
      /\ accepted' = [accepted EXCEPT ![a] = accepted[a] \o b]
      /\ log' = log /\ store' = store
  BY <1>2, <1>3 DEF Submit, execution
<1>5. /\ queue'[a] = Append(queue[a], b) /\ accepted'[a] = accepted[a] \o b
      /\ \A c \in Generators : c # a => queue'[c] = queue[c] /\ accepted'[c] = accepted[c]
  BY <1>3, <1>4
<1>6. /\ \A c \in Generators : /\ BlocksOnce(queue[c])
                               /\ \A x : InBlocks(queue[c], x) => Holds(accepted[c], x)
      /\ Once(log)
      /\ \A x : Holds(log, x) => Submitted(x) /\ ~Waiting(x)
      /\ \A x \in Words :
             store.latest[x] # 0 => Submitted(x) /\ ~Waiting(x) /\ ~Holds(log, x)
  BY DEF OnTheWay
<1>7. /\ BlocksOnce(Append(queue[a], b))
      /\ \A x : InBlocks(Append(queue[a], b), x) => InBlocks(queue[a], x) \/ Holds(b, x)
  <2>1. \A x : ~(Holds(b, x) /\ InBlocks(queue[a], x))
    BY <1>2, <1>6 DEF Submitted
  <2> QED
    BY <1>2, <1>3, <1>6, <2>1, BlockAppended
<1>8. \A x : Holds(accepted[a] \o b, x) <=> Holds(accepted[a], x) \/ Holds(b, x)
  BY <1>3, HoldsConcat
<1>9. \A c \in Generators : /\ BlocksOnce(queue'[c])
                            /\ \A x : InBlocks(queue'[c], x) => Holds(accepted'[c], x)
  <2> TAKE c \in Generators
  <2>1. CASE c = a
    BY <1>5, <1>6, <1>7, <1>8, <2>1
  <2>2. CASE c # a
    BY <1>5, <1>6, <2>2
  <2> QED
    BY <2>1, <2>2
<1>10. \A x : Submitted(x) => Submitted(x)' /\ (Waiting(x)' => Waiting(x))
  <2> SUFFICES ASSUME NEW x, Submitted(x) PROVE Submitted(x)' /\ (Waiting(x)' => Waiting(x))
    OBVIOUS
  <2>1. \E c \in Generators : Holds(accepted'[c], x)
    <3>1. PICK c \in Generators : Holds(accepted[c], x)
      BY DEF Submitted
    <3>2. Holds(accepted'[c], x)
      BY <1>5, <1>8, <3>1
    <3> QED
      BY <3>2
  <2>2. ASSUME NEW c \in Generators, InBlocks(queue'[c], x)
        PROVE  \E d \in Generators : InBlocks(queue[d], x)
    <3>1. CASE c = a
      BY <1>2, <1>5, <1>7, <2>2, <3>1
    <3>2. CASE c # a
      BY <1>5, <2>2, <3>2
    <3> QED
      BY <3>1, <3>2
  <2> QED
    BY <2>1, <2>2 DEF Submitted, Waiting
<1> QED
  BY <1>4, <1>6, <1>9, <1>10 DEF OnTheWay

(***************************************************************************)
(* What a replica proposes goes from its queue to the log.                 *)
(***************************************************************************)
LEMMA ProposeOnTheWay ==
    ASSUME IsPowerOfTwo(RandomRange), LoadInv, OnTheWay, NEW a \in Generators, Propose(a)
    PROVE  OnTheWay' /\ log' \in Seq(Words)
<1>1. /\ queue \in [Generators -> Seq(Seq(Words))] /\ queue[a] \in Seq(Seq(Words))
      /\ queue[a] # << >> /\ log \in Seq(Words) /\ Inv
  BY DEF LoadInv, Inv, TypeOK, Propose, Take
<1>2. /\ queue' = [queue EXCEPT ![a] = Tail(queue[a])] /\ accepted' = accepted
      /\ log' = log \o Head(queue[a]) /\ store' = store
  BY <1>1 DEF Propose, Take, execution
<1>3. /\ queue'[a] = Tail(queue[a])
      /\ \A c \in Generators : c # a => queue'[c] = queue[c]
  BY <1>1, <1>2
<1>4. /\ \A c \in Generators : /\ BlocksOnce(queue[c])
                               /\ \A x : InBlocks(queue[c], x) => Holds(accepted[c], x)
      /\ Once(log)
      /\ \A x : Holds(log, x) => Submitted(x) /\ ~Waiting(x)
      /\ \A x \in Words :
             store.latest[x] # 0 => Submitted(x) /\ ~Waiting(x) /\ ~Holds(log, x)
  BY DEF OnTheWay
<1>5. PICK b \in Seq(Words) :
          /\ b = Head(queue[a]) /\ Once(b) /\ BlocksOnce(Tail(queue[a]))
          /\ \A x : InBlocks(Tail(queue[a]), x) => InBlocks(queue[a], x) /\ ~Holds(b, x)
          /\ \A x : Holds(b, x) => InBlocks(queue[a], x)
  BY <1>1, <1>4, BlockTaken
<1>6. \A x : Holds(b, x) => Waiting(x) /\ Submitted(x)
  BY <1>4, <1>5 DEF Waiting, Submitted
<1>7. log \o b \in Seq(Words) /\ Once(log \o b)
      /\ \A x : Holds(log \o b, x) <=> Holds(log, x) \/ Holds(b, x)
  <2>1. \A x : ~(Holds(log, x) /\ Holds(b, x))
    BY <1>4, <1>6
  <2>2. log \o b \in Seq(Words)
    BY <1>1, ConcatProperties
  <2> QED
    BY <1>1, <1>4, <1>5, <2>1, <2>2, HoldsConcat
<1>8. \A c \in Generators : /\ BlocksOnce(queue'[c])
                            /\ \A x : InBlocks(queue'[c], x) =>
                                   InBlocks(queue[c], x) /\ Holds(accepted[c], x)
  <2> TAKE c \in Generators
  <2>1. CASE c = a
    BY <1>3, <1>4, <1>5, <2>1
  <2>2. CASE c # a
    BY <1>3, <1>4, <2>2
  <2> QED
    BY <2>1, <2>2
<1>9. \A x : (Submitted(x)' <=> Submitted(x)) /\ (Waiting(x)' => Waiting(x))
  BY <1>2, <1>8 DEF Submitted, Waiting
<1>10. ASSUME NEW x, Holds(b, x) PROVE ~Waiting(x)'
  <2> SUFFICES ASSUME NEW c \in Generators, InBlocks(queue'[c], x) PROVE FALSE
    BY DEF Waiting
  <2>1. CASE c = a
    BY <1>3, <1>5, <1>10, <2>1
  <2>2. CASE c # a
    <3>1. Holds(accepted[a], x) /\ Holds(accepted[c], x)
      BY <1>4, <1>5, <1>8, <1>10
    <3>2. Holds(accepted[a] \o batch[a], x)
      <4>1. accepted[a] \in Seq(Words) /\ batch[a] \in Seq(Words)
        BY <1>1, Types DEF Inv
      <4> QED
        BY <3>1, <4>1, HoldsConcat
    <3> QED
      BY <1>1, <2>2, <3>1, <3>2, OwnIds
  <2> QED
    BY <2>1, <2>2
<1>11. log' = log \o b
  BY <1>2, <1>5
<1>12. \A x : Holds(log', x) => Submitted(x)' /\ ~Waiting(x)'
  BY <1>4, <1>6, <1>7, <1>9, <1>10, <1>11
<1>13. \A x \in Words : store'.latest[x] # 0 => /\ Submitted(x)' /\ ~Waiting(x)'
                                                /\ ~Holds(log', x)
  BY <1>2, <1>4, <1>6, <1>7, <1>9, <1>11
<1>14. \A c \in Generators : /\ BlocksOnce(queue'[c])
                             /\ \A x : InBlocks(queue'[c], x) => Holds(accepted'[c], x)
  BY <1>2, <1>8
<1> QED
  BY <1>7, <1>11, <1>12, <1>13, <1>14 DEF OnTheWay

(***************************************************************************)
(* What is executed goes from the log to the store (store.rs:45-67).       *)
(***************************************************************************)
LEMMA ExecuteOnTheWay ==
    ASSUME log \in Seq(Words), OnTheWay, Execute
    PROVE  OnTheWay'
<1>1. log # << >> /\ log' = Tail(log) /\ queue' = queue /\ accepted' = accepted
  BY DEF Execute, vars
<1>2. /\ \A c \in Generators : /\ BlocksOnce(queue[c])
                               /\ \A x : InBlocks(queue[c], x) => Holds(accepted[c], x)
      /\ Once(log)
      /\ \A x : Holds(log, x) => Submitted(x) /\ ~Waiting(x)
      /\ \A x \in Words :
             store.latest[x] # 0 => Submitted(x) /\ ~Waiting(x) /\ ~Holds(log, x)
  BY DEF OnTheWay
<1>3. /\ Head(log) \in Words /\ Holds(log, Head(log)) /\ Once(Tail(log))
      /\ \A x : Holds(Tail(log), x) => Holds(log, x) /\ x # Head(log)
  BY <1>1, <1>2, TailOnce
<1>4. PICK id \in Words : id = Head(log)
  BY <1>3
<1>5. \A x \in Words : x # id => store'.latest[x] = store.latest[x]
  <2>1. \/ store' = Exec!Apply(store, Exec!OutputWrites(store, Creation(id)))
        \/ store' = store
    BY <1>4 DEF Execute, Exec!Execute
  <2> QED
    BY <2>1, CreationWritesItself
<1>6. \A x : (Submitted(x)' <=> Submitted(x)) /\ (Waiting(x)' <=> Waiting(x))
  BY <1>1 DEF Submitted, Waiting
<1>7. \A x \in Words : store'.latest[x] # 0 => /\ Submitted(x)' /\ ~Waiting(x)'
                                               /\ ~Holds(log', x)
  <2> TAKE x \in Words
  <2>1. CASE x = id
    BY <1>1, <1>2, <1>3, <1>4, <1>6, <2>1
  <2>2. CASE x # id
    BY <1>1, <1>2, <1>3, <1>5, <1>6, <2>2
  <2> QED
    BY <2>1, <2>2
<1>8. \A x : Holds(log', x) => Submitted(x)' /\ ~Waiting(x)'
  BY <1>1, <1>2, <1>3, <1>6
<1> QED
  BY <1>1, <1>2, <1>3, <1>7, <1>8 DEF OnTheWay

(***************************************************************************)
(* Every step keeps the invariant; after a restart it says nothing of the  *)
(* ids any more.                                                           *)
(***************************************************************************)
LEMMA LoadNextInv ==
    ASSUME IsPowerOfTwo(RandomRange), LoadInv, [LoadNext]_allVars
    PROVE  LoadInv'
<1>1. Inv /\ log \in Seq(Words) /\ restarts \in Nat /\ (restarts = 0 => OnTheWay)
  BY GeneratorAssumption DEF LoadInv, Inv, TypeOK
<1>2. Inv'
  <2>1. [Next]_vars
    BY DEF LoadNext, allVars, vars, Execute, Generate, Propose, Next
  <2> QED
    BY <1>1, <2>1, NextInv
<1>3. CASE UNCHANGED allVars
  <2>1. UNCHANGED <<log, store, queue, accepted, restarts>>
    BY <1>3 DEF allVars
  <2>2. OnTheWay => OnTheWay'
    BY <2>1 DEF OnTheWay, Submitted, Waiting
  <2> QED
    BY <1>1, <1>2, <2>1, <2>2 DEF LoadInv
<1>4. CASE Execute
  <2>1. log' = Tail(log) /\ log # << >> /\ restarts' = restarts
    BY <1>4 DEF Execute, vars
  <2>2. log' \in Seq(Words)
    BY <1>1, <2>1, HeadTailProperties
  <2>3. OnTheWay => OnTheWay'
    BY <1>1, <1>4, ExecuteOnTheWay
  <2> QED
    BY <1>1, <1>2, <2>1, <2>2, <2>3 DEF LoadInv
<1>5. ASSUME NEW a \in Generators, Propose(a) PROVE LoadInv'
  <2>1. restarts' = restarts
    BY <1>5 DEF Propose, Take
  <2>2. OnTheWay => OnTheWay'
    BY <1>5, ProposeOnTheWay
  <2>3. log' \in Seq(Words)
    <3>1. queue[a] \in Seq(Seq(Words)) /\ queue[a] # << >>
      BY <1>1, <1>5, Types DEF Inv, Propose, Take
    <3>2. Head(queue[a]) \in Seq(Words)
      BY <3>1, HeadTailProperties
    <3> QED
      BY <1>1, <1>5, <3>2, ConcatProperties DEF Propose
  <2> QED
    BY <1>1, <1>2, <2>1, <2>2, <2>3 DEF LoadInv
<1>6. ASSUME NEW a \in Generators, Generate(a) PROVE LoadInv'
  <2>1. Step(a) /\ UNCHANGED <<log, execution>> /\ log' = log /\ store' = store
    BY <1>6 DEF Generate, execution
  <2>2. CASE Restart(a)
    <3>1. restarts' # 0
      BY <1>1, <2>2 DEF Restart
    <3> QED
      BY <1>1, <1>2, <2>1, <3>1 DEF LoadInv
  <2>3. CASE Submit(a)
    <3>1. restarts' = restarts
      BY <2>3 DEF Submit
    <3>2. OnTheWay => OnTheWay'
      BY <1>1, <2>1, <2>3, SubmitOnTheWay
    <3> QED
      BY <1>1, <1>2, <2>1, <3>1, <3>2 DEF LoadInv
  <2>4. CASE Tick(a) \/ Stop(a) \/ Close(a)
    <3>1. UNCHANGED <<accepted, queue, restarts>>
      BY <2>4 DEF Tick, Stop, Close
    <3>2. OnTheWay => OnTheWay'
      BY <2>1, <3>1 DEF OnTheWay, Submitted, Waiting
    <3> QED
      BY <1>1, <1>2, <2>1, <3>1, <3>2 DEF LoadInv
  <2> QED
    BY <2>1, <2>2, <2>3, <2>4 DEF Step
<1> QED
  BY <1>3, <1>4, <1>5, <1>6 DEF LoadNext

(***************************************************************************)
(* Until a generator is started a second time, every creation that is      *)
(* executed is of an object the store has not got, although the streams of *)
(* all authorities wrap around and may be equal but for the authority;     *)
(* for every power of two of randoms, as 2^AUTHORITY_SHIFT is              *)
(* (generator.rs:20 and 88-91, store.rs:52).                               *)
(***************************************************************************)
THEOREM FirstLivesAreFresh ==
    ASSUME IsPowerOfTwo(RandomRange)
    PROVE  LoadSpec => []FirstLivesCreateFreshObjects
<1>1. LoadInv /\ [LoadNext]_allVars => LoadInv'
  BY LoadNextInv
<1>2. LoadInv => FirstLivesCreateFreshObjects
  <2> SUFFICES ASSUME LoadInv, restarts = 0, log # << >>
               PROVE  Exec!CreatesFreshIds(store, Creation(Head(log)))
    BY DEF FirstLivesCreateFreshObjects, CreatesFreshObjects
  <2>1. log \in Seq(Words) /\ OnTheWay
    BY DEF LoadInv
  <2>2. Head(log) \in Words /\ Holds(log, Head(log))
    BY <2>1, TailOnce DEF OnTheWay
  <2>3. store.latest[Head(log)] = 0
    BY <2>1, <2>2 DEF OnTheWay
  <2>4. \A input \in Exec!Inputs(Creation(Head(log))) : input.id = Head(log)
    <3>1. DOMAIN <<[id |-> Head(log), mode |-> "WriteOnly"]>> = {1}
      OBVIOUS
    <3> QED
      BY <3>1 DEF Exec!Inputs, Exec!Range, Creation
  <2> QED
    BY <2>3, <2>4 DEF Exec!CreatesFreshIds
<1> QED
  BY <1>1, <1>2, LoadInitInv, PTL DEF LoadSpec
=============================================================================
