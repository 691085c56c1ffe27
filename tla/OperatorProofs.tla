--------------------------- MODULE OperatorProofs ---------------------------
(***************************************************************************)
(* Lemmas about the operators that the specifications are built from, in   *)
(* five parts: division, folds, the certifier (CertifierOps), the state of *)
(* a validator (ExecutionState) and the execution layer (ExecutionOps).    *)
(***************************************************************************)
EXTENDS ExecutionState, ExecutionOps, SequenceTheorems, FiniteSetTheorems,
        WellFoundedInduction, TLAPS

(***************************************************************************)
(* Division with remainder.                                                *)
(***************************************************************************)
LEMMA Division ==
    ASSUME NEW x \in Nat, NEW r \in Nat \ {0}
    PROVE  /\ x \div r \in Nat
           /\ x % r \in 0..(r - 1)
           /\ x = r * (x \div r) + (x % r)
  OBVIOUS

(***************************************************************************)
(* A remainder is known from any division.                                 *)
(***************************************************************************)
LEMMA Remainder ==
    ASSUME NEW r \in Nat \ {0}, NEW q \in Nat, NEW t \in 0..(r - 1)
    PROVE  (r * q + t) % r = t
  OBVIOUS

(***************************************************************************)
(* A mask of more bits below one of fewer changes nothing.                 *)
(***************************************************************************)
LEMMA RemainderOfRemainder ==
    ASSUME NEW n \in Nat \ {0}, NEW r \in Nat \ {0}, NEW x \in Nat
    PROVE  (x % (n * r)) % r = x % r
<1>1. n * r \in Nat \ {0}
  OBVIOUS
<1>2. PICK w \in Nat : w = n * r
  BY <1>1
<1>3. PICK p \in Nat, t \in 0..(w - 1) : x = w * p + t /\ x % w = t
  BY <1>1, <1>2, Division
<1>4. PICK u \in Nat, v \in 0..(r - 1) : t = r * u + v /\ t % r = v
  BY <1>1, <1>2, <1>3, Division
<1>5. PICK q \in Nat : q = n * p + u
  OBVIOUS
<1>6. x = r * q + v
  BY <1>2, <1>3, <1>4, <1>5
<1>7. x % r = v
  BY <1>6, Remainder
<1> QED
  BY <1>2, <1>3, <1>4, <1>7

(***************************************************************************)
(* Wrapping twice is wrapping once.                                        *)
(***************************************************************************)
LEMMA RemainderOfSum ==
    ASSUME NEW w \in Nat \ {0}, NEW x \in Nat, NEW c \in Nat
    PROVE  ((x % w) + c) % w = (x + c) % w
<1>1. PICK p \in Nat, t \in 0..(w - 1) : x = w * p + t /\ x % w = t
  BY Division
<1>2. PICK u \in Nat, v \in 0..(w - 1) : t + c = w * u + v /\ (t + c) % w = v
  <2>1. t + c \in Nat
    OBVIOUS
  <2> QED
    BY <2>1, Division
<1>3. PICK q \in Nat : q = p + u
  OBVIOUS
<1>4. x + c = w * q + v
  BY <1>1, <1>2, <1>3
<1>5. (x + c) % w = v
  BY <1>4, Remainder
<1> QED
  BY <1>1, <1>2, <1>5

(***************************************************************************)
(* Products of naturals grow with their factors.                           *)
(***************************************************************************)
LEMMA ProductGrows ==
    ASSUME NEW a \in Nat, NEW b \in Nat, NEW c \in Nat, a <= b
    PROVE  a * c <= b * c /\ c * a <= c * b
<1>1. PICK d \in Nat : b = a + d
  <2>1. b - a \in Nat /\ b = a + (b - a)
    OBVIOUS
  <2> QED
    BY <2>1
<1>2. b * c = a * c + d * c /\ c * b = c * a + c * d
  BY <1>1
<1>3. d * c \in Nat /\ a * c \in Nat /\ c * d \in Nat /\ c * a \in Nat
  OBVIOUS
<1> QED
  BY <1>2, <1>3

-----------------------------------------------------------------------------
(***************************************************************************)
(* What the recursive functions behind FoldLeft and FlattenSeq compute. A   *)
(* function that a recursion defines is one chosen among those that        *)
(* satisfy its equation: the lemmas show that there is one, for every      *)
(* step that is given as a function, and induction is done on the least    *)
(* counterexample.                                                         *)
(***************************************************************************)
LessThan == {pair \in Nat \X Nat : pair[1] < pair[2]}

(***************************************************************************)
(* Every nonempty set of naturals has a least element.                     *)
(***************************************************************************)
LEMMA LeastElement ==
    ASSUME NEW T \in SUBSET Nat, T # {}
    PROVE  \E x \in T : \A y \in T : x <= y
<1>1. IsWellFoundedOn(LessThan, Nat)
  BY NatLessThanWellFounded DEF OpToRel, LessThan
<1>2. \E x \in T : \A y \in T : <<y, x>> \notin LessThan
  BY <1>1, WFMin
<1>3. \A x, y \in T : <<y, x>> \notin LessThan => x <= y
  BY DEF LessThan
<1> QED
  BY <1>2, <1>3

(***************************************************************************)
(* Induction over an interval, on the set of the numbers for which a       *)
(* statement holds.                                                        *)
(***************************************************************************)
LEMMA IntervalInduction ==
    ASSUME NEW n \in Nat, NEW T, 0 \in T,
           \A k \in 1..n : k - 1 \in T => k \in T
    PROVE  0..n \subseteq T
<1> DEFINE bad == {k \in 0..n : k \notin T}
<1> SUFFICES ASSUME bad # {} PROVE FALSE
  OBVIOUS
<1>1. bad \in SUBSET Nat
  OBVIOUS
<1>2. PICK x \in bad : \A y \in bad : x <= y
  BY <1>1, LeastElement
<1>3. x \in 1..n /\ x - 1 \in 0..n /\ x - 1 \notin bad
  BY <1>2
<1> QED
  BY <1>2, <1>3

(***************************************************************************)
(* A recursion over an interval, whose step is given as a function h of    *)
(* the index and the value before it.                                      *)
(***************************************************************************)
Iterates(f, X, base, n, h) ==
    /\ f \in [0..n -> X]
    /\ f[0] = base
    /\ \A k \in 1..n : f[k] = h[<<k, f[k - 1]>>]

(***************************************************************************)
(* A recursion over an interval has a solution.                            *)
(***************************************************************************)
LEMMA IterationExists ==
    ASSUME NEW X, NEW base \in X, NEW n \in Nat, NEW h,
           \A k \in 1..n, x \in X : h[<<k, x>>] \in X
    PROVE  \E f : Iterates(f, X, base, n, h)
<1> DEFINE T == {m \in 0..n : \E f : Iterates(f, X, base, m, h)}
<1>1. 0 \in T
  <2>1. Iterates([k \in 0..0 |-> base], X, base, 0, h)
    BY DEF Iterates
  <2> QED
    BY <2>1
<1>2. \A m \in 1..n : m - 1 \in T => m \in T
  <2> SUFFICES ASSUME NEW m \in 1..n, NEW f, Iterates(f, X, base, m - 1, h)
               PROVE  \E g : Iterates(g, X, base, m, h)
    OBVIOUS
  <2> DEFINE g == [k \in 0..m |-> IF k = m THEN h[<<m, f[m - 1]>>] ELSE f[k]]
  <2>1. /\ f \in [0..(m - 1) -> X] /\ f[0] = base
        /\ \A k \in 1..(m - 1) : f[k] = h[<<k, f[k - 1]>>]
    BY DEF Iterates
  <2>2. h[<<m, f[m - 1]>>] \in X
    BY <2>1
  <2>3. g \in [0..m -> X]
    <3>1. \A k \in 0..m : k # m => f[k] \in X
      BY <2>1
    <3> QED
      BY <2>2, <3>1
  <2>4. g[0] = base
    BY <2>1
  <2>5. ASSUME NEW k \in 1..m PROVE g[k] = h[<<k, g[k - 1]>>]
    <3>1. g[k - 1] = f[k - 1]
      OBVIOUS
    <3>2. g[k] = IF k = m THEN h[<<m, f[m - 1]>>] ELSE f[k]
      OBVIOUS
    <3>3. k # m => f[k] = h[<<k, f[k - 1]>>]
      BY <2>1
    <3> HIDE DEF g
    <3> QED
      BY <3>1, <3>2, <3>3
  <2>6. Iterates(g, X, base, m, h)
    <3> HIDE DEF g
    <3> QED
      BY <2>3, <2>4, <2>5 DEF Iterates
  <2> QED
    BY <2>6
<1>3. 0..n \subseteq T
  <2> HIDE DEF T
  <2> QED
    BY <1>1, <1>2, IntervalInduction
<1> QED
  BY <1>3

(***************************************************************************)
(* Every nonempty subset of an interval has a largest element.             *)
(***************************************************************************)
LEMMA MaxOfNaturals ==
    ASSUME NEW n \in Nat, NEW s \in SUBSET (0..n), s # {}
    PROVE  Max(s) \in s /\ \A x \in s : x <= Max(s)
<1> DEFINE T == {n - x : x \in s}
<1>1. T \in SUBSET Nat /\ T # {}
  <2>1. \A x \in s : n - x \in Nat
    OBVIOUS
  <2> QED
    BY <2>1
<1>2. PICK y \in T : \A z \in T : y <= z
  <2> HIDE DEF T
  <2> QED
    BY <1>1, LeastElement
<1>3. PICK x \in s : y = n - x
  OBVIOUS
<1>4. \A z \in s : x >= z
  <2> TAKE z \in s
  <2>1. y <= n - z
    BY <1>2
  <2> QED
    BY <1>3, <2>1
<1> QED
  BY <1>4 DEF Max

(***************************************************************************)
(* The same of an interval that starts at one.                             *)
(***************************************************************************)
LEMMA MaxOfInterval ==
    ASSUME NEW n \in Nat, NEW s \in SUBSET (1..n), s # {}
    PROVE  Max(s) \in s /\ \A x \in s : x <= Max(s)
<1>1. s \in SUBSET (0..n)
  OBVIOUS
<1> QED
  BY <1>1, MaxOfNaturals

(***************************************************************************)
(* The largest element of an interval's subset that contains its bound.    *)
(***************************************************************************)
LEMMA MaxOfBounded ==
    ASSUME NEW m \in Nat \ {0}, NEW s \in SUBSET (1..m), m \in s
    PROVE  Max(s) = m
<1>1. \A x \in s : x \in Int /\ m >= x
  OBVIOUS
<1>2. \A x \in s : (\A y \in s : x >= y) => x = m
  BY <1>1
<1> QED
  BY <1>1, <1>2 DEF Max

(***************************************************************************)
(* The recursion behind FoldLeft over a sequence of length n: a function   *)
(* on the subsets of its domain, from the largest element down.            *)
(***************************************************************************)
Folds(f, X, base, n, h) ==
    /\ f \in [SUBSET (1..n) -> X]
    /\ f[{}] = base
    /\ \A s \in (SUBSET (1..n)) \ {{}} : f[s] = h[<<Max(s), f[s \ {Max(s)}]>>]

(***************************************************************************)
(* The recursion behind FoldLeft has a solution.                           *)
(***************************************************************************)
LEMMA FoldExists ==
    ASSUME NEW X, NEW base \in X, NEW n \in Nat, NEW h,
           \A k \in 1..n, x \in X : h[<<k, x>>] \in X
    PROVE  \E f : Folds(f, X, base, n, h)
<1> DEFINE T == {m \in 0..n : \E f : Folds(f, X, base, m, h)}
<1>1. 0 \in T
  <2>1. \A s \in SUBSET (1..0) : s = {}
    OBVIOUS
  <2>2. Folds([s \in SUBSET (1..0) |-> base], X, base, 0, h)
    <3> DEFINE f == [s \in SUBSET (1..0) |-> base]
    <3>1. f \in [SUBSET (1..0) -> X] /\ f[{}] = base
      OBVIOUS
    <3>2. (SUBSET (1..0)) \ {{}} = {}
      BY <2>1
    <3> HIDE DEF f
    <3>3. Folds(f, X, base, 0, h)
      BY <3>1, <3>2 DEF Folds
    <3> QED
      BY <3>3 DEF f
  <2> QED
    BY <2>2
<1>2. \A m \in 1..n : m - 1 \in T => m \in T
  <2> SUFFICES ASSUME NEW m \in 1..n, NEW f, Folds(f, X, base, m - 1, h)
               PROVE  \E g : Folds(g, X, base, m, h)
    OBVIOUS
  <2> DEFINE g == [s \in SUBSET (1..m) |->
                      IF m \in s THEN h[<<m, f[s \ {m}]>>] ELSE f[s]]
  <2>0. /\ f \in [SUBSET (1..(m - 1)) -> X] /\ f[{}] = base
        /\ \A s \in (SUBSET (1..(m - 1))) \ {{}} : f[s] = h[<<Max(s), f[s \ {Max(s)}]>>]
    BY DEF Folds
  <2>7. \A x \in 1..m : x # m => x \in 1..(m - 1)
    OBVIOUS
  <2>1. \A s \in SUBSET (1..m) : s \ {m} \in SUBSET (1..(m - 1))
    BY <2>7, Zenon
  <2>2. \A s \in SUBSET (1..m) : m \notin s => s \in SUBSET (1..(m - 1))
    BY <2>7, Zenon
  <2>3. \A s \in SUBSET (1..m) : g[s] \in X
    <3> TAKE s \in SUBSET (1..m)
    <3>1. f[s \ {m}] \in X
      BY <2>0, <2>1
    <3>2. h[<<m, f[s \ {m}]>>] \in X
      BY <3>1
    <3>3. m \notin s => f[s] \in X
      BY <2>0, <2>2
    <3> QED
      BY <3>2, <3>3
  <2>4. ASSUME NEW s \in SUBSET (1..m), s # {}
        PROVE  g[s] = h[<<Max(s), g[s \ {Max(s)}]>>]
    <3>1. CASE m \in s
      <4>1. Max(s) = m
        BY <3>1, MaxOfBounded
      <4>2. g[s \ {m}] = f[s \ {m}]
        OBVIOUS
      <4> QED
        BY <3>1, <4>1, <4>2
    <3>2. CASE m \notin s
      <4>1. s \in SUBSET (1..(m - 1)) /\ g[s] = f[s]
        BY <3>2, <2>2
      <4>2. g[s \ {Max(s)}] = f[s \ {Max(s)}]
        BY <3>2
      <4>3. f[s] = h[<<Max(s), f[s \ {Max(s)}]>>]
        BY <2>0, <2>4, <4>1
      <4> HIDE DEF g
      <4> QED
        BY <4>1, <4>2, <4>3
    <3> QED
      BY <3>1, <3>2
  <2>5. g[{}] = base
    BY <2>0
  <2>6. Folds(g, X, base, m, h)
    <3>1. g \in [SUBSET (1..m) -> X]
      BY <2>3
    <3> HIDE DEF g
    <3> QED
      BY <3>1, <2>4, <2>5 DEF Folds
  <2> QED
    BY <2>6
<1>3. 0..n \subseteq T
  <2> HIDE DEF T
  <2> QED
    BY <1>1, <1>2, IntervalInduction
<1> QED
  BY <1>3

(***************************************************************************)
(* The two parts of a sequence that is not empty.                          *)
(***************************************************************************)
LEMMA HeadAndTail ==
    ASSUME NEW S, NEW s \in Seq(S), s # << >>
    PROVE  /\ Len(s) \in Nat /\ Len(s) >= 1
           /\ Head(s) = s[1] /\ Head(s) \in S
           /\ Tail(s) \in Seq(S) /\ Len(Tail(s)) = Len(s) - 1
           /\ \A i \in 1..(Len(s) - 1) : Tail(s)[i] = s[i + 1]
<1>1. /\ Head(s) \in S /\ Tail(s) \in Seq(S) /\ Len(Tail(s)) = Len(s) - 1
      /\ \A i \in 1..Len(Tail(s)) : Tail(s)[i] = s[i + 1]
  BY HeadTailProperties
<1>2. Len(s) \in Nat /\ Len(Tail(s)) \in Nat
  BY <1>1, LenProperties
<1>3. Len(s) >= 1
  BY <1>1, <1>2
<1>4. Head(s) = s[1]
  OBVIOUS
<1> QED
  BY <1>1, <1>2, <1>3, <1>4
-----------------------------------------------------------------------------
(***************************************************************************)
(* What the operators of CertifierOps return: the lookup by round, the     *)
(* watermark's advance, and that push and record take well-formed          *)
(* certifiers to well-formed certifiers.                                   *)
(***************************************************************************)

(***************************************************************************)
(* Every window has a longest certified prefix, so the loop that advances  *)
(* the watermark stops at CertifiedPrefix (certifier.rs:203-209).          *)
(***************************************************************************)
LEMMA CertifiedPrefixProperties ==
    ASSUME NEW pending \in Seq(PendingCheckpoint)
    PROVE  LET k == CertifiedPrefix(pending)
           IN  /\ k \in 0..Len(pending)
               /\ \A i \in 1..k : Certified(pending[i])
               /\ k < Len(pending) => ~Certified(pending[k + 1])
<1> DEFINE Longest(k) == /\ \A i \in 1..k : Certified(pending[i])
                         /\ k < Len(pending) => ~Certified(pending[k + 1])
           Unready == {i \in 1..Len(pending) : ~Certified(pending[i])}
<1>0. Len(pending) \in Nat
  BY LenProperties
<1>1. \E k \in 0..Len(pending) : Longest(k)
  <2>1. CASE Unready = {}
    <3>1. Longest(Len(pending))
      BY <1>0, <2>1
    <3> QED
      BY <1>0, <3>1
  <2>2. CASE Unready # {}
    <3>1. PICK x \in Unready : \A y \in Unready : x <= y
      <4>1. Unready \in SUBSET Nat
        BY <1>0
      <4> QED
        BY <2>2, <4>1, LeastElement
    <3>2. x \in 1..Len(pending) /\ ~Certified(pending[x])
      BY <3>1
    <3>3. \A i \in 1..(x - 1) : Certified(pending[i])
      BY <1>0, <3>1, <3>2
    <3>4. Longest(x - 1) /\ x - 1 \in 0..Len(pending)
      BY <1>0, <3>2, <3>3
    <3> QED
      BY <3>4
  <2> QED
    BY <2>1, <2>2
<1> HIDE DEF Longest
<1>2. CertifiedPrefix(pending) = CHOOSE k \in 0..Len(pending) : Longest(k)
  BY DEF CertifiedPrefix, Longest
<1>3. CertifiedPrefix(pending) \in 0..Len(pending) /\ Longest(CertifiedPrefix(pending))
  BY <1>1, <1>2
<1> QED
  BY <1>3 DEF Longest

(***************************************************************************)
(* A window in commit order, one entry per anchor.                         *)
(***************************************************************************)
CommitOrder(pending) ==
    \A i, j \in DOMAIN pending :
        i < j => pending[i].local.anchor < pending[j].local.anchor

(***************************************************************************)
(* In a window in commit order the binary search by round followed by the  *)
(* walk over the same-round run finds exactly the entry of an anchor       *)
(* (certifier.rs:138-149).                                                 *)
(***************************************************************************)
LEMMA LookupFindsEntry ==
    ASSUME NEW pending \in Seq(PendingCheckpoint), CommitOrder(pending),
           NEW i \in DOMAIN pending
    PROVE  /\ EntriesOf(pending, pending[i].local.anchor) = {i}
           /\ EntryOf(pending, pending[i].local.anchor) = i
<1> DEFINE n == pending[i].local.anchor
           Anchor(j) == pending[j].local.anchor
<1>0. /\ Len(pending) \in Nat
      /\ DOMAIN pending = 1..Len(pending)
      /\ i \in 1..Len(pending)
  BY LenProperties
<1>1. \A j \in DOMAIN pending : Anchor(j) \in Anchors
  <2> TAKE j \in DOMAIN pending
  <2>1. pending[j] \in PendingCheckpoint
    BY <1>0, ElementOfSeq
  <2> QED
    BY <2>1 DEF PendingCheckpoint, Checkpoint
<1>2. \A j \in DOMAIN pending : RoundAt(pending, j) \in Nat
  BY <1>1, RoundAssumption DEF RoundAt
<1>3. \A j, k \in DOMAIN pending : j <= k => RoundAt(pending, j) <= RoundAt(pending, k)
  <2> TAKE j, k \in DOMAIN pending
  <2> HAVE j <= k
  <2>1. Anchor(j) <= Anchor(k)
    <3>1. CASE j = k
      BY <3>1, <1>1 DEF Anchors
    <3>2. CASE j < k
      BY <3>2, <1>1, RoundAssumption DEF Anchors, CommitOrder
    <3> QED
      BY <3>1, <3>2, <1>0
  <2> QED
    BY <2>1, <1>1, RoundAssumption DEF RoundAt
<1>4. InRun(pending, i, Round[n])
  <2> DEFINE run == {j \in 1..i : RoundAt(pending, j) = Round[n]}
  <2>1. run \in SUBSET Nat /\ i \in run
    BY <1>0 DEF RoundAt
  <2>2. PICK start \in run : \A j \in run : start <= j
    BY <2>1, LeastElement
  <2>3. start \in 1..i /\ RoundAt(pending, start) = Round[n] /\ Round[n] \in Nat
    BY <2>2, <1>0, <1>2
  <2>4. \A j \in 1..(start - 1) : RoundAt(pending, j) < Round[n]
    <3> TAKE j \in 1..(start - 1)
    <3>1. j \in DOMAIN pending /\ start \in DOMAIN pending /\ j \in 1..i
      BY <1>0, <2>3
    <3>2. RoundAt(pending, j) <= Round[n]
      BY <3>1, <2>3, <1>3, <1>0
    <3>3. RoundAt(pending, j) # Round[n]
      BY <3>1, <2>2, <2>3, <1>0
    <3> QED
      BY <3>1, <3>2, <3>3, <1>2, <2>3
  <2>5. \A j \in start..i : RoundAt(pending, j) = Round[n]
    <3> TAKE j \in start..i
    <3>1. j \in DOMAIN pending /\ start \in DOMAIN pending /\ start <= j /\ j <= i
      BY <1>0, <2>3
    <3>2. RoundAt(pending, start) <= RoundAt(pending, j)
          /\ RoundAt(pending, j) <= RoundAt(pending, i)
      BY <3>1, <1>3
    <3>3. RoundAt(pending, i) = Round[n]
      BY DEF RoundAt
    <3> QED
      BY <3>1, <3>2, <3>3, <2>3, <1>2
  <2> QED
    BY <2>3, <2>4, <2>5 DEF InRun
<1>5. \A j \in DOMAIN pending : Anchor(j) = n => j = i
  BY <1>0, <1>1 DEF CommitOrder, Anchors
<1>6. EntriesOf(pending, n) = {i}
  BY <1>4, <1>5 DEF EntriesOf
<1>7. EntryOf(pending, n) = i
  BY <1>6, <1>0 DEF EntryOf
<1> QED
  BY <1>6, <1>7
-----------------------------------------------------------------------------
(***************************************************************************)
(* The operators of CertifierOps take well-formed values to well-formed    *)
(* values.                                                                 *)
(***************************************************************************)
LEMMA EmptyAccumulatorType == EmptyAccumulator \in Accumulator
BY EmptySeq DEF EmptyAccumulator, Accumulator

(***************************************************************************)
(* Push appends a well-formed entry (certifier.rs:110-121).                *)
(***************************************************************************)
LEMMA PushType ==
    ASSUME NEW c \in CheckpointCertifier, NEW n \in Anchors,
           NEW d \in Commitments, NEW t \in Timings
    PROVE  Push(c, n, d, t) \in CheckpointCertifier
<1> DEFINE entry == [local        |-> [anchor |-> n, commitment |-> d],
                     timings      |-> t,
                     accumulators |-> [e \in Commitments |-> EmptyAccumulator],
                     certificate  |-> None]
<1>1. entry \in PendingCheckpoint
  BY EmptyAccumulatorType DEF PendingCheckpoint, Checkpoint
<1>2. c.pending \in Seq(PendingCheckpoint)
  BY DEF CheckpointCertifier
<1> HIDE DEF entry
<1>3. Append(c.pending, entry) \in Seq(PendingCheckpoint)
  BY <1>1, <1>2, AppendProperties
<1>4. Push(c, n, d, t) = [c EXCEPT !.pending = Append(c.pending, entry)]
  BY DEF Push, entry
<1> QED
  BY <1>3, <1>4 DEF CheckpointCertifier

(***************************************************************************)
(* The entry an admissible vote is for is one of the window                *)
(* (certifier.rs:138-149).                                                 *)
(***************************************************************************)
LEMMA EntryOfAdmissible ==
    ASSUME NEW c \in CheckpointCertifier, NEW a \in Authorities, NEW v \in Checkpoint,
           Admissible(c, a, v)
    PROVE  /\ EntryOf(c.pending, v.anchor) \in 1..Len(c.pending)
           /\ c.pending[EntryOf(c.pending, v.anchor)].local.anchor = v.anchor
           /\ c.pending[EntryOf(c.pending, v.anchor)] \in PendingCheckpoint
<1> DEFINE entries == EntriesOf(c.pending, v.anchor)
<1>1. /\ c.pending \in Seq(PendingCheckpoint)
      /\ Len(c.pending) \in Nat
      /\ DOMAIN c.pending = 1..Len(c.pending)
  BY LenProperties DEF CheckpointCertifier
<1>2. entries # {} /\ entries \in SUBSET (1..Len(c.pending)) /\ entries \in SUBSET Nat
  BY <1>1 DEF Admissible, EntriesOf
<1>3. \E i \in entries : \A j \in entries : i <= j
  BY <1>2, LeastElement
<1>4. EntryOf(c.pending, v.anchor) \in entries
  BY <1>3 DEF EntryOf
<1>5. EntryOf(c.pending, v.anchor) \in 1..Len(c.pending)
  BY <1>2, <1>4
<1>6. c.pending[EntryOf(c.pending, v.anchor)] \in PendingCheckpoint
  BY <1>1, <1>5, ElementOfSeq
<1> QED
  BY <1>4, <1>5, <1>6 DEF EntriesOf

(***************************************************************************)
(* Adding a vote to a well-formed accumulator gives one                    *)
(* (certifier.rs:39-46).                                                   *)
(***************************************************************************)
LEMMA TalliedType ==
    ASSUME NEW e \in PendingCheckpoint, NEW s \in Anchors,
           NEW a \in Authorities, NEW v \in Checkpoint
    PROVE  /\ Tallied(e, s, a, v) \in Accumulator
           /\ WithTally(e, s, a, v) \in PendingCheckpoint
           /\ WithCertificate(e, s, a, v) \in PendingCheckpoint
<1> DEFINE acc == e.accumulators[v.commitment]
<1>1. acc \in Accumulator
  BY DEF PendingCheckpoint, Checkpoint
<1>2. Weight[{a}] \in Nat
  BY WeightAssumption
<1>3. Append(acc.deliveredIn, s) \in Seq(Anchors)
  BY <1>1, AppendProperties DEF Accumulator
<1>4. Tallied(e, s, a, v) \in Accumulator
  BY <1>1, <1>2, <1>3 DEF Tallied, Add, Accumulator
<1>5. WithTally(e, s, a, v) \in PendingCheckpoint
  BY <1>4 DEF WithTally, PendingCheckpoint, Checkpoint
<1>6. [checkpoint |-> v, proof |-> Tallied(e, s, a, v).deliveredIn] \in CertifiedCheckpoint
  BY <1>4 DEF Accumulator, CertifiedCheckpoint
<1>7. WithCertificate(e, s, a, v) \in PendingCheckpoint
  BY <1>6, EmptyAccumulatorType DEF WithCertificate, PendingCheckpoint, Checkpoint
<1> QED
  BY <1>4, <1>5, <1>7

(***************************************************************************)
(* Counting an admissible vote, with or without a certificate, keeps the   *)
(* certifier well-formed (certifier.rs:186-199).                           *)
(***************************************************************************)
LEMMA CountedType ==
    ASSUME NEW c \in CheckpointCertifier, NEW s \in Anchors,
           NEW a \in Authorities, NEW v \in Checkpoint,
           Admissible(c, a, v)
    PROVE  Counted(c, s, a, v) \in CheckpointCertifier
<1> DEFINE i == EntryOf(c.pending, v.anchor)
<1>1. /\ c.pending \in Seq(PendingCheckpoint)
      /\ i \in 1..Len(c.pending)
      /\ c.pending[i] \in PendingCheckpoint
  BY EntryOfAdmissible DEF CheckpointCertifier
<1>2. ASSUME NEW e \in PendingCheckpoint
      PROVE  [c EXCEPT !.pending[i] = e] \in CheckpointCertifier
  <2> HIDE DEF i
  <2>1. [c.pending EXCEPT ![i] = e] \in Seq(PendingCheckpoint)
    BY <1>1, ExceptSeq
  <2> QED
    BY <2>1 DEF CheckpointCertifier
<1> QED
  BY <1>1, <1>2, TalliedType DEF Counted

(***************************************************************************)
(* Advance drops the longest certified prefix and nothing else.            *)
(***************************************************************************)
LEMMA AdvanceProperties ==
    ASSUME NEW c \in CheckpointCertifier
    PROVE  LET k == CertifiedPrefix(c.pending)
               after == Advance(c)
           IN  /\ after \in CheckpointCertifier
               /\ Len(after.pending) = Len(c.pending) - k
               /\ \A i \in 1..(Len(c.pending) - k) : after.pending[i] = c.pending[k + i]
               /\ after.watermark = IF k = 0 THEN c.watermark ELSE c.pending[k].certificate
<1> DEFINE k == CertifiedPrefix(c.pending)
           rest == SubSeq(c.pending, k + 1, Len(c.pending))
<1>1. /\ c.pending \in Seq(PendingCheckpoint)
      /\ Len(c.pending) \in Nat
  BY LenProperties DEF CheckpointCertifier
<1>2. /\ k \in 0..Len(c.pending)
      /\ \A i \in 1..k : Certified(c.pending[i])
  BY <1>1, CertifiedPrefixProperties
<1> HIDE DEF k
<1>3. \A i \in (k + 1)..Len(c.pending) : c.pending[i] \in PendingCheckpoint
  <2> TAKE i \in (k + 1)..Len(c.pending)
  <2>1. i \in 1..Len(c.pending)
    BY <1>1, <1>2
  <2> QED
    BY <1>1, <2>1, ElementOfSeq
<1>4. /\ rest \in Seq(PendingCheckpoint)
      /\ Len(rest) = Len(c.pending) - k
      /\ \A i \in 1..(Len(c.pending) - k) : rest[i] = c.pending[k + i]
  <2>1. k + 1 \in Int /\ Len(c.pending) \in Int
    BY <1>1, <1>2
  <2>2. /\ rest \in Seq(PendingCheckpoint)
        /\ Len(rest) = IF k + 1 <= Len(c.pending) THEN Len(c.pending) - (k + 1) + 1 ELSE 0
        /\ \A i \in 1..(Len(c.pending) - (k + 1) + 1) : rest[i] = c.pending[(k + 1) + i - 1]
    BY <1>3, <2>1, SubSeqProperties
  <2> QED
    BY <1>1, <1>2, <2>2
<1>5. k # 0 => c.pending[k].certificate \in CertifiedCheckpoint
  <2> HAVE k # 0
  <2>1. k \in 1..Len(c.pending)
    BY <1>1, <1>2
  <2>2. c.pending[k] \in PendingCheckpoint /\ Certified(c.pending[k])
    BY <1>1, <1>2, <2>1, ElementOfSeq
  <2> QED
    BY <2>2 DEF Certified, PendingCheckpoint
<1>6. Advance(c) = [pending   |-> rest,
                    watermark |-> IF k = 0 THEN c.watermark ELSE c.pending[k].certificate]
  BY DEF Advance, k
<1> HIDE DEF rest
<1>7. Advance(c) \in CheckpointCertifier
  BY <1>4, <1>5, <1>6 DEF CheckpointCertifier
<1> QED
  BY <1>4, <1>6, <1>7 DEF k

(***************************************************************************)
(* Every call of record keeps the certifier well-formed                    *)
(* (certifier.rs:129-211).                                                 *)
(***************************************************************************)
LEMMA RecordType ==
    ASSUME NEW c \in CheckpointCertifier, NEW s \in Anchors,
           NEW a \in Authorities, NEW v \in Checkpoint
    PROVE  Record(c, s, a, v) \in CheckpointCertifier
<1>1. CASE ~Admissible(c, a, v)
  BY <1>1 DEF Record
<1>2. CASE Admissible(c, a, v)
  <2>1. Counted(c, s, a, v) \in CheckpointCertifier
    BY <1>2, CountedType
  <2>2. Advance(Counted(c, s, a, v)) \in CheckpointCertifier
    BY <2>1, AdvanceProperties
  <2>3. CASE FormsCertificate(c, s, a, v)
    BY <1>2, <2>2, <2>3 DEF Record
  <2>4. CASE ~FormsCertificate(c, s, a, v)
    BY <1>2, <2>1, <2>4 DEF Record
  <2> QED
    BY <2>3, <2>4
<1> QED
  BY <1>1, <1>2
-----------------------------------------------------------------------------
(***************************************************************************)
(* Counting a vote changes one entry, and neither its checkpoint nor its   *)
(* timings (certifier.rs:186-199).                                         *)
(***************************************************************************)
LEMMA CountedProperties ==
    ASSUME NEW c \in CheckpointCertifier, NEW s \in Anchors,
           NEW a \in Authorities, NEW v \in Checkpoint,
           Admissible(c, a, v)
    PROVE  LET i == EntryOf(c.pending, v.anchor)
               after == Counted(c, s, a, v)
           IN  /\ after.watermark = c.watermark
               /\ Len(after.pending) = Len(c.pending)
               /\ \A j \in 1..Len(c.pending) : j # i => after.pending[j] = c.pending[j]
               /\ after.pending[i] = IF FormsCertificate(c, s, a, v)
                                     THEN WithCertificate(c.pending[i], s, a, v)
                                     ELSE WithTally(c.pending[i], s, a, v)
<1> DEFINE i == EntryOf(c.pending, v.anchor)
<1>1. /\ c.pending \in Seq(PendingCheckpoint)
      /\ i \in 1..Len(c.pending)
  BY EntryOfAdmissible DEF CheckpointCertifier
<1>2. ASSUME NEW e
      PROVE  LET after == [c EXCEPT !.pending[i] = e]
             IN  /\ after.watermark = c.watermark
                 /\ Len(after.pending) = Len(c.pending)
                 /\ \A j \in 1..Len(c.pending) : j # i => after.pending[j] = c.pending[j]
                 /\ after.pending[i] = e
  <2> HIDE DEF i
  <2>1. [c EXCEPT !.pending[i] = e].pending = [c.pending EXCEPT ![i] = e]
    BY DEF CheckpointCertifier
  <2>2. Len([c.pending EXCEPT ![i] = e]) = Len(c.pending)
    BY <1>1
  <2> QED
    BY <1>1, <2>1, <2>2 DEF CheckpointCertifier
<1>3. Counted(c, s, a, v) =
          IF FormsCertificate(c, s, a, v)
          THEN [c EXCEPT !.pending[i] = WithCertificate(c.pending[i], s, a, v)]
          ELSE [c EXCEPT !.pending[i] = WithTally(c.pending[i], s, a, v)]
  BY <1>1 DEF Counted
<1> DEFINE e == IF FormsCertificate(c, s, a, v) THEN WithCertificate(c.pending[i], s, a, v)
                                                ELSE WithTally(c.pending[i], s, a, v)
           after == Counted(c, s, a, v)
<1>4. after = [c EXCEPT !.pending[i] = e]
  BY <1>3
<1> HIDE DEF i, e, after
<1>5. /\ after.watermark = c.watermark
      /\ Len(after.pending) = Len(c.pending)
      /\ \A j \in 1..Len(c.pending) : j # i => after.pending[j] = c.pending[j]
      /\ after.pending[i] = e
  BY <1>2, <1>4
<1> QED
  BY <1>5 DEF i, e, after
(***************************************************************************)
(* A certifier after another: its window lacks the first k entries of the  *)
(* other, every entry left is for the checkpoint that was minted, with the *)
(* timings of its mint, and the watermark is the last one that was dropped.*)
(***************************************************************************)
Drops(before, after, k) ==
    /\ k \in 0..Len(before.pending)
    /\ Len(after.pending) = Len(before.pending) - k
    /\ \A i \in 1..(Len(before.pending) - k) :
           /\ after.pending[i].local = before.pending[k + i].local
           /\ after.pending[i].timings = before.pending[k + i].timings
    /\ k = 0 => after.watermark = before.watermark
    /\ k # 0 => /\ after.watermark # None
                /\ after.watermark.checkpoint = before.pending[k].local

(***************************************************************************)
(* An entry for which only the authorities of B voted for a commitment     *)
(* other than the one that was minted here.                                *)
(***************************************************************************)
HonestEntry(entry, B) ==
    /\ Certified(entry) => entry.certificate.checkpoint = entry.local
    /\ \A d \in Commitments :
           /\ entry.accumulators[d].stake = Weight[entry.accumulators[d].votes]
           /\ d # entry.local.commitment => entry.accumulators[d].votes \subseteq B

Honest(c, B) == \A i \in 1..Len(c.pending) : HonestEntry(c.pending[i], B)

\* A vote of B, or for what was minted here.
Agrees(c, a, v, B) ==
    a \in B \/ \A i \in 1..Len(c.pending) :
                   c.pending[i].local.anchor = v.anchor => c.pending[i].local = v

\* The authorities of B weigh no quorum, whichever of them vote.
NoQuorum(B) == B \subseteq Authorities /\ \A S \in SUBSET B : Weight[S] < Quorum

(***************************************************************************)
(* Adding a vote keeps the stake the weight of the votes, and a vote that  *)
(* agrees keeps those for other commitments within B (certifier.rs:39-46). *)
(***************************************************************************)
LEMMA TalliedHonest ==
    ASSUME NEW e \in PendingCheckpoint, NEW B \in SUBSET Authorities, NEW s \in Anchors,
           NEW a \in Authorities, NEW v \in Checkpoint,
           HonestEntry(e, B),
           a \in B \/ v.commitment = e.local.commitment
    PROVE  LET tallied == Tallied(e, s, a, v)
           IN  /\ tallied.stake = Weight[tallied.votes]
               /\ v.commitment # e.local.commitment => tallied.votes \subseteq B
<1> DEFINE acc == e.accumulators[v.commitment]
<1>1. acc \in Accumulator /\ v.commitment \in Commitments
  BY DEF PendingCheckpoint, Checkpoint
<1>2. /\ acc.stake = Weight[acc.votes]
      /\ v.commitment # e.local.commitment => acc.votes \subseteq B
  BY <1>1 DEF HonestEntry
<1>3. CASE a \in acc.votes
  BY <1>2, <1>3 DEF Tallied, Add
<1>4. CASE a \notin acc.votes
  <2>1. acc.votes \in SUBSET Authorities
    BY <1>1 DEF Accumulator
  <2>2. Weight[acc.votes \cup {a}] = Weight[acc.votes] + Weight[{a}]
    BY <1>4, <2>1, WeightAssumption
  <2>3. /\ Tallied(e, s, a, v).votes = acc.votes \cup {a}
        /\ Tallied(e, s, a, v).stake = acc.stake + Weight[{a}]
    BY <1>4 DEF Tallied, Add
  <2> QED
    BY <1>2, <2>2, <2>3
<1> QED
  BY <1>3, <1>4

(***************************************************************************)
(* While the authorities of B weigh no quorum, recording a vote of one of  *)
(* them, or a vote for what was minted, certifies only what was minted: it *)
(* drops entries at the front of the window, keeps the others' checkpoints *)
(* and timings, and moves the watermark to the last one dropped            *)
(* (certifier.rs:129-211).                                                 *)
(***************************************************************************)
LEMMA RecordHonest ==
    ASSUME NEW c \in CheckpointCertifier, NEW B, NoQuorum(B), NEW s \in Anchors,
           NEW a \in Authorities, NEW v \in Checkpoint,
           Honest(c, B), Agrees(c, a, v, B)
    PROVE  LET after == Record(c, s, a, v)
           IN  Honest(after, B) /\ \E k : Drops(c, after, k)
<1>0. /\ c.pending \in Seq(PendingCheckpoint)
      /\ Len(c.pending) \in Nat
      /\ \A i \in 1..Len(c.pending) : c.pending[i] \in PendingCheckpoint
  BY LenProperties, ElementOfSeq DEF CheckpointCertifier
<1>1. CASE ~Admissible(c, a, v)
  <2>1. Record(c, s, a, v) = c
    BY <1>1 DEF Record
  <2>2. Drops(c, c, 0)
    BY <1>0 DEF Drops
  <2> QED
    BY <2>1, <2>2
<1>2. CASE Admissible(c, a, v)
  <2> DEFINE i == EntryOf(c.pending, v.anchor)
             e == c.pending[i]
             counted == Counted(c, s, a, v)
  <2>1. /\ i \in 1..Len(c.pending) /\ e \in PendingCheckpoint
        /\ e.local.anchor = v.anchor
    BY <1>2, EntryOfAdmissible
  <2>2. HonestEntry(e, B) /\ B \in SUBSET Authorities
    BY <2>1 DEF Honest, NoQuorum
  <2>3. a \in B \/ v.commitment = e.local.commitment
    BY <2>1 DEF Agrees
  <2>4. LET tallied == Tallied(e, s, a, v)
        IN  /\ tallied.stake = Weight[tallied.votes]
            /\ v.commitment # e.local.commitment => tallied.votes \subseteq B
    BY <2>1, <2>2, <2>3, TalliedHonest
  <2>5. /\ counted \in CheckpointCertifier
        /\ counted.watermark = c.watermark
        /\ Len(counted.pending) = Len(c.pending)
        /\ \A j \in 1..Len(c.pending) : j # i => counted.pending[j] = c.pending[j]
        /\ counted.pending[i] = IF FormsCertificate(c, s, a, v)
                                THEN WithCertificate(e, s, a, v) ELSE WithTally(e, s, a, v)
    BY <1>2, CountedType, CountedProperties
  <2>6. /\ counted.pending[i].local = e.local
        /\ counted.pending[i].timings = e.timings
    BY <2>1, <2>5 DEF WithCertificate, WithTally, PendingCheckpoint
  <2> HIDE DEF counted, e, i
  <2>7. HonestEntry(counted.pending[i], B)
    <3>1. CASE FormsCertificate(c, s, a, v)
      <4>1. Tallied(e, s, a, v).stake >= Quorum
        BY <3>1 DEF FormsCertificate, ReachesQuorum, e, i
      <4>2. v.commitment = e.local.commitment
        <5> SUFFICES ASSUME v.commitment # e.local.commitment PROVE FALSE
          OBVIOUS
        <5>1. Tallied(e, s, a, v).votes \in SUBSET B
          BY <2>4
        <5>2. Weight[Tallied(e, s, a, v).votes] < Quorum
          BY <5>1 DEF NoQuorum
        <5>3. Weight[Tallied(e, s, a, v).votes] \in Nat
          BY <5>1, <2>2, WeightAssumption
        <5> QED
          BY <2>4, <4>1, <5>2, <5>3, QuorumAssumption
      <4>3. v = e.local
        BY <2>1, <4>2 DEF Checkpoint, PendingCheckpoint
      <4>4. counted.pending[i] = WithCertificate(e, s, a, v)
        BY <2>5, <3>1
      <4>5. /\ WithCertificate(e, s, a, v).certificate.checkpoint = v
            /\ WithCertificate(e, s, a, v).local = e.local
            /\ \A d \in Commitments :
                   WithCertificate(e, s, a, v).accumulators[d] =
                       IF d = v.commitment THEN EmptyAccumulator ELSE e.accumulators[d]
        BY <2>1 DEF WithCertificate, PendingCheckpoint
      <4>6. EmptyAccumulator.votes = {} /\ EmptyAccumulator.stake = Weight[{}]
        BY WeightAssumption DEF EmptyAccumulator
      <4> QED
        BY <2>2, <4>3, <4>4, <4>5, <4>6 DEF HonestEntry
    <3>2. CASE ~FormsCertificate(c, s, a, v)
      <4>1. counted.pending[i] = WithTally(e, s, a, v)
        BY <2>5, <3>2
      <4>2. /\ WithTally(e, s, a, v).certificate = e.certificate
            /\ WithTally(e, s, a, v).local = e.local
            /\ \A d \in Commitments :
                   WithTally(e, s, a, v).accumulators[d] =
                       IF d = v.commitment THEN Tallied(e, s, a, v) ELSE e.accumulators[d]
        BY <2>1 DEF WithTally, PendingCheckpoint
      <4> QED
        BY <2>2, <2>4, <4>1, <4>2 DEF HonestEntry, Certified
    <3> QED
      BY <3>1, <3>2
  <2>8. Honest(counted, B)
    BY <2>5, <2>7 DEF Honest
  <2>9. Drops(c, counted, 0)
    <3>1. \A j \in 1..Len(c.pending) : /\ counted.pending[j].local = c.pending[j].local
                                       /\ counted.pending[j].timings = c.pending[j].timings
      BY <2>5, <2>6 DEF e
    <3> QED
      BY <1>0, <2>5, <3>1 DEF Drops
  <2>10. CASE ~FormsCertificate(c, s, a, v)
    <3>1. Record(c, s, a, v) = counted
      BY <1>2, <2>10 DEF Record, counted
    <3> QED
      BY <2>8, <2>9, <3>1
  <2>11. CASE FormsCertificate(c, s, a, v)
    <3> DEFINE k == CertifiedPrefix(counted.pending)
               after == Advance(counted)
    <3>1. Record(c, s, a, v) = after
      BY <1>2, <2>11 DEF Record, counted
    <3>2. /\ Len(after.pending) = Len(counted.pending) - k
          /\ \A j \in 1..(Len(counted.pending) - k) : after.pending[j] = counted.pending[k + j]
          /\ after.watermark = IF k = 0 THEN counted.watermark
                                        ELSE counted.pending[k].certificate
      BY <2>5, AdvanceProperties
    <3>3. k \in 0..Len(counted.pending) /\ \A j \in 1..k : Certified(counted.pending[j])
      BY <2>5, CertifiedPrefixProperties DEF CheckpointCertifier
    <3> HIDE DEF k, after
    <3>4. Honest(after, B)
      <4> SUFFICES ASSUME NEW j \in 1..Len(after.pending)
                   PROVE  HonestEntry(after.pending[j], B)
        BY DEF Honest
      <4>1. k + j \in 1..Len(counted.pending) /\ after.pending[j] = counted.pending[k + j]
        BY <1>0, <2>5, <3>2, <3>3
      <4> QED
        BY <2>8, <4>1 DEF Honest
    <3>5. Drops(c, after, k)
      <4>1. \A j \in 1..(Len(c.pending) - k) :
                /\ after.pending[j].local = c.pending[k + j].local
                /\ after.pending[j].timings = c.pending[k + j].timings
        <5> TAKE j \in 1..(Len(c.pending) - k)
        <5>1. k + j \in 1..Len(c.pending) /\ after.pending[j] = counted.pending[k + j]
          BY <1>0, <2>5, <3>2, <3>3
        <5> QED
          BY <2>5, <2>6, <5>1 DEF e
      <4>2. k # 0 => /\ after.watermark # None
                     /\ after.watermark.checkpoint = c.pending[k].local
        <5> HAVE k # 0
        <5>1. k \in 1..Len(counted.pending) /\ Certified(counted.pending[k])
          BY <1>0, <2>5, <3>3
        <5>2. counted.pending[k].certificate.checkpoint = counted.pending[k].local
          BY <2>8, <5>1 DEF Honest, HonestEntry
        <5>3. counted.pending[k].local = c.pending[k].local
          BY <2>5, <2>6, <5>1 DEF e
        <5> QED
          BY <3>2, <5>1, <5>2, <5>3 DEF Certified
      <4> QED
        BY <2>5, <3>2, <3>3, <4>1, <4>2 DEF Drops
    <3> QED
      BY <3>1, <3>4, <3>5
  <2> QED
    BY <2>10, <2>11
<1> QED
  BY <1>1, <1>2

(***************************************************************************)
(* Push appends an entry that is not certified (certifier.rs:110-121).     *)
(***************************************************************************)
LEMMA PushAppends ==
    ASSUME NEW c \in CheckpointCertifier, NEW n \in Anchors, NEW d \in Commitments,
           NEW t \in Timings
    PROVE  LET after == Push(c, n, d, t)
               entry == [local        |-> [anchor |-> n, commitment |-> d],
                         timings      |-> t,
                         accumulators |-> [e \in Commitments |-> EmptyAccumulator],
                         certificate  |-> None]
           IN  /\ after.watermark = c.watermark
               /\ Len(after.pending) = Len(c.pending) + 1
               /\ \A i \in 1..Len(c.pending) : after.pending[i] = c.pending[i]
               /\ after.pending[Len(c.pending) + 1] = entry
               /\ ~Certified(entry)
<1> DEFINE entry == [local        |-> [anchor |-> n, commitment |-> d],
                     timings      |-> t,
                     accumulators |-> [e \in Commitments |-> EmptyAccumulator],
                     certificate  |-> None]
           after == Push(c, n, d, t)
<1>1. c.pending \in Seq(PendingCheckpoint) /\ Len(c.pending) \in Nat
  BY LenProperties DEF CheckpointCertifier
<1>2. after.pending = Append(c.pending, entry) /\ after.watermark = c.watermark
  BY DEF Push, CheckpointCertifier
<1>3. ~Certified(entry)
  BY DEF Certified
<1> HIDE DEF entry, after
<1>4. /\ Len(after.pending) = Len(c.pending) + 1
      /\ \A i \in 1..Len(c.pending) : after.pending[i] = c.pending[i]
      /\ after.pending[Len(c.pending) + 1] = entry
  BY <1>1, <1>2
<1> QED
  BY <1>2, <1>3, <1>4 DEF entry, after

(***************************************************************************)
(* Nobody voted for the entry that Push adds.                              *)
(***************************************************************************)
LEMMA PushHonest ==
    ASSUME NEW c \in CheckpointCertifier, NEW B, Honest(c, B),
           NEW n \in Anchors, NEW d \in Commitments, NEW t \in Timings
    PROVE  LET after == Push(c, n, d, t)
           IN  /\ Honest(after, B)
               /\ after.watermark = c.watermark
               /\ Len(after.pending) = Len(c.pending) + 1
               /\ \A i \in 1..Len(c.pending) : after.pending[i] = c.pending[i]
               /\ after.pending[Len(c.pending) + 1].local = [anchor |-> n, commitment |-> d]
               /\ after.pending[Len(c.pending) + 1].timings = t
               /\ ~Certified(after.pending[Len(c.pending) + 1])
<1> DEFINE entry == [local        |-> [anchor |-> n, commitment |-> d],
                     timings      |-> t,
                     accumulators |-> [e \in Commitments |-> EmptyAccumulator],
                     certificate  |-> None]
           after == Push(c, n, d, t)
<1>1. Len(c.pending) \in Nat
  BY LenProperties DEF CheckpointCertifier
<1>2. /\ after.watermark = c.watermark
      /\ Len(after.pending) = Len(c.pending) + 1
      /\ \A i \in 1..Len(c.pending) : after.pending[i] = c.pending[i]
      /\ after.pending[Len(c.pending) + 1] = entry
      /\ ~Certified(entry)
  BY PushAppends
<1>3. HonestEntry(entry, B)
  BY WeightAssumption DEF HonestEntry, Certified, EmptyAccumulator
<1>4. entry.local = [anchor |-> n, commitment |-> d] /\ entry.timings = t
  OBVIOUS
<1> HIDE DEF entry, after
<1>5. Honest(after, B)
  BY <1>1, <1>2, <1>3 DEF Honest
<1> QED
  BY <1>2, <1>4, <1>5 DEF after

(***************************************************************************)
(* What is dropped in two steps is dropped in one.                         *)
(***************************************************************************)
LEMMA DropsTransitive ==
    ASSUME NEW c1 \in CheckpointCertifier, NEW c2, NEW c3, NEW k, NEW l,
           Drops(c1, c2, k), Drops(c2, c3, l)
    PROVE  Drops(c1, c3, k + l)
<1>1. /\ Len(c1.pending) \in Nat /\ k \in Nat /\ l \in Nat
      /\ k + l <= Len(c1.pending)
      /\ Len(c3.pending) = Len(c1.pending) - (k + l)
      /\ Len(c2.pending) = Len(c1.pending) - k
  BY LenProperties DEF Drops, CheckpointCertifier
<1>2. ASSUME NEW i \in 1..(Len(c1.pending) - (k + l))
      PROVE  /\ c3.pending[i].local = c1.pending[(k + l) + i].local
             /\ c3.pending[i].timings = c1.pending[(k + l) + i].timings
  <2>1. i \in 1..(Len(c2.pending) - l) /\ l + i \in 1..(Len(c1.pending) - k)
        /\ k + (l + i) = (k + l) + i
    BY <1>1
  <2>2. /\ c3.pending[i].local = c2.pending[l + i].local
        /\ c3.pending[i].timings = c2.pending[l + i].timings
    BY <2>1 DEF Drops
  <2>3. /\ c2.pending[l + i].local = c1.pending[k + (l + i)].local
        /\ c2.pending[l + i].timings = c1.pending[k + (l + i)].timings
    BY <2>1 DEF Drops
  <2> QED
    BY <2>1, <2>2, <2>3
<1>3. CASE l = 0
  BY <1>1, <1>2, <1>3 DEF Drops
<1>4. CASE l # 0
  <2>1. l \in 1..(Len(c1.pending) - k) /\ k + l # 0
    BY <1>1, <1>4
  <2>2. c2.pending[l].local = c1.pending[k + l].local
    BY <2>1 DEF Drops
  <2>3. c3.watermark # None /\ c3.watermark.checkpoint = c2.pending[l].local
    BY <1>4 DEF Drops
  <2> QED
    BY <1>1, <1>2, <2>1, <2>2, <2>3 DEF Drops
<1> QED
  BY <1>3, <1>4

(***************************************************************************)
(* A vote that agrees with a window agrees with what is left of it.        *)
(***************************************************************************)
LEMMA DropsAgrees ==
    ASSUME NEW c1 \in CheckpointCertifier, NEW c2, NEW k, Drops(c1, c2, k),
           NEW B, NEW a, NEW v, Agrees(c1, a, v, B)
    PROVE  Agrees(c2, a, v, B)
<1>1. Len(c1.pending) \in Nat
  BY LenProperties DEF CheckpointCertifier
<1>2. ASSUME NEW i \in 1..Len(c2.pending)
      PROVE  \E j \in 1..Len(c1.pending) : c2.pending[i].local = c1.pending[j].local
  <2>1. k + i \in 1..Len(c1.pending) /\ i \in 1..(Len(c1.pending) - k)
    BY <1>1 DEF Drops
  <2> QED
    BY <2>1 DEF Drops
<1> QED
  BY <1>2 DEF Agrees
-----------------------------------------------------------------------------
(***************************************************************************)
(* Two certifiers that differ in the timings of their entries at most.     *)
(***************************************************************************)
SameEntry(e1, e2) ==
    /\ e1.local = e2.local
    /\ e1.accumulators = e2.accumulators
    /\ e1.certificate = e2.certificate

SameButTimings(c1, c2) ==
    /\ c1.watermark = c2.watermark
    /\ Len(c1.pending) = Len(c2.pending)
    /\ \A i \in 1..Len(c1.pending) : SameEntry(c1.pending[i], c2.pending[i])

(***************************************************************************)
(* The lookup, the admission and the tally of a vote do not look at the    *)
(* timings (certifier.rs:129-186).                                         *)
(***************************************************************************)
LEMMA SameLookup ==
    ASSUME NEW c1 \in CheckpointCertifier, NEW c2 \in CheckpointCertifier,
           SameButTimings(c1, c2),
           NEW s \in Anchors, NEW a \in Authorities, NEW v \in Checkpoint
    PROVE  /\ EntryOf(c1.pending, v.anchor) = EntryOf(c2.pending, v.anchor)
           /\ Admissible(c1, a, v) <=> Admissible(c2, a, v)
           /\ FormsCertificate(c1, s, a, v) <=> FormsCertificate(c2, s, a, v)
<1> DEFINE n == Len(c1.pending)
           p == c1.pending
           q == c2.pending
           i == EntryOf(p, v.anchor)
<1>1. n \in Nat /\ DOMAIN p = 1..n /\ DOMAIN q = 1..n
  BY LenProperties DEF CheckpointCertifier, SameButTimings
<1>2. \A j \in 1..n : p[j].local = q[j].local /\ RoundAt(p, j) = RoundAt(q, j)
  BY DEF SameButTimings, SameEntry, RoundAt
<1> HIDE DEF n, p, q
<1>3. \A j \in 1..n : InRun(p, j, Round[v.anchor]) <=> InRun(q, j, Round[v.anchor])
  <2> TAKE j \in 1..n
  <2>1. \A start \in 1..j : /\ \A k \in 1..(start - 1) : k \in 1..n
                            /\ \A k \in start..j : k \in 1..n
    BY <1>1
  <2> QED
    BY <1>2, <2>1 DEF InRun
<1>4. EntriesOf(p, v.anchor) = EntriesOf(q, v.anchor)
  BY <1>1, <1>2, <1>3 DEF EntriesOf
<1>5. EntryOf(p, v.anchor) = EntryOf(q, v.anchor)
  BY <1>4 DEF EntryOf
<1>6. EntriesOf(p, v.anchor) # {} => SameEntry(p[i], q[i])
  <2> HAVE EntriesOf(p, v.anchor) # {}
  <2>1. EntriesOf(p, v.anchor) \in SUBSET (1..n) /\ EntriesOf(p, v.anchor) \in SUBSET Nat
    BY <1>1 DEF EntriesOf
  <2>2. \E j \in EntriesOf(p, v.anchor) : \A k \in EntriesOf(p, v.anchor) : j <= k
    BY <2>1, LeastElement
  <2>3. i \in 1..n
    BY <2>1, <2>2 DEF EntryOf
  <2> QED
    BY <2>3 DEF SameButTimings, n, p, q
<1>7. Admissible(c1, a, v) <=> Admissible(c2, a, v)
  <2>1. Admissible(c1, a, v) <=> /\ EntriesOf(p, v.anchor) # {}
                                 /\ ~Certified(p[i]) /\ ~HasVoted(p[i], a)
    BY DEF Admissible, p
  <2>2. Admissible(c2, a, v) <=> /\ EntriesOf(q, v.anchor) # {}
                                 /\ ~Certified(q[i]) /\ ~HasVoted(q[i], a)
    BY <1>5 DEF Admissible, q
  <2>3. SameEntry(p[i], q[i]) =>
            /\ Certified(p[i]) <=> Certified(q[i])
            /\ HasVoted(p[i], a) <=> HasVoted(q[i], a)
    BY DEF SameEntry, Certified, HasVoted
  <2> QED
    BY <1>4, <1>6, <2>1, <2>2, <2>3
<1>8. Admissible(c1, a, v) => Tallied(p[i], s, a, v) = Tallied(q[i], s, a, v)
  BY <1>6 DEF Admissible, Tallied, SameEntry, p
<1>9. FormsCertificate(c1, s, a, v) <=> FormsCertificate(c2, s, a, v)
  BY <1>5, <1>7, <1>8 DEF FormsCertificate, p, q
<1> QED
  BY <1>5, <1>7, <1>9 DEF p, q

(***************************************************************************)
(* So recording a vote gives the same certificates, and leaves the same    *)
(* window (certifier.rs:129-211).                                          *)
(***************************************************************************)
LEMMA SameRecord ==
    ASSUME NEW c1 \in CheckpointCertifier, NEW c2 \in CheckpointCertifier,
           SameButTimings(c1, c2),
           NEW s \in Anchors, NEW a \in Authorities, NEW v \in Checkpoint
    PROVE  SameButTimings(Record(c1, s, a, v), Record(c2, s, a, v))
<1>1. /\ EntryOf(c1.pending, v.anchor) = EntryOf(c2.pending, v.anchor)
      /\ Admissible(c1, a, v) <=> Admissible(c2, a, v)
      /\ FormsCertificate(c1, s, a, v) <=> FormsCertificate(c2, s, a, v)
  BY SameLookup
<1>2. CASE ~Admissible(c1, a, v)
  BY <1>1, <1>2 DEF Record
<1>3. CASE Admissible(c1, a, v)
  <2> DEFINE i == EntryOf(c1.pending, v.anchor)
             n == Len(c1.pending)
             p == c1.pending
             q == c2.pending
             d1 == Counted(c1, s, a, v)
             d2 == Counted(c2, s, a, v)
  <2>1. /\ i \in 1..n /\ p[i] \in PendingCheckpoint /\ q[i] \in PendingCheckpoint
        /\ n \in Nat /\ Len(q) = n
        /\ SameEntry(p[i], q[i])
    <3>1. Len(q) = n /\ n \in Nat
      BY LenProperties DEF SameButTimings, CheckpointCertifier
    <3>2. i \in 1..n /\ p[i] \in PendingCheckpoint
      BY <1>3, EntryOfAdmissible
    <3>3. q[i] \in PendingCheckpoint
      BY <1>1, <1>3, EntryOfAdmissible
    <3> QED
      BY <3>1, <3>2, <3>3 DEF SameButTimings
  <2>2. /\ d1 \in CheckpointCertifier /\ d1.watermark = c1.watermark
        /\ Len(d1.pending) = n
        /\ \A j \in 1..n : j # i => d1.pending[j] = p[j]
        /\ d1.pending[i] = IF FormsCertificate(c1, s, a, v)
                           THEN WithCertificate(p[i], s, a, v) ELSE WithTally(p[i], s, a, v)
    BY <1>3, CountedType, CountedProperties
  <2>3. /\ d2 \in CheckpointCertifier /\ d2.watermark = c2.watermark
        /\ Len(d2.pending) = Len(q)
        /\ \A j \in 1..Len(q) : j # i => d2.pending[j] = q[j]
        /\ d2.pending[i] = IF FormsCertificate(c2, s, a, v)
                           THEN WithCertificate(q[i], s, a, v) ELSE WithTally(q[i], s, a, v)
    <3>1. i = EntryOf(c2.pending, v.anchor)
      BY <1>1
    <3> HIDE DEF i
    <3> QED
      BY <1>1, <1>3, <3>1, CountedType, CountedProperties
  <2> HIDE DEF i, n, p, q, d1, d2
  <2>4. SameEntry(d1.pending[i], d2.pending[i])
    <3>1. /\ SameEntry(WithTally(p[i], s, a, v), WithTally(q[i], s, a, v))
          /\ SameEntry(WithCertificate(p[i], s, a, v), WithCertificate(q[i], s, a, v))
      <4>1. Tallied(p[i], s, a, v) = Tallied(q[i], s, a, v)
        BY <2>1 DEF Tallied, SameEntry
      <4> QED
        BY <2>1, <4>1 DEF SameEntry, WithTally, WithCertificate, PendingCheckpoint
    <3> QED
      BY <1>1, <2>2, <2>3, <3>1
  <2>5. SameButTimings(d1, d2)
    <3>1. \A j \in 1..n : SameEntry(d1.pending[j], d2.pending[j])
      BY <2>1, <2>2, <2>3, <2>4 DEF SameButTimings, n, p, q
    <3> QED
      BY <2>1, <2>2, <2>3, <3>1 DEF SameButTimings
  <2>6. CASE ~FormsCertificate(c1, s, a, v)
    BY <1>1, <1>3, <2>5, <2>6 DEF Record, d1, d2
  <2>7. CASE FormsCertificate(c1, s, a, v)
    <3> DEFINE k == CertifiedPrefix(d1.pending)
               e1 == Advance(d1)
               e2 == Advance(d2)
    <3>1. CertifiedPrefix(d2.pending) = k
      <4>1. /\ Len(d2.pending) = Len(d1.pending) /\ Len(d1.pending) = n
            /\ \A j \in 1..n : Certified(d1.pending[j]) <=> Certified(d2.pending[j])
        BY <2>2, <2>5 DEF SameButTimings, SameEntry, Certified
      <4>2. \A j \in 0..n : /\ \A l \in 1..j : l \in 1..n
                            /\ j < n => j + 1 \in 1..n
        BY <2>1
      <4> DEFINE Longest(d, j) == /\ \A l \in 1..j : Certified(d[l])
                                  /\ j < Len(d) => ~Certified(d[j + 1])
      <4>3. \A j \in 0..n : Longest(d1.pending, j) <=> Longest(d2.pending, j)
        BY <4>1, <4>2
      <4>4. /\ CertifiedPrefix(d1.pending) = CHOOSE j \in 0..n : Longest(d1.pending, j)
            /\ CertifiedPrefix(d2.pending) = CHOOSE j \in 0..n : Longest(d2.pending, j)
        BY <4>1 DEF CertifiedPrefix
      <4> HIDE DEF Longest
      <4> QED
        BY <4>3, <4>4
    <3>2. /\ Len(e1.pending) = n - k
          /\ \A j \in 1..(n - k) : e1.pending[j] = d1.pending[k + j]
          /\ e1.watermark = IF k = 0 THEN d1.watermark ELSE d1.pending[k].certificate
      BY <2>2, AdvanceProperties
    <3>3. /\ Len(e2.pending) = n - k
          /\ \A j \in 1..(n - k) : e2.pending[j] = d2.pending[k + j]
          /\ e2.watermark = IF k = 0 THEN d2.watermark ELSE d2.pending[k].certificate
      BY <2>1, <2>3, <3>1, AdvanceProperties
    <3>4. k \in 0..n
      BY <2>2, CertifiedPrefixProperties DEF CheckpointCertifier
    <3> HIDE DEF k, e1, e2
    <3>5. \A j \in 1..(n - k) : SameEntry(e1.pending[j], e2.pending[j])
      <4> TAKE j \in 1..(n - k)
      <4>1. k + j \in 1..n
        BY <2>1, <3>4
      <4> QED
        BY <2>2, <2>5, <3>2, <3>3, <4>1 DEF SameButTimings
    <3>6. e1.watermark = e2.watermark
      <4>1. k # 0 => k \in 1..n
        BY <2>1, <3>4
      <4> QED
        BY <2>2, <2>5, <3>2, <3>3, <4>1 DEF SameButTimings, SameEntry
    <3>7. SameButTimings(e1, e2)
      BY <3>2, <3>3, <3>5, <3>6 DEF SameButTimings
    <3> QED
      BY <1>1, <1>3, <2>7, <3>7 DEF Record, d1, d2, e1, e2
  <2> QED
    BY <2>6, <2>7
<1> QED
  BY <1>2, <1>3

(***************************************************************************)
(* Neither does a mint (certifier.rs:110-121).                             *)
(***************************************************************************)
LEMMA SamePush ==
    ASSUME NEW c1 \in CheckpointCertifier, NEW c2 \in CheckpointCertifier,
           SameButTimings(c1, c2),
           NEW n \in Anchors, NEW d \in Commitments, NEW t1 \in Timings, NEW t2 \in Timings
    PROVE  SameButTimings(Push(c1, n, d, t1), Push(c2, n, d, t2))
<1> DEFINE entry(t) == [local        |-> [anchor |-> n, commitment |-> d],
                        timings      |-> t,
                        accumulators |-> [e \in Commitments |-> EmptyAccumulator],
                        certificate  |-> None]
           after(c, t) == Push(c, n, d, t)
<1>1. SameEntry(entry(t1), entry(t2))
  BY DEF SameEntry
<1> HIDE DEF entry
<1>2. ASSUME NEW c \in CheckpointCertifier, NEW t \in Timings
      PROVE  /\ after(c, t).watermark = c.watermark
             /\ Len(c.pending) \in Nat
             /\ Len(after(c, t).pending) = Len(c.pending) + 1
             /\ \A i \in 1..Len(c.pending) : after(c, t).pending[i] = c.pending[i]
             /\ after(c, t).pending[Len(c.pending) + 1] = entry(t)
  BY PushAppends, LenProperties DEF CheckpointCertifier, entry
<1> HIDE DEF after
<1>3. \A i \in 1..(Len(c1.pending) + 1) : i \in 1..Len(c1.pending) \/ i = Len(c1.pending) + 1
  BY <1>2
<1>4. /\ Len(c1.pending) = Len(c2.pending)
      /\ c1.watermark = c2.watermark
      /\ \A i \in 1..Len(c1.pending) : SameEntry(c1.pending[i], c2.pending[i])
  BY DEF SameButTimings
<1>5. /\ Len(after(c1, t1).pending) = Len(c1.pending) + 1
      /\ Len(after(c2, t2).pending) = Len(c1.pending) + 1
      /\ after(c1, t1).watermark = after(c2, t2).watermark
  BY <1>2, <1>4
<1>6. ASSUME NEW i \in 1..(Len(c1.pending) + 1)
      PROVE  SameEntry(after(c1, t1).pending[i], after(c2, t2).pending[i])
  <2>1. CASE i \in 1..Len(c1.pending)
    <3>1. after(c1, t1).pending[i] = c1.pending[i] /\ after(c2, t2).pending[i] = c2.pending[i]
      BY <1>2, <1>4, <2>1
    <3> QED
      BY <1>4, <2>1, <3>1
  <2>2. CASE i = Len(c1.pending) + 1
    <3>1. after(c1, t1).pending[i] = entry(t1) /\ after(c2, t2).pending[i] = entry(t2)
      BY <1>2, <1>4, <2>2
    <3> QED
      BY <1>1, <3>1
  <2> QED
    BY <1>3, <2>1, <2>2
<1>7. SameButTimings(after(c1, t1), after(c2, t2))
  BY <1>5, <1>6 DEF SameButTimings
<1> QED
  BY <1>7 DEF after
-----------------------------------------------------------------------------
(***************************************************************************)
(* What whatever vote does to a window: entries are dropped at the front,  *)
(* and those left keep their checkpoint, their certificate, and the voters *)
(* they have until they are certified.                                     *)
(***************************************************************************)
Progressed(e1, e2) ==
    /\ e1.local = e2.local
    /\ Certified(e1) => Certified(e2)
    /\ \A a : HasVoted(e1, a) => Certified(e2) \/ HasVoted(e2, a)

Shifts(before, after, k) ==
    /\ k \in 0..Len(before.pending)
    /\ Len(after.pending) = Len(before.pending) - k
    /\ \A i \in 1..Len(after.pending) : Progressed(before.pending[k + i], after.pending[i])

\* Of the entries left, the one a vote is for is certified or has counted it.
Counts(c, a, v) ==
    \A i \in 1..Len(c.pending) :
        c.pending[i].local = v => Certified(c.pending[i]) \/ HasVoted(c.pending[i], a)

(***************************************************************************)
(* Counting a vote in an entry makes it one that certified or counted the  *)
(* vote, and takes no other vote from it (certifier.rs:165-199).           *)
(***************************************************************************)
LEMMA EntryProgresses ==
    ASSUME NEW e \in PendingCheckpoint, NEW s \in Anchors,
           NEW a \in Authorities, NEW v \in Checkpoint
    PROVE  /\ Progressed(e, WithTally(e, s, a, v)) /\ HasVoted(WithTally(e, s, a, v), a)
           /\ Progressed(e, WithCertificate(e, s, a, v))
           /\ Certified(WithCertificate(e, s, a, v))
<1> DEFINE tally == WithTally(e, s, a, v)
           certificate == WithCertificate(e, s, a, v)
<1>1. /\ tally.local = e.local /\ tally.certificate = e.certificate
      /\ \A d \in Commitments :
             tally.accumulators[d] = IF d = v.commitment THEN Tallied(e, s, a, v)
                                                         ELSE e.accumulators[d]
  BY DEF WithTally, PendingCheckpoint
<1>2. e.accumulators[v.commitment].votes \cup {a} = Tallied(e, s, a, v).votes
  BY DEF Tallied, Add
<1>3. v.commitment \in Commitments
  BY DEF Checkpoint
<1>4. certificate.local = e.local /\ Certified(certificate)
  <2>1. certificate.certificate = [checkpoint |-> v, proof |-> Tallied(e, s, a, v).deliveredIn]
        /\ certificate.local = e.local
    BY DEF WithCertificate, PendingCheckpoint
  <2>2. certificate \in PendingCheckpoint /\ Tallied(e, s, a, v) \in Accumulator
    BY TalliedType
  <2>3. certificate.certificate \in CertifiedCheckpoint
    BY <2>1, <2>2 DEF Accumulator, CertifiedCheckpoint
  <2> QED
    BY <2>1, <2>3, NoneAssumption DEF Certified
<1> HIDE DEF tally, certificate
<1>5. \A d \in Commitments : e.accumulators[d].votes \subseteq tally.accumulators[d].votes
  BY <1>1, <1>2
<1>6. a \in tally.accumulators[v.commitment].votes
  BY <1>1, <1>2, <1>3
<1>7. Progressed(e, tally) /\ HasVoted(tally, a)
  BY <1>1, <1>3, <1>5, <1>6 DEF Progressed, HasVoted, Certified
<1>8. Progressed(e, certificate) /\ Certified(certificate)
  BY <1>4 DEF Progressed
<1> QED
  BY <1>7, <1>8 DEF tally, certificate

(***************************************************************************)
(* Progress adds up.                                                       *)
(***************************************************************************)
LEMMA ShiftsTransitive ==
    ASSUME NEW c1 \in CheckpointCertifier, NEW c2, NEW c3, NEW k, NEW l,
           Shifts(c1, c2, k), Shifts(c2, c3, l)
    PROVE  /\ Shifts(c1, c3, k + l)
           /\ \A a, v : Counts(c2, a, v) => Counts(c3, a, v)
<1>1. /\ Len(c1.pending) \in Nat /\ k \in Nat /\ l \in Nat /\ k + l <= Len(c1.pending)
      /\ Len(c2.pending) = Len(c1.pending) - k
      /\ Len(c3.pending) = Len(c1.pending) - (k + l)
  BY LenProperties DEF Shifts, CheckpointCertifier
<1>2. ASSUME NEW i \in 1..Len(c3.pending)
      PROVE  /\ l + i \in 1..Len(c2.pending)
             /\ Progressed(c2.pending[l + i], c3.pending[i])
             /\ Progressed(c1.pending[(k + l) + i], c2.pending[l + i])
  <2>1. l + i \in 1..Len(c2.pending) /\ k + (l + i) = (k + l) + i
    BY <1>1
  <2>2. Progressed(c1.pending[k + (l + i)], c2.pending[l + i])
    BY <2>1 DEF Shifts
  <2> QED
    BY <2>1, <2>2 DEF Shifts
<1>3. \A e1, e2, e3 : Progressed(e1, e2) /\ Progressed(e2, e3) => Progressed(e1, e3)
  BY DEF Progressed
<1>4. \A i \in 1..Len(c3.pending) : Progressed(c1.pending[(k + l) + i], c3.pending[i])
  BY <1>2, <1>3
<1>5. k + l \in 0..Len(c1.pending)
  BY <1>1
<1>6. ASSUME NEW a, NEW v, Counts(c2, a, v) PROVE Counts(c3, a, v)
  <2> SUFFICES ASSUME NEW i \in 1..Len(c3.pending), c3.pending[i].local = v
               PROVE  Certified(c3.pending[i]) \/ HasVoted(c3.pending[i], a)
    BY DEF Counts
  <2> QED
    BY <1>2, <1>6 DEF Progressed, Counts
<1> QED
  BY <1>1, <1>4, <1>5, <1>6 DEF Shifts

(***************************************************************************)
(* Recording any vote, whatever it is for, only lets the window progress,  *)
(* and in a window in commit order no vote goes uncounted while its        *)
(* checkpoint awaits a quorum (certifier.rs:129-211).                      *)
(***************************************************************************)
LEMMA RecordShifts ==
    ASSUME NEW c \in CheckpointCertifier, NEW s \in Anchors,
           NEW a \in Authorities, NEW v \in Checkpoint
    PROVE  LET after == Record(c, s, a, v)
           IN  \E k : /\ Shifts(c, after, k)
                      /\ CommitOrder(c.pending) => Counts(after, a, v)
<1> DEFINE i == EntryOf(c.pending, v.anchor)
           counted == Counted(c, s, a, v)
           n == Len(c.pending)
<1>1. /\ c.pending \in Seq(PendingCheckpoint) /\ n \in Nat
      /\ DOMAIN c.pending = 1..n
      /\ \A j \in 1..n : c.pending[j] \in PendingCheckpoint
  BY LenProperties, ElementOfSeq DEF CheckpointCertifier
<1>2. CommitOrder(c.pending) =>
          \A j \in 1..n : c.pending[j].local = v => EntriesOf(c.pending, v.anchor) = {j} /\ i = j
  BY <1>1, LookupFindsEntry
<1>3. CASE ~Admissible(c, a, v)
  <2>1. Record(c, s, a, v) = c
    BY <1>3 DEF Record
  <2>2. Shifts(c, c, 0)
    <3>1. \A j \in 1..n : Progressed(c.pending[j], c.pending[j]) /\ 0 + j = j
      BY <1>1 DEF Progressed
    <3> QED
      BY <1>1, <3>1 DEF Shifts
  <2>3. CommitOrder(c.pending) => Counts(c, a, v)
    BY <1>2, <1>3 DEF Admissible, Counts
  <2> QED
    BY <2>1, <2>2, <2>3
<1>4. CASE Admissible(c, a, v)
  <2>1. i \in 1..n /\ c.pending[i] \in PendingCheckpoint
    BY <1>4, EntryOfAdmissible
  <2>2. /\ counted \in CheckpointCertifier
        /\ Len(counted.pending) = n
        /\ \A j \in 1..n : j # i => counted.pending[j] = c.pending[j]
        /\ counted.pending[i] = IF FormsCertificate(c, s, a, v)
                                THEN WithCertificate(c.pending[i], s, a, v)
                                ELSE WithTally(c.pending[i], s, a, v)
    BY <1>4, CountedType, CountedProperties
  <2> HIDE DEF counted, i, n
  <2>3. /\ Progressed(c.pending[i], counted.pending[i])
        /\ Certified(counted.pending[i]) \/ HasVoted(counted.pending[i], a)
    BY <2>1, <2>2, EntryProgresses
  <2>4. \A j \in 1..n : Progressed(c.pending[j], counted.pending[j])
    <3>1. \A j \in 1..n : Progressed(c.pending[j], c.pending[j])
      BY DEF Progressed
    <3> QED
      BY <2>2, <2>3, <3>1
  <2>5. Shifts(c, counted, 0)
    <3>1. \A j \in 1..n : 0 + j = j
      BY <1>1
    <3> QED
      BY <1>1, <2>2, <2>4, <3>1 DEF Shifts, n
  <2>6. CommitOrder(c.pending) => Counts(counted, a, v)
    <3> SUFFICES ASSUME CommitOrder(c.pending), NEW j \in 1..n, counted.pending[j].local = v
                 PROVE  Certified(counted.pending[j]) \/ HasVoted(counted.pending[j], a)
      BY <2>2 DEF Counts
    <3>1. c.pending[j].local = v
      BY <2>4 DEF Progressed
    <3>2. j = i
      BY <1>2, <3>1
    <3> QED
      BY <2>3, <3>2
  <2>7. CASE ~FormsCertificate(c, s, a, v)
    <3>1. Record(c, s, a, v) = counted
      BY <1>4, <2>7 DEF Record, counted
    <3> QED
      BY <2>5, <2>6, <3>1
  <2>8. CASE FormsCertificate(c, s, a, v)
    <3> DEFINE k == CertifiedPrefix(counted.pending)
               after == Advance(counted)
    <3>1. Record(c, s, a, v) = after
      BY <1>4, <2>8 DEF Record, counted
    <3>2. /\ Len(after.pending) = n - k
          /\ \A j \in 1..(n - k) : after.pending[j] = counted.pending[k + j]
      BY <2>2, AdvanceProperties
    <3>3. k \in 0..n
      BY <2>2, CertifiedPrefixProperties DEF CheckpointCertifier
    <3> HIDE DEF k, after
    <3>4. Shifts(counted, after, k)
      <4>1. \A j \in 1..(n - k) : Progressed(counted.pending[k + j], after.pending[j])
        BY <3>2 DEF Progressed
      <4> QED
        BY <2>2, <3>2, <3>3, <4>1 DEF Shifts
    <3>5. Shifts(c, after, 0 + k) /\ \A b, w : Counts(counted, b, w) => Counts(after, b, w)
      BY <2>5, <3>4, ShiftsTransitive
    <3> QED
      BY <2>6, <3>1, <3>5
  <2> QED
    BY <2>7, <2>8
<1> QED
  BY <1>3, <1>4

(***************************************************************************)
(* Progress keeps a window in commit order, of some of its checkpoints.    *)
(***************************************************************************)
LEMMA ShiftsInOrder ==
    ASSUME NEW c1 \in CheckpointCertifier, NEW c2 \in CheckpointCertifier, NEW k,
           Shifts(c1, c2, k)
    PROVE  /\ CommitOrder(c1.pending) => CommitOrder(c2.pending)
           /\ \A i \in 1..Len(c2.pending) :
                  /\ k + i \in 1..Len(c1.pending)
                  /\ c2.pending[i].local = c1.pending[k + i].local
<1>1. /\ Len(c1.pending) \in Nat /\ DOMAIN c1.pending = 1..Len(c1.pending)
      /\ Len(c2.pending) \in Nat /\ DOMAIN c2.pending = 1..Len(c2.pending)
  BY LenProperties DEF CheckpointCertifier
<1>2. \A i \in 1..Len(c2.pending) : /\ k + i \in 1..Len(c1.pending)
                                    /\ c2.pending[i].local = c1.pending[k + i].local
  <2> TAKE i \in 1..Len(c2.pending)
  <2>1. k \in 0..Len(c1.pending) /\ Len(c2.pending) = Len(c1.pending) - k
    BY DEF Shifts
  <2>2. k + i \in 1..Len(c1.pending)
    BY <1>1, <2>1
  <2>3. Progressed(c1.pending[k + i], c2.pending[i])
    BY DEF Shifts
  <2> QED
    BY <2>2, <2>3 DEF Progressed
<1>3. ASSUME NEW i \in 1..Len(c2.pending), NEW j \in 1..Len(c2.pending), i < j
      PROVE  k + i < k + j
  BY <1>1, <1>3 DEF Shifts
<1>4. ASSUME CommitOrder(c1.pending), NEW i \in 1..Len(c2.pending),
             NEW j \in 1..Len(c2.pending), i < j
      PROVE  c2.pending[i].local.anchor < c2.pending[j].local.anchor
  <2>1. c1.pending[k + i].local.anchor < c1.pending[k + j].local.anchor
    BY <1>1, <1>2, <1>3, <1>4 DEF CommitOrder
  <2> QED
    BY <1>2, <2>1
<1> QED
  BY <1>1, <1>2, <1>4 DEF CommitOrder
-----------------------------------------------------------------------------
(***************************************************************************)
(* What execute_subdag does to the state of a validator, for every         *)
(* sub-dag (validator.rs:252-340).                                         *)
(***************************************************************************)

\* What recording the votes of a sub-dag goes through.
Progress == [certifier : CheckpointCertifier, latencies : Seq(Timings)]

\* The certifier after the mint, before the votes.
MintedInto(s, n, subdag, timings) ==
    IF Executes(subdag) THEN Push(s.certifier, n, Commitment(s, subdag), timings)
                        ELSE s.certifier

(***************************************************************************)
(* The mint appends the sub-dag's checkpoint to the window when the        *)
(* sub-dag executed something (validator.rs:299-318).                      *)
(***************************************************************************)
LEMMA MintAppends ==
    ASSUME NEW s \in State, NEW n \in Anchors, NEW subdag \in CommittedSubDag,
           NEW timings \in Timings, Commitment(s, subdag) \in Commitments
    PROVE  LET minted == MintedInto(s, n, subdag, timings)
               m == Len(s.certifier.pending)
           IN  /\ minted \in CheckpointCertifier
               /\ minted.watermark = s.certifier.watermark
               /\ m \in Nat
               /\ \A i \in 1..m : minted.pending[i] = s.certifier.pending[i]
               /\ \/ Len(minted.pending) = m
                  \/ /\ Executes(subdag) /\ Len(minted.pending) = m + 1
                     /\ minted.pending[m + 1].local =
                            [anchor |-> n, commitment |-> Commitment(s, subdag)]
<1> DEFINE minted == MintedInto(s, n, subdag, timings)
           m == Len(s.certifier.pending)
           store == Commitment(s, subdag)
           pushed == Push(s.certifier, n, store, timings)
<1>1. s.certifier \in CheckpointCertifier /\ m \in Nat
  BY LenProperties DEF State, CheckpointCertifier
<1>2. minted = IF Executes(subdag) THEN pushed ELSE s.certifier
  BY DEF MintedInto
<1>3. store \in Commitments
  OBVIOUS
<1> HIDE DEF minted, store
<1>4. /\ pushed \in CheckpointCertifier
      /\ pushed.watermark = s.certifier.watermark
      /\ Len(pushed.pending) = m + 1
      /\ \A i \in 1..m : pushed.pending[i] = s.certifier.pending[i]
      /\ pushed.pending[m + 1].local = [anchor |-> n, commitment |-> store]
  <2>1. pushed \in CheckpointCertifier
    BY <1>1, <1>3, PushType
  <2> DEFINE entry == [local        |-> [anchor |-> n, commitment |-> store],
                       timings      |-> timings,
                       accumulators |-> [e \in Commitments |-> EmptyAccumulator],
                       certificate  |-> None]
  <2>2. /\ pushed.watermark = s.certifier.watermark
        /\ Len(pushed.pending) = m + 1
        /\ \A i \in 1..m : pushed.pending[i] = s.certifier.pending[i]
        /\ pushed.pending[m + 1] = entry
    BY <1>1, <1>3, PushAppends
  <2>3. entry.local = [anchor |-> n, commitment |-> store]
    OBVIOUS
  <2> HIDE DEF entry, pushed, m
  <2> QED
    BY <2>1, <2>2, <2>3
<1> HIDE DEF pushed, m
<1>5. CASE Executes(subdag)
  BY <1>1, <1>2, <1>4, <1>5 DEF minted, store, m
<1>6. CASE ~Executes(subdag)
  BY <1>1, <1>2, <1>6 DEF minted, store, m
<1> QED
  BY <1>5, <1>6

(***************************************************************************)
(* record returns timings of the window, or none.                          *)
(***************************************************************************)
LEMMA ReturnedType ==
    ASSUME NEW c \in CheckpointCertifier, NEW n \in Anchors,
           NEW a \in Authorities, NEW v \in Checkpoint
    PROVE  Returned(c, n, a, v) \in Timings \cup {None}
<1>1. CASE FormsCertificate(c, n, a, v)
  <2>1. c.pending[EntryOf(c.pending, v.anchor)] \in PendingCheckpoint
    BY <1>1, EntryOfAdmissible DEF FormsCertificate
  <2> QED
    BY <1>1, <2>1 DEF Returned, PendingCheckpoint
<1>2. CASE ~FormsCertificate(c, n, a, v)
  BY <1>2 DEF Returned
<1> QED
  BY <1>1, <1>2

(***************************************************************************)
(* Recording one vote keeps the progress well-formed.                      *)
(***************************************************************************)
LEMMA ObserveVoteType ==
    ASSUME NEW p \in Progress, NEW n \in Anchors, NEW vote \in Vote
    PROVE  ObserveVote(p, n, vote) \in Progress
<1>1. /\ p.certifier \in CheckpointCertifier /\ p.latencies \in Seq(Timings)
      /\ vote.author \in Authorities /\ vote.checkpoint \in Checkpoint
  BY DEF Progress, Vote
<1> DEFINE returned == Returned(p.certifier, n, vote.author, vote.checkpoint)
           after == Record(p.certifier, n, vote.author, vote.checkpoint)
<1>2. returned \in Timings \cup {None} /\ after \in CheckpointCertifier
  BY <1>1, ReturnedType, RecordType
<1>3. ObserveVote(p, n, vote) =
          [certifier |-> after,
           latencies |-> IF returned = None THEN p.latencies ELSE Append(p.latencies, returned)]
  BY DEF ObserveVote
<1> HIDE DEF returned, after
<1>4. returned # None => Append(p.latencies, returned) \in Seq(Timings)
  BY <1>1, <1>2, AppendProperties
<1> QED
  BY <1>1, <1>2, <1>3, <1>4 DEF Progress

(***************************************************************************)
(* execute_subdag records the votes of the sub-dag one after the other, in *)
(* their order, from the certifier that the mint left.                     *)
(***************************************************************************)
LEMMA VotesAreRecordedInOrder ==
    ASSUME NEW s \in State, NEW n \in Anchors, NEW subdag \in CommittedSubDag,
           NEW timings \in Timings, Commitment(s, subdag) \in Commitments
    PROVE  \E r \in [0..Len(subdag.votes) -> Progress] :
               LET after == ExecuteSubdag(s, n, subdag, timings)
               IN  /\ r[0] = [certifier |-> MintedInto(s, n, subdag, timings),
                              latencies |-> << >>]
                   /\ \A k \in 1..Len(subdag.votes) :
                          r[k] = ObserveVote(r[k - 1], n, subdag.votes[k])
                   /\ after.state = [store     |-> Commitment(s, subdag),
                                     certifier |-> r[Len(subdag.votes)].certifier]
                   /\ after.latencies = r[Len(subdag.votes)].latencies
<1> DEFINE votes == subdag.votes
           m == Len(votes)
           base == [certifier |-> MintedInto(s, n, subdag, timings), latencies |-> << >>]
           h == [pair \in (1..m) \X Progress |-> ObserveVote(pair[2], n, votes[pair[1]])]
           Solves(f) == f = [t \in SUBSET DOMAIN votes |->
                                IF t = {} THEN base
                                ELSE ObserveVote(f[t \ {Max(t)}], n, votes[Max(t)])]
<1>1. /\ votes \in Seq(Vote) /\ m \in Nat /\ DOMAIN votes = 1..m
      /\ \A k \in 1..m : votes[k] \in Vote
  BY LenProperties, ElementOfSeq DEF CommittedSubDag
<1>2. MintedInto(s, n, subdag, timings) \in CheckpointCertifier
  BY PushType DEF MintedInto, State
<1>3. base \in Progress
  BY <1>2, EmptySeq DEF Progress
<1>4. \A k \in 1..m, p \in Progress : h[<<k, p>>] \in Progress
  BY <1>1, ObserveVoteType
<1>5. \E f : Solves(f)
  <2>1. PICK f : Folds(f, Progress, base, m, h)
    <3> HIDE DEF base, h, m
    <3>1. m \in Nat
      BY <1>1
    <3> QED
      BY <1>3, <1>4, <3>1, FoldExists
  <2>2. /\ f \in [SUBSET (1..m) -> Progress] /\ f[{}] = base
        /\ \A t \in (SUBSET (1..m)) \ {{}} : f[t] = h[<<Max(t), f[t \ {Max(t)}]>>]
    <3> HIDE DEF base, h, m
    <3> QED
      BY <2>1 DEF Folds
  <2>3. ASSUME NEW t \in SUBSET (1..m), t # {}
        PROVE  f[t] = ObserveVote(f[t \ {Max(t)}], n, votes[Max(t)])
    <3>1. Max(t) \in 1..m
      BY <1>1, <2>3, MaxOfInterval
    <3>2. f[t \ {Max(t)}] \in Progress
      BY <2>2
    <3>3. h[<<Max(t), f[t \ {Max(t)}]>>] = ObserveVote(f[t \ {Max(t)}], n, votes[Max(t)])
      <4> HIDE DEF m, base, votes
      <4> QED
        BY <3>1, <3>2
    <3>4. f[t] = h[<<Max(t), f[t \ {Max(t)}]>>]
      <4> HIDE DEF h, m, base, votes
      <4> QED
        BY <2>2, <2>3
    <3> QED
      BY <3>3, <3>4
  <2>4. Solves(f)
    <3> HIDE DEF base
    <3> QED
      BY <1>1, <2>2, <2>3
  <2> HIDE DEF Solves
  <2> QED
    BY <2>4
<1> DEFINE fold == CHOOSE f : Solves(f)
           r == [k \in 0..m |-> fold[1..k]]
<1>6. Solves(fold)
  <2> HIDE DEF Solves
  <2> QED
    BY <1>5
<1>7. /\ ExecuteSubdag(s, n, subdag, timings).state =
             [store |-> Commitment(s, subdag), certifier |-> fold[1..m].certifier]
      /\ ExecuteSubdag(s, n, subdag, timings).latencies = fold[1..m].latencies
  BY <1>1 DEF ExecuteSubdag, FoldLeft, MapThenFoldSet, MintedInto
<1> HIDE DEF fold
<1>8. r[0] = base
  <2>1. 1..0 = {}
    OBVIOUS
  <2> HIDE DEF base
  <2> QED
    BY <1>1, <1>6, <2>1
<1>9. \A k \in 1..m : r[k] = ObserveVote(r[k - 1], n, votes[k])
  <2> TAKE k \in 1..m
  <2>1. Max(1..k) = k
    BY <1>1, MaxOfBounded
  <2>2. (1..k) \ {k} = 1..(k - 1)
    BY <1>1
  <2>3. fold[1..k] = ObserveVote(fold[(1..k) \ {Max(1..k)}], n, votes[Max(1..k)])
    <3>1. 1..k \in SUBSET DOMAIN votes /\ 1..k # {}
      BY <1>1
    <3> HIDE DEF base, votes, m
    <3> QED
      BY <1>6, <3>1
  <2>4. r[k] = fold[1..k] /\ r[k - 1] = fold[1..(k - 1)]
    BY <1>1
  <2> HIDE DEF r
  <2> QED
    BY <2>1, <2>2, <2>3, <2>4
<1>10. r \in [0..m -> Progress]
  <2> DEFINE T == {k \in 0..m : r[k] \in Progress}
  <2> HIDE DEF r, base
  <2>1. 0 \in T
    BY <1>1, <1>3, <1>8
  <2>2. \A k \in 1..m : k - 1 \in T => k \in T
    BY <1>1, <1>9, ObserveVoteType
  <2>3. 0..m \subseteq T
    <3> HIDE DEF T, m
    <3>1. m \in Nat
      BY <1>1
    <3> QED
      BY <2>1, <2>2, <3>1, IntervalInduction
  <2> QED
    BY <2>3 DEF r
<1>11. ExecuteSubdag(s, n, subdag, timings).state =
           [store |-> Commitment(s, subdag), certifier |-> r[m].certifier]
       /\ ExecuteSubdag(s, n, subdag, timings).latencies = r[m].latencies
  BY <1>1, <1>7
<1> HIDE DEF r
<1> QED
  BY <1>8, <1>9, <1>10, <1>11

(***************************************************************************)
(* Executing a sub-dag yields a well-formed state.                         *)
(***************************************************************************)
LEMMA ExecuteSubdagType ==
    ASSUME NEW s \in State, NEW n \in Anchors, NEW subdag \in CommittedSubDag,
           NEW timings \in Timings, Commitment(s, subdag) \in Commitments
    PROVE  LET after == ExecuteSubdag(s, n, subdag, timings)
           IN  /\ after.state \in State
               /\ after.state.store = Commitment(s, subdag)
               /\ after.latencies \in Seq(Timings)
<1> DEFINE after == ExecuteSubdag(s, n, subdag, timings)
           m == Len(subdag.votes)
<1>1. m \in Nat
  BY LenProperties DEF CommittedSubDag
<1>2. PICK r \in [0..m -> Progress] :
          /\ after.state = [store |-> Commitment(s, subdag), certifier |-> r[m].certifier]
          /\ after.latencies = r[m].latencies
  BY VotesAreRecordedInOrder
<1> HIDE DEF after, m
<1>3. r[m] \in Progress
  BY <1>1
<1> QED
  BY <1>2, <1>3 DEF Progress, State, after

(***************************************************************************)
(* Executing a sub-dag whose votes agree with the window, those of authors *)
(* that weigh no quorum aside: the checkpoint is minted, and then entries  *)
(* are dropped at the front of the window (validator.rs:299-340).          *)
(***************************************************************************)
LEMMA ExecuteSubdagHonest ==
    ASSUME NEW s \in State, NEW n \in Anchors, NEW subdag \in CommittedSubDag,
           NEW timings \in Timings, Commitment(s, subdag) \in Commitments,
           NEW B, NoQuorum(B), Honest(s.certifier, B),
           \A k \in 1..Len(subdag.votes) :
               Agrees(MintedInto(s, n, subdag, timings), subdag.votes[k].author,
                      subdag.votes[k].checkpoint, B)
    PROVE  LET after == ExecuteSubdag(s, n, subdag, timings).state.certifier
           IN  /\ Honest(after, B)
               /\ \E k : Drops(MintedInto(s, n, subdag, timings), after, k)
<1> DEFINE after == ExecuteSubdag(s, n, subdag, timings)
           votes == subdag.votes
           m == Len(votes)
           minted == MintedInto(s, n, subdag, timings)
<1>1. m \in Nat /\ \A k \in 1..m : votes[k] \in Vote
  BY LenProperties, ElementOfSeq DEF CommittedSubDag
<1>2. PICK r \in [0..m -> Progress] :
          /\ r[0] = [certifier |-> minted, latencies |-> << >>]
          /\ \A k \in 1..m : r[k] = ObserveVote(r[k - 1], n, votes[k])
          /\ after.state = [store |-> Commitment(s, subdag), certifier |-> r[m].certifier]
  BY VotesAreRecordedInOrder
<1>3. minted \in CheckpointCertifier /\ Honest(minted, B)
  <2>1. s.certifier \in CheckpointCertifier
    BY DEF State
  <2> QED
    BY <2>1, PushType, PushHonest DEF MintedInto
<1>4. \A k \in 1..m : Agrees(minted, votes[k].author, votes[k].checkpoint, B)
  OBVIOUS
<1> HIDE DEF after, votes, m, minted
<1> DEFINE T == {k \in 0..m : /\ Honest(r[k].certifier, B)
                              /\ \E l : Drops(minted, r[k].certifier, l)}
<1>5. 0 \in T
  <2>1. Drops(minted, minted, 0)
    BY <1>3, LenProperties DEF Drops, CheckpointCertifier
  <2> QED
    BY <1>1, <1>2, <1>3, <2>1
<1>6. ASSUME NEW k \in 1..m, k - 1 \in T PROVE k \in T
  <2>1. PICK l : Drops(minted, r[k - 1].certifier, l)
    BY <1>6
  <2>2. /\ r[k - 1].certifier \in CheckpointCertifier
        /\ votes[k].author \in Authorities /\ votes[k].checkpoint \in Checkpoint
    BY <1>1 DEF Progress, Vote
  <2>3. Agrees(r[k - 1].certifier, votes[k].author, votes[k].checkpoint, B)
    BY <1>3, <1>4, <2>1, DropsAgrees
  <2>4. r[k].certifier = Record(r[k - 1].certifier, n, votes[k].author, votes[k].checkpoint)
    <3>1. r[k] = ObserveVote(r[k - 1], n, votes[k])
      BY <1>2
    <3> QED
      BY <3>1 DEF ObserveVote
  <2>5. /\ Honest(r[k].certifier, B)
        /\ \E j : Drops(r[k - 1].certifier, r[k].certifier, j)
    BY <1>6, <2>2, <2>3, <2>4, RecordHonest
  <2>6. PICK j : Drops(r[k - 1].certifier, r[k].certifier, j)
    BY <2>5
  <2>7. Drops(minted, r[k].certifier, l + j)
    BY <1>3, <2>1, <2>6, DropsTransitive
  <2> QED
    BY <2>5, <2>7
<1>7. 0..m \subseteq T
  <2> HIDE DEF T
  <2> QED
    BY <1>1, <1>5, <1>6, IntervalInduction
<1>8. m \in T
  BY <1>1, <1>7
<1>9. after.state.certifier = r[m].certifier
  BY <1>2
<1> QED
  BY <1>8, <1>9 DEF after, minted
-----------------------------------------------------------------------------
\* What one sub-dag adds to the commitment.
WritesOf(subdag) == IF subdag.effect = "writes" THEN 1 ELSE 0

(***************************************************************************)
(* The writing sub-dags of a log are counted one by one.                   *)
(***************************************************************************)
LEMMA CommitmentSteps ==
    ASSUME NEW log
    PROVE  /\ CommitmentAfter(log, 0) = 0
           /\ \A n \in Nat :
                  /\ CommitmentAfter(log, n) \in 0..n
                  /\ CommitmentAfter(log, n + 1) = CommitmentAfter(log, n) + WritesOf(log[n + 1])
<1> DEFINE Writing(n) == {m \in 1..n : log[m].effect = "writes"}
<1>1. ASSUME NEW n \in Nat
      PROVE  /\ IsFiniteSet(Writing(n)) /\ Cardinality(Writing(n)) \in 0..n
             /\ Cardinality(Writing(n + 1)) = Cardinality(Writing(n)) + WritesOf(log[n + 1])
  <2>1. /\ IsFiniteSet(1..n) /\ Cardinality(1..n) = n
    BY FS_Interval
  <2>2. /\ IsFiniteSet(Writing(n)) /\ Cardinality(Writing(n)) <= n
        /\ Cardinality(Writing(n)) \in Nat
    <3>1. Writing(n) \in SUBSET (1..n)
      OBVIOUS
    <3> HIDE DEF Writing
    <3> QED
      BY <2>1, <3>1, FS_Subset, FS_CardinalityType
  <2>3. CASE log[n + 1].effect = "writes"
    <3>1. Writing(n + 1) = Writing(n) \cup {n + 1} /\ n + 1 \notin Writing(n)
      BY <2>3
    <3> HIDE DEF Writing
    <3> QED
      BY <2>2, <2>3, <3>1, FS_AddElement DEF WritesOf
  <2>4. CASE log[n + 1].effect # "writes"
    <3>1. Writing(n + 1) = Writing(n)
      BY <2>4
    <3> HIDE DEF Writing
    <3> QED
      BY <2>2, <2>4, <3>1 DEF WritesOf
  <2> QED
    BY <2>2, <2>3, <2>4
<1>2. Writing(0) = {} /\ Cardinality({}) = 0
  BY FS_EmptySet
<1>3. \A n : CommitmentAfter(log, n) = Cardinality(Writing(n))
  BY DEF CommitmentAfter
<1> HIDE DEF Writing
<1> QED
  BY <1>1, <1>2, <1>3

(***************************************************************************)
(* The commitment after a prefix of a log is the same in a longer log.     *)
(***************************************************************************)
LEMMA CommitmentOfPrefix ==
    ASSUME NEW log, NEW longer, NEW n \in Nat, \A m \in 1..n : log[m] = longer[m]
    PROVE  CommitmentAfter(log, n) = CommitmentAfter(longer, n)
<1>1. {m \in 1..n : log[m].effect = "writes"} = {m \in 1..n : longer[m].effect = "writes"}
  OBVIOUS
<1> QED
  BY <1>1 DEF CommitmentAfter

(***************************************************************************)
(* What a log without its first sub-dag lacks is what that one writes.     *)
(***************************************************************************)
LEMMA CommitmentOfTail ==
    ASSUME NEW log, NEW rest, NEW n \in Nat, \A m \in 1..n : rest[m] = log[m + 1]
    PROVE  CommitmentAfter(log, n + 1) = WritesOf(log[1]) + CommitmentAfter(rest, n)
<1> DEFINE T == {m \in 0..n : CommitmentAfter(log, m + 1) =
                                  WritesOf(log[1]) + CommitmentAfter(rest, m)}
<1>1. 0 \in T
  <2>1. CommitmentAfter(log, 0 + 1) = CommitmentAfter(log, 0) + WritesOf(log[0 + 1])
    BY CommitmentSteps
  <2>2. CommitmentAfter(log, 0) = 0 /\ CommitmentAfter(rest, 0) = 0
    BY CommitmentSteps
  <2>3. WritesOf(log[1]) \in Nat
    BY DEF WritesOf
  <2> QED
    BY <2>1, <2>2, <2>3
<1>2. ASSUME NEW m \in 1..n, m - 1 \in T PROVE m \in T
  <2>1. m \in Nat /\ m - 1 \in Nat /\ (m - 1) + 1 = m
    OBVIOUS
  <2>2. CommitmentAfter(log, m + 1) = CommitmentAfter(log, m) + WritesOf(log[m + 1])
    BY <2>1, CommitmentSteps
  <2>3. CommitmentAfter(rest, m) = CommitmentAfter(rest, m - 1) + WritesOf(rest[m])
    BY <2>1, CommitmentSteps
  <2>4. CommitmentAfter(log, m) = WritesOf(log[1]) + CommitmentAfter(rest, m - 1)
    BY <1>2, <2>1
  <2>5. /\ CommitmentAfter(rest, m - 1) \in Nat
        /\ WritesOf(log[1]) \in Nat /\ WritesOf(rest[m]) \in Nat
    BY <2>1, CommitmentSteps DEF WritesOf
  <2> QED
    BY <2>2, <2>3, <2>4, <2>5
<1>3. 0..n \subseteq T
  <2> HIDE DEF T
  <2> QED
    BY <1>1, <1>2, IntervalInduction
<1> QED
  BY <1>3
-----------------------------------------------------------------------------
(***************************************************************************)
(* Executing a sub-dag, whatever its votes are for: the window progresses  *)
(* from the one after the mint, and one in commit order counts every vote  *)
(* for a checkpoint that it keeps (validator.rs:299-340).                  *)
(***************************************************************************)
LEMMA ExecuteSubdagShifts ==
    ASSUME NEW s \in State, NEW n \in Anchors, NEW subdag \in CommittedSubDag,
           NEW timings \in Timings, Commitment(s, subdag) \in Commitments
    PROVE  LET minted == MintedInto(s, n, subdag, timings)
               after == ExecuteSubdag(s, n, subdag, timings).state.certifier
           IN  \E k : /\ Shifts(minted, after, k)
                      /\ CommitOrder(minted.pending) =>
                             \A j \in 1..Len(subdag.votes) :
                                 Counts(after, subdag.votes[j].author, subdag.votes[j].checkpoint)
<1> DEFINE after == ExecuteSubdag(s, n, subdag, timings)
           votes == subdag.votes
           m == Len(votes)
           minted == MintedInto(s, n, subdag, timings)
<1>1. m \in Nat /\ \A k \in 1..m : votes[k] \in Vote
  BY LenProperties, ElementOfSeq DEF CommittedSubDag
<1>2. PICK r \in [0..m -> Progress] :
          /\ r[0] = [certifier |-> minted, latencies |-> << >>]
          /\ \A k \in 1..m : r[k] = ObserveVote(r[k - 1], n, votes[k])
          /\ after.state = [store |-> Commitment(s, subdag), certifier |-> r[m].certifier]
  BY VotesAreRecordedInOrder
<1>3. minted \in CheckpointCertifier
  BY PushType DEF MintedInto, State
<1> HIDE DEF after, votes, m, minted
<1> DEFINE Counted1To(c, k) == CommitOrder(minted.pending) =>
               \A j \in 1..k : Counts(c, votes[j].author, votes[j].checkpoint)
           Good(k) == \E l : Shifts(minted, r[k].certifier, l) /\ Counted1To(r[k].certifier, k)
           T == {k \in 0..m : Good(k)}
<1>4. 0 \in T
  <2>1. Shifts(minted, minted, 0)
    <3>1. Len(minted.pending) \in Nat
      BY <1>3, LenProperties DEF CheckpointCertifier
    <3>2. \A i \in 1..Len(minted.pending) :
              0 + i = i /\ Progressed(minted.pending[i], minted.pending[i])
      BY <3>1 DEF Progressed
    <3> QED
      BY <3>1, <3>2 DEF Shifts
  <2>2. r[0].certifier = minted /\ \A j \in 1..0 : FALSE
    BY <1>2
  <2> QED
    BY <1>1, <2>1, <2>2
<1>5. ASSUME NEW k \in 1..m, k - 1 \in T PROVE k \in T
  <2>1. PICK l : Shifts(minted, r[k - 1].certifier, l) /\ Counted1To(r[k - 1].certifier, k - 1)
    BY <1>5
  <2>2. /\ r[k - 1].certifier \in CheckpointCertifier
        /\ votes[k].author \in Authorities /\ votes[k].checkpoint \in Checkpoint
    BY <1>1 DEF Progress, Vote
  <2>3. r[k].certifier = Record(r[k - 1].certifier, n, votes[k].author, votes[k].checkpoint)
    <3>1. r[k] = ObserveVote(r[k - 1], n, votes[k])
      BY <1>2
    <3> QED
      BY <3>1 DEF ObserveVote
  <2>4. PICK j : /\ Shifts(r[k - 1].certifier, r[k].certifier, j)
                 /\ CommitOrder(r[k - 1].certifier.pending) =>
                        Counts(r[k].certifier, votes[k].author, votes[k].checkpoint)
    BY <2>2, <2>3, RecordShifts
  <2>5. /\ Shifts(minted, r[k].certifier, l + j)
        /\ \A a, v : Counts(r[k - 1].certifier, a, v) => Counts(r[k].certifier, a, v)
    BY <1>3, <2>1, <2>4, ShiftsTransitive
  <2>6. CommitOrder(minted.pending) => CommitOrder(r[k - 1].certifier.pending)
    BY <1>3, <2>1, <2>2, ShiftsInOrder
  <2>7. \A i \in 1..k : i \in 1..(k - 1) \/ i = k
    BY <1>1
  <2>8. Counted1To(r[k].certifier, k)
    BY <2>1, <2>4, <2>5, <2>6, <2>7
  <2> QED
    BY <2>5, <2>8
<1>6. 0..m \subseteq T
  <2> HIDE DEF T
  <2> QED
    BY <1>1, <1>4, <1>5, IntervalInduction
<1>7. Good(m)
  BY <1>1, <1>6
<1>8. after.state.certifier = r[m].certifier
  BY <1>2
<1> QED
  BY <1>7, <1>8 DEF after, minted, m, votes

(***************************************************************************)
(* Executing a sub-dag live or in a replay, and with whatever timings the  *)
(* window has, gives the same state but the timings (validator.rs:219-221).*)
(***************************************************************************)
LEMMA ExecutionSame ==
    ASSUME NEW s1 \in State, NEW s2 \in State, s1.store = s2.store,
           SameButTimings(s1.certifier, s2.certifier),
           NEW n \in Anchors, NEW subdag \in CommittedSubDag,
           NEW t1 \in Timings, NEW t2 \in Timings, Commitment(s1, subdag) \in Commitments
    PROVE  LET after1 == ExecuteSubdag(s1, n, subdag, t1).state
               after2 == ExecuteSubdag(s2, n, subdag, t2).state
           IN  /\ after1.store = after2.store
               /\ SameButTimings(after1.certifier, after2.certifier)
<1> DEFINE after1 == ExecuteSubdag(s1, n, subdag, t1).state
           after2 == ExecuteSubdag(s2, n, subdag, t2).state
           votes == subdag.votes
           m == Len(votes)
           minted1 == MintedInto(s1, n, subdag, t1)
           minted2 == MintedInto(s2, n, subdag, t2)
           store == Commitment(s1, subdag)
<1>1. m \in Nat /\ \A k \in 1..m : votes[k] \in Vote
  BY LenProperties, ElementOfSeq DEF CommittedSubDag
<1>2. store = Commitment(s2, subdag)
  BY DEF Commitment
<1>3. PICK q \in [0..m -> Progress] :
          /\ q[0] = [certifier |-> minted1, latencies |-> << >>]
          /\ \A k \in 1..m : q[k] = ObserveVote(q[k - 1], n, votes[k])
          /\ after1 = [store |-> store, certifier |-> q[m].certifier]
  BY VotesAreRecordedInOrder, ZenonT(60)
<1>4. PICK r \in [0..m -> Progress] :
          /\ r[0] = [certifier |-> minted2, latencies |-> << >>]
          /\ \A k \in 1..m : r[k] = ObserveVote(r[k - 1], n, votes[k])
          /\ after2 = [store |-> Commitment(s2, subdag), certifier |-> r[m].certifier]
  <2>1. Commitment(s2, subdag) \in Commitments
    BY <1>2
  <2> QED
    BY <2>1, VotesAreRecordedInOrder
<1>5. SameButTimings(minted1, minted2)
  <2>1. s1.certifier \in CheckpointCertifier /\ s2.certifier \in CheckpointCertifier
    BY DEF State
  <2>2. /\ minted1 = IF Executes(subdag) THEN Push(s1.certifier, n, store, t1) ELSE s1.certifier
        /\ minted2 = IF Executes(subdag) THEN Push(s2.certifier, n, store, t2) ELSE s2.certifier
    BY <1>2 DEF MintedInto
  <2> HIDE DEF minted1, minted2, store
  <2>3. SameButTimings(Push(s1.certifier, n, store, t1), Push(s2.certifier, n, store, t2))
    <3>1. store \in Commitments
      BY DEF store
    <3> QED
      BY <2>1, <3>1, SamePush
  <2> QED
    BY <2>2, <2>3
<1> HIDE DEF after1, after2, votes, m, minted1, minted2
<1> DEFINE T == {k \in 0..m : SameButTimings(q[k].certifier, r[k].certifier)}
<1>6. 0 \in T
  BY <1>1, <1>3, <1>4, <1>5
<1>7. ASSUME NEW k \in 1..m, k - 1 \in T PROVE k \in T
  <2>1. /\ q[k - 1].certifier \in CheckpointCertifier
        /\ r[k - 1].certifier \in CheckpointCertifier
        /\ votes[k].author \in Authorities /\ votes[k].checkpoint \in Checkpoint
        /\ SameButTimings(q[k - 1].certifier, r[k - 1].certifier)
    BY <1>1, <1>7 DEF Progress, Vote
  <2>2. /\ q[k].certifier = Record(q[k - 1].certifier, n, votes[k].author, votes[k].checkpoint)
        /\ r[k].certifier = Record(r[k - 1].certifier, n, votes[k].author, votes[k].checkpoint)
    <3>1. /\ q[k] = ObserveVote(q[k - 1], n, votes[k])
          /\ r[k] = ObserveVote(r[k - 1], n, votes[k])
      BY <1>3, <1>4
    <3> QED
      BY <3>1 DEF ObserveVote
  <2> QED
    BY <2>1, <2>2, SameRecord
<1>8. 0..m \subseteq T
  <2> HIDE DEF T
  <2> QED
    BY <1>1, <1>6, <1>7, IntervalInduction
<1>9. SameButTimings(q[m].certifier, r[m].certifier)
  BY <1>1, <1>8
<1> QED
  BY <1>2, <1>3, <1>4, <1>9 DEF after1, after2
-----------------------------------------------------------------------------
(***************************************************************************)
(* What the execution layer computes: the writes of a call are collected   *)
(* in the order of its inputs, one for each that is not read only, and     *)
(* applying them keeps the store a function of its commitment. For every   *)
(* set of objects and every bound on the history.                          *)
(***************************************************************************)
WritesOfVersion(v) == [id : ObjectIds, version : {v}]

(***************************************************************************)
(* The writes collected from the first k inputs: one for each that is not  *)
(* read only, in their order, and none twice when no id is declared twice. *)
(***************************************************************************)
Declares(inputs, k, id) == \E l \in 1..k : inputs[l].mode # "ReadOnly" /\ inputs[l].id = id

Collected(q, transaction, k, v) ==
    /\ q \in Seq(WritesOfVersion(v))
    /\ Len(q) <= k
    /\ \A id \in ObjectIds : Declares(transaction.inputs, k, id) <=>
                                 \E i \in 1..Len(q) : q[i].id = id
    /\ Verify(transaction) => \A i, j \in 1..Len(q) : q[i].id = q[j].id => i = j

Collect(q, input, v) ==
    IF input.mode = "ReadOnly" THEN q ELSE Append(q, [id |-> input.id, version |-> v])

(***************************************************************************)
(* One more input.                                                         *)
(***************************************************************************)
LEMMA CollectOne ==
    ASSUME NEW transaction \in Transaction, NEW k \in 1..Len(transaction.inputs), NEW v,
           NEW q, Collected(q, transaction, k - 1, v)
    PROVE  Collected(Collect(q, transaction.inputs[k], v), transaction, k, v)
<1> DEFINE inputs == transaction.inputs
           input == inputs[k]
           e == [id |-> input.id, version |-> v]
<1>1. /\ inputs \in Seq(Input) /\ Len(inputs) \in Nat /\ DOMAIN inputs = 1..Len(inputs)
      /\ input \in Input /\ k \in Nat
  BY LenProperties, ElementOfSeq DEF Transaction
<1>2. /\ q \in Seq(WritesOfVersion(v)) /\ Len(q) \in Nat /\ Len(q) <= k - 1
      /\ \A i \in 1..Len(q) : q[i] \in WritesOfVersion(v)
  BY LenProperties, ElementOfSeq DEF Collected
<1>3. \A id \in ObjectIds : Declares(inputs, k, id) <=>
          Declares(inputs, k - 1, id) \/ (input.mode # "ReadOnly" /\ input.id = id)
  <2>1. \A l : l \in 1..k <=> l \in 1..(k - 1) \/ l = k
    BY <1>1
  <2> QED
    BY <2>1 DEF Declares
<1>4. CASE input.mode = "ReadOnly"
  <2>1. Collect(q, input, v) = q
    BY <1>4 DEF Collect
  <2>2. Len(q) <= k
    BY <1>1, <1>2
  <2> QED
    BY <1>3, <1>4, <2>1, <2>2 DEF Collected
<1>5. CASE input.mode # "ReadOnly"
  <2>1. e \in WritesOfVersion(v) /\ Collect(q, input, v) = Append(q, e)
    BY <1>1, <1>5 DEF Collect, WritesOfVersion, Input
  <2>2. e.id = input.id
    OBVIOUS
  <2> HIDE DEF e, input, inputs
  <2> DEFINE r == Append(q, e)
  <2>3. /\ r \in Seq(WritesOfVersion(v)) /\ Len(r) = Len(q) + 1
        /\ \A i \in 1..Len(q) : r[i] = q[i]
        /\ r[Len(q) + 1] = e
    BY <1>2, <2>1, AppendProperties
  <2> HIDE DEF r
  <2>4. \A i : i \in 1..Len(r) <=> i \in 1..Len(q) \/ i = Len(q) + 1
    BY <1>2, <2>3
  <2>5. Len(r) <= k
    BY <1>1, <1>2, <2>3
  <2>6. \A id \in ObjectIds : Declares(inputs, k, id) <=> \E i \in 1..Len(r) : r[i].id = id
    <3> TAKE id \in ObjectIds
    <3>1. Declares(inputs, k - 1, id) <=> \E i \in 1..Len(q) : q[i].id = id
      BY DEF Collected, inputs
    <3>2. (\E i \in 1..Len(r) : r[i].id = id) <=> (\E i \in 1..Len(q) : q[i].id = id) \/ e.id = id
      BY <2>3, <2>4
    <3> QED
      BY <1>3, <1>5, <2>2, <3>1, <3>2
  <2>7. ASSUME Verify(transaction), NEW i \in 1..Len(r), NEW j \in 1..Len(r), r[i].id = r[j].id
        PROVE  i = j
    <3>1. \A a, b \in 1..Len(q) : q[a].id = q[b].id => a = b
      BY <2>7 DEF Collected
    <3>2. \A a \in 1..Len(q) : q[a].id # e.id
      <4> SUFFICES ASSUME NEW a \in 1..Len(q), q[a].id = e.id PROVE FALSE
        OBVIOUS
      <4>1. input.id \in ObjectIds /\ q[a].id = input.id
        BY <1>1, <2>2 DEF Input
      <4>2. Declares(inputs, k - 1, input.id)
        BY <4>1 DEF Collected, inputs
      <4>3. PICK l \in 1..(k - 1) : inputs[l].id = input.id
        BY <4>2 DEF Declares
      <4>4. l \in 1..Len(inputs) /\ k \in 1..Len(inputs) /\ l # k
        BY <1>1 DEF inputs
      <4> QED
        BY <1>1, <2>7, <4>3, <4>4 DEF Verify, inputs, input
    <3> QED
      BY <2>3, <2>4, <2>7, <3>1, <3>2
  <2> QED
    BY <2>1, <2>3, <2>5, <2>6, <2>7 DEF Collected, inputs, r, input
<1> QED
  BY <1>4, <1>5

(***************************************************************************)
(* A successful call writes every input that is not read only, each once,  *)
(* with one version (transaction.rs:88-102, effects.rs:28-66).             *)
(***************************************************************************)
LEMMA WritesAreCollected ==
    ASSUME NEW s, NEW transaction \in Transaction
    PROVE  Collected(Writes(s, transaction), transaction, Len(transaction.inputs),
                     NextVersion(s, transaction))
<1> DEFINE inputs == transaction.inputs
           m == Len(inputs)
           v == NextVersion(s, transaction)
           X == Seq(WritesOfVersion(v))
           h == [pair \in (1..m) \X X |-> Collect(pair[2], inputs[pair[1]], v)]
           Solves(f) == f = [t \in SUBSET DOMAIN inputs |->
                                IF t = {} THEN << >>
                                ELSE Collect(f[t \ {Max(t)}], inputs[Max(t)], v)]
<1>1. /\ inputs \in Seq(Input) /\ m \in Nat /\ DOMAIN inputs = 1..m
      /\ \A k \in 1..m : inputs[k] \in Input
  BY LenProperties, ElementOfSeq DEF Transaction
<1>2. << >> \in X /\ \A k \in 1..m, q \in X : h[<<k, q>>] \in X
  <2>1. << >> \in X
    BY EmptySeq
  <2>2. ASSUME NEW k \in 1..m, NEW q \in X PROVE Collect(q, inputs[k], v) \in X
    <3>1. inputs[k] \in Input
      BY <1>1
    <3>2. CASE inputs[k].mode = "ReadOnly"
      BY <3>2 DEF Collect
    <3>3. CASE inputs[k].mode # "ReadOnly"
      <4> DEFINE e == [id |-> inputs[k].id, version |-> v]
      <4>1. e \in WritesOfVersion(v) /\ Collect(q, inputs[k], v) = Append(q, e)
        BY <3>1, <3>3 DEF WritesOfVersion, Input, Collect
      <4> HIDE DEF e
      <4> QED
        BY <4>1, AppendProperties
    <3> QED
      BY <3>2, <3>3
  <2> HIDE DEF X, v
  <2> QED
    BY <2>1, <2>2
<1>3. \E f : Solves(f)
  <2>1. PICK f : Folds(f, X, << >>, m, h)
    <3> HIDE DEF h, m, X
    <3> QED
      BY <1>1, <1>2, FoldExists
  <2>2. /\ f \in [SUBSET (1..m) -> X] /\ f[{}] = << >>
        /\ \A t \in (SUBSET (1..m)) \ {{}} : f[t] = h[<<Max(t), f[t \ {Max(t)}]>>]
    <3> HIDE DEF h, m, X
    <3> QED
      BY <2>1 DEF Folds
  <2>3. ASSUME NEW t \in SUBSET (1..m), t # {}
        PROVE  f[t] = Collect(f[t \ {Max(t)}], inputs[Max(t)], v)
    <3>1. Max(t) \in 1..m
      BY <1>1, <2>3, MaxOfInterval
    <3>2. f[t \ {Max(t)}] \in X
      BY <2>2
    <3>3. h[<<Max(t), f[t \ {Max(t)}]>>] = Collect(f[t \ {Max(t)}], inputs[Max(t)], v)
      <4> HIDE DEF m, X, inputs, v
      <4> QED
        BY <3>1, <3>2
    <3>4. f[t] = h[<<Max(t), f[t \ {Max(t)}]>>]
      <4> HIDE DEF h, m, X, inputs
      <4> QED
        BY <2>2, <2>3
    <3> QED
      BY <3>3, <3>4
  <2>4. Solves(f)
    <3> HIDE DEF X, v
    <3> QED
      BY <1>1, <2>2, <2>3
  <2> HIDE DEF Solves
  <2> QED
    BY <2>4
<1> DEFINE fold == CHOOSE f : Solves(f)
           r == [k \in 0..m |-> fold[1..k]]
<1>4. Solves(fold)
  <2> HIDE DEF Solves
  <2> QED
    BY <1>3
<1>5. Writes(s, transaction) = fold[1..m]
  BY <1>1 DEF Writes, FoldLeft, MapThenFoldSet, Collect
<1> HIDE DEF fold
<1>6. r[0] = << >>
  <2>1. 1..0 = {}
    OBVIOUS
  <2> QED
    BY <1>1, <1>4, <2>1
<1>7. \A k \in 1..m : r[k] = Collect(r[k - 1], inputs[k], v)
  <2> TAKE k \in 1..m
  <2>1. Max(1..k) = k
    BY <1>1, MaxOfBounded
  <2>2. (1..k) \ {k} = 1..(k - 1)
    BY <1>1
  <2>3. fold[1..k] = Collect(fold[(1..k) \ {Max(1..k)}], inputs[Max(1..k)], v)
    <3> HIDE DEF inputs, m, v
    <3>1. m \in Nat /\ DOMAIN inputs = 1..m
      BY <1>1
    <3>2. \A l \in 1..k : l \in 1..m
      BY <3>1
    <3>3. 1 \in 1..k
      BY <3>1
    <3>4. 1..k \in SUBSET DOMAIN inputs /\ 1..k # {}
      BY <3>1, <3>2, <3>3
    <3> QED
      BY <1>4, <3>4
  <2>4. r[k] = fold[1..k] /\ r[k - 1] = fold[1..(k - 1)]
    BY <1>1
  <2> HIDE DEF r
  <2> QED
    BY <2>1, <2>2, <2>3, <2>4
<1> DEFINE T == {k \in 0..m : Collected(r[k], transaction, k, v)}
<1>8. 0 \in T
  <2>1. Collected(<< >>, transaction, 0, v)
    <3>1. << >> \in X /\ Len(<< >>) = 0
      BY EmptySeq
    <3> QED
      BY <3>1 DEF Collected, Declares
  <2> HIDE DEF r
  <2> QED
    BY <1>1, <1>6, <2>1
<1>9. ASSUME NEW k \in 1..m, k - 1 \in T PROVE k \in T
  <2>1. Collected(r[k - 1], transaction, k - 1, v)
    BY <1>9
  <2> HIDE DEF r, v
  <2>2. Collected(Collect(r[k - 1], inputs[k], v), transaction, k, v)
    BY <2>1, CollectOne
  <2> QED
    BY <1>1, <1>7, <2>2
<1>10. 0..m \subseteq T
  <2> HIDE DEF T, m
  <2> QED
    BY <1>1, <1>8, <1>9, IntervalInduction
<1>11. Collected(r[m], transaction, m, v) /\ r[m] = Writes(s, transaction)
  BY <1>1, <1>5, <1>10
<1> QED
  BY <1>11
-----------------------------------------------------------------------------
(***************************************************************************)
(* The inductive invariant, of a store: its three fields tell one history, *)
(* whose versions never exceed its length.                                 *)
(***************************************************************************)
Stores == [objects : SUBSET Object, latest : [ObjectIds -> Version], commitment : Seq(Object)]

WritesTo(history, id) == {i \in DOMAIN history : history[i].id = id}

LatestIsLastWrite(s) ==
    \A id \in ObjectIds :
        s.latest[id] = IF WritesTo(s.commitment, id) = {} THEN 0
                       ELSE s.commitment[Max(WritesTo(s.commitment, id))].version

StoreOK(s) ==
    /\ s \in Stores
    /\ Len(s.commitment) <= MaxWrites
    /\ s.objects = Range(s.commitment)
    /\ \A i, j \in 1..Len(s.commitment) : s.commitment[i] = s.commitment[j] => i = j
    /\ LatestIsLastWrite(s)
    /\ \A id \in ObjectIds : s.latest[id] <= Len(s.commitment)
    /\ \A i \in 1..Len(s.commitment) :
           /\ s.commitment[i].version >= 1
           /\ s.commitment[i].version <= s.latest[s.commitment[i].id]

(***************************************************************************)
(* The version of a transaction's writes exceeds that of every object it   *)
(* reads, and by one at most the length of the history                     *)
(* (transaction.rs:88-102).                                                *)
(***************************************************************************)
LEMMA NextVersionExceedsReads ==
    ASSUME NEW s, StoreOK(s), NEW transaction \in Transaction
    PROVE  /\ NextVersion(s, transaction) \in 1..(Len(s.commitment) + 1)
           /\ \A input \in Inputs(transaction) : input.mode # "WriteOnly" =>
                  s.latest[input.id] < NextVersion(s, transaction)
<1> DEFINE n == Len(s.commitment)
           versions == {0} \cup {s.latest[input.id] : input \in Reads(transaction)}
<1>1. n \in Nat
  BY LenProperties DEF StoreOK, Stores
<1>2. \A input \in Inputs(transaction) : input \in Input
  BY LenProperties, ElementOfSeq DEF Inputs, Range, Transaction
<1>3. \A id \in ObjectIds : s.latest[id] \in 0..n
  <2> TAKE id \in ObjectIds
  <2>1. s.latest[id] \in 0..MaxWrites /\ MaxWrites \in Nat
    BY ExecutionAssumption DEF StoreOK, Stores, Version
  <2>2. s.latest[id] <= n
    BY DEF StoreOK
  <2> HIDE DEF n
  <2> QED
    BY <1>1, <2>1, <2>2
<1>4. versions \in SUBSET (0..n) /\ versions # {}
  <2>1. \A input \in Reads(transaction) : s.latest[input.id] \in 0..n
    BY <1>2, <1>3 DEF Reads, Input
  <2>2. 0 \in 0..n
    BY <1>1
  <2> HIDE DEF n
  <2> QED
    BY <2>1, <2>2
<1>5. Max(versions) \in 0..n /\ \A x \in versions : x <= Max(versions)
  <2> HIDE DEF versions, n
  <2> QED
    BY <1>1, <1>4, MaxOfNaturals
<1>6. NextVersion(s, transaction) = 1 + Max(versions)
  BY DEF NextVersion
<1>7. ASSUME NEW input \in Inputs(transaction), input.mode # "WriteOnly"
      PROVE  s.latest[input.id] < NextVersion(s, transaction)
  <2>1. s.latest[input.id] \in versions
    BY <1>7 DEF Reads
  <2>2. s.latest[input.id] \in 0..n
    BY <1>4, <2>1
  <2> HIDE DEF versions, n
  <2> QED
    BY <1>1, <1>5, <1>6, <2>1, <2>2
<1>8. NextVersion(s, transaction) \in 1..(n + 1)
  <2> HIDE DEF versions, n
  <2> QED
    BY <1>1, <1>5, <1>6
<1> QED
  BY <1>7, <1>8

(***************************************************************************)
(* The writes of an execution: none, or those collected from verified      *)
(* inputs (effects.rs:28-66, scheduler.rs:27-45).                          *)
(***************************************************************************)
LEMMA OutputProperties ==
    ASSUME NEW s, StoreOK(s), NEW transaction \in Transaction
    PROVE  LET w == OutputWrites(s, transaction)
               v == NextVersion(s, transaction)
           IN  /\ w \in Seq(WritesOfVersion(v)) /\ Len(w) <= Len(transaction.inputs)
               /\ \A i, j \in 1..Len(w) : w[i].id = w[j].id => i = j
               /\ StatusOf(s, transaction) # "Success" => w = << >>
               /\ StatusOf(s, transaction) = "Success" =>
                      \A id \in ObjectIds :
                          (\E i \in 1..Len(w) : w[i].id = id) <=>
                              \E input \in Inputs(transaction) :
                                  input.mode # "ReadOnly" /\ input.id = id
<1> DEFINE inputs == transaction.inputs
<1>1. inputs \in Seq(Input) /\ Len(inputs) \in Nat /\ DOMAIN inputs = 1..Len(inputs)
  BY LenProperties DEF Transaction
<1>2. CASE StatusOf(s, transaction) # "Success"
  <2>1. OutputWrites(s, transaction) = << >> /\ Len(<< >>) = 0
    BY <1>2 DEF OutputWrites
  <2>2. << >> \in Seq(WritesOfVersion(NextVersion(s, transaction)))
    BY EmptySeq
  <2> QED
    BY <1>1, <1>2, <2>1, <2>2
<1>3. CASE StatusOf(s, transaction) = "Success"
  <2> DEFINE w == Writes(s, transaction)
             v == NextVersion(s, transaction)
  <2>1. OutputWrites(s, transaction) = w
    BY <1>3 DEF OutputWrites
  <2>2. Verify(transaction)
    BY <1>3 DEF StatusOf
  <2>3. Collected(w, transaction, Len(inputs), v)
    BY WritesAreCollected
  <2> HIDE DEF w, v
  <2>4. \A id \in ObjectIds :
            (\E i \in 1..Len(w) : w[i].id = id) <=>
                \E input \in Inputs(transaction) : input.mode # "ReadOnly" /\ input.id = id
    <3> TAKE id \in ObjectIds
    <3>1. (\E i \in 1..Len(w) : w[i].id = id) <=> Declares(inputs, Len(inputs), id)
      BY <2>3 DEF Collected
    <3>2. Declares(inputs, Len(inputs), id) <=>
              \E input \in Inputs(transaction) : input.mode # "ReadOnly" /\ input.id = id
      BY <1>1 DEF Declares, Inputs, Range
    <3> QED
      BY <3>1, <3>2
  <2> QED
    BY <1>3, <2>1, <2>2, <2>3, <2>4 DEF Collected, v
<1> QED
  BY <1>2, <1>3

(***************************************************************************)
(* With fresh ids no assertion of InMemoryStore::apply fails               *)
(* (store.rs:45-67).                                                       *)
(***************************************************************************)
LEMMA FreshIdsMoveForward ==
    ASSUME NEW s, StoreOK(s), NEW transaction \in Transaction, CreatesFreshIds(s, transaction)
    PROVE  VersionsMoveForward(s, OutputWrites(s, transaction))
<1> DEFINE w == OutputWrites(s, transaction)
           v == NextVersion(s, transaction)
<1>1. /\ w \in Seq(WritesOfVersion(v))
      /\ \A i, j \in 1..Len(w) : w[i].id = w[j].id => i = j
      /\ StatusOf(s, transaction) # "Success" => w = << >>
      /\ StatusOf(s, transaction) = "Success" =>
             \A id \in ObjectIds :
                 (\E i \in 1..Len(w) : w[i].id = id) <=>
                     \E input \in Inputs(transaction) : input.mode # "ReadOnly" /\ input.id = id
  BY OutputProperties
<1>2. /\ v \in 1..(Len(s.commitment) + 1)
      /\ \A input \in Inputs(transaction) : input.mode # "WriteOnly" => s.latest[input.id] < v
  BY NextVersionExceedsReads
<1>3. \A input \in Inputs(transaction) : s.latest[input.id] < v
  <2> TAKE input \in Inputs(transaction)
  <2>1. CASE input.mode = "WriteOnly"
    <3>1. s.latest[input.id] = 0
      BY <2>1 DEF CreatesFreshIds
    <3>2. Len(s.commitment) \in Nat
      BY LenProperties DEF StoreOK, Stores
    <3> HIDE DEF v
    <3> QED
      BY <1>2, <3>1, <3>2
  <2> QED
    BY <1>2, <2>1
<1> HIDE DEF w, v
<1>4. Len(w) \in Nat /\ DOMAIN w = 1..Len(w)
      /\ \A i \in 1..Len(w) : w[i] \in WritesOfVersion(v)
  BY <1>1, LenProperties, ElementOfSeq
<1>5. ASSUME NEW i \in 1..Len(w)
      PROVE  /\ s.latest[w[i].id] < w[i].version
             /\ \A j \in 1..(i - 1) : w[j].id # w[i].id
  <2>1. w[i].id \in ObjectIds /\ w[i].version = v
    BY <1>4 DEF WritesOfVersion
  <2>2. StatusOf(s, transaction) = "Success"
    BY <1>1, <1>4
  <2>3. PICK input \in Inputs(transaction) : input.id = w[i].id
    BY <1>1, <2>1, <2>2
  <2>4. \A j \in 1..(i - 1) : j \in 1..Len(w) /\ j # i
    BY <1>4
  <2> QED
    BY <1>1, <1>3, <2>1, <2>3, <2>4
<1> QED
  BY <1>4, <1>5 DEF VersionsMoveForward, w

\* What an output writes: one version, each object once.
OneWriteEach(w, v) ==
    /\ w \in Seq(WritesOfVersion(v))
    /\ \A i, j \in 1..Len(w) : w[i].id = w[j].id => i = j

(***************************************************************************)
(* The fields of the store after it applied writes that move forward:      *)
(* every written object has the version of the writes as its latest one,   *)
(* every other one keeps its own (store.rs:45-67).                         *)
(***************************************************************************)
LEMMA ApplyFields ==
    ASSUME NEW s, StoreOK(s), NEW w, NEW v \in Version, OneWriteEach(w, v),
           VersionsMoveForward(s, w)
    PROVE  LET after == Apply(s, w)
               n == Len(s.commitment)
           IN  /\ n \in Nat /\ Len(w) \in Nat
               /\ after \in Stores
               /\ after.objects = s.objects \cup Range(w)
               /\ Len(after.commitment) = n + Len(w)
               /\ \A i \in 1..n : after.commitment[i] = s.commitment[i]
               /\ \A i \in 1..Len(w) : /\ after.commitment[n + i] = w[i]
                                       /\ w[i].id \in ObjectIds /\ w[i].version = v
                                       /\ after.latest[w[i].id] = v
                                       /\ s.latest[w[i].id] < v
               /\ \A id \in ObjectIds : (\A i \in 1..Len(w) : w[i].id # id) =>
                                            after.latest[id] = s.latest[id]
<1> DEFINE after == Apply(s, w)
           n == Len(s.commitment)
<1>1. /\ s.commitment \in Seq(Object) /\ n \in Nat
      /\ s.objects \in SUBSET Object /\ s.latest \in [ObjectIds -> Version]
  BY LenProperties DEF StoreOK, Stores
<1>2. /\ w \in Seq(WritesOfVersion(v)) /\ Len(w) \in Nat /\ DOMAIN w = 1..Len(w)
      /\ \A i \in 1..Len(w) : w[i] \in WritesOfVersion(v)
      /\ \A i, j \in 1..Len(w) : w[i].id = w[j].id => i = j
  BY LenProperties, ElementOfSeq DEF OneWriteEach
<1>3. \A i \in 1..Len(w) : /\ w[i] \in Object /\ w[i].id \in ObjectIds /\ w[i].version = v
                           /\ s.latest[w[i].id] < v
  BY <1>2 DEF WritesOfVersion, Object, VersionsMoveForward
<1>4. w \in Seq(Object)
  BY <1>2, <1>3
<1>5. /\ s.commitment \o w \in Seq(Object)
      /\ Len(s.commitment \o w) = n + Len(w)
      /\ \A i \in 1..n : (s.commitment \o w)[i] = s.commitment[i]
      /\ \A i \in 1..Len(w) : (s.commitment \o w)[n + i] = w[i]
  <2> DEFINE c == s.commitment \o w
             m == Len(w)
  <2>1. /\ c \in Seq(Object)
        /\ Len(c) = n + m
        /\ \A i \in 1..(n + m) : c[i] = IF i <= n THEN s.commitment[i] ELSE w[i - n]
    BY <1>1, <1>4, ConcatProperties
  <2> HIDE DEF n, c, m
  <2>2. n \in Nat /\ m \in Nat
    BY <1>1, <1>2 DEF n, m
  <2>3. \A i \in 1..n : c[i] = s.commitment[i]
    <3> TAKE i \in 1..n
    <3>1. i \in 1..(n + m) /\ i <= n
      BY <2>2
    <3> QED
      BY <2>1, <3>1
  <2>4. \A i \in 1..m : c[n + i] = w[i]
    <3> TAKE i \in 1..m
    <3>1. n + i \in 1..(n + m) /\ ~(n + i <= n) /\ (n + i) - n = i
      BY <2>2
    <3>2. PICK k \in 1..(n + m) : k = n + i
      BY <3>1
    <3>3. ~(k <= n) /\ k - n = i
      BY <3>1, <3>2
    <3>4. c[k] = w[k - n]
      BY <2>1, <3>3
    <3> QED
      BY <3>2, <3>3, <3>4
  <2> QED
    BY <2>1, <2>3, <2>4 DEF c, m
<1>6. \A i \in 1..Len(w) : (CHOOSE x \in Range(w) : x.id = w[i].id) = w[i]
  <2> TAKE i \in 1..Len(w)
  <2>1. w[i] \in Range(w)
    BY <1>2 DEF Range
  <2>2. \A x \in Range(w) : x.id = w[i].id => x = w[i]
    BY <1>2 DEF Range
  <2> QED
    BY <2>1, <2>2
<1>7. \A i \in 1..Len(w) : after.latest[w[i].id] = v
  <2> TAKE i \in 1..Len(w)
  <2>1. after.latest[w[i].id] = (CHOOSE x \in Range(w) : x.id = w[i].id).version
    BY <1>2, <1>3 DEF Apply
  <2> QED
    BY <1>3, <1>6, <2>1
<1>8. \A id \in ObjectIds : (\A i \in 1..Len(w) : w[i].id # id) => after.latest[id] = s.latest[id]
  BY <1>2 DEF Apply
<1>9. after.objects = s.objects \cup Range(w) /\ after.commitment = s.commitment \o w
  BY DEF Apply
<1>10. after.latest \in [ObjectIds -> Version]
  <2>1. \A id \in ObjectIds : after.latest[id] \in Version
    <3> TAKE id \in ObjectIds
    <3>1. CASE \E i \in 1..Len(w) : w[i].id = id
      BY <1>7, <3>1
    <3>2. CASE \A i \in 1..Len(w) : w[i].id # id
      BY <1>1, <1>8, <3>2
    <3> QED
      BY <3>1, <3>2
  <2>2. after.latest = [id \in ObjectIds |-> after.latest[id]]
    BY DEF Apply
  <2> HIDE DEF after
  <2> QED
    BY <2>1, <2>2
<1>11. Range(w) \subseteq Object
  BY <1>2, <1>3 DEF Range
<1>12. after \in Stores
  <2>1. after = [objects |-> after.objects, latest |-> after.latest, commitment |-> after.commitment]
    BY DEF Apply
  <2> HIDE DEF after
  <2> QED
    BY <1>1, <1>5, <1>9, <1>10, <1>11, <2>1 DEF Stores
<1> HIDE DEF after
<1> QED
  BY <1>1, <1>2, <1>3, <1>5, <1>7, <1>8, <1>9, <1>12 DEF after

(***************************************************************************)
(* The store keeps its invariant when it applies the writes of an output:  *)
(* the history stays free of repetitions because each write is above every *)
(* earlier version of its object (store.rs:45-67).                         *)
(***************************************************************************)
LEMMA ApplyOK ==
    ASSUME NEW s, StoreOK(s), NEW w, NEW v \in Version, OneWriteEach(w, v),
           VersionsMoveForward(s, w), Len(s.commitment) + Len(w) <= MaxWrites,
           w # << >> => v \in 1..(Len(s.commitment) + 1)
    PROVE  StoreOK(Apply(s, w))
<1> DEFINE after == Apply(s, w)
           n == Len(s.commitment)
           m == Len(w)
           c == after.commitment
<1>1. /\ n \in Nat /\ m \in Nat
      /\ after \in Stores
      /\ after.objects = s.objects \cup Range(w)
      /\ Len(c) = n + m
      /\ \A i \in 1..n : c[i] = s.commitment[i]
      /\ \A i \in 1..m : /\ c[n + i] = w[i]
                         /\ w[i].id \in ObjectIds /\ w[i].version = v
                         /\ after.latest[w[i].id] = v
                         /\ s.latest[w[i].id] < v
      /\ \A id \in ObjectIds : (\A i \in 1..m : w[i].id # id) => after.latest[id] = s.latest[id]
  BY ApplyFields
<1>2. /\ \A i, j \in 1..m : w[i].id = w[j].id => i = j
      /\ DOMAIN w = 1..m
  BY LenProperties DEF OneWriteEach
<1>3. /\ n + m <= MaxWrites /\ n <= MaxWrites /\ MaxWrites \in Nat
      /\ s.objects = Range(s.commitment)
      /\ \A i, j \in 1..n : s.commitment[i] = s.commitment[j] => i = j
      /\ \A id \in ObjectIds : s.latest[id] <= n
      /\ \A i \in 1..n : /\ s.commitment[i].version >= 1
                         /\ s.commitment[i].version <= s.latest[s.commitment[i].id]
  BY ExecutionAssumption DEF StoreOK
<1>4. /\ DOMAIN s.commitment = 1..n /\ DOMAIN c = 1..(n + m)
      /\ \A i \in 1..n : s.commitment[i].id \in ObjectIds /\ s.commitment[i].version \in Nat
      /\ \A id \in ObjectIds : s.latest[id] \in Nat
  <2>1. s.commitment \in Seq(Object) /\ c \in Seq(Object) /\ s.latest \in [ObjectIds -> Version]
    BY <1>1 DEF StoreOK, Stores
  <2>2. DOMAIN s.commitment = 1..n /\ DOMAIN c = 1..Len(c)
    BY <2>1, LenProperties
  <2>3. Version \subseteq Nat
    BY <1>3 DEF Version
  <2>4. \A i \in 1..n : s.commitment[i] \in Object
    BY <2>1, ElementOfSeq
  <2> HIDE DEF after, n, m, c
  <2> QED
    BY <1>1, <2>1, <2>2, <2>3, <2>4 DEF Object
<1>5. v \in Nat /\ (m > 0 => v >= 1 /\ v <= n + 1)
  <2>1. m > 0 => w # << >>
    BY <1>2
  <2>2. Version \subseteq Nat
    BY <1>3 DEF Version
  <2> HIDE DEF m, n
  <2>3. w # << >> => v \in 1..(n + 1)
    BY DEF n
  <2> QED
    BY <1>1, <2>1, <2>2, <2>3
<1>6. StoreOK(after) <=>
          /\ after \in Stores
          /\ Len(c) <= MaxWrites
          /\ after.objects = Range(c)
          /\ \A i, j \in 1..Len(c) : c[i] = c[j] => i = j
          /\ LatestIsLastWrite(after)
          /\ \A id \in ObjectIds : after.latest[id] <= Len(c)
          /\ \A i \in 1..Len(c) : /\ c[i].version >= 1
                                  /\ c[i].version <= after.latest[c[i].id]
  BY DEF StoreOK
<1>7. LatestIsLastWrite(after) <=>
          \A id \in ObjectIds :
              after.latest[id] = IF WritesTo(c, id) = {} THEN 0 ELSE c[Max(WritesTo(c, id))].version
  BY DEF LatestIsLastWrite
<1>8. \A id \in ObjectIds : s.latest[id] = IF WritesTo(s.commitment, id) = {} THEN 0
                                           ELSE s.commitment[Max(WritesTo(s.commitment, id))].version
  BY DEF StoreOK, LatestIsLastWrite
<1> HIDE DEF after, n, m, c
<1>9. \A i \in 1..(n + m) : i \in 1..n \/ \E k \in 1..m : i = n + k
  <2> TAKE i \in 1..(n + m)
  <2>1. CASE i <= n
    BY <1>1, <2>1
  <2>2. CASE ~(i <= n)
    <3>1. i - n \in 1..m /\ i = n + (i - n)
      BY <1>1, <2>2
    <3> QED
      BY <3>1
  <2> QED
    BY <2>1, <2>2
<1>10. \A k \in 1..m : n + k \in 1..(n + m) /\ n + k > n
  BY <1>1
<1>11. 1..n \subseteq 1..(n + m)
  BY <1>1
<1>12. after.objects = Range(c)
  <2>1. Range(c) = {c[i] : i \in 1..(n + m)} /\ Range(w) = {w[k] : k \in 1..m}
        /\ Range(s.commitment) = {s.commitment[i] : i \in 1..n}
    BY <1>2, <1>4 DEF Range
  <2>2. \A i \in 1..(n + m) : c[i] \in Range(s.commitment) \cup Range(w)
    <3> TAKE i \in 1..(n + m)
    <3>1. CASE i \in 1..n
      <4>1. c[i] = s.commitment[i]
        BY <1>1, <3>1
      <4> QED
        BY <2>1, <3>1, <4>1
    <3>2. CASE \E k \in 1..m : i = n + k
      <4>1. PICK k \in 1..m : i = n + k
        BY <3>2
      <4>2. c[i] = w[k]
        BY <1>1, <4>1
      <4> QED
        BY <2>1, <4>2
    <3> QED
      BY <1>9, <3>1, <3>2
  <2>3. \A i \in 1..n : s.commitment[i] \in Range(c)
    BY <1>1, <1>11, <2>1
  <2>4. \A k \in 1..m : w[k] \in Range(c)
    BY <1>1, <1>10, <2>1
  <2>5. Range(s.commitment) \cup Range(w) = Range(c)
    BY <2>1, <2>2, <2>3, <2>4
  <2>6. after.objects = Range(s.commitment) \cup Range(w)
    BY <1>1, <1>3
  <2> QED
    BY <2>5, <2>6
\* A write is above every earlier version of its object.
<1>13. \A i \in 1..n, k \in 1..m : c[i] # c[n + k]
  <2> TAKE i \in 1..n, k \in 1..m
  <2>1. /\ c[i] = s.commitment[i] /\ c[n + k] = w[k] /\ w[k].version = v
        /\ s.latest[w[k].id] < v /\ s.latest[w[k].id] \in Nat
    BY <1>1, <1>4
  <2>2. s.commitment[i].version <= s.latest[s.commitment[i].id]
        /\ s.commitment[i].version \in Nat
    BY <1>3, <1>4
  <2>3. CASE s.commitment[i] = w[k]
    <3>1. v <= s.latest[w[k].id]
      BY <2>1, <2>2, <2>3
    <3> QED
      BY <1>5, <2>1, <3>1
  <2> QED
    BY <2>1, <2>3
<1>14. \A i, j \in 1..(n + m) : c[i] = c[j] => i = j
  <2> SUFFICES ASSUME NEW i \in 1..(n + m), NEW j \in 1..(n + m), c[i] = c[j]
               PROVE  i = j
    OBVIOUS
  <2>1. CASE i \in 1..n /\ j \in 1..n
    BY <1>1, <1>3, <2>1
  <2>2. CASE \E k, l \in 1..m : i = n + k /\ j = n + l
    <3>1. PICK k \in 1..m, l \in 1..m : i = n + k /\ j = n + l
      BY <2>2
    <3>2. c[n + k] = w[k] /\ c[n + l] = w[l]
      BY <1>1
    <3>3. w[k] = w[l]
      BY <3>1, <3>2
    <3> QED
      BY <1>2, <3>1, <3>3
  <2> QED
    BY <1>9, <1>13, <2>1, <2>2
<1>15. ASSUME NEW k \in 1..m
       PROVE  LET id == w[k].id
              IN  WritesTo(c, id) # {} /\ Max(WritesTo(c, id)) = n + k
  <2> DEFINE W == WritesTo(c, w[k].id)
  <2>1. W = {i \in 1..(n + m) : c[i].id = w[k].id}
    BY <1>4 DEF WritesTo
  <2>2. n + k \in W
    BY <1>1, <1>10, <2>1
  <2>3. \A i \in W : i <= n + k
    <3> TAKE i \in W
    <3>1. CASE i \in 1..n
      BY <1>1, <3>1
    <3>2. CASE \E l \in 1..m : i = n + l
      <4>1. PICK l \in 1..m : i = n + l
        BY <3>2
      <4>2. c[n + l] = w[l] /\ c[n + l].id = w[k].id
        BY <1>1, <2>1, <4>1
      <4>3. l = k
        BY <1>2, <4>2
      <4> QED
        BY <1>1, <4>1, <4>3
    <3> QED
      BY <1>9, <2>1, <3>1, <3>2
  <2>4. W \in SUBSET (0..(n + m))
    BY <1>1, <2>1
  <2> HIDE DEF W
  <2>5. n + m \in Nat /\ W # {}
    BY <1>1, <2>2
  <2>6. Max(W) \in W /\ \A i \in W : i <= Max(W)
    BY <2>4, <2>5, MaxOfNaturals
  <2>7. Max(W) \in 0..(n + m)
    BY <2>4, <2>6
  <2>8. Max(W) <= n + k /\ n + k <= Max(W)
    BY <2>2, <2>3, <2>6
  <2>9. Max(W) = n + k
    <3>1. PICK x \in 0..(n + m) : x = Max(W)
      BY <2>7
    <3>2. x <= n + k /\ n + k <= x /\ n \in Nat /\ k \in Nat /\ x \in Nat
      BY <1>1, <2>8, <3>1
    <3>3. x = n + k
      BY ONLY <3>2
    <3> QED
      BY <3>1, <3>3
  <2> QED
    BY <2>5, <2>9 DEF W
<1>16. ASSUME NEW id \in ObjectIds, \A i \in 1..m : w[i].id # id
       PROVE  /\ WritesTo(c, id) = WritesTo(s.commitment, id)
              /\ WritesTo(c, id) # {} => Max(WritesTo(c, id)) \in 1..n
  <2> DEFINE W == WritesTo(s.commitment, id)
  <2>1. W = {i \in 1..n : s.commitment[i].id = id}
        /\ WritesTo(c, id) = {i \in 1..(n + m) : c[i].id = id}
    BY <1>4 DEF WritesTo
  <2>2. \A i \in 1..(n + m) : c[i].id = id => i \in 1..n
    <3> SUFFICES ASSUME NEW i \in 1..(n + m), c[i].id = id, i \notin 1..n
                 PROVE  FALSE
      OBVIOUS
    <3>1. PICK k \in 1..m : i = n + k
      BY <1>9
    <3>2. c[i] = w[k] /\ w[k].id # id
      BY <1>1, <1>16, <3>1
    <3> QED
      BY <3>2
  <2>3. WritesTo(c, id) = W
    BY <1>1, <1>11, <2>1, <2>2
  <2>4. W \in SUBSET (0..n) /\ W \subseteq 1..n
    BY <1>1, <2>1
  <2> HIDE DEF W
  <2>5. W # {} => Max(W) \in W
    BY <1>1, <2>4, MaxOfNaturals
  <2> QED
    BY <2>3, <2>4, <2>5 DEF W
<1>17. LatestIsLastWrite(after)
  <2> SUFFICES ASSUME NEW id \in ObjectIds
               PROVE  after.latest[id] =
                          IF WritesTo(c, id) = {} THEN 0 ELSE c[Max(WritesTo(c, id))].version
    BY <1>7
  <2>1. CASE \E k \in 1..m : w[k].id = id
    <3>1. PICK k \in 1..m : w[k].id = id
      BY <2>1
    <3>2. WritesTo(c, id) # {} /\ Max(WritesTo(c, id)) = n + k
      BY <1>15, <3>1
    <3>3. after.latest[id] = v /\ c[n + k].version = v
      BY <1>1, <3>1
    <3> QED
      BY <3>2, <3>3
  <2>2. CASE \A k \in 1..m : w[k].id # id
    <3>1. after.latest[id] = s.latest[id]
      BY <1>1, <2>2
    <3>2. WritesTo(c, id) = WritesTo(s.commitment, id)
          /\ (WritesTo(c, id) # {} => Max(WritesTo(c, id)) \in 1..n)
      BY <1>16, <2>2
    <3> QED
      BY <1>1, <1>8, <3>1, <3>2
  <2> QED
    BY <2>1, <2>2
<1>18. ASSUME NEW id \in ObjectIds
       PROVE  after.latest[id] <= n + m
  <2>1. CASE \E k \in 1..m : w[k].id = id
    <3>1. after.latest[id] = v /\ m > 0
      BY <1>1, <2>1
    <3> QED
      BY <1>1, <1>5, <3>1
  <2>2. CASE \A k \in 1..m : w[k].id # id
    <3>1. after.latest[id] = s.latest[id]
      BY <1>1, <2>2
    <3>2. s.latest[id] <= n /\ s.latest[id] \in Nat
      BY <1>3, <1>4
    <3> QED
      BY <1>1, <3>1, <3>2
  <2> QED
    BY <2>1, <2>2
<1>19. ASSUME NEW i \in 1..(n + m)
       PROVE  c[i].version >= 1 /\ c[i].version <= after.latest[c[i].id]
  <2>1. CASE i \in 1..n
    <3> DEFINE id == s.commitment[i].id
               x == s.commitment[i].version
    <3>1. c[i] = s.commitment[i] /\ id \in ObjectIds
      BY <1>1, <1>4, <2>1
    <3>2. x >= 1 /\ x <= s.latest[id] /\ x \in Nat /\ s.latest[id] \in Nat
      BY <1>3, <1>4, <2>1
    <3>3. CASE \E k \in 1..m : w[k].id = id
      <4>1. after.latest[id] = v /\ s.latest[id] < v
        BY <1>1, <3>3
      <4>2. x <= v
        <5> HIDE DEF x, id
        <5> QED
          BY <1>5, <3>2, <4>1
      <4> QED
        BY <3>1, <3>2, <4>1, <4>2
    <3>4. CASE \A k \in 1..m : w[k].id # id
      <4>1. after.latest[id] = s.latest[id]
        BY <1>1, <3>1, <3>4
      <4> QED
        BY <3>1, <3>2, <4>1
    <3> QED
      BY <3>3, <3>4
  <2>2. CASE \E k \in 1..m : i = n + k
    <3>1. PICK k \in 1..m : i = n + k
      BY <2>2
    <3>2. c[i].version = v /\ after.latest[c[i].id] = v /\ m > 0
      BY <1>1, <3>1, SMTT(40)
    <3> QED
      BY <1>5, <3>2
  <2> QED
    BY <1>9, <2>1, <2>2
<1>20. StoreOK(after)
  BY <1>1, <1>3, <1>6, <1>12, <1>14, <1>17, <1>18, <1>19
<1> QED
  BY <1>20 DEF after

(***************************************************************************)
(* None of the writes was in the store (store.rs:45-67).                   *)
(***************************************************************************)
LEMMA ApplyAddsWrites ==
    ASSUME NEW s, StoreOK(s), NEW w, NEW v \in Version, OneWriteEach(w, v),
           VersionsMoveForward(s, w), StoreOK(Apply(s, w))
    PROVE  Apply(s, w).objects \ s.objects = Range(w)
<1> DEFINE after == Apply(s, w)
           n == Len(s.commitment)
           c == after.commitment
<1>1. /\ n \in Nat /\ Len(w) \in Nat
      /\ after.objects = s.objects \cup Range(w)
      /\ Len(c) = n + Len(w)
      /\ \A i \in 1..n : c[i] = s.commitment[i]
      /\ \A i \in 1..Len(w) : c[n + i] = w[i]
  BY ApplyFields
<1>2. \A i, j \in 1..Len(c) : c[i] = c[j] => i = j
  BY DEF StoreOK
<1>3. Range(w) = {w[i] : i \in 1..Len(w)}
  BY LenProperties DEF Range, OneWriteEach
<1>4. s.objects = {s.commitment[i] : i \in 1..n}
  BY LenProperties DEF Range, StoreOK, Stores
<1> HIDE DEF after, n, c
<1>5. \A i \in 1..n, k \in 1..Len(w) : s.commitment[i] # w[k]
  <2> TAKE i \in 1..n, k \in 1..Len(w)
  <2>1. i \in 1..Len(c) /\ n + k \in 1..Len(c) /\ i # n + k
    BY <1>1
  <2>2. c[i] # c[n + k]
    BY <1>2, <2>1
  <2> QED
    BY <1>1, <2>2
<1>6. Range(w) \cap s.objects = {}
  BY <1>3, <1>4, <1>5
<1>7. after.objects \ s.objects = Range(w)
  BY <1>1, <1>6
<1> QED
  BY <1>7 DEF after

(***************************************************************************)
(* An output's writes satisfy what the two lemmas above assume, when the   *)
(* history has room for them (scheduler.rs:27-45).                         *)
(***************************************************************************)
LEMMA OutputFits ==
    ASSUME NEW s, StoreOK(s), NEW transaction \in Transaction,
           Len(s.commitment) + Len(OutputWrites(s, transaction)) <= MaxWrites
    PROVE  LET w == OutputWrites(s, transaction)
               n == Len(s.commitment)
           IN  \E v \in Version :
                      /\ OneWriteEach(w, v)
                      /\ w # << >> => v \in 1..(n + 1) /\ v = NextVersion(s, transaction)
<1> DEFINE w == OutputWrites(s, transaction)
           n == Len(s.commitment)
           next == NextVersion(s, transaction)
<1>1. /\ w \in Seq(WritesOfVersion(next))
      /\ \A i, j \in 1..Len(w) : w[i].id = w[j].id => i = j
  BY OutputProperties
<1>2. next \in 1..(n + 1)
  BY NextVersionExceedsReads
<1>3. /\ n \in Nat /\ Len(w) \in Nat
      /\ MaxWrites \in Nat /\ n + Len(w) <= MaxWrites
  BY <1>1, LenProperties, ExecutionAssumption DEF StoreOK, Stores
<1>4. w # << >> => Len(w) > 0
  BY <1>1, <1>3, EmptySeq
<1> HIDE DEF w, n, next
<1>6. CASE w = << >>
  <2>1. 0 \in Version
    BY <1>3 DEF Version
  <2>2. OneWriteEach(<< >>, 0)
    <3>1. << >> \in Seq(WritesOfVersion(0)) /\ Len(<< >>) = 0
      BY EmptySeq
    <3>2. \A i \in 1..Len(<< >>) : FALSE
      BY <3>1
    <3> QED
      BY <3>1, <3>2 DEF OneWriteEach
  <2> QED
    BY <1>6, <2>1, <2>2 DEF w, n
<1>7. CASE w # << >>
  <2>1. next \in Version
    BY <1>1, <1>2, <1>3, <1>4, <1>7 DEF Version
  <2>2. OneWriteEach(w, next)
    BY <1>1 DEF OneWriteEach
  <2> QED
    BY <1>2, <2>1, <2>2 DEF w, n, next
<1> QED
  BY <1>6, <1>7

(***************************************************************************)
(* They fit when the inputs do: an input is written once at most           *)
(* (scheduler.rs:27-45).                                                   *)
(***************************************************************************)
LEMMA OutputIsApplicable ==
    ASSUME NEW s, StoreOK(s), NEW transaction \in Transaction,
           Len(s.commitment) + Len(transaction.inputs) <= MaxWrites
    PROVE  LET w == OutputWrites(s, transaction)
               n == Len(s.commitment)
           IN  /\ n + Len(w) <= MaxWrites
               /\ \E v \in Version :
                      /\ OneWriteEach(w, v)
                      /\ w # << >> => v \in 1..(n + 1) /\ v = NextVersion(s, transaction)
<1> DEFINE w == OutputWrites(s, transaction)
           n == Len(s.commitment)
           m == Len(transaction.inputs)
<1>1. w \in Seq(WritesOfVersion(NextVersion(s, transaction))) /\ Len(w) <= m
  BY OutputProperties
<1>2. /\ n \in Nat /\ m \in Nat /\ Len(w) \in Nat
      /\ MaxWrites \in Nat /\ n + m <= MaxWrites
  BY <1>1, LenProperties, ExecutionAssumption DEF StoreOK, Stores, Transaction
<1>3. n + Len(w) <= MaxWrites
  <2> HIDE DEF w, n, m
  <2> QED
    BY <1>1, <1>2
<1> QED
  BY <1>3, OutputFits
=============================================================================
