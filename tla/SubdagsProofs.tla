---------------------------- MODULE SubdagsProofs ----------------------------
(***************************************************************************)
(* Proofs about Subdags: what a sub-dag holds does not depend on the order *)
(* its blocks came in, so the two copies stay one state, which is well     *)
(* formed; a stamp is the mean of the stamps of its own transactions; and  *)
(* executing sub-dags implements Ledger, the view that Committee and       *)
(* Handle have of it. For every committee, set of objects, shape of        *)
(* sub-dags and set of submissions.                                        *)
(***************************************************************************)
EXTENDS Subdags, OperatorProofs

\* What the payloads of a block encode, and a payload with the author of its block.
Attestation == [timestamp_ms : Stamps, payload : {"Attest"}, checkpoint : Checkpoint]
Payload == [envelope : ExecuteEnvelope \cup Attestation \cup {None}, size : Nat]
Block == [place : Nat, author : Authorities, payloads : Seq(Payload)]

Attributed == [author : Authorities, envelope : ExecuteEnvelope \cup Attestation \cup {None}]
OneOf(kind) == {d \in Attributed : d.envelope # None /\ d.envelope.payload = kind}

\* One step of each of the folds of Subdags.
Keep(kind, kept, d) ==
    IF d.envelope # None /\ d.envelope.payload = kind THEN Append(kept, d) ELSE kept
AddStamp(sum, d) == sum + d.envelope.timestamp_ms
ExecuteOne(s, d) == Apply(s, OutputWrites(s, d.envelope.transaction))
RecordOne(n, c, d) == Record(c, n, d.author, d.envelope.checkpoint)

(***************************************************************************)
(* A payload of a kind holds an envelope of that kind, with its fields     *)
(* (envelope.rs:22-43).                                                    *)
(***************************************************************************)
LEMMA KindsOfEnvelopes ==
    /\ \A d \in OneOf("Execute") : d.author \in Authorities /\ d.envelope \in ExecuteEnvelope
    /\ \A d \in OneOf("Attest") : d.author \in Authorities /\ d.envelope \in Attestation
  BY DEF OneOf, Attributed, ExecuteEnvelope, Attestation

(***************************************************************************)
(* Finitely many naturals have a bound.                                    *)
(***************************************************************************)
LEMMA FiniteRangeIsBounded ==
    ASSUME NEW m \in Nat, NEW f \in [1..m -> Nat]
    PROVE  \E b \in Nat : \A i \in 1..m : f[i] <= b
<1> DEFINE T == {k \in 0..m : \E b \in Nat : \A i \in 1..k : f[i] <= b}
<1>1. 0 \in T
  <2>1. \A i \in 1..0 : f[i] <= 0
    OBVIOUS
  <2> QED
    BY <2>1
<1>2. ASSUME NEW k \in 1..m, k - 1 \in T PROVE k \in T
  <2>1. PICK b \in Nat : \A i \in 1..(k - 1) : f[i] <= b
    BY <1>2
  <2>2. f[k] \in Nat
    OBVIOUS
  <2> DEFINE c == b + f[k]
  <2>3. c \in Nat /\ b <= c /\ f[k] <= c
    BY <2>2
  <2> HIDE DEF c
  <2>4. ASSUME NEW i \in 1..k PROVE f[i] <= c
    <3>1. f[i] \in Nat
      OBVIOUS
    <3>2. i # k => i \in 1..(k - 1)
      OBVIOUS
    <3> QED
      BY <2>1, <2>3, <3>1, <3>2
  <2>5. \E a \in Nat : \A i \in 1..k : f[i] <= a
    BY <2>3, <2>4
  <2> QED
    BY <2>5
<1>3. 0..m \subseteq T
  <2> HIDE DEF T
  <2> QED
    BY <1>1, <1>2, IntervalInduction
<1>4. m \in T
  <2> HIDE DEF T
  <2> QED
    BY <1>3
<1> QED
  BY <1>4
-----------------------------------------------------------------------------
(***************************************************************************)
(* Executing a call, without a bound on the versions.                      *)
(***************************************************************************)
AnyObject == [id : ObjectIds, version : Nat]
AnyStores ==
    [objects : SUBSET AnyObject, latest : [ObjectIds -> Nat], commitment : Seq(AnyObject)]

(***************************************************************************)
(* The version of a transaction's writes is a number (transaction.rs:88).  *)
(***************************************************************************)
LEMMA NextVersionIsNatural ==
    ASSUME NEW s \in AnyStores, NEW transaction \in Transaction
    PROVE  NextVersion(s, transaction) \in Nat
<1> DEFINE inputs == transaction.inputs
           m == Len(inputs)
           f == [i \in 1..m |-> s.latest[inputs[i].id]]
           versions == {0} \cup {s.latest[input.id] : input \in Reads(transaction)}
<1>1. /\ m \in Nat /\ DOMAIN inputs = 1..m
      /\ \A i \in 1..m : inputs[i] \in Input
  BY LenProperties, ElementOfSeq DEF Transaction
<1>2. s.latest \in [ObjectIds -> Nat]
  BY DEF AnyStores
<1>3. f \in [1..m -> Nat]
  BY <1>1, <1>2 DEF Input
<1>4. PICK b \in Nat : \A i \in 1..m : f[i] <= b
  <2> HIDE DEF f, m
  <2> QED
    BY <1>1, <1>3, FiniteRangeIsBounded
<1>5. \A input \in Reads(transaction) : s.latest[input.id] \in 0..b
  <2> TAKE input \in Reads(transaction)
  <2>1. PICK i \in 1..m : inputs[i] = input
    BY <1>1 DEF Reads, Inputs, Range
  <2>2. f[i] = s.latest[input.id] /\ f[i] \in Nat /\ f[i] <= b
    BY <1>3, <1>4, <2>1
  <2> QED
    BY <2>2
<1>6. versions \in SUBSET (0..b) /\ versions # {}
  BY <1>5
<1>7. Max(versions) \in 0..b
  <2> HIDE DEF versions
  <2> QED
    BY <1>6, MaxOfNaturals
<1> QED
  BY <1>7 DEF NextVersion

(***************************************************************************)
(* Executing a call yields a store (scheduler.rs:25-45).                   *)
(***************************************************************************)
LEMMA ExecuteOneType ==
    ASSUME NEW s \in AnyStores, NEW d \in OneOf("Execute")
    PROVE  ExecuteOne(s, d) \in AnyStores
<1> DEFINE transaction == d.envelope.transaction
           v == NextVersion(s, transaction)
           w == OutputWrites(s, transaction)
<1>1. transaction \in Transaction
  BY KindsOfEnvelopes DEF ExecuteEnvelope
<1>2. v \in Nat
  <2> HIDE DEF transaction
  <2> QED
    BY <1>1, NextVersionIsNatural
<1>3. w \in Seq(WritesOfVersion(v))
  <2>1. Writes(s, transaction) \in Seq(WritesOfVersion(v))
    <3> HIDE DEF transaction
    <3> QED
      BY <1>1, WritesAreCollected DEF Collected
  <2> QED
    BY <2>1, EmptySeq DEF OutputWrites
<1>4. /\ s.objects \in SUBSET AnyObject /\ s.latest \in [ObjectIds -> Nat]
      /\ s.commitment \in Seq(AnyObject)
  BY DEF AnyStores
<1>5. WritesOfVersion(v) \subseteq AnyObject
  BY <1>2 DEF WritesOfVersion, AnyObject
<1>6. Range(w) \subseteq WritesOfVersion(v) /\ DOMAIN w = 1..Len(w)
  BY <1>3, LenProperties, ElementOfSeq DEF Range
<1>7. w \in Seq(AnyObject)
  BY <1>3, <1>5, LenProperties, ElementOfSeq
<1> HIDE DEF w, v
<1>8. s.commitment \o w \in Seq(AnyObject)
  BY <1>4, <1>7
<1>9. s.objects \cup Range(w) \in SUBSET AnyObject
  BY <1>4, <1>5, <1>6
<1>10. ASSUME NEW id \in ObjectIds, \E i \in DOMAIN w : w[i].id = id
       PROVE  (CHOOSE x \in Range(w) : x.id = id).version \in Nat
  <2>1. \E x \in Range(w) : x.id = id
    BY <1>10 DEF Range
  <2>2. (CHOOSE x \in Range(w) : x.id = id) \in Range(w)
    BY <2>1
  <2> QED
    BY <1>5, <1>6, <2>2 DEF AnyObject
<1>11. Apply(s, w).latest \in [ObjectIds -> Nat]
  BY <1>4, <1>10 DEF Apply
<1> QED
  BY <1>8, <1>9, <1>11 DEF ExecuteOne, Apply, AnyStores, w
-----------------------------------------------------------------------------
(***************************************************************************)
(* The calls of a sub-dag are executed one after the other, in their order, *)
(* each on the store that the one before it left (scheduler.rs:25-45).     *)
(***************************************************************************)
LEMMA CallsAreExecutedInOrder ==
    ASSUME NEW s \in AnyStores, NEW calls \in Seq(OneOf("Execute"))
    PROVE  \E r \in [0..Len(calls) -> AnyStores] :
               /\ r[0] = s
               /\ \A k \in 1..Len(calls) : r[k] = ExecuteOne(r[k - 1], calls[k])
               /\ ExecuteAll(s, calls) = r[Len(calls)]
<1> DEFINE m == Len(calls)
           h == [pair \in (1..m) \X AnyStores |-> ExecuteOne(pair[2], calls[pair[1]])]
           Solves(f) == f = [t \in SUBSET DOMAIN calls |->
                                IF t = {} THEN s
                                ELSE ExecuteOne(f[t \ {Max(t)}], calls[Max(t)])]
<1>1. /\ m \in Nat /\ DOMAIN calls = 1..m
      /\ \A k \in 1..m : calls[k] \in OneOf("Execute")
  BY LenProperties, ElementOfSeq
<1>2. s \in AnyStores
  OBVIOUS
<1>3. \A k \in 1..m, x \in AnyStores : ExecuteOne(x, calls[k]) \in AnyStores
  BY <1>1, ExecuteOneType
<1>4. \A k \in 1..m, x \in AnyStores : h[<<k, x>>] = ExecuteOne(x, calls[k])
  <2> HIDE DEF m
  <2> QED
    OBVIOUS
<1>5. \E f : Solves(f)
  <2>1. \A k \in 1..m, x \in AnyStores : h[<<k, x>>] \in AnyStores
    <3> HIDE DEF h, m
    <3> QED
      BY <1>3, <1>4
  <2>2. PICK f : Folds(f, AnyStores, s, m, h)
    <3> HIDE DEF h, m
    <3> QED
      BY <1>1, <1>2, <2>1, FoldExists
  <2>3. /\ f \in [SUBSET (1..m) -> AnyStores] /\ f[{}] = s
        /\ \A t \in (SUBSET (1..m)) \ {{}} : f[t] = h[<<Max(t), f[t \ {Max(t)}]>>]
    <3> HIDE DEF h, m
    <3> QED
      BY <2>2 DEF Folds
  <2>4. ASSUME NEW t \in SUBSET (1..m), t # {}
        PROVE  f[t] = ExecuteOne(f[t \ {Max(t)}], calls[Max(t)])
    <3>1. Max(t) \in 1..m
      BY <1>1, <2>4, MaxOfInterval
    <3>2. f[t \ {Max(t)}] \in AnyStores
      BY <2>3
    <3>3. f[t] = h[<<Max(t), f[t \ {Max(t)}]>>]
      <4> HIDE DEF h, m
      <4> QED
        BY <2>3, <2>4
    <3> HIDE DEF h, m
    <3> QED
      BY <1>4, <3>1, <3>2, <3>3
  <2>5. Solves(f)
    BY <1>1, <2>3, <2>4
  <2> HIDE DEF Solves
  <2> QED
    BY <2>5
<1> DEFINE fold == CHOOSE f : Solves(f)
           r == [k \in 0..m |-> fold[1..k]]
<1>6. Solves(fold)
  <2> HIDE DEF Solves
  <2> QED
    BY <1>5
<1>7. ExecuteAll(s, calls) = fold[1..m]
  BY <1>1 DEF ExecuteAll, FoldLeft, MapThenFoldSet, ExecuteOne
<1> HIDE DEF fold
<1>8. r[0] = s
  <2>1. 1..0 = {}
    OBVIOUS
  <2> QED
    BY <1>1, <1>6, <2>1
<1>9. \A k \in 1..m : r[k] = ExecuteOne(r[k - 1], calls[k])
  <2> TAKE k \in 1..m
  <2>1. Max(1..k) = k
    BY <1>1, MaxOfBounded
  <2>2. (1..k) \ {k} = 1..(k - 1)
    BY <1>1
  <2>3. 1..k \in SUBSET DOMAIN calls /\ 1..k # {}
    <3> HIDE DEF m
    <3>1. \A l \in 1..k : l \in 1..m
      BY <1>1
    <3>2. 1 \in 1..k
      BY <1>1
    <3> QED
      BY <1>1, <3>1, <3>2
  <2>4. fold[1..k] = ExecuteOne(fold[(1..k) \ {Max(1..k)}], calls[Max(1..k)])
    <3> HIDE DEF m
    <3> QED
      BY <1>6, <2>3
  <2>5. r[k] = fold[1..k] /\ r[k - 1] = fold[1..(k - 1)]
    BY <1>1
  <2> HIDE DEF r
  <2> QED
    BY <2>1, <2>2, <2>4, <2>5
<1>10. r \in [0..m -> AnyStores]
  <2> DEFINE K == {k \in 0..m : r[k] \in AnyStores}
  <2> HIDE DEF r, h, m
  <2>1. 0 \in K
    <3>1. r[0] \in AnyStores
      BY <1>2, <1>8
    <3>2. 0 \in 0..m
      BY <1>1
    <3> QED
      BY <3>1, <3>2
  <2>2. ASSUME NEW k \in 1..m, k - 1 \in K PROVE k \in K
    <3>1. r[k - 1] \in AnyStores /\ k \in 0..m
      BY <1>1, <2>2
    <3>2. r[k] \in AnyStores
      BY <1>3, <1>9, <3>1
    <3> QED
      BY <3>1, <3>2
  <2>3. 0..m \subseteq K
    <3> HIDE DEF K
    <3> QED
      BY <1>1, <2>1, <2>2, IntervalInduction
  <2> QED
    BY <2>3 DEF r
<1>11. ExecuteAll(s, calls) = r[m]
  BY <1>1, <1>7
<1> HIDE DEF r
<1> QED
  BY <1>8, <1>9, <1>10, <1>11

(***************************************************************************)
(* Recording a vote of a sub-dag keeps the certifier well formed           *)
(* (validator.rs:319-328).                                                 *)
(***************************************************************************)
LEMMA RecordOneType ==
    ASSUME NEW n \in Anchors, NEW c \in CheckpointCertifier, NEW d \in OneOf("Attest")
    PROVE  RecordOne(n, c, d) \in CheckpointCertifier
<1>1. d.author \in Authorities /\ d.envelope.checkpoint \in Checkpoint
  BY KindsOfEnvelopes DEF Attestation
<1> QED
  BY <1>1, RecordType DEF RecordOne

(***************************************************************************)
(* The votes of a sub-dag are recorded one after the other, in their order *)
(* (validator.rs:319-328).                                                 *)
(***************************************************************************)
LEMMA VotesAreRecorded ==
    ASSUME NEW n \in Anchors, NEW c \in CheckpointCertifier, NEW votes \in Seq(OneOf("Attest"))
    PROVE  \E r \in [0..Len(votes) -> CheckpointCertifier] :
               /\ r[0] = c
               /\ \A k \in 1..Len(votes) : r[k] = RecordOne(n, r[k - 1], votes[k])
               /\ RecordAll(c, n, votes) = r[Len(votes)]
<1> DEFINE m == Len(votes)
           h == [pair \in (1..m) \X CheckpointCertifier |-> RecordOne(n, pair[2], votes[pair[1]])]
           Solves(f) == f = [t \in SUBSET DOMAIN votes |->
                                IF t = {} THEN c
                                ELSE RecordOne(n, f[t \ {Max(t)}], votes[Max(t)])]
<1>1. /\ m \in Nat /\ DOMAIN votes = 1..m
      /\ \A k \in 1..m : votes[k] \in OneOf("Attest")
  BY LenProperties, ElementOfSeq
<1>2. c \in CheckpointCertifier
  OBVIOUS
<1>3. \A k \in 1..m, x \in CheckpointCertifier : RecordOne(n, x, votes[k]) \in CheckpointCertifier
  BY <1>1, RecordOneType
<1>4. \A k \in 1..m, x \in CheckpointCertifier : h[<<k, x>>] = RecordOne(n, x, votes[k])
  <2> HIDE DEF m
  <2> QED
    OBVIOUS
<1>5. \E f : Solves(f)
  <2>1. \A k \in 1..m, x \in CheckpointCertifier : h[<<k, x>>] \in CheckpointCertifier
    <3> HIDE DEF h, m
    <3> QED
      BY <1>3, <1>4
  <2>2. PICK f : Folds(f, CheckpointCertifier, c, m, h)
    <3> HIDE DEF h, m
    <3> QED
      BY <1>1, <1>2, <2>1, FoldExists
  <2>3. /\ f \in [SUBSET (1..m) -> CheckpointCertifier] /\ f[{}] = c
        /\ \A t \in (SUBSET (1..m)) \ {{}} : f[t] = h[<<Max(t), f[t \ {Max(t)}]>>]
    <3> HIDE DEF h, m
    <3> QED
      BY <2>2 DEF Folds
  <2>4. ASSUME NEW t \in SUBSET (1..m), t # {}
        PROVE  f[t] = RecordOne(n, f[t \ {Max(t)}], votes[Max(t)])
    <3>1. Max(t) \in 1..m
      BY <1>1, <2>4, MaxOfInterval
    <3>2. f[t \ {Max(t)}] \in CheckpointCertifier
      BY <2>3
    <3>3. f[t] = h[<<Max(t), f[t \ {Max(t)}]>>]
      <4> HIDE DEF h, m
      <4> QED
        BY <2>3, <2>4
    <3> HIDE DEF h, m
    <3> QED
      BY <1>4, <3>1, <3>2, <3>3
  <2>5. Solves(f)
    BY <1>1, <2>3, <2>4
  <2> HIDE DEF Solves
  <2> QED
    BY <2>5
<1> DEFINE fold == CHOOSE f : Solves(f)
           r == [k \in 0..m |-> fold[1..k]]
<1>6. Solves(fold)
  <2> HIDE DEF Solves
  <2> QED
    BY <1>5
<1>7. RecordAll(c, n, votes) = fold[1..m]
  BY <1>1 DEF RecordAll, FoldLeft, MapThenFoldSet, RecordOne
<1> HIDE DEF fold
<1>8. r[0] = c
  <2>1. 1..0 = {}
    OBVIOUS
  <2> QED
    BY <1>1, <1>6, <2>1
<1>9. \A k \in 1..m : r[k] = RecordOne(n, r[k - 1], votes[k])
  <2> TAKE k \in 1..m
  <2>1. Max(1..k) = k
    BY <1>1, MaxOfBounded
  <2>2. (1..k) \ {k} = 1..(k - 1)
    BY <1>1
  <2>3. 1..k \in SUBSET DOMAIN votes /\ 1..k # {}
    <3> HIDE DEF m
    <3>1. \A l \in 1..k : l \in 1..m
      BY <1>1
    <3>2. 1 \in 1..k
      BY <1>1
    <3> QED
      BY <1>1, <3>1, <3>2
  <2>4. fold[1..k] = RecordOne(n, fold[(1..k) \ {Max(1..k)}], votes[Max(1..k)])
    <3> HIDE DEF m
    <3> QED
      BY <1>6, <2>3
  <2>5. r[k] = fold[1..k] /\ r[k - 1] = fold[1..(k - 1)]
    BY <1>1
  <2> HIDE DEF r
  <2> QED
    BY <2>1, <2>2, <2>4, <2>5
<1>10. r \in [0..m -> CheckpointCertifier]
  <2> DEFINE K == {k \in 0..m : r[k] \in CheckpointCertifier}
  <2> HIDE DEF r, h, m
  <2>1. 0 \in K
    <3>1. r[0] \in CheckpointCertifier
      BY <1>2, <1>8
    <3>2. 0 \in 0..m
      BY <1>1
    <3> QED
      BY <3>1, <3>2
  <2>2. ASSUME NEW k \in 1..m, k - 1 \in K PROVE k \in K
    <3>1. r[k - 1] \in CheckpointCertifier /\ k \in 0..m
      BY <1>1, <2>2
    <3>2. r[k] \in CheckpointCertifier
      BY <1>3, <1>9, <3>1
    <3> QED
      BY <3>1, <3>2
  <2>3. 0..m \subseteq K
    <3> HIDE DEF K
    <3> QED
      BY <1>1, <2>1, <2>2, IntervalInduction
  <2> QED
    BY <2>3 DEF r
<1>11. RecordAll(c, n, votes) = r[m]
  BY <1>1, <1>7
<1> HIDE DEF r
<1> QED
  BY <1>8, <1>9, <1>10, <1>11

(***************************************************************************)
(* The payloads of one kind are kept in their order (validator.rs:289-304). *)
(***************************************************************************)
LEMMA KeepType ==
    ASSUME NEW kind, NEW kept \in Seq(OneOf(kind)), NEW d \in Attributed
    PROVE  Keep(kind, kept, d) \in Seq(OneOf(kind))
<1>1. CASE d.envelope # None /\ d.envelope.payload = kind
  <2>1. d \in OneOf(kind)
    BY <1>1 DEF OneOf
  <2> QED
    BY <1>1, <2>1, AppendProperties DEF Keep
<1>2. CASE ~(d.envelope # None /\ d.envelope.payload = kind)
  BY <1>2 DEF Keep
<1> QED
  BY <1>1, <1>2

(***************************************************************************)
(* The payloads of one kind are found one after the other, in their order  *)
(* (validator.rs:289-304).                                                 *)
(***************************************************************************)
LEMMA PayloadsAreKeptInOrder ==
    ASSUME NEW kind, NEW decoded \in Seq(Attributed)
    PROVE  \E r \in [0..Len(decoded) -> Seq(OneOf(kind))] :
               /\ r[0] = << >>
               /\ \A k \in 1..Len(decoded) : r[k] = Keep(kind, r[k - 1], decoded[k])
               /\ OfKind(kind, decoded) = r[Len(decoded)]
<1> DEFINE m == Len(decoded)
           h == [pair \in (1..m) \X Seq(OneOf(kind)) |-> Keep(kind, pair[2], decoded[pair[1]])]
           Solves(f) == f = [t \in SUBSET DOMAIN decoded |->
                                IF t = {} THEN << >>
                                ELSE Keep(kind, f[t \ {Max(t)}], decoded[Max(t)])]
<1>1. /\ m \in Nat /\ DOMAIN decoded = 1..m
      /\ \A k \in 1..m : decoded[k] \in Attributed
  BY LenProperties, ElementOfSeq
<1>2. << >> \in Seq(OneOf(kind))
  BY EmptySeq
<1>3. \A k \in 1..m, x \in Seq(OneOf(kind)) : Keep(kind, x, decoded[k]) \in Seq(OneOf(kind))
  BY <1>1, KeepType
<1>4. \A k \in 1..m, x \in Seq(OneOf(kind)) : h[<<k, x>>] = Keep(kind, x, decoded[k])
  <2> HIDE DEF m
  <2> QED
    OBVIOUS
<1>5. \E f : Solves(f)
  <2>1. \A k \in 1..m, x \in Seq(OneOf(kind)) : h[<<k, x>>] \in Seq(OneOf(kind))
    <3> HIDE DEF h, m
    <3> QED
      BY <1>3, <1>4
  <2>2. PICK f : Folds(f, Seq(OneOf(kind)), << >>, m, h)
    <3> HIDE DEF h, m
    <3> QED
      BY <1>1, <1>2, <2>1, FoldExists
  <2>3. /\ f \in [SUBSET (1..m) -> Seq(OneOf(kind))] /\ f[{}] = << >>
        /\ \A t \in (SUBSET (1..m)) \ {{}} : f[t] = h[<<Max(t), f[t \ {Max(t)}]>>]
    <3> HIDE DEF h, m
    <3> QED
      BY <2>2 DEF Folds
  <2>4. ASSUME NEW t \in SUBSET (1..m), t # {}
        PROVE  f[t] = Keep(kind, f[t \ {Max(t)}], decoded[Max(t)])
    <3>1. Max(t) \in 1..m
      BY <1>1, <2>4, MaxOfInterval
    <3>2. f[t \ {Max(t)}] \in Seq(OneOf(kind))
      BY <2>3
    <3>3. f[t] = h[<<Max(t), f[t \ {Max(t)}]>>]
      <4> HIDE DEF h, m
      <4> QED
        BY <2>3, <2>4
    <3> HIDE DEF h, m
    <3> QED
      BY <1>4, <3>1, <3>2, <3>3
  <2>5. Solves(f)
    BY <1>1, <2>3, <2>4
  <2> HIDE DEF Solves
  <2> QED
    BY <2>5
<1> DEFINE fold == CHOOSE f : Solves(f)
           r == [k \in 0..m |-> fold[1..k]]
<1>6. Solves(fold)
  <2> HIDE DEF Solves
  <2> QED
    BY <1>5
<1>7. OfKind(kind, decoded) = fold[1..m]
  BY <1>1 DEF OfKind, FoldLeft, MapThenFoldSet, Keep
<1> HIDE DEF fold
<1>8. r[0] = << >>
  <2>1. 1..0 = {}
    OBVIOUS
  <2> QED
    BY <1>1, <1>6, <2>1
<1>9. \A k \in 1..m : r[k] = Keep(kind, r[k - 1], decoded[k])
  <2> TAKE k \in 1..m
  <2>1. Max(1..k) = k
    BY <1>1, MaxOfBounded
  <2>2. (1..k) \ {k} = 1..(k - 1)
    BY <1>1
  <2>3. 1..k \in SUBSET DOMAIN decoded /\ 1..k # {}
    <3> HIDE DEF m
    <3>1. \A l \in 1..k : l \in 1..m
      BY <1>1
    <3>2. 1 \in 1..k
      BY <1>1
    <3> QED
      BY <1>1, <3>1, <3>2
  <2>4. fold[1..k] = Keep(kind, fold[(1..k) \ {Max(1..k)}], decoded[Max(1..k)])
    <3> HIDE DEF m
    <3> QED
      BY <1>6, <2>3
  <2>5. r[k] = fold[1..k] /\ r[k - 1] = fold[1..(k - 1)]
    BY <1>1
  <2> HIDE DEF r
  <2> QED
    BY <2>1, <2>2, <2>4, <2>5
<1>10. r \in [0..m -> Seq(OneOf(kind))]
  <2> DEFINE K == {k \in 0..m : r[k] \in Seq(OneOf(kind))}
  <2> HIDE DEF r, h, m
  <2>1. 0 \in K
    <3>1. r[0] \in Seq(OneOf(kind))
      BY <1>2, <1>8
    <3>2. 0 \in 0..m
      BY <1>1
    <3> QED
      BY <3>1, <3>2
  <2>2. ASSUME NEW k \in 1..m, k - 1 \in K PROVE k \in K
    <3>1. r[k - 1] \in Seq(OneOf(kind)) /\ k \in 0..m
      BY <1>1, <2>2
    <3>2. r[k] \in Seq(OneOf(kind))
      BY <1>3, <1>9, <3>1
    <3> QED
      BY <3>1, <3>2
  <2>3. 0..m \subseteq K
    <3> HIDE DEF K
    <3> QED
      BY <1>1, <2>1, <2>2, IntervalInduction
  <2> QED
    BY <2>3 DEF r
<1>11. OfKind(kind, decoded) = r[m]
  BY <1>1, <1>7
<1> HIDE DEF r
<1> QED
  BY <1>8, <1>9, <1>10, <1>11

(***************************************************************************)
(* A stamp added to a sum (validator.rs:298).                              *)
(***************************************************************************)
LEMMA AddStampType ==
    ASSUME NEW kind \in {"Execute", "Attest"}, NEW sum \in Nat, NEW d \in OneOf(kind)
    PROVE  d.envelope.timestamp_ms \in Nat /\ AddStamp(sum, d) \in Nat
<1>1. d.envelope.timestamp_ms \in Stamps
  BY KindsOfEnvelopes DEF ExecuteEnvelope, Attestation
<1>2. d.envelope.timestamp_ms \in Nat
  BY <1>1, SubdagsAssumption DEF Stamps
<1> QED
  BY <1>2 DEF AddStamp

(***************************************************************************)
(* The stamps of the calls are summed one after the other                  *)
(* (validator.rs:298).                                                     *)
(***************************************************************************)
LEMMA StampsAreSummed ==
    ASSUME NEW kind \in {"Execute", "Attest"}, NEW payloads \in Seq(OneOf(kind))
    PROVE  \E r \in [0..Len(payloads) -> Nat] :
               /\ r[0] = 0
               /\ \A k \in 1..Len(payloads) : r[k] = AddStamp(r[k - 1], payloads[k])
               /\ SumOfStamps(payloads) = r[Len(payloads)]
<1> DEFINE m == Len(payloads)
           h == [pair \in (1..m) \X Nat |-> AddStamp(pair[2], payloads[pair[1]])]
           Solves(f) == f = [t \in SUBSET DOMAIN payloads |->
                                IF t = {} THEN 0
                                ELSE AddStamp(f[t \ {Max(t)}], payloads[Max(t)])]
<1>1. /\ m \in Nat /\ DOMAIN payloads = 1..m
      /\ \A k \in 1..m : payloads[k] \in OneOf(kind)
  BY LenProperties, ElementOfSeq
<1>2. 0 \in Nat
  OBVIOUS
<1>3. \A k \in 1..m, x \in Nat : AddStamp(x, payloads[k]) \in Nat
  BY <1>1, AddStampType
<1>4. \A k \in 1..m, x \in Nat : h[<<k, x>>] = AddStamp(x, payloads[k])
  <2> HIDE DEF m
  <2> QED
    OBVIOUS
<1>5. \E f : Solves(f)
  <2>1. \A k \in 1..m, x \in Nat : h[<<k, x>>] \in Nat
    <3> HIDE DEF h, m
    <3> QED
      BY <1>3, <1>4
  <2>2. PICK f : Folds(f, Nat, 0, m, h)
    <3> HIDE DEF h, m
    <3> QED
      BY <1>1, <1>2, <2>1, FoldExists
  <2>3. /\ f \in [SUBSET (1..m) -> Nat] /\ f[{}] = 0
        /\ \A t \in (SUBSET (1..m)) \ {{}} : f[t] = h[<<Max(t), f[t \ {Max(t)}]>>]
    <3> HIDE DEF h, m
    <3> QED
      BY <2>2 DEF Folds
  <2>4. ASSUME NEW t \in SUBSET (1..m), t # {}
        PROVE  f[t] = AddStamp(f[t \ {Max(t)}], payloads[Max(t)])
    <3>1. Max(t) \in 1..m
      BY <1>1, <2>4, MaxOfInterval
    <3>2. f[t \ {Max(t)}] \in Nat
      BY <2>3
    <3>3. f[t] = h[<<Max(t), f[t \ {Max(t)}]>>]
      <4> HIDE DEF h, m
      <4> QED
        BY <2>3, <2>4
    <3> HIDE DEF h, m
    <3> QED
      BY <1>4, <3>1, <3>2, <3>3
  <2>5. Solves(f)
    BY <1>1, <2>3, <2>4
  <2> HIDE DEF Solves
  <2> QED
    BY <2>5
<1> DEFINE fold == CHOOSE f : Solves(f)
           r == [k \in 0..m |-> fold[1..k]]
<1>6. Solves(fold)
  <2> HIDE DEF Solves
  <2> QED
    BY <1>5
<1>7. SumOfStamps(payloads) = fold[1..m]
  BY <1>1 DEF SumOfStamps, FoldLeft, MapThenFoldSet, AddStamp
<1> HIDE DEF fold
<1>8. r[0] = 0
  <2>1. 1..0 = {}
    OBVIOUS
  <2> QED
    BY <1>1, <1>6, <2>1
<1>9. \A k \in 1..m : r[k] = AddStamp(r[k - 1], payloads[k])
  <2> TAKE k \in 1..m
  <2>1. Max(1..k) = k
    BY <1>1, MaxOfBounded
  <2>2. (1..k) \ {k} = 1..(k - 1)
    BY <1>1
  <2>3. 1..k \in SUBSET DOMAIN payloads /\ 1..k # {}
    <3> HIDE DEF m
    <3>1. \A l \in 1..k : l \in 1..m
      BY <1>1
    <3>2. 1 \in 1..k
      BY <1>1
    <3> QED
      BY <1>1, <3>1, <3>2
  <2>4. fold[1..k] = AddStamp(fold[(1..k) \ {Max(1..k)}], payloads[Max(1..k)])
    <3> HIDE DEF m
    <3> QED
      BY <1>6, <2>3
  <2>5. r[k] = fold[1..k] /\ r[k - 1] = fold[1..(k - 1)]
    BY <1>1
  <2> HIDE DEF r
  <2> QED
    BY <2>1, <2>2, <2>4, <2>5
<1>10. r \in [0..m -> Nat]
  <2> DEFINE K == {k \in 0..m : r[k] \in Nat}
  <2> HIDE DEF r, h, m
  <2>1. 0 \in K
    <3>1. r[0] \in Nat
      BY <1>2, <1>8
    <3>2. 0 \in 0..m
      BY <1>1
    <3> QED
      BY <3>1, <3>2
  <2>2. ASSUME NEW k \in 1..m, k - 1 \in K PROVE k \in K
    <3>1. r[k - 1] \in Nat /\ k \in 0..m
      BY <1>1, <2>2
    <3>2. r[k] \in Nat
      BY <1>3, <1>9, <3>1
    <3> QED
      BY <3>1, <3>2
  <2>3. 0..m \subseteq K
    <3> HIDE DEF K
    <3> QED
      BY <1>1, <2>1, <2>2, IntervalInduction
  <2> QED
    BY <2>3 DEF r
<1>11. SumOfStamps(payloads) = r[m]
  BY <1>1, <1>7
<1> HIDE DEF r
<1> QED
  BY <1>8, <1>9, <1>10, <1>11
-----------------------------------------------------------------------------
(***************************************************************************)
(* The bounded store: its commitment is one of the histories that a        *)
(* checkpoint may commit to.                                               *)
(***************************************************************************)
HistoryOK(s) == StoreOK(s) /\ s.commitment \in Histories

\* What a call creates.
Creates(transaction, id) == [id |-> id, mode |-> "WriteOnly"] \in Inputs(transaction)

(***************************************************************************)
(* A well-formed store is a store.                                         *)
(***************************************************************************)
LEMMA BoundedStores ==
    ASSUME NEW s, StoreOK(s)
    PROVE  s \in AnyStores
<1>1. Object \subseteq AnyObject
  BY ExecutionAssumption DEF Object, AnyObject, Version
<1>2. s.commitment \in Seq(Object)
  BY DEF StoreOK, Stores
<1>3. s.commitment \in Seq(AnyObject)
  BY <1>1, <1>2, LenProperties, ElementOfSeq
<1>4. /\ s = [objects |-> s.objects, latest |-> s.latest, commitment |-> s.commitment]
      /\ s.objects \in SUBSET AnyObject
  BY <1>1 DEF StoreOK, Stores
<1>5. s.latest \in [ObjectIds -> Nat]
  BY ExecutionAssumption DEF StoreOK, Stores, Version
<1> QED
  BY <1>3, <1>4, <1>5 DEF AnyStores

(***************************************************************************)
(* The initial store is well formed, and its history is empty              *)
(* (store.rs:26-36).                                                       *)
(***************************************************************************)
LEMMA EmptyStoreOK ==
    HistoryOK(EmptyStore)
<1> DEFINE c == EmptyStore.commitment
<1>1. c \in Seq(Object) /\ Len(c) = 0 /\ DOMAIN c = {} /\ MaxWrites \in Nat
  BY EmptySeq, ExecutionAssumption DEF EmptyStore
<1>2. EmptyStore \in Stores
  BY <1>1, ExecutionAssumption DEF EmptyStore, Stores, Version
<1>3. Range(c) = {} /\ EmptyStore.objects = {}
  BY <1>1 DEF Range, EmptyStore
<1>4. \A id \in ObjectIds : WritesTo(c, id) = {} /\ EmptyStore.latest[id] = 0
  BY <1>1 DEF WritesTo, EmptyStore
<1>5. LatestIsLastWrite(EmptyStore)
  BY <1>4 DEF LatestIsLastWrite
<1>6. 1..Len(c) = {}
  BY <1>1
<1>7. StoreOK(EmptyStore)
  <2> HIDE DEF c
  <2>1. \A id \in ObjectIds : EmptyStore.latest[id] <= Len(c)
    BY <1>1, <1>4
  <2> QED
    BY <1>1, <1>2, <1>3, <1>5, <1>6, <2>1 DEF StoreOK, c
<1>8. c \in [1..0 -> Object]
  BY <1>1
<1>9. c \in UNION {[1..k -> Object] : k \in 0..MaxWrites}
  BY <1>1, <1>8
<1> QED
  BY <1>1, <1>7, <1>9 DEF HistoryOK, Histories

(***************************************************************************)
(* Executing a call extends the history (scheduler.rs:25-45, store.rs:45). *)
(***************************************************************************)
LEMMA HistoryGrows ==
    ASSUME NEW s \in AnyStores, NEW d \in OneOf("Execute")
    PROVE  /\ Len(s.commitment) \in Nat /\ Len(OutputWrites(s, d.envelope.transaction)) \in Nat
           /\ Len(ExecuteOne(s, d).commitment) =
                  Len(s.commitment) + Len(OutputWrites(s, d.envelope.transaction))
<1> DEFINE transaction == d.envelope.transaction
           w == OutputWrites(s, transaction)
<1>1. transaction \in Transaction
  BY KindsOfEnvelopes DEF ExecuteEnvelope
<1>2. PICK X : w \in Seq(X)
  <2>1. PICK v : v = NextVersion(s, transaction)
    OBVIOUS
  <2>2. Writes(s, transaction) \in Seq(WritesOfVersion(v))
    <3> HIDE DEF transaction
    <3> QED
      BY <1>1, <2>1, WritesAreCollected DEF Collected
  <2>3. w \in Seq(WritesOfVersion(v))
    BY <2>2, EmptySeq DEF OutputWrites
  <2> QED
    BY <2>3
<1>3. s.commitment \in Seq(AnyObject)
  BY DEF AnyStores
<1>4. ExecuteOne(s, d).commitment = s.commitment \o w
  BY DEF ExecuteOne, Apply
<1> HIDE DEF w
<1>5. Len(w) \in Nat /\ Len(s.commitment) \in Nat
  BY <1>2, <1>3, LenProperties
<1>6. Len(s.commitment \o w) = Len(s.commitment) + Len(w)
  BY <1>2, <1>3
<1> QED
  BY <1>4, <1>5, <1>6 DEF w

(***************************************************************************)
(* Executing a call that creates fresh objects, when there is room for its *)
(* writes: the history stays one, and only what the call creates becomes   *)
(* known (scheduler.rs:25-45, store.rs:45-67).                             *)
(***************************************************************************)
LEMMA ExecuteOneOK ==
    ASSUME NEW s, HistoryOK(s), NEW d \in OneOf("Execute"),
           CreatesFreshIds(s, d.envelope.transaction),
           Len(ExecuteOne(s, d).commitment) <= MaxWrites
    PROVE  /\ HistoryOK(ExecuteOne(s, d))
           /\ \A id \in ObjectIds :
                  ExecuteOne(s, d).latest[id] # 0 =>
                      s.latest[id] # 0 \/ Creates(d.envelope.transaction, id)
<1> DEFINE transaction == d.envelope.transaction
           w == OutputWrites(s, transaction)
           n == Len(s.commitment)
           after == Apply(s, w)
           c == after.commitment
<1>1. transaction \in Transaction
  BY KindsOfEnvelopes DEF ExecuteEnvelope
<1>2. StoreOK(s) /\ s.commitment \in Histories /\ after = ExecuteOne(s, d)
  BY DEF HistoryOK, ExecuteOne
<1>3. n + Len(w) <= MaxWrites /\ n \in Nat /\ Len(w) \in Nat
  BY <1>2, BoundedStores, HistoryGrows
<1>4. PICK v \in Version : /\ OneWriteEach(w, v)
                           /\ w # << >> => v \in 1..(n + 1)
  <2> HIDE DEF transaction
  <2> QED
    BY <1>1, <1>2, <1>3, OutputFits
<1>5. VersionsMoveForward(s, w)
  <2> HIDE DEF transaction
  <2> QED
    BY <1>1, <1>2, FreshIdsMoveForward DEF transaction
<1>6. /\ StoreOK(s)
      /\ v \in Version /\ OneWriteEach(w, v) /\ VersionsMoveForward(s, w)
      /\ n + Len(w) <= MaxWrites
      /\ w # << >> => v \in 1..(n + 1)
  BY <1>2, <1>3, <1>4, <1>5
<1>7. StoreOK(after)
  <2> HIDE DEF w
  <2> QED
    BY <1>6, ApplyOK
<1>8. /\ after \in Stores
      /\ Len(c) = n + Len(w)
      /\ \A i \in 1..n : c[i] = s.commitment[i]
      /\ \A i \in 1..Len(w) : /\ c[n + i] = w[i]
                              /\ w[i].id \in ObjectIds /\ w[i].version = v
                              /\ s.latest[w[i].id] < v
      /\ \A id \in ObjectIds : (\A i \in 1..Len(w) : w[i].id # id) =>
                                   after.latest[id] = s.latest[id]
  <2> HIDE DEF w
  <2> QED
    BY <1>6, ApplyFields
<1>9. /\ \A i \in 1..n : /\ s.commitment[i].version \in 1..i
                         /\ \A j \in 1..(i - 1) :
                                s.commitment[j].id = s.commitment[i].id =>
                                    s.commitment[j].version < s.commitment[i].version
      /\ \A i \in 1..n : /\ s.commitment[i].id \in ObjectIds
                         /\ s.commitment[i].version \in Nat
                         /\ s.commitment[i].version <= s.latest[s.commitment[i].id]
  <2>1. s.commitment \in Seq(Object) /\ DOMAIN s.commitment = 1..n
    BY <1>2, LenProperties DEF StoreOK, Stores
  <2>2. \A i \in 1..n : s.commitment[i] \in Object
    BY <2>1, ElementOfSeq
  <2>3. \A i \in 1..n : /\ s.commitment[i].version \in 1..i
                        /\ \A j \in 1..(i - 1) :
                               s.commitment[j].id = s.commitment[i].id =>
                                   s.commitment[j].version < s.commitment[i].version
    BY <1>2, <2>1 DEF Histories
  <2>4. \A i \in 1..n : s.commitment[i].version <= s.latest[s.commitment[i].id]
    BY <1>2 DEF StoreOK
  <2>5. \A i \in 1..n : s.commitment[i].id \in ObjectIds /\ s.commitment[i].version \in Nat
    BY <2>2, <2>3 DEF Object
  <2> QED
    BY <2>3, <2>4, <2>5
<1>10. \A i, j \in 1..Len(w) : w[i].id = w[j].id => i = j
  BY <1>4 DEF OneWriteEach
<1>11. s.latest \in [ObjectIds -> Nat]
  BY <1>2, ExecutionAssumption DEF StoreOK, Stores, Version
<1>12. w # << >> \/ Len(w) = 0
  <2>1. w = << >> => Len(w) = 0
    BY EmptySeq
  <2> QED
    BY <2>1
<1>13. Len(w) # 0 => v \in Nat /\ v >= 1 /\ v <= n + 1
  BY <1>3, <1>4, <1>12
<1> HIDE DEF w, n, c
<1>14. ASSUME NEW i \in 1..Len(c), i > n
       PROVE  /\ c[i].version \in 1..i
              /\ \A j \in 1..(i - 1) : c[j].id = c[i].id => c[j].version < c[i].version
  <2>1. PICK k \in 1..Len(w) : i = n + k
    <3>1. i - n \in 1..Len(w) /\ i = n + (i - n)
      BY <1>3, <1>8, <1>14
    <3> QED
      BY <3>1
  <2>2. c[i] = w[k] /\ c[i].version = v /\ c[i].id \in ObjectIds /\ s.latest[c[i].id] < v
    BY <1>8, <2>1
  <2>3. v \in Nat /\ v >= 1 /\ v <= n + 1
    BY <1>3, <1>13
  <2>4. v \in 1..i
    BY <1>3, <2>1, <2>3
  <2>5. ASSUME NEW j \in 1..(i - 1), c[j].id = c[i].id PROVE c[j].version < v
    <3>1. CASE j <= n
      <4>1. j \in 1..n /\ c[j] = s.commitment[j]
        BY <1>3, <1>8, <3>1
      <4>2. c[j].version \in Nat /\ c[j].version <= s.latest[c[i].id]
        BY <1>9, <2>5, <4>1
      <4>3. s.latest[c[i].id] \in Nat
        BY <1>11, <2>2
      <4> QED
        BY <2>2, <2>3, <4>2, <4>3
    <3>2. CASE j > n
      <4>1. PICK l \in 1..Len(w) : j = n + l /\ l # k
        <5>1. j - n \in 1..Len(w) /\ j = n + (j - n) /\ j - n # k
          BY <1>3, <2>1, <3>2
        <5> QED
          BY <5>1
      <4>2. c[j] = w[l]
        BY <1>8, <4>1
      <4> QED
        BY <1>10, <2>2, <2>5, <4>1, <4>2
    <3> QED
      BY <1>3, <3>1, <3>2
  <2> QED
    BY <2>2, <2>4, <2>5
<1>15. ASSUME NEW i \in 1..Len(c), i <= n
       PROVE  /\ c[i].version \in 1..i
              /\ \A j \in 1..(i - 1) : c[j].id = c[i].id => c[j].version < c[i].version
  <2>1. i \in 1..n /\ \A j \in 1..(i - 1) : j \in 1..n
    BY <1>3, <1>15
  <2> QED
    BY <1>8, <1>9, <2>1
<1>16. c \in Histories
  <2>1. c \in Seq(Object)
    BY <1>8 DEF Stores, c
  <2>2. Len(c) \in 0..MaxWrites /\ DOMAIN c = 1..Len(c) /\ c \in [1..Len(c) -> Object]
    BY <1>3, <1>8, <2>1, LenProperties, ElementOfSeq, ExecutionAssumption
  <2>3. \A i \in 1..Len(c) : /\ c[i].version \in 1..i
                             /\ \A j \in 1..(i - 1) : c[j].id = c[i].id =>
                                                         c[j].version < c[i].version
    BY <1>3, <1>14, <1>15
  <2>4. c \in UNION {[1..k -> Object] : k \in 0..MaxWrites}
    BY <2>2
  <2> QED
    BY <2>2, <2>3, <2>4 DEF Histories
<1>17. HistoryOK(ExecuteOne(s, d))
  BY <1>2, <1>7, <1>16 DEF HistoryOK, c
<1>18. ASSUME NEW id \in ObjectIds, after.latest[id] # 0, s.latest[id] = 0
       PROVE  Creates(transaction, id)
  <2>1. PICK i \in 1..Len(w) : w[i].id = id
    BY <1>8, <1>18
  <2>2. /\ StatusOf(s, transaction) = "Success"
        /\ \E input \in Inputs(transaction) : input.mode # "ReadOnly" /\ input.id = id
    <3> HIDE DEF transaction
    <3>1. /\ StatusOf(s, transaction) # "Success" => w = << >>
          /\ StatusOf(s, transaction) = "Success" =>
                 ((\E j \in 1..Len(w) : w[j].id = id) <=>
                     \E input \in Inputs(transaction) : input.mode # "ReadOnly" /\ input.id = id)
      BY <1>1, <1>2, OutputProperties DEF w
    <3>2. w # << >>
      BY <1>3, <2>1, EmptySeq
    <3> QED
      BY <2>1, <3>1, <3>2
  <2>3. PICK input \in Inputs(transaction) : input.mode # "ReadOnly" /\ input.id = id
    BY <2>2
  <2>4. input \in Input
    <3> HIDE DEF transaction
    <3>1. transaction.inputs \in Seq(Input)
      BY <1>1 DEF Transaction
    <3>2. \A k \in DOMAIN transaction.inputs : transaction.inputs[k] \in Input
      BY <3>1, LenProperties, ElementOfSeq
    <3> QED
      BY <2>3, <3>2 DEF Inputs, Range
  <2>5. ~MissingRead(s, transaction)
    BY <2>2 DEF StatusOf
  <2>6. input \notin Reads(transaction)
    BY <1>18, <2>3, <2>5 DEF MissingRead
  <2>7. input.mode = "WriteOnly"
    BY <2>3, <2>6 DEF Reads
  <2>8. input = [id |-> id, mode |-> "WriteOnly"]
    BY <2>3, <2>4, <2>7 DEF Input
  <2> QED
    BY <2>3, <2>8 DEF Creates
<1> QED
  BY <1>2, <1>17, <1>18

(***************************************************************************)
(* Executing the calls of a sub-dag keeps the store well formed, and only  *)
(* extends its history: it is the same one when it is no longer            *)
(* (scheduler.rs:25-45).                                                   *)
(***************************************************************************)
LEMMA ExecuteAllOK ==
    ASSUME NEW s, HistoryOK(s), NEW calls \in Seq(OneOf("Execute")),
           CreateFreshIds(s, [i \in DOMAIN calls |-> calls[i].envelope.transaction]),
           Len(ExecuteAll(s, calls).commitment) <= MaxWrites
    PROVE  LET after == ExecuteAll(s, calls)
           IN  /\ HistoryOK(after)
               /\ Len(s.commitment) \in Nat /\ Len(after.commitment) \in Nat
               /\ Len(s.commitment) <= Len(after.commitment)
               /\ Len(s.commitment) = Len(after.commitment) => s.commitment = after.commitment
               /\ calls = << >> => after = s
<1> DEFINE m == Len(calls)
           tx(k) == calls[k].envelope.transaction
           len(x) == Len(x.commitment)
<1>1. m \in Nat /\ DOMAIN calls = 1..m /\ \A k \in 1..m : calls[k] \in OneOf("Execute")
  BY LenProperties, ElementOfSeq
<1>2. StoreOK(s) /\ s \in AnyStores
  BY BoundedStores DEF HistoryOK
<1>3. PICK r \in [0..m -> AnyStores] :
           /\ r[0] = s
           /\ \A k \in 1..m : r[k] = ExecuteOne(r[k - 1], calls[k])
           /\ ExecuteAll(s, calls) = r[m]
  BY <1>2, CallsAreExecutedInOrder
<1>4. \A k \in 1..m : /\ CreatesFreshIds(s, tx(k))
                      /\ \A j \in 1..(k - 1), input \in Inputs(tx(k)) :
                             input \in Inputs(tx(j)) => input.mode # "WriteOnly"
  <2> DEFINE transactions == [i \in DOMAIN calls |-> calls[i].envelope.transaction]
  <2>1. DOMAIN transactions = 1..m /\ \A k \in 1..m : transactions[k] = tx(k)
    BY <1>1
  <2>2. \A k \in DOMAIN transactions :
            /\ CreatesFreshIds(s, transactions[k])
            /\ \A j \in 1..(k - 1), input \in Inputs(transactions[k]) :
                   input \in Inputs(transactions[j]) => input.mode # "WriteOnly"
    BY DEF CreateFreshIds
  <2> HIDE DEF transactions
  <2>3. \A k \in 1..m : \A j \in 1..(k - 1) : j \in 1..m
    BY <1>1
  <2> QED
    BY <2>1, <2>2, <2>3
<1>5. \A k \in 1..m : /\ r[k - 1] \in AnyStores /\ len(r[k - 1]) \in Nat /\ len(r[k]) \in Nat
                      /\ len(r[k - 1]) <= len(r[k])
  <2> TAKE k \in 1..m
  <2>1. r[k - 1] \in AnyStores
    BY <1>1, <1>3
  <2>2. /\ len(r[k - 1]) \in Nat /\ Len(OutputWrites(r[k - 1], tx(k))) \in Nat
        /\ len(ExecuteOne(r[k - 1], calls[k])) =
               len(r[k - 1]) + Len(OutputWrites(r[k - 1], tx(k)))
    BY <1>1, <2>1, HistoryGrows
  <2>3. r[k] = ExecuteOne(r[k - 1], calls[k])
    BY <1>3
  <2> DEFINE written == Len(OutputWrites(r[k - 1], tx(k)))
             before == r[k - 1]
  <2> HIDE DEF written, before
  <2>4. /\ len(before) \in Nat /\ written \in Nat /\ len(r[k]) = len(before) + written
        /\ before \in AnyStores
    BY <2>1, <2>2, <2>3 DEF written, before
  <2> HIDE DEF len
  <2>5. len(r[k]) \in Nat /\ len(before) <= len(r[k])
    BY <2>4
  <2> QED
    BY <2>4, <2>5 DEF before
<1>6. \A k \in 0..m : len(r[k]) \in Nat
  <2>1. \A k \in 0..m : r[k] \in AnyStores
    BY <1>3
  <2> QED
    BY <2>1, LenProperties DEF AnyStores
<1> HIDE DEF tx, m, len
<1>7. \A k \in 0..m : \A j \in 0..k : len(r[j]) <= len(r[k])
  <2> DEFINE T == {k \in 0..m : \A j \in 0..k : len(r[j]) <= len(r[k])}
  <2>1. 0 \in T
    BY <1>1, <1>6
  <2>2. ASSUME NEW k \in 1..m, k - 1 \in T PROVE k \in T
    <3>1. \A j \in 0..(k - 1) : len(r[j]) <= len(r[k - 1])
      BY <2>2
    <3>2. len(r[k - 1]) <= len(r[k]) /\ k \in 0..m /\ k - 1 \in 0..m
      BY <1>1, <1>5
    <3>3. ASSUME NEW j \in 0..k PROVE len(r[j]) <= len(r[k])
      <4>1. j \in 0..m /\ (j = k \/ j \in 0..(k - 1))
        BY <1>1
      <4>2. CASE j = k
        BY <1>6, <4>1, <4>2
      <4>3. CASE j \in 0..(k - 1)
        BY <1>6, <3>1, <3>2, <4>1, <4>3
      <4> QED
        BY <4>1, <4>2, <4>3
    <3> QED
      BY <3>2, <3>3
  <2>3. 0..m \subseteq T
    <3> HIDE DEF T
    <3> QED
      BY <1>1, <2>1, <2>2, IntervalInduction
  <2> QED
    BY <2>3
<1>8. len(r[m]) <= MaxWrites /\ \A k \in 0..m : len(r[k]) <= MaxWrites
  <2>1. len(r[m]) <= MaxWrites /\ m \in 0..m
    BY <1>1, <1>3 DEF len
  <2>2. \A k \in 0..m : k \in 0..m /\ k \in 0..m => len(r[k]) <= len(r[m])
    BY <1>1, <1>7
  <2> QED
    BY <1>6, <2>1, <2>2, ExecutionAssumption
<1> DEFINE Known(k) == \A id \in ObjectIds :
                           r[k].latest[id] # 0 => \/ s.latest[id] # 0
                                                  \/ \E j \in 1..k : Creates(tx(j), id)
           K == {k \in 0..m : HistoryOK(r[k]) /\ Known(k)}
<1>9. 0 \in K
  BY <1>1, <1>3
<1>10. ASSUME NEW k \in 1..m, k - 1 \in K PROVE k \in K
  <2>1. HistoryOK(r[k - 1]) /\ Known(k - 1) /\ k \in 0..m
    BY <1>1, <1>10
  <2>2. r[k] = ExecuteOne(r[k - 1], calls[k]) /\ calls[k] \in OneOf("Execute")
    BY <1>1, <1>3
  <2> HIDE DEF Known
  <2>3. CreatesFreshIds(r[k - 1], tx(k))
    <3> SUFFICES ASSUME NEW input \in Inputs(tx(k)), input.mode = "WriteOnly",
                        r[k - 1].latest[input.id] # 0
                 PROVE  FALSE
      BY DEF CreatesFreshIds
    <3>1. input \in Input
      <4>1. tx(k) \in Transaction
        BY <2>2, KindsOfEnvelopes DEF ExecuteEnvelope, tx
      <4>2. tx(k).inputs \in Seq(Input)
        BY <4>1 DEF Transaction
      <4>3. \A i \in DOMAIN tx(k).inputs : tx(k).inputs[i] \in Input
        BY <4>2, LenProperties, ElementOfSeq
      <4> QED
        BY <4>3 DEF Inputs, Range
    <3>2. input.id \in ObjectIds /\ input = [id |-> input.id, mode |-> "WriteOnly"]
      BY <3>1 DEF Input
    <3>3. s.latest[input.id] = 0
      BY <1>4 DEF CreatesFreshIds
    <3>4. PICK j \in 1..(k - 1) : Creates(tx(j), input.id)
      BY <2>1, <3>2, <3>3 DEF Known
    <3>5. input \in Inputs(tx(j))
      BY <3>2, <3>4 DEF Creates
    <3> QED
      BY <1>4, <3>4, <3>5
  <2>4. Len(ExecuteOne(r[k - 1], calls[k]).commitment) <= MaxWrites
    BY <1>8, <2>1, <2>2 DEF len
  <2>5. /\ HistoryOK(r[k])
        /\ \A id \in ObjectIds : r[k].latest[id] # 0 =>
               r[k - 1].latest[id] # 0 \/ Creates(tx(k), id)
    BY <2>1, <2>2, <2>3, <2>4, ExecuteOneOK DEF tx
  <2>6. Known(k)
    <3>1. \A j \in 1..(k - 1) : j \in 1..k
      OBVIOUS
    <3>2. k \in 1..k
      BY <1>1
    <3> QED
      BY <2>1, <2>5, <3>1, <3>2 DEF Known
  <2> QED
    BY <2>1, <2>5, <2>6
<1>11. 0..m \subseteq K
  <2> HIDE DEF K
  <2> QED
    BY <1>1, <1>9, <1>10, IntervalInduction
<1>12. m \in K /\ len(r[0]) <= len(r[m]) /\ 0 \in 0..m /\ m \in 0..m
  <2> HIDE DEF K
  <2> QED
    BY <1>1, <1>7, <1>11
<1> DEFINE S == {k \in 0..m : len(r[k]) = len(s) => r[k].commitment = s.commitment}
<1>13. 0 \in S
  BY <1>3, <1>12
<1>14. ASSUME NEW k \in 1..m, k - 1 \in S PROVE k \in S
  <2>1. k \in 0..m /\ k - 1 \in 0..m /\ 0 \in 0..(k - 1)
    BY <1>1
  <2>2. /\ len(r[k - 1]) \in Nat /\ len(r[k]) \in Nat /\ len(s) \in Nat
        /\ len(s) <= len(r[k - 1]) /\ len(r[k - 1]) <= len(r[k])
    BY <1>3, <1>5, <1>6, <1>7, <1>12, <2>1
  <2> SUFFICES ASSUME len(r[k]) = len(s) PROVE r[k].commitment = s.commitment
    BY <2>1
  <2>3. len(r[k - 1]) = len(s) /\ len(r[k]) = len(r[k - 1])
    BY <2>2
  <2>4. r[k - 1].commitment = s.commitment
    BY <1>14, <2>3
  <2> DEFINE w == OutputWrites(r[k - 1], tx(k))
  <2>5. /\ Len(w) \in Nat
        /\ len(r[k]) = len(r[k - 1]) + Len(w)
    BY <1>1, <1>3, <1>5, HistoryGrows DEF tx, len
  <2>6. Len(w) = 0
    BY <2>2, <2>3, <2>5
  <2>7. w = << >>
    <3>1. PICK v : v = NextVersion(r[k - 1], tx(k))
      OBVIOUS
    <3>2. tx(k) \in Transaction
      BY <1>1, KindsOfEnvelopes DEF ExecuteEnvelope, tx
    <3>3. Writes(r[k - 1], tx(k)) \in Seq(WritesOfVersion(v))
      BY <3>1, <3>2, WritesAreCollected DEF Collected
    <3>4. w \in Seq(WritesOfVersion(v))
      BY <3>3, EmptySeq DEF OutputWrites
    <3> QED
      BY <2>6, <3>4, EmptySeq
  <2>8. r[k].commitment = r[k - 1].commitment \o w
    <3>1. r[k] = ExecuteOne(r[k - 1], calls[k])
      BY <1>3
    <3>2. r[k] = Apply(r[k - 1], w)
      BY <3>1 DEF ExecuteOne, tx
    <3> HIDE DEF w
    <3> QED
      BY <3>2 DEF Apply
  <2>9. s.commitment \in Seq(Object)
    BY <1>2 DEF StoreOK, Stores
  <2> QED
    BY <2>4, <2>7, <2>8, <2>9
<1>15. m \in S
  <2>1. 0..m \subseteq S
    <3> HIDE DEF S
    <3> QED
      BY <1>1, <1>13, <1>14, IntervalInduction
  <2> HIDE DEF S
  <2> QED
    BY <1>12, <2>1
<1>16. calls = << >> => ExecuteAll(s, calls) = s
  BY <1>3, EmptySeq DEF m
<1> QED
  BY <1>3, <1>6, <1>12, <1>15, <1>16 DEF len
-----------------------------------------------------------------------------
(***************************************************************************)
(* What is in the window after a call was there before it: same            *)
(* checkpoint, same timings.                                               *)
(***************************************************************************)
Carried(c, after) ==
    \A i \in 1..Len(after.pending) : \E j \in 1..Len(c.pending) :
        /\ after.pending[i].local = c.pending[j].local
        /\ after.pending[i].timings = c.pending[j].timings

(***************************************************************************)
(* What two calls carry is carried.                                        *)
(***************************************************************************)
LEMMA CarriedTransitive ==
    ASSUME NEW c1, NEW c2, NEW c3, Carried(c1, c2), Carried(c2, c3)
    PROVE  Carried(c1, c3)
<1> SUFFICES ASSUME NEW i \in 1..Len(c3.pending)
             PROVE  \E j \in 1..Len(c1.pending) :
                        /\ c3.pending[i].local = c1.pending[j].local
                        /\ c3.pending[i].timings = c1.pending[j].timings
  BY DEF Carried
<1>1. PICK k \in 1..Len(c2.pending) : /\ c3.pending[i].local = c2.pending[k].local
                                      /\ c3.pending[i].timings = c2.pending[k].timings
  BY DEF Carried
<1>2. PICK j \in 1..Len(c1.pending) : /\ c2.pending[k].local = c1.pending[j].local
                                      /\ c2.pending[k].timings = c1.pending[j].timings
  BY DEF Carried
<1> QED
  BY <1>1, <1>2

(***************************************************************************)
(* Recording a vote moves no timings from one checkpoint to another        *)
(* (certifier.rs:129-211).                                                 *)
(***************************************************************************)
LEMMA RecordCarries ==
    ASSUME NEW c \in CheckpointCertifier, NEW s \in Anchors,
           NEW a \in Authorities, NEW v \in Checkpoint
    PROVE  Carried(c, Record(c, s, a, v))
<1> DEFINE counted == Counted(c, s, a, v)
           i == EntryOf(c.pending, v.anchor)
<1>1. CASE ~Admissible(c, a, v)
  BY <1>1 DEF Record, Carried
<1>2. CASE Admissible(c, a, v)
  <2>1. i \in 1..Len(c.pending) /\ c.pending[i] \in PendingCheckpoint
    BY <1>2, EntryOfAdmissible
  <2>2. /\ Len(counted.pending) = Len(c.pending)
        /\ \A j \in 1..Len(c.pending) : j # i => counted.pending[j] = c.pending[j]
        /\ counted.pending[i] = IF FormsCertificate(c, s, a, v)
                                THEN WithCertificate(c.pending[i], s, a, v)
                                ELSE WithTally(c.pending[i], s, a, v)
    BY <1>2, CountedProperties
  <2>3. /\ counted.pending[i].local = c.pending[i].local
        /\ counted.pending[i].timings = c.pending[i].timings
    <3>1. \A e \in PendingCheckpoint : /\ WithCertificate(e, s, a, v).local = e.local
                                       /\ WithCertificate(e, s, a, v).timings = e.timings
                                       /\ WithTally(e, s, a, v).local = e.local
                                       /\ WithTally(e, s, a, v).timings = e.timings
      BY DEF WithCertificate, WithTally, PendingCheckpoint
    <3> HIDE DEF counted, i
    <3> QED
      BY <2>1, <2>2, <3>1
  <2>4. counted \in CheckpointCertifier
    BY <1>2, CountedType
  <2>5. Carried(c, counted)
    <3> HIDE DEF counted, i
    <3> QED
      BY <2>1, <2>2, <2>3 DEF Carried
  <2>6. Carried(c, Advance(counted))
    <3> DEFINE k == CertifiedPrefix(counted.pending)
    <3> HIDE DEF counted
    <3>1. /\ Len(Advance(counted).pending) = Len(counted.pending) - k
          /\ \A j \in 1..(Len(counted.pending) - k) :
                 Advance(counted).pending[j] = counted.pending[k + j]
      BY <2>4, AdvanceProperties
    <3>2. k \in 0..Len(counted.pending) /\ Len(counted.pending) \in Nat
      BY <2>4, LenProperties, CertifiedPrefixProperties DEF CheckpointCertifier
    <3> HIDE DEF k
    <3>3. \A j \in 1..(Len(counted.pending) - k) : k + j \in 1..Len(counted.pending)
      BY <3>2
    <3>4. Carried(counted, Advance(counted))
      BY <3>1, <3>3 DEF Carried
    <3> QED
      BY <2>5, <3>4, CarriedTransitive
  <2> QED
    BY <1>2, <2>5, <2>6 DEF Record
<1> QED
  BY <1>1, <1>2

(***************************************************************************)
(* Recording the votes of a sub-dag: the certifier stays well formed, no   *)
(* timings move from one checkpoint to another, and certifiers that differ *)
(* in timings only stay that way (validator.rs:319-328).                   *)
(***************************************************************************)
LEMMA RecordAllProperties ==
    ASSUME NEW n \in Anchors, NEW votes \in Seq(OneOf("Attest")),
           NEW c1 \in CheckpointCertifier, NEW c2 \in CheckpointCertifier,
           SameButTimings(c1, c2)
    PROVE  /\ RecordAll(c1, n, votes) \in CheckpointCertifier
           /\ RecordAll(c2, n, votes) \in CheckpointCertifier
           /\ Carried(c1, RecordAll(c1, n, votes))
           /\ Carried(c2, RecordAll(c2, n, votes))
           /\ SameButTimings(RecordAll(c1, n, votes), RecordAll(c2, n, votes))
<1> DEFINE m == Len(votes)
<1>1. m \in Nat /\ \A k \in 1..m : votes[k] \in OneOf("Attest")
  BY LenProperties, ElementOfSeq
<1>2. PICK r \in [0..m -> CheckpointCertifier] :
           /\ r[0] = c1
           /\ \A k \in 1..m : r[k] = RecordOne(n, r[k - 1], votes[k])
           /\ RecordAll(c1, n, votes) = r[m]
  BY VotesAreRecorded
<1>3. PICK q \in [0..m -> CheckpointCertifier] :
           /\ q[0] = c2
           /\ \A k \in 1..m : q[k] = RecordOne(n, q[k - 1], votes[k])
           /\ RecordAll(c2, n, votes) = q[m]
  BY VotesAreRecorded
<1> HIDE DEF m
<1> DEFINE K == {k \in 0..m : Carried(c1, r[k]) /\ Carried(c2, q[k]) /\ SameButTimings(r[k], q[k])}
<1>4. 0 \in K
  <2>1. Carried(c1, c1) /\ Carried(c2, c2)
    BY DEF Carried
  <2> QED
    BY <1>1, <1>2, <1>3, <2>1
<1>5. ASSUME NEW k \in 1..m, k - 1 \in K PROVE k \in K
  <2>1. k \in 0..m /\ k - 1 \in 0..m
    BY <1>1
  <2>2. PICK x \in CheckpointCertifier : x = r[k - 1]
    BY <1>2, <2>1
  <2>3. PICK y \in CheckpointCertifier : y = q[k - 1]
    BY <1>3, <2>1
  <2>4. PICK a \in Authorities, v \in Checkpoint :
            a = votes[k].author /\ v = votes[k].envelope.checkpoint
    BY <1>1, KindsOfEnvelopes DEF Attestation
  <2>5. r[k] = Record(x, n, a, v) /\ q[k] = Record(y, n, a, v)
    BY <1>2, <1>3, <2>2, <2>3, <2>4 DEF RecordOne
  <2>6. Carried(c1, x) /\ Carried(c2, y) /\ SameButTimings(x, y)
    BY <1>5, <2>2, <2>3
  <2>7. Carried(x, Record(x, n, a, v)) /\ Carried(y, Record(y, n, a, v))
    BY RecordCarries
  <2>8. SameButTimings(Record(x, n, a, v), Record(y, n, a, v))
    BY <2>6, SameRecord
  <2>9. Carried(c1, Record(x, n, a, v)) /\ Carried(c2, Record(y, n, a, v))
    BY <2>6, <2>7, CarriedTransitive
  <2> QED
    BY <2>1, <2>5, <2>8, <2>9
<1>6. 0..m \subseteq K
  <2> HIDE DEF K
  <2> QED
    BY <1>1, <1>4, <1>5, IntervalInduction
<1>7. m \in K /\ m \in 0..m
  <2> HIDE DEF K
  <2> QED
    BY <1>1, <1>6
<1> QED
  BY <1>2, <1>3, <1>7
-----------------------------------------------------------------------------
(***************************************************************************)
(* The sequences of a sequence, one after the other: a sequence of their   *)
(* elements, no longer than their number times the longest.                *)
(***************************************************************************)
LEMMA FlattenProperties ==
    ASSUME NEW X, NEW seqs \in Seq(Seq(X)), NEW w \in Nat,
           \A i \in 1..Len(seqs) : Len(seqs[i]) <= w
    PROVE  FlattenSeq(seqs) \in Seq(X) /\ Len(FlattenSeq(seqs)) <= Len(seqs) * w
<1> DEFINE m == Len(seqs)
           Y == Seq(X)
           h == [pair \in (1..m) \X Y |-> IF pair[1] = 1 THEN seqs[1] ELSE pair[2] \o seqs[pair[1]]]
           Solves(f) == f = [i \in 1..m |-> IF i = 1 THEN seqs[i] ELSE f[i - 1] \o seqs[i]]
<1>1. m \in Nat /\ \A i \in 1..m : seqs[i] \in Y
  BY LenProperties, ElementOfSeq
<1>2. CASE m = 0
  <2>1. FlattenSeq(seqs) = seqs /\ seqs = << >> /\ Len(seqs) = 0
    BY <1>2, EmptySeq DEF FlattenSeq
  <2>2. 0 * w = 0
    OBVIOUS
  <2>3. << >> \in Seq(X)
    BY EmptySeq
  <2> QED
    BY <2>1, <2>2, <2>3
<1>3. CASE m # 0
  <2>1. \A k \in 1..m, x \in Y : /\ h[<<k, x>>] = IF k = 1 THEN seqs[1] ELSE x \o seqs[k]
                                 /\ h[<<k, x>>] \in Y
    <3> TAKE k \in 1..m, x \in Y
    <3>1. x \o seqs[k] \in Y /\ seqs[1] \in Y
      BY <1>1, <1>3
    <3> HIDE DEF Y, m
    <3>2. h[<<k, x>>] = IF k = 1 THEN seqs[1] ELSE x \o seqs[k]
      OBVIOUS
    <3> QED
      BY <3>1, <3>2
  <2>2. << >> \in Y
    BY EmptySeq
  <2>3. \E f : Solves(f)
    <3>1. PICK g : Iterates(g, Y, << >>, m, h)
      <4> HIDE DEF h, m, Y
      <4> QED
        BY <1>1, <2>1, <2>2, IterationExists
    <3> DEFINE f == [i \in 1..m |-> g[i]]
    <3>2. /\ g \in [0..m -> Y]
          /\ \A k \in 1..m : g[k] = h[<<k, g[k - 1]>>]
      <4> HIDE DEF h, m, Y
      <4> QED
        BY <3>1 DEF Iterates
    <3>3. ASSUME NEW k \in 1..m
          PROVE  f[k] = IF k = 1 THEN seqs[k] ELSE f[k - 1] \o seqs[k]
      <4>1. g[k - 1] \in Y
        <5>1. k - 1 \in 0..m
          BY <1>1
        <5> HIDE DEF Y, m, h
        <5> QED
          BY <3>2, <5>1
      <4>2. g[k] = IF k = 1 THEN seqs[1] ELSE g[k - 1] \o seqs[k]
        <5> HIDE DEF h, Y
        <5> QED
          BY <2>1, <3>2, <4>1
      <4>3. f[k] = g[k] /\ (k # 1 => f[k - 1] = g[k - 1])
        BY <1>1
      <4> HIDE DEF f
      <4> QED
        BY <4>2, <4>3
    <3>4. Solves(f)
      <4>1. f = [i \in 1..m |-> f[i]]
        OBVIOUS
      <4> HIDE DEF f
      <4> QED
        BY <3>3, <4>1
    <3> HIDE DEF Solves
    <3> QED
      BY <3>4
  <2> DEFINE flat == CHOOSE f : Solves(f)
  <2>4. Solves(flat)
    <3> HIDE DEF Solves
    <3> QED
      BY <2>3
  <2>5. FlattenSeq(seqs) = flat[m]
    BY <1>3 DEF FlattenSeq
  <2> HIDE DEF flat
  <2> DEFINE K == {k \in 0..m : k # 0 => flat[k] \in Y /\ Len(flat[k]) <= k * w}
  <2>6. 0 \in K
    BY <1>1
  <2>7. ASSUME NEW k \in 1..m, k - 1 \in K PROVE k \in K
    <3>1. flat[k] = IF k = 1 THEN seqs[k] ELSE flat[k - 1] \o seqs[k]
      BY <2>4
    <3>2. seqs[k] \in Y /\ Len(seqs[k]) \in Nat /\ Len(seqs[k]) <= w
      BY <1>1
    <3>3. CASE k = 1
      <4>1. flat[k] = seqs[k] /\ 1 * w = w
        BY <3>1, <3>3
      <4> QED
        BY <1>1, <3>2, <3>3, <4>1
    <3>4. CASE k # 1
      <4>1. flat[k - 1] \in Y /\ Len(flat[k - 1]) <= (k - 1) * w
        BY <2>7, <3>4
      <4>2. flat[k] \in Y /\ Len(flat[k]) = Len(flat[k - 1]) + Len(seqs[k])
        BY <3>1, <3>2, <3>4, <4>1
      <4>3. Len(flat[k - 1]) \in Nat
        BY <4>1, LenProperties
      <4>4. (k - 1) * w + w = k * w /\ (k - 1) * w \in Int /\ k * w \in Int
        OBVIOUS
      <4> DEFINE p == (k - 1) * w
                 q == k * w
                 l == Len(flat[k - 1])
      <4>5. p + w = q /\ p \in Int /\ q \in Int /\ l <= p /\ l \in Nat
        BY <4>1, <4>3, <4>4
      <4>6. Len(flat[k]) = l + Len(seqs[k])
        BY <4>2
      <4> HIDE DEF p, q, l
      <4>7. Len(flat[k]) <= q
        BY <3>2, <4>5, <4>6
      <4>8. Len(flat[k]) <= k * w
        BY <4>7 DEF q
      <4>9. k \in 0..m
        BY <1>1
      <4> HIDE DEF Y, m
      <4> QED
        BY <4>2, <4>8, <4>9
    <3> QED
      BY <3>3, <3>4
  <2>8. 0..m \subseteq K
    <3> HIDE DEF K
    <3> QED
      BY <1>1, <2>6, <2>7, IntervalInduction
  <2>9. m \in K
    <3> HIDE DEF K
    <3> QED
      BY <1>1, <2>8
  <2> QED
    BY <1>3, <2>5, <2>9
<1> QED
  BY <1>2, <1>3

(***************************************************************************)
(* The payloads of one kind: a sequence of envelopes of that kind, each    *)
(* one of the payloads, and no longer than they are                        *)
(* (validator.rs:289-304).                                                 *)
(***************************************************************************)
LEMMA OfKindProperties ==
    ASSUME NEW kind, NEW decoded \in Seq(Attributed)
    PROVE  /\ OfKind(kind, decoded) \in Seq(OneOf(kind))
           /\ Len(OfKind(kind, decoded)) <= Len(decoded)
           /\ \A i \in 1..Len(OfKind(kind, decoded)) :
                  \E j \in 1..Len(decoded) : OfKind(kind, decoded)[i] = decoded[j]
<1> DEFINE m == Len(decoded)
<1>1. PICK r \in [0..m -> Seq(OneOf(kind))] :
           /\ r[0] = << >>
           /\ \A k \in 1..m : r[k] = Keep(kind, r[k - 1], decoded[k])
           /\ OfKind(kind, decoded) = r[m]
  BY PayloadsAreKeptInOrder
<1>2. m \in Nat
  BY LenProperties
<1> HIDE DEF m
<1> DEFINE K == {k \in 0..m : /\ Len(r[k]) <= k
                             /\ \A i \in 1..Len(r[k]) : \E j \in 1..m : r[k][i] = decoded[j]}
<1>3. 0 \in K
  BY <1>1, <1>2, EmptySeq
<1>4. ASSUME NEW k \in 1..m, k - 1 \in K PROVE k \in K
  <2>1. k \in 0..m /\ k - 1 \in 0..m
    BY <1>2
  <2>2. PICK q \in Seq(OneOf(kind)) : q = r[k - 1]
    BY <1>1, <2>1
  <2>3. /\ Len(q) \in Nat /\ Len(q) <= k - 1
        /\ \A i \in 1..Len(q) : \E j \in 1..m : q[i] = decoded[j]
    BY <1>4, <2>2, LenProperties
  <2>4. r[k] = q \/ r[k] = Append(q, decoded[k])
    BY <1>1, <2>2 DEF Keep
  <2>5. CASE r[k] = q
    BY <2>1, <2>3, <2>5
  <2>6. CASE r[k] = Append(q, decoded[k])
    <3>1. /\ Len(r[k]) = Len(q) + 1
          /\ \A i \in 1..Len(q) : r[k][i] = q[i]
          /\ r[k][Len(q) + 1] = decoded[k]
      BY <2>2, <2>6
    <3>2. \A i \in 1..Len(r[k]) : i \in 1..Len(q) \/ i = Len(q) + 1
      BY <2>3, <3>1
    <3>3. \A i \in 1..Len(r[k]) : \E j \in 1..m : r[k][i] = decoded[j]
      BY <2>3, <3>1, <3>2
    <3> QED
      BY <2>1, <2>3, <3>1, <3>3
  <2> QED
    BY <2>4, <2>5, <2>6
<1>5. 0..m \subseteq K
  <2> HIDE DEF K
  <2> QED
    BY <1>2, <1>3, <1>4, IntervalInduction
<1>6. m \in K /\ m \in 0..m
  <2> HIDE DEF K
  <2> QED
    BY <1>2, <1>5
<1> QED
  BY <1>1, <1>6 DEF m
-----------------------------------------------------------------------------
(***************************************************************************)
(* Decoding the payloads of a sub-dag (validator.rs:281-296): those of its *)
(* blocks, and no more of them.                                            *)
(***************************************************************************)
LEMMA DecodedProperties ==
    ASSUME NEW blocks \in Seq(Block), NEW w \in Nat,
           \A i \in 1..Len(blocks) : Len(blocks[i].payloads) <= w
    PROVE  /\ Decoded(blocks) \in Seq(Attributed)
           /\ Len(Decoded(blocks)) <= Len(blocks) * w
           /\ \A k \in 1..Len(Decoded(blocks)) :
                  \E i \in 1..Len(blocks) : \E j \in 1..Len(blocks[i].payloads) :
                      Decoded(blocks)[k].envelope = FromBytes(blocks[i].payloads[j])
<1> DEFINE Held == {d \in Attributed :
                       \E i \in 1..Len(blocks) : \E j \in 1..Len(blocks[i].payloads) :
                           d.envelope = FromBytes(blocks[i].payloads[j])}
           of(i) == [j \in DOMAIN blocks[i].payloads |->
                        [author   |-> blocks[i].author,
                         envelope |-> FromBytes(blocks[i].payloads[j])]]
           seqs == [i \in DOMAIN blocks |-> of(i)]
<1>1. Len(blocks) \in Nat /\ DOMAIN blocks = 1..Len(blocks)
      /\ \A i \in 1..Len(blocks) : blocks[i] \in Block
  BY LenProperties, ElementOfSeq
<1>2. ASSUME NEW i \in 1..Len(blocks)
      PROVE  of(i) \in Seq(Held) /\ Len(of(i)) = Len(blocks[i].payloads)
  <2> DEFINE p == blocks[i].payloads
  <2>1. blocks[i].author \in Authorities /\ p \in Seq(Payload)
    BY <1>1 DEF Block
  <2>2. Len(p) \in Nat /\ DOMAIN p = 1..Len(p) /\ \A j \in 1..Len(p) : p[j] \in Payload
    BY <2>1, LenProperties, ElementOfSeq
  <2>3. \A j \in 1..Len(p) : FromBytes(p[j]) \in ExecuteEnvelope \cup Attestation \cup {None}
    BY <2>2 DEF FromBytes, Payload
  <2>4. of(i) = [j \in 1..Len(p) |-> [author   |-> blocks[i].author,
                                      envelope |-> FromBytes(p[j])]]
    BY <2>2
  <2>5. ASSUME NEW j \in 1..Len(p)
        PROVE  [author |-> blocks[i].author, envelope |-> FromBytes(p[j])] \in Held
    BY <2>1, <2>3 DEF Attributed
  <2> HIDE DEF of, p, Held
  <2>6. of(i) \in Seq(Held) /\ Len(of(i)) = Len(p)
    <3>1. of(i) \in [1..Len(p) -> Held]
      BY <2>4, <2>5
    <3> QED
      BY <2>2, <3>1
  <2> QED
    BY <2>6 DEF p
<1> HIDE DEF of, Held
<1>3. seqs \in Seq(Seq(Held)) /\ Len(seqs) = Len(blocks)
  <2>1. seqs \in [1..Len(blocks) -> Seq(Held)]
    BY <1>1, <1>2
  <2> HIDE DEF seqs
  <2> QED
    BY <1>1, <2>1
<1>4. \A i \in 1..Len(seqs) : Len(seqs[i]) <= w
  <2>1. \A i \in 1..Len(blocks) : seqs[i] = of(i)
    BY <1>1
  <2> HIDE DEF seqs
  <2> QED
    BY <1>2, <1>3, <2>1
<1>5. FlattenSeq(seqs) \in Seq(Held) /\ Len(FlattenSeq(seqs)) <= Len(seqs) * w
  <2> HIDE DEF seqs
  <2> QED
    BY <1>3, <1>4, FlattenProperties
<1>6. Decoded(blocks) = FlattenSeq(seqs)
  BY DEF Decoded, of
<1> HIDE DEF seqs
<1>7. Decoded(blocks) \in Seq(Held)
  BY <1>5, <1>6
<1>8. \A k \in 1..Len(Decoded(blocks)) : Decoded(blocks)[k] \in Held
  BY <1>7, ElementOfSeq
<1>9. Decoded(blocks) \in Seq(Attributed)
  <2>1. Held \subseteq Attributed
    BY DEF Held
  <2> QED
    BY <1>7, <1>8, <2>1, LenProperties
<1> QED
  BY <1>3, <1>5, <1>6, <1>8, <1>9 DEF Held

(***************************************************************************)
(* Sorting restores the canonical order, whatever order the blocks came in *)
(* (validator.rs:275).                                                     *)
(***************************************************************************)
LEMMA SortedRestores ==
    ASSUME NEW blocks \in Seq(Block), \A i \in 1..Len(blocks) : blocks[i].place = i,
           NEW order \in Orders(Len(blocks))
    PROVE  Sorted([i \in DOMAIN blocks |-> blocks[order[i]]]) = blocks
<1> DEFINE n == Len(blocks)
           received == [i \in DOMAIN blocks |-> blocks[order[i]]]
<1>1. n \in Nat /\ DOMAIN blocks = 1..n /\ blocks = [i \in 1..n |-> blocks[i]]
  BY LenProperties
<1>2. order \in [1..n -> 1..n] /\ \A j \in 1..n : \E i \in 1..n : order[i] = j
  BY DEF Orders, Range
<1>3. DOMAIN received = 1..n /\ \A i \in 1..n : received[i] = blocks[order[i]]
  BY <1>1
<1> HIDE DEF n, received
<1>4. \A j \in 1..n : blocks[j] \in Range(received)
  <2> TAKE j \in 1..n
  <2>1. PICK i \in 1..n : order[i] = j
    BY <1>2
  <2> QED
    BY <1>3, <2>1 DEF Range
<1>5. \A b \in Range(received) : \E j \in 1..n : b = blocks[j] /\ b.place = j
  <2> TAKE b \in Range(received)
  <2>1. PICK i \in 1..n : b = received[i]
    BY <1>3 DEF Range
  <2>2. order[i] \in 1..n
    BY <1>2
  <2> QED
    BY <1>3, <2>1, <2>2 DEF n
<1>6. ASSUME NEW j \in 1..n PROVE (CHOOSE b \in Range(received) : b.place = j) = blocks[j]
  <2>1. blocks[j] \in Range(received) /\ blocks[j].place = j
    BY <1>4 DEF n
  <2>2. \A b \in Range(received) : b.place = j => b = blocks[j]
    BY <1>5
  <2> QED
    BY <2>1, <2>2
<1>7. Sorted(received) = [i \in 1..n |-> blocks[i]]
  BY <1>3, <1>6 DEF Sorted
<1> QED
  BY <1>1, <1>7 DEF received

\* execute_subdag once its payloads are decoded.
ExecuteDecoded(copy, n, decoded, now) ==
    LET store == ExecuteAll(copy.store, Calls(decoded))
    IN  [store     |-> store,
         certifier |-> RecordAll(Minted(copy, n, store, decoded, now), n, Votes(decoded)),
         executed  |-> copy.executed + Len(Calls(decoded))]

(***************************************************************************)
(* So what a copy executes does not depend on the order of the blocks      *)
(* (validator.rs:268-329).                                                 *)
(***************************************************************************)
LEMMA OrderIsForgotten ==
    ASSUME NEW blocks \in Seq(Block), \A i \in 1..Len(blocks) : blocks[i].place = i,
           NEW order \in Orders(Len(blocks)),
           NEW received, received = [i \in DOMAIN blocks |-> blocks[order[i]]]
    PROVE  \A copy, n, now : ExecuteBlocks(copy, n, received, now) =
                                 ExecuteDecoded(copy, n, Decoded(blocks), now)
<1>1. Sorted(received) = blocks
  BY SortedRestores
<1>2. InCanonicalOrder(received) = Decoded(blocks)
  BY <1>1 DEF InCanonicalOrder
<1> QED
  BY <1>2 DEF ExecuteBlocks, ExecuteDecoded
-----------------------------------------------------------------------------
(***************************************************************************)
(* The quotient of a number between two multiples.                         *)
(***************************************************************************)
LEMMA QuotientBetween ==
    ASSUME NEW x \in Nat, NEW n \in Nat \ {0}, NEW lo \in Nat, NEW hi \in Nat,
           n * lo <= x, x <= n * hi
    PROVE  x \div n \in lo..hi
<1>1. PICK q \in Nat, t \in 0..(n - 1) : q = x \div n /\ x = n * q + t
  BY Division
<1>2. q <= hi
  <2> SUFFICES ASSUME q >= hi + 1 PROVE FALSE
    BY <1>1
  <2>1. n * q >= n * (hi + 1)
    BY <1>1
  <2>2. n * (hi + 1) = n * hi + n
    OBVIOUS
  <2>3. n * hi \in Nat /\ n * q \in Nat
    BY <1>1
  <2> QED
    BY <1>1, <2>1, <2>2, <2>3
<1>3. lo <= q
  <2> SUFFICES ASSUME q + 1 <= lo PROVE FALSE
    BY <1>1
  <2>1. n * (q + 1) <= n * lo
    BY <1>1
  <2>2. n * (q + 1) = n * q + n
    BY <1>1
  <2>3. n * lo \in Nat /\ n * q \in Nat
    BY <1>1
  <2> QED
    BY <1>1, <2>1, <2>2, <2>3
<1> QED
  BY <1>1, <1>2, <1>3

(***************************************************************************)
(* A mean is a stamp (validator.rs:308-313).                               *)
(***************************************************************************)
LEMMA MeanType ==
    ASSUME NEW decoded \in Seq(Attributed), Calls(decoded) # << >>
    PROVE  MeanTimestamp(decoded) \in Stamps
<1> DEFINE calls == Calls(decoded)
           n == Len(calls)
           x == SumOfStamps(calls) % StampRange
<1>1. calls \in Seq(OneOf("Execute"))
  BY OfKindProperties DEF Calls
<1>2. n \in Nat \ {0}
  BY <1>1, LenProperties, EmptySeq
<1>3. SumOfStamps(calls) \in Nat
  <2>1. PICK r \in [0..n -> Nat] : SumOfStamps(calls) = r[n]
    <3> HIDE DEF calls
    <3> QED
      BY <1>1, StampsAreSummed
  <2> QED
    BY <1>2, <2>1
<1>4. x \in 0..(StampRange - 1) /\ StampRange \in Nat \ {0}
  <2> HIDE DEF calls, n
  <2> QED
    BY <1>3, SubdagsAssumption, Division
<1> HIDE DEF calls, n, x
<1>5. x \div n \in 0..x
  <2>1. x \in Nat /\ n * 0 <= x /\ x <= n * x
    BY <1>2, <1>4
  <2> QED
    BY <1>2, <2>1, QuotientBetween
<1>6. x \div n \in Stamps
  BY <1>4, <1>5 DEF Stamps
<1> QED
  BY <1>6 DEF MeanTimestamp, x, n, calls

(***************************************************************************)
(* A sum that stays between two multiples as its next term stays between   *)
(* their steps.                                                            *)
(***************************************************************************)
LEMMA SumBetween ==
    ASSUME NEW x \in Nat, NEW y \in Nat, NEW lo \in Nat, NEW hi \in Nat,
           NEW p \in Nat, NEW q \in Nat,
           p - lo <= x, x <= q - hi, lo <= y, y <= hi
    PROVE  p <= x + y /\ x + y <= q
  OBVIOUS

(***************************************************************************)
(* A mean lies between two bounds of the stamps, unless their sum          *)
(* overflows (validator.rs:298 and 308-313).                               *)
(***************************************************************************)
LEMMA MeanBetween ==
    ASSUME NEW decoded \in Seq(Attributed), Calls(decoded) # << >>,
           NEW lo \in Nat, NEW hi \in Nat,
           \A i \in 1..Len(Calls(decoded)) :
               /\ lo <= Calls(decoded)[i].envelope.timestamp_ms
               /\ Calls(decoded)[i].envelope.timestamp_ms <= hi,
           Len(Calls(decoded)) * hi < StampRange
    PROVE  MeanTimestamp(decoded) \in lo..hi
<1> DEFINE calls == Calls(decoded)
           n == Len(calls)
           stamp(i) == calls[i].envelope.timestamp_ms
<1>1. calls \in Seq(OneOf("Execute"))
  BY OfKindProperties DEF Calls
<1>2. n \in Nat \ {0} /\ \A i \in 1..n : calls[i] \in OneOf("Execute")
  BY <1>1, LenProperties, EmptySeq, ElementOfSeq
<1>3. \A i \in 1..n : stamp(i) \in Nat /\ lo <= stamp(i) /\ stamp(i) <= hi
  BY <1>2, AddStampType
<1>4. PICK r \in [0..n -> Nat] : /\ r[0] = 0
                                 /\ \A k \in 1..n : r[k] = AddStamp(r[k - 1], calls[k])
                                 /\ SumOfStamps(calls) = r[n]
  <2> HIDE DEF calls
  <2> QED
    BY <1>1, StampsAreSummed
<1>5. n * hi < StampRange
  OBVIOUS
<1> HIDE DEF calls, n
<1>6. \A k \in 1..n : r[k] = r[k - 1] + stamp(k)
  BY <1>4 DEF AddStamp
<1> HIDE DEF stamp
<1> DEFINE K == {k \in 0..n : k * lo <= r[k] /\ r[k] <= k * hi}
<1>7. 0 \in K
  BY <1>2, <1>4
<1>8. ASSUME NEW k \in 1..n, k - 1 \in K PROVE k \in K
  <2>1. /\ k \in 0..n /\ k - 1 \in 0..n /\ k \in Nat
        /\ (k - 1) * lo <= r[k - 1] /\ r[k - 1] <= (k - 1) * hi
    BY <1>2, <1>8
  <2>2. r[k - 1] \in Nat /\ r[k] \in Nat /\ r[k] = r[k - 1] + stamp(k)
    BY <1>4, <1>6, <2>1
  <2>3. (k - 1) * lo = k * lo - lo /\ (k - 1) * hi = k * hi - hi
    BY <2>1
  <2>4. k * lo \in Nat /\ k * hi \in Nat
    BY <2>1
  <2> DEFINE p == k * lo
             q == k * hi
  <2>5. /\ p \in Nat /\ q \in Nat /\ p - lo <= r[k - 1] /\ r[k - 1] <= q - hi
    BY <2>1, <2>3, <2>4
  <2> HIDE DEF p, q
  <2>6. p <= r[k] /\ r[k] <= q
    <3>1. stamp(k) \in Nat /\ lo <= stamp(k) /\ stamp(k) <= hi
      BY <1>3
    <3>2. PICK x \in Nat, y \in Nat, z \in Nat : x = r[k - 1] /\ y = stamp(k) /\ z = r[k]
      BY <2>2, <3>1
    <3>3. z = x + y /\ p - lo <= x /\ x <= q - hi /\ lo <= y /\ y <= hi
      BY <2>2, <2>5, <3>1, <3>2
    <3> HIDE DEF K
    <3>4. p <= x + y /\ x + y <= q
      BY <2>5, <3>2, <3>3, SumBetween
    <3> QED
      BY <3>2, <3>3, <3>4
  <2>7. k * lo <= r[k] /\ r[k] <= k * hi
    BY <2>6 DEF p, q
  <2> QED
    BY <2>1, <2>7
<1>9. 0..n \subseteq K
  <2> HIDE DEF K
  <2> QED
    BY <1>2, <1>7, <1>8, IntervalInduction
<1>10. n * lo <= r[n] /\ r[n] <= n * hi /\ r[n] \in Nat
  <2>1. n \in K /\ n \in 0..n
    <3> HIDE DEF K
    <3> QED
      BY <1>2, <1>9
  <2> QED
    BY <1>4, <2>1
<1>11. r[n] % StampRange = r[n]
  <2>1. StampRange \in Nat \ {0} /\ n * hi \in Nat
    BY <1>2, SubdagsAssumption
  <2>2. r[n] \in 0..(StampRange - 1)
    BY <1>5, <1>10, <2>1
  <2>3. PICK x \in 0..(StampRange - 1) : x = r[n]
    BY <2>2
  <2>4. (StampRange * 0 + x) % StampRange = x
    <3>1. 0 \in Nat
      OBVIOUS
    <3> QED
      BY <2>1, <2>3, <3>1, Remainder
  <2>5. StampRange * 0 + x = x
    BY <2>1, <2>3
  <2> QED
    BY <2>3, <2>4, <2>5
<1>12. r[n] \div n \in lo..hi
  BY <1>2, <1>10, QuotientBetween
<1> QED
  BY <1>4, <1>11, <1>12 DEF MeanTimestamp, calls, n
-----------------------------------------------------------------------------
(***************************************************************************)
(* The inductive invariant. Each copy is well formed, and the two agree on *)
(* everything but the clocks: on the store, the count and the window, and  *)
(* on the mean stamp of every checkpoint. A checkpoint's anchor is in the  *)
(* log, so that a mint cannot meet an entry of its own anchor.             *)
(***************************************************************************)
LogRecord == [effect : Effects, votes : Seq(Vote), stamps : SUBSET Stamps,
              commitment : Histories]
CopyStates == [store : Stores, certifier : CheckpointCertifier, executed : Nat]

AnchorsIn(c, n) == \A i \in 1..Len(c.pending) : c.pending[i].local.anchor \in 1..n

MeansAgree(c1, c2) ==
    \A i \in 1..Len(c1.pending), j \in 1..Len(c2.pending) :
        c1.pending[i].local.anchor = c2.pending[j].local.anchor =>
            c1.pending[i].timings.mean_timestamp_ms = c2.pending[j].timings.mean_timestamp_ms

CopyOK(p, n) ==
    /\ p \in CopyStates
    /\ HistoryOK(p.store)
    /\ AnchorsIn(p.certifier, n)

Alike(p, q) ==
    /\ p.store = q.store
    /\ p.executed = q.executed
    /\ SameButTimings(p.certifier, q.certifier)
    /\ MeansAgree(p.certifier, q.certifier)

LogOK == log \in Seq(LogRecord) /\ Len(log) \in 0..MaxSubdag

Inv ==
    /\ LogOK
    /\ CopyOK(state["live"], Len(log)) /\ CopyOK(state["replayed"], Len(log))
    /\ Alike(state["live"], state["replayed"])

(***************************************************************************)
(* A mint adds one entry at the end of the window, for the sub-dag that    *)
(* was just executed, with the mean of its stamps; a sub-dag without       *)
(* transactions mints nothing (validator.rs:308-316).                      *)
(***************************************************************************)
LEMMA MintedProperties ==
    ASSUME NEW copy, copy.certifier \in CheckpointCertifier, NEW n \in Anchors,
           NEW store, store.commitment \in Histories,
           NEW decoded \in Seq(Attributed), NEW now \in 0..MaxSubdag
    PROVE  LET c == copy.certifier
               minted == Minted(copy, n, store, decoded, now)
           IN  /\ minted \in CheckpointCertifier
               /\ Calls(decoded) = << >> => minted = c
               /\ \A i \in 1..Len(minted.pending) :
                      \/ \E j \in 1..Len(c.pending) : minted.pending[i] = c.pending[j]
                      \/ /\ Calls(decoded) # << >>
                         /\ minted.pending[i].local = [anchor |-> n, commitment |-> store.commitment]
                         /\ minted.pending[i].timings.mean_timestamp_ms = MeanTimestamp(decoded)
<1> DEFINE c == copy.certifier
           minted == Minted(copy, n, store, decoded, now)
           timings == [minted_at |-> now, mean_timestamp_ms |-> MeanTimestamp(decoded)]
<1>1. CASE Calls(decoded) = << >>
  BY <1>1 DEF Minted
<1>2. CASE Calls(decoded) # << >>
  <2>1. minted = Push(c, n, store.commitment, timings)
    BY <1>2 DEF Minted
  <2>2. timings \in Timings
    BY <1>2, MeanType, SubdagsAssumption DEF CheckpointTimings
  <2>3. store.commitment \in Commitments
    BY SubdagsAssumption
  <2>4. timings.mean_timestamp_ms = MeanTimestamp(decoded)
    OBVIOUS
  <2> HIDE DEF timings, minted, c
  <2>5. c \in CheckpointCertifier
    BY DEF c
  <2>6. minted \in CheckpointCertifier
    BY <2>1, <2>2, <2>3, <2>5, PushType
  <2>7. /\ Len(minted.pending) = Len(c.pending) + 1
        /\ \A i \in 1..Len(c.pending) : minted.pending[i] = c.pending[i]
        /\ minted.pending[Len(c.pending) + 1].local =
               [anchor |-> n, commitment |-> store.commitment]
        /\ minted.pending[Len(c.pending) + 1].timings = timings
    <3> DEFINE entry == [local        |-> [anchor |-> n, commitment |-> store.commitment],
                         timings      |-> timings,
                         accumulators |-> [e \in Commitments |-> EmptyAccumulator],
                         certificate  |-> None]
    <3>1. /\ Len(minted.pending) = Len(c.pending) + 1
          /\ \A i \in 1..Len(c.pending) : minted.pending[i] = c.pending[i]
          /\ minted.pending[Len(c.pending) + 1] = entry
      BY <2>1, <2>2, <2>3, <2>5, PushAppends
    <3> QED
      BY <3>1
  <2>8. Len(c.pending) \in Nat
    BY <2>5, LenProperties DEF CheckpointCertifier
  <2>9. \A i \in 1..Len(minted.pending) : i \in 1..Len(c.pending) \/ i = Len(c.pending) + 1
    BY <2>7, <2>8
  <2> QED
    BY <1>2, <2>4, <2>6, <2>7, <2>9 DEF minted, c
<1> QED
  BY <1>1, <1>2

(***************************************************************************)
(* Two copies that agree mint alike (validator.rs:308-316).                *)
(***************************************************************************)
LEMMA MintedAlike ==
    ASSUME NEW p, NEW q, p.certifier \in CheckpointCertifier, q.certifier \in CheckpointCertifier,
           SameButTimings(p.certifier, q.certifier), MeansAgree(p.certifier, q.certifier),
           NEW n \in Anchors, AnchorsIn(p.certifier, n - 1), AnchorsIn(q.certifier, n - 1),
           NEW store, store.commitment \in Histories,
           NEW decoded \in Seq(Attributed), NEW now1 \in 0..MaxSubdag, NEW now2 \in 0..MaxSubdag
    PROVE  /\ SameButTimings(Minted(p, n, store, decoded, now1), Minted(q, n, store, decoded, now2))
           /\ MeansAgree(Minted(p, n, store, decoded, now1), Minted(q, n, store, decoded, now2))
           /\ AnchorsIn(Minted(p, n, store, decoded, now1), n)
           /\ AnchorsIn(Minted(q, n, store, decoded, now2), n)
<1> DEFINE c1 == p.certifier
           c2 == q.certifier
           m1 == Minted(p, n, store, decoded, now1)
           m2 == Minted(q, n, store, decoded, now2)
           New(entry) == /\ entry.local.anchor = n
                         /\ entry.timings.mean_timestamp_ms = MeanTimestamp(decoded)
<1>1. SameButTimings(m1, m2)
  <2>1. CASE Calls(decoded) = << >>
    BY <2>1 DEF Minted
  <2>2. CASE Calls(decoded) # << >>
    <3> DEFINE t1 == [minted_at |-> now1, mean_timestamp_ms |-> MeanTimestamp(decoded)]
               t2 == [minted_at |-> now2, mean_timestamp_ms |-> MeanTimestamp(decoded)]
    <3>1. t1 \in Timings /\ t2 \in Timings
      BY <2>2, MeanType, SubdagsAssumption DEF CheckpointTimings
    <3>2. store.commitment \in Commitments
      BY SubdagsAssumption
    <3>3. /\ m1 = Push(c1, n, store.commitment, t1)
          /\ m2 = Push(c2, n, store.commitment, t2)
      BY <2>2 DEF Minted
    <3> HIDE DEF t1, t2, m1, m2
    <3> QED
      BY <3>1, <3>2, <3>3, SamePush
  <2> QED
    BY <2>1, <2>2
<1>2. \A i \in 1..Len(m1.pending) :
          (\E j \in 1..Len(c1.pending) : m1.pending[i] = c1.pending[j]) \/ New(m1.pending[i])
  <2>1. \A i \in 1..Len(m1.pending) :
            \/ \E j \in 1..Len(c1.pending) : m1.pending[i] = c1.pending[j]
            \/ /\ m1.pending[i].local = [anchor |-> n, commitment |-> store.commitment]
               /\ m1.pending[i].timings.mean_timestamp_ms = MeanTimestamp(decoded)
    BY MintedProperties
  <2> HIDE DEF m1, c1
  <2> QED
    BY <2>1
<1>3. \A i \in 1..Len(m2.pending) :
          (\E j \in 1..Len(c2.pending) : m2.pending[i] = c2.pending[j]) \/ New(m2.pending[i])
  <2>1. \A i \in 1..Len(m2.pending) :
            \/ \E j \in 1..Len(c2.pending) : m2.pending[i] = c2.pending[j]
            \/ /\ m2.pending[i].local = [anchor |-> n, commitment |-> store.commitment]
               /\ m2.pending[i].timings.mean_timestamp_ms = MeanTimestamp(decoded)
    BY MintedProperties
  <2> HIDE DEF m2, c2
  <2> QED
    BY <2>1
<1>4. n \in Nat \ {0} /\ (\A a \in 1..(n - 1) : a # n /\ a \in 1..n) /\ n \in 1..n
  BY RoundAssumption DEF Anchors
<1>5. /\ \A i \in 1..Len(c1.pending) : c1.pending[i].local.anchor \in 1..(n - 1)
      /\ \A i \in 1..Len(c2.pending) : c2.pending[i].local.anchor \in 1..(n - 1)
  BY DEF AnchorsIn
<1>6. MeansAgree(c1, c2)
  OBVIOUS
<1> HIDE DEF m1, m2, c1, c2
<1>7. AnchorsIn(m1, n) /\ AnchorsIn(m2, n)
  BY <1>2, <1>3, <1>4, <1>5 DEF AnchorsIn
<1>8. MeansAgree(m1, m2)
  <2> SUFFICES ASSUME NEW i \in 1..Len(m1.pending), NEW j \in 1..Len(m2.pending),
                      m1.pending[i].local.anchor = m2.pending[j].local.anchor
               PROVE  m1.pending[i].timings.mean_timestamp_ms =
                          m2.pending[j].timings.mean_timestamp_ms
    BY DEF MeansAgree
  <2>1. CASE New(m1.pending[i]) /\ New(m2.pending[j])
    BY <2>1
  <2>2. CASE ~New(m1.pending[i])
    <3>1. PICK k \in 1..Len(c1.pending) : m1.pending[i] = c1.pending[k]
      BY <1>2, <2>2
    <3>2. ~New(m2.pending[j])
      BY <1>4, <1>5, <3>1
    <3>3. PICK l \in 1..Len(c2.pending) : m2.pending[j] = c2.pending[l]
      BY <1>3, <3>2
    <3> QED
      BY <1>6, <3>1, <3>3 DEF MeansAgree
  <2>3. CASE New(m1.pending[i]) /\ ~New(m2.pending[j])
    <3>1. PICK l \in 1..Len(c2.pending) : m2.pending[j] = c2.pending[l]
      BY <1>3, <2>3
    <3> QED
      BY <1>4, <1>5, <2>3, <3>1
  <2> QED
    BY <2>1, <2>2, <2>3
<1> QED
  BY <1>1, <1>7, <1>8 DEF m1, m2

(***************************************************************************)
(* Agreement survives what carries the entries (certifier.rs:129-211).     *)
(***************************************************************************)
LEMMA CarriedAgree ==
    ASSUME NEW c1, NEW c2, NEW d1, NEW d2, Carried(c1, d1), Carried(c2, d2),
           NEW n, MeansAgree(c1, c2), AnchorsIn(c1, n), AnchorsIn(c2, n)
    PROVE  MeansAgree(d1, d2) /\ AnchorsIn(d1, n) /\ AnchorsIn(d2, n)
<1>1. \A i \in 1..Len(d1.pending) : \E k \in 1..Len(c1.pending) :
          /\ d1.pending[i].local = c1.pending[k].local
          /\ d1.pending[i].timings = c1.pending[k].timings
  BY DEF Carried
<1>2. \A j \in 1..Len(d2.pending) : \E l \in 1..Len(c2.pending) :
          /\ d2.pending[j].local = c2.pending[l].local
          /\ d2.pending[j].timings = c2.pending[l].timings
  BY DEF Carried
<1>3. AnchorsIn(d1, n) /\ AnchorsIn(d2, n)
  BY <1>1, <1>2 DEF AnchorsIn
<1>4. MeansAgree(d1, d2)
  <2> SUFFICES ASSUME NEW i \in 1..Len(d1.pending), NEW j \in 1..Len(d2.pending),
                      d1.pending[i].local.anchor = d2.pending[j].local.anchor
               PROVE  d1.pending[i].timings.mean_timestamp_ms =
                          d2.pending[j].timings.mean_timestamp_ms
    BY DEF MeansAgree
  <2>1. PICK k \in 1..Len(c1.pending) : /\ d1.pending[i].local = c1.pending[k].local
                                        /\ d1.pending[i].timings = c1.pending[k].timings
    BY <1>1
  <2>2. PICK l \in 1..Len(c2.pending) : /\ d2.pending[j].local = c2.pending[l].local
                                        /\ d2.pending[j].timings = c2.pending[l].timings
    BY <1>2
  <2> QED
    BY <2>1, <2>2 DEF MeansAgree
<1> QED
  BY <1>3, <1>4

(***************************************************************************)
(* Two copies that agree execute a sub-dag alike, whatever their clocks    *)
(* say (validator.rs:268-329).                                             *)
(***************************************************************************)
LEMMA ExecutedAlike ==
    ASSUME NEW p, NEW q, NEW n \in Anchors, CopyOK(p, n - 1), CopyOK(q, n - 1), Alike(p, q),
           NEW decoded \in Seq(Attributed), NEW now1 \in 0..MaxSubdag, NEW now2 \in 0..MaxSubdag,
           CreateFreshIds(p.store, [i \in DOMAIN Calls(decoded) |->
                                       Calls(decoded)[i].envelope.transaction]),
           Len(ExecuteAll(p.store, Calls(decoded)).commitment) <= MaxWrites
    PROVE  LET p1 == ExecuteDecoded(p, n, decoded, now1)
               q1 == ExecuteDecoded(q, n, decoded, now2)
           IN  CopyOK(p1, n) /\ CopyOK(q1, n) /\ Alike(p1, q1)
<1> DEFINE p1 == ExecuteDecoded(p, n, decoded, now1)
           q1 == ExecuteDecoded(q, n, decoded, now2)
           calls == Calls(decoded)
           votes == Votes(decoded)
           store == ExecuteAll(p.store, calls)
           m1 == Minted(p, n, store, decoded, now1)
           m2 == Minted(q, n, store, decoded, now2)
<1>1. calls \in Seq(OneOf("Execute")) /\ votes \in Seq(OneOf("Attest")) /\ Len(calls) \in Nat
  BY OfKindProperties, LenProperties DEF Calls, Votes
<1>2. /\ HistoryOK(p.store) /\ p.store = q.store /\ p.executed = q.executed
      /\ p.certifier \in CheckpointCertifier /\ q.certifier \in CheckpointCertifier
      /\ AnchorsIn(p.certifier, n - 1) /\ AnchorsIn(q.certifier, n - 1)
      /\ SameButTimings(p.certifier, q.certifier) /\ MeansAgree(p.certifier, q.certifier)
      /\ p.executed \in Nat
  BY DEF CopyOK, CopyStates, Alike
<1>3. HistoryOK(store)
  <2> HIDE DEF calls
  <2>1. /\ CreateFreshIds(p.store, [i \in DOMAIN calls |-> calls[i].envelope.transaction])
        /\ Len(ExecuteAll(p.store, calls).commitment) <= MaxWrites
    BY DEF calls
  <2> QED
    BY <1>1, <1>2, <2>1, ExecuteAllOK
<1>4. store.commitment \in Histories /\ store \in Stores
  BY <1>3 DEF HistoryOK, StoreOK
<1>5. m1 \in CheckpointCertifier /\ m2 \in CheckpointCertifier
  <2> HIDE DEF store
  <2> QED
    BY <1>2, <1>4, MintedProperties
<1>6. SameButTimings(m1, m2) /\ MeansAgree(m1, m2) /\ AnchorsIn(m1, n) /\ AnchorsIn(m2, n)
  <2> HIDE DEF store
  <2> QED
    BY <1>2, <1>4, MintedAlike
<1>7. /\ p1 = [store |-> store, certifier |-> RecordAll(m1, n, votes),
               executed |-> p.executed + Len(calls)]
      /\ q1 = [store |-> store, certifier |-> RecordAll(m2, n, votes),
               executed |-> q.executed + Len(calls)]
  BY <1>2 DEF ExecuteDecoded
<1> HIDE DEF p1, q1, m1, m2, votes, calls, store
<1>8. /\ RecordAll(m1, n, votes) \in CheckpointCertifier
      /\ RecordAll(m2, n, votes) \in CheckpointCertifier
      /\ Carried(m1, RecordAll(m1, n, votes)) /\ Carried(m2, RecordAll(m2, n, votes))
      /\ SameButTimings(RecordAll(m1, n, votes), RecordAll(m2, n, votes))
  BY <1>1, <1>5, <1>6, RecordAllProperties
<1> DEFINE d1 == RecordAll(m1, n, votes)
           d2 == RecordAll(m2, n, votes)
<1>9. MeansAgree(d1, d2) /\ AnchorsIn(d1, n) /\ AnchorsIn(d2, n)
  BY <1>6, <1>8, CarriedAgree
<1> HIDE DEF d1, d2
<1>10. /\ p1 = [store |-> store, certifier |-> d1, executed |-> p.executed + Len(calls)]
       /\ q1 = [store |-> store, certifier |-> d2, executed |-> p.executed + Len(calls)]
       /\ d1 \in CheckpointCertifier /\ d2 \in CheckpointCertifier
       /\ SameButTimings(d1, d2)
  BY <1>2, <1>7, <1>8 DEF d1, d2
<1>11. p.executed + Len(calls) \in Nat
  BY <1>1, <1>2
<1>12. /\ p1.store = store /\ p1.certifier = d1 /\ q1.store = store /\ q1.certifier = d2
       /\ p1.executed = q1.executed
       /\ p1 \in CopyStates /\ q1 \in CopyStates
  BY <1>4, <1>10, <1>11 DEF CopyStates
<1>13. CopyOK(p1, n) /\ CopyOK(q1, n)
  BY <1>3, <1>9, <1>12 DEF CopyOK
<1>14. Alike(p1, q1)
  BY <1>9, <1>10, <1>12 DEF Alike
<1> QED
  BY <1>13, <1>14 DEF p1, q1

(***************************************************************************)
(* The payloads that consensus commits: submissions, and votes for         *)
(* sub-dags before (envelope.rs:22-57).                                    *)
(***************************************************************************)
LEMMA PayloadType ==
    ASSUME LogOK
    PROVE  Submissions \cup VotesInReach \subseteq Payload
<1>1. Submissions \subseteq Payload
  BY SubdagsAssumption DEF Submission, Payload
<1>2. ASSUME NEW b \in VotesInReach PROVE b \in Payload
  <2>1. Len(log) \in Nat /\ DOMAIN log = 1..Len(log) /\ Len(log) <= MaxSubdag
        /\ \A m \in 1..Len(log) : log[m] \in LogRecord
    BY LenProperties, ElementOfSeq, RoundAssumption DEF LogOK
  <2>2. << >> \in Histories
    BY EmptyStoreOK DEF HistoryOK, EmptyStore
  <2>3. PICK n \in DOMAIN log, c \in {<< >>} \cup {log[m].commitment : m \in DOMAIN log} :
            b = ToBytes(Attest(VoteStamp, [anchor |-> n, commitment |-> c]), AttestationSize)
    <3> DEFINE C == {<< >>} \cup {log[m].commitment : m \in DOMAIN log}
    <3>1. VotesInReach =
              {ToBytes(Attest(VoteStamp, [anchor |-> m, commitment |-> e]), AttestationSize) :
                   m \in DOMAIN log, e \in C}
      BY DEF VotesInReach
    <3> HIDE DEF C
    <3>2. \E m \in DOMAIN log, e \in C :
              b = ToBytes(Attest(VoteStamp, [anchor |-> m, commitment |-> e]), AttestationSize)
      BY <1>2, <3>1
    <3> QED
      BY <3>2 DEF C
  <2>4. c \in Commitments
    BY <2>1, <2>2, <2>3, SubdagsAssumption DEF LogRecord
  <2>5. n \in Anchors
    BY <2>1, RoundAssumption DEF Anchors
  <2>6. [anchor |-> n, commitment |-> c] \in Checkpoint
    BY <2>4, <2>5 DEF Checkpoint
  <2>7. Attest(VoteStamp, [anchor |-> n, commitment |-> c]) \in Attestation
    BY <2>6, SubdagsAssumption DEF Attest, Attestation
  <2> QED
    BY <2>3, <2>7 DEF ToBytes, Payload, AttestationSize
<1> QED
  BY <1>1, <1>2

\* The choices of Next.
Chosen(shape, authors, payloads) ==
    /\ shape \in Shapes
    /\ authors \in [DOMAIN shape -> Authorities]
    /\ payloads \in [DOMAIN shape -> UNION {[1..k -> Submissions \cup VotesInReach] :
                                                k \in Range(shape)}]
    /\ \A i \in DOMAIN shape : Len(payloads[i]) = shape[i]

(***************************************************************************)
(* The blocks of a committed sub-dag, in canonical order.                  *)
(***************************************************************************)
LEMMA BlocksType ==
    ASSUME LogOK, NEW shape, NEW authors, NEW payloads, Chosen(shape, authors, payloads)
    PROVE  LET blocks == BlocksOf(authors, payloads)
           IN  /\ blocks \in Seq(Block) /\ Len(blocks) = Len(shape)
               /\ \A i \in 1..Len(blocks) :
                      /\ blocks[i].place = i
                      /\ Len(blocks[i].payloads) = shape[i]
                      /\ \A j \in 1..shape[i] :
                             blocks[i].payloads[j] \in Submissions \cup VotesInReach
<1> DEFINE blocks == BlocksOf(authors, payloads)
           n == Len(shape)
<1>1. /\ shape \in Seq(Nat) /\ n \in Nat /\ DOMAIN shape = 1..n
      /\ \A i \in 1..n : shape[i] \in Nat
  BY SubdagsAssumption, LenProperties, ElementOfSeq DEF Chosen
<1>2. /\ DOMAIN authors = 1..n /\ \A i \in 1..n : authors[i] \in Authorities
  BY <1>1 DEF Chosen
<1>3. \A i \in 1..n :
          /\ payloads[i] \in Seq(Payload) /\ Len(payloads[i]) = shape[i]
          /\ \A j \in 1..shape[i] : payloads[i][j] \in Submissions \cup VotesInReach
  <2> TAKE i \in 1..n
  <2>1. payloads[i] \in UNION {[1..k -> Submissions \cup VotesInReach] : k \in Range(shape)}
    BY <1>1 DEF Chosen
  <2>2. PICK k \in Range(shape) : payloads[i] \in [1..k -> Submissions \cup VotesInReach]
    BY <2>1
  <2>3. k \in Nat
    BY <1>1 DEF Range
  <2>4. Submissions \cup VotesInReach \subseteq Payload
    BY PayloadType
  <2>5. payloads[i] \in [1..k -> Payload]
    BY <2>2, <2>4
  <2>6. payloads[i] \in Seq(Payload)
    BY <2>3, <2>5
  <2>7. Len(payloads[i]) = shape[i] /\ Len(payloads[i]) = k
    <3>1. Len(payloads[i]) = k
      BY <2>3, <2>5
    <3> QED
      BY <1>1, <3>1 DEF Chosen
  <2> QED
    BY <2>2, <2>6, <2>7
<1>4. blocks = [i \in 1..n |-> [place |-> i, author |-> authors[i], payloads |-> payloads[i]]]
  BY <1>2 DEF BlocksOf
<1> HIDE DEF blocks, n
<1>5. blocks \in [1..n -> Block]
  BY <1>1, <1>2, <1>3, <1>4 DEF Block
<1>6. blocks \in Seq(Block) /\ Len(blocks) = n
  BY <1>1, <1>5
<1>7. \A i \in 1..n : blocks[i].place = i /\ blocks[i].payloads = payloads[i]
  BY <1>4
<1> QED
  BY <1>3, <1>6, <1>7 DEF blocks, n

(***************************************************************************)
(* What the log keeps of a sub-dag.                                        *)
(***************************************************************************)
LEMMA SummaryType ==
    ASSUME NEW blocks, Decoded(blocks) \in Seq(Attributed), NEW before, NEW after \in Histories
    PROVE  Summary(blocks, before, after) \in LogRecord
<1> DEFINE calls == Calls(Decoded(blocks))
           votes == Votes(Decoded(blocks))
           effect == IF calls = << >> THEN "nothing"
                     ELSE IF before = after THEN "aborts" ELSE "writes"
           recorded == [i \in DOMAIN votes |-> [author |-> votes[i].author,
                                                checkpoint |-> votes[i].envelope.checkpoint]]
           stamps == {calls[i].envelope.timestamp_ms : i \in DOMAIN calls}
<1>1. calls \in Seq(OneOf("Execute")) /\ votes \in Seq(OneOf("Attest"))
  BY OfKindProperties DEF Calls, Votes
<1>2. /\ DOMAIN calls = 1..Len(calls) /\ \A i \in 1..Len(calls) : calls[i] \in OneOf("Execute")
      /\ Len(votes) \in Nat /\ DOMAIN votes = 1..Len(votes)
      /\ \A i \in 1..Len(votes) : votes[i] \in OneOf("Attest")
  BY <1>1, LenProperties, ElementOfSeq
<1>3. Summary(blocks, before, after) =
          [effect |-> effect, votes |-> recorded, stamps |-> stamps, commitment |-> after]
  BY DEF Summary
<1>4. effect \in Effects
  BY DEF Effects
<1> HIDE DEF calls, votes, effect
<1>5. recorded \in Seq(Vote)
  <2>1. recorded \in [1..Len(votes) -> Vote]
    BY <1>2, KindsOfEnvelopes DEF Vote, Attestation
  <2> HIDE DEF recorded
  <2> QED
    BY <1>2, <2>1
<1>6. stamps \in SUBSET Stamps
  BY <1>2, KindsOfEnvelopes DEF ExecuteEnvelope
<1> HIDE DEF recorded, stamps
<1> QED
  BY <1>3, <1>4, <1>5, <1>6 DEF LogRecord

\* What a vote may be for: a sub-dag of the log, and a commitment it reached.
InReach(checkpoint) ==
    /\ checkpoint.anchor \in DOMAIN log
    /\ checkpoint.commitment \in {<< >>} \cup {log[m].commitment : m \in DOMAIN log}

(***************************************************************************)
(* A delivery, as what both copies execute: the same decoded payloads, in  *)
(* canonical order, which hold as many as the shape says                   *)
(* (validator.rs:186-251).                                                 *)
(***************************************************************************)
LEMMA Delivered ==
    ASSUME Inv, Next
    PROVE  \E shape \in Shapes, blocks \in Seq(Block) :
               LET n == Len(log) + 1
                   decoded == Decoded(blocks)
               IN  /\ n \in Anchors
                   /\ decoded \in Seq(Attributed)
                   /\ \A w \in Nat : (\A i \in 1..Len(shape) : shape[i] <= w) =>
                                         Len(decoded) <= Len(shape) * w
                   /\ \A k \in 1..Len(Calls(decoded)) :
                          \E s \in Submissions : Calls(decoded)[k].envelope = s.envelope
                   /\ \A k \in 1..Len(Votes(decoded)) :
                          InReach(Votes(decoded)[k].envelope.checkpoint)
                   /\ CreateFreshIds(state["live"].store,
                                     [i \in DOMAIN Calls(decoded) |->
                                         Calls(decoded)[i].envelope.transaction])
                   /\ Len(ExecuteAll(state["live"].store, Calls(decoded)).commitment) <= MaxWrites
                   /\ state' = [copy \in Copies |->
                                   ExecuteDecoded(state[copy], n, decoded, Clock(copy, n))]
                   /\ log' = Append(log, Summary(blocks, state["live"].store.commitment,
                                                 state'["live"].store.commitment))
<1>1. PICK shape \in Shapes :
           \E authors \in [DOMAIN shape -> Authorities],
              payloads \in [DOMAIN shape -> UNION {[1..k -> Submissions \cup VotesInReach] :
                                                       k \in Range(shape)}] :
                  /\ \A i \in DOMAIN shape : Len(payloads[i]) = shape[i]
                  /\ Deliver(BlocksOf(authors, payloads))
  BY DEF Next
<1>2. PICK authors, payloads : /\ Chosen(shape, authors, payloads)
                               /\ Deliver(BlocksOf(authors, payloads))
  BY <1>1 DEF Chosen
<1> DEFINE blocks == BlocksOf(authors, payloads)
           n == Len(log) + 1
           decoded == Decoded(blocks)
           before == state["live"].store
<1>3. LogOK
  BY DEF Inv
<1>4. /\ blocks \in Seq(Block) /\ Len(blocks) = Len(shape)
      /\ \A i \in 1..Len(blocks) :
             /\ blocks[i].place = i
             /\ Len(blocks[i].payloads) = shape[i]
             /\ \A j \in 1..shape[i] : blocks[i].payloads[j] \in Submissions \cup VotesInReach
  BY <1>2, <1>3, BlocksType
<1>5. Deliver(blocks)
  BY <1>2
<1> HIDE DEF blocks
<1>6. /\ n <= MaxSubdag
      /\ CreateFreshIds(before, [i \in DOMAIN Calls(decoded) |->
                                    Calls(decoded)[i].envelope.transaction])
      /\ Len(ExecuteAll(before, Calls(decoded)).commitment) <= MaxWrites
      /\ log' = Append(log, Summary(blocks, before.commitment, state'["live"].store.commitment))
  BY <1>5 DEF Deliver
<1>7. PICK order \in [Copies -> Orders(Len(blocks))] :
           state' = [copy \in Copies |->
                        ExecuteBlocks(state[copy], n,
                                      [i \in DOMAIN blocks |-> blocks[order[copy][i]]],
                                      Clock(copy, n))]
  BY <1>5 DEF Deliver
<1>8. \A copy \in Copies :
          ExecuteBlocks(state[copy], n, [i \in DOMAIN blocks |-> blocks[order[copy][i]]],
                        Clock(copy, n)) =
              ExecuteDecoded(state[copy], n, decoded, Clock(copy, n))
  <2> TAKE copy \in Copies
  <2>1. order[copy] \in Orders(Len(blocks))
    BY <1>7
  <2>2. PICK o \in Orders(Len(blocks)) : o = order[copy]
    BY <2>1
  <2>3. PICK received : received = [i \in DOMAIN blocks |-> blocks[o[i]]]
    OBVIOUS
  <2>4. \A i \in 1..Len(blocks) : blocks[i].place = i
    BY <1>4
  <2>5. \A p, m, now : ExecuteBlocks(p, m, received, now) =
                           ExecuteDecoded(p, m, Decoded(blocks), now)
    BY <1>4, <2>2, <2>3, <2>4, OrderIsForgotten
  <2>6. ExecuteBlocks(state[copy], n, received, Clock(copy, n)) =
            ExecuteDecoded(state[copy], n, decoded, Clock(copy, n))
    BY <2>5
  <2> QED
    BY <2>2, <2>3, <2>6
<1>9. state' = [copy \in Copies |-> ExecuteDecoded(state[copy], n, decoded, Clock(copy, n))]
  BY <1>7, <1>8
<1>10. n \in Anchors
  BY <1>3, <1>6, RoundAssumption DEF LogOK, Anchors
<1>11. \A w \in Nat : (\A i \in 1..Len(shape) : shape[i] <= w) =>
                          Len(decoded) <= Len(shape) * w
  <2> SUFFICES ASSUME NEW w \in Nat, \A i \in 1..Len(shape) : shape[i] <= w
               PROVE  Len(decoded) <= Len(shape) * w
    OBVIOUS
  <2>1. \A i \in 1..Len(blocks) : Len(blocks[i].payloads) <= w
    BY <1>4
  <2>2. Len(decoded) <= Len(blocks) * w
    BY <1>4, <2>1, DecodedProperties
  <2> QED
    BY <1>4, <2>2
<1>12. /\ decoded \in Seq(Attributed)
       /\ \A k \in 1..Len(decoded) : \E i \in 1..Len(blocks) :
              \E j \in 1..Len(blocks[i].payloads) :
                  decoded[k].envelope = FromBytes(blocks[i].payloads[j])
  <2>1. \A i \in 1..Len(blocks) : Len(blocks[i].payloads) \in Nat
    BY <1>4, ElementOfSeq, LenProperties DEF Block
  <2> DEFINE f == [i \in 1..Len(blocks) |-> Len(blocks[i].payloads)]
  <2>2. f \in [1..Len(blocks) -> Nat] /\ Len(blocks) \in Nat
    BY <1>4, <2>1, LenProperties
  <2>3. PICK w \in Nat : \A i \in 1..Len(blocks) : f[i] <= w
    <3> HIDE DEF f
    <3> QED
      BY <2>2, FiniteRangeIsBounded
  <2>4. \A i \in 1..Len(blocks) : Len(blocks[i].payloads) <= w
    BY <2>3
  <2> QED
    BY <1>4, <2>4, DecodedProperties
<1>13. \A k \in 1..Len(Calls(decoded)) :
           \E s \in Submissions : Calls(decoded)[k].envelope = s.envelope
  <2> HIDE DEF decoded
  <2> TAKE k \in 1..Len(Calls(decoded))
  <2>1. PICK d : d = Calls(decoded)[k]
    OBVIOUS
  <2>2. d \in OneOf("Execute") /\ \E l \in 1..Len(decoded) : d = decoded[l]
    <3>1. decoded \in Seq(Attributed) /\ d = OfKind("Execute", decoded)[k]
          /\ k \in 1..Len(OfKind("Execute", decoded))
      BY <1>12, <2>1 DEF Calls
    <3>2. OfKind("Execute", decoded) \in Seq(OneOf("Execute"))
      BY <3>1, OfKindProperties
    <3>3. \E l \in 1..Len(decoded) : OfKind("Execute", decoded)[k] = decoded[l]
      BY <3>1, OfKindProperties
    <3> QED
      BY <3>1, <3>2, <3>3, ElementOfSeq
  <2>3. PICK l \in 1..Len(decoded) : d = decoded[l]
    BY <2>2
  <2>4. PICK i \in 1..Len(blocks) : \E j \in 1..Len(blocks[i].payloads) :
            d.envelope = FromBytes(blocks[i].payloads[j])
    BY <1>12, <2>3
  <2>5. PICK j \in 1..Len(blocks[i].payloads) :
            d.envelope = FromBytes(blocks[i].payloads[j])
    BY <2>4
  <2>6. d.envelope # None /\ d.envelope.payload = "Execute"
    BY <2>2 DEF OneOf
  <2>7. d.envelope = blocks[i].payloads[j].envelope
    BY <2>5, <2>6 DEF FromBytes
  <2>8. blocks[i].payloads[j] \in Submissions \cup VotesInReach
    BY <1>4
  <2>9. \A b \in VotesInReach : b.envelope.payload = "Attest"
    BY DEF VotesInReach, ToBytes, Attest
  <2>10. blocks[i].payloads[j] \in Submissions
    BY <2>6, <2>7, <2>8, <2>9
  <2> QED
    BY <2>1, <2>7, <2>10
<1>14. \A k \in 1..Len(Votes(decoded)) : InReach(Votes(decoded)[k].envelope.checkpoint)
  <2> HIDE DEF decoded
  <2> TAKE k \in 1..Len(Votes(decoded))
  <2>1. PICK d : d = Votes(decoded)[k]
    OBVIOUS
  <2>2. d \in OneOf("Attest") /\ \E l \in 1..Len(decoded) : d = decoded[l]
    <3>1. decoded \in Seq(Attributed) /\ d = OfKind("Attest", decoded)[k]
          /\ k \in 1..Len(OfKind("Attest", decoded))
      BY <1>12, <2>1 DEF Votes
    <3>2. OfKind("Attest", decoded) \in Seq(OneOf("Attest"))
      BY <3>1, OfKindProperties
    <3>3. \E l \in 1..Len(decoded) : OfKind("Attest", decoded)[k] = decoded[l]
      BY <3>1, OfKindProperties
    <3> QED
      BY <3>1, <3>2, <3>3, ElementOfSeq
  <2>3. PICK l \in 1..Len(decoded) : d = decoded[l]
    BY <2>2
  <2>4. PICK i \in 1..Len(blocks) : \E j \in 1..Len(blocks[i].payloads) :
            d.envelope = FromBytes(blocks[i].payloads[j])
    BY <1>12, <2>3
  <2>5. PICK j \in 1..Len(blocks[i].payloads) :
            d.envelope = FromBytes(blocks[i].payloads[j])
    BY <2>4
  <2>6. d.envelope # None /\ d.envelope.payload = "Attest"
    BY <2>2 DEF OneOf
  <2>7. d.envelope = blocks[i].payloads[j].envelope
    BY <2>5, <2>6 DEF FromBytes
  <2>8. blocks[i].payloads[j] \in Submissions \cup VotesInReach
    BY <1>4
  <2>9. \A s \in Submissions : s.envelope # None => s.envelope.payload = "Execute"
    BY SubdagsAssumption DEF Submission, ExecuteEnvelope
  <2>10. blocks[i].payloads[j] \in VotesInReach
    BY <2>6, <2>7, <2>8, <2>9
  <2>11. \A b \in VotesInReach : InReach(b.envelope.checkpoint)
    BY DEF VotesInReach, ToBytes, Attest, InReach
  <2> QED
    BY <2>1, <2>7, <2>10, <2>11
<1> QED
  BY <1>4, <1>6, <1>9, <1>10, <1>11, <1>12, <1>13, <1>14

(***************************************************************************)
(* The clock of a delivery is a number of sub-dags (validator.rs:245).     *)
(***************************************************************************)
LEMMA ClockType ==
    ASSUME NEW n \in Anchors, NEW copy
    PROVE  Clock(copy, n) \in 0..MaxSubdag
  BY RoundAssumption DEF Clock, Anchors

(***************************************************************************)
(* Initially both copies are new (validator.rs:103-126).                   *)
(***************************************************************************)
LEMMA InitInv == Init => Inv
<1> SUFFICES ASSUME Init PROVE Inv
  OBVIOUS
<1> DEFINE p == [store |-> EmptyStore, certifier |-> NewCertifier, executed |-> 0]
<1>1. log = << >> /\ state["live"] = p /\ state["replayed"] = p
  BY DEF Init, Copies
<1>2. LogOK
  BY <1>1, EmptySeq, RoundAssumption DEF LogOK
<1>3. NewCertifier \in CheckpointCertifier /\ Len(NewCertifier.pending) = 0
  BY EmptySeq DEF NewCertifier, CheckpointCertifier
<1>4. HistoryOK(EmptyStore) /\ EmptyStore \in Stores
  BY EmptyStoreOK DEF HistoryOK, StoreOK
<1>5. p.store = EmptyStore /\ p.certifier = NewCertifier /\ p.executed = 0 /\ p \in CopyStates
  BY <1>3, <1>4 DEF CopyStates
<1>6. Len(log) = 0
  BY <1>1, EmptySeq
<1> HIDE DEF p
<1>7. \A i \in 1..Len(NewCertifier.pending) : FALSE
  BY <1>3
<1>8. CopyOK(p, Len(log))
  BY <1>4, <1>5, <1>7 DEF CopyOK, AnchorsIn
<1>9. Alike(p, p)
  BY <1>5, <1>7 DEF Alike, SameButTimings, MeansAgree
<1> QED
  BY <1>1, <1>2, <1>8, <1>9 DEF Inv

(***************************************************************************)
(* Every delivery keeps the invariant (validator.rs:186-251).              *)
(***************************************************************************)
LEMMA NextInv == Inv /\ [Next]_vars => Inv'
<1> SUFFICES ASSUME Inv, [Next]_vars PROVE Inv'
  OBVIOUS
<1>1. CASE UNCHANGED vars
  BY <1>1 DEF vars, Inv, LogOK
<1>2. CASE Next
  <2> DEFINE n == Len(log) + 1
             p == state["live"]
             q == state["replayed"]
  <2>1. PICK shape \in Shapes, blocks \in Seq(Block) :
             LET decoded == Decoded(blocks)
             IN  /\ n \in Anchors
                 /\ decoded \in Seq(Attributed)
                 /\ CreateFreshIds(p.store, [i \in DOMAIN Calls(decoded) |->
                                                Calls(decoded)[i].envelope.transaction])
                 /\ Len(ExecuteAll(p.store, Calls(decoded)).commitment) <= MaxWrites
                 /\ state' = [copy \in Copies |->
                                 ExecuteDecoded(state[copy], n, decoded, Clock(copy, n))]
                 /\ log' = Append(log, Summary(blocks, p.store.commitment,
                                               state'["live"].store.commitment))
    BY <1>2, Delivered
  <2> DEFINE decoded == Decoded(blocks)
             p1 == ExecuteDecoded(p, n, decoded, Clock("live", n))
             q1 == ExecuteDecoded(q, n, decoded, Clock("replayed", n))
  <2>2. /\ log \in Seq(LogRecord) /\ Len(log) \in Nat
        /\ CopyOK(p, Len(log)) /\ CopyOK(q, Len(log)) /\ Alike(p, q)
    BY RoundAssumption, LenProperties DEF Inv, LogOK
  <2>3. state'["live"] = p1 /\ state'["replayed"] = q1
    BY <2>1 DEF Copies
  <2>4. n - 1 = Len(log) /\ n \in Anchors
    BY <2>1, <2>2
  <2>5. PICK now1 \in 0..MaxSubdag, now2 \in 0..MaxSubdag :
            now1 = Clock("live", n) /\ now2 = Clock("replayed", n)
    BY <2>4, ClockType
  <2>6. CopyOK(p1, n) /\ CopyOK(q1, n) /\ Alike(p1, q1)
    <3>1. PICK m \in Anchors : m = n
      BY <2>4
    <3>2. CopyOK(p, m - 1) /\ CopyOK(q, m - 1)
      BY <2>2, <2>4, <3>1
    <3> HIDE DEF n, p, q
    <3>3. LET p2 == ExecuteDecoded(p, m, decoded, now1)
              q2 == ExecuteDecoded(q, m, decoded, now2)
          IN  CopyOK(p2, m) /\ CopyOK(q2, m) /\ Alike(p2, q2)
      BY <2>1, <2>2, <3>2, ExecutedAlike
    <3> QED
      BY <2>5, <3>1, <3>3
  <2>7. p1.store.commitment \in Histories
    BY <2>6 DEF CopyOK, HistoryOK
  <2>8. Summary(blocks, p.store.commitment, p1.store.commitment) \in LogRecord
    <3> HIDE DEF p1, p
    <3> QED
      BY <2>1, <2>7, SummaryType
  <2>9. /\ log' = Append(log, Summary(blocks, p.store.commitment, p1.store.commitment))
        /\ Len(log) + 1 \in 1..MaxSubdag
    BY <2>1, <2>3, <2>4 DEF Anchors
  <2> HIDE DEF p1, q1, p, q
  <2>10. log' \in Seq(LogRecord) /\ Len(log') = Len(log) + 1
    BY <2>2, <2>8, <2>9
  <2>11. LogOK'
    BY <2>9, <2>10 DEF LogOK
  <2>12. n = Len(log')
    BY <2>10
  <2> HIDE DEF n
  <2>13. /\ CopyOK(state'["live"], Len(log')) /\ CopyOK(state'["replayed"], Len(log'))
         /\ Alike(state'["live"], state'["replayed"])
    BY <2>3, <2>6, <2>12
  <2> QED
    BY <2>11, <2>13 DEF Inv
<1> QED
  BY <1>1, <1>2

(***************************************************************************)
(* The invariant holds in every reachable state.                           *)
(***************************************************************************)
LEMMA SpecInv == Spec => []Inv
  BY InitInv, NextInv, PTL DEF Spec

(***************************************************************************)
(* The store, certifier and count of both copies are well formed: every    *)
(* commitment is a history of writes that a checkpoint may commit to, and  *)
(* every mean a stamp (validator.rs:268-329).                              *)
(***************************************************************************)
THEOREM SubdagsType == Spec => []TypeOK
<1>1. Inv => TypeOK
  <2> SUFFICES ASSUME Inv PROVE TypeOK
    OBVIOUS
  <2>1. Len(log) <= MaxSubdag
    BY RoundAssumption DEF Inv, LogOK
  <2>2. \A copy \in Copies : CopyOK(state[copy], Len(log))
    BY DEF Inv, Copies
  <2>3. ASSUME NEW copy \in Copies
        PROVE  /\ state[copy].store \in [objects : SUBSET Object, latest : [ObjectIds -> Version],
                                         commitment : Commitments]
               /\ state[copy].certifier \in CheckpointCertifier
               /\ state[copy].executed \in Nat
    <3>1. CopyOK(state[copy], Len(log))
      BY <2>2
    <3>2. /\ state[copy].store \in Stores /\ state[copy].store.commitment \in Commitments
          /\ state[copy].certifier \in CheckpointCertifier
          /\ state[copy].executed \in Nat
      BY <3>1, SubdagsAssumption DEF CopyOK, CopyStates, HistoryOK
    <3> QED
      BY <3>2 DEF Stores
  <2> QED
    BY <2>1, <2>3 DEF TypeOK
<1> QED
  BY <1>1, SpecInv, PTL

(***************************************************************************)
(* Two validators that executed one log hold the same store, count, window *)
(* and certificates, whatever order the blocks of its sub-dags reached     *)
(* them in (validator.rs:219-221 and 261-264).                             *)
(***************************************************************************)
THEOREM OneLogOneState == Spec => []BlockOrderIsImmaterial
<1>1. Inv => BlockOrderIsImmaterial
  <2> SUFFICES ASSUME Inv PROVE Undated(state["live"]) = Undated(state["replayed"])
    BY DEF BlockOrderIsImmaterial
  <2> DEFINE p == state["live"]
             q == state["replayed"]
             undated(entry) == [entry EXCEPT !.timings.minted_at = 0]
             window(c) == [i \in DOMAIN c.pending |-> undated(c.pending[i])]
  <2>1. /\ p \in CopyStates /\ q \in CopyStates
        /\ p.store = q.store /\ p.executed = q.executed
        /\ SameButTimings(p.certifier, q.certifier) /\ MeansAgree(p.certifier, q.certifier)
    BY DEF Inv, CopyOK, Alike
  <2>2. p.certifier \in CheckpointCertifier /\ q.certifier \in CheckpointCertifier
    BY <2>1 DEF CopyStates
  <2> HIDE DEF p, q
  <2>3. PICK c \in CheckpointCertifier, d \in CheckpointCertifier :
            c = p.certifier /\ d = q.certifier
    BY <2>2
  <2>4. /\ DOMAIN c.pending = 1..Len(c.pending) /\ DOMAIN d.pending = 1..Len(c.pending)
        /\ \A i \in 1..Len(c.pending) : /\ c.pending[i] \in PendingCheckpoint
                                        /\ d.pending[i] \in PendingCheckpoint
        /\ Len(c.pending) = Len(d.pending) /\ c.watermark = d.watermark
    <3>1. Len(c.pending) = Len(d.pending) /\ c.watermark = d.watermark
      BY <2>1, <2>3 DEF SameButTimings
    <3>2. c.pending \in Seq(PendingCheckpoint) /\ d.pending \in Seq(PendingCheckpoint)
      BY DEF CheckpointCertifier
    <3> QED
      BY <3>1, <3>2, LenProperties, ElementOfSeq
  <2>5. ASSUME NEW i \in 1..Len(c.pending)
        PROVE  undated(c.pending[i]) = undated(d.pending[i])
    <3>1. PICK e \in PendingCheckpoint, f \in PendingCheckpoint :
              e = c.pending[i] /\ f = d.pending[i]
      BY <2>4
    <3>2. e.local = f.local /\ e.accumulators = f.accumulators /\ e.certificate = f.certificate
      BY <2>1, <2>3, <3>1 DEF SameButTimings, SameEntry
    <3>3. e.timings.mean_timestamp_ms = f.timings.mean_timestamp_ms
      <4>1. i \in 1..Len(d.pending)
        BY <2>4
      <4> QED
        BY <2>1, <2>3, <3>1, <3>2, <4>1 DEF MeansAgree
    <3>4. e.timings \in CheckpointTimings /\ f.timings \in CheckpointTimings
      BY SubdagsAssumption DEF PendingCheckpoint
    <3>5. [e.timings EXCEPT !.minted_at = 0] = [f.timings EXCEPT !.minted_at = 0]
      BY <3>3, <3>4 DEF CheckpointTimings
    <3>6. undated(e) = undated(f)
      BY <3>2, <3>5 DEF PendingCheckpoint
    <3> QED
      BY <3>1, <3>6
  <2>6. window(c) = window(d)
    <3> HIDE DEF undated
    <3> QED
      BY <2>4, <2>5
  <2>7. [c EXCEPT !.pending = window(c)] = [d EXCEPT !.pending = window(d)]
    <3> HIDE DEF window
    <3> QED
      BY <2>4, <2>6 DEF CheckpointCertifier
  <2>8. /\ Undated(p) = [p EXCEPT !.certifier = [c EXCEPT !.pending = window(c)]]
        /\ Undated(q) = [q EXCEPT !.certifier = [d EXCEPT !.pending = window(d)]]
    BY <2>1, <2>3 DEF Undated, CopyStates, CheckpointCertifier
  <2>9. Undated(p) = Undated(q)
    <3> HIDE DEF window
    <3> QED
      BY <2>1, <2>7, <2>8 DEF CopyStates
  <2> QED
    BY <2>9 DEF p, q
<1> QED
  BY <1>1, SpecInv, PTL
-----------------------------------------------------------------------------
(***************************************************************************)
(* The stamps of a sub-dag do not overflow: with at most so many blocks of *)
(* at most so many payloads, each submitted by some time, even the sum of  *)
(* them all is in range. (The sum of validator.rs:298 is unchecked.)       *)
(***************************************************************************)
StampsFit(height, width, top) ==
    /\ \A shape \in Shapes : /\ Len(shape) <= height
                             /\ \A i \in 1..Len(shape) : shape[i] <= width
    /\ \A s \in Submissions : s.envelope # None => s.envelope.timestamp_ms <= top
    /\ (height * width) * top < StampRange

\* The stamps of the transactions of a sub-dag.
StampsOf(calls) == {calls[i].envelope.timestamp_ms : i \in DOMAIN calls}

(***************************************************************************)
(* A set of naturals with a bound has a least and a greatest element.      *)
(***************************************************************************)
LEMMA ExtremesOfNaturals ==
    ASSUME NEW n \in Nat, NEW s \in SUBSET (0..n), s # {}
    PROVE  /\ Min(s) \in s /\ Max(s) \in s
           /\ \A x \in s : Min(s) <= x /\ x <= Max(s)
<1>1. Max(s) \in s /\ \A x \in s : x <= Max(s)
  BY MaxOfNaturals
<1>2. \E x \in s : \A y \in s : x <= y
  <2>1. s \in SUBSET Nat
    OBVIOUS
  <2> QED
    BY <2>1, LeastElement
<1>3. Min(s) \in s /\ \A y \in s : Min(s) <= y
  BY <1>2 DEF Min
<1> QED
  BY <1>1, <1>3

(***************************************************************************)
(* The mean of a sub-dag lies between the earliest and the latest of its   *)
(* own stamps (validator.rs:308-313).                                      *)
(***************************************************************************)
LEMMA MeanOfOwnStamps ==
    ASSUME NEW decoded \in Seq(Attributed), Calls(decoded) # << >>,
           NEW size \in Nat, Len(decoded) <= size, NEW top \in Nat, size * top < StampRange,
           \A i \in 1..Len(Calls(decoded)) : Calls(decoded)[i].envelope.timestamp_ms <= top
    PROVE  MeanTimestamp(decoded) \in
               Min(StampsOf(Calls(decoded)))..Max(StampsOf(Calls(decoded)))
<1> DEFINE calls == Calls(decoded)
           n == Len(calls)
           stamps == StampsOf(calls)
<1>1. /\ calls \in Seq(OneOf("Execute")) /\ n \in Nat /\ DOMAIN calls = 1..n
      /\ n <= size /\ 1 \in 1..n
  <2>1. calls \in Seq(OneOf("Execute")) /\ n <= Len(decoded)
    BY OfKindProperties DEF Calls
  <2>2. n \in Nat /\ DOMAIN calls = 1..n /\ n # 0 /\ Len(decoded) \in Nat
    BY <2>1, LenProperties, EmptySeq
  <2> HIDE DEF calls, n
  <2> QED
    BY <2>1, <2>2
<1>2. \A i \in 1..n : /\ calls[i].envelope.timestamp_ms \in 0..top
  <2> TAKE i \in 1..n
  <2>1. calls[i] \in OneOf("Execute")
    BY <1>1, ElementOfSeq
  <2>2. calls[i].envelope.timestamp_ms \in Nat
    BY <2>1, AddStampType
  <2> QED
    BY <2>2
<1> HIDE DEF calls, n
<1>3. stamps \in SUBSET (0..top) /\ stamps # {}
  BY <1>1, <1>2 DEF StampsOf
<1>4. \A i \in 1..n : calls[i].envelope.timestamp_ms \in stamps
  BY <1>1 DEF StampsOf
<1> HIDE DEF stamps
<1>5. PICK lo \in 0..top, hi \in 0..top :
           /\ lo = Min(stamps) /\ hi = Max(stamps)
           /\ \A x \in stamps : lo <= x /\ x <= hi
  BY <1>3, ExtremesOfNaturals
<1>6. n * hi < StampRange
  <2>1. n * hi <= size * hi
    BY <1>1, <1>5, ProductGrows
  <2>2. size * hi <= size * top
    BY <1>5, ProductGrows
  <2>3. n * hi \in Nat /\ size * hi \in Nat /\ size * top \in Nat /\ StampRange \in Nat
    BY <1>1, <1>5, SubdagsAssumption
  <2>4. size * top < StampRange
    OBVIOUS
  <2> DEFINE x == n * hi
             y == size * hi
             z == size * top
  <2>5. x <= y /\ y <= z /\ z < StampRange /\ x \in Nat /\ y \in Nat /\ z \in Nat
    BY <2>1, <2>2, <2>3, <2>4
  <2> HIDE DEF x, y, z
  <2>6. x < StampRange
    BY <2>3, <2>5
  <2> QED
    BY <2>6 DEF x
<1>7. \A i \in 1..n : /\ lo <= calls[i].envelope.timestamp_ms
                      /\ calls[i].envelope.timestamp_ms <= hi
  BY <1>4, <1>5
<1>8. MeanTimestamp(decoded) \in lo..hi
  <2>1. lo \in Nat /\ hi \in Nat
    BY <1>5
  <2> QED
    BY <1>6, <1>7, <2>1, MeanBetween DEF n, calls
<1> QED
  BY <1>5, <1>8 DEF stamps, calls

\* The mean of every checkpoint in the window of a certifier, against a log.
WithinStamps(c, l) ==
    \A i \in 1..Len(c.pending) :
        c.pending[i].timings.mean_timestamp_ms \in
            Min(l[c.pending[i].local.anchor].stamps)..Max(l[c.pending[i].local.anchor].stamps)

(***************************************************************************)
(* Executing a sub-dag keeps the means of the window, and gives a new      *)
(* checkpoint the mean of the stamps the log has for it                    *)
(* (validator.rs:308-328).                                                 *)
(***************************************************************************)
LEMMA ExecutedWithinStamps ==
    ASSUME NEW p, NEW n \in Anchors, CopyOK(p, n - 1),
           NEW decoded \in Seq(Attributed), NEW now \in 0..MaxSubdag,
           CreateFreshIds(p.store, [i \in DOMAIN Calls(decoded) |->
                                       Calls(decoded)[i].envelope.transaction]),
           Len(ExecuteAll(p.store, Calls(decoded)).commitment) <= MaxWrites,
           NEW l, WithinStamps(p.certifier, l),
           Calls(decoded) # << >> =>
               MeanTimestamp(decoded) \in Min(l[n].stamps)..Max(l[n].stamps)
    PROVE  WithinStamps(ExecuteDecoded(p, n, decoded, now).certifier, l)
<1> DEFINE calls == Calls(decoded)
           votes == Votes(decoded)
           store == ExecuteAll(p.store, calls)
           c == p.certifier
           m == Minted(p, n, store, decoded, now)
           d == RecordAll(m, n, votes)
<1>1. calls \in Seq(OneOf("Execute")) /\ votes \in Seq(OneOf("Attest"))
  BY OfKindProperties DEF Calls, Votes
<1>2. HistoryOK(p.store) /\ c \in CheckpointCertifier
  BY DEF CopyOK, CopyStates
<1>3. store.commitment \in Histories
  <2> HIDE DEF calls
  <2>1. /\ CreateFreshIds(p.store, [i \in DOMAIN calls |-> calls[i].envelope.transaction])
        /\ Len(ExecuteAll(p.store, calls).commitment) <= MaxWrites
    BY DEF calls
  <2>2. HistoryOK(store)
    BY <1>1, <1>2, <2>1, ExecuteAllOK
  <2> QED
    BY <2>2 DEF HistoryOK
<1>4. /\ m \in CheckpointCertifier
      /\ \A i \in 1..Len(m.pending) :
             \/ \E j \in 1..Len(c.pending) : m.pending[i] = c.pending[j]
             \/ /\ Calls(decoded) # << >>
                /\ m.pending[i].local = [anchor |-> n, commitment |-> store.commitment]
                /\ m.pending[i].timings.mean_timestamp_ms = MeanTimestamp(decoded)
  <2> HIDE DEF store
  <2> QED
    BY <1>2, <1>3, MintedProperties
<1>5. ExecuteDecoded(p, n, decoded, now).certifier = d
  BY DEF ExecuteDecoded
<1> HIDE DEF votes, calls, store, m
<1>6. Carried(m, d)
  <2>1. SameButTimings(m, m)
    BY <1>4, LenProperties DEF SameButTimings, SameEntry
  <2> QED
    BY <1>1, <1>4, <2>1, RecordAllProperties
<1> HIDE DEF d, c
<1>7. WithinStamps(m, l)
  <2> SUFFICES ASSUME NEW i \in 1..Len(m.pending)
               PROVE  m.pending[i].timings.mean_timestamp_ms \in
                          Min(l[m.pending[i].local.anchor].stamps)..
                              Max(l[m.pending[i].local.anchor].stamps)
    BY DEF WithinStamps
  <2>1. CASE \E j \in 1..Len(c.pending) : m.pending[i] = c.pending[j]
    <3>1. PICK j \in 1..Len(c.pending) : m.pending[i] = c.pending[j]
      BY <2>1
    <3>2. WithinStamps(c, l)
      BY DEF c
    <3> QED
      BY <3>1, <3>2 DEF WithinStamps
  <2>2. CASE /\ Calls(decoded) # << >>
             /\ m.pending[i].local = [anchor |-> n, commitment |-> store.commitment]
             /\ m.pending[i].timings.mean_timestamp_ms = MeanTimestamp(decoded)
    BY <2>2
  <2> QED
    BY <1>4, <2>1, <2>2
<1>8. WithinStamps(d, l)
  BY <1>6, <1>7 DEF WithinStamps, Carried
<1> QED
  BY <1>5, <1>8

(***************************************************************************)
(* Every delivery keeps the means of both copies between the stamps that   *)
(* the log has for their sub-dags (validator.rs:186-251).                  *)
(***************************************************************************)
LEMMA NextWithinStamps ==
    ASSUME NEW height \in Nat, NEW width \in Nat, NEW top \in Nat, StampsFit(height, width, top),
           Inv, [Next]_vars, NEW copy \in Copies, WithinStamps(state[copy].certifier, log)
    PROVE  WithinStamps(state'[copy].certifier, log')
<1>1. CASE UNCHANGED vars
  BY <1>1 DEF vars
<1>2. CASE Next
  <2> DEFINE n == Len(log) + 1
             live == state["live"]
             p == state[copy]
  <2>1. PICK shape \in Shapes, blocks \in Seq(Block) :
             LET decoded == Decoded(blocks)
             IN  /\ n \in Anchors
                 /\ decoded \in Seq(Attributed)
                 /\ \A w \in Nat : (\A i \in 1..Len(shape) : shape[i] <= w) =>
                                       Len(decoded) <= Len(shape) * w
                 /\ \A k \in 1..Len(Calls(decoded)) :
                        \E s \in Submissions : Calls(decoded)[k].envelope = s.envelope
                 /\ CreateFreshIds(live.store, [i \in DOMAIN Calls(decoded) |->
                                                   Calls(decoded)[i].envelope.transaction])
                 /\ Len(ExecuteAll(live.store, Calls(decoded)).commitment) <= MaxWrites
                 /\ state' = [k \in Copies |->
                                 ExecuteDecoded(state[k], n, decoded, Clock(k, n))]
                 /\ log' = Append(log, Summary(blocks, live.store.commitment,
                                               state'["live"].store.commitment))
    BY <1>2, Delivered
  <2> DEFINE decoded == Decoded(blocks)
             calls == Calls(decoded)
             record == Summary(blocks, live.store.commitment, state'["live"].store.commitment)
  <2>2. /\ Len(log) \in Nat /\ log \in Seq(LogRecord)
        /\ CopyOK(p, Len(log)) /\ p.store = live.store
    BY RoundAssumption, LenProperties DEF Inv, LogOK, Copies, Alike
  <2>3. n \in Anchors /\ n - 1 = Len(log)
    BY <2>1, <2>2
  <2>4. record.stamps = StampsOf(calls)
    BY DEF Summary, StampsOf
  <2>5. state'[copy] = ExecuteDecoded(p, n, decoded, Clock(copy, n))
    BY <2>1
  <2>6. /\ CreateFreshIds(p.store, [i \in DOMAIN calls |-> calls[i].envelope.transaction])
        /\ Len(ExecuteAll(p.store, calls).commitment) <= MaxWrites
    BY <2>1, <2>2
  <2>7. \A k \in 1..Len(calls) : \E s \in Submissions : calls[k].envelope = s.envelope
    BY <2>1
  <2>8. decoded \in Seq(Attributed) /\ Len(decoded) <= Len(shape) * width
    <3>1. \A i \in 1..Len(shape) : shape[i] <= width
      BY DEF StampsFit
    <3> QED
      BY <2>1, <3>1
  <2>9. log' = Append(log, record)
    BY <2>1
  <2> HIDE DEF record, decoded, live, p
  <2>10. (\A a \in 1..Len(log) : log'[a] = log[a]) /\ log'[Len(log) + 1] = record
    BY <2>2, <2>9
  <2>11. PICK now \in 0..MaxSubdag : now = Clock(copy, n)
    BY <2>3, ClockType
  <2>12. calls # << >> => MeanTimestamp(decoded) \in Min(record.stamps)..Max(record.stamps)
    <3> SUFFICES ASSUME calls # << >>
                 PROVE  MeanTimestamp(decoded) \in Min(StampsOf(calls))..Max(StampsOf(calls))
      BY <2>4
    <3>1. Len(shape) \in Nat /\ Len(shape) <= height
      BY SubdagsAssumption, LenProperties DEF StampsFit
    <3>2. Len(shape) * width <= height * width
      BY <3>1, ProductGrows
    <3>3. Len(decoded) \in Nat /\ Len(shape) * width \in Nat /\ height * width \in Nat
      BY <2>8, <3>1, LenProperties
    <3>4. PICK size \in Nat : size = height * width
      BY <3>3
    <3>5. Len(decoded) <= size
      <4> DEFINE x == Len(shape) * width
      <4>1. x \in Nat /\ Len(decoded) <= x /\ x <= size
        BY <2>8, <3>2, <3>3, <3>4
      <4> HIDE DEF x
      <4> QED
        BY <3>3, <4>1
    <3>6. size * top < StampRange
      BY <3>4 DEF StampsFit
    <3>7. ASSUME NEW k \in 1..Len(calls) PROVE calls[k].envelope.timestamp_ms <= top
      <4>1. PICK s \in Submissions : calls[k].envelope = s.envelope
        BY <2>7
      <4>2. calls[k] \in OneOf("Execute")
        <5>1. calls \in Seq(OneOf("Execute"))
          BY <2>8, OfKindProperties DEF Calls
        <5> QED
          BY <5>1, ElementOfSeq
      <4>3. s.envelope # None
        BY <4>1, <4>2 DEF OneOf
      <4> QED
        BY <4>1, <4>3 DEF StampsFit
    <3> QED
      BY <2>8, <3>5, <3>6, <3>7, MeanOfOwnStamps
  <2>13. PICK l : l = log'
    OBVIOUS
  <2>14. PICK m \in Anchors : m = n
    BY <2>3
  <2>15. WithinStamps(ExecuteDecoded(p, m, decoded, now).certifier, l)
    <3>1. CopyOK(p, m - 1)
      BY <2>2, <2>3, <2>14
    <3>2. WithinStamps(p.certifier, l)
      <4>1. \A i \in 1..Len(p.certifier.pending) :
                p.certifier.pending[i].local.anchor \in 1..Len(log)
        BY <2>2 DEF CopyOK, AnchorsIn
      <4>2. WithinStamps(p.certifier, log)
        BY DEF p
      <4> QED
        BY <2>10, <2>13, <4>1, <4>2 DEF WithinStamps
    <3>3. l[m] = record
      BY <2>3, <2>10, <2>13, <2>14
    <3>4. Calls(decoded) # << >> =>
              MeanTimestamp(decoded) \in Min(l[m].stamps)..Max(l[m].stamps)
      BY <2>12, <3>3
    <3>5. /\ CreateFreshIds(p.store, [i \in DOMAIN Calls(decoded) |->
                                          Calls(decoded)[i].envelope.transaction])
          /\ Len(ExecuteAll(p.store, Calls(decoded)).commitment) <= MaxWrites
      BY <2>6
    <3> HIDE DEF n, calls
    <3> QED
      BY <2>8, <2>11, <2>14, <3>1, <3>2, <3>4, <3>5, ExecutedWithinStamps
  <2>16. ExecuteDecoded(p, m, decoded, now) = state'[copy]
    BY <2>5, <2>11, <2>14
  <2> QED
    BY <2>13, <2>14, <2>15, <2>16
<1> QED
  BY <1>1, <1>2

(***************************************************************************)
(* The stamp of a checkpoint that waits in the window is the mean of the   *)
(* stamps of its own transactions and of nothing else: it lies between     *)
(* the earliest and the latest of them, at every validator and on every    *)
(* replay, as long as the sum of a sub-dag cannot overflow                 *)
(* (certifier.rs:64, validator.rs:308-313).                                *)
(***************************************************************************)
THEOREM StampsAreMeans ==
    ASSUME NEW height \in Nat, NEW width \in Nat, NEW top \in Nat, StampsFit(height, width, top)
    PROVE  Spec => []MeansLieWithinStamps
<1> DEFINE Within == \A copy \in Copies : WithinStamps(state[copy].certifier, log)
<1>1. Init => Within
  <2>1. Len(NewCertifier.pending) = 0
    BY EmptySeq DEF NewCertifier
  <2> QED
    BY <2>1 DEF Init, WithinStamps
<1>2. Inv /\ Within /\ [Next]_vars => Within'
  <2> SUFFICES ASSUME Inv, Within, [Next]_vars, NEW copy \in Copies
               PROVE  WithinStamps(state'[copy].certifier, log')
    OBVIOUS
  <2> QED
    BY NextWithinStamps
<1>3. Inv /\ Within => MeansLieWithinStamps
  <2> SUFFICES ASSUME Inv, Within, NEW copy \in Copies,
                      NEW i \in DOMAIN state[copy].certifier.pending
               PROVE  LET entry == state[copy].certifier.pending[i]
                          stamps == log[entry.local.anchor].stamps
                      IN  entry.timings.mean_timestamp_ms \in Min(stamps)..Max(stamps)
    BY DEF MeansLieWithinStamps
  <2>1. state[copy].certifier.pending \in Seq(PendingCheckpoint)
    BY DEF Inv, CopyOK, CopyStates, CheckpointCertifier, Copies
  <2>2. i \in 1..Len(state[copy].certifier.pending)
    BY <2>1, LenProperties
  <2> QED
    BY <2>2 DEF WithinStamps
<1> HIDE DEF Within
<1> QED
  BY <1>1, <1>2, <1>3, SpecInv, PTL DEF Spec
-----------------------------------------------------------------------------
\* What the execution of the first n sub-dags of a log committed to.
CommitmentAt(l, n) == IF n = 0 THEN << >> ELSE l[n].commitment

Reached(l) == {CommitmentAt(l, n) : n \in 0..Len(l)}

\* A log whose sub-dags extend the history when they write, and only then.
Chained(l) ==
    \A n \in 1..Len(l) :
        IF l[n].effect = "writes"
        THEN Len(CommitmentAt(l, n - 1)) < Len(CommitmentAt(l, n))
        ELSE CommitmentAt(l, n) = CommitmentAt(l, n - 1)

\* The n-th sub-dag of a log against the m-th.
Follows(l, m, n) ==
    /\ Writing(l, m) <= Writing(l, n)
    /\ Len(CommitmentAt(l, m)) <= Len(CommitmentAt(l, n))
    /\ Writing(l, m) = Writing(l, n) => CommitmentAt(l, m) = CommitmentAt(l, n)
    /\ Writing(l, m) < Writing(l, n) =>
           Len(CommitmentAt(l, m)) < Len(CommitmentAt(l, n))

(***************************************************************************)
(* The writing sub-dags of a log are counted one by one.                   *)
(***************************************************************************)
LEMMA WritingSteps ==
    ASSUME NEW l
    PROVE  /\ Writing(l, 0) = 0
           /\ \A n \in Nat : /\ Writing(l, n) \in 0..n
                             /\ Writing(l, n + 1) = Writing(l, n) + WritesOf(l[n + 1])
<1>1. \A n : Writing(l, n) = CommitmentAfter(l, n)
  BY DEF Writing, CommitmentAfter
<1> QED
  BY <1>1, CommitmentSteps

(***************************************************************************)
(* The histories of a log have lengths.                                    *)
(***************************************************************************)
LEMMA CommitmentAtType ==
    ASSUME NEW l \in Seq(LogRecord), NEW n \in 0..Len(l)
    PROVE  CommitmentAt(l, n) \in Histories /\ Len(CommitmentAt(l, n)) \in Nat
<1>1. CommitmentAt(l, n) \in Histories
  <2>1. << >> \in Histories
    BY EmptyStoreOK DEF HistoryOK, EmptyStore
  <2>2. n # 0 => l[n] \in LogRecord
    <3>1. Len(l) \in Nat
      BY LenProperties
    <3>2. n # 0 => n \in 1..Len(l)
      BY <3>1
    <3> QED
      BY <3>2, ElementOfSeq
  <2> QED
    BY <2>1, <2>2 DEF CommitmentAt, LogRecord
<1>2. PICK k \in 0..MaxWrites : CommitmentAt(l, n) \in [1..k -> Object]
  BY <1>1 DEF Histories
<1>3. Len(CommitmentAt(l, n)) = k
  <2>1. PICK c : c = CommitmentAt(l, n)
    OBVIOUS
  <2>2. c \in [1..k -> Object] /\ k \in Nat
    BY <1>2, <2>1, ExecutionAssumption
  <2>3. Len(c) = k
    BY <2>2
  <2> QED
    BY <2>1, <2>3
<1> QED
  BY <1>1, <1>2, <1>3, ExecutionAssumption

(***************************************************************************)
(* Along a log the histories only grow, and they are longer exactly when   *)
(* more sub-dags wrote (store.rs:45-67).                                   *)
(***************************************************************************)
LEMMA HistoriesFollow ==
    ASSUME NEW l \in Seq(LogRecord), Chained(l),
           NEW m \in 0..Len(l), NEW n \in 0..Len(l), m <= n
    PROVE  Follows(l, m, n)
<1>1. Len(l) \in Nat
  BY LenProperties
<1>2. \A k \in 0..Len(l) : /\ Writing(l, k) \in Nat /\ Len(CommitmentAt(l, k)) \in Nat
  <2> TAKE k \in 0..Len(l)
  <2>1. Writing(l, k) \in 0..k /\ k \in Nat
    BY <1>1, WritingSteps
  <2>2. Len(CommitmentAt(l, k)) \in Nat
    BY CommitmentAtType
  <2> QED
    BY <2>1, <2>2
<1> DEFINE T == {k \in 0..Len(l) : m <= k => Follows(l, m, k)}
<1>3. Follows(l, m, m)
  BY <1>2 DEF Follows
<1>4. 0 \in T
  <2>1. m <= 0 => m = 0
    OBVIOUS
  <2> QED
    BY <1>1, <1>3, <2>1
<1>5. ASSUME NEW k \in 1..Len(l), k - 1 \in T PROVE k \in T
  <2>1. CASE m = k
    BY <1>3, <2>1
  <2>2. CASE m < k
    <3>1. Follows(l, m, k - 1) /\ k - 1 \in 0..Len(l) /\ k \in 0..Len(l) /\ (k - 1) + 1 = k
      <4>1. m <= k - 1
        BY <1>1, <2>2
      <4> QED
        BY <1>1, <1>5, <4>1
    <3>2. Writing(l, k) = Writing(l, k - 1) + WritesOf(l[k])
      <4>1. k - 1 \in Nat
        BY <1>1
      <4>2. Writing(l, (k - 1) + 1) = Writing(l, k - 1) + WritesOf(l[(k - 1) + 1])
        BY <4>1, WritingSteps
      <4> QED
        BY <3>1, <4>2
    <3>3. CASE l[k].effect = "writes"
      <4>1. Writing(l, k) = Writing(l, k - 1) + 1
        BY <3>2, <3>3 DEF WritesOf
      <4>2. Len(CommitmentAt(l, k - 1)) < Len(CommitmentAt(l, k))
        BY <3>3 DEF Chained
      <4>3. PICK a \in Nat, b \in Nat, x \in Nat, y \in Nat, z \in Nat :
                /\ a = Writing(l, m) /\ b = Writing(l, k - 1)
                /\ x = Len(CommitmentAt(l, m)) /\ y = Len(CommitmentAt(l, k - 1))
                /\ z = Len(CommitmentAt(l, k))
        BY <1>2, <3>1
      <4>4. a <= b /\ x <= y /\ y < z /\ Writing(l, k) = b + 1
        BY <3>1, <4>1, <4>2, <4>3 DEF Follows
      <4>5. a < b + 1 /\ a <= b + 1 /\ a # b + 1 /\ x < z /\ x <= z
        BY <4>3, <4>4
      <4> QED
        BY <4>3, <4>4, <4>5 DEF Follows
    <3>4. CASE l[k].effect # "writes"
      <4>1. Writing(l, k) = Writing(l, k - 1)
        BY <1>2, <3>1, <3>2, <3>4 DEF WritesOf
      <4>2. CommitmentAt(l, k) = CommitmentAt(l, k - 1)
        BY <3>4 DEF Chained
      <4>3. Follows(l, m, k)
        BY <3>1, <4>1, <4>2 DEF Follows
      <4> QED
        BY <4>3
    <3> QED
      BY <3>3, <3>4
  <2>3. k \in 0..Len(l)
    BY <1>1
  <2>4. ~(m <= k) \/ m = k \/ m < k
    BY <1>1
  <2> QED
    BY <2>1, <2>2, <2>3, <2>4
<1>6. 0..Len(l) \subseteq T
  <2> HIDE DEF T
  <2> QED
    BY <1>1, <1>4, <1>5, IntervalInduction
<1> QED
  BY <1>6

(***************************************************************************)
(* So along a log the number of writing sub-dags and the history determine *)
(* each other.                                                             *)
(***************************************************************************)
LEMMA NumberDeterminesHistory ==
    ASSUME NEW l \in Seq(LogRecord), Chained(l), NEW m \in 0..Len(l), NEW n \in 0..Len(l)
    PROVE  Writing(l, m) = Writing(l, n) <=> CommitmentAt(l, m) = CommitmentAt(l, n)
<1>1. Len(l) \in Nat
  BY LenProperties
<1>2. ASSUME NEW i \in 0..Len(l), NEW j \in 0..Len(l), i <= j
      PROVE  Writing(l, i) = Writing(l, j) <=> CommitmentAt(l, i) = CommitmentAt(l, j)
  <2>1. Follows(l, i, j)
    BY <1>2, HistoriesFollow
  <2>2. Writing(l, i) \in Nat /\ Writing(l, j) \in Nat
    <3>1. i \in Nat /\ j \in Nat
      BY <1>1
    <3>2. Writing(l, i) \in 0..i /\ Writing(l, j) \in 0..j
      BY <3>1, WritingSteps
    <3> QED
      BY <3>1, <3>2
  <2>3. Len(CommitmentAt(l, i)) \in Nat /\ Len(CommitmentAt(l, j)) \in Nat
    BY CommitmentAtType
  <2> QED
    BY <2>1, <2>2, <2>3 DEF Follows
<1>3. m <= n \/ n <= m
  BY <1>1
<1> QED
  BY <1>2, <1>3

(***************************************************************************)
(* The number of a history is that of the writing sub-dags that led to it, *)
(* and the history of that number is it.                                   *)
(***************************************************************************)
LEMMA NumberOfHistory ==
    ASSUME NEW l \in Seq(LogRecord), Chained(l), NEW n \in 0..Len(l)
    PROVE  /\ Number(l, CommitmentAt(l, n)) = Writing(l, n)
           /\ Numbered(l, Writing(l, n)) = CommitmentAt(l, n)
<1>1. Len(l) \in Nat /\ DOMAIN l = 1..Len(l) /\ 0 \in 0..Len(l)
      /\ \A k \in 1..Len(l) : k \in 0..Len(l) /\ CommitmentAt(l, k) = l[k].commitment
  BY LenProperties DEF CommitmentAt
<1>2. Writing(l, 0) = 0 /\ CommitmentAt(l, 0) = << >>
  BY WritingSteps DEF CommitmentAt
<1>3. ASSUME NEW s \in SUBSET (1..Len(l)), s # {}
      PROVE  Min(s) \in s
  <2>1. s \in SUBSET Nat
    BY <1>1
  <2>2. \E x \in s : \A y \in s : x <= y
    BY <1>3, <2>1, LeastElement
  <2> QED
    BY <2>2 DEF Min
<1> DEFINE leading == {k \in DOMAIN l : l[k].commitment = CommitmentAt(l, n)}
           counting == {k \in DOMAIN l : Writing(l, k) = Writing(l, n)}
<1>4. leading \in SUBSET (1..Len(l)) /\ counting \in SUBSET (1..Len(l))
  BY <1>1
<1>5. Number(l, CommitmentAt(l, n)) = Writing(l, n)
  <2>1. CASE leading = {}
    <3>1. n = 0
      <4>1. n # 0 => n \in leading
        BY <1>1
      <4> QED
        BY <2>1, <4>1
    <3> QED
      BY <1>2, <2>1, <3>1 DEF Number
  <2>2. CASE leading # {}
    <3>1. Min(leading) \in leading
      BY <1>3, <1>4, <2>2
    <3>2. PICK k \in 1..Len(l) : k = Min(leading) /\ l[k].commitment = CommitmentAt(l, n)
      BY <1>1, <3>1
    <3>3. Writing(l, k) = Writing(l, n)
      BY <1>1, <3>2, NumberDeterminesHistory
    <3>4. Number(l, CommitmentAt(l, n)) = Writing(l, Min(leading))
      BY <2>2 DEF Number
    <3> QED
      BY <3>2, <3>3, <3>4
  <2> QED
    BY <2>1, <2>2
<1>6. Numbered(l, Writing(l, n)) = CommitmentAt(l, n)
  <2>1. CASE Writing(l, n) = 0
    <3>1. CommitmentAt(l, n) = CommitmentAt(l, 0)
      BY <1>1, <1>2, <2>1, NumberDeterminesHistory
    <3> QED
      BY <1>2, <2>1, <3>1 DEF Numbered
  <2>2. CASE Writing(l, n) # 0
    <3>1. n \in counting
      <4>1. n # 0
        BY <1>2, <2>2
      <4> QED
        BY <1>1, <4>1
    <3>2. Min(counting) \in counting
      BY <1>3, <1>4, <3>1
    <3>3. PICK k \in 1..Len(l) : k = Min(counting) /\ Writing(l, k) = Writing(l, n)
      BY <1>1, <3>2
    <3>4. CommitmentAt(l, k) = CommitmentAt(l, n)
      BY <1>1, <3>3, NumberDeterminesHistory
    <3>5. Numbered(l, Writing(l, n)) = l[Min(counting)].commitment
      BY <2>2 DEF Numbered
    <3> QED
      BY <1>1, <3>3, <3>4, <3>5
  <2> QED
    BY <2>1, <2>2
<1> QED
  BY <1>5, <1>6

(***************************************************************************)
(* Every number up to the last is that of some prefix of the log.          *)
(***************************************************************************)
LEMMA NumbersAreReached ==
    ASSUME NEW l \in Seq(LogRecord), NEW k \in 0..Writing(l, Len(l))
    PROVE  \E n \in 0..Len(l) : Writing(l, n) = k
<1>1. Len(l) \in Nat
  BY LenProperties
<1> DEFINE T == {n \in 0..Len(l) : \A j \in 0..Writing(l, n) : \E i \in 0..n : Writing(l, i) = j}
<1>2. 0 \in T
  <2>1. Writing(l, 0) = 0
    BY WritingSteps
  <2> QED
    BY <1>1, <2>1
<1>3. ASSUME NEW n \in 1..Len(l), n - 1 \in T PROVE n \in T
  <2>1. n - 1 \in Nat /\ (n - 1) + 1 = n /\ n \in 0..Len(l) /\ n \in 0..n
        /\ \A i \in 0..(n - 1) : i \in 0..n
    BY <1>1
  <2>2. /\ Writing(l, n - 1) \in 0..(n - 1)
        /\ Writing(l, (n - 1) + 1) = Writing(l, n - 1) + WritesOf(l[(n - 1) + 1])
    BY <2>1, WritingSteps
  <2>3. Writing(l, n) = Writing(l, n - 1) \/ Writing(l, n) = Writing(l, n - 1) + 1
    <3>1. WritesOf(l[n]) \in {0, 1}
      BY DEF WritesOf
    <3> QED
      BY <2>1, <2>2, <3>1
  <2>4. ASSUME NEW j \in 0..Writing(l, n) PROVE \E i \in 0..n : Writing(l, i) = j
    <3>1. CASE j \in 0..Writing(l, n - 1)
      BY <1>3, <2>1, <3>1
    <3>2. CASE j \notin 0..Writing(l, n - 1)
      <4>1. j = Writing(l, n)
        BY <2>2, <2>3, <3>2
      <4> QED
        BY <2>1, <4>1
    <3> QED
      BY <3>1, <3>2
  <2> QED
    BY <2>1, <2>4
<1>4. 0..Len(l) \subseteq T
  <2> HIDE DEF T
  <2> QED
    BY <1>1, <1>2, <1>3, IntervalInduction
<1>5. Len(l) \in T
  BY <1>1, <1>4
<1> QED
  BY <1>5

\* Along the log, histories and numbers are each other's names.
Numbering(l) ==
    /\ Writing(l, Len(l)) \in 0..MaxSubdag
    /\ << >> \in Reached(l)
    /\ Reached(l) \subseteq Histories
    /\ \A c \in Reached(l) : /\ Number(l, c) \in 0..Writing(l, Len(l))
                             /\ Numbered(l, Number(l, c)) = c
    /\ \A k \in 0..Writing(l, Len(l)) : /\ Numbered(l, k) \in Reached(l)
                                        /\ Number(l, Numbered(l, k)) = k

(***************************************************************************)
(* A chained log numbers its histories.                                    *)
(***************************************************************************)
LEMMA LogsNumber ==
    ASSUME NEW l \in Seq(LogRecord), Chained(l), Len(l) <= MaxSubdag
    PROVE  Numbering(l)
<1>1. Len(l) \in Nat /\ MaxSubdag \in Nat
  BY LenProperties, RoundAssumption
<1>2. Writing(l, Len(l)) \in 0..Len(l)
  BY <1>1, WritingSteps
<1>3. \A n \in 0..Len(l) : Writing(l, n) \in 0..Writing(l, Len(l))
  <2> TAKE n \in 0..Len(l)
  <2>1. Follows(l, n, Len(l))
    BY <1>1, HistoriesFollow
  <2>2. n \in Nat
    BY <1>1
  <2>3. Writing(l, n) \in 0..n
    BY <2>2, WritingSteps
  <2> QED
    BY <1>1, <1>2, <2>1, <2>2, <2>3 DEF Follows
<1>4. ASSUME NEW c \in Reached(l)
      PROVE  /\ Number(l, c) \in 0..Writing(l, Len(l))
             /\ Numbered(l, Number(l, c)) = c
             /\ c \in Histories
  <2>1. PICK n \in 0..Len(l) : c = CommitmentAt(l, n)
    BY <1>4 DEF Reached
  <2>2. Number(l, c) = Writing(l, n) /\ Numbered(l, Writing(l, n)) = c
    BY <2>1, NumberOfHistory
  <2> QED
    BY <1>3, <2>1, <2>2, CommitmentAtType
<1>5. ASSUME NEW k \in 0..Writing(l, Len(l))
      PROVE  Numbered(l, k) \in Reached(l) /\ Number(l, Numbered(l, k)) = k
  <2>1. PICK n \in 0..Len(l) : Writing(l, n) = k
    BY NumbersAreReached
  <2>2. Number(l, CommitmentAt(l, n)) = k /\ Numbered(l, k) = CommitmentAt(l, n)
    BY <2>1, NumberOfHistory
  <2> QED
    BY <2>2 DEF Reached
<1>6. << >> \in Reached(l)
  <2>1. 0 \in 0..Len(l) /\ CommitmentAt(l, 0) = << >>
    BY <1>1 DEF CommitmentAt
  <2> QED
    BY <2>1 DEF Reached
<1> QED
  BY <1>1, <1>2, <1>4, <1>5, <1>6 DEF Numbering
-----------------------------------------------------------------------------
(***************************************************************************)
(* What a window mentions. A certifier knows of the histories of the log   *)
(* only: its own checkpoints, the certificates, and the commitments that   *)
(* have votes.                                                             *)
(***************************************************************************)
KnownCertificate(l, c) == c # None => c.checkpoint.commitment \in Reached(l)

KnownEntry(l, e) ==
    /\ e.local.commitment \in Reached(l)
    /\ KnownCertificate(l, e.certificate)
    /\ \A d \in Commitments \ Reached(l) : e.accumulators[d] = EmptyAccumulator

KnownCertifier(l, c) ==
    /\ \A i \in 1..Len(c.pending) : KnownEntry(l, c.pending[i])
    /\ KnownCertificate(l, c.watermark)

(***************************************************************************)
(* The fields of the abstract window.                                      *)
(***************************************************************************)
LEMMA AbstractFields ==
    ASSUME NEW l, NEW c \in CheckpointCertifier
    PROVE  LET p == c.pending
               q == AbstractCertifier(l, c).pending
           IN  /\ Len(p) \in Nat /\ DOMAIN p = 1..Len(p)
               /\ \A i \in 1..Len(p) : p[i] \in PendingCheckpoint
               /\ Len(q) = Len(p) /\ DOMAIN q = 1..Len(p)
               /\ \A i \in 1..Len(p) : /\ q[i] = AbstractEntry(l, p[i])
                                       /\ q[i].local.anchor = p[i].local.anchor
                                       /\ q[i].timings = "live"
               /\ AbstractCertifier(l, c).watermark = AbstractCertificate(l, c.watermark)
<1> DEFINE p == c.pending
           q == AbstractCertifier(l, c).pending
           X == {AbstractEntry(l, p[i]) : i \in 1..Len(p)}
<1>1. /\ Len(p) \in Nat /\ DOMAIN p = 1..Len(p)
      /\ \A i \in 1..Len(p) : p[i] \in PendingCheckpoint
  BY LenProperties, ElementOfSeq DEF CheckpointCertifier
<1>2. q = [i \in DOMAIN p |-> AbstractEntry(l, p[i])]
  BY DEF AbstractCertifier
<1>3. AbstractCertifier(l, c).watermark = AbstractCertificate(l, c.watermark)
  BY DEF AbstractCertifier
<1> HIDE DEF p, q
<1>4. q \in [1..Len(p) -> X]
  BY <1>1, <1>2
<1>5. Len(q) = Len(p)
  <2> HIDE DEF X
  <2> QED
    BY <1>1, <1>4
<1>6. \A i \in 1..Len(p) : q[i] = AbstractEntry(l, p[i])
  BY <1>1, <1>2
<1>7. ASSUME NEW i \in 1..Len(p)
      PROVE  q[i].local.anchor = p[i].local.anchor /\ q[i].timings = "live"
  <2>1. p[i] \in PendingCheckpoint
    BY <1>1
  <2>2. q[i].local = AbstractCheckpoint(l, p[i].local) /\ q[i].timings = "live"
    <3>1. \A e : /\ AbstractEntry(l, e).local = AbstractCheckpoint(l, e.local)
                /\ AbstractEntry(l, e).timings = "live"
      BY DEF AbstractEntry
    <3> QED
      BY <1>6, <3>1
  <2>3. AbstractCheckpoint(l, p[i].local).anchor = p[i].local.anchor
    BY <2>1 DEF AbstractCheckpoint, PendingCheckpoint, Checkpoint
  <2> QED
    BY <2>2, <2>3
<1> QED
  BY <1>1, <1>2, <1>3, <1>5, <1>6, <1>7 DEF p, q

(***************************************************************************)
(* The abstract certifier looks a vote up in the same place                *)
(* (certifier.rs:138-149).                                                 *)
(***************************************************************************)
LEMMA AbstractLookup ==
    ASSUME NEW l, NEW c \in CheckpointCertifier, NEW anchor \in Anchors
    PROVE  LET p == c.pending
               q == AbstractCertifier(l, c).pending
           IN  /\ Abstract!EntriesOf(q, anchor) = EntriesOf(p, anchor)
               /\ Abstract!EntryOf(q, anchor) = EntryOf(p, anchor)
<1> DEFINE p == c.pending
           q == AbstractCertifier(l, c).pending
           n == Len(p)
<1>1. /\ n \in Nat /\ DOMAIN p = 1..n /\ DOMAIN q = 1..n
      /\ \A i \in 1..n : q[i].local.anchor = p[i].local.anchor
  BY AbstractFields
<1> HIDE DEF n, p, q
<1>2. \A i \in 1..n : Abstract!RoundAt(q, i) = RoundAt(p, i)
  BY <1>1 DEF RoundAt, Abstract!RoundAt
<1>3. \A i \in 1..n : Abstract!InRun(q, i, Round[anchor]) <=> InRun(p, i, Round[anchor])
  <2> TAKE i \in 1..n
  <2>1. \A start \in 1..i : /\ \A j \in 1..(start - 1) : j \in 1..n
                            /\ \A j \in start..i : j \in 1..n
    BY <1>1
  <2> QED
    BY <1>2, <2>1 DEF InRun, Abstract!InRun
<1>4. Abstract!EntriesOf(q, anchor) = EntriesOf(p, anchor)
  BY <1>1, <1>3 DEF EntriesOf, Abstract!EntriesOf
<1>5. Abstract!EntryOf(q, anchor) = EntryOf(p, anchor)
  BY <1>4 DEF EntryOf, Abstract!EntryOf
<1> QED
  BY <1>4, <1>5 DEF p, q

(***************************************************************************)
(* An abstract entry is certified when the entry is (certifier.rs:158).    *)
(***************************************************************************)
LEMMA AbstractCertified ==
    ASSUME NEW l, Numbering(l), NEW e \in PendingCheckpoint, KnownEntry(l, e)
    PROVE  Abstract!Certified(AbstractEntry(l, e)) <=> Certified(e)
<1>0. \A d \in Reached(l) : Number(l, d) \in 0..MaxSubdag
  BY RoundAssumption DEF Numbering
<1>1. AbstractEntry(l, e).certificate = AbstractCertificate(l, e.certificate)
  BY DEF AbstractEntry
<1>2. e.certificate # None => e.certificate \in CertifiedCheckpoint
  BY DEF PendingCheckpoint
<1>3. e.certificate # None => AbstractCertificate(l, e.certificate) # None
  <2> SUFFICES ASSUME e.certificate # None
               PROVE  AbstractCertificate(l, e.certificate) # None
    OBVIOUS
  <2>1. AbstractCertificate(l, e.certificate) \in Abstract!CertifiedCheckpoint
    <3> DEFINE x == e.certificate
    <3>1. x \in CertifiedCheckpoint
      BY <1>2
    <3>2. x.checkpoint.commitment \in Reached(l)
      BY DEF KnownEntry, KnownCertificate
    <3>3. Number(l, x.checkpoint.commitment) \in 0..MaxSubdag
      BY <1>0, <3>2
    <3>4. AbstractCheckpoint(l, x.checkpoint) \in Abstract!Checkpoint
      BY <3>1, <3>3 DEF AbstractCheckpoint, CertifiedCheckpoint, Checkpoint,
                        Abstract!Checkpoint, Anchors, Abstract!Anchors
    <3>5. AbstractCertificate(l, x) = [x EXCEPT !.checkpoint = AbstractCheckpoint(l, @)]
      BY DEF AbstractCertificate
    <3> HIDE DEF x
    <3>6. AbstractCertificate(l, x) \in Abstract!CertifiedCheckpoint
      BY <3>1, <3>4, <3>5 DEF CertifiedCheckpoint, Abstract!CertifiedCheckpoint,
                              Anchors, Abstract!Anchors
    <3> QED
      BY <3>6 DEF x
  <2> QED
    BY <2>1, AbstractAssumption
<1> QED
  BY <1>1, <1>3 DEF Certified, Abstract!Certified, AbstractCertificate

(***************************************************************************)
(* The accumulators of an abstract entry are those of the histories that   *)
(* the numbers name, so it knows the same voters (certifier.rs:165-170).   *)
(***************************************************************************)
LEMMA AbstractVoters ==
    ASSUME NEW l, Numbering(l), NEW e \in PendingCheckpoint, KnownEntry(l, e),
           NEW a \in Authorities
    PROVE  /\ \A d \in Reached(l) :
                  AbstractEntry(l, e).accumulators[Number(l, d)] = e.accumulators[d]
           /\ Abstract!HasVoted(AbstractEntry(l, e), a) <=> HasVoted(e, a)
<1> DEFINE w == Writing(l, Len(l))
           acc == AbstractEntry(l, e).accumulators
<1>1. w \in 0..MaxSubdag /\ MaxSubdag \in Nat
  BY RoundAssumption DEF Numbering
<1>2. /\ \A k \in 0..w : acc[k] = e.accumulators[Numbered(l, k)] /\ k \in 0..MaxSubdag
      /\ \A k \in 0..MaxSubdag : k \notin 0..w => acc[k] = EmptyAccumulator
  <2>1. acc = [k \in 0..MaxSubdag |->
                  IF k <= w THEN e.accumulators[Numbered(l, k)] ELSE EmptyAccumulator]
    BY DEF AbstractEntry
  <2> HIDE DEF acc, w
  <2> QED
    BY <1>1, <2>1
<1> HIDE DEF acc, w
<1>3. \A d \in Reached(l) : /\ Number(l, d) \in 0..w /\ Numbered(l, Number(l, d)) = d
                            /\ d \in Commitments
  BY SubdagsAssumption DEF Numbering, w
<1>4. \A k \in 0..w : Numbered(l, k) \in Reached(l)
  BY DEF Numbering, w
<1>5. \A d \in Reached(l) : acc[Number(l, d)] = e.accumulators[d]
  BY <1>2, <1>3
<1>6. EmptyAccumulator.votes = {}
  BY DEF EmptyAccumulator
<1>7. Abstract!HasVoted(AbstractEntry(l, e), a) <=> \E k \in 0..MaxSubdag : a \in acc[k].votes
  BY DEF Abstract!HasVoted, acc
<1>8. (\E k \in 0..MaxSubdag : a \in acc[k].votes) => HasVoted(e, a)
  <2> SUFFICES ASSUME NEW k \in 0..MaxSubdag, a \in acc[k].votes PROVE HasVoted(e, a)
    OBVIOUS
  <2>1. k \in 0..w
    BY <1>2, <1>6
  <2>2. Numbered(l, k) \in Commitments /\ a \in e.accumulators[Numbered(l, k)].votes
    BY <1>2, <1>3, <1>4, <2>1
  <2> QED
    BY <2>2 DEF HasVoted
<1>9. HasVoted(e, a) => \E k \in 0..MaxSubdag : a \in acc[k].votes
  <2> SUFFICES ASSUME NEW d \in Commitments, a \in e.accumulators[d].votes
               PROVE  \E k \in 0..MaxSubdag : a \in acc[k].votes
    BY DEF HasVoted
  <2>1. d \in Reached(l)
    BY <1>6 DEF KnownEntry
  <2>2. Number(l, d) \in 0..MaxSubdag /\ a \in acc[Number(l, d)].votes
    BY <1>2, <1>3, <1>5, <2>1
  <2> QED
    BY <2>2
<1> QED
  BY <1>5, <1>7, <1>8, <1>9 DEF acc

(***************************************************************************)
(* The abstract certifier admits the same votes, tallies them alike, and   *)
(* certifies on the same one (certifier.rs:150-186).                       *)
(***************************************************************************)
LEMMA AbstractAdmission ==
    ASSUME NEW l, Numbering(l), NEW c \in CheckpointCertifier, KnownCertifier(l, c),
           NEW s \in Anchors, NEW a \in Authorities,
           NEW v \in Checkpoint, v.commitment \in Reached(l)
    PROVE  LET A == AbstractCertifier(l, c)
               u == AbstractCheckpoint(l, v)
               i == EntryOf(c.pending, v.anchor)
           IN  /\ Abstract!EntryOf(A.pending, u.anchor) = i
               /\ Abstract!Admissible(A, a, u) <=> Admissible(c, a, v)
               /\ Abstract!FormsCertificate(A, s, a, u) <=> FormsCertificate(c, s, a, v)
               /\ Admissible(c, a, v) =>
                      /\ A.pending[i] = AbstractEntry(l, c.pending[i])
                      /\ Abstract!Tallied(A.pending[i], s, a, u) =
                             Tallied(c.pending[i], s, a, v)
<1> DEFINE A == AbstractCertifier(l, c)
           u == AbstractCheckpoint(l, v)
           p == c.pending
           q == A.pending
           i == EntryOf(p, v.anchor)
<1>1. u.anchor = v.anchor /\ v.anchor \in Anchors /\ u.commitment = Number(l, v.commitment)
  BY DEF AbstractCheckpoint, Checkpoint
<1> HIDE DEF u
<1>2. /\ Abstract!EntriesOf(q, u.anchor) = EntriesOf(p, v.anchor)
      /\ Abstract!EntryOf(q, u.anchor) = i
  BY <1>1, AbstractLookup
<1>3. EntriesOf(p, v.anchor) # {} =>
          /\ i \in 1..Len(p) /\ p[i] \in PendingCheckpoint /\ KnownEntry(l, p[i])
          /\ q[i] = AbstractEntry(l, p[i])
  <2> HAVE EntriesOf(p, v.anchor) # {}
  <2>1. /\ Len(p) \in Nat /\ DOMAIN p = 1..Len(p)
        /\ \A j \in 1..Len(p) : p[j] \in PendingCheckpoint
        /\ \A j \in 1..Len(p) : q[j] = AbstractEntry(l, p[j])
    BY AbstractFields
  <2>2. EntriesOf(p, v.anchor) \in SUBSET (1..Len(p)) /\ EntriesOf(p, v.anchor) \in SUBSET Nat
    BY <2>1 DEF EntriesOf
  <2>3. \E j \in EntriesOf(p, v.anchor) : \A k \in EntriesOf(p, v.anchor) : j <= k
    BY <2>2, LeastElement
  <2>4. i \in EntriesOf(p, v.anchor)
    BY <2>3 DEF EntryOf
  <2>5. i \in 1..Len(p)
    BY <2>2, <2>4
  <2> QED
    BY <2>1, <2>5 DEF KnownCertifier
<1> HIDE DEF i
<1>4. EntriesOf(p, v.anchor) # {} =>
          /\ Abstract!Certified(q[i]) <=> Certified(p[i])
          /\ Abstract!HasVoted(q[i], a) <=> HasVoted(p[i], a)
          /\ q[i].accumulators[u.commitment] = p[i].accumulators[v.commitment]
  <2> HAVE EntriesOf(p, v.anchor) # {}
  <2>1. PICK e \in PendingCheckpoint : e = p[i]
    BY <1>3
  <2>2. KnownEntry(l, e) /\ q[i] = AbstractEntry(l, e)
    BY <1>3, <2>1
  <2>3. /\ Abstract!Certified(AbstractEntry(l, e)) <=> Certified(e)
        /\ Abstract!HasVoted(AbstractEntry(l, e), a) <=> HasVoted(e, a)
        /\ AbstractEntry(l, e).accumulators[Number(l, v.commitment)] =
               e.accumulators[v.commitment]
    BY <2>2, AbstractVoters, AbstractCertified
  <2> QED
    BY <1>1, <2>1, <2>2, <2>3
<1> HIDE DEF p, q
<1>5. Abstract!Admissible(A, a, u) <=> Admissible(c, a, v)
  <2>1. Admissible(c, a, v) <=> /\ EntriesOf(p, v.anchor) # {}
                                /\ ~Certified(p[i]) /\ ~HasVoted(p[i], a)
    BY DEF Admissible, p, i
  <2>2. Abstract!Admissible(A, a, u) <=>
            /\ Abstract!EntriesOf(q, u.anchor) # {}
            /\ ~Abstract!Certified(q[Abstract!EntryOf(q, u.anchor)])
            /\ ~Abstract!HasVoted(q[Abstract!EntryOf(q, u.anchor)], a)
    BY DEF Abstract!Admissible, q
  <2> QED
    BY <1>2, <1>4, <2>1, <2>2
<1>6. EntriesOf(p, v.anchor) # {} => Abstract!Tallied(q[i], s, a, u) = Tallied(p[i], s, a, v)
  BY <1>4 DEF Tallied, Abstract!Tallied, Add, Abstract!Add
<1>7. Abstract!FormsCertificate(A, s, a, u) <=> FormsCertificate(c, s, a, v)
  <2>1. FormsCertificate(c, s, a, v) <=>
            /\ Admissible(c, a, v)
            /\ ReachesQuorum(Tallied(p[i], s, a, v))
    BY DEF FormsCertificate, p, i
  <2>2. Abstract!FormsCertificate(A, s, a, u) <=>
            /\ Abstract!Admissible(A, a, u)
            /\ Abstract!ReachesQuorum(
                   Abstract!Tallied(q[Abstract!EntryOf(q, u.anchor)], s, a, u))
    BY DEF Abstract!FormsCertificate, q
  <2>3. \A x : Abstract!ReachesQuorum(x) <=> ReachesQuorum(x)
    BY DEF ReachesQuorum, Abstract!ReachesQuorum
  <2>4. Admissible(c, a, v) => EntriesOf(p, v.anchor) # {}
    BY DEF Admissible, p
  <2> QED
    BY <1>2, <1>5, <1>6, <2>1, <2>2, <2>3, <2>4
<1>8. Admissible(c, a, v) => /\ q[i] = AbstractEntry(l, p[i])
                             /\ Abstract!Tallied(q[i], s, a, u) = Tallied(p[i], s, a, v)
  <2>1. Admissible(c, a, v) => EntriesOf(p, v.anchor) # {}
    BY DEF Admissible, p
  <2> QED
    BY <1>3, <1>6, <2>1
<1> QED
  BY <1>2, <1>5, <1>7, <1>8 DEF u, q, p, i

(***************************************************************************)
(* Counting a vote in an abstract entry, with a certificate and without    *)
(* (certifier.rs:186-199).                                                 *)
(***************************************************************************)
LEMMA AbstractTally ==
    ASSUME NEW l, Numbering(l), NEW e \in PendingCheckpoint, KnownEntry(l, e),
           NEW s \in Anchors, NEW a \in Authorities,
           NEW v \in Checkpoint, v.commitment \in Reached(l)
    PROVE  LET E == AbstractEntry(l, e)
               u == AbstractCheckpoint(l, v)
           IN  /\ Abstract!WithTally(E, s, a, u) = AbstractEntry(l, WithTally(e, s, a, v))
               /\ Abstract!WithCertificate(E, s, a, u) =
                      AbstractEntry(l, WithCertificate(e, s, a, v))
               /\ KnownEntry(l, WithTally(e, s, a, v))
               /\ KnownEntry(l, WithCertificate(e, s, a, v))
<1> DEFINE w == Writing(l, Len(l))
           E == AbstractEntry(l, e)
           u == AbstractCheckpoint(l, v)
           t == Tallied(e, s, a, v)
           k == Number(l, v.commitment)
           named(f) == [number \in 0..MaxSubdag |->
                           IF number <= w THEN f[Numbered(l, number)] ELSE EmptyAccumulator]
           f == e.accumulators
<1>1. /\ w \in 0..MaxSubdag /\ MaxSubdag \in Nat
      /\ k \in 0..w /\ Numbered(l, k) = v.commitment /\ v.commitment \in Commitments
      /\ \A n \in 0..w : /\ Numbered(l, n) \in Commitments
                         /\ Number(l, Numbered(l, n)) = n
  BY RoundAssumption, SubdagsAssumption DEF Numbering
<1>2. u.anchor = v.anchor /\ u.commitment = k
  BY DEF AbstractCheckpoint, Checkpoint
<1>3. /\ f \in [Commitments -> Accumulator]
      /\ e = [local |-> e.local, timings |-> e.timings, accumulators |-> f,
              certificate |-> e.certificate]
      /\ e.certificate \in CertifiedCheckpoint \cup {None}
  BY DEF PendingCheckpoint
<1>4. E = [local |-> AbstractCheckpoint(l, e.local), timings |-> "live",
           accumulators |-> named(f), certificate |-> AbstractCertificate(l, e.certificate)]
  BY DEF AbstractEntry
<1>5. Abstract!Tallied(E, s, a, u) = t
  <2>1. E.accumulators[k] = f[v.commitment]
    BY AbstractVoters
  <2> HIDE DEF E, f, k
  <2> QED
    BY <1>2, <2>1 DEF Tallied, Abstract!Tallied, Add, Abstract!Add, f
<1> HIDE DEF E, u, t, k, w, f
<1>6. ASSUME NEW x
      PROVE  [named(f) EXCEPT ![k] = x] = named([f EXCEPT ![v.commitment] = x])
  <2>1. \A n \in 0..w : n # k => Numbered(l, n) # v.commitment
    BY <1>1 DEF k
  <2>2. \A n \in 0..w : [f EXCEPT ![v.commitment] = x][Numbered(l, n)] =
                            IF n = k THEN x ELSE f[Numbered(l, n)]
    BY <1>1, <1>3, <2>1
  <2>3. \A n \in 0..MaxSubdag : n <= w <=> n \in 0..w
    BY <1>1
  <2>4. k \in 0..MaxSubdag
    BY <1>1
  <2>5. \A n \in 0..MaxSubdag :
            [named(f) EXCEPT ![k] = x][n] = named([f EXCEPT ![v.commitment] = x])[n]
    BY <2>2, <2>3, <2>4, <1>1
  <2> QED
    BY <2>5
<1> HIDE DEF named
<1>7. AbstractEntry(l, WithTally(e, s, a, v)) = Abstract!WithTally(E, s, a, u)
  <2>1. WithTally(e, s, a, v) = [local |-> e.local, timings |-> e.timings,
                                 accumulators |-> [f EXCEPT ![v.commitment] = t],
                                 certificate |-> e.certificate]
    BY <1>3 DEF WithTally, t, f
  <2>2. Abstract!WithTally(E, s, a, u) =
            [local |-> AbstractCheckpoint(l, e.local), timings |-> "live",
             accumulators |-> [named(f) EXCEPT ![k] = t],
             certificate |-> AbstractCertificate(l, e.certificate)]
    BY <1>2, <1>4, <1>5 DEF Abstract!WithTally
  <2>3. AbstractEntry(l, WithTally(e, s, a, v)) =
            [local |-> AbstractCheckpoint(l, e.local), timings |-> "live",
             accumulators |-> named([f EXCEPT ![v.commitment] = t]),
             certificate |-> AbstractCertificate(l, e.certificate)]
    BY <2>1 DEF AbstractEntry, named, w
  <2> QED
    BY <1>6, <2>2, <2>3
<1>8. AbstractEntry(l, WithCertificate(e, s, a, v)) = Abstract!WithCertificate(E, s, a, u)
  <2> DEFINE x == [checkpoint |-> v, proof |-> t.deliveredIn]
  <2>1. WithCertificate(e, s, a, v) =
            [local |-> e.local, timings |-> e.timings,
             accumulators |-> [f EXCEPT ![v.commitment] = EmptyAccumulator],
             certificate |-> x]
    <3>1. WithCertificate(e, s, a, v) =
              [e EXCEPT !.accumulators[v.commitment] = EmptyAccumulator, !.certificate = x]
      BY DEF WithCertificate, t
    <3> HIDE DEF x
    <3>2. [e EXCEPT !.accumulators[v.commitment] = EmptyAccumulator, !.certificate = x] =
              [local |-> e.local, timings |-> e.timings,
               accumulators |-> [f EXCEPT ![v.commitment] = EmptyAccumulator],
               certificate |-> x]
      <4>1. PICK g : g = [e EXCEPT !.accumulators[v.commitment] = EmptyAccumulator]
        OBVIOUS
      <4>2. g = [local |-> e.local, timings |-> e.timings,
                 accumulators |-> [f EXCEPT ![v.commitment] = EmptyAccumulator],
                 certificate |-> e.certificate]
        BY <1>3, <4>1 DEF f
      <4>3. [g EXCEPT !.certificate = x] =
                [local |-> e.local, timings |-> e.timings,
                 accumulators |-> [f EXCEPT ![v.commitment] = EmptyAccumulator],
                 certificate |-> x]
        BY <4>2
      <4>4. [e EXCEPT !.accumulators[v.commitment] = EmptyAccumulator, !.certificate = x] =
                [g EXCEPT !.certificate = x]
        BY <4>1
      <4> QED
        BY <4>3, <4>4
    <3> QED
      BY <3>1, <3>2
  <2>2. Abstract!WithCertificate(E, s, a, u) =
            [local |-> AbstractCheckpoint(l, e.local), timings |-> "live",
             accumulators |-> [named(f) EXCEPT ![k] = EmptyAccumulator],
             certificate |-> [checkpoint |-> u, proof |-> t.deliveredIn]]
    <3>1. Abstract!EmptyAccumulator = EmptyAccumulator
      BY DEF EmptyAccumulator, Abstract!EmptyAccumulator
    <3>2. PICK y : y = [checkpoint |-> u, proof |-> t.deliveredIn]
      OBVIOUS
    <3>3. Abstract!WithCertificate(E, s, a, u) =
              [E EXCEPT !.accumulators[k] = EmptyAccumulator, !.certificate = y]
      BY <1>2, <1>5, <3>1, <3>2 DEF Abstract!WithCertificate
    <3>4. [E EXCEPT !.accumulators[k] = EmptyAccumulator, !.certificate = y] =
              [local |-> AbstractCheckpoint(l, e.local), timings |-> "live",
               accumulators |-> [named(f) EXCEPT ![k] = EmptyAccumulator],
               certificate |-> y]
      <4>1. PICK g : g = [E EXCEPT !.accumulators[k] = EmptyAccumulator]
        OBVIOUS
      <4>2. g = [local |-> AbstractCheckpoint(l, e.local), timings |-> "live",
                 accumulators |-> [named(f) EXCEPT ![k] = EmptyAccumulator],
                 certificate |-> AbstractCertificate(l, e.certificate)]
        BY <1>4, <4>1
      <4>3. [g EXCEPT !.certificate = y] =
                [local |-> AbstractCheckpoint(l, e.local), timings |-> "live",
                 accumulators |-> [named(f) EXCEPT ![k] = EmptyAccumulator],
                 certificate |-> y]
        BY <4>2
      <4>4. [E EXCEPT !.accumulators[k] = EmptyAccumulator, !.certificate = y] =
                [g EXCEPT !.certificate = y]
        BY <4>1
      <4> QED
        BY <4>3, <4>4
    <3> QED
      BY <3>2, <3>3, <3>4
  <2>3. AbstractCertificate(l, x) = [checkpoint |-> u, proof |-> t.deliveredIn]
    <3>1. x # None
      <4>1. x \in CertifiedCheckpoint
        <5>1. t \in Accumulator
          BY TalliedType DEF t
        <5> QED
          BY <5>1 DEF Accumulator, CertifiedCheckpoint
      <4> QED
        BY <4>1, NoneAssumption
    <3> QED
      BY <3>1 DEF AbstractCertificate, u
  <2>4. AbstractEntry(l, WithCertificate(e, s, a, v)) =
            [local |-> AbstractCheckpoint(l, e.local), timings |-> "live",
             accumulators |-> named([f EXCEPT ![v.commitment] = EmptyAccumulator]),
             certificate |-> AbstractCertificate(l, x)]
    <3> HIDE DEF x
    <3> QED
      BY <2>1 DEF AbstractEntry, named, w
  <2> HIDE DEF x
  <2> QED
    BY <1>6, <2>2, <2>3, <2>4
<1>9. KnownEntry(l, WithTally(e, s, a, v)) /\ KnownEntry(l, WithCertificate(e, s, a, v))
  <2>1. /\ WithTally(e, s, a, v).local = e.local
        /\ WithTally(e, s, a, v).certificate = e.certificate
        /\ WithCertificate(e, s, a, v).local = e.local
        /\ WithCertificate(e, s, a, v).certificate.checkpoint = v
    BY <1>3 DEF WithTally, WithCertificate
  <2>2. \A d \in Commitments \ Reached(l) :
            /\ WithTally(e, s, a, v).accumulators[d] = f[d]
            /\ WithCertificate(e, s, a, v).accumulators[d] = f[d]
    BY <1>3 DEF WithTally, WithCertificate, f
  <2> QED
    BY <2>1, <2>2 DEF KnownEntry, KnownCertificate, f
<1> QED
  BY <1>7, <1>8, <1>9 DEF E, u

(***************************************************************************)
(* Two windows with the same entries are mapped to the same window.        *)
(***************************************************************************)
LEMMA AbstractOf ==
    ASSUME NEW l, NEW c \in CheckpointCertifier, NEW q, NEW w, NEW X, q \in Seq(X),
           Len(q) = Len(c.pending),
           \A i \in 1..Len(c.pending) : q[i] = AbstractEntry(l, c.pending[i]),
           w = AbstractCertificate(l, c.watermark)
    PROVE  AbstractCertifier(l, c) = [pending |-> q, watermark |-> w]
<1> DEFINE p == c.pending
<1>1. DOMAIN p = 1..Len(p) /\ q = [i \in 1..Len(p) |-> q[i]]
  <2>1. DOMAIN p = 1..Len(p) /\ Len(p) \in Nat
    BY LenProperties DEF CheckpointCertifier
  <2>2. q = [i \in 1..Len(q) |-> q[i]]
    BY LenProperties
  <2> QED
    BY <2>1, <2>2
<1>2. [i \in DOMAIN p |-> AbstractEntry(l, p[i])] = q
  <2> HIDE DEF p
  <2>1. \A i \in 1..Len(p) : q[i] = AbstractEntry(l, p[i])
    BY DEF p
  <2> QED
    BY <1>1, <2>1
<1> QED
  BY <1>2 DEF AbstractCertifier

(***************************************************************************)
(* Counting a vote (certifier.rs:186-199).                                 *)
(***************************************************************************)
LEMMA AbstractCounted ==
    ASSUME NEW l, Numbering(l), NEW c \in CheckpointCertifier, KnownCertifier(l, c),
           NEW s \in Anchors, NEW a \in Authorities,
           NEW v \in Checkpoint, v.commitment \in Reached(l), Admissible(c, a, v)
    PROVE  /\ Abstract!Counted(AbstractCertifier(l, c), s, a, AbstractCheckpoint(l, v)) =
                  AbstractCertifier(l, Counted(c, s, a, v))
           /\ KnownCertifier(l, Counted(c, s, a, v))
<1> DEFINE A == AbstractCertifier(l, c)
           u == AbstractCheckpoint(l, v)
           i == EntryOf(c.pending, v.anchor)
           n == Len(c.pending)
           d == Counted(c, s, a, v)
           e == IF FormsCertificate(c, s, a, v) THEN WithCertificate(c.pending[i], s, a, v)
                                                ELSE WithTally(c.pending[i], s, a, v)
           X == {A.pending[j] : j \in 1..n} \cup {AbstractEntry(l, e)}
           q == [A.pending EXCEPT ![i] = AbstractEntry(l, e)]
<1>1. /\ i \in 1..n /\ c.pending[i] \in PendingCheckpoint /\ n \in Nat
      /\ KnownEntry(l, c.pending[i])
  BY EntryOfAdmissible, LenProperties DEF CheckpointCertifier, KnownCertifier
<1>2. /\ d \in CheckpointCertifier /\ d.watermark = c.watermark /\ Len(d.pending) = n
      /\ \A j \in 1..n : j # i => d.pending[j] = c.pending[j]
      /\ d.pending[i] = e
  BY CountedType, CountedProperties
<1>3. /\ Len(A.pending) = n /\ DOMAIN A.pending = 1..n
      /\ \A j \in 1..n : A.pending[j] = AbstractEntry(l, c.pending[j])
      /\ A.watermark = AbstractCertificate(l, c.watermark)
  BY AbstractFields
<1>4. /\ Abstract!EntryOf(A.pending, u.anchor) = i
      /\ Abstract!FormsCertificate(A, s, a, u) <=> FormsCertificate(c, s, a, v)
  BY AbstractAdmission
<1>5. /\ AbstractEntry(l, e) = IF FormsCertificate(c, s, a, v)
                               THEN Abstract!WithCertificate(A.pending[i], s, a, u)
                               ELSE Abstract!WithTally(A.pending[i], s, a, u)
      /\ KnownEntry(l, e)
  <2>1. PICK x \in PendingCheckpoint : x = c.pending[i]
    BY <1>1
  <2>2. /\ Abstract!WithTally(AbstractEntry(l, x), s, a, u) =
               AbstractEntry(l, WithTally(x, s, a, v))
        /\ Abstract!WithCertificate(AbstractEntry(l, x), s, a, u) =
               AbstractEntry(l, WithCertificate(x, s, a, v))
        /\ KnownEntry(l, WithTally(x, s, a, v))
        /\ KnownEntry(l, WithCertificate(x, s, a, v))
    BY <1>1, <2>1, AbstractTally
  <2>3. A.pending[i] = AbstractEntry(l, x)
    BY <1>1, <1>3, <2>1
  <2> HIDE DEF A, u, i
  <2> QED
    BY <2>1, <2>2, <2>3
<1>6. A = [pending |-> A.pending, watermark |-> A.watermark]
  BY DEF AbstractCertifier
<1> HIDE DEF A, u, i, n, d, e
<1>7. Abstract!Counted(A, s, a, u) = [pending |-> q, watermark |-> A.watermark]
  <2>1. Abstract!Counted(A, s, a, u) =
            IF FormsCertificate(c, s, a, v)
            THEN [A EXCEPT !.pending[i] = Abstract!WithCertificate(A.pending[i], s, a, u)]
            ELSE [A EXCEPT !.pending[i] = Abstract!WithTally(A.pending[i], s, a, u)]
    BY <1>1, <1>3, <1>4, <1>6 DEF Abstract!Counted
  <2>2. Abstract!Counted(A, s, a, u) = [A EXCEPT !.pending[i] = AbstractEntry(l, e)]
    BY <1>5, <2>1
  <2>3. PICK E : E = AbstractEntry(l, e)
    OBVIOUS
  <2>4. [A EXCEPT !.pending[i] = E] =
            [pending |-> [A.pending EXCEPT ![i] = E], watermark |-> A.watermark]
    BY <1>6
  <2> QED
    BY <2>2, <2>3, <2>4
<1>8. /\ DOMAIN q = 1..n /\ q[i] = AbstractEntry(l, e)
      /\ \A j \in 1..n : j # i => q[j] = A.pending[j]
  BY <1>1, <1>3
<1>9. q \in Seq(X) /\ Len(q) = n
  <2>1. q = [j \in 1..n |-> q[j]]
    BY <1>3
  <2>2. \A j \in 1..n : q[j] \in X
    BY <1>8
  <2> HIDE DEF X, q
  <2>3. q \in [1..n -> X]
    BY <2>1, <2>2
  <2> QED
    BY <1>1, <2>3
<1> HIDE DEF q, X
<1>10. \A j \in 1..n : q[j] = AbstractEntry(l, d.pending[j])
  BY <1>2, <1>3, <1>8
<1>11. AbstractCertifier(l, d) = [pending |-> q, watermark |-> A.watermark]
  <2>1. A.watermark = AbstractCertificate(l, d.watermark)
    BY <1>2, <1>3
  <2>2. \A j \in 1..Len(d.pending) : q[j] = AbstractEntry(l, d.pending[j])
    BY <1>2, <1>10
  <2>3. Len(q) = Len(d.pending)
    BY <1>2, <1>9
  <2> QED
    BY <1>2, <1>9, <2>1, <2>2, <2>3, AbstractOf
<1>12. KnownCertifier(l, d)
  <2>1. \A j \in 1..n : KnownEntry(l, c.pending[j])
    BY DEF KnownCertifier, n
  <2>2. KnownCertificate(l, c.watermark)
    BY DEF KnownCertifier
  <2> QED
    BY <1>2, <1>5, <2>1, <2>2 DEF KnownCertifier
<1> QED
  BY <1>7, <1>11, <1>12 DEF A, u, d

(***************************************************************************)
(* The advance of the watermark (certifier.rs:203-209).                    *)
(***************************************************************************)
LEMMA AbstractAdvance ==
    ASSUME NEW l, Numbering(l), NEW c \in CheckpointCertifier, KnownCertifier(l, c)
    PROVE  /\ Abstract!Advance(AbstractCertifier(l, c)) = AbstractCertifier(l, Advance(c))
           /\ KnownCertifier(l, Advance(c))
<1> DEFINE A == AbstractCertifier(l, c)
           n == Len(c.pending)
           k == CertifiedPrefix(c.pending)
           d == Advance(c)
           q == SubSeq(A.pending, k + 1, n)
           w == IF k = 0 THEN A.watermark ELSE A.pending[k].certificate
           X == {A.pending[j] : j \in 1..n}
<1>1. /\ n \in Nat
      /\ \A i \in 1..n : c.pending[i] \in PendingCheckpoint
      /\ Len(A.pending) = n /\ DOMAIN A.pending = 1..n
      /\ \A i \in 1..n : A.pending[i] = AbstractEntry(l, c.pending[i])
      /\ A.watermark = AbstractCertificate(l, c.watermark)
  BY AbstractFields
<1>2. /\ d \in CheckpointCertifier /\ Len(d.pending) = n - k
      /\ \A i \in 1..(n - k) : d.pending[i] = c.pending[k + i]
      /\ d.watermark = IF k = 0 THEN c.watermark ELSE c.pending[k].certificate
  BY AdvanceProperties
<1>3. k \in 0..n
  BY CertifiedPrefixProperties DEF CheckpointCertifier
<1>4. \A i \in 1..n : KnownEntry(l, c.pending[i])
  BY DEF KnownCertifier
<1> HIDE DEF A, n, d
<1>5. \A i \in 1..n : Abstract!Certified(A.pending[i]) <=> Certified(c.pending[i])
  <2> TAKE i \in 1..n
  <2>1. PICK e \in PendingCheckpoint : e = c.pending[i]
    BY <1>1
  <2>2. KnownEntry(l, e)
    BY <1>4, <2>1
  <2>3. Abstract!Certified(AbstractEntry(l, e)) <=> Certified(e)
    BY <2>2, AbstractCertified
  <2> QED
    BY <1>1, <2>1, <2>3
<1>6. Abstract!CertifiedPrefix(A.pending) = k
  <2> DEFINE Longest(j) == /\ \A i \in 1..j : Certified(c.pending[i])
                           /\ j < n => ~Certified(c.pending[j + 1])
             AbstractLongest(j) == /\ \A i \in 1..j : Abstract!Certified(A.pending[i])
                                   /\ j < n => ~Abstract!Certified(A.pending[j + 1])
  <2>1. \A j \in 0..n : /\ \A i \in 1..j : i \in 1..n
                        /\ j < n => j + 1 \in 1..n
    BY <1>1
  <2>2. \A j \in 0..n : Longest(j) <=> AbstractLongest(j)
    BY <1>5, <2>1
  <2>3. k = CHOOSE j \in 0..n : Longest(j)
    BY DEF CertifiedPrefix, n
  <2>4. Abstract!CertifiedPrefix(A.pending) = CHOOSE j \in 0..n : AbstractLongest(j)
    BY <1>1 DEF Abstract!CertifiedPrefix
  <2> HIDE DEF Longest, AbstractLongest
  <2> QED
    BY <2>2, <2>3, <2>4
<1> HIDE DEF k
<1>7. Abstract!Advance(A) = [pending |-> q, watermark |-> w]
  BY <1>1, <1>6 DEF Abstract!Advance
<1>8. q \in Seq(X) /\ Len(q) = n - k /\ \A i \in 1..(n - k) : q[i] = A.pending[k + i]
  <2>1. A.pending \in Seq(X)
    <3>1. A.pending = [i \in 1..n |-> A.pending[i]]
      BY <1>1 DEF A, AbstractCertifier
    <3>2. \A i \in 1..n : A.pending[i] \in X
      OBVIOUS
    <3> HIDE DEF X
    <3>3. A.pending \in [1..n -> X]
      BY <3>1, <3>2
    <3> QED
      BY <1>1, <3>3
  <2>2. \A i \in (k + 1)..n : A.pending[i] \in X
    <3> TAKE i \in (k + 1)..n
    <3>1. i \in 1..n
      BY <1>1, <1>3
    <3> QED
      BY <3>1
  <2>3. k + 1 \in Int /\ n \in Int
    BY <1>1, <1>3
  <2> HIDE DEF X
  <2>4. /\ q \in Seq(X)
        /\ Len(q) = IF k + 1 <= n THEN n - (k + 1) + 1 ELSE 0
        /\ \A i \in 1..(n - (k + 1) + 1) : q[i] = A.pending[(k + 1) + i - 1]
    BY <1>1, <2>1, <2>2, <2>3, SubSeqProperties
  <2> QED
    BY <1>1, <1>3, <2>4
<1> HIDE DEF q, w, X
<1>9. \A i \in 1..(n - k) : k + i \in 1..n
  BY <1>1, <1>3
<1>10. \A i \in 1..Len(d.pending) : q[i] = AbstractEntry(l, d.pending[i])
  <2> TAKE i \in 1..Len(d.pending)
  <2>1. i \in 1..(n - k)
    BY <1>2
  <2> QED
    BY <1>1, <1>2, <1>8, <1>9, <2>1
<1>11. w = AbstractCertificate(l, d.watermark)
  <2>1. CASE k = 0
    BY <1>1, <1>2, <2>1 DEF w
  <2>2. CASE k # 0
    <3>1. k \in 1..n
      BY <1>1, <1>3, <2>2
    <3>2. w = A.pending[k].certificate /\ d.watermark = c.pending[k].certificate
      BY <1>2, <2>2 DEF w
    <3>3. \A e : AbstractEntry(l, e).certificate = AbstractCertificate(l, e.certificate)
      BY DEF AbstractEntry
    <3> QED
      BY <1>1, <3>1, <3>2, <3>3
  <2> QED
    BY <2>1, <2>2
<1>12. AbstractCertifier(l, d) = [pending |-> q, watermark |-> w]
  <2>1. Len(q) = Len(d.pending)
    BY <1>2, <1>8
  <2> QED
    BY <1>2, <1>8, <1>10, <1>11, <2>1, AbstractOf
<1>13. KnownCertifier(l, d)
  <2>1. KnownCertificate(l, d.watermark)
    <3>1. CASE k = 0
      BY <1>2, <3>1 DEF KnownCertifier
    <3>2. CASE k # 0
      <4>1. k \in 1..n
        BY <1>1, <1>3, <3>2
      <4> QED
        BY <1>2, <1>4, <3>2, <4>1 DEF KnownEntry
    <3> QED
      BY <3>1, <3>2
  <2>2. ASSUME NEW i \in 1..Len(d.pending) PROVE KnownEntry(l, d.pending[i])
    <3>1. i \in 1..(n - k)
      BY <1>2
    <3> QED
      BY <1>2, <1>4, <1>9, <3>1
  <2> QED
    BY <2>1, <2>2 DEF KnownCertifier
<1> QED
  BY <1>7, <1>12, <1>13 DEF A, d

(***************************************************************************)
(* Recording a vote on the abstract certifier is recording it, and the     *)
(* certifier still knows of the log's histories only                       *)
(* (certifier.rs:129-211).                                                 *)
(***************************************************************************)
LEMMA AbstractRecord ==
    ASSUME NEW l, Numbering(l), NEW c \in CheckpointCertifier, KnownCertifier(l, c),
           NEW s \in Anchors, NEW a \in Authorities,
           NEW v \in Checkpoint, v.commitment \in Reached(l)
    PROVE  /\ Abstract!Record(AbstractCertifier(l, c), s, a, AbstractCheckpoint(l, v)) =
                  AbstractCertifier(l, Record(c, s, a, v))
           /\ KnownCertifier(l, Record(c, s, a, v))
<1> DEFINE A == AbstractCertifier(l, c)
           u == AbstractCheckpoint(l, v)
           d == Counted(c, s, a, v)
<1>1. /\ Abstract!Admissible(A, a, u) <=> Admissible(c, a, v)
      /\ Abstract!FormsCertificate(A, s, a, u) <=> FormsCertificate(c, s, a, v)
  BY AbstractAdmission
<1>2. Admissible(c, a, v) =>
          /\ Abstract!Counted(A, s, a, u) = AbstractCertifier(l, d)
          /\ KnownCertifier(l, d)
          /\ Abstract!Advance(AbstractCertifier(l, d)) = AbstractCertifier(l, Advance(d))
          /\ KnownCertifier(l, Advance(d))
  <2> HAVE Admissible(c, a, v)
  <2>1. Abstract!Counted(A, s, a, u) = AbstractCertifier(l, d) /\ KnownCertifier(l, d)
    BY AbstractCounted
  <2>2. d \in CheckpointCertifier
    BY CountedType
  <2> HIDE DEF d
  <2> QED
    BY <2>1, <2>2, AbstractAdvance
<1> HIDE DEF A, u
<1>3. Abstract!Record(A, s, a, u) = AbstractCertifier(l, Record(c, s, a, v))
  <2>1. Abstract!Record(A, s, a, u) =
            IF ~Abstract!Admissible(A, a, u) THEN A
            ELSE IF Abstract!FormsCertificate(A, s, a, u)
            THEN Abstract!Advance(Abstract!Counted(A, s, a, u))
            ELSE Abstract!Counted(A, s, a, u)
    BY DEF Abstract!Record
  <2>2. Record(c, s, a, v) = IF ~Admissible(c, a, v) THEN c
                             ELSE IF FormsCertificate(c, s, a, v) THEN Advance(d) ELSE d
    BY DEF Record
  <2>3. A = AbstractCertifier(l, c)
    BY DEF A
  <2> HIDE DEF d
  <2> QED
    BY <1>1, <1>2, <2>1, <2>2, <2>3
<1>4. KnownCertifier(l, Record(c, s, a, v))
  BY <1>2 DEF Record
<1> QED
  BY <1>3, <1>4 DEF A, u

(***************************************************************************)
(* A mint (certifier.rs:110-121).                                          *)
(***************************************************************************)
LEMMA AbstractPush ==
    ASSUME NEW l, Numbering(l), NEW c \in CheckpointCertifier, KnownCertifier(l, c),
           NEW n \in Anchors, NEW d \in Reached(l), NEW t \in Timings
    PROVE  /\ Abstract!Push(AbstractCertifier(l, c), n, Number(l, d), "live") =
                  AbstractCertifier(l, Push(c, n, d, t))
           /\ KnownCertifier(l, Push(c, n, d, t))
<1> DEFINE A == AbstractCertifier(l, c)
           m == Len(c.pending)
           w == Writing(l, Len(l))
           entry == [local        |-> [anchor |-> n, commitment |-> d],
                     timings      |-> t,
                     accumulators |-> [e \in Commitments |-> EmptyAccumulator],
                     certificate  |-> None]
           abstract == [local        |-> [anchor |-> n, commitment |-> Number(l, d)],
                        timings      |-> "live",
                        accumulators |-> [e \in 0..MaxSubdag |-> Abstract!EmptyAccumulator],
                        certificate  |-> None]
           after == Push(c, n, d, t)
           q == Append(A.pending, abstract)
           X == {A.pending[j] : j \in 1..m} \cup {abstract}
<1>1. /\ m \in Nat /\ Len(A.pending) = m /\ DOMAIN A.pending = 1..m
      /\ \A j \in 1..m : A.pending[j] = AbstractEntry(l, c.pending[j])
      /\ A.watermark = AbstractCertificate(l, c.watermark)
  BY AbstractFields
<1>2. d \in Commitments
  BY SubdagsAssumption DEF Numbering
<1>3. /\ after \in CheckpointCertifier /\ after.watermark = c.watermark
      /\ Len(after.pending) = m + 1
      /\ \A i \in 1..m : after.pending[i] = c.pending[i]
      /\ after.pending[m + 1] = entry
  BY <1>2, PushType, PushAppends
<1>4. AbstractEntry(l, entry) = abstract
  <2>1. \A k \in 0..w : Numbered(l, k) \in Commitments
    BY SubdagsAssumption DEF Numbering
  <2>2. w \in 0..MaxSubdag /\ MaxSubdag \in Nat
    BY RoundAssumption DEF Numbering
  <2>3. \A k \in 0..MaxSubdag : k <= w => k \in 0..w
    BY <2>2
  <2> DEFINE none == [e \in Commitments |-> EmptyAccumulator]
  <2>4. \A k \in 0..MaxSubdag :
            (IF k <= w THEN none[Numbered(l, k)] ELSE EmptyAccumulator) = EmptyAccumulator
    BY <2>1, <2>3
  <2>5. [k \in 0..MaxSubdag |-> IF k <= w THEN none[Numbered(l, k)] ELSE EmptyAccumulator] =
            [e \in 0..MaxSubdag |-> Abstract!EmptyAccumulator]
    <3>1. Abstract!EmptyAccumulator = EmptyAccumulator
      BY DEF EmptyAccumulator, Abstract!EmptyAccumulator
    <3> HIDE DEF none, w
    <3> QED
      BY <2>4, <3>1
  <2>6. AbstractCheckpoint(l, [anchor |-> n, commitment |-> d]) =
            [anchor |-> n, commitment |-> Number(l, d)]
    BY DEF AbstractCheckpoint
  <2>7. AbstractCertificate(l, None) = None
    BY DEF AbstractCertificate
  <2>8. AbstractEntry(l, entry) =
            [local        |-> AbstractCheckpoint(l, [anchor |-> n, commitment |-> d]),
             timings      |-> "live",
             accumulators |-> [k \in 0..MaxSubdag |->
                                  IF k <= w THEN none[Numbered(l, k)] ELSE EmptyAccumulator],
             certificate  |-> AbstractCertificate(l, None)]
    BY DEF AbstractEntry
  <2> HIDE DEF none, w
  <2> QED
    BY <2>5, <2>6, <2>7, <2>8
<1>5. Abstract!Push(A, n, Number(l, d), "live") = [pending |-> q, watermark |-> A.watermark]
  <2>1. A = [pending |-> A.pending, watermark |-> A.watermark]
    BY DEF AbstractCertifier
  <2>2. Abstract!Push(A, n, Number(l, d), "live") = [A EXCEPT !.pending = q]
    BY DEF Abstract!Push
  <2> HIDE DEF q
  <2> QED
    BY <2>1, <2>2
<1>6. A.pending \in Seq(X)
  <2>1. A.pending = [i \in 1..m |-> A.pending[i]]
    BY <1>1 DEF AbstractCertifier
  <2>2. \A i \in 1..m : A.pending[i] \in X
    OBVIOUS
  <2> HIDE DEF X, A
  <2>3. A.pending \in [1..m -> X]
    BY <2>1, <2>2
  <2> HIDE DEF m
  <2> QED
    BY <1>1, <2>3
<1>7. abstract \in X
  OBVIOUS
<1>8. KnownEntry(l, entry)
  BY DEF KnownEntry, KnownCertificate
<1> HIDE DEF A, m, abstract, entry, after, X
<1>9. /\ q \in Seq(X) /\ Len(q) = m + 1
      /\ \A i \in 1..m : q[i] = A.pending[i]
      /\ q[m + 1] = abstract
  BY <1>1, <1>6, <1>7, AppendProperties
<1>10. \A i \in 1..(m + 1) : i \in 1..m \/ i = m + 1
  BY <1>1
<1> HIDE DEF q
<1>11. AbstractCertifier(l, after) = [pending |-> q, watermark |-> A.watermark]
  <2>1. \A i \in 1..Len(after.pending) : q[i] = AbstractEntry(l, after.pending[i])
    BY <1>1, <1>3, <1>4, <1>9, <1>10
  <2>2. Len(q) = Len(after.pending)
    BY <1>3, <1>9
  <2>3. A.watermark = AbstractCertificate(l, after.watermark)
    BY <1>1, <1>3
  <2> QED
    BY <1>3, <1>9, <2>1, <2>2, <2>3, AbstractOf
<1>12. KnownCertifier(l, after)
  <2>1. /\ \A i \in 1..m : KnownEntry(l, c.pending[i])
        /\ KnownCertificate(l, c.watermark)
    BY DEF KnownCertifier, m
  <2> QED
    BY <1>3, <1>8, <1>10, <2>1 DEF KnownCertifier
<1> QED
  BY <1>5, <1>11, <1>12 DEF A, after
-----------------------------------------------------------------------------
\* The fold of Ledger over the votes of a sub-dag.
ObserveAll(progress, n, votes) ==
    Abstract!FoldLeft(LAMBDA p, vote : Abstract!ObserveVote(p, n, vote), progress, votes)

\* The votes of a sub-dag, as the log keeps them.
Cast(votes) ==
    [i \in DOMAIN votes |-> [author |-> votes[i].author,
                             checkpoint |-> votes[i].envelope.checkpoint]]

AbstractVotes(l, votes) == [i \in DOMAIN votes |-> AbstractVote(l, Cast(votes)[i])]

\* What the abstract fold can reach: certifiers that know of the log's histories.
AbstractProgress(l) ==
    [certifier : {AbstractCertifier(l, c) : c \in {x \in CheckpointCertifier :
                                                       KnownCertifier(l, x)}},
     latencies : Seq({"live"})]

(***************************************************************************)
(* Observing one vote on the abstract certifier (validator.rs:319-328).    *)
(***************************************************************************)
LEMMA AbstractObserves ==
    ASSUME NEW l, Numbering(l), NEW n \in Anchors,
           NEW c \in CheckpointCertifier, KnownCertifier(l, c), NEW latencies \in Seq({"live"}),
           NEW d \in OneOf("Attest"), d.envelope.checkpoint.commitment \in Reached(l)
    PROVE  LET vote == AbstractVote(l, [author |-> d.author,
                                        checkpoint |-> d.envelope.checkpoint])
               p == [certifier |-> AbstractCertifier(l, c), latencies |-> latencies]
           IN  /\ Abstract!ObserveVote(p, n, vote) \in AbstractProgress(l)
               /\ Abstract!ObserveVote(p, n, vote).certifier =
                      AbstractCertifier(l, RecordOne(n, c, d))
               /\ RecordOne(n, c, d) \in CheckpointCertifier
               /\ KnownCertifier(l, RecordOne(n, c, d))
<1> DEFINE A == AbstractCertifier(l, c)
           a == d.author
           v == d.envelope.checkpoint
           u == AbstractCheckpoint(l, v)
           vote == AbstractVote(l, [author |-> a, checkpoint |-> v])
           p == [certifier |-> A, latencies |-> latencies]
           returned == Abstract!Returned(A, n, a, u)
           after == RecordOne(n, c, d)
<1>1. a \in Authorities /\ v \in Checkpoint
  BY KindsOfEnvelopes DEF Attestation
<1>2. vote.author = a /\ vote.checkpoint = u
  BY DEF AbstractVote
<1>3. after \in CheckpointCertifier
  BY RecordOneType
<1>4. /\ Abstract!Record(A, n, a, u) = AbstractCertifier(l, after)
      /\ KnownCertifier(l, after)
  <2> HIDE DEF a, v
  <2> QED
    BY <1>1, AbstractRecord DEF RecordOne, a, v
<1>5. returned # None => returned = "live"
  <2> HAVE returned # None
  <2>1. Abstract!FormsCertificate(A, n, a, u)
    BY DEF Abstract!Returned
  <2>2. returned = A.pending[Abstract!EntryOf(A.pending, u.anchor)].timings
    BY <2>1 DEF Abstract!Returned
  <2> HIDE DEF a, v, returned
  <2>3. PICK i : i = EntryOf(c.pending, v.anchor)
    OBVIOUS
  <2>4. FormsCertificate(c, n, a, v) /\ Abstract!EntryOf(A.pending, u.anchor) = i
    <3>1. v.commitment \in Reached(l)
      BY DEF v
    <3> QED
      BY <1>1, <2>1, <2>3, <3>1, AbstractAdmission
  <2>5. i \in 1..Len(c.pending)
    BY <1>1, <2>3, <2>4, EntryOfAdmissible DEF FormsCertificate
  <2>6. A.pending[i].timings = "live"
    BY <2>5, AbstractFields
  <2> QED
    BY <2>2, <2>4, <2>6
<1>6. Abstract!ObserveVote(p, n, vote) =
          [certifier |-> Abstract!Record(A, n, a, u),
           latencies |-> IF returned = None THEN latencies ELSE Append(latencies, returned)]
  BY <1>2 DEF Abstract!ObserveVote
<1> HIDE DEF A, a, u, v, vote, p, returned, after
<1>7. (IF returned = None THEN latencies ELSE Append(latencies, returned)) \in Seq({"live"})
  BY <1>5, AppendProperties
<1>8. Abstract!ObserveVote(p, n, vote) \in AbstractProgress(l)
  BY <1>3, <1>4, <1>6, <1>7 DEF AbstractProgress
<1>9. Abstract!ObserveVote(p, n, vote).certifier = AbstractCertifier(l, after)
  BY <1>4, <1>6
<1> QED
  BY <1>3, <1>4, <1>8, <1>9 DEF A, a, v, vote, p, after

(***************************************************************************)
(* The abstract votes are observed one after the other, and end in the     *)
(* window that recording the votes ends in (validator.rs:319-328).         *)
(***************************************************************************)
LEMMA AbstractVotesAreObserved ==
    ASSUME NEW l, Numbering(l), NEW n \in Anchors,
           NEW c \in CheckpointCertifier, KnownCertifier(l, c),
           NEW votes \in Seq(OneOf("Attest")),
           \A k \in 1..Len(votes) : votes[k].envelope.checkpoint.commitment \in Reached(l)
    PROVE  /\ ObserveAll([certifier |-> AbstractCertifier(l, c), latencies |-> << >>], n,
                         AbstractVotes(l, votes)).certifier =
                  AbstractCertifier(l, RecordAll(c, n, votes))
           /\ RecordAll(c, n, votes) \in CheckpointCertifier
           /\ KnownCertifier(l, RecordAll(c, n, votes))
<1> DEFINE m == Len(votes)
           U == AbstractVotes(l, votes)
           P == AbstractProgress(l)
           base == [certifier |-> AbstractCertifier(l, c), latencies |-> << >>]
           h == [pair \in (1..m) \X P |-> Abstract!ObserveVote(pair[2], n, U[pair[1]])]
           Solves(f) == f = [t \in SUBSET DOMAIN U |->
                                IF t = {} THEN base
                                ELSE Abstract!ObserveVote(f[t \ {Max(t)}], n, U[Max(t)])]
<1>1. /\ m \in Nat /\ DOMAIN votes = 1..m
      /\ \A k \in 1..m : votes[k] \in OneOf("Attest")
  BY LenProperties, ElementOfSeq
<1>2. /\ DOMAIN U = 1..m
      /\ \A k \in 1..m :
             U[k] = AbstractVote(l, [author |-> votes[k].author,
                                     checkpoint |-> votes[k].envelope.checkpoint])
  BY <1>1 DEF AbstractVotes, Cast
<1> HIDE DEF U
<1>3. ASSUME NEW k \in 1..m, NEW x \in CheckpointCertifier, KnownCertifier(l, x),
             NEW latencies \in Seq({"live"})
      PROVE  LET p == [certifier |-> AbstractCertifier(l, x), latencies |-> latencies]
             IN  /\ Abstract!ObserveVote(p, n, U[k]) \in P
                 /\ Abstract!ObserveVote(p, n, U[k]).certifier =
                        AbstractCertifier(l, RecordOne(n, x, votes[k]))
                 /\ RecordOne(n, x, votes[k]) \in CheckpointCertifier
                 /\ KnownCertifier(l, RecordOne(n, x, votes[k]))
  <2>1. votes[k] \in OneOf("Attest") /\ votes[k].envelope.checkpoint.commitment \in Reached(l)
    BY <1>1
  <2>2. PICK d \in OneOf("Attest") : d = votes[k]
    BY <2>1
  <2>3. d.envelope.checkpoint.commitment \in Reached(l)
    BY <2>1, <2>2
  <2>4. U[k] = AbstractVote(l, [author |-> d.author, checkpoint |-> d.envelope.checkpoint])
    BY <1>2, <2>2
  <2>5. LET vote == AbstractVote(l, [author |-> d.author,
                                     checkpoint |-> d.envelope.checkpoint])
            p == [certifier |-> AbstractCertifier(l, x), latencies |-> latencies]
        IN  /\ Abstract!ObserveVote(p, n, vote) \in AbstractProgress(l)
            /\ Abstract!ObserveVote(p, n, vote).certifier =
                   AbstractCertifier(l, RecordOne(n, x, d))
            /\ RecordOne(n, x, d) \in CheckpointCertifier
            /\ KnownCertifier(l, RecordOne(n, x, d))
    BY <1>3, <2>3, AbstractObserves
  <2> QED
    BY <2>2, <2>4, <2>5
<1>4. ASSUME NEW p \in P
      PROVE  \E x \in CheckpointCertifier, latencies \in Seq({"live"}) :
                 /\ KnownCertifier(l, x)
                 /\ p = [certifier |-> AbstractCertifier(l, x), latencies |-> latencies]
  <2>1. /\ p = [certifier |-> p.certifier, latencies |-> p.latencies]
        /\ p.certifier \in {AbstractCertifier(l, y) : y \in {x \in CheckpointCertifier :
                                                                 KnownCertifier(l, x)}}
        /\ p.latencies \in Seq({"live"})
    BY DEF AbstractProgress
  <2>2. PICK x \in CheckpointCertifier : /\ KnownCertifier(l, x)
                                         /\ p.certifier = AbstractCertifier(l, x)
    BY <2>1
  <2> QED
    BY <2>1, <2>2
<1> HIDE DEF P
<1>5. \A k \in 1..m, p \in P : Abstract!ObserveVote(p, n, U[k]) \in P
  <2> TAKE k \in 1..m, p \in P
  <2>1. PICK x \in CheckpointCertifier, latencies \in Seq({"live"}) :
             /\ KnownCertifier(l, x)
             /\ p = [certifier |-> AbstractCertifier(l, x), latencies |-> latencies]
    BY <1>4
  <2> QED
    BY <1>3, <2>1
<1>6. base \in P
  BY EmptySeq DEF P, AbstractProgress
<1>7. \A k \in 1..m, p \in P : h[<<k, p>>] = Abstract!ObserveVote(p, n, U[k])
  <2> HIDE DEF m
  <2> QED
    OBVIOUS
<1>8. \E f : Solves(f)
  <2>1. \A k \in 1..m, p \in P : h[<<k, p>>] \in P
    <3> HIDE DEF h, m
    <3> QED
      BY <1>5, <1>7
  <2>2. PICK f : Folds(f, P, base, m, h)
    <3> HIDE DEF h, m, base
    <3> QED
      BY <1>1, <1>6, <2>1, FoldExists
  <2>3. /\ f \in [SUBSET (1..m) -> P] /\ f[{}] = base
        /\ \A t \in (SUBSET (1..m)) \ {{}} : f[t] = h[<<Max(t), f[t \ {Max(t)}]>>]
    <3> HIDE DEF h, m, base
    <3> QED
      BY <2>2 DEF Folds
  <2>4. ASSUME NEW t \in SUBSET (1..m), t # {}
        PROVE  f[t] = Abstract!ObserveVote(f[t \ {Max(t)}], n, U[Max(t)])
    <3>1. Max(t) \in 1..m
      BY <1>1, <2>4, MaxOfInterval
    <3>2. f[t \ {Max(t)}] \in P
      BY <2>3
    <3>3. f[t] = h[<<Max(t), f[t \ {Max(t)}]>>]
      <4> HIDE DEF h, m, base
      <4> QED
        BY <2>3, <2>4
    <3> HIDE DEF h, m, base
    <3> QED
      BY <1>7, <3>1, <3>2, <3>3
  <2>5. Solves(f)
    <3> HIDE DEF base
    <3> QED
      BY <1>2, <2>3, <2>4
  <2> HIDE DEF Solves
  <2> QED
    BY <2>5
<1> DEFINE fold == CHOOSE f : Solves(f)
           r == [k \in 0..m |-> fold[1..k]]
<1>9. Solves(fold)
  <2> HIDE DEF Solves
  <2> QED
    BY <1>8
<1>10. ObserveAll(base, n, U) = fold[1..m]
  <2>1. \A t : Abstract!Max(t) = Max(t)
    BY DEF Max, Abstract!Max
  <2> QED
    BY <1>2, <2>1 DEF ObserveAll, Abstract!FoldLeft, Abstract!MapThenFoldSet
<1> HIDE DEF fold
<1>11. r[0] = base
  <2>1. 1..0 = {}
    OBVIOUS
  <2> HIDE DEF base
  <2> QED
    BY <1>1, <1>9, <2>1
<1>12. \A k \in 1..m : r[k] = Abstract!ObserveVote(r[k - 1], n, U[k])
  <2> TAKE k \in 1..m
  <2>1. Max(1..k) = k
    BY <1>1, MaxOfBounded
  <2>2. (1..k) \ {k} = 1..(k - 1)
    BY <1>1
  <2>3. 1..k \in SUBSET DOMAIN U /\ 1..k # {}
    <3> HIDE DEF m
    <3>1. \A j \in 1..k : j \in 1..m
      BY <1>1
    <3>2. 1 \in 1..k
      BY <1>1
    <3> QED
      BY <1>2, <3>1, <3>2
  <2>4. fold[1..k] = Abstract!ObserveVote(fold[(1..k) \ {Max(1..k)}], n, U[Max(1..k)])
    <3> HIDE DEF m, base
    <3> QED
      BY <1>9, <2>3
  <2>5. r[k] = fold[1..k] /\ r[k - 1] = fold[1..(k - 1)]
    BY <1>1
  <2> HIDE DEF r
  <2> QED
    BY <2>1, <2>2, <2>4, <2>5
<1>13. ObserveAll(base, n, U) = r[m]
  BY <1>1, <1>10
<1> HIDE DEF r
<1>14. PICK b \in [0..m -> CheckpointCertifier] :
           /\ b[0] = c
           /\ \A k \in 1..m : b[k] = RecordOne(n, b[k - 1], votes[k])
           /\ RecordAll(c, n, votes) = b[m]
  BY VotesAreRecorded
<1> DEFINE K == {k \in 0..m : /\ KnownCertifier(l, b[k])
                              /\ \E latencies \in Seq({"live"}) :
                                     r[k] = [certifier |-> AbstractCertifier(l, b[k]),
                                             latencies |-> latencies]}
<1>15. 0 \in K
  <2>1. 0 \in 0..m
    BY <1>1
  <2>2. KnownCertifier(l, b[0])
    BY <1>14
  <2>3. r[0] = [certifier |-> AbstractCertifier(l, b[0]), latencies |-> << >>]
    BY <1>11, <1>14
  <2>4. << >> \in Seq({"live"})
    BY EmptySeq
  <2> HIDE DEF m
  <2> QED
    BY <2>1, <2>2, <2>3, <2>4
<1>16. ASSUME NEW k \in 1..m, k - 1 \in K PROVE k \in K
  <2>1. /\ k - 1 \in 0..m /\ k \in 0..m
        /\ b[k - 1] \in CheckpointCertifier /\ KnownCertifier(l, b[k - 1])
    BY <1>1, <1>14, <1>16
  <2>2. PICK latencies \in Seq({"live"}) :
             r[k - 1] = [certifier |-> AbstractCertifier(l, b[k - 1]), latencies |-> latencies]
    BY <1>16
  <2>3. PICK x \in CheckpointCertifier : x = b[k - 1]
    BY <2>1
  <2>4. /\ r[k] \in P /\ r[k].certifier = AbstractCertifier(l, b[k])
        /\ KnownCertifier(l, b[k])
    BY <1>3, <1>12, <1>14, <2>1, <2>2, <2>3
  <2>5. r[k] = [certifier |-> r[k].certifier, latencies |-> r[k].latencies]
        /\ r[k].latencies \in Seq({"live"})
    BY <2>4 DEF P, AbstractProgress
  <2> QED
    BY <2>1, <2>4, <2>5
<1>17. 0..m \subseteq K
  <2> HIDE DEF K, m
  <2> QED
    BY <1>1, <1>15, <1>16, IntervalInduction
<1>18. m \in K
  <2> HIDE DEF K
  <2> QED
    BY <1>1, <1>17
<1>19. r[m].certifier = AbstractCertifier(l, b[m]) /\ KnownCertifier(l, b[m])
  <2>1. KnownCertifier(l, b[m])
    BY <1>18
  <2>2. PICK latencies \in Seq({"live"}) :
             r[m] = [certifier |-> AbstractCertifier(l, b[m]), latencies |-> latencies]
    BY <1>18
  <2> HIDE DEF K, m
  <2> QED
    BY <2>1, <2>2
<1>20. b[m] \in CheckpointCertifier
  BY <1>1, <1>14
<1> QED
  BY <1>13, <1>14, <1>19, <1>20 DEF U

\* A log that grows keeps the numbers of its histories.
Keeps(l, longer) ==
    /\ Numbering(l) /\ Numbering(longer)
    /\ Writing(l, Len(l)) <= Writing(longer, Len(longer))
    /\ \A d \in Reached(l) : d \in Reached(longer) /\ Number(longer, d) = Number(l, d)
    /\ \A k \in 0..Writing(l, Len(l)) : Numbered(longer, k) = Numbered(l, k)
    /\ \A k \in 0..Writing(longer, Len(longer)) :
           k \notin 0..Writing(l, Len(l)) => Numbered(longer, k) \notin Reached(l)

(***************************************************************************)
(* The next sub-dag keeps the numbers of the log.                          *)
(***************************************************************************)
LEMMA NumbersAreKept ==
    ASSUME NEW l \in Seq(LogRecord), NEW longer \in Seq(LogRecord),
           Chained(l), Chained(longer), Len(longer) <= MaxSubdag,
           Len(longer) = Len(l) + 1, \A i \in 1..Len(l) : longer[i] = l[i]
    PROVE  /\ Keeps(l, longer)
           /\ Writing(longer, Len(longer)) =
                  Writing(l, Len(l)) + WritesOf(longer[Len(longer)])
<1> DEFINE n == Len(l)
<1>1. n \in Nat /\ Len(longer) = n + 1 /\ n <= MaxSubdag /\ MaxSubdag \in Nat
  BY LenProperties, RoundAssumption
<1>2. Numbering(l) /\ Numbering(longer)
  BY <1>1, LogsNumber
<1>3. \A i \in 0..n : /\ Writing(longer, i) = Writing(l, i)
                      /\ CommitmentAt(longer, i) = CommitmentAt(l, i)
                      /\ i \in 0..Len(longer)
  <2> TAKE i \in 0..n
  <2>1. \A j \in 1..i : longer[j] = l[j]
    BY <1>1
  <2>2. {j \in 1..i : longer[j].effect = "writes"} = {j \in 1..i : l[j].effect = "writes"}
    BY <2>1
  <2>3. CommitmentAt(longer, i) = CommitmentAt(l, i)
    <3>1. i # 0 => i \in 1..i
      BY <1>1
    <3> QED
      BY <2>1, <3>1 DEF CommitmentAt
  <2>4. Writing(longer, i) = Writing(l, i)
    BY <2>2 DEF Writing
  <2>5. i \in 0..Len(longer)
    BY <1>1
  <2> QED
    BY <2>3, <2>4, <2>5
<1>4. Writing(longer, n + 1) = Writing(longer, n) + WritesOf(longer[n + 1])
  BY <1>1, WritingSteps
<1>5. ASSUME NEW d \in Reached(l)
      PROVE  d \in Reached(longer) /\ Number(longer, d) = Number(l, d)
  <2>1. PICK i \in 0..n : d = CommitmentAt(l, i)
    BY <1>5 DEF Reached
  <2>2. Number(l, d) = Writing(l, i)
    BY <2>1, NumberOfHistory
  <2>3. i \in 0..Len(longer) /\ d = CommitmentAt(longer, i)
    BY <1>3, <2>1
  <2>4. Number(longer, d) = Writing(longer, i)
    BY <2>3, NumberOfHistory
  <2>5. d \in Reached(longer)
    BY <2>3 DEF Reached
  <2> QED
    BY <1>3, <2>2, <2>4, <2>5
<1>6. ASSUME NEW k \in 0..Writing(l, n) PROVE Numbered(longer, k) = Numbered(l, k)
  <2>1. PICK i \in 0..n : Writing(l, i) = k
    BY NumbersAreReached
  <2>2. Numbered(l, k) = CommitmentAt(l, i)
    BY <2>1, NumberOfHistory
  <2>3. Numbered(longer, k) = CommitmentAt(longer, i)
    <3>1. i \in 0..Len(longer) /\ Writing(longer, i) = k
      BY <1>3, <2>1
    <3> QED
      BY <3>1, NumberOfHistory
  <2> QED
    BY <1>3, <2>2, <2>3
<1>7. ASSUME NEW k \in 0..Writing(longer, Len(longer)), k \notin 0..Writing(l, n)
      PROVE  Numbered(longer, k) \notin Reached(l)
  <2> SUFFICES ASSUME Numbered(longer, k) \in Reached(l) PROVE FALSE
    OBVIOUS
  <2>1. Number(longer, Numbered(longer, k)) = k
    BY <1>2 DEF Numbering
  <2>2. Number(l, Numbered(longer, k)) = k
    BY <1>5, <2>1
  <2>3. Number(l, Numbered(longer, k)) \in 0..Writing(l, n)
    BY <1>2 DEF Numbering
  <2> QED
    BY <1>7, <2>2, <2>3
<1>8. Writing(longer, Len(longer)) = Writing(l, n) + WritesOf(longer[Len(longer)])
  <2>1. Writing(longer, n) = Writing(l, n)
    BY <1>1, <1>3
  <2> QED
    BY <1>1, <1>4, <2>1
<1>9. Writing(l, n) <= Writing(longer, Len(longer))
  <2>1. Writing(l, n) \in Nat
    BY <1>1, WritingSteps
  <2>2. WritesOf(longer[Len(longer)]) \in {0, 1}
    BY DEF WritesOf
  <2> QED
    BY <1>8, <2>1, <2>2
<1> QED
  BY <1>2, <1>5, <1>6, <1>7, <1>8, <1>9 DEF Keeps

(***************************************************************************)
(* The mapping of a certifier that knows of the log's histories only does  *)
(* not change when the log grows.                                          *)
(***************************************************************************)
LEMMA CertifierIsKept ==
    ASSUME NEW l, NEW longer, Keeps(l, longer),
           NEW c \in CheckpointCertifier, KnownCertifier(l, c)
    PROVE  /\ AbstractCertifier(longer, c) = AbstractCertifier(l, c)
           /\ KnownCertifier(longer, c)
<1>1. /\ Len(c.pending) \in Nat /\ DOMAIN c.pending = 1..Len(c.pending)
      /\ \A i \in 1..Len(c.pending) : c.pending[i] \in PendingCheckpoint
  BY LenProperties, ElementOfSeq DEF CheckpointCertifier
<1>2. \A d \in Reached(l) : d \in Reached(longer) /\ Number(longer, d) = Number(l, d)
  BY DEF Keeps
<1>3. ASSUME NEW e, e.commitment \in Reached(l)
      PROVE  AbstractCheckpoint(longer, e) = AbstractCheckpoint(l, e)
  <2>1. Number(longer, e.commitment) = Number(l, e.commitment)
    BY <1>2, <1>3
  <2> QED
    BY <2>1 DEF AbstractCheckpoint
<1>4. ASSUME NEW e, KnownCertificate(l, e)
      PROVE  /\ AbstractCertificate(longer, e) = AbstractCertificate(l, e)
             /\ KnownCertificate(longer, e)
  <2>1. CASE e = None
    BY <2>1 DEF AbstractCertificate, KnownCertificate
  <2>2. CASE e # None
    <3>1. e.checkpoint.commitment \in Reached(l)
      BY <1>4, <2>2 DEF KnownCertificate
    <3>2. AbstractCheckpoint(longer, e.checkpoint) = AbstractCheckpoint(l, e.checkpoint)
      BY <1>3, <3>1
    <3> QED
      BY <1>2, <3>1, <3>2 DEF AbstractCertificate, KnownCertificate
  <2> QED
    BY <2>1, <2>2
<1>5. ASSUME NEW e \in PendingCheckpoint, KnownEntry(l, e)
      PROVE  AbstractEntry(longer, e) = AbstractEntry(l, e) /\ KnownEntry(longer, e)
  <2>1. /\ e.local.commitment \in Reached(l) /\ KnownCertificate(l, e.certificate)
        /\ \A d \in Commitments \ Reached(l) : e.accumulators[d] = EmptyAccumulator
    BY <1>5 DEF KnownEntry
  <2>2. /\ AbstractCheckpoint(longer, e.local) = AbstractCheckpoint(l, e.local)
        /\ e.local.commitment \in Reached(longer)
    BY <1>2, <1>3, <2>1
  <2>3. /\ AbstractCertificate(longer, e.certificate) = AbstractCertificate(l, e.certificate)
        /\ KnownCertificate(longer, e.certificate)
    BY <1>4, <2>1
  <2> DEFINE A(x) == [number \in 0..MaxSubdag |->
                          IF number <= Writing(x, Len(x))
                          THEN e.accumulators[Numbered(x, number)] ELSE EmptyAccumulator]
  <2>4. ASSUME NEW k \in 0..MaxSubdag PROVE A(longer)[k] = A(l)[k]
    <3>1. /\ Writing(l, Len(l)) \in 0..MaxSubdag /\ Writing(longer, Len(longer)) \in 0..MaxSubdag
          /\ Writing(l, Len(l)) <= Writing(longer, Len(longer))
      BY DEF Keeps, Numbering
    <3>2. /\ A(longer)[k] = IF k <= Writing(longer, Len(longer))
                            THEN e.accumulators[Numbered(longer, k)] ELSE EmptyAccumulator
          /\ A(l)[k] = IF k <= Writing(l, Len(l))
                       THEN e.accumulators[Numbered(l, k)] ELSE EmptyAccumulator
      OBVIOUS
    <3> HIDE DEF A
    <3>3. CASE k <= Writing(l, Len(l))
      <4>1. k \in 0..Writing(l, Len(l)) /\ k <= Writing(longer, Len(longer))
        BY <3>1, <3>3, RoundAssumption
      <4>2. Numbered(longer, k) = Numbered(l, k)
        BY <4>1 DEF Keeps
      <4> QED
        BY <3>2, <3>3, <4>1, <4>2
    <3>4. CASE ~(k <= Writing(l, Len(l))) /\ k <= Writing(longer, Len(longer))
      <4>1. k \in 0..Writing(longer, Len(longer)) /\ k \notin 0..Writing(l, Len(l))
        BY <3>1, <3>4, RoundAssumption
      <4>2. Numbered(longer, k) \in Commitments \ Reached(l)
        BY <4>1, SubdagsAssumption DEF Keeps, Numbering
      <4> QED
        BY <2>1, <3>2, <3>4, <4>2
    <3>5. CASE ~(k <= Writing(l, Len(l))) /\ ~(k <= Writing(longer, Len(longer)))
      BY <3>2, <3>5
    <3> QED
      BY <3>3, <3>4, <3>5
  <2>5. A(longer) = A(l)
    <3> DEFINE f == A(longer)
               g == A(l)
    <3>1. DOMAIN f = 0..MaxSubdag /\ DOMAIN g = 0..MaxSubdag
          /\ f = [k \in 0..MaxSubdag |-> f[k]] /\ g = [k \in 0..MaxSubdag |-> g[k]]
      OBVIOUS
    <3> HIDE DEF A
    <3> QED
      BY <2>4, <3>1
  <2>6. \A x : AbstractEntry(x, e) =
                   [local        |-> AbstractCheckpoint(x, e.local),
                    timings      |-> "live",
                    accumulators |-> A(x),
                    certificate  |-> AbstractCertificate(x, e.certificate)]
    BY DEF AbstractEntry
  <2>7. AbstractEntry(longer, e) = AbstractEntry(l, e)
    <3> HIDE DEF A
    <3> QED
      BY <2>2, <2>3, <2>5, <2>6
  <2>8. \A d \in Commitments \ Reached(longer) : e.accumulators[d] = EmptyAccumulator
    BY <1>2, <2>1
  <2> QED
    BY <2>2, <2>3, <2>7, <2>8 DEF KnownEntry
<1>6. /\ \A i \in 1..Len(c.pending) : KnownEntry(l, c.pending[i])
      /\ KnownCertificate(l, c.watermark)
  BY DEF KnownCertifier
<1>7. \A i \in 1..Len(c.pending) :
          /\ AbstractEntry(longer, c.pending[i]) = AbstractEntry(l, c.pending[i])
          /\ KnownEntry(longer, c.pending[i])
  BY <1>1, <1>5, <1>6
<1>8. /\ AbstractCertificate(longer, c.watermark) = AbstractCertificate(l, c.watermark)
      /\ KnownCertificate(longer, c.watermark)
  BY <1>4, <1>6
<1>9. [i \in DOMAIN c.pending |-> AbstractEntry(longer, c.pending[i])] =
          [i \in DOMAIN c.pending |-> AbstractEntry(l, c.pending[i])]
  BY <1>1, <1>7
<1>10. AbstractCertifier(longer, c) = AbstractCertifier(l, c)
  BY <1>8, <1>9 DEF AbstractCertifier
<1> QED
  BY <1>7, <1>8, <1>10 DEF KnownCertifier

\* The votes of a log are for histories that it reached.
KnownVotes(l) ==
    \A n \in 1..Len(l) : \A i \in 1..Len(l[n].votes) :
        l[n].votes[i].checkpoint.commitment \in Reached(l)

(***************************************************************************)
(* The abstract log, and that it only grows.                               *)
(***************************************************************************)
LEMMA LogIsKept ==
    ASSUME NEW l \in Seq(LogRecord), NEW longer \in Seq(LogRecord), Keeps(l, longer),
           KnownVotes(l), Len(longer) = Len(l) + 1, \A i \in 1..Len(l) : longer[i] = l[i]
    PROVE  /\ Len(AbstractLog(l)) = Len(l) /\ DOMAIN AbstractLog(l) = 1..Len(l)
           /\ Len(AbstractLog(longer)) = Len(l) + 1
           /\ DOMAIN AbstractLog(longer) = 1..(Len(l) + 1)
           /\ \A i \in 1..Len(l) : AbstractLog(longer)[i] = AbstractLog(l)[i]
<1> DEFINE rec(x, n) == [effect |-> x[n].effect,
                         votes  |-> [i \in DOMAIN x[n].votes |-> AbstractVote(x, x[n].votes[i])]]
<1>1. \A x : AbstractLog(x) = [n \in DOMAIN x |-> rec(x, n)]
  BY DEF AbstractLog
<1>2. /\ Len(l) \in Nat /\ DOMAIN l = 1..Len(l) /\ DOMAIN longer = 1..(Len(l) + 1)
  BY LenProperties
<1>3. ASSUME NEW n \in 1..Len(l) PROVE rec(longer, n) = rec(l, n)
  <2>1. longer[n] = l[n] /\ l[n] \in LogRecord
    BY ElementOfSeq
  <2>2. DOMAIN l[n].votes = 1..Len(l[n].votes)
    BY <2>1, LenProperties DEF LogRecord
  <2>3. \A i \in 1..Len(l[n].votes) :
            AbstractVote(longer, l[n].votes[i]) = AbstractVote(l, l[n].votes[i])
    <3> TAKE i \in 1..Len(l[n].votes)
    <3>1. l[n].votes[i].checkpoint.commitment \in Reached(l)
      BY DEF KnownVotes
    <3>2. \A v : v.checkpoint.commitment \in Reached(l) =>
                     AbstractVote(longer, v) = AbstractVote(l, v)
      BY DEF AbstractVote, AbstractCheckpoint, Keeps
    <3> QED
      BY <3>1, <3>2
  <2> QED
    BY <2>1, <2>2, <2>3
<1>4. ASSUME NEW x \in Seq(LogRecord)
      PROVE  Len(AbstractLog(x)) = Len(x) /\ DOMAIN AbstractLog(x) = 1..Len(x)
  <2> DEFINE X == {rec(x, n) : n \in 1..Len(x)}
  <2>1. Len(x) \in Nat /\ DOMAIN x = 1..Len(x)
    BY LenProperties
  <2>2. AbstractLog(x) \in [1..Len(x) -> X]
    <3> HIDE DEF rec
    <3> QED
      BY <1>1, <2>1
  <2> HIDE DEF X
  <2> QED
    BY <2>1, <2>2
<1> HIDE DEF rec
<1>5. \A i \in 1..Len(l) : AbstractLog(longer)[i] = AbstractLog(l)[i]
  BY <1>1, <1>2, <1>3
<1> QED
  BY <1>4, <1>5
-----------------------------------------------------------------------------
\* What the log may go on with: its history grows exactly if the sub-dag writes,
\* and the votes are for histories that were reached before.
GoesOnWith(l, r) ==
    /\ IF r.effect = "writes" THEN Len(CommitmentAt(l, Len(l))) < Len(r.commitment)
                              ELSE r.commitment = CommitmentAt(l, Len(l))
    /\ \A i \in 1..Len(r.votes) : r.votes[i].checkpoint.commitment \in Reached(l)

\* A log that went on with a sub-dag.
GrownBy(l, longer, r) ==
    /\ longer \in Seq(LogRecord) /\ Len(longer) = Len(l) + 1
    /\ longer[Len(l) + 1] = r /\ \A i \in 1..Len(l) : longer[i] = l[i]
    /\ Chained(longer) /\ KnownVotes(longer) /\ Keeps(l, longer)
    /\ CommitmentAt(longer, Len(l) + 1) = r.commitment
    /\ r.commitment \in Reached(longer)
    /\ Number(longer, r.commitment) =
           Number(l, CommitmentAt(l, Len(l))) + WritesOf(r)

(***************************************************************************)
(* The next sub-dag of a log. It keeps the numbers, and its own commitment *)
(* has the next one exactly if it writes (validator.rs:268-306).           *)
(***************************************************************************)
LEMMA LogGrows ==
    ASSUME NEW l \in Seq(LogRecord), Chained(l), KnownVotes(l),
           NEW r \in LogRecord, NEW longer, longer = Append(l, r), Len(l) + 1 <= MaxSubdag,
           GoesOnWith(l, r)
    PROVE  GrownBy(l, longer, r)
<1> DEFINE n == Len(l)
<1>1. n \in Nat /\ n + 1 # 0 /\ (n + 1) - 1 = n /\ n + 1 \in 1..(n + 1) /\ n + 1 \in 0..(n + 1)
  BY LenProperties
<1>2. /\ longer \in Seq(LogRecord) /\ Len(longer) = n + 1
      /\ longer[n + 1] = r /\ \A i \in 1..n : longer[i] = l[i]
  BY <1>1
<1>3. /\ CommitmentAt(longer, n + 1) = r.commitment
      /\ \A i \in 0..n : CommitmentAt(longer, i) = CommitmentAt(l, i)
  <2>1. CommitmentAt(longer, n + 1) = r.commitment
    BY <1>1, <1>2 DEF CommitmentAt
  <2>2. ASSUME NEW i \in 0..n PROVE CommitmentAt(longer, i) = CommitmentAt(l, i)
    <3>1. i # 0 => i \in 1..n
      BY <1>1
    <3> QED
      BY <1>2, <3>1 DEF CommitmentAt
  <2> QED
    BY <2>1, <2>2
<1>4. Chained(longer)
  <2> SUFFICES ASSUME NEW i \in 1..(n + 1)
               PROVE  IF longer[i].effect = "writes"
                      THEN Len(CommitmentAt(longer, i - 1)) < Len(CommitmentAt(longer, i))
                      ELSE CommitmentAt(longer, i) = CommitmentAt(longer, i - 1)
    BY <1>2 DEF Chained
  <2>1. CASE i \in 1..n
    <3>1. i \in 0..n /\ i - 1 \in 0..n
      BY <1>1, <2>1
    <3>2. IF l[i].effect = "writes"
          THEN Len(CommitmentAt(l, i - 1)) < Len(CommitmentAt(l, i))
          ELSE CommitmentAt(l, i) = CommitmentAt(l, i - 1)
      BY <2>1 DEF Chained
    <3>3. longer[i] = l[i]
      BY <1>2, <2>1
    <3> QED
      BY <1>3, <3>1, <3>2, <3>3
  <2>2. CASE i \notin 1..n
    <3>1. i = n + 1 /\ i - 1 = n /\ n \in 0..n
      BY <1>1, <2>2
    <3>2. /\ longer[i] = r /\ CommitmentAt(longer, i) = r.commitment
          /\ CommitmentAt(longer, i - 1) = CommitmentAt(l, n)
      BY <1>2, <1>3, <3>1
    <3> QED
      BY <3>2 DEF GoesOnWith
  <2> QED
    BY <2>1, <2>2
<1>5. /\ Keeps(l, longer)
      /\ Writing(longer, Len(longer)) = Writing(l, n) + WritesOf(longer[Len(longer)])
  BY <1>2, <1>4, NumbersAreKept
<1>6. KnownVotes(longer)
  <2> SUFFICES ASSUME NEW i \in 1..(n + 1), NEW j \in 1..Len(longer[i].votes)
               PROVE  longer[i].votes[j].checkpoint.commitment \in Reached(longer)
    BY <1>2 DEF KnownVotes
  <2>1. longer[i].votes[j].checkpoint.commitment \in Reached(l)
    <3>1. CASE i \in 1..n
      BY <1>2, <3>1 DEF KnownVotes
    <3>2. CASE i \notin 1..n
      <4>1. longer[i] = r
        BY <1>1, <1>2, <3>2
      <4> QED
        BY <4>1 DEF GoesOnWith
    <3> QED
      BY <3>1, <3>2
  <2> QED
    BY <1>5, <2>1 DEF Keeps
<1>7. r.commitment \in Reached(longer)
  BY <1>1, <1>2, <1>3 DEF Reached
<1>8. Number(longer, r.commitment) = Writing(longer, n + 1)
  <2>1. n + 1 \in 0..Len(longer) /\ Len(longer) <= MaxSubdag
    BY <1>1, <1>2
  <2>2. Number(longer, CommitmentAt(longer, n + 1)) = Writing(longer, n + 1)
    BY <1>2, <1>4, <2>1, NumberOfHistory
  <2> QED
    BY <1>3, <2>2
<1>9. Number(l, CommitmentAt(l, n)) = Writing(l, n)
  <2>1. n \in 0..n /\ n <= MaxSubdag
    BY <1>1, RoundAssumption
  <2> QED
    BY <2>1, NumberOfHistory
<1>10. Number(longer, r.commitment) = Number(l, CommitmentAt(l, n)) + WritesOf(r)
  BY <1>2, <1>5, <1>8, <1>9
<1> QED
  BY <1>2, <1>3, <1>4, <1>5, <1>6, <1>7, <1>10 DEF GrownBy

(***************************************************************************)
(* Executing a sub-dag, seen through the mapping, is ExecuteSubdag of the  *)
(* abstract sub-dag: execute, mint, then record the votes                  *)
(* (validator.rs:268-329).                                                 *)
(***************************************************************************)
LEMMA ExecutionIsAbstract ==
    ASSUME NEW l, NEW longer, Keeps(l, longer), NEW n \in Anchors, NEW now \in 0..MaxSubdag,
           NEW decoded \in Seq(Attributed), NEW c \in CheckpointCertifier, KnownCertifier(l, c),
           NEW p, p.certifier = c, NEW store, store = ExecuteAll(p.store, Calls(decoded)),
           store.commitment \in Reached(longer),
           NEW effect, effect = "nothing" <=> Calls(decoded) = << >>,
           Number(longer, store.commitment) =
               IF effect = "writes" THEN Number(l, p.store.commitment) + 1
                                    ELSE Number(l, p.store.commitment),
           \A k \in 1..Len(Votes(decoded)) :
               Votes(decoded)[k].envelope.checkpoint.commitment \in Reached(l)
    PROVE  LET after == ExecuteDecoded(p, n, decoded, now)
               subdag == [effect |-> effect, votes |-> AbstractVotes(longer, Votes(decoded))]
           IN  /\ AbstractState(longer, after) =
                      Abstract!ExecuteSubdag(AbstractState(l, p), n, subdag, "live").state
               /\ KnownCertifier(longer, after.certifier)
<1> DEFINE after == ExecuteDecoded(p, n, decoded, now)
           votes == Votes(decoded)
           subdag == [effect |-> effect, votes |-> AbstractVotes(longer, votes)]
           d == store.commitment
           m == Minted(p, n, store, decoded, now)
           before == AbstractState(l, p)
           minted == IF effect # "nothing"
                     THEN Abstract!Push(AbstractCertifier(l, c), n, Number(longer, d), "live")
                     ELSE AbstractCertifier(l, c)
<1>1. /\ AbstractCertifier(longer, c) = AbstractCertifier(l, c) /\ KnownCertifier(longer, c)
      /\ Numbering(longer)
  BY CertifierIsKept DEF Keeps
<1>2. votes \in Seq(OneOf("Attest"))
  BY OfKindProperties DEF Votes
<1>3. before.store = Number(l, p.store.commitment) /\ before.certifier = AbstractCertifier(l, c)
  BY DEF AbstractState
<1>4. Abstract!Commitment(before, subdag) = Number(longer, d)
  BY <1>3 DEF Abstract!Commitment
<1>5. m \in CheckpointCertifier /\ minted = AbstractCertifier(longer, m) /\ KnownCertifier(longer, m)
  <2>1. CASE Calls(decoded) = << >>
    <3>1. m = c /\ minted = AbstractCertifier(l, c)
      BY <2>1 DEF Minted
    <3> QED
      BY <1>1, <3>1
  <2>2. CASE Calls(decoded) # << >>
    <3> DEFINE t == [minted_at |-> now, mean_timestamp_ms |-> MeanTimestamp(decoded)]
    <3>1. t \in Timings
      BY <2>2, MeanType, SubdagsAssumption DEF CheckpointTimings
    <3>2. m = Push(c, n, d, t)
      BY <2>2 DEF Minted
    <3>3. minted = Abstract!Push(AbstractCertifier(longer, c), n, Number(longer, d), "live")
      BY <1>1, <2>2
    <3>4. d \in Reached(longer) /\ d \in Commitments
      BY <1>1, SubdagsAssumption DEF Numbering
    <3> HIDE DEF t, m, minted, d
    <3>5. Push(c, n, d, t) \in CheckpointCertifier
      BY <3>1, <3>4, PushType
    <3>6. /\ Abstract!Push(AbstractCertifier(longer, c), n, Number(longer, d), "live") =
                 AbstractCertifier(longer, Push(c, n, d, t))
          /\ KnownCertifier(longer, Push(c, n, d, t))
      BY <1>1, <3>1, <3>4, AbstractPush
    <3> QED
      BY <3>2, <3>3, <3>5, <3>6
  <2> QED
    BY <2>1, <2>2
<1>6. after = [store |-> store, certifier |-> RecordAll(m, n, votes),
               executed |-> p.executed + Len(Calls(decoded))]
  BY DEF ExecuteDecoded
<1>7. Abstract!ExecuteSubdag(before, n, subdag, "live").state =
          [store     |-> Number(longer, d),
           certifier |-> ObserveAll([certifier |-> minted, latencies |-> << >>], n,
                                    AbstractVotes(longer, votes)).certifier]
  <2>1. Abstract!Executes(subdag) <=> effect # "nothing"
    BY DEF Abstract!Executes
  <2>2. subdag.votes = AbstractVotes(longer, votes)
    OBVIOUS
  <2> HIDE DEF subdag, before, votes, d
  <2> QED
    BY <1>3, <1>4, <2>1, <2>2 DEF Abstract!ExecuteSubdag, ObserveAll
<1> HIDE DEF m, minted, votes, before, subdag, d
<1>8. PICK x \in CheckpointCertifier : x = m
  BY <1>5
<1>9. /\ ObserveAll([certifier |-> AbstractCertifier(longer, x), latencies |-> << >>], n,
                    AbstractVotes(longer, votes)).certifier =
             AbstractCertifier(longer, RecordAll(x, n, votes))
      /\ KnownCertifier(longer, RecordAll(x, n, votes))
  <2>1. KnownCertifier(longer, x)
    BY <1>5, <1>8
  <2>2. \A k \in 1..Len(votes) : votes[k].envelope.checkpoint.commitment \in Reached(longer)
    BY DEF votes, Keeps
  <2> QED
    BY <1>1, <1>2, <2>1, <2>2, AbstractVotesAreObserved
<1>10. /\ AbstractState(longer, after) =
             [store     |-> Number(longer, d),
              certifier |-> AbstractCertifier(longer, RecordAll(x, n, votes))]
       /\ after.certifier = RecordAll(x, n, votes)
  BY <1>6, <1>8 DEF AbstractState, d
<1> HIDE DEF after
<1>11. minted = AbstractCertifier(longer, x)
  BY <1>5, <1>8
<1> QED
  BY <1>7, <1>9, <1>10, <1>11 DEF after, subdag, votes, before
-----------------------------------------------------------------------------
\* The log is chained, and the live copy is what executing it leads to.
LedgerInv ==
    /\ Chained(log) /\ KnownVotes(log)
    /\ state["live"].store.commitment = CommitmentAt(log, Len(log))
    /\ KnownCertifier(log, state["live"].certifier)

(***************************************************************************)
(* A new copy is a new state of the abstract specification                 *)
(* (validator.rs:103-126).                                                 *)
(***************************************************************************)
LEMMA InitLedger == Init => LedgerInv /\ Abstract!Init
<1> SUFFICES ASSUME Init PROVE LedgerInv /\ Abstract!Init
  OBVIOUS
<1> DEFINE p == [store |-> EmptyStore, certifier |-> NewCertifier, executed |-> 0]
<1>1. log = << >> /\ state["live"] = p /\ Len(log) = 0 /\ DOMAIN log = {}
  BY EmptySeq DEF Init, Copies
<1>2. p.store.commitment = << >> /\ p.certifier = NewCertifier
  BY DEF EmptyStore
<1>3. /\ NewCertifier.pending = << >> /\ NewCertifier.watermark = None
      /\ Len(NewCertifier.pending) = 0 /\ DOMAIN NewCertifier.pending = {}
  BY EmptySeq DEF NewCertifier
<1> HIDE DEF p
<1>4. LedgerInv
  <2>1. Chained(log) /\ KnownVotes(log)
    BY <1>1 DEF Chained, KnownVotes
  <2>2. KnownCertifier(log, NewCertifier)
    BY <1>3 DEF KnownCertifier, KnownCertificate
  <2>3. CommitmentAt(log, Len(log)) = << >>
    BY <1>1 DEF CommitmentAt
  <2> QED
    BY <1>1, <1>2, <2>1, <2>2, <2>3 DEF LedgerInv
<1>5. AbstractLog(log) = << >>
  BY <1>1 DEF AbstractLog
<1>6. AbstractCertifier(log, NewCertifier) = Abstract!NewCertifier
  <2>1. [i \in DOMAIN NewCertifier.pending |-> AbstractEntry(log, NewCertifier.pending[i])] = << >>
    BY <1>3
  <2>2. AbstractCertificate(log, NewCertifier.watermark) = None
    BY <1>3 DEF AbstractCertificate
  <2> QED
    BY <2>1, <2>2 DEF AbstractCertifier, Abstract!NewCertifier
<1>7. Number(log, << >>) = 0
  BY <1>1 DEF Number
<1>8. AbstractState(log, state["live"]) = Abstract!NewState
  BY <1>1, <1>2, <1>6, <1>7 DEF AbstractState, Abstract!NewState
<1> QED
  BY <1>4, <1>5, <1>8 DEF Abstract!Init

(***************************************************************************)
(* A delivery is one step of the abstract specification                    *)
(* (validator.rs:186-251).                                                 *)
(***************************************************************************)
LEMMA NextLedger == Inv /\ LedgerInv /\ Next => LedgerInv' /\ Abstract!Execute
<1> SUFFICES ASSUME Inv, LedgerInv, Next PROVE LedgerInv' /\ Abstract!Execute
  OBVIOUS
<1> DEFINE n == Len(log) + 1
           p == state["live"]
<1>1. PICK shape \in Shapes, blocks \in Seq(Block) :
           LET decoded == Decoded(blocks)
           IN  /\ n \in Anchors
               /\ decoded \in Seq(Attributed)
               /\ \A k \in 1..Len(Votes(decoded)) :
                      InReach(Votes(decoded)[k].envelope.checkpoint)
               /\ CreateFreshIds(p.store, [i \in DOMAIN Calls(decoded) |->
                                              Calls(decoded)[i].envelope.transaction])
               /\ Len(ExecuteAll(p.store, Calls(decoded)).commitment) <= MaxWrites
               /\ state' = [copy \in Copies |->
                               ExecuteDecoded(state[copy], n, decoded, Clock(copy, n))]
               /\ log' = Append(log, Summary(blocks, p.store.commitment,
                                             state'["live"].store.commitment))
  BY Delivered
<1> DEFINE decoded == Decoded(blocks)
           calls == Calls(decoded)
           votes == Votes(decoded)
           store == ExecuteAll(p.store, calls)
           d == store.commitment
           r == Summary(blocks, p.store.commitment, d)
           c == p.certifier
<1>2. /\ log \in Seq(LogRecord) /\ Len(log) \in Nat /\ Len(log) \in 0..MaxSubdag
      /\ DOMAIN log = 1..Len(log)
      /\ CopyOK(p, Len(log)) /\ c \in CheckpointCertifier /\ HistoryOK(p.store)
  BY LenProperties, RoundAssumption DEF Inv, LogOK, CopyOK, CopyStates
<1>3. PICK l \in Seq(LogRecord) : l = log
  BY <1>2
<1>4. /\ Chained(l) /\ KnownVotes(l) /\ p.store.commitment = CommitmentAt(l, Len(l))
      /\ KnownCertifier(l, c)
  BY <1>3 DEF LedgerInv
<1>5. PICK now \in 0..MaxSubdag : now = Clock("live", n)
  BY <1>1, ClockType
<1>6. /\ state'["live"] = ExecuteDecoded(p, n, decoded, now)
      /\ state'["live"].store = store
      /\ log' = Append(l, r)
  BY <1>1, <1>3, <1>5 DEF Copies, ExecuteDecoded
<1>7. calls \in Seq(OneOf("Execute")) /\ votes \in Seq(OneOf("Attest"))
  BY <1>1, OfKindProperties DEF Calls, Votes
<1>8. /\ HistoryOK(store)
      /\ Len(p.store.commitment) \in Nat /\ Len(d) \in Nat
      /\ Len(p.store.commitment) <= Len(d)
      /\ Len(p.store.commitment) = Len(d) => p.store.commitment = d
      /\ calls = << >> => store = p.store
  <2>1. /\ CreateFreshIds(p.store, [i \in DOMAIN calls |-> calls[i].envelope.transaction])
        /\ Len(ExecuteAll(p.store, calls).commitment) <= MaxWrites
    BY <1>1
  <2> HIDE DEF p, calls
  <2> QED
    BY <1>2, <1>7, <2>1, ExecuteAllOK
<1>9. r \in LogRecord
  <2>1. d \in Histories
    BY <1>8 DEF HistoryOK
  <2> HIDE DEF d, p
  <2> QED
    BY <1>1, <2>1, SummaryType
<1>10. /\ r.effect = IF calls = << >> THEN "nothing"
                     ELSE IF p.store.commitment = d THEN "aborts" ELSE "writes"
       /\ r.votes = Cast(votes) /\ r.commitment = d
  BY DEF Summary, Cast
<1> HIDE DEF p, calls, votes, store, r, c
<1>11. IF r.effect = "writes" THEN Len(CommitmentAt(l, Len(l))) < Len(r.commitment)
                              ELSE r.commitment = CommitmentAt(l, Len(l))
  BY <1>4, <1>8, <1>10
<1>12. \A k \in 1..Len(votes) :
           /\ votes[k].envelope.checkpoint.anchor \in 1..Len(l)
           /\ votes[k].envelope.checkpoint.commitment \in Reached(l)
  <2> TAKE k \in 1..Len(votes)
  <2>1. InReach(votes[k].envelope.checkpoint)
    BY <1>1 DEF votes
  <2>2. << >> \in Reached(l)
    <3>1. 0 \in 0..Len(l)
      BY <1>2, <1>3
    <3> QED
      BY <3>1 DEF Reached, CommitmentAt
  <2>3. ASSUME NEW i \in DOMAIN log PROVE log[i].commitment \in Reached(l)
    <3>1. i \in 0..Len(l) /\ i # 0
      BY <1>2, <1>3, <2>3
    <3>2. CommitmentAt(l, i) = log[i].commitment
      BY <1>3, <3>1 DEF CommitmentAt
    <3> QED
      BY <3>1, <3>2 DEF Reached
  <2> QED
    BY <1>2, <1>3, <2>1, <2>2, <2>3 DEF InReach
<1>13. /\ DOMAIN votes = 1..Len(votes) /\ Len(votes) \in Nat
       /\ DOMAIN r.votes = 1..Len(votes) /\ Len(r.votes) = Len(votes)
       /\ \A i \in 1..Len(votes) : r.votes[i].checkpoint = votes[i].envelope.checkpoint
  <2>1. DOMAIN votes = 1..Len(votes) /\ Len(votes) \in Nat
    BY <1>7, LenProperties
  <2>2. r.votes \in Seq(Vote)
    BY <1>9 DEF LogRecord
  <2>3. DOMAIN r.votes = 1..Len(votes)
    BY <1>10, <2>1 DEF Cast
  <2>4. Len(r.votes) \in Nat /\ DOMAIN r.votes = 1..Len(r.votes)
    BY <2>2, LenProperties
  <2>5. Len(r.votes) = Len(votes)
    BY <2>1, <2>3, <2>4
  <2>6. \A i \in DOMAIN votes : Cast(votes)[i].checkpoint = votes[i].envelope.checkpoint
    BY DEF Cast
  <2> QED
    BY <1>10, <2>1, <2>3, <2>5, <2>6
<1>14. PICK longer : longer = log'
  OBVIOUS
<1>15. /\ longer \in Seq(LogRecord) /\ Len(longer) = n
       /\ longer[n] = r /\ \A i \in 1..Len(l) : longer[i] = l[i]
       /\ Chained(longer) /\ KnownVotes(longer) /\ Keeps(l, longer)
       /\ CommitmentAt(longer, n) = d
       /\ d \in Reached(longer)
       /\ Number(longer, d) = Number(l, p.store.commitment) + WritesOf(r)
  <2>1. longer = Append(l, r)
    BY <1>6, <1>14
  <2>2. Len(l) + 1 <= MaxSubdag
    BY <1>1, <1>3 DEF Anchors
  <2>3. ASSUME NEW i \in 1..Len(r.votes)
        PROVE  r.votes[i].checkpoint.commitment \in Reached(l)
    <3>1. i \in 1..Len(votes)
      BY <1>13
    <3>2. r.votes[i].checkpoint = votes[i].envelope.checkpoint
      BY <1>13, <3>1
    <3> QED
      BY <1>12, <3>1, <3>2
  <2>4. PICK q \in LogRecord : q = r
    BY <1>9
  <2>5. longer = Append(l, q)
    BY <2>1, <2>4
  <2>6. GoesOnWith(l, q)
    BY <1>11, <2>3, <2>4 DEF GoesOnWith
  <2>7. GrownBy(l, longer, q)
    BY <1>4, <2>2, <2>5, <2>6, LogGrows
  <2>8. n = Len(l) + 1 /\ q.commitment = d
    BY <1>3, <1>10, <2>4
  <2> HIDE DEF n, d
  <2> QED
    BY <1>4, <2>4, <2>7, <2>8 DEF GrownBy
<1>16. PICK m \in Anchors : m = n
  BY <1>1
<1> DEFINE after == ExecuteDecoded(p, m, decoded, now)
           subdag == [effect |-> r.effect, votes |-> AbstractVotes(longer, votes)]
<1>17. /\ AbstractState(longer, after) =
              Abstract!ExecuteSubdag(AbstractState(l, p), m, subdag, "live").state
       /\ KnownCertifier(longer, after.certifier)
  <2>1. r.effect = "nothing" <=> Calls(decoded) = << >>
    BY <1>10 DEF calls
  <2>2. Number(longer, store.commitment) =
            IF r.effect = "writes" THEN Number(l, p.store.commitment) + 1
                                   ELSE Number(l, p.store.commitment)
    <3>1. Number(l, p.store.commitment) \in Nat
      <4>1. Numbering(l) /\ CommitmentAt(l, Len(l)) \in Reached(l)
        BY <1>2, <1>3, <1>15 DEF Keeps, Reached
      <4>2. Number(l, CommitmentAt(l, Len(l))) \in 0..Writing(l, Len(l))
        BY <4>1 DEF Numbering
      <4> QED
        BY <1>4, <4>2
    <3> QED
      BY <1>15, <3>1 DEF WritesOf
  <2>3. store.commitment \in Reached(longer)
    BY <1>15
  <2>4. \A k \in 1..Len(Votes(decoded)) :
            Votes(decoded)[k].envelope.checkpoint.commitment \in Reached(l)
    BY <1>12 DEF votes
  <2>5. PICK x \in CheckpointCertifier : x = c
    BY <1>2
  <2>6. p.certifier = x /\ KnownCertifier(l, x) /\ decoded \in Seq(Attributed)
        /\ store = ExecuteAll(p.store, Calls(decoded))
    BY <1>1, <1>4, <2>5 DEF c, store, calls
  <2>7. PICK effect : effect = r.effect
    OBVIOUS
  <2>8. LET sd == [effect |-> effect, votes |-> AbstractVotes(longer, Votes(decoded))]
            done == ExecuteDecoded(p, m, decoded, now)
        IN  /\ AbstractState(longer, done) =
                   Abstract!ExecuteSubdag(AbstractState(l, p), m, sd, "live").state
            /\ KnownCertifier(longer, done.certifier)
    <3>1. effect = "nothing" <=> Calls(decoded) = << >>
      BY <2>1, <2>7
    <3>2. Number(longer, store.commitment) =
              IF effect = "writes" THEN Number(l, p.store.commitment) + 1
                                   ELSE Number(l, p.store.commitment)
      BY <2>2, <2>7
    <3> HIDE DEF decoded, n
    <3> QED
      BY <1>15, <2>3, <2>4, <2>6, <3>1, <3>2, ExecutionIsAbstract
  <2> HIDE DEF decoded
  <2> QED
    BY <2>7, <2>8 DEF votes
<1>18. LedgerInv'
  <2>1. state'["live"] = after
    BY <1>6, <1>16
  <2>2. after.store.commitment = d
    BY <1>6, <2>1 DEF d
  <2>3. Len(log') = n
    BY <1>14, <1>15
  <2>4. CommitmentAt(log', Len(log')) = d
    BY <1>14, <1>15, <2>3
  <2>5. Chained(log') /\ KnownVotes(log') /\ KnownCertifier(log', state'["live"].certifier)
    BY <1>14, <1>15, <1>17, <2>1
  <2>6. state'["live"].store.commitment = CommitmentAt(log', Len(log'))
    BY <2>1, <2>2, <2>4
  <2> QED
    BY <2>5, <2>6 DEF LedgerInv
<1> DEFINE A == AbstractLog(l)
           B == AbstractLog(longer)
<1>19. /\ Len(A) = Len(l) /\ DOMAIN A = 1..Len(l)
       /\ Len(B) = Len(l) + 1 /\ DOMAIN B = 1..(Len(l) + 1)
       /\ \A i \in 1..Len(l) : B[i] = A[i]
  BY <1>3, <1>4, <1>15, LogIsKept
<1>20. B[n] = subdag
  <2>1. n \in DOMAIN longer
    BY <1>2, <1>15, LenProperties
  <2>2. B[n] = [effect |-> longer[n].effect,
                votes  |-> [i \in DOMAIN longer[n].votes |->
                               AbstractVote(longer, longer[n].votes[i])]]
    BY <2>1 DEF AbstractLog
  <2>3. AbstractVotes(longer, votes) = [i \in DOMAIN votes |-> AbstractVote(longer, r.votes[i])]
    BY <1>10 DEF AbstractVotes
  <2> HIDE DEF B
  <2> QED
    BY <1>13, <1>15, <2>2, <2>3
<1>21. Abstract!IsPrefix(A, B)
  <2> DEFINE X == {B[i] : i \in 1..(Len(l) + 1)}
  <2>1. Len(l) \in Nat
    BY <1>2, <1>3
  <2>2. /\ B = [i \in 1..(Len(l) + 1) |-> B[i]] /\ A = [i \in 1..Len(l) |-> A[i]]
    <3>1. \A x : AbstractLog(x) = [k \in DOMAIN x |-> AbstractLog(x)[k]]
      BY DEF AbstractLog
    <3> QED
      BY <1>19, <3>1
  <2> HIDE DEF A, B
  <2>3. \A i \in 1..Len(l) : A[i] \in X /\ i \in 1..(Len(l) + 1)
    <3>1. \A i \in 1..Len(l) : i \in 1..(Len(l) + 1)
      BY <2>1
    <3> QED
      BY <1>19, <3>1
  <2>4. \A i \in 1..(Len(l) + 1) : B[i] \in X
    OBVIOUS
  <2> HIDE DEF X
  <2>5. A \in Seq(X) /\ B \in Seq(X)
    <3>1. A \in [1..Len(l) -> X] /\ B \in [1..(Len(l) + 1) -> X]
      BY <2>2, <2>3, <2>4
    <3>2. Len(l) + 1 \in Nat
      BY <2>1
    <3>3. \A k \in Nat : \A f \in [1..k -> X] : f \in Seq(X)
      OBVIOUS
    <3> QED
      BY <2>1, <3>1, <3>2, <3>3
  <2>6. SubSeq(A, 1, Len(A)) = SubSeq(B, 1, Len(A))
    <3>1. SubSeq(A, 1, Len(A)) \in Seq(X) /\ SubSeq(B, 1, Len(A)) \in Seq(X)
      BY <1>19, <2>1, <2>5
    <3>2. /\ Len(SubSeq(A, 1, Len(A))) = Len(l) /\ Len(SubSeq(B, 1, Len(A))) = Len(l)
      BY <1>19, <2>1, <2>5
    <3>3. \A i \in 1..Len(l) : SubSeq(A, 1, Len(A))[i] = SubSeq(B, 1, Len(A))[i]
      BY <1>19, <2>1, <2>3, <2>5
    <3> QED
      BY <2>1, <3>1, <3>2, <3>3, SeqEqual
  <2> QED
    BY <1>19, <2>1, <2>6 DEF Abstract!IsPrefix
<1>22. \A vote \in Abstract!Range(subdag.votes) : /\ vote.checkpoint.anchor \in DOMAIN A
                                                  /\ vote.checkpoint.commitment \in 0..MaxSubdag
  <2> SUFFICES ASSUME NEW i \in 1..Len(votes)
               PROVE  LET vote == AbstractVote(longer, r.votes[i])
                      IN  /\ vote.checkpoint.anchor \in 1..Len(l)
                          /\ vote.checkpoint.commitment \in 0..MaxSubdag
    <3>1. subdag.votes = [i \in 1..Len(votes) |-> AbstractVote(longer, r.votes[i])]
      BY <1>10, <1>13 DEF AbstractVotes
    <3> HIDE DEF subdag
    <3> QED
      BY <1>19, <3>1 DEF Abstract!Range
  <2>1. r.votes[i].checkpoint.anchor \in 1..Len(l) /\ r.votes[i].checkpoint.commitment \in Reached(l)
    <3>1. r.votes[i].checkpoint = votes[i].envelope.checkpoint
      BY <1>13
    <3> QED
      BY <1>12, <3>1
  <2>2. r.votes[i] \in Vote
    <3>1. r.votes \in Seq(Vote)
      BY <1>9 DEF LogRecord
    <3> QED
      BY <1>13, <3>1, ElementOfSeq
  <2>3. PICK v \in Vote : v = r.votes[i]
    BY <2>2
  <2>4. /\ AbstractVote(longer, v).checkpoint.anchor = v.checkpoint.anchor
        /\ AbstractVote(longer, v).checkpoint.commitment = Number(longer, v.checkpoint.commitment)
    BY DEF AbstractVote, AbstractCheckpoint, Vote, Checkpoint
  <2>5. Number(longer, v.checkpoint.commitment) \in 0..MaxSubdag
    <3>1. v.checkpoint.commitment \in Reached(longer) /\ Numbering(longer)
      BY <1>15, <2>1, <2>3 DEF Keeps
    <3>2. /\ Number(longer, v.checkpoint.commitment) \in 0..Writing(longer, Len(longer))
          /\ Writing(longer, Len(longer)) \in 0..MaxSubdag
      BY <3>1 DEF Numbering
    <3> QED
      BY <3>2, RoundAssumption
  <2> QED
    BY <2>1, <2>3, <2>4, <2>5
<1>23. /\ AbstractLog(log)' = B
       /\ AbstractState(log, state["live"])' = AbstractState(longer, after)
  BY <1>6, <1>14, <1>16
<1>24. subdag.effect \in Abstract!Effects
  BY <1>10 DEF Abstract!Effects
<1>25. AbstractLog(log) = A /\ AbstractState(log, state["live"]) = AbstractState(l, p)
  BY <1>3 DEF p
<1>26. Abstract!Last(B) = subdag /\ Len(B) = Len(A) + 1 /\ Len(B) = m
  BY <1>3, <1>16, <1>19, <1>20 DEF Abstract!Last
<1> HIDE DEF A, B, subdag, after
<1>27. Abstract!Execute
  BY <1>17, <1>21, <1>22, <1>23, <1>24, <1>25, <1>26 DEF Abstract!Execute
<1> QED
  BY <1>18, <1>27

(***************************************************************************)
(* Subdags implements Ledger, the specification that Committee and Handle  *)
(* are built on: executing blocks, payloads and transactions on versioned  *)
(* objects is, up to the mapping, executing sub-dags that are no more than *)
(* an effect and votes; and along one log the number of writing sub-dags   *)
(* identifies the commitment (validator.rs:261-329, store.rs:69-70).       *)
(***************************************************************************)
THEOREM SubdagsRefinement == Spec => ImplementsLedger
<1>1. Init => Abstract!Init /\ LedgerInv
  BY InitLedger
<1>2. Inv /\ LedgerInv /\ [Next]_vars =>
          LedgerInv' /\ [Abstract!Execute]_<<AbstractLog(log), AbstractState(log, state["live"])>>
  <2>1. CASE Next
    BY <2>1, NextLedger
  <2>2. CASE UNCHANGED vars
    <3>1. log' = log /\ state' = state
      BY <2>2 DEF vars
    <3> QED
      BY <3>1 DEF LedgerInv
  <2> QED
    BY <2>1, <2>2
<1> QED
  BY <1>1, <1>2, SpecInv, PTL DEF Spec, ImplementsLedger, Abstract!Spec
=============================================================================
