--------------------------- MODULE CertifierProofs ---------------------------
(***************************************************************************)
(* Theorems about Certifier, for every committee, every distribution of    *)
(* stake, every quorum and every stream of checkpoints and votes.          *)
(***************************************************************************)
EXTENDS Certifier, OperatorProofs

(***************************************************************************)
(* The fields of an accumulator belong together, from the mint on through  *)
(* every vote and through the certificate (certifier.rs:39-57).            *)
(***************************************************************************)
ConsistentWindow(c) ==
    \A i \in DOMAIN c.pending, d \in Commitments : Consistent(c.pending[i].accumulators[d])

ConsistentEntry(entry) == \A d \in Commitments : Consistent(entry.accumulators[d])

LEMMA EmptyConsistent == Consistent(EmptyAccumulator)
BY DEF Consistent, EmptyAccumulator

LEMMA PushConsistent ==
    ASSUME NEW c \in CheckpointCertifier, ConsistentWindow(c), NEW n \in Anchors,
           NEW d \in Commitments, NEW t \in Timings
    PROVE  ConsistentWindow(Push(c, n, d, t))
<1> DEFINE entry == [local        |-> [anchor |-> n, commitment |-> d],
                     timings      |-> t,
                     accumulators |-> [e \in Commitments |-> EmptyAccumulator],
                     certificate  |-> None]
           p == c.pending
<1>1. p \in Seq(PendingCheckpoint) /\ Len(p) \in Nat /\ DOMAIN p = 1..Len(p)
  BY LenProperties DEF CheckpointCertifier
<1>2. entry \in PendingCheckpoint /\ ConsistentEntry(entry)
  BY EmptyAccumulatorType, EmptyConsistent DEF PendingCheckpoint, Checkpoint, ConsistentEntry
<1>3. Push(c, n, d, t).pending = Append(p, entry)
  BY DEF Push, CheckpointCertifier
<1>4. \A i \in DOMAIN p : ConsistentEntry(p[i])
  BY DEF ConsistentWindow, ConsistentEntry
<1> HIDE DEF entry, p
<1>5. /\ Append(p, entry) \in Seq(PendingCheckpoint)
      /\ Len(Append(p, entry)) = Len(p) + 1
      /\ \A i \in 1..Len(p) : Append(p, entry)[i] = p[i]
      /\ Append(p, entry)[Len(p) + 1] = entry
  BY <1>1, <1>2, AppendProperties
<1>6. DOMAIN Append(p, entry) = 1..(Len(p) + 1)
  BY <1>5, LenProperties
<1>7. \A i \in 1..(Len(p) + 1) : ConsistentEntry(Append(p, entry)[i])
  <2> TAKE i \in 1..(Len(p) + 1)
  <2>1. i \in 1..Len(p) \/ i = Len(p) + 1
    BY <1>1
  <2> QED
    BY <1>1, <1>2, <1>4, <1>5, <2>1
<1> QED
  BY <1>3, <1>6, <1>7 DEF ConsistentWindow, ConsistentEntry

LEMMA CountedConsistent ==
    ASSUME NEW e \in PendingCheckpoint, ConsistentEntry(e), NEW s \in Anchors,
           NEW a \in Authorities, NEW v \in Checkpoint
    PROVE  /\ ConsistentEntry(WithTally(e, s, a, v))
           /\ ConsistentEntry(WithCertificate(e, s, a, v))
<1> DEFINE acc == e.accumulators[v.commitment]
<1>1. acc \in Accumulator /\ Consistent(acc) /\ v.commitment \in Commitments
  BY DEF PendingCheckpoint, Checkpoint, ConsistentEntry
<1>2. Consistent(Tallied(e, s, a, v))
  <2>1. CASE a \in acc.votes
    BY <1>1, <2>1 DEF Tallied, Add
  <2>2. CASE a \notin acc.votes
    <3>1. Tallied(e, s, a, v).votes = acc.votes \cup {a}
          /\ Tallied(e, s, a, v).deliveredIn = Append(acc.deliveredIn, s)
      BY <2>2 DEF Tallied, Add
    <3>2. Len(Append(acc.deliveredIn, s)) = Len(acc.deliveredIn) + 1 /\ Len(acc.deliveredIn) \in Nat
      BY <1>1, AppendProperties, LenProperties DEF Accumulator
    <3>3. Len(<< >>) = 0
      OBVIOUS
    <3>4. Append(acc.deliveredIn, s) # << >>
      <4> DEFINE q == Append(acc.deliveredIn, s)
      <4>1. Len(q) # 0
        BY <3>2
      <4> HIDE DEF q
      <4>2. q # << >>
        BY <3>3, <4>1
      <4> QED
        BY <4>2 DEF q
    <3> QED
      BY <3>1, <3>4 DEF Consistent
  <2> QED
    BY <2>1, <2>2
<1>3. e.accumulators = [d \in Commitments |-> e.accumulators[d]]
  BY DEF PendingCheckpoint
<1> HIDE DEF acc
<1> QED
  BY <1>1, <1>2, <1>3, EmptyConsistent DEF WithTally, WithCertificate, ConsistentEntry, PendingCheckpoint

LEMMA RecordConsistent ==
    ASSUME NEW c \in CheckpointCertifier, ConsistentWindow(c), NEW s \in Anchors,
           NEW a \in Authorities, NEW v \in Checkpoint
    PROVE  ConsistentWindow(Record(c, s, a, v))
<1>1. CASE ~Admissible(c, a, v)
  BY <1>1 DEF Record
<1>2. CASE Admissible(c, a, v)
  <2> DEFINE i == EntryOf(c.pending, v.anchor)
             counted == Counted(c, s, a, v)
             k == CertifiedPrefix(counted.pending)
  <2>1. /\ i \in 1..Len(c.pending) /\ c.pending[i] \in PendingCheckpoint
        /\ DOMAIN c.pending = 1..Len(c.pending)
    BY <1>2, EntryOfAdmissible, LenProperties DEF CheckpointCertifier
  <2>2. \A j \in DOMAIN c.pending : ConsistentEntry(c.pending[j])
    BY DEF ConsistentWindow, ConsistentEntry
  <2>3. /\ ConsistentEntry(WithTally(c.pending[i], s, a, v))
        /\ ConsistentEntry(WithCertificate(c.pending[i], s, a, v))
    BY <2>1, <2>2, CountedConsistent
  <2>4. counted \in CheckpointCertifier
    BY <1>2, CountedType
  <2>5. \/ counted.pending = [c.pending EXCEPT ![i] = WithTally(c.pending[i], s, a, v)]
        \/ counted.pending = [c.pending EXCEPT ![i] = WithCertificate(c.pending[i], s, a, v)]
    BY DEF Counted, CheckpointCertifier
  <2> HIDE DEF i, counted, k
  <2>6. DOMAIN counted.pending = DOMAIN c.pending
        /\ \A j \in DOMAIN counted.pending : ConsistentEntry(counted.pending[j])
    BY <2>1, <2>2, <2>3, <2>5
  <2>7. CASE FormsCertificate(c, s, a, v)
    <3>1. Record(c, s, a, v) = Advance(counted)
      BY <1>2, <2>7 DEF Record, counted
    <3>2. /\ Advance(counted) \in CheckpointCertifier
          /\ Len(Advance(counted).pending) = Len(counted.pending) - k
          /\ \A j \in 1..(Len(counted.pending) - k) :
                 Advance(counted).pending[j] = counted.pending[k + j]
      BY <2>4, AdvanceProperties DEF k
    <3>3. /\ counted.pending \in Seq(PendingCheckpoint) /\ Len(counted.pending) \in Nat
          /\ DOMAIN counted.pending = 1..Len(counted.pending)
          /\ DOMAIN Advance(counted).pending = 1..Len(Advance(counted).pending)
      BY <2>4, <3>2, LenProperties DEF CheckpointCertifier
    <3>4. k \in 0..Len(counted.pending)
      BY <3>3, CertifiedPrefixProperties DEF k
    <3>5. ASSUME NEW j \in DOMAIN Advance(counted).pending
          PROVE  ConsistentEntry(Advance(counted).pending[j])
      <4>1. j \in 1..(Len(counted.pending) - k) /\ k + j \in 1..Len(counted.pending)
        BY <3>2, <3>3, <3>4
      <4> QED
        BY <2>6, <3>2, <3>3, <4>1
    <3> QED
      BY <3>1, <3>5 DEF ConsistentWindow, ConsistentEntry
  <2>8. CASE ~FormsCertificate(c, s, a, v)
    <3>1. Record(c, s, a, v) = counted
      BY <1>2, <2>8 DEF Record, counted
    <3> QED
      BY <2>6, <3>1 DEF ConsistentWindow, ConsistentEntry
  <2> QED
    BY <2>7, <2>8
<1> QED
  BY <1>1, <1>2

(***************************************************************************)
(* The certifier, and the history of what it returned, always are          *)
(* well-formed values.                                                     *)
(***************************************************************************)
THEOREM TypeCorrect == Spec => []TypeOK
<1>1. Init => TypeOK
  <2> SUFFICES ASSUME Init PROVE TypeOK
    OBVIOUS
  <2>1. certifier \in CheckpointCertifier
    BY EmptySeq DEF Init, NewCertifier, CheckpointCertifier
  <2>2. subdag \in 0..MaxSubdag
    BY RoundAssumption DEF Init
  <2>3. surrendered \in [Anchors -> Seq(Timings)]
    BY EmptySeq DEF Init
  <2>4. ConsistentWindow(certifier)
    <3>1. DOMAIN certifier.pending = {}
      BY DEF Init, NewCertifier
    <3> QED
      BY <3>1 DEF ConsistentWindow
  <2> QED
    BY <2>1, <2>2, <2>3, <2>4 DEF Init, TypeOK, ConsistentWindow
<1>2. TypeOK /\ [Next]_vars => TypeOK'
  <2> SUFFICES ASSUME TypeOK, [Next]_vars PROVE TypeOK'
    OBVIOUS
  <2>1. ASSUME NEW d \in Commitments, NEW t \in Timings, PushCheckpoint(d, t)
        PROVE  TypeOK'
    <3>1. subdag + 1 \in Anchors /\ subdag' \in 0..MaxSubdag
      BY <2>1, RoundAssumption DEF PushCheckpoint, TypeOK, Anchors
    <3>2. certifier' \in CheckpointCertifier
      BY <2>1, <3>1, PushType DEF PushCheckpoint, TypeOK
    <3>3. [commitment |-> d, timings |-> t] \in Mint
      BY DEF Mint
    <3>4. minted' \in [Anchors -> Mint \cup {None}]
      BY <2>1, <3>3 DEF PushCheckpoint, TypeOK
    <3>5. ConsistentWindow(certifier)'
      BY <2>1, <3>1, PushConsistent DEF PushCheckpoint, TypeOK, ConsistentWindow
    <3> QED
      BY <2>1, <3>1, <3>2, <3>4, <3>5 DEF PushCheckpoint, TypeOK, ConsistentWindow
  <2>2. CASE SkipSubdag
    BY <2>2, RoundAssumption DEF SkipSubdag, TypeOK, history
  <2>3. ASSUME NEW a \in Authorities, NEW v \in Checkpoint, RecordVote(a, v)
        PROVE  TypeOK'
    <3>1. subdag \in Anchors /\ v.anchor \in Anchors /\ v.commitment \in Commitments
      BY <2>3 DEF RecordVote, TypeOK, Anchors, Checkpoint
    <3>2. certifier' \in CheckpointCertifier
      BY <2>3, <3>1, RecordType DEF RecordVote, TypeOK
    <3>3. [commitment |-> v.commitment, subdag |-> subdag] \in Ballot
      BY <3>1 DEF Ballot
    <3>4. ballots' \in [Anchors -> [Authorities -> Ballot \cup {None}]]
      BY <2>3, <3>1, <3>3 DEF RecordVote, TypeOK
    <3>5. /\ certificates' \in [Anchors -> CertifiedCheckpoint \cup {None}]
          /\ surrendered' \in [Anchors -> Seq(Timings)]
      <4>1. CASE FormsCertificate(certifier, subdag, a, v)
        <5> DEFINE i == EntryOf(certifier.pending, v.anchor)
                   counted == Counted(certifier, subdag, a, v)
        <5>1. Admissible(certifier, a, v)
          BY <4>1 DEF FormsCertificate
        <5>2. /\ i \in 1..Len(certifier.pending)
              /\ certifier.pending[i] \in PendingCheckpoint
              /\ certifier.pending \in Seq(PendingCheckpoint)
          BY <5>1, EntryOfAdmissible DEF TypeOK, CheckpointCertifier
        <5>3. counted.pending[i] = WithCertificate(certifier.pending[i], subdag, a, v)
          BY <4>1, <5>2 DEF Counted, TypeOK, CheckpointCertifier
        <5>4. counted.pending[i].certificate \in CertifiedCheckpoint \cup {None}
          BY <3>1, <5>2, <5>3, TalliedType DEF PendingCheckpoint
        <5>5. Returned(certifier, subdag, a, v) \in Timings
          BY <4>1, <5>2 DEF Returned, PendingCheckpoint
        <5>6. Append(surrendered[v.anchor], Returned(certifier, subdag, a, v)) \in Seq(Timings)
          BY <3>1, <5>5, AppendProperties DEF TypeOK
        <5>7. certificates' = [certificates EXCEPT ![v.anchor] = counted.pending[i].certificate]
          BY <2>3, <4>1 DEF RecordVote
        <5>8. surrendered' = [surrendered EXCEPT ![v.anchor] =
                                  Append(@, Returned(certifier, subdag, a, v))]
          BY <2>3, <5>5, NoneAssumption DEF RecordVote
        <5> HIDE DEF i, counted
        <5> QED
          BY <3>1, <5>4, <5>6, <5>7, <5>8 DEF TypeOK
      <4>2. CASE ~FormsCertificate(certifier, subdag, a, v)
        BY <2>3, <4>2 DEF RecordVote, Returned, TypeOK
      <4> QED
        BY <4>1, <4>2
    <3>6. ConsistentWindow(certifier)'
      BY <2>3, <3>1, RecordConsistent DEF RecordVote, TypeOK, ConsistentWindow
    <3> QED
      BY <2>3, <3>2, <3>4, <3>5, <3>6 DEF RecordVote, TypeOK, ConsistentWindow
  <2>4. CASE UNCHANGED vars
    BY <2>4 DEF vars, TypeOK
  <2> QED
    BY <2>1, <2>2, <2>3, <2>4 DEF Next
<1> QED
  BY <1>1, <1>2, PTL DEF Spec

-----------------------------------------------------------------------------
(***************************************************************************)
(* The inductive invariant: the properties the runs check, and what the    *)
(* history holds for checkpoints not minted.                               *)
(***************************************************************************)
HistoryOK ==
    /\ \A n \in Anchors : n > subdag => minted[n] = None
    /\ \A n \in Anchors : minted[n] = None =>
           /\ certificates[n] = None
           /\ surrendered[n] = << >>
           /\ \A a \in Authorities : ballots[n][a] = None

IInv ==
    /\ TypeOK
    /\ HistoryOK
    /\ WindowFollowsWatermark
    /\ TalliesAreFirstVotes
    /\ CertificatesAreQuorums
    /\ TimingsReturnedOnce

(***************************************************************************)
(* WindowFollowsWatermark over any window, watermark and certificates,     *)
(* without the condition that the window starts uncertified: it also holds *)
(* between the certificate and the watermark's advance.                    *)
(***************************************************************************)
WindowOver(pending, w, certs) ==
    /\ {pending[i].local.anchor : i \in DOMAIN pending} =
           {n \in Anchors : n > w /\ minted[n] # None}
    /\ CommitOrder(pending)
    /\ \A i \in DOMAIN pending :
           /\ minted[pending[i].local.anchor] =
                  [commitment |-> pending[i].local.commitment,
                   timings    |-> pending[i].timings]
           /\ pending[i].certificate = certs[pending[i].local.anchor]
    /\ \A n \in 1..w : minted[n] # None => certs[n] # None

AnchorOf(watermark) == IF watermark = None THEN 0 ELSE watermark.checkpoint.anchor

(***************************************************************************)
(* Advancing the watermark keeps the window what it was, above a higher    *)
(* watermark, and leaves an uncertified entry at its front.                *)
(***************************************************************************)
LEMMA AdvanceWindow ==
    ASSUME NEW c \in CheckpointCertifier,
           NEW certs \in [Anchors -> CertifiedCheckpoint \cup {None}],
           \A n \in Anchors : certs[n] # None => certs[n].checkpoint.anchor = n,
           WindowOver(c.pending, AnchorOf(c.watermark), certs),
           AnchorOf(c.watermark) > 0 => c.watermark = certs[AnchorOf(c.watermark)]
    PROVE  LET after == Advance(c)
               w == AnchorOf(after.watermark)
           IN  /\ WindowOver(after.pending, w, certs)
               /\ after.pending # << >> => ~Certified(after.pending[1])
               /\ w > 0 => after.watermark = certs[w]
<1> DEFINE p == c.pending
           k == CertifiedPrefix(p)
           q == Advance(c).pending
           w == AnchorOf(c.watermark)
           v == AnchorOf(Advance(c).watermark)
           Anchor(i) == p[i].local.anchor
<1>1. /\ p \in Seq(PendingCheckpoint)
      /\ Len(p) \in Nat
      /\ DOMAIN p = 1..Len(p)
  BY LenProperties DEF CheckpointCertifier
<1>2. /\ k \in 0..Len(p)
      /\ \A i \in 1..k : Certified(p[i])
      /\ k < Len(p) => ~Certified(p[k + 1])
  BY <1>1, CertifiedPrefixProperties
<1>3. /\ q \in Seq(PendingCheckpoint)
      /\ Len(q) = Len(p) - k
      /\ \A i \in 1..(Len(p) - k) : q[i] = p[k + i]
      /\ Advance(c).watermark = IF k = 0 THEN c.watermark ELSE p[k].certificate
  BY AdvanceProperties DEF CheckpointCertifier
<1>4. DOMAIN q = 1..(Len(p) - k)
  BY <1>3, LenProperties
<1> HIDE DEF k, q
<1>5. \A i \in 1..Len(p) : Anchor(i) \in Anchors /\ Anchor(i) > w /\ minted[Anchor(i)] # None
  BY <1>1 DEF WindowOver
<1>6. w \in 0..MaxSubdag
  BY RoundAssumption DEF AnchorOf, CheckpointCertifier, CertifiedCheckpoint, Checkpoint, Anchors
<1>7. k # 0 => /\ k \in 1..Len(p)
               /\ Advance(c).watermark = p[k].certificate
               /\ p[k].certificate = certs[Anchor(k)]
               /\ certs[Anchor(k)] # None
               /\ v = Anchor(k)
  <2> HAVE k # 0
  <2>1. k \in 1..Len(p) /\ Certified(p[k])
    BY <1>1, <1>2
  <2>2. p[k].certificate = certs[Anchor(k)] /\ p[k].certificate # None
    BY <1>1, <2>1 DEF WindowOver, Certified
  <2>3. certs[Anchor(k)].checkpoint.anchor = Anchor(k)
    BY <1>5, <2>1, <2>2
  <2> QED
    BY <1>3, <2>1, <2>2, <2>3 DEF AnchorOf
<1>8. k = 0 => v = w
  BY <1>3
<1>9. \A i, j \in 1..Len(p) : i < j => Anchor(i) < Anchor(j)
  BY <1>1 DEF WindowOver, CommitOrder
<1>10. v \in 0..MaxSubdag /\ v >= w
  BY <1>2, <1>5, <1>6, <1>7, <1>8 DEF Anchors
<1>11. {q[i].local.anchor : i \in DOMAIN q} = {n \in Anchors : n > v /\ minted[n] # None}
  <2>1. ASSUME NEW i \in DOMAIN q
        PROVE  q[i].local.anchor \in {n \in Anchors : n > v /\ minted[n] # None}
    <3>1. k + i \in 1..Len(p) /\ q[i] = p[k + i]
      BY <1>1, <1>2, <1>3, <1>4
    <3>2. CASE k = 0
      BY <1>5, <1>8, <3>1, <3>2
    <3>3. CASE k # 0
      <4>1. k < k + i /\ k \in 1..Len(p)
        BY <1>2, <1>4, <1>7, <3>3
      <4>2. Anchor(k) < Anchor(k + i)
        BY <1>9, <3>1, <4>1
      <4> QED
        BY <1>5, <1>7, <3>1, <3>3, <4>2 DEF Anchors
    <3> QED
      BY <3>2, <3>3
  <2>2. ASSUME NEW n \in Anchors, n > v, minted[n] # None
        PROVE  \E i \in DOMAIN q : q[i].local.anchor = n
    <3>1. n > w
      BY <1>6, <1>10, <2>2 DEF Anchors
    <3>2. PICK i \in 1..Len(p) : Anchor(i) = n
      BY <1>1, <2>2, <3>1 DEF WindowOver
    <3>3. i > k
      <4> SUFFICES ASSUME i <= k PROVE FALSE
        BY <1>1, <1>2, <3>2
      <4>1. k # 0 /\ Anchor(k) = v
        BY <1>1, <1>2, <1>7, <3>2
      <4>2. CASE i = k
        BY <2>2, <3>2, <4>1, <4>2, <1>10 DEF Anchors
      <4>3. CASE i < k
        <5>1. Anchor(i) < Anchor(k)
          BY <1>7, <1>9, <3>2, <4>1, <4>3
        <5> QED
          BY <2>2, <3>2, <4>1, <5>1, <1>10 DEF Anchors
      <4> QED
        BY <4>2, <4>3, <1>1, <1>2, <3>2
    <3>4. i - k \in DOMAIN q /\ q[i - k] = p[i]
      BY <1>1, <1>2, <1>3, <1>4, <3>2, <3>3
    <3> QED
      BY <3>2, <3>4
  <2> QED
    BY <2>1, <2>2
<1>12. CommitOrder(q)
  <2> SUFFICES ASSUME NEW i \in DOMAIN q, NEW j \in DOMAIN q, i < j
               PROVE  q[i].local.anchor < q[j].local.anchor
    BY DEF CommitOrder
  <2>1. k + i \in 1..Len(p) /\ q[i] = p[k + i]
    BY <1>1, <1>2, <1>3, <1>4
  <2>2. k + j \in 1..Len(p) /\ q[j] = p[k + j]
    BY <1>1, <1>2, <1>3, <1>4
  <2>3. k + i < k + j
    BY <1>1, <1>2, <1>4
  <2> QED
    BY <1>9, <2>1, <2>2, <2>3
<1>13. \A i \in DOMAIN q :
          /\ minted[q[i].local.anchor] = [commitment |-> q[i].local.commitment,
                                          timings    |-> q[i].timings]
          /\ q[i].certificate = certs[q[i].local.anchor]
  <2> TAKE i \in DOMAIN q
  <2>1. k + i \in DOMAIN p /\ q[i] = p[k + i]
    BY <1>1, <1>2, <1>3, <1>4
  <2> QED
    BY <2>1 DEF WindowOver
<1>14. \A n \in 1..v : minted[n] # None => certs[n] # None
  <2> TAKE n \in 1..v
  <2> HAVE minted[n] # None
  <2>1. CASE n <= w
    BY <1>6, <1>10, <2>1 DEF WindowOver
  <2>2. CASE n > w
    <3>1. n \in Anchors /\ k # 0
      BY <1>6, <1>8, <1>10, <2>2, RoundAssumption DEF Anchors
    <3>2. PICK i \in 1..Len(p) : Anchor(i) = n
      BY <1>1, <2>2, <3>1 DEF WindowOver
    <3>3. i <= k
      <4> SUFFICES ASSUME k < i PROVE FALSE
        BY <1>1, <1>2, <3>2
      <4>1. Anchor(k) < Anchor(i)
        BY <1>7, <1>9, <3>1, <3>2
      <4> QED
        BY <1>7, <1>10, <3>1, <3>2, <4>1 DEF Anchors
    <3>4. i \in 1..k /\ i \in DOMAIN p
      BY <1>1, <1>2, <3>2, <3>3
    <3>5. Certified(p[i])
      BY <1>2, <3>4
    <3>6. p[i].certificate = certs[n]
      BY <3>2, <3>4 DEF WindowOver
    <3> QED
      BY <3>5, <3>6 DEF Certified
  <2> QED
    BY <1>6, <1>10, <2>1, <2>2
<1>15. q # << >> => ~Certified(q[1])
  <2> HAVE q # << >>
  <2>1. Len(q) > 0
    BY <1>3, EmptySeq
  <2> QED
    BY <1>1, <1>2, <1>3, <2>1
<1>16. v > 0 => Advance(c).watermark = certs[v]
  BY <1>3, <1>7, <1>8
<1>17. WindowOver(q, v, certs)
  BY <1>11, <1>12, <1>13, <1>14 DEF WindowOver
<1> QED
  BY <1>15, <1>16, <1>17 DEF q

(***************************************************************************)
(* A vote is admissible exactly when its anchor is minted, the checkpoint  *)
(* is undecided and its author has no ballot yet: the lookup misses no     *)
(* undecided checkpoint, and the accumulators remember every author.       *)
(***************************************************************************)
LEMMA PendingEntry ==
    ASSUME IInv, NEW i \in DOMAIN certifier.pending
    PROVE  /\ certifier.pending[i] \in PendingCheckpoint
           /\ certifier.pending[i].local.anchor \in Anchors
           /\ EntriesOf(certifier.pending, certifier.pending[i].local.anchor) = {i}
           /\ EntryOf(certifier.pending, certifier.pending[i].local.anchor) = i
           /\ minted[certifier.pending[i].local.anchor] # None
           /\ certifier.pending[i].certificate = certificates[certifier.pending[i].local.anchor]
<1>1. /\ certifier.pending \in Seq(PendingCheckpoint)
      /\ CommitOrder(certifier.pending)
  BY DEF IInv, TypeOK, CheckpointCertifier, WindowFollowsWatermark, CommitOrder
<1>2. certifier.pending[i] \in PendingCheckpoint
  BY <1>1, LenProperties, ElementOfSeq
<1>3. certifier.pending[i].local.anchor \in Anchors
  BY <1>2 DEF PendingCheckpoint, Checkpoint
<1>4. minted[certifier.pending[i].local.anchor] # None
  BY DEF IInv, WindowFollowsWatermark
<1>5. certifier.pending[i].certificate = certificates[certifier.pending[i].local.anchor]
  BY DEF IInv, WindowFollowsWatermark
<1> QED
  BY <1>1, <1>2, <1>3, <1>4, <1>5, LookupFindsEntry

(***************************************************************************)
(* A minted checkpoint without a certificate is in the window: the         *)
(* watermark never passes one.                                             *)
(***************************************************************************)
LEMMA UndecidedIsPending ==
    ASSUME IInv, NEW n \in Anchors, minted[n] # None, certificates[n] = None
    PROVE  \E i \in DOMAIN certifier.pending : certifier.pending[i].local.anchor = n
<1>1. WatermarkAnchor \in 0..MaxSubdag
  BY RoundAssumption DEF IInv, TypeOK, CheckpointCertifier, CertifiedCheckpoint,
                         Checkpoint, WatermarkAnchor, Anchors
<1>2. ~(n \in 1..WatermarkAnchor)
  BY DEF IInv, WindowFollowsWatermark
<1>3. n > WatermarkAnchor
  BY <1>1, <1>2 DEF Anchors
<1> QED
  BY <1>3 DEF IInv, WindowFollowsWatermark

(***************************************************************************)
(* record admits exactly the votes for a minted checkpoint that is         *)
(* undecided and in which the author has no ballot, although it reads only *)
(* the window and its accumulators (certifier.rs:138-178).                 *)
(***************************************************************************)
LEMMA Admission ==
    ASSUME IInv, NEW a \in Authorities, NEW v \in Checkpoint
    PROVE  Admissible(certifier, a, v) <=>
               /\ minted[v.anchor] # None
               /\ Decided(v.anchor) = {}
               /\ ballots[v.anchor][a] = None
<1> DEFINE n == v.anchor
           p == certifier.pending
<1>0. n \in Anchors
  BY DEF Checkpoint
<1>1. ASSUME NEW i \in DOMAIN p, p[i].local.anchor = n, ~Certified(p[i])
      PROVE  HasVoted(p[i], a) <=> ballots[n][a] # None
  <2>1. \A d \in Commitments : p[i].accumulators[d].votes = Supporters(n, d)
    BY <1>1 DEF IInv, TalliesAreFirstVotes
  <2>2. ballots[n][a] \in Ballot \cup {None}
    BY <1>0 DEF IInv, TypeOK
  <2>3. ballots[n][a] # None <=> \E d \in Commitments : a \in Supporters(n, d)
    BY <2>2 DEF Supporters, Ballot
  <2> QED
    BY <2>1, <2>3 DEF HasVoted
<1>2. ASSUME Admissible(certifier, a, v)
      PROVE  minted[n] # None /\ Decided(n) = {} /\ ballots[n][a] = None
  <2>1. PICK i \in DOMAIN p : p[i].local.anchor = n
    BY <1>2 DEF Admissible, EntriesOf
  <2>2. EntryOf(p, n) = i /\ minted[n] # None /\ p[i].certificate = certificates[n]
    BY <2>1, PendingEntry
  <2>3. ~Certified(p[i]) /\ ~HasVoted(p[i], a)
    BY <1>2, <2>2 DEF Admissible
  <2>4. Decided(n) = {}
    BY <1>0, <2>2, <2>3 DEF Certified, IInv, CertificatesAreQuorums
  <2> QED
    BY <1>1, <2>1, <2>2, <2>3, <2>4
<1>3. ASSUME minted[n] # None, Decided(n) = {}, ballots[n][a] = None
      PROVE  Admissible(certifier, a, v)
  <2>1. certificates[n] = None
    BY <1>0, <1>3 DEF IInv, CertificatesAreQuorums
  <2>2. PICK i \in DOMAIN p : p[i].local.anchor = n
    BY <1>0, <1>3, <2>1, UndecidedIsPending
  <2>3. /\ EntriesOf(p, n) = {i}
        /\ EntryOf(p, n) = i
        /\ p[i].certificate = None
    BY <2>1, <2>2, PendingEntry
  <2>4. ~Certified(p[i]) /\ ~HasVoted(p[i], a)
    BY <1>1, <1>3, <2>2, <2>3 DEF Certified
  <2> QED
    BY <2>3, <2>4 DEF Admissible
<1> QED
  BY <1>2, <1>3

(***************************************************************************)
(* Casting a ballot adds its author to the supporters of one commitment of *)
(* one checkpoint, and its stake to their weight.                          *)
(***************************************************************************)
LEMMA CastBallot ==
    ASSUME TypeOK, NEW a \in Authorities, NEW v \in Checkpoint, NEW s \in Anchors,
           ballots[v.anchor][a] = None,
           ballots' = [ballots EXCEPT ![v.anchor][a] =
                           [commitment |-> v.commitment, subdag |-> s]]
    PROVE  /\ a \notin Supporters(v.anchor, v.commitment)
           /\ Supporters(v.anchor, v.commitment)' =
                  Supporters(v.anchor, v.commitment) \cup {a}
           /\ Weight[Supporters(v.anchor, v.commitment)'] =
                  Weight[Supporters(v.anchor, v.commitment)] + Weight[{a}]
           /\ \A n \in Anchors, d \in Commitments :
                  n # v.anchor \/ d # v.commitment => Supporters(n, d)' = Supporters(n, d)
<1> DEFINE ballot == [commitment |-> v.commitment, subdag |-> s]
<1>1. v.anchor \in Anchors /\ v.commitment \in Commitments
  BY DEF Checkpoint
<1>2. ballot \in Ballot /\ ballot # None
  BY <1>1, HistoryAssumption DEF Ballot
<1>3. \A n \in Anchors, b \in Authorities :
         ballots'[n][b] = IF n = v.anchor /\ b = a THEN ballot ELSE ballots[n][b]
  BY <1>1 DEF TypeOK
<1> HIDE DEF ballot
<1>4. ballot.commitment = v.commitment
  BY DEF ballot
<1>5. a \notin Supporters(v.anchor, v.commitment)
  BY DEF Supporters
<1>6. Supporters(v.anchor, v.commitment)' = Supporters(v.anchor, v.commitment) \cup {a}
  BY <1>1, <1>2, <1>3, <1>4 DEF Supporters
<1>7. \A n \in Anchors, d \in Commitments :
         n # v.anchor \/ d # v.commitment => Supporters(n, d)' = Supporters(n, d)
  BY <1>1, <1>3, <1>4 DEF Supporters
<1>8. Weight[Supporters(v.anchor, v.commitment) \cup {a}] =
          Weight[Supporters(v.anchor, v.commitment)] + Weight[{a}]
  BY <1>5, WeightAssumption DEF Supporters
<1> QED
  BY <1>5, <1>6, <1>7, <1>8

(***************************************************************************)
(* One accumulator of a window entry is the tally of some ballots.         *)
(***************************************************************************)
TallyOver(entry, cast, d) ==
    LET supporters == {a \in Authorities : /\ cast[entry.local.anchor][a] # None
                                           /\ cast[entry.local.anchor][a].commitment = d}
    IN  /\ entry.accumulators[d].votes = supporters
        /\ entry.accumulators[d].stake = Weight[supporters]

-----------------------------------------------------------------------------
(***************************************************************************)
(* The initial state satisfies the inductive invariant.                    *)
(***************************************************************************)
LEMMA InitIInv == Init /\ TypeOK => IInv
<1> SUFFICES ASSUME Init, TypeOK PROVE IInv
  OBVIOUS
<1>1. /\ certifier.pending = << >>
      /\ certifier.watermark = None
      /\ WatermarkAnchor = 0
      /\ DOMAIN certifier.pending = {}
  BY DEF Init, NewCertifier, WatermarkAnchor
<1>2. \A n \in Anchors : minted[n] = None /\ certificates[n] = None /\ surrendered[n] = << >>
                        /\ \A a \in Authorities : ballots[n][a] = None
  BY DEF Init
<1>3. \A n \in Anchors : Decided(n) = {}
  <2> TAKE n \in Anchors
  <2>1. \A d \in Commitments : Supporters(n, d) = {}
    BY <1>2 DEF Supporters
  <2>2. ~(Weight[{}] >= Quorum)
    BY WeightAssumption, QuorumAssumption
  <2> QED
    BY <2>1, <2>2 DEF Decided
<1>4. HistoryOK
  BY <1>2 DEF HistoryOK
<1>5. WindowFollowsWatermark
  BY <1>1, <1>2 DEF WindowFollowsWatermark
<1>6. TalliesAreFirstVotes
  BY <1>1 DEF TalliesAreFirstVotes
<1>7. CertificatesAreQuorums
  BY <1>2, <1>3 DEF CertificatesAreQuorums
<1>8. TimingsReturnedOnce
  BY <1>2 DEF TimingsReturnedOnce
<1> QED
  BY <1>4, <1>5, <1>6, <1>7, <1>8 DEF IInv

(***************************************************************************)
(* Minting the checkpoint of the next sub-dag preserves it                 *)
(* (certifier.rs:110-121).                                                 *)
(***************************************************************************)
LEMMA PushIInv ==
    ASSUME IInv, TypeOK', NEW d \in Commitments, NEW t \in Timings, PushCheckpoint(d, t)
    PROVE  IInv'
<1> DEFINE n == subdag + 1
           p == certifier.pending
           last == Len(p) + 1
           entry == [local        |-> [anchor |-> n, commitment |-> d],
                     timings      |-> t,
                     accumulators |-> [e \in Commitments |-> EmptyAccumulator],
                     certificate  |-> None]
<1>1. /\ n \in Anchors /\ subdag \in Nat
      /\ minted[n] = None
      /\ certificates[n] = None
      /\ \A a \in Authorities : ballots[n][a] = None
  BY RoundAssumption DEF PushCheckpoint, IInv, TypeOK, HistoryOK, Anchors
<1>2. /\ p \in Seq(PendingCheckpoint)
      /\ Len(p) \in Nat
      /\ DOMAIN p = 1..Len(p)
  BY LenProperties DEF IInv, TypeOK, CheckpointCertifier
<1>3. entry \in PendingCheckpoint
  BY <1>1, EmptyAccumulatorType DEF PendingCheckpoint, Checkpoint
<1>4. /\ minted' = [minted EXCEPT ![n] = [commitment |-> d, timings |-> t]]
      /\ subdag' = n
      /\ certificates' = certificates /\ ballots' = ballots /\ surrendered' = surrendered
      /\ [commitment |-> d, timings |-> t] # None
  BY HistoryAssumption DEF PushCheckpoint, Mint
<1> HIDE DEF entry
<1>5. /\ certifier'.pending = Append(p, entry)
      /\ certifier'.watermark = certifier.watermark
      /\ WatermarkAnchor' = WatermarkAnchor
  BY DEF PushCheckpoint, Push, entry, IInv, TypeOK, CheckpointCertifier, WatermarkAnchor
<1>6. /\ DOMAIN certifier'.pending = 1..last
      /\ \A i \in 1..Len(p) : certifier'.pending[i] = p[i]
      /\ certifier'.pending[last] = entry
  <2>1. Append(p, entry) \in Seq(PendingCheckpoint) /\ Len(Append(p, entry)) = last
    BY <1>2, <1>3, AppendProperties
  <2> QED
    BY <1>2, <1>3, <1>5, <2>1, AppendProperties, LenProperties
<1>7. entry.local.anchor = n /\ entry.certificate = None
      /\ entry.local.commitment = d /\ entry.timings = t
      /\ \A e \in Commitments : entry.accumulators[e] = EmptyAccumulator
  BY DEF entry
<1>8. \A i \in 1..Len(p) : p[i].local.anchor \in Anchors /\ p[i].local.anchor < n
                           /\ minted[p[i].local.anchor] # None
  <2> TAKE i \in 1..Len(p)
  <2>1. p[i].local.anchor \in Anchors /\ minted[p[i].local.anchor] # None
    BY <1>2, PendingEntry
  <2>2. ~(p[i].local.anchor > subdag)
    BY <2>1 DEF IInv, HistoryOK
  <2> QED
    BY <1>1, <2>1, <2>2 DEF Anchors
<1>9. WatermarkAnchor \in 0..subdag
  <2>1. CASE certifier.watermark = None
    BY <1>1, <2>1 DEF WatermarkAnchor
  <2>2. CASE certifier.watermark # None
    <3>1. WatermarkAnchor \in Anchors
      BY <2>2 DEF WatermarkAnchor, IInv, TypeOK, CheckpointCertifier, CertifiedCheckpoint, Checkpoint
    <3>2. certificates[WatermarkAnchor] # None
      BY <2>2, <3>1 DEF IInv, WindowFollowsWatermark, Anchors
    <3>3. ~(WatermarkAnchor > subdag)
      BY <3>1, <3>2 DEF IInv, HistoryOK
    <3> QED
      BY <1>1, <3>1, <3>3 DEF Anchors
  <2> QED
    BY <2>1, <2>2
<1>10. \A m \in Anchors : m # n => minted'[m] = minted[m]
  BY <1>1, <1>4 DEF IInv, TypeOK
<1>11. minted'[n] = [commitment |-> d, timings |-> t]
  BY <1>1, <1>4 DEF IInv, TypeOK
<1>12. HistoryOK'
  BY <1>1, <1>4, <1>10, <1>11 DEF IInv, HistoryOK, Anchors
<1>13. WindowFollowsWatermark'
  <2> DEFINE pp == certifier'.pending
             w == WatermarkAnchor
  <2>1. {pp[i].local.anchor : i \in DOMAIN pp} = {m \in Anchors : m > w /\ minted'[m] # None}
    <3>1. {p[i].local.anchor : i \in DOMAIN p} = {m \in Anchors : m > w /\ minted[m] # None}
      BY DEF IInv, WindowFollowsWatermark
    <3>2. {pp[i].local.anchor : i \in DOMAIN pp} = {p[i].local.anchor : i \in DOMAIN p} \cup {n}
      BY <1>2, <1>6, <1>7, SMTT(40)
    <3>3. {m \in Anchors : m > w /\ minted'[m] # None} =
              {m \in Anchors : m > w /\ minted[m] # None} \cup {n}
      BY <1>1, <1>4, <1>9, <1>10, <1>11
    <3> QED
      BY <3>1, <3>2, <3>3
  <2>2. \A i, j \in DOMAIN pp : i < j => pp[i].local.anchor < pp[j].local.anchor
    <3> TAKE i, j \in DOMAIN pp
    <3> HAVE i < j
    <3>1. i \in 1..Len(p) /\ pp[i] = p[i]
      BY <1>2, <1>6
    <3>2. CASE j = last
      BY <1>6, <1>7, <1>8, <3>1, <3>2
    <3>3. CASE j # last
      <4>1. j \in 1..Len(p) /\ pp[j] = p[j]
        BY <1>2, <1>6, <3>3
      <4> QED
        BY <1>2, <3>1, <4>1 DEF IInv, WindowFollowsWatermark
    <3> QED
      BY <3>2, <3>3
  <2>3. \A i \in DOMAIN pp :
           /\ minted'[pp[i].local.anchor] = [commitment |-> pp[i].local.commitment,
                                             timings    |-> pp[i].timings]
           /\ pp[i].certificate = certificates[pp[i].local.anchor]
    <3> TAKE i \in DOMAIN pp
    <3>1. CASE i = last
      BY <1>1, <1>6, <1>7, <1>11, <3>1
    <3>2. CASE i # last
      <4>1. i \in 1..Len(p) /\ pp[i] = p[i]
        BY <1>2, <1>6, <3>2
      <4>2. p[i].local.anchor \in Anchors /\ p[i].local.anchor # n
        BY <1>1, <1>8, <4>1 DEF Anchors
      <4>3. minted'[p[i].local.anchor] = minted[p[i].local.anchor]
        BY <1>10, <4>2
      <4> QED
        BY <1>2, <4>1, <4>3 DEF IInv, WindowFollowsWatermark
    <3> QED
      BY <3>1, <3>2
  <2>4. pp # << >> => ~Certified(pp[1])
    <3>1. CASE Len(p) = 0
      BY <1>6, <1>7, <3>1 DEF Certified
    <3>2. CASE Len(p) # 0
      <4>1. p # << >> /\ 1 \in 1..Len(p)
        BY <1>2, <3>2, EmptySeq
      <4> QED
        BY <1>6, <4>1 DEF IInv, WindowFollowsWatermark
    <3> QED
      BY <3>1, <3>2
  <2>5. \A m \in 1..w : minted'[m] # None => certificates[m] # None
    <3> TAKE m \in 1..w
    <3>1. m \in Anchors /\ m # n
      BY <1>1, <1>9, RoundAssumption DEF Anchors
    <3> QED
      BY <1>10, <3>1 DEF IInv, WindowFollowsWatermark
  <2>6. w > 0 => certifier'.watermark = certificates[w]
    BY <1>5 DEF IInv, WindowFollowsWatermark
  <2> HIDE DEF pp, w
  <2>7. WatermarkAnchor' = w /\ certificates' = certificates
    BY <1>4, <1>5 DEF w
  <2> QED
    BY <2>1, <2>2, <2>3, <2>4, <2>5, <2>6, <2>7 DEF WindowFollowsWatermark, pp
<1>14. \A m \in Anchors, e \in Commitments : Supporters(m, e)' = Supporters(m, e)
  BY <1>4 DEF Supporters
<1>15. TalliesAreFirstVotes'
  <2> SUFFICES ASSUME NEW i \in DOMAIN certifier'.pending, NEW e \in Commitments,
                      ~Certified(certifier'.pending[i])
               PROVE  TallyOver(certifier'.pending[i], ballots', e)
    BY DEF TalliesAreFirstVotes, TallyOver, Supporters
  <2>1. CASE i = last
    <3>1. {a \in Authorities : ballots'[n][a] # None /\ ballots'[n][a].commitment = e} = {}
      BY <1>1, <1>4
    <3>2. entry.accumulators[e] = [votes |-> {}, stake |-> 0, deliveredIn |-> << >>]
      BY <1>7 DEF EmptyAccumulator
    <3>3. entry.accumulators[e].votes = {} /\ entry.accumulators[e].stake = Weight[{}]
      BY <3>2, WeightAssumption
    <3>4. TallyOver(entry, ballots', e)
      BY <1>7, <3>1, <3>3 DEF TallyOver
    <3> QED
      BY <1>6, <2>1, <3>4
  <2>2. CASE i # last
    <3>1. i \in DOMAIN p /\ certifier'.pending[i] = p[i]
      BY <1>2, <1>6, <2>2
    <3>2. TallyOver(p[i], ballots, e)
      BY <3>1 DEF IInv, TalliesAreFirstVotes, TallyOver, Supporters
    <3> QED
      BY <1>4, <3>1, <3>2
  <2> QED
    BY <2>1, <2>2
<1>16. CertificatesAreQuorums'
  <2>1. \A m \in Anchors : Decided(m)' = Decided(m)
    BY <1>14 DEF Decided
  <2> QED
    BY <1>4, <2>1 DEF IInv, CertificatesAreQuorums
<1>17. TimingsReturnedOnce'
  BY <1>1, <1>4, <1>10 DEF IInv, TimingsReturnedOnce
<1> QED
  BY <1>12, <1>13, <1>15, <1>16, <1>17 DEF IInv

(***************************************************************************)
(* A vote that is refused changes nothing, so preserves it                 *)
(* (certifier.rs:150-163 and 170-175).                                     *)
(***************************************************************************)
LEMMA StutterIInv == IInv /\ UNCHANGED vars => IInv'
<1> SUFFICES ASSUME IInv, UNCHANGED vars PROVE IInv'
  OBVIOUS
<1>1. TypeOK' /\ HistoryOK'
  BY DEF IInv, TypeOK, HistoryOK, vars
<1>2. WatermarkAnchor' = WatermarkAnchor
  BY DEF WatermarkAnchor, vars
<1>3. WindowFollowsWatermark'
  BY <1>2 DEF IInv, WindowFollowsWatermark, vars
<1>4. TalliesAreFirstVotes'
  <2>1. certifier' = certifier /\ ballots' = ballots
    BY DEF vars
  <2> SUFFICES ASSUME NEW i \in DOMAIN certifier'.pending, NEW e \in Commitments,
                      ~Certified(certifier'.pending[i])
               PROVE  TallyOver(certifier'.pending[i], ballots', e)
    BY DEF TalliesAreFirstVotes, TallyOver, Supporters
  <2>2. i \in DOMAIN certifier.pending /\ ~Certified(certifier.pending[i])
    BY <2>1
  <2>3. TallyOver(certifier.pending[i], ballots, e)
    BY <2>2 DEF IInv, TalliesAreFirstVotes, TallyOver, Supporters
  <2> QED
    BY <2>1, <2>3
<1>5. CertificatesAreQuorums'
  BY DEF IInv, CertificatesAreQuorums, Decided, Supporters, vars
<1>6. TimingsReturnedOnce'
  BY DEF IInv, TimingsReturnedOnce, vars
<1> QED
  BY <1>1, <1>3, <1>4, <1>5, <1>6 DEF IInv

(***************************************************************************)
(* A sub-dag that executes nothing preserves it (validator.rs:308).        *)
(***************************************************************************)
LEMMA SkipIInv == IInv /\ TypeOK' /\ SkipSubdag => IInv'
<1> SUFFICES ASSUME IInv, TypeOK', SkipSubdag PROVE IInv'
  OBVIOUS
<1>1. HistoryOK'
  BY DEF IInv, HistoryOK, SkipSubdag, history, TypeOK, Anchors
<1>2. WatermarkAnchor' = WatermarkAnchor
  BY DEF WatermarkAnchor, SkipSubdag
<1>3. WindowFollowsWatermark'
  BY <1>2 DEF IInv, WindowFollowsWatermark, SkipSubdag, history
<1>4. TalliesAreFirstVotes'
  <2>1. certifier' = certifier /\ ballots' = ballots
    BY DEF SkipSubdag, history
  <2> SUFFICES ASSUME NEW i \in DOMAIN certifier'.pending, NEW e \in Commitments,
                      ~Certified(certifier'.pending[i])
               PROVE  TallyOver(certifier'.pending[i], ballots', e)
    BY DEF TalliesAreFirstVotes, TallyOver, Supporters
  <2>2. i \in DOMAIN certifier.pending /\ ~Certified(certifier.pending[i])
    BY <2>1
  <2>3. TallyOver(certifier.pending[i], ballots, e)
    BY <2>2 DEF IInv, TalliesAreFirstVotes, TallyOver, Supporters
  <2> QED
    BY <2>1, <2>3
<1>5. CertificatesAreQuorums'
  BY DEF IInv, CertificatesAreQuorums, Decided, Supporters, SkipSubdag, history
<1>6. TimingsReturnedOnce'
  BY DEF IInv, TimingsReturnedOnce, SkipSubdag, history
<1> QED
  BY <1>1, <1>3, <1>4, <1>5, <1>6 DEF IInv

(***************************************************************************)
(* What recording an admissible vote changes: one entry of the window, one *)
(* ballot, and the weight behind one commitment.                           *)
(***************************************************************************)
LEMMA AdmissibleVote ==
    ASSUME IInv, NEW a \in Authorities, NEW v \in Checkpoint, RecordVote(a, v),
           Admissible(certifier, a, v)
    PROVE  LET n == v.anchor
               d == v.commitment
               p == certifier.pending
               i == EntryOf(p, n)
               tallied == Tallied(p[i], subdag, a, v)
           IN  /\ i \in DOMAIN p
               /\ p[i] \in PendingCheckpoint
               /\ p[i].local.anchor = n
               /\ minted[n] = [commitment |-> p[i].local.commitment, timings |-> p[i].timings]
               /\ certificates[n] = None
               /\ surrendered[n] = << >>
               /\ Decided(n) = {}
               /\ \A j \in DOMAIN p : j # i => p[j].local.anchor # n
               /\ ballots' = [ballots EXCEPT ![n][a] = [commitment |-> d, subdag |-> subdag]]
               /\ ballots[n][a] = None
               /\ tallied.votes = Supporters(n, d) \cup {a}
               /\ tallied.stake = Weight[Supporters(n, d) \cup {a}]
<1> DEFINE n == v.anchor
           d == v.commitment
           p == certifier.pending
           i == EntryOf(p, n)
           acc == p[i].accumulators[d]
<1>1. n \in Anchors /\ d \in Commitments /\ subdag \in Anchors
  BY DEF Checkpoint, RecordVote, IInv, TypeOK, Anchors
<1>2. minted[n] # None /\ Decided(n) = {} /\ ballots[n][a] = None
  BY Admission
<1>3. /\ i \in DOMAIN p
      /\ p[i] \in PendingCheckpoint
      /\ p[i].local.anchor = n
  BY EntryOfAdmissible, LenProperties DEF IInv, TypeOK, CheckpointCertifier
<1>4. certificates[n] = None
  BY <1>1, <1>2 DEF IInv, CertificatesAreQuorums
<1>5. surrendered[n] = << >>
  BY <1>1, <1>4 DEF IInv, TimingsReturnedOnce
<1>6. minted[n] = [commitment |-> p[i].local.commitment, timings |-> p[i].timings]
  BY <1>3 DEF IInv, WindowFollowsWatermark
<1>7. \A j \in DOMAIN p : j # i => p[j].local.anchor # n
  <2> TAKE j \in DOMAIN p
  <2>1. p[j].local.anchor = n => EntryOf(p, n) = j
    BY PendingEntry
  <2> QED
    BY <2>1
<1>8. ballots' = [ballots EXCEPT ![n][a] = [commitment |-> d, subdag |-> subdag]]
  BY <1>2 DEF RecordVote
<1>9. ~Certified(p[i])
  BY DEF Admissible
<1>10. acc.votes = Supporters(n, d) /\ acc.stake = Weight[Supporters(n, d)]
  BY <1>1, <1>3, <1>9 DEF IInv, TalliesAreFirstVotes
<1>11. a \notin Supporters(n, d)
  BY <1>2 DEF Supporters
<1>12. Weight[Supporters(n, d) \cup {a}] = Weight[Supporters(n, d)] + Weight[{a}]
  BY <1>11, WeightAssumption DEF Supporters
<1>13. Tallied(p[i], subdag, a, v).votes = acc.votes \cup {a}
       /\ Tallied(p[i], subdag, a, v).stake = acc.stake + Weight[{a}]
  BY <1>10, <1>11 DEF Tallied, Add
<1> HIDE DEF i, acc
<1> QED
  BY <1>2, <1>3, <1>4, <1>5, <1>6, <1>7, <1>8, <1>10, <1>12, <1>13 DEF i

(***************************************************************************)
(* A vote that leaves its commitment below the quorum.                     *)
(***************************************************************************)
LEMMA CountIInv ==
    ASSUME IInv, TypeOK', NEW a \in Authorities, NEW v \in Checkpoint, RecordVote(a, v),
           Admissible(certifier, a, v), ~FormsCertificate(certifier, subdag, a, v)
    PROVE  IInv'
<1> DEFINE n == v.anchor
           d == v.commitment
           p == certifier.pending
           i == EntryOf(p, n)
           counted == WithTally(p[i], subdag, a, v)
<1>1. /\ i \in DOMAIN p
      /\ p[i] \in PendingCheckpoint
      /\ p[i].local.anchor = n
      /\ minted[n] = [commitment |-> p[i].local.commitment, timings |-> p[i].timings]
      /\ certificates[n] = None
      /\ surrendered[n] = << >>
      /\ Decided(n) = {}
      /\ \A j \in DOMAIN p : j # i => p[j].local.anchor # n
      /\ ballots' = [ballots EXCEPT ![n][a] = [commitment |-> d, subdag |-> subdag]]
      /\ ballots[n][a] = None
      /\ Tallied(p[i], subdag, a, v).votes = Supporters(n, d) \cup {a}
      /\ Tallied(p[i], subdag, a, v).stake = Weight[Supporters(n, d) \cup {a}]
  BY AdmissibleVote
<1>2. /\ minted' = minted /\ certificates' = certificates
      /\ surrendered' = surrendered /\ subdag' = subdag
  BY DEF RecordVote, Returned
<1>3. n \in Anchors /\ d \in Commitments /\ subdag \in Anchors
  BY DEF Checkpoint, RecordVote, IInv, TypeOK, Anchors
<1>4. Supporters(n, d)' = Supporters(n, d) \cup {a}
      /\ \A m \in Anchors, e \in Commitments :
             m # n \/ e # d => Supporters(m, e)' = Supporters(m, e)
  BY <1>1, <1>3, CastBallot DEF IInv
<1>5. ~(Weight[Supporters(n, d) \cup {a}] >= Quorum)
  BY <1>1 DEF FormsCertificate, ReachesQuorum
<1>6. certifier' = [certifier EXCEPT !.pending[i] = counted]
  BY DEF RecordVote, Record, Counted
<1> HIDE DEF i, counted
<1>7. /\ DOMAIN certifier'.pending = DOMAIN p
      /\ \A j \in DOMAIN p : certifier'.pending[j] = IF j = i THEN counted ELSE p[j]
      /\ certifier'.watermark = certifier.watermark
      /\ certifier'.pending # << >> <=> p # << >>
  <2>1. certifier'.pending = [p EXCEPT ![i] = counted]
        /\ certifier'.watermark = certifier.watermark
    BY <1>6 DEF IInv, TypeOK, CheckpointCertifier
  <2>2. p \in Seq(PendingCheckpoint) /\ i \in 1..Len(p) /\ Len(p) \in Nat
        /\ DOMAIN p = 1..Len(p)
    BY <1>1, LenProperties DEF IInv, TypeOK, CheckpointCertifier
  <2>3. certifier'.pending \in Seq(PendingCheckpoint)
    BY DEF TypeOK, CheckpointCertifier
  <2>4. DOMAIN certifier'.pending = DOMAIN p
    BY <2>1
  <2>5. p # << >> /\ certifier'.pending # << >>
    BY <2>2, <2>4, EmptySeq
  <2> QED
    BY <2>1, <2>4, <2>5
<1>8. /\ counted.local = p[i].local
      /\ counted.timings = p[i].timings
      /\ counted.certificate = p[i].certificate
      /\ \A e \in Commitments : counted.accumulators[e] =
             IF e = d THEN Tallied(p[i], subdag, a, v) ELSE p[i].accumulators[e]
  BY <1>1, <1>3 DEF WithTally, counted, PendingCheckpoint
<1>9. \A j \in DOMAIN p : /\ certifier'.pending[j].local = p[j].local
                         /\ certifier'.pending[j].timings = p[j].timings
                         /\ certifier'.pending[j].certificate = p[j].certificate
  BY <1>7, <1>8
<1>10. HistoryOK'
  <2>1. \A m \in Anchors : minted[m] = None => m # n
    BY <1>1, Admission
  <2>2. \A m \in Anchors : m # n => ballots'[m] = ballots[m]
    BY <1>1, <1>3 DEF IInv, TypeOK
  <2> QED
    BY <1>2, <2>1, <2>2 DEF IInv, HistoryOK
<1>11. WatermarkAnchor' = WatermarkAnchor
  BY <1>7 DEF WatermarkAnchor
<1>12. WindowFollowsWatermark'
  <2>1. {certifier'.pending[j].local.anchor : j \in DOMAIN certifier'.pending} =
            {p[j].local.anchor : j \in DOMAIN p}
    BY <1>7, <1>9
  <2>2. \A j, k \in DOMAIN certifier'.pending :
           j < k => certifier'.pending[j].local.anchor < certifier'.pending[k].local.anchor
    BY <1>7, <1>9 DEF IInv, WindowFollowsWatermark
  <2>3. \A j \in DOMAIN certifier'.pending :
           LET m == certifier'.pending[j].local.anchor
           IN  /\ minted[m] = [commitment |-> certifier'.pending[j].local.commitment,
                               timings    |-> certifier'.pending[j].timings]
               /\ certifier'.pending[j].certificate = certificates[m]
    BY <1>7, <1>9 DEF IInv, WindowFollowsWatermark
  <2>4. certifier'.pending # << >> => ~Certified(certifier'.pending[1])
    <3> HAVE certifier'.pending # << >>
    <3>1. p # << >> /\ p \in Seq(PendingCheckpoint)
      BY <1>7 DEF IInv, TypeOK, CheckpointCertifier
    <3>2. 1 \in DOMAIN p
      BY <3>1, EmptySeq, LenProperties
    <3> QED
      BY <1>9, <3>1, <3>2 DEF IInv, WindowFollowsWatermark, Certified
  <2> QED
    BY <1>2, <1>7, <1>11, <2>1, <2>2, <2>3, <2>4 DEF IInv, WindowFollowsWatermark
<1>13. TalliesAreFirstVotes'
  <2> SUFFICES ASSUME NEW j \in DOMAIN certifier'.pending, NEW e \in Commitments,
                      ~Certified(certifier'.pending[j])
               PROVE  TallyOver(certifier'.pending[j], ballots', e)
    BY DEF TalliesAreFirstVotes, TallyOver, Supporters
  <2>1. j \in DOMAIN p /\ ~Certified(p[j])
    BY <1>7, <1>9 DEF Certified
  <2>2. TallyOver(p[j], ballots, e)
    BY <2>1 DEF IInv, TalliesAreFirstVotes, TallyOver, Supporters
  <2>3. p[j].local.anchor \in Anchors
    BY <2>1, PendingEntry
  <2>4. CASE j # i \/ e # d
    <3>1. certifier'.pending[j].accumulators[e] = p[j].accumulators[e]
          /\ certifier'.pending[j].local = p[j].local
      BY <1>7, <1>8, <2>1, <2>4
    <3>2. p[j].local.anchor # n \/ e # d
      BY <1>1, <2>1, <2>4
    <3>3. {b \in Authorities : /\ ballots'[p[j].local.anchor][b] # None
                              /\ ballots'[p[j].local.anchor][b].commitment = e} =
          {b \in Authorities : /\ ballots[p[j].local.anchor][b] # None
                              /\ ballots[p[j].local.anchor][b].commitment = e}
      BY <1>4, <2>3, <3>2 DEF Supporters
    <3> QED
      BY <2>2, <3>1, <3>3 DEF TallyOver
  <2>5. CASE j = i /\ e = d
    <3>1. certifier'.pending[j].accumulators[e] = Tallied(p[i], subdag, a, v)
          /\ certifier'.pending[j].local.anchor = n
      BY <1>1, <1>7, <1>8, <2>1, <2>5
    <3>2. {b \in Authorities : ballots'[n][b] # None /\ ballots'[n][b].commitment = e} =
              Supporters(n, d) \cup {a}
      BY <1>4, <2>5 DEF Supporters
    <3> QED
      BY <1>1, <3>1, <3>2, ZenonT(60) DEF TallyOver
  <2> QED
    BY <2>4, <2>5
<1>14. CertificatesAreQuorums'
  <2>1. \A m \in Anchors : Decided(m)' = Decided(m)
    <3> TAKE m \in Anchors
    <3>1. \A e \in Commitments :
             Weight[Supporters(m, e)'] >= Quorum <=> Weight[Supporters(m, e)] >= Quorum
      BY <1>1, <1>4, <1>5 DEF Decided
    <3> QED
      BY <3>1 DEF Decided
  <2> QED
    BY <1>2, <2>1 DEF IInv, CertificatesAreQuorums
<1>15. TimingsReturnedOnce'
  BY <1>2 DEF IInv, TimingsReturnedOnce
<1> QED
  BY <1>10, <1>12, <1>13, <1>14, <1>15 DEF IInv

(***************************************************************************)
(* The vote that reaches the quorum: the certificate forms and the         *)
(* watermark advances.                                                     *)
(***************************************************************************)
LEMMA CertifyIInv ==
    ASSUME IInv, TypeOK', NEW a \in Authorities, NEW v \in Checkpoint, RecordVote(a, v),
           Admissible(certifier, a, v), FormsCertificate(certifier, subdag, a, v)
    PROVE  IInv'
<1> DEFINE n == v.anchor
           d == v.commitment
           p == certifier.pending
           i == EntryOf(p, n)
           certified == WithCertificate(p[i], subdag, a, v)
           c == Counted(certifier, subdag, a, v)
           k == CertifiedPrefix(c.pending)
           q == certifier'.pending
           w == WatermarkAnchor
<1>1. /\ i \in DOMAIN p
      /\ p[i] \in PendingCheckpoint
      /\ p[i].local.anchor = n
      /\ minted[n] = [commitment |-> p[i].local.commitment, timings |-> p[i].timings]
      /\ certificates[n] = None
      /\ surrendered[n] = << >>
      /\ Decided(n) = {}
      /\ \A j \in DOMAIN p : j # i => p[j].local.anchor # n
      /\ ballots' = [ballots EXCEPT ![n][a] = [commitment |-> d, subdag |-> subdag]]
      /\ ballots[n][a] = None
      /\ Tallied(p[i], subdag, a, v).votes = Supporters(n, d) \cup {a}
      /\ Tallied(p[i], subdag, a, v).stake = Weight[Supporters(n, d) \cup {a}]
  BY AdmissibleVote
<1>2. minted' = minted /\ subdag' = subdag
  BY DEF RecordVote
<1>3. n \in Anchors /\ d \in Commitments /\ subdag \in Anchors
  BY DEF Checkpoint, RecordVote, IInv, TypeOK, Anchors
<1>4. Supporters(n, d)' = Supporters(n, d) \cup {a}
      /\ \A m \in Anchors, e \in Commitments :
             m # n \/ e # d => Supporters(m, e)' = Supporters(m, e)
  BY <1>1, <1>3, CastBallot DEF IInv
<1>5. Weight[Supporters(n, d) \cup {a}] >= Quorum
  BY <1>1 DEF FormsCertificate, ReachesQuorum
<1>6. c = [certifier EXCEPT !.pending[i] = certified]
  BY DEF Counted
<1>7. certifier' = Advance(c)
  BY DEF RecordVote, Record
<1>8. c \in CheckpointCertifier
  BY <1>3, CountedType DEF IInv, TypeOK
<1>9. /\ certified.local = p[i].local
      /\ certified.timings = p[i].timings
      /\ certified.certificate.checkpoint = v
      /\ certified.certificate \in CertifiedCheckpoint
  <2>1. certified.certificate = [checkpoint |-> v,
                                 proof |-> Tallied(p[i], subdag, a, v).deliveredIn]
    BY <1>1 DEF WithCertificate, PendingCheckpoint
  <2>2. Tallied(p[i], subdag, a, v) \in Accumulator
    BY <1>1, <1>3, TalliedType
  <2> QED
    BY <1>1, <2>1, <2>2 DEF WithCertificate, PendingCheckpoint, CertifiedCheckpoint, Accumulator
<1>10. certified.certificate # None
  BY <1>9, NoneAssumption
<1>11. certificates' = [certificates EXCEPT ![n] = c.pending[i].certificate]
  BY DEF RecordVote
<1>12. Returned(certifier, subdag, a, v) = p[i].timings
  BY DEF Returned
<1>13. /\ Returned(certifier, subdag, a, v) = minted[n].timings
       /\ surrendered' = [surrendered EXCEPT ![n] =
                              Append(@, Returned(certifier, subdag, a, v))]
  <2>1. p[i].timings # None
    BY <1>1, NoneAssumption DEF PendingCheckpoint
  <2>2. Returned(certifier, subdag, a, v) # None
    BY <1>12, <2>1
  <2> QED
    BY <1>1, <1>12, <2>2 DEF RecordVote
<1> HIDE DEF i, certified, c
<1>14. /\ DOMAIN c.pending = DOMAIN p
       /\ \A j \in DOMAIN p : c.pending[j] = IF j = i THEN certified ELSE p[j]
       /\ c.watermark = certifier.watermark
  BY <1>1, <1>6 DEF IInv, TypeOK, CheckpointCertifier
<1>15. \A m \in Anchors : certificates'[m] = IF m = n THEN certified.certificate ELSE certificates[m]
  BY <1>1, <1>3, <1>11, <1>14 DEF IInv, TypeOK
<1>16. \A m \in Anchors : certificates'[m] # None => certificates'[m].checkpoint.anchor = m
  BY <1>9, <1>15 DEF IInv, CertificatesAreQuorums
<1>17. /\ AnchorOf(c.watermark) = w
       /\ WatermarkAnchor' = AnchorOf(certifier'.watermark)
  BY <1>14 DEF AnchorOf, WatermarkAnchor
<1>18. w \in 0..MaxSubdag /\ (w > 0 => w # n)
  <2>1. w \in 0..MaxSubdag
    BY RoundAssumption DEF IInv, TypeOK, CheckpointCertifier, CertifiedCheckpoint,
                           Checkpoint, WatermarkAnchor, Anchors
  <2>2. {p[j].local.anchor : j \in DOMAIN p} = {m \in Anchors : m > w /\ minted[m] # None}
    BY DEF IInv, WindowFollowsWatermark
  <2>3. n > w
    BY <1>1, <2>2
  <2> QED
    BY <1>3, <2>1, <2>3 DEF Anchors
<1>19. WindowOver(c.pending, w, certificates')
  <2>1. {c.pending[j].local.anchor : j \in DOMAIN c.pending} =
            {m \in Anchors : m > w /\ minted[m] # None}
    <3>1. {c.pending[j].local.anchor : j \in DOMAIN c.pending} =
              {p[j].local.anchor : j \in DOMAIN p}
      BY <1>9, <1>14
    <3> QED
      BY <3>1 DEF IInv, WindowFollowsWatermark
  <2>2. CommitOrder(c.pending)
    BY <1>9, <1>14 DEF CommitOrder, IInv, WindowFollowsWatermark
  <2>3. \A j \in DOMAIN c.pending :
           /\ minted[c.pending[j].local.anchor] =
                  [commitment |-> c.pending[j].local.commitment,
                   timings    |-> c.pending[j].timings]
           /\ c.pending[j].certificate = certificates'[c.pending[j].local.anchor]
    <3> TAKE j \in DOMAIN c.pending
    <3>1. CASE j = i
      BY <1>1, <1>3, <1>9, <1>14, <1>15, <3>1
    <3>2. CASE j # i
      <4>1. /\ c.pending[j] = p[j] /\ j \in DOMAIN p
            /\ p[j].local.anchor # n /\ p[j].local.anchor \in Anchors
        BY <1>1, <1>14, <3>2, PendingEntry
      <4> QED
        BY <1>15, <4>1 DEF IInv, WindowFollowsWatermark
    <3> QED
      BY <3>1, <3>2
  <2>4. \A m \in 1..w : minted[m] # None => certificates'[m] # None
    <3> TAKE m \in 1..w
    <3>1. m \in Anchors
      BY <1>18, RoundAssumption DEF Anchors
    <3> QED
      BY <1>10, <1>15, <3>1 DEF IInv, WindowFollowsWatermark
  <2> QED
    BY <2>1, <2>2, <2>3, <2>4 DEF WindowOver
<1>20. w > 0 => c.watermark = certificates'[w]
  <2> HAVE w > 0
  <2>1. w \in Anchors /\ w # n
    BY <1>18, RoundAssumption DEF Anchors
  <2> QED
    BY <1>14, <1>15, <2>1 DEF IInv, WindowFollowsWatermark
<1>21. certificates' \in [Anchors -> CertifiedCheckpoint \cup {None}]
  BY DEF TypeOK
<1>22. /\ WindowOver(q, WatermarkAnchor', certificates')
       /\ q # << >> => ~Certified(q[1])
       /\ WatermarkAnchor' > 0 => certifier'.watermark = certificates'[WatermarkAnchor']
  BY <1>7, <1>8, <1>16, <1>17, <1>19, <1>20, <1>21, AdvanceWindow
<1>23. WindowFollowsWatermark'
  BY <1>2, <1>22 DEF WindowFollowsWatermark, WindowOver, CommitOrder
<1>24. HistoryOK'
  <2>1. \A m \in Anchors : minted[m] = None => m # n
    BY <1>1, Admission
  <2>2. \A m \in Anchors : m # n => /\ ballots'[m] = ballots[m]
                                  /\ certificates'[m] = certificates[m]
                                  /\ surrendered'[m] = surrendered[m]
    BY <1>1, <1>3, <1>13, <1>15 DEF IInv, TypeOK
  <2> QED
    BY <1>2, <2>1, <2>2 DEF IInv, HistoryOK
<1>25. TalliesAreFirstVotes'
  <2> SUFFICES ASSUME NEW j \in DOMAIN q, NEW e \in Commitments, ~Certified(q[j])
               PROVE  TallyOver(q[j], ballots', e)
    BY DEF TalliesAreFirstVotes, TallyOver, Supporters
  <2>1. PICK l \in DOMAIN c.pending : q[j] = c.pending[l]
    <3>1. /\ Len(q) = Len(c.pending) - k
          /\ \A m \in 1..(Len(c.pending) - k) : q[m] = c.pending[k + m]
          /\ k \in 0..Len(c.pending)
      BY <1>7, <1>8, AdvanceProperties, CertifiedPrefixProperties, ZenonT(60) DEF CheckpointCertifier
    <3>2. /\ DOMAIN q = 1..Len(q)
          /\ DOMAIN c.pending = 1..Len(c.pending)
          /\ Len(c.pending) \in Nat
      BY <1>8, LenProperties DEF TypeOK, CheckpointCertifier
    <3> HIDE DEF k
    <3>3. k + j \in DOMAIN c.pending /\ q[j] = c.pending[k + j]
      BY <3>1, <3>2
    <3> QED
      BY <3>3
  <2>2. l # i
    BY <1>1, <1>10, <1>14, <2>1 DEF Certified
  <2>3. l \in DOMAIN p /\ q[j] = p[l] /\ p[l].local.anchor # n
    BY <1>1, <1>14, <2>1, <2>2
  <2>4. TallyOver(p[l], ballots, e)
    BY <2>3 DEF IInv, TalliesAreFirstVotes, TallyOver, Supporters
  <2>5. ballots'[p[l].local.anchor] = ballots[p[l].local.anchor]
    <3>1. p[l].local.anchor \in Anchors
      BY <2>3, PendingEntry
    <3> QED
      BY <1>1, <1>3, <2>3, <3>1 DEF IInv, TypeOK
  <2> QED
    BY <2>3, <2>4, <2>5, ZenonT(60) DEF TallyOver
<1>26. CertificatesAreQuorums'
  <2>1. Decided(n)' = {d}
    BY <1>1, <1>3, <1>4, <1>5 DEF Decided
  <2>2. \A m \in Anchors : m # n => Decided(m)' = Decided(m)
    BY <1>4 DEF Decided
  <2>3. ASSUME NEW m \in Anchors, m # n
        PROVE  IF certificates'[m] = None THEN Decided(m)' = {}
               ELSE /\ Decided(m)' = {certificates'[m].checkpoint.commitment}
                    /\ certificates'[m].checkpoint.anchor = m
    <3>1. Decided(m)' = Decided(m) /\ certificates'[m] = certificates[m]
      BY <1>15, <2>2, <2>3
    <3> QED
      BY <3>1 DEF IInv, CertificatesAreQuorums
  <2>4. certificates'[n] = certified.certificate
    BY <1>3, <1>15
  <2> QED
    BY <1>9, <1>10, <2>1, <2>3, <2>4 DEF CertificatesAreQuorums
<1>27. TimingsReturnedOnce'
  <2>1. surrendered'[n] = <<minted[n].timings>>
    BY <1>1, <1>3, <1>13 DEF IInv, TypeOK
  <2>2. \A m \in Anchors : m # n => surrendered'[m] = surrendered[m]
    BY <1>13 DEF IInv, TypeOK
  <2>3. \A m \in Anchors : certificates'[m] = None <=> m # n /\ certificates[m] = None
    BY <1>10, <1>15
  <2> QED
    BY <1>2, <2>1, <2>2, <2>3 DEF IInv, TimingsReturnedOnce
<1> QED
  BY <1>23, <1>24, <1>25, <1>26, <1>27 DEF IInv

-----------------------------------------------------------------------------
(***************************************************************************)
(* The inductive invariant holds in every reachable state.                 *)
(***************************************************************************)
LEMMA InductiveInvariant == Spec => []IInv
<1>1. Init /\ TypeOK => IInv
  BY InitIInv
<1>2. IInv /\ TypeOK' /\ [Next]_vars => IInv'
  <2> SUFFICES ASSUME IInv, TypeOK', [Next]_vars PROVE IInv'
    OBVIOUS
  <2>1. ASSUME NEW d \in Commitments, NEW t \in Timings, PushCheckpoint(d, t)
        PROVE  IInv'
    BY <2>1, PushIInv
  <2>2. CASE SkipSubdag
    BY <2>2, SkipIInv
  <2>3. ASSUME NEW a \in Authorities, NEW v \in Checkpoint, RecordVote(a, v)
        PROVE  IInv'
    <3>1. CASE ~Admissible(certifier, a, v)
      <4>1. ~FormsCertificate(certifier, subdag, a, v) /\ certifier' = certifier
        BY <2>3, <3>1 DEF FormsCertificate, RecordVote, Record
      <4>2. ballots' = ballots
        BY <2>3, <3>1, Admission DEF RecordVote
      <4>3. UNCHANGED vars
        BY <2>3, <4>1, <4>2 DEF RecordVote, Returned, vars
      <4> QED
        BY <4>3, StutterIInv
    <3>2. CASE Admissible(certifier, a, v) /\ ~FormsCertificate(certifier, subdag, a, v)
      BY <2>3, <3>2, CountIInv
    <3>3. CASE Admissible(certifier, a, v) /\ FormsCertificate(certifier, subdag, a, v)
      BY <2>3, <3>3, CertifyIInv
    <3> QED
      BY <3>1, <3>2, <3>3
  <2>4. CASE UNCHANGED vars
    BY <2>4, StutterIInv
  <2> QED
    BY <2>1, <2>2, <2>3, <2>4 DEF Next
<1> QED
  BY <1>1, <1>2, TypeCorrect, PTL DEF Spec

(***************************************************************************)
(* For every committee, stake, quorum and vote stream the window holds the *)
(* checkpoints above the watermark in commit order and starts with an      *)
(* uncertified one (certifier.rs:88-91 and 203-209).                       *)
(***************************************************************************)
THEOREM WindowCorrect == Spec => []WindowFollowsWatermark
<1>1. IInv => WindowFollowsWatermark
  BY DEF IInv
<1> QED
  BY <1>1, InductiveInvariant, PTL

(***************************************************************************)
(* The accumulators of an uncertified checkpoint hold exactly the authors' *)
(* first votes, and their weight (certifier.rs:39-46 and 165-178).         *)
(***************************************************************************)
THEOREM TalliesCorrect == Spec => []TalliesAreFirstVotes
<1>1. IInv => TalliesAreFirstVotes
  BY DEF IInv
<1> QED
  BY <1>1, InductiveInvariant, PTL

(***************************************************************************)
(* A certificate forms exactly when the first votes for a commitment weigh *)
(* a quorum, and for no two commitments (certifier.rs:129-199).            *)
(***************************************************************************)
THEOREM CertificatesCorrect == Spec => []CertificatesAreQuorums
<1>1. IInv => CertificatesAreQuorums
  BY DEF IInv
<1> QED
  BY <1>1, InductiveInvariant, PTL

(***************************************************************************)
(* The mint timings of a checkpoint are returned once, by the vote that    *)
(* certifies it.                                                           *)
(***************************************************************************)
THEOREM TimingsOnce == Spec => []TimingsReturnedOnce
<1>1. IInv => TimingsReturnedOnce
  BY DEF IInv
<1> QED
  BY <1>1, InductiveInvariant, PTL

(***************************************************************************)
(* A certificate that formed never changes, whatever votes follow.         *)
(***************************************************************************)
THEOREM CertificateFinality == Spec => CertificatesAreFinal
<1>1. IInv /\ [Next]_vars =>
          [\A n \in Anchors : certificates[n] # None => certificates'[n] = certificates[n]]_vars
  <2> SUFFICES ASSUME IInv, Next, NEW n \in Anchors, certificates[n] # None
               PROVE  certificates'[n] = certificates[n]
    BY DEF vars
  <2>1. ASSUME NEW d \in Commitments, NEW t \in Timings, PushCheckpoint(d, t)
        PROVE  certificates' = certificates
    BY <2>1 DEF PushCheckpoint
  <2>2. CASE SkipSubdag
    BY <2>2 DEF SkipSubdag, history
  <2>3. ASSUME NEW a \in Authorities, NEW v \in Checkpoint, RecordVote(a, v)
        PROVE  certificates'[n] = certificates[n]
    <3>1. CASE FormsCertificate(certifier, subdag, a, v)
      <4>1. certificates[v.anchor] = None
        BY <2>3, <3>1, AdmissibleVote, ZenonT(60) DEF FormsCertificate
      <4>2. v.anchor # n
        BY <4>1
      <4> QED
        BY <2>3, <3>1, <4>2 DEF RecordVote, IInv, TypeOK
    <3>2. CASE ~FormsCertificate(certifier, subdag, a, v)
      BY <2>3, <3>2 DEF RecordVote
    <3> QED
      BY <3>1, <3>2
  <2> QED
    BY <2>1, <2>2, <2>3 DEF Next
<1> QED
  BY <1>1, InductiveInvariant, PTL DEF Spec, CertificatesAreFinal

-----------------------------------------------------------------------------
(***************************************************************************)
(* The refinement. The mapped supporters and the mapped watermark are      *)
(* those of the certifier.                                                 *)
(***************************************************************************)
MappedMinted == {n \in Anchors : minted[n] # None}
MappedBallots == [n \in Anchors |-> [a \in Authorities |->
                     IF ballots[n][a] = None THEN None ELSE ballots[n][a].commitment]]
MappedCertificates == [n \in Anchors |->
                          IF certificates[n] = None THEN None
                          ELSE certificates[n].checkpoint.commitment]

(***************************************************************************)
(* The mapped watermark is the highest minted checkpoint with a certified  *)
(* prefix, as the abstract specification defines it.                       *)
(***************************************************************************)
LEMMA MappedWatermark ==
    ASSUME TypeOK, WindowFollowsWatermark, CertificatesAreQuorums, HistoryOK
    PROVE  Abstract!IsWatermark(WatermarkAnchor) /\ WatermarkAnchor \in 0..MaxSubdag
<1> DEFINE w == WatermarkAnchor
           p == certifier.pending
<1>1. w \in 0..MaxSubdag
  BY RoundAssumption DEF TypeOK, CheckpointCertifier, CertifiedCheckpoint,
                         Checkpoint, WatermarkAnchor, Anchors
<1>2. /\ {p[i].local.anchor : i \in DOMAIN p} = {n \in Anchors : n > w /\ minted[n] # None}
      /\ \A i, j \in DOMAIN p : i < j => p[i].local.anchor < p[j].local.anchor
      /\ \A i \in DOMAIN p : p[i].certificate = certificates[p[i].local.anchor]
      /\ p # << >> => ~Certified(p[1])
      /\ \A n \in 1..w : minted[n] # None => certificates[n] # None
      /\ w > 0 => certifier.watermark = certificates[w]
  BY DEF WindowFollowsWatermark
<1>3. \A n \in Anchors : certificates[n] # None => MappedCertificates[n] # None
  BY NoneAssumption DEF TypeOK, CertifiedCheckpoint, Checkpoint, MappedCertificates
<1>4. w \in MappedMinted \cup {0}
  <2> SUFFICES ASSUME w > 0 PROVE w \in MappedMinted
    BY <1>1
  <2>1. w \in Anchors /\ certificates[w] # None
    BY <1>1, <1>2, RoundAssumption DEF Anchors, WatermarkAnchor
  <2> QED
    BY <2>1 DEF HistoryOK, MappedMinted
<1>5. \A n \in MappedMinted : n <= w => MappedCertificates[n] # None
  <2> TAKE n \in MappedMinted
  <2> HAVE n <= w
  <2>1. n \in 1..w /\ n \in Anchors /\ minted[n] # None
    BY <1>1, RoundAssumption DEF MappedMinted, Anchors
  <2> QED
    BY <1>2, <1>3, <2>1
<1>6. \A n \in MappedMinted : n > w =>
          \E m \in MappedMinted : w < m /\ m <= n /\ MappedCertificates[m] = None
  <2> TAKE n \in MappedMinted
  <2> HAVE n > w
  <2>1. PICK i \in DOMAIN p : p[i].local.anchor = n
    BY <1>2 DEF MappedMinted
  <2>2. p \in Seq(PendingCheckpoint) /\ Len(p) \in Nat /\ DOMAIN p = 1..Len(p)
    BY LenProperties DEF TypeOK, CheckpointCertifier
  <2>3. 1 \in DOMAIN p /\ i \in 1..Len(p) /\ p # << >>
    BY <2>1, <2>2, EmptySeq
  <2> DEFINE m == p[1].local.anchor
  <2>4. m \in Anchors /\ m > w /\ minted[m] # None
    BY <1>2, <2>3
  <2>5. m <= n
    <3>1. CASE i = 1
      BY <2>1, <2>4, <3>1 DEF Anchors
    <3>2. CASE i # 1
      <4>1. 1 < i
        BY <2>3, <3>2
      <4> QED
        BY <1>2, <2>1, <2>3, <2>4, <4>1 DEF MappedMinted, Anchors
    <3> QED
      BY <3>1, <3>2
  <2>6. certificates[m] = None
    BY <1>2, <2>3 DEF Certified
  <2>7. MappedCertificates[m] = None
    BY <2>4, <2>6 DEF MappedCertificates
  <2>8. m \in MappedMinted /\ w < m
    BY <1>1, <2>4 DEF MappedMinted, Anchors
  <2> QED
    BY <2>5, <2>7, <2>8
<1> QED
  BY <1>1, <1>4, <1>5, <1>6
     DEF Abstract!IsWatermark, MappedMinted, MappedCertificates

WatermarkIsMapped ==
    Abstract!IsWatermark(WatermarkAnchor) /\ WatermarkAnchor \in 0..MaxSubdag

(***************************************************************************)
(* The certifier implements Certification: an admissible vote is a Vote or *)
(* a Certify of the abstract specification, a push is a Mint, everything   *)
(* else stutters.                                                          *)
(***************************************************************************)
THEOREM CertifierRefinement == Spec => ImplementsCertification
<1>1. Init => Abstract!Init
  <2> SUFFICES ASSUME Init PROVE Abstract!Init
    OBVIOUS
  <2>1. WatermarkAnchor = 0
    BY DEF Init, NewCertifier, WatermarkAnchor
  <2> QED
    BY <2>1 DEF Init, Abstract!Init, Abstract!Anchors, Anchors
<1>2. IInv => WatermarkIsMapped
  BY MappedWatermark DEF IInv, WatermarkIsMapped
<1>3. IInv' => WatermarkIsMapped'
  BY <1>2, PTL
<1>4. IInv /\ IInv' /\ [Next]_vars => [Abstract!Next]_Abstract!vars
  <2> SUFFICES ASSUME IInv, IInv', [Next]_vars PROVE [Abstract!Next]_Abstract!vars
    OBVIOUS
  <2> DEFINE M == MappedMinted
             B == MappedBallots
             C == MappedCertificates
             W == WatermarkAnchor
  <2>0. ASSUME UNCHANGED <<M, B, C, W>> PROVE [Abstract!Next]_Abstract!vars
    BY <2>0 DEF Abstract!vars, MappedMinted, MappedBallots, MappedCertificates
  <2>1. ASSUME NEW d \in Commitments, NEW t \in Timings, PushCheckpoint(d, t)
        PROVE  [Abstract!Next]_Abstract!vars
    <3>0. subdag + 1 \in Anchors /\ subdag \in Nat
      BY <2>1, RoundAssumption DEF PushCheckpoint, IInv, TypeOK, Anchors
    <3>1. PICK n \in Anchors : n = subdag + 1
      BY <3>0
    <3>2. \A m \in M : m < n
      <4> TAKE m \in M
      <4>1. m \in Anchors /\ ~(m > subdag)
        BY DEF IInv, HistoryOK, MappedMinted
      <4> QED
        BY <3>0, <3>1, <4>1 DEF Anchors
    <3>3. [commitment |-> d, timings |-> t] # None
      BY HistoryAssumption DEF Mint
    <3>4. M' = M \cup {n}
      BY <2>1, <3>1, <3>3 DEF PushCheckpoint, MappedMinted, IInv, TypeOK
    <3>5. UNCHANGED <<B, C, W>>
      BY <2>1 DEF PushCheckpoint, Push, MappedBallots, MappedCertificates, WatermarkAnchor,
                  IInv, TypeOK, CheckpointCertifier
    <3>6. Abstract!Mint(n)
      BY <3>2, <3>4, <3>5 DEF Abstract!Mint, MappedMinted, MappedBallots, MappedCertificates
    <3> QED
      BY <3>1, <3>6 DEF Abstract!Next, Abstract!Anchors, Anchors
  <2>2. CASE SkipSubdag
    BY <2>0, <2>2 DEF SkipSubdag, history, MappedMinted, MappedBallots,
                      MappedCertificates, WatermarkAnchor
  <2>3. ASSUME NEW a \in Authorities, NEW v \in Checkpoint, RecordVote(a, v)
        PROVE  [Abstract!Next]_Abstract!vars
    <3> DEFINE n == v.anchor
               d == v.commitment
               c == Counted(certifier, subdag, a, v)
    <3>1. n \in Anchors /\ d \in Commitments /\ subdag \in Anchors
      BY <2>3 DEF Checkpoint, RecordVote, IInv, TypeOK, Anchors
    <3>2. CASE ~Admissible(certifier, a, v)
      <4>1. ~FormsCertificate(certifier, subdag, a, v) /\ certifier' = certifier
        BY <2>3, <3>2 DEF FormsCertificate, RecordVote, Record
      <4>2. ballots' = ballots
        BY <2>3, <3>2, Admission DEF RecordVote
      <4> QED
        BY <2>0, <2>3, <4>1, <4>2 DEF RecordVote, MappedMinted, MappedBallots,
                                      MappedCertificates, WatermarkAnchor
    <3>3. CASE Admissible(certifier, a, v)
      <4>1. /\ minted[n] # None
            /\ certificates[n] = None
            /\ ballots[n][a] = None
            /\ ballots' = [ballots EXCEPT ![n][a] = [commitment |-> d, subdag |-> subdag]]
            /\ Tallied(certifier.pending[EntryOf(certifier.pending, n)], subdag, a, v).stake =
                   Weight[Supporters(n, d) \cup {a}]
        <5> DEFINE p == certifier.pending
                   i == EntryOf(p, n)
        <5>1. minted[n] # None
          BY <3>3, Admission
        <5>2. /\ i \in DOMAIN p
              /\ p[i] \in PendingCheckpoint
              /\ p[i].local.anchor = n
              /\ minted[n] = [commitment |-> p[i].local.commitment, timings |-> p[i].timings]
              /\ certificates[n] = None
              /\ surrendered[n] = << >>
              /\ Decided(n) = {}
              /\ \A j \in DOMAIN p : j # i => p[j].local.anchor # n
              /\ ballots' = [ballots EXCEPT ![n][a] = [commitment |-> d, subdag |-> subdag]]
              /\ ballots[n][a] = None
              /\ Tallied(p[i], subdag, a, v).votes = Supporters(n, d) \cup {a}
              /\ Tallied(p[i], subdag, a, v).stake = Weight[Supporters(n, d) \cup {a}]
          BY <2>3, <3>3, AdmissibleVote
        <5> QED
          BY <5>1, <5>2
      <4>2. Supporters(n, d)' = Supporters(n, d) \cup {a}
        BY <3>1, <4>1, CastBallot DEF IInv
      <4>3. Abstract!Supporters(n, d)' = Supporters(n, d) \cup {a}
        <5>1. d # None
          BY <3>1, NoneAssumption
        <5> QED
          BY <3>1, <4>2, <5>1 DEF Abstract!Supporters, Supporters
      <4>4. [commitment |-> d, subdag |-> subdag] # None
        BY <3>1, HistoryAssumption DEF Ballot
      <4>5. B' = [B EXCEPT ![n][a] = d]
        BY <3>1, <4>1, <4>4, ZenonT(60) DEF MappedBallots, IInv, TypeOK
      <4>6. M' = M /\ n \in M /\ C[n] = None /\ B[n][a] = None
        BY <2>3, <3>1, <4>1 DEF RecordVote, MappedMinted, MappedCertificates, MappedBallots
      <4>7. Abstract!Cast(n, a, d)
        BY <4>5, <4>6 DEF Abstract!Cast, MappedMinted, MappedCertificates, MappedBallots
      <4>8. CASE ~FormsCertificate(certifier, subdag, a, v)
        <5>1. ~(Weight[Supporters(n, d) \cup {a}] >= Quorum)
          BY <3>3, <4>1, <4>8 DEF FormsCertificate, ReachesQuorum
        <5>2. Weight[Supporters(n, d) \cup {a}] \in Nat /\ Quorum \in Nat
          BY WeightAssumption, QuorumAssumption DEF Supporters
        <5>3. certifier'.watermark = certifier.watermark
          BY <2>3, <3>3, <4>8 DEF RecordVote, Record, Counted, IInv, TypeOK, CheckpointCertifier
        <5>4. UNCHANGED <<C, W>>
          BY <2>3, <4>8, <5>3 DEF RecordVote, MappedCertificates, WatermarkAnchor
        <5>5. Abstract!Vote(n, a, d)
          BY <4>3, <4>7, <5>1, <5>2, <5>4 DEF Abstract!Vote, MappedCertificates
        <5> QED
          BY <3>1, <5>5 DEF Abstract!Next, Abstract!Anchors, Anchors
      <4>9. CASE FormsCertificate(certifier, subdag, a, v)
        <5>1. Weight[Abstract!Supporters(n, d)'] >= Quorum
          BY <4>1, <4>3, <4>9 DEF FormsCertificate, ReachesQuorum
        <5>2. certificates'[n] # None /\ certificates'[n].checkpoint.commitment = d
          <6>1. Decided(n)' = {certificates'[n].checkpoint.commitment}
                \/ certificates'[n] = None
            BY <3>1 DEF IInv, CertificatesAreQuorums
          <6>2. d \in Decided(n)'
            BY <3>1, <4>2, <4>3, <5>1 DEF Decided
          <6>3. certificates'[n] = None => Decided(n)' = {}
            BY <3>1 DEF IInv, CertificatesAreQuorums
          <6> QED
            BY <6>1, <6>2, <6>3
        <5>3. \A m \in Anchors : m # n => certificates'[m] = certificates[m]
          BY <2>3, <4>9 DEF RecordVote, IInv, TypeOK
        <5>4. C' = [C EXCEPT ![n] = d]
          BY <3>1, <5>2, <5>3 DEF MappedCertificates
        <5>5. Abstract!IsWatermark(WatermarkAnchor)' /\ W' \in 0..MaxSubdag
          BY <1>3 DEF WatermarkIsMapped
        <5>6. Abstract!Certify(n, a, d)
          BY <4>7, <5>1, <5>4, <5>5 DEF Abstract!Certify, MappedCertificates
        <5> QED
          BY <3>1, <5>6 DEF Abstract!Next, Abstract!Anchors, Anchors
      <4> QED
        BY <4>8, <4>9
    <3> QED
      BY <3>2, <3>3
  <2>4. CASE UNCHANGED vars
    BY <2>0, <2>4 DEF vars, MappedMinted, MappedBallots, MappedCertificates, WatermarkAnchor
  <2> QED
    BY <2>1, <2>2, <2>3, <2>4 DEF Next
<1> QED
  BY <1>1, <1>4, InductiveInvariant, PTL DEF Spec, ImplementsCertification, Abstract!Spec

-----------------------------------------------------------------------------
(***************************************************************************)
(* The deliveries of an accumulator, or of a certificate: one for each     *)
(* ballot that was cast for its commitment, in the order of the sub-dags   *)
(* that delivered them.                                                    *)
(***************************************************************************)
Backers(cast, d, s) ==
    {a \in Authorities : cast[a] # None /\ cast[a].commitment = d /\ cast[a].subdag = s}

Positions(proof, s) == {i \in DOMAIN proof : proof[i] = s}

Lists(proof, cast, d) ==
    /\ proof \in Seq(Anchors)
    /\ \A s \in Anchors :
           /\ IsFiniteSet(Backers(cast, d, s))
           /\ Cardinality(Positions(proof, s)) = Cardinality(Backers(cast, d, s))
    /\ \A i, j \in DOMAIN proof : i < j => proof[i] <= proof[j]

DeliveredBy(proof, s) == \A i \in DOMAIN proof : proof[i] <= s

(***************************************************************************)
(* Nothing is delivered before a ballot is cast.                           *)
(***************************************************************************)
LEMMA NothingListed ==
    ASSUME NEW cast, NEW d, NEW s, \A a \in Authorities : cast[a] = None
    PROVE  Lists(<< >>, cast, d) /\ DeliveredBy(<< >>, s)
<1>1. << >> \in Seq(Anchors) /\ DOMAIN << >> = {}
  BY EmptySeq
<1>2. \A t : Backers(cast, d, t) = {} /\ Positions(<< >>, t) = {}
  BY <1>1 DEF Backers, Positions
<1>3. IsFiniteSet({})
  BY FS_EmptySet
<1> QED
  BY <1>1, <1>2, <1>3 DEF Lists, DeliveredBy

(***************************************************************************)
(* A ballot that is cast and counted adds its delivery at the end          *)
(* (certifier.rs:39-46).                                                   *)
(***************************************************************************)
LEMMA OneMoreListed ==
    ASSUME NEW cast, NEW next, NEW d, NEW s \in Anchors, NEW proof,
           NEW a \in Authorities,
           Lists(proof, cast, d), DeliveredBy(proof, s),
           cast[a] = None, next[a] # None, next[a].commitment = d, next[a].subdag = s,
           \A b \in Authorities : b # a => next[b] = cast[b]
    PROVE  Lists(Append(proof, s), next, d) /\ DeliveredBy(Append(proof, s), s)
<1> DEFINE m == Len(proof)
           longer == Append(proof, s)
<1>1. /\ proof \in Seq(Anchors) /\ m \in Nat /\ DOMAIN proof = 1..m
  BY LenProperties DEF Lists
<1>2. /\ longer \in Seq(Anchors) /\ DOMAIN longer = 1..(m + 1)
      /\ \A i \in 1..m : longer[i] = proof[i]
      /\ longer[m + 1] = s
  <2>1. longer \in Seq(Anchors) /\ Len(longer) = m + 1
        /\ \A i \in 1..m : longer[i] = proof[i]
        /\ longer[m + 1] = s
    BY <1>1, AppendProperties
  <2>2. DOMAIN longer = 1..Len(longer)
    BY <2>1, LenProperties
  <2> QED
    BY <2>1, <2>2
<1> HIDE DEF longer, m
<1>3. \A i \in 1..m : proof[i] \in Nat /\ proof[i] <= s /\ s \in Nat
  <2> TAKE i \in 1..m
  <2>1. i \in DOMAIN proof /\ proof[i] \in Anchors
    BY <1>1, ElementOfSeq DEF m
  <2>2. Anchors \subseteq Nat
    BY DEF Anchors
  <2> QED
    BY <2>1, <2>2 DEF DeliveredBy
<1>4. ASSUME NEW t \in Anchors
      PROVE  /\ IsFiniteSet(Backers(next, d, t))
             /\ Cardinality(Positions(longer, t)) = Cardinality(Backers(next, d, t))
  <2>1. /\ IsFiniteSet(Backers(cast, d, t)) /\ IsFiniteSet(Positions(proof, t))
        /\ Cardinality(Positions(proof, t)) = Cardinality(Backers(cast, d, t))
    <3>1. IsFiniteSet(1..m) /\ Positions(proof, t) \subseteq 1..m
      BY <1>1, FS_Interval DEF Positions
    <3> QED
      BY <3>1, FS_Subset DEF Lists
  <2>2. CASE t = s
    <3>1. Backers(next, d, t) = Backers(cast, d, t) \cup {a} /\ a \notin Backers(cast, d, t)
      BY <2>2 DEF Backers
    <3>2. Positions(longer, t) = Positions(proof, t) \cup {m + 1}
      BY <1>1, <1>2, <2>2 DEF Positions
    <3>3. (m + 1) \notin Positions(proof, t)
      BY <1>1 DEF Positions
    <3>4. /\ IsFiniteSet(Backers(next, d, t))
          /\ Cardinality(Backers(next, d, t)) = Cardinality(Backers(cast, d, t)) + 1
      BY <2>1, <3>1, FS_AddElement
    <3>5. Cardinality(Positions(longer, t)) = Cardinality(Positions(proof, t)) + 1
      BY <2>1, <3>2, <3>3, FS_AddElement
    <3> QED
      BY <2>1, <3>4, <3>5
  <2>3. CASE t # s
    <3>1. Backers(next, d, t) = Backers(cast, d, t)
      BY <2>3 DEF Backers
    <3>2. Positions(longer, t) = Positions(proof, t)
      BY <1>1, <1>2, <2>3 DEF Positions
    <3> QED
      BY <2>1, <3>1, <3>2
  <2> QED
    BY <2>2, <2>3
<1>5. \A i \in 1..(m + 1) : longer[i] <= s
  <2> TAKE i \in 1..(m + 1)
  <2>1. i \in 1..m \/ i = m + 1
    BY <1>1
  <2>2. s \in Nat
    BY DEF Anchors
  <2> QED
    BY <1>2, <1>3, <2>1, <2>2
<1>6. \A i, j \in 1..(m + 1) : i < j => longer[i] <= longer[j]
  <2> SUFFICES ASSUME NEW i \in 1..(m + 1), NEW j \in 1..(m + 1), i < j
               PROVE  longer[i] <= longer[j]
    OBVIOUS
  <2>1. i \in 1..m
    BY <1>1
  <2>2. CASE j = m + 1
    BY <1>2, <1>5, <2>2
  <2>3. CASE j # m + 1
    <3>1. j \in 1..m
      BY <1>1, <2>3
    <3>2. proof[i] <= proof[j]
      BY <1>1, <2>1, <3>1 DEF Lists
    <3> QED
      BY <1>2, <2>1, <3>1, <3>2
  <2> QED
    BY <2>2, <2>3
<1>7. Lists(longer, next, d) /\ DeliveredBy(longer, s)
  BY <1>2, <1>4, <1>5, <1>6 DEF Lists, DeliveredBy
<1> QED
  BY <1>7 DEF longer

(***************************************************************************)
(* A ballot for another commitment leaves the deliveries of this one.      *)
(***************************************************************************)
LEMMA OthersListed ==
    ASSUME NEW cast, NEW next, NEW d, NEW proof, NEW a \in Authorities,
           Lists(proof, cast, d), cast[a] = None, next[a].commitment # d,
           \A b \in Authorities : b # a => next[b] = cast[b]
    PROVE  Lists(proof, next, d)
<1>1. \A s : Backers(next, d, s) = Backers(cast, d, s)
  BY DEF Backers
<1> QED
  BY <1>1 DEF Lists

(***************************************************************************)
(* The inductive invariant of the proofs: the accumulators of undecided    *)
(* checkpoints list the deliveries so far, and a certificate the ones it   *)
(* was formed from.                                                        *)
(***************************************************************************)
EntryLists(entry, cast, s) ==
    \A d \in Commitments : /\ Lists(entry.accumulators[d].deliveredIn, cast, d)
                           /\ DeliveredBy(entry.accumulators[d].deliveredIn, s)

CertificateLists(certificate, cast) ==
    Lists(certificate.proof, cast, certificate.checkpoint.commitment)

ProofsInv ==
    /\ \A i \in DOMAIN certifier.pending :
           ~Certified(certifier.pending[i]) =>
               EntryLists(certifier.pending[i],
                          ballots[certifier.pending[i].local.anchor], subdag)
    /\ \A n \in Anchors : certificates[n] # None =>
           CertificateLists(certificates[n], ballots[n])

(***************************************************************************)
(* A later sub-dag has delivered what an earlier one had.                  *)
(***************************************************************************)
LEMMA DeliveredEarlier ==
    ASSUME NEW entry, NEW cast, NEW s \in Nat, EntryLists(entry, cast, s)
    PROVE  EntryLists(entry, cast, s + 1)
<1> SUFFICES ASSUME NEW d \in Commitments, NEW i \in DOMAIN entry.accumulators[d].deliveredIn
             PROVE  entry.accumulators[d].deliveredIn[i] <= s + 1
  BY DEF EntryLists, DeliveredBy
<1>1. /\ entry.accumulators[d].deliveredIn \in Seq(Anchors)
      /\ entry.accumulators[d].deliveredIn[i] <= s
  BY DEF EntryLists, DeliveredBy, Lists
<1> DEFINE proof == entry.accumulators[d].deliveredIn
<1>2. i \in 1..Len(proof)
  BY <1>1, LenProperties
<1> HIDE DEF proof
<1>3. proof[i] \in Anchors
  BY <1>1, <1>2, ElementOfSeq DEF proof
<1>4. Anchors \subseteq Nat
  BY DEF Anchors
<1>5. proof[i] \in Nat /\ proof[i] <= s
  BY <1>1, <1>3, <1>4 DEF proof
<1>6. proof[i] <= s + 1
  BY <1>5
<1> QED
  BY <1>6 DEF proof

(***************************************************************************)
(* What counting a vote does to the deliveries of the entry it is for.     *)
(***************************************************************************)
LEMMA TalliedLists ==
    ASSUME IInv, TypeOK', ProofsInv, NEW a \in Authorities, NEW v \in Checkpoint,
           RecordVote(a, v), Admissible(certifier, a, v)
    PROVE  LET n == v.anchor
               entry == certifier.pending[EntryOf(certifier.pending, n)]
               proof == Tallied(entry, subdag, a, v).deliveredIn
           IN  /\ EntryOf(certifier.pending, n) \in DOMAIN certifier.pending
               /\ entry.local.anchor = n
               /\ certificates[n] = None
               /\ \A j \in DOMAIN certifier.pending :
                      certifier.pending[j].local.anchor = n =>
                          j = EntryOf(certifier.pending, n)
               /\ Lists(proof, ballots'[n], v.commitment)
               /\ DeliveredBy(proof, subdag)
               /\ \A d \in Commitments : d # v.commitment =>
                      /\ Lists(entry.accumulators[d].deliveredIn, ballots'[n], d)
                      /\ DeliveredBy(entry.accumulators[d].deliveredIn, subdag)
               /\ \A m \in Anchors : m # n => ballots'[m] = ballots[m]
<1> DEFINE n == v.anchor
           d == v.commitment
           p == certifier.pending
           i == EntryOf(p, n)
           entry == p[i]
           ballot == [commitment |-> d, subdag |-> subdag]
<1>1. /\ i \in DOMAIN p
      /\ p[i].local.anchor = n
      /\ certificates[n] = None
      /\ \A j \in DOMAIN p : p[j].local.anchor = n => j = i
      /\ ballots' = [ballots EXCEPT ![n][a] = ballot]
      /\ ballots[n][a] = None
  <2>1. /\ i \in DOMAIN p
        /\ p[i] \in PendingCheckpoint
        /\ p[i].local.anchor = n
        /\ minted[n] = [commitment |-> p[i].local.commitment, timings |-> p[i].timings]
        /\ certificates[n] = None
        /\ surrendered[n] = << >>
        /\ Decided(n) = {}
        /\ \A j \in DOMAIN p : j # i => p[j].local.anchor # n
        /\ ballots' = [ballots EXCEPT ![n][a] = [commitment |-> d, subdag |-> subdag]]
        /\ ballots[n][a] = None
        /\ Tallied(p[i], subdag, a, v).votes = Supporters(n, d) \cup {a}
        /\ Tallied(p[i], subdag, a, v).stake = Weight[Supporters(n, d) \cup {a}]
    BY AdmissibleVote
  <2> QED
    BY <2>1
<1>2. n \in Anchors /\ d \in Commitments /\ subdag \in Anchors
  BY DEF Checkpoint, RecordVote, IInv, TypeOK, Anchors
<1>3. ~Certified(entry)
  BY <1>1 DEF Admissible
<1> HIDE DEF i
<1>4. EntryLists(entry, ballots[n], subdag)
  BY <1>1, <1>3 DEF ProofsInv
<1>5. /\ ballots'[n][a] = ballot
      /\ \A b \in Authorities : b # a => ballots'[n][b] = ballots[n][b]
      /\ \A m \in Anchors : m # n => ballots'[m] = ballots[m]
  BY <1>1, <1>2 DEF IInv, TypeOK
<1>6. ballot # None /\ ballot.commitment = d /\ ballot.subdag = subdag
  BY <1>2, HistoryAssumption DEF Ballot
<1>7. a \notin entry.accumulators[d].votes
  <2>1. ~HasVoted(entry, a)
    BY DEF Admissible, i
  <2> QED
    BY <1>2, <2>1 DEF HasVoted
<1>8. Tallied(entry, subdag, a, v).deliveredIn = Append(entry.accumulators[d].deliveredIn, subdag)
  BY <1>7 DEF Tallied, Add
<1> HIDE DEF ballot, entry
<1>9. /\ Lists(Append(entry.accumulators[d].deliveredIn, subdag), ballots'[n], d)
      /\ DeliveredBy(Append(entry.accumulators[d].deliveredIn, subdag), subdag)
  <2>1. /\ Lists(entry.accumulators[d].deliveredIn, ballots[n], d)
        /\ DeliveredBy(entry.accumulators[d].deliveredIn, subdag)
    BY <1>2, <1>4 DEF EntryLists
  <2>2. /\ ballots'[n][a] # None /\ ballots'[n][a].commitment = d
        /\ ballots'[n][a].subdag = subdag /\ ballots[n][a] = None
    BY <1>1, <1>5, <1>6
  <2> QED
    BY <1>2, <1>5, <2>1, <2>2, OneMoreListed
<1>10. ASSUME NEW e \in Commitments, e # d
       PROVE  /\ Lists(entry.accumulators[e].deliveredIn, ballots'[n], e)
              /\ DeliveredBy(entry.accumulators[e].deliveredIn, subdag)
  <2>1. /\ Lists(entry.accumulators[e].deliveredIn, ballots[n], e)
        /\ DeliveredBy(entry.accumulators[e].deliveredIn, subdag)
    BY <1>4 DEF EntryLists
  <2>2. ballots[n][a] = None /\ ballots'[n][a].commitment # e
    BY <1>1, <1>5, <1>6, <1>10
  <2> QED
    BY <1>5, <2>1, <2>2, OthersListed
<1>11. /\ entry.local.anchor = n
       /\ Lists(Tallied(entry, subdag, a, v).deliveredIn, ballots'[n], d)
       /\ DeliveredBy(Tallied(entry, subdag, a, v).deliveredIn, subdag)
       /\ \A e \in Commitments : e # d =>
              /\ Lists(entry.accumulators[e].deliveredIn, ballots'[n], e)
              /\ DeliveredBy(entry.accumulators[e].deliveredIn, subdag)
  <2>1. entry.local.anchor = n
    BY <1>1 DEF entry
  <2> QED
    BY <1>8, <1>9, <1>10, <2>1
<1>12. /\ i \in DOMAIN p
       /\ certificates[n] = None
       /\ \A j \in DOMAIN p : p[j].local.anchor = n => j = i
       /\ \A m \in Anchors : m # n => ballots'[m] = ballots[m]
  BY <1>1, <1>5
<1> QED
  BY <1>11, <1>12, Zenon DEF i, entry

(***************************************************************************)
(* Minting a checkpoint, which no ballot is cast for yet.                  *)
(***************************************************************************)
LEMMA PushLists ==
    ASSUME IInv, IInv', ProofsInv, NEW d \in Commitments, NEW t \in Timings,
           PushCheckpoint(d, t)
    PROVE  ProofsInv'
<1> DEFINE p == certifier.pending
           m == Len(p)
           q == certifier'.pending
<1>1. /\ subdag \in Nat /\ subdag' = subdag + 1 /\ subdag' \in Anchors
      /\ ballots' = ballots /\ certificates' = certificates
      /\ \A a \in Authorities : ballots[subdag'][a] = None
  <2>1. subdag \in Nat /\ subdag + 1 \in Anchors
    BY RoundAssumption DEF PushCheckpoint, IInv, TypeOK, Anchors
  <2>3. minted[subdag + 1] = None
    BY <2>1 DEF IInv, HistoryOK
  <2>4. \A a \in Authorities : ballots[subdag + 1][a] = None
    BY <2>1, <2>3 DEF IInv, HistoryOK
  <2>2. subdag' = subdag + 1 /\ ballots' = ballots /\ certificates' = certificates
    BY DEF PushCheckpoint
  <2> QED
    BY <2>1, <2>2, <2>4
<1>2. certifier \in CheckpointCertifier /\ m \in Nat /\ DOMAIN p = 1..m
  BY LenProperties DEF IInv, TypeOK, CheckpointCertifier
<1>3. certifier' = Push(certifier, subdag', d, t)
  BY <1>1 DEF PushCheckpoint
<1>4. /\ Len(q) = m + 1 /\ \A i \in 1..m : q[i] = p[i]
      /\ q[m + 1] = [local        |-> [anchor |-> subdag', commitment |-> d],
                     timings      |-> t,
                     accumulators |-> [e \in Commitments |-> EmptyAccumulator],
                     certificate  |-> None]
  BY <1>1, <1>2, <1>3, PushAppends
<1>5. DOMAIN q = 1..(m + 1)
  <2>1. q \in Seq(PendingCheckpoint)
    BY DEF IInv, TypeOK, CheckpointCertifier
  <2> QED
    BY <1>4, <2>1, LenProperties
<1> HIDE DEF m, q
<1>6. ASSUME NEW i \in DOMAIN q, ~Certified(q[i])
      PROVE  EntryLists(q[i], ballots[q[i].local.anchor], subdag')
  <2>1. CASE i \in 1..m
    <3>1. q[i] = p[i] /\ i \in DOMAIN p
      BY <1>2, <1>4, <2>1
    <3>2. EntryLists(p[i], ballots[p[i].local.anchor], subdag)
      BY <1>6, <3>1 DEF ProofsInv
    <3> QED
      BY <1>1, <3>1, <3>2, DeliveredEarlier
  <2>2. CASE i = m + 1
    <3>1. /\ q[i].local.anchor = subdag'
          /\ \A e \in Commitments : q[i].accumulators[e].deliveredIn = << >>
      BY <1>4, <2>2 DEF EmptyAccumulator
    <3>2. \A e \in Commitments : /\ Lists(<< >>, ballots[subdag'], e)
                                 /\ DeliveredBy(<< >>, subdag')
      BY <1>1, NothingListed
    <3> QED
      BY <3>1, <3>2 DEF EntryLists
  <2> QED
    BY <1>2, <1>5, <2>1, <2>2
<1>7. \A n \in Anchors : certificates[n] # None => CertificateLists(certificates[n], ballots[n])
  BY DEF ProofsInv
<1> QED
  BY <1>1, <1>6, <1>7 DEF ProofsInv, q

(***************************************************************************)
(* A sub-dag that executes nothing, and a step that changes nothing.       *)
(***************************************************************************)
LEMMA QuietLists ==
    ASSUME IInv, ProofsInv, UNCHANGED <<certifier, history>>,
           subdag' = subdag \/ subdag' = subdag + 1
    PROVE  ProofsInv'
<1>1. certifier' = certifier /\ ballots' = ballots /\ certificates' = certificates
  BY DEF history
<1>2. subdag \in Nat
  BY DEF IInv, TypeOK
<1>3. ASSUME NEW i \in DOMAIN certifier.pending, ~Certified(certifier.pending[i])
      PROVE  EntryLists(certifier.pending[i],
                        ballots[certifier.pending[i].local.anchor], subdag')
  <2>1. EntryLists(certifier.pending[i], ballots[certifier.pending[i].local.anchor], subdag)
    BY <1>3 DEF ProofsInv
  <2> QED
    BY <1>2, <2>1, DeliveredEarlier
<1>4. \A n \in Anchors : certificates[n] # None => CertificateLists(certificates[n], ballots[n])
  BY DEF ProofsInv
<1> QED
  BY <1>1, <1>3, <1>4 DEF ProofsInv

(***************************************************************************)
(* A vote that is counted below the quorum.                                *)
(***************************************************************************)
LEMMA CountLists ==
    ASSUME IInv, TypeOK', ProofsInv, NEW a \in Authorities, NEW v \in Checkpoint,
           RecordVote(a, v), Admissible(certifier, a, v),
           ~FormsCertificate(certifier, subdag, a, v)
    PROVE  ProofsInv'
<1> DEFINE n == v.anchor
           d == v.commitment
           p == certifier.pending
           i == EntryOf(p, n)
           entry == p[i]
           tallied == Tallied(entry, subdag, a, v)
           counted == WithTally(entry, subdag, a, v)
           q == certifier'.pending
<1>1. /\ i \in DOMAIN p
      /\ entry.local.anchor = n
      /\ certificates[n] = None
      /\ \A j \in DOMAIN p : p[j].local.anchor = n => j = i
      /\ Lists(tallied.deliveredIn, ballots'[n], d)
      /\ DeliveredBy(tallied.deliveredIn, subdag)
      /\ \A e \in Commitments : e # d =>
             /\ Lists(entry.accumulators[e].deliveredIn, ballots'[n], e)
             /\ DeliveredBy(entry.accumulators[e].deliveredIn, subdag)
      /\ \A m \in Anchors : m # n => ballots'[m] = ballots[m]
  BY TalliedLists
<1>2. certificates' = certificates /\ subdag' = subdag
  BY DEF RecordVote
<1>3. n \in Anchors /\ d \in Commitments /\ subdag \in Anchors
  BY DEF Checkpoint, RecordVote, IInv, TypeOK, Anchors
<1>4. certifier' = [certifier EXCEPT !.pending[i] = counted]
  BY DEF RecordVote, Record, Counted
<1>5. p \in Seq(PendingCheckpoint) /\ entry \in PendingCheckpoint
  <2>1. p \in Seq(PendingCheckpoint)
    BY DEF IInv, TypeOK, CheckpointCertifier
  <2> QED
    BY <1>1, <2>1, LenProperties, ElementOfSeq
<1>6. /\ counted.local = entry.local
      /\ \A e \in Commitments :
             counted.accumulators[e] = IF e = d THEN tallied ELSE entry.accumulators[e]
  BY <1>3, <1>5 DEF WithTally, PendingCheckpoint
<1> HIDE DEF tallied, counted
<1>7. \A e \in Commitments : /\ Lists(counted.accumulators[e].deliveredIn, ballots'[n], e)
                             /\ DeliveredBy(counted.accumulators[e].deliveredIn, subdag)
  BY <1>1, <1>6
<1> HIDE DEF i
<1>8. DOMAIN q = DOMAIN p
      /\ \A j \in DOMAIN p : q[j] = IF j = i THEN counted ELSE p[j]
  BY <1>1, <1>4 DEF IInv, TypeOK, CheckpointCertifier
<1> HIDE DEF q
<1>9. ASSUME NEW j \in DOMAIN q, ~Certified(q[j])
      PROVE  EntryLists(q[j], ballots'[q[j].local.anchor], subdag')
  <2>1. CASE j = i
    <3>1. q[j] = counted /\ counted.local.anchor = n
      BY <1>1, <1>6, <1>8, <2>1
    <3> QED
      BY <1>2, <1>7, <3>1 DEF EntryLists
  <2>2. CASE j # i
    <3>1. j \in DOMAIN p /\ q[j] = p[j] /\ p[j].local.anchor # n
      BY <1>1, <1>8, <2>2
    <3>2. p[j].local.anchor \in Anchors
      BY <3>1, PendingEntry
    <3>3. EntryLists(p[j], ballots[p[j].local.anchor], subdag)
      BY <1>9, <3>1 DEF ProofsInv
    <3> QED
      BY <1>1, <1>2, <3>1, <3>2, <3>3
  <2> QED
    BY <2>1, <2>2
<1>10. ASSUME NEW m \in Anchors, certificates'[m] # None
       PROVE  CertificateLists(certificates'[m], ballots'[m])
  <2>1. certificates'[m] = certificates[m] /\ m # n
    BY <1>1, <1>2, <1>10
  <2> QED
    BY <1>1, <1>10, <2>1 DEF ProofsInv
<1> QED
  BY <1>9, <1>10 DEF ProofsInv, q

(***************************************************************************)
(* The vote that forms a certificate: the deliveries of the accumulator    *)
(* become its proof (certifier.rs:180-192).                                *)
(***************************************************************************)
LEMMA CertifyLists ==
    ASSUME IInv, TypeOK', ProofsInv, NEW a \in Authorities, NEW v \in Checkpoint,
           RecordVote(a, v), Admissible(certifier, a, v),
           FormsCertificate(certifier, subdag, a, v)
    PROVE  ProofsInv'
<1> DEFINE n == v.anchor
           d == v.commitment
           p == certifier.pending
           i == EntryOf(p, n)
           entry == p[i]
           tallied == Tallied(entry, subdag, a, v)
           certified == WithCertificate(entry, subdag, a, v)
           c == Counted(certifier, subdag, a, v)
           k == CertifiedPrefix(c.pending)
           q == certifier'.pending
<1>1. /\ i \in DOMAIN p
      /\ entry.local.anchor = n
      /\ certificates[n] = None
      /\ \A j \in DOMAIN p : p[j].local.anchor = n => j = i
      /\ Lists(tallied.deliveredIn, ballots'[n], d)
      /\ DeliveredBy(tallied.deliveredIn, subdag)
      /\ \A e \in Commitments : e # d =>
             /\ Lists(entry.accumulators[e].deliveredIn, ballots'[n], e)
             /\ DeliveredBy(entry.accumulators[e].deliveredIn, subdag)
      /\ \A m \in Anchors : m # n => ballots'[m] = ballots[m]
  BY TalliedLists
<1>2. subdag' = subdag
  BY DEF RecordVote
<1>3. n \in Anchors /\ d \in Commitments /\ subdag \in Anchors
  BY DEF Checkpoint, RecordVote, IInv, TypeOK, Anchors
<1>4. p \in Seq(PendingCheckpoint) /\ entry \in PendingCheckpoint
  <2>1. p \in Seq(PendingCheckpoint)
    BY DEF IInv, TypeOK, CheckpointCertifier
  <2> QED
    BY <1>1, <2>1, LenProperties, ElementOfSeq
<1>5. certified.certificate = [checkpoint |-> v, proof |-> tallied.deliveredIn]
  BY <1>4 DEF WithCertificate, PendingCheckpoint
<1>6. c = [certifier EXCEPT !.pending[i] = certified]
  BY DEF Counted
<1>7. certifier' = Advance(c)
  BY DEF RecordVote, Record
<1>8. c \in CheckpointCertifier
  BY <1>3, CountedType DEF IInv, TypeOK
<1>9. certificates' = [certificates EXCEPT ![n] = c.pending[i].certificate]
  BY DEF RecordVote
<1> HIDE DEF i, tallied, certified, c
<1>10. /\ DOMAIN c.pending = DOMAIN p
       /\ \A j \in DOMAIN p : c.pending[j] = IF j = i THEN certified ELSE p[j]
  BY <1>1, <1>6 DEF IInv, TypeOK, CheckpointCertifier
<1>11. \A m \in Anchors : certificates'[m] = IF m = n THEN certified.certificate ELSE certificates[m]
  BY <1>1, <1>3, <1>9, <1>10 DEF IInv, TypeOK
<1>12. ASSUME NEW j \in DOMAIN q, ~Certified(q[j])
       PROVE  EntryLists(q[j], ballots'[q[j].local.anchor], subdag')
  <2>1. PICK l \in DOMAIN c.pending : q[j] = c.pending[l]
    <3>1. /\ Len(q) = Len(c.pending) - k
          /\ \A m \in 1..(Len(c.pending) - k) : q[m] = c.pending[k + m]
          /\ k \in 0..Len(c.pending)
      BY <1>7, <1>8, AdvanceProperties, CertifiedPrefixProperties DEF CheckpointCertifier
    <3>2. /\ DOMAIN q = 1..Len(q)
          /\ DOMAIN c.pending = 1..Len(c.pending)
          /\ Len(c.pending) \in Nat
      BY <1>8, LenProperties DEF TypeOK, CheckpointCertifier
    <3>3. j \in 1..Len(q)
      BY <1>12, <3>2
    <3> HIDE DEF k, q
    <3>4. j \in 1..(Len(c.pending) - k)
      BY <3>1, <3>2, <3>3
    <3>5. q[j] = c.pending[k + j]
      BY <3>1, <3>4
    <3>6. k + j \in 1..Len(c.pending)
      BY <3>1, <3>2, <3>4
    <3> QED
      BY <3>2, <3>5, <3>6
  <2>2. l # i
    <3>1. certified.certificate # None
      BY <1>5, <1>8, <1>9, <1>10, <1>1, NoneAssumption DEF CertifiedCheckpoint, Lists
    <3> QED
      BY <1>1, <1>10, <1>12, <2>1, <3>1 DEF Certified
  <2>3. l \in DOMAIN p /\ q[j] = p[l] /\ p[l].local.anchor # n
    BY <1>1, <1>10, <2>1, <2>2
  <2>4. p[l].local.anchor \in Anchors
    BY <2>3, PendingEntry
  <2>5. EntryLists(p[l], ballots[p[l].local.anchor], subdag)
    BY <1>12, <2>3 DEF ProofsInv
  <2> QED
    BY <1>1, <1>2, <2>3, <2>4, <2>5
<1>13. ASSUME NEW m \in Anchors, certificates'[m] # None
       PROVE  CertificateLists(certificates'[m], ballots'[m])
  <2>1. CASE m = n
    <3>1. certificates'[m] = [checkpoint |-> v, proof |-> tallied.deliveredIn]
      BY <1>5, <1>11, <2>1
    <3> QED
      BY <1>1, <2>1, <3>1 DEF CertificateLists
  <2>2. CASE m # n
    <3>1. certificates'[m] = certificates[m] /\ ballots'[m] = ballots[m]
      BY <1>1, <1>11, <2>2
    <3> QED
      BY <1>13, <3>1 DEF ProofsInv
  <2> QED
    BY <2>1, <2>2
<1> QED
  BY <1>12, <1>13 DEF ProofsInv, q

(***************************************************************************)
(* For every committee and vote stream the proof of a certificate holds    *)
(* one entry for every supporter, the sub-dag that delivered its vote, in  *)
(* commit order (certifier.rs:24).                                         *)
(***************************************************************************)
THEOREM ProofsCorrect == Spec => []ProofsListDeliveries
<1>1. Init /\ TypeOK => ProofsInv
  <2> SUFFICES ASSUME Init, TypeOK PROVE ProofsInv
    OBVIOUS
  <2>1. certifier.pending = << >> /\ \A n \in Anchors : certificates[n] = None
    BY DEF Init, NewCertifier
  <2>2. DOMAIN certifier.pending = {}
    BY <2>1
  <2> QED
    BY <2>1, <2>2 DEF ProofsInv
<1>2. IInv /\ IInv' /\ ProofsInv /\ [Next]_vars => ProofsInv'
  <2> SUFFICES ASSUME IInv, IInv', ProofsInv, [Next]_vars PROVE ProofsInv'
    OBVIOUS
  <2>1. ASSUME NEW d \in Commitments, NEW t \in Timings, PushCheckpoint(d, t)
        PROVE  ProofsInv'
    BY <2>1, PushLists
  <2>2. CASE SkipSubdag
    BY <2>2, QuietLists DEF SkipSubdag
  <2>3. ASSUME NEW a \in Authorities, NEW v \in Checkpoint, RecordVote(a, v)
        PROVE  ProofsInv'
    <3>1. CASE ~Admissible(certifier, a, v)
      <4>1. ~FormsCertificate(certifier, subdag, a, v) /\ certifier' = certifier
        BY <2>3, <3>1 DEF FormsCertificate, RecordVote, Record
      <4>2. ballots' = ballots
        BY <2>3, <3>1, Admission DEF RecordVote
      <4>3. UNCHANGED <<certifier, history>> /\ subdag' = subdag
        BY <2>3, <4>1, <4>2 DEF RecordVote, Returned, history
      <4> QED
        BY <4>3, QuietLists
    <3>2. TypeOK'
      BY DEF IInv
    <3>3. CASE Admissible(certifier, a, v) /\ ~FormsCertificate(certifier, subdag, a, v)
      BY <2>3, <3>2, <3>3, CountLists
    <3>4. CASE Admissible(certifier, a, v) /\ FormsCertificate(certifier, subdag, a, v)
      BY <2>3, <3>2, <3>4, CertifyLists
    <3> QED
      BY <3>1, <3>3, <3>4
  <2>4. CASE UNCHANGED vars
    <3>1. UNCHANGED <<certifier, history>> /\ subdag' = subdag
      BY <2>4 DEF vars, history
    <3> QED
      BY <3>1, QuietLists
  <2> QED
    BY <2>1, <2>2, <2>3, <2>4 DEF Next
<1>3. IInv /\ ProofsInv => ProofsListDeliveries
  <2> SUFFICES ASSUME ProofsInv, NEW n \in Anchors, certificates[n] # None
               PROVE  LET proof == certificates[n].proof
                          supporters == Supporters(n, certificates[n].checkpoint.commitment)
                      IN  /\ \A s \in Anchors :
                                 Cardinality({i \in DOMAIN proof : proof[i] = s}) =
                                     Cardinality({a \in supporters : ballots[n][a].subdag = s})
                          /\ \A i, j \in DOMAIN proof : i < j => proof[i] <= proof[j]
    BY DEF ProofsListDeliveries
  <2> DEFINE proof == certificates[n].proof
             d == certificates[n].checkpoint.commitment
  <2>1. Lists(proof, ballots[n], d)
    BY DEF ProofsInv, CertificateLists
  <2>2. \A s \in Anchors :
           /\ {i \in DOMAIN proof : proof[i] = s} = Positions(proof, s)
           /\ {a \in Supporters(n, d) : ballots[n][a].subdag = s} = Backers(ballots[n], d, s)
    BY DEF Positions, Backers, Supporters
  <2> HIDE DEF proof, d
  <2>3. /\ \A s \in Anchors :
               Cardinality({i \in DOMAIN proof : proof[i] = s}) =
                   Cardinality({a \in Supporters(n, d) : ballots[n][a].subdag = s})
        /\ \A i, j \in DOMAIN proof : i < j => proof[i] <= proof[j]
    BY <2>1, <2>2 DEF Lists
  <2> QED
    BY <2>3 DEF proof, d
<1> QED
  BY <1>1, <1>2, <1>3, InductiveInvariant, TypeCorrect, PTL DEF Spec
=============================================================================
