---------------------------- MODULE HandleProofs ----------------------------
(***************************************************************************)
(* Proofs about Handle: what the driver publishes, and what a client that  *)
(* waited on it may conclude, for every commit stream, committee, capacity *)
(* of the channels and schedule of driver, replica and client.             *)
(***************************************************************************)
EXTENDS Handle, OperatorProofs

Pending == state.certifier.pending
Watermark == state.certifier.watermark

(***************************************************************************)
(* The parts of the inductive invariant.                                   *)
(***************************************************************************)
\* The driver counts what it received, and sends once per sub-dag.
Bounded ==
    /\ delivered + Len(stream) <= MaxSubdag
    /\ state.store <= delivered
    /\ driver = "replaying" => stream = << >> /\ waiter.at = "idle"
    /\ driver = "sending executed" => executed.version < delivered
    /\ driver \in {"sending executed", "sending certified"} => certified.version < delivered
    /\ \A m \in 1..Len(stream) : stream[m].effect \in StreamEffects

\* Outside of a sub-dag's execution the channels show what was executed.
Published ==
    /\ driver \in {"re-attesting", "receiving", "attesting", "stopped"} =>
           /\ executed.value = count
           /\ certified.value = CertificationStatus(state)
    /\ driver = "sending certified" => executed.value = count
    /\ driver = "stopped" => closed /\ stream = << >>

\* The n sub-dags executed so far were minted in their order, each with a commitment
\* of its own, and what is certified is what was minted.
InCommitOrder(s, n) ==
    LET p == s.certifier.pending
        w == s.certifier.watermark
    IN  /\ \A i, j \in 1..Len(p) :
               i < j => /\ p[i].local.anchor < p[j].local.anchor
                        /\ p[i].local.commitment < p[j].local.commitment
        /\ \A i \in 1..Len(p) : /\ p[i].local.anchor <= n
                                /\ p[i].local.commitment <= s.store
        /\ w # None =>
               /\ w.checkpoint.commitment <= s.store
               /\ \A i \in 1..Len(p) : w.checkpoint.commitment < p[i].local.commitment
        /\ Honest(s.certifier, {})

\* A vote in the stream is for a sub-dag before the one that delivers it, and agrees
\* with the checkpoint that is or will be minted here.
VotesOfStreamAgree(s, n, log) ==
    \A m \in 1..Len(log) : \A k \in 1..Len(log[m].votes) :
        LET vote == log[m].votes[k].checkpoint
            p == s.certifier.pending
        IN  /\ vote.anchor < n + m
            /\ \A i \in 1..Len(p) : p[i].local.anchor = vote.anchor => p[i].local = vote
            /\ \A j \in 1..Len(log) : vote.anchor = n + j =>
                   vote.commitment = s.store + CommitmentAfter(log, j)

VotesAgree == VotesOfStreamAgree(state, delivered, stream)

\* Between a sub-dag and its second send its own checkpoint may be pending behind the
\* client's back, and no earlier one.
CutInv ==
    /\ driver \in {"sending executed", "sending certified"} /\ EverythingCertified(certified.value) =>
           \A i \in 1..Len(Pending) : Pending[i].local.anchor = delivered
    /\ waiter.at \in {"reading certified", "awaiting certified", "returned"} =>
           waiter.target <= executed.value
    /\ delivered > 0 => counts[delivered] = count
    /\ CutLagsByOneSubdag
-----------------------------------------------------------------------------
(***************************************************************************)
(* One sub-dag that does not abort, whose votes agree with the window:     *)
(* order and agreement are kept, and each checkpoint left is an earlier    *)
(* one or the one minted (validator.rs:299-340).                           *)
(***************************************************************************)
LEMMA ExecutionInOrder ==
    ASSUME NEW s \in State, NEW n \in Anchors, NEW subdag \in CommittedSubDag,
           NEW timings \in Timings, subdag.effect # "aborts",
           s.store <= n - 1, 0..MaxSubdag \subseteq Commitments,
           InCommitOrder(s, n - 1),
           \A k \in 1..Len(subdag.votes) :
               /\ subdag.votes[k].checkpoint.anchor < n
               /\ \A i \in 1..Len(s.certifier.pending) :
                      s.certifier.pending[i].local.anchor = subdag.votes[k].checkpoint.anchor =>
                          s.certifier.pending[i].local = subdag.votes[k].checkpoint
    PROVE  LET after == ExecuteSubdag(s, n, subdag, timings).state
           IN  /\ InCommitOrder(after, n)
               /\ \A i \in 1..Len(after.certifier.pending) :
                      \/ \E j \in 1..Len(s.certifier.pending) :
                             after.certifier.pending[i].local = s.certifier.pending[j].local
                      \/ after.certifier.pending[i].local = [anchor |-> n, commitment |-> after.store]
<1> DEFINE after == ExecuteSubdag(s, n, subdag, timings).state
           minted == MintedInto(s, n, subdag, timings)
           p == s.certifier.pending
           q == minted.pending
           r == after.certifier.pending
           store == Commitment(s, subdag)
           one == IF Executes(subdag) THEN 1 ELSE 0
<1>1. /\ s.store \in Nat /\ n \in Nat /\ MaxSubdag \in Nat /\ n <= MaxSubdag
      /\ p \in Seq(PendingCheckpoint) /\ Len(p) \in Nat
      /\ s.certifier \in CheckpointCertifier
  <2>1. s.store \in Commitments /\ s.certifier \in CheckpointCertifier
    BY DEF State
  <2>2. s.store \in Nat
    BY <2>1, StateAssumption
  <2>3. p \in Seq(PendingCheckpoint)
    BY <2>1 DEF CheckpointCertifier
  <2>4. n \in Nat /\ MaxSubdag \in Nat /\ n <= MaxSubdag
    BY RoundAssumption DEF Anchors
  <2> QED
    BY <2>1, <2>2, <2>3, <2>4, LenProperties
<1>2. /\ store \in Nat /\ s.store <= store /\ store <= n
      /\ Executes(subdag) => s.store < store
      /\ store \in Commitments
  BY <1>1 DEF Commitment, Executes, CommittedSubDag, Effects
<1>3. \A i \in 1..Len(p) : /\ p[i] \in PendingCheckpoint
                           /\ p[i].local.anchor \in Nat /\ p[i].local.commitment \in Nat
  <2> TAKE i \in 1..Len(p)
  <2>1. p[i] \in PendingCheckpoint
    BY <1>1, ElementOfSeq
  <2>2. p[i].local \in Checkpoint
    BY <2>1 DEF PendingCheckpoint
  <2>3. p[i].local.anchor \in Anchors /\ p[i].local.commitment \in Commitments
    BY <2>2 DEF Checkpoint
  <2>4. p[i].local.anchor \in Nat /\ p[i].local.commitment \in Nat
    <3>1. Commitments \subseteq Nat
      BY StateAssumption
    <3>2. Anchors \subseteq Nat
      BY <1>1 DEF Anchors
    <3> QED
      BY <2>3, <3>1, <3>2
  <2> QED
    BY <2>1, <2>4
<1>4. /\ after \in State /\ after.store = store
  BY <1>2, ExecuteSubdagType
<1>5. /\ Len(q) = Len(p) + one
      /\ \A i \in 1..Len(p) : q[i].local = p[i].local
      /\ Executes(subdag) => q[Len(p) + 1].local = [anchor |-> n, commitment |-> store]
      /\ minted.watermark = s.certifier.watermark
  <2>1. CASE Executes(subdag)
    <3> DEFINE entry == [local        |-> [anchor |-> n, commitment |-> store],
                         timings      |-> timings,
                         accumulators |-> [e \in Commitments |-> EmptyAccumulator],
                         certificate  |-> None]
    <3>1. minted = [s.certifier EXCEPT !.pending = Append(p, entry)]
      BY <2>1 DEF MintedInto, Push
    <3>2. entry.local = [anchor |-> n, commitment |-> store]
      OBVIOUS
    <3> HIDE DEF entry
    <3>3. q = Append(p, entry) /\ minted.watermark = s.certifier.watermark
      BY <1>1, <3>1 DEF CheckpointCertifier
    <3>4. /\ Len(Append(p, entry)) = Len(p) + 1
          /\ \A i \in 1..Len(p) : Append(p, entry)[i] = p[i]
          /\ Append(p, entry)[Len(p) + 1] = entry
      BY <1>1
    <3> HIDE DEF p, q, minted, store
    <3> QED
      BY <2>1, <3>2, <3>3, <3>4
  <2>2. CASE ~Executes(subdag)
    BY <1>1, <2>2 DEF MintedInto
  <2> QED
    BY <2>1, <2>2
<1>6. Honest(s.certifier, {}) /\ NoQuorum({})
  <2>1. Honest(s.certifier, {})
    BY DEF InCommitOrder
  <2>2. Weight[{}] < Quorum /\ \A S \in SUBSET {} : S = {}
    BY WeightAssumption, QuorumAssumption
  <2> QED
    BY <2>1, <2>2 DEF NoQuorum
<1>7. /\ Len(q) \in Nat
       /\ \A i \in 1..Len(q) : i \in 1..Len(p) \/ (Executes(subdag) /\ i = Len(p) + 1)
  <2> HIDE DEF p, q
  <2> QED
    BY <1>1, <1>5
<1>8. \A k \in 1..Len(subdag.votes) :
          Agrees(minted, subdag.votes[k].author, subdag.votes[k].checkpoint, {})
  <2> TAKE k \in 1..Len(subdag.votes)
  <2> DEFINE v == subdag.votes[k].checkpoint
  <2>1. subdag.votes[k] \in Vote
    BY LenProperties, ElementOfSeq DEF CommittedSubDag
  <2>2. v.anchor < n /\ v.anchor \in Nat
    BY <2>1 DEF Vote, Checkpoint, Anchors
  <2>3. ASSUME NEW i \in 1..Len(q), q[i].local.anchor = v.anchor
        PROVE  q[i].local = v
    <3>1. CASE i \in 1..Len(p)
      BY <1>5, <2>3, <3>1
    <3>2. CASE i \notin 1..Len(p)
      <4>1. Executes(subdag) /\ i = Len(p) + 1
        BY <1>7, <3>2
      <4>2. q[i].local.anchor = n
        BY <1>5, <4>1
      <4> QED
        BY <1>1, <2>2, <2>3, <4>2
    <3> QED
      BY <3>1, <3>2
  <2> QED
    BY <2>3 DEF Agrees
<1>9. /\ Honest(after.certifier, {})
      /\ \E k : Drops(minted, after.certifier, k)
  BY <1>2, <1>6, <1>8, ExecuteSubdagHonest
<1>10. PICK k : Drops(minted, after.certifier, k)
  BY <1>9
<1>11. /\ k \in 0..Len(q) /\ Len(r) = Len(q) - k
       /\ \A i \in 1..Len(r) : r[i].local = q[k + i].local
       /\ k = 0 => after.certifier.watermark = s.certifier.watermark
       /\ k # 0 => after.certifier.watermark.checkpoint = q[k].local
  BY <1>5, <1>10 DEF Drops
<1>12. /\ \A i \in 1..Len(q) : /\ q[i].local.anchor \in Nat /\ q[i].local.anchor <= n
                               /\ q[i].local.commitment \in Nat
                               /\ q[i].local.commitment <= store
       /\ \A i, j \in 1..Len(q) : i < j => /\ q[i].local.anchor < q[j].local.anchor
                                           /\ q[i].local.commitment < q[j].local.commitment
  <2>1. ASSUME NEW i \in 1..Len(q)
        PROVE  \/ /\ i \in 1..Len(p) /\ q[i].local = p[i].local
                  /\ p[i].local.anchor <= n - 1 /\ p[i].local.commitment <= s.store
               \/ /\ Executes(subdag) /\ i = Len(p) + 1
                  /\ q[i].local.anchor = n /\ q[i].local.commitment = store
    <3>1. CASE i \in 1..Len(p)
      BY <1>5, <3>1 DEF InCommitOrder
    <3>2. CASE i \notin 1..Len(p)
      <4>1. Executes(subdag) /\ i = Len(p) + 1
        BY <1>7, <3>2
      <4> QED
        BY <1>5, <4>1
    <3> QED
      BY <3>1, <3>2
  <2>2. \A i, j \in 1..Len(p) : i < j => /\ p[i].local.anchor < p[j].local.anchor
                                         /\ p[i].local.commitment < p[j].local.commitment
    BY DEF InCommitOrder
  <2> HIDE DEF p, q, store, minted
  <2>3. \A i \in 1..Len(q) : /\ q[i].local.anchor \in Nat /\ q[i].local.anchor <= n
                             /\ q[i].local.commitment \in Nat
                             /\ q[i].local.commitment <= store
    <3> TAKE i \in 1..Len(q)
    <3>1. CASE i \in 1..Len(p) /\ q[i].local = p[i].local
               /\ p[i].local.anchor <= n - 1 /\ p[i].local.commitment <= s.store
      <4>1. p[i].local.anchor \in Nat /\ p[i].local.commitment \in Nat
        BY <1>3, <3>1
      <4> QED
        BY <1>1, <1>2, <3>1, <4>1
    <3>2. CASE q[i].local.anchor = n /\ q[i].local.commitment = store
      BY <1>1, <1>2, <3>2
    <3> QED
      BY <2>1, <3>1, <3>2
  <2>4. ASSUME NEW i \in 1..Len(q), NEW j \in 1..Len(q), i < j
        PROVE  /\ q[i].local.anchor < q[j].local.anchor
               /\ q[i].local.commitment < q[j].local.commitment
    <3>1. i \in 1..Len(p) /\ q[i].local = p[i].local
          /\ p[i].local.anchor <= n - 1 /\ p[i].local.commitment <= s.store
      BY <1>1, <1>5, <2>1, <2>4
    <3>2. CASE j \in 1..Len(p)
      <4>1. q[j].local = p[j].local
        BY <1>5, <3>2
      <4> QED
        BY <2>2, <2>4, <3>1, <3>2, <4>1
    <3>3. CASE j \notin 1..Len(p)
      <4>1. Executes(subdag) /\ q[j].local.anchor = n /\ q[j].local.commitment = store
        BY <2>1, <3>3
      <4> QED
        BY <1>1, <1>2, <1>3, <3>1, <4>1
    <3> QED
      BY <3>2, <3>3
  <2> QED
    BY <2>3, <2>4
<1>13. InCommitOrder(after, n)
  <2>0. Len(q) \in Nat /\ Len(r) \in Nat
    <3> HIDE DEF q, r
    <3> QED
      BY <1>11, <1>7
  <2>1. \A i, j \in 1..Len(r) : i < j => /\ r[i].local.anchor < r[j].local.anchor
                                         /\ r[i].local.commitment < r[j].local.commitment
    <3> HIDE DEF q, r
    <3> TAKE i, j \in 1..Len(r)
    <3>1. k + i \in 1..Len(q) /\ k + j \in 1..Len(q) /\ (i < j => k + i < k + j)
      BY <2>0, <1>11
    <3> QED
      BY <3>1, <1>11, <1>12
  <2>2. \A i \in 1..Len(r) : r[i].local.anchor <= n /\ r[i].local.commitment <= after.store
    <3> HIDE DEF q, r, after
    <3> TAKE i \in 1..Len(r)
    <3>1. k + i \in 1..Len(q)
      BY <2>0, <1>11
    <3> QED
      BY <3>1, <1>4, <1>11, <1>12
  <2>3. ASSUME after.certifier.watermark # None
        PROVE  LET w == after.certifier.watermark.checkpoint.commitment
               IN  w <= after.store /\ \A i \in 1..Len(r) : w < r[i].local.commitment
    <3>1. CASE k = 0
      <4>1. /\ s.certifier.watermark # None
            /\ after.certifier.watermark = s.certifier.watermark
        BY <1>11, <2>3, <3>1
      <4> DEFINE w == s.certifier.watermark.checkpoint.commitment
      <4>2. w <= s.store /\ \A i \in 1..Len(p) : w < p[i].local.commitment
        BY <4>1 DEF InCommitOrder
      <4>3. w \in Nat
        BY <1>1, <4>1, StateAssumption DEF CheckpointCertifier, CertifiedCheckpoint, Checkpoint
      <4> HIDE DEF w
      <4>4. w <= store
        BY <1>1, <1>2, <4>2, <4>3
      <4>5. ASSUME NEW i \in 1..Len(r) PROVE w < r[i].local.commitment
        <5>1. i \in 1..Len(q) /\ r[i].local = q[i].local
          <6> HIDE DEF q, r
          <6> QED
            BY <2>0, <1>11, <3>1
        <5>2. CASE i \in 1..Len(p)
          BY <1>5, <4>2, <5>1, <5>2
        <5>3. CASE i \notin 1..Len(p)
          <6>1. Executes(subdag) /\ i = Len(p) + 1
            BY <1>7, <5>1, <5>3
          <6>2. r[i].local.commitment = store
            BY <1>5, <5>1, <6>1, SMTT(40)
          <6> QED
            BY <1>1, <1>2, <4>2, <4>3, <6>1, <6>2
        <5> QED
          BY <5>2, <5>3
      <4> QED
        BY <1>4, <4>1, <4>4, <4>5 DEF w
    <3>2. CASE k # 0
      <4> DEFINE w == q[k].local.commitment
      <4>1. k \in 1..Len(q) /\ after.certifier.watermark.checkpoint.commitment = w
        BY <1>11, <2>0, <3>2
      <4>2. w <= store
        BY <1>12, <4>1
      <4>3. ASSUME NEW i \in 1..Len(r) PROVE w < r[i].local.commitment
        <5> HIDE DEF q, r
        <5>1. k + i \in 1..Len(q) /\ k < k + i
          BY <2>0, <1>11, <4>1
        <5> QED
          BY <5>1, <1>11, <1>12, <4>1
      <4> QED
        BY <1>4, <4>1, <4>2, <4>3
    <3> QED
      BY <3>1, <3>2
  <2> QED
    BY <1>9, <2>1, <2>2, <2>3 DEF InCommitOrder
<1>14. ASSUME NEW i \in 1..Len(r)
       PROVE  \/ \E j \in 1..Len(p) : r[i].local = p[j].local
              \/ r[i].local = [anchor |-> n, commitment |-> after.store]
  <2>1. k + i \in 1..Len(q) /\ r[i].local = q[k + i].local
    <3> HIDE DEF p, q, r
    <3> QED
      BY <1>1, <1>5, <1>11
  <2>2. CASE k + i \in 1..Len(p)
    BY <1>5, <2>1, <2>2
  <2>3. CASE k + i \notin 1..Len(p)
    <3>1. Executes(subdag) /\ k + i = Len(p) + 1
      BY <1>7, <2>1, <2>3
    <3> QED
      BY <1>4, <1>5, <2>1, <3>1
  <2> QED
    BY <2>2, <2>3
<1> QED
  BY <1>13, <1>14

(***************************************************************************)
(* The numbers and sequences of a well-formed state.                       *)
(***************************************************************************)
LEMMA Numbers ==
    ASSUME TypeOK, Bounded
    PROVE  /\ MaxSubdag \in Nat /\ delivered \in Nat /\ count \in Nat
           /\ state.store \in Nat /\ state.store <= delivered
           /\ Len(stream) \in Nat /\ delivered + Len(stream) <= MaxSubdag
           /\ DOMAIN stream = 1..Len(stream)
           /\ \A m \in 1..Len(stream) : stream[m] \in CommittedSubDag
           /\ state \in State /\ state.certifier \in CheckpointCertifier
           /\ Pending \in Seq(PendingCheckpoint) /\ Len(Pending) \in Nat
           /\ DOMAIN Pending = 1..Len(Pending)
<1>1. /\ MaxSubdag \in Nat /\ delivered \in Nat /\ count \in Nat
  <2>1. delivered \in 0..MaxSubdag /\ count \in Nat
    BY DEF TypeOK
  <2>2. MaxSubdag \in Nat
    BY RoundAssumption
  <2> QED
    BY <2>1, <2>2
<1>2. stream \in Seq(CommittedSubDag) /\ state \in State
  BY DEF TypeOK
<1>3. state.store \in Commitments /\ state.certifier \in CheckpointCertifier
  BY <1>2 DEF State
<1>4. state.store \in Nat
  BY <1>3, StateAssumption
<1>5. Pending \in Seq(PendingCheckpoint)
  BY <1>3 DEF CheckpointCertifier, Pending
<1> QED
  BY <1>1, <1>2, <1>3, <1>4, <1>5, LenProperties, ElementOfSeq DEF Bounded

(***************************************************************************)
(* A sub-dag adds what it executes to the count, which never decreases,    *)
(* and the history keeps the counts of the earlier ones                    *)
(* (validator.rs:193, 248).                                                *)
(***************************************************************************)
LEMMA CountsGrow ==
    ASSUME TypeOK, Bounded, NEW subdag, NEW transactions \in 1..MaxTransactions,
           CountUp(subdag, transactions)
    PROVE  /\ count' \in Nat /\ count <= count'
           /\ counts' \in [1..(delivered + 1) -> 0..count']
           /\ \A n \in 1..delivered : counts'[n] = counts[n]
           /\ counts'[delivered + 1] = count'
<1>1. delivered \in Nat /\ count \in Nat /\ counts \in [1..delivered -> 0..count]
  BY Numbers DEF TypeOK
<1>2. count' \in Nat /\ count <= count'
  <2>1. transactions \in Nat
    OBVIOUS
  <2>2. count' = count + transactions \/ count' = count
    BY <1>1 DEF CountUp
  <2> QED
    BY <1>1, <2>1, <2>2
<1>3. counts \in Seq(Nat) /\ Len(counts) = delivered
  BY <1>1
<1>4. counts' = Append(counts, count')
  BY DEF CountUp
<1>5. /\ counts' \in Seq(Nat) /\ Len(counts') = delivered + 1
      /\ \A n \in 1..delivered : counts'[n] = counts[n]
      /\ counts'[delivered + 1] = count'
  BY <1>2, <1>3, <1>4, AppendProperties
<1>6. ASSUME NEW n \in 1..(delivered + 1) PROVE counts'[n] \in 0..count'
  <2>1. n \in 1..delivered \/ n = delivered + 1
    BY <1>1
  <2>2. \A m \in 1..delivered : counts[m] \in 0..count
    BY <1>1
  <2> QED
    BY <1>1, <1>2, <1>5, <2>1, <2>2
<1> QED
  BY <1>2, <1>5, <1>6

\* The targets of a client are numbers.
LEMMA TargetsType == Targets \subseteq Nat /\ 0 \in Targets
<1>1. MaxSubdag \in Nat /\ MaxTransactions \in Nat
  BY RoundAssumption, StreamAssumption
<1>2. MaxSubdag * MaxTransactions \in Nat
  BY <1>1
<1> QED
  BY <1>2 DEF Targets

(***************************************************************************)
(* The checkpoints that a vote may be for: the pending ones, and those of  *)
(* the sub-dags in the stream.                                             *)
(***************************************************************************)
LEMMA AttestedInReach ==
    ASSUME TypeOK, Bounded, NEW c \in Attested
    PROVE  /\ c \in Checkpoint
           /\ \/ \E i \in 1..Len(Pending) : c = Pending[i].local
              \/ \E j \in 1..Len(stream) :
                     c = [anchor |-> delivered + j,
                          commitment |-> state.store + CommitmentAfter(stream, j)]
<1>1. /\ Pending \in Seq(PendingCheckpoint) /\ Len(Pending) \in Nat
      /\ DOMAIN Pending = 1..Len(Pending)
      /\ Len(stream) \in Nat /\ DOMAIN stream = 1..Len(stream)
      /\ delivered \in Nat /\ state.store \in Nat /\ MaxSubdag \in Nat
      /\ state.store <= delivered /\ delivered + Len(stream) <= MaxSubdag
  BY Numbers
<1>2. CASE c \in Range(Uncertified(state))
  <2>1. PICK i \in 1..Len(Pending) : c = Pending[i].local
    BY <1>1, <1>2 DEF Range, Uncertified, Pending
  <2>2. Pending[i] \in PendingCheckpoint
    BY <1>1, ElementOfSeq
  <2> QED
    BY <2>1, <2>2 DEF PendingCheckpoint
<1>3. CASE c \notin Range(Uncertified(state))
  <2>1. PICK j \in 1..Len(stream) :
            c = [anchor |-> delivered + j,
                 commitment |-> state.store + CommitmentAfter(stream, j)]
    BY <1>1, <1>3 DEF Attested
  <2>2. CommitmentAfter(stream, j) \in 0..j
    BY <1>1, CommitmentSteps
  <2>3. delivered + j \in Anchors /\ state.store + CommitmentAfter(stream, j) \in 0..MaxSubdag
    BY <1>1, <2>2 DEF Anchors
  <2> QED
    BY <2>1, <2>3, StreamAssumption DEF Checkpoint
<1> QED
  BY <1>2, <1>3

(***************************************************************************)
(* The votes of a sub-dag that is committed or replayed are well-formed,   *)
(* and for checkpoints in reach.                                           *)
(***************************************************************************)
LEMMA VotesInReachType ==
    ASSUME TypeOK, Bounded, NEW votes \in SeqOf(VotesInReach, MaxVotes)
    PROVE  /\ votes \in Seq(Vote) /\ Len(votes) \in Nat
           /\ \A k \in 1..Len(votes) : votes[k].checkpoint \in Attested
<1>1. PICK m \in 0..MaxVotes : votes \in [1..m -> VotesInReach]
  BY DEF SeqOf
<1>2. VotesInReach \subseteq Vote
  BY AttestedInReach DEF VotesInReach, Vote
<1>3. m \in Nat
  BY <1>1, StreamAssumption
<1>4. votes \in Seq(VotesInReach) /\ Len(votes) = m
  BY <1>1, <1>3
<1> QED
  BY <1>1, <1>2, <1>3, <1>4 DEF VotesInReach

(***************************************************************************)
(* Executing the next sub-dag keeps the state well-formed.                 *)
(***************************************************************************)
LEMMA NextSubdagType ==
    ASSUME TypeOK, Bounded, NEW subdag \in CommittedSubDag, NEW timings \in Timings,
           delivered < MaxSubdag
    PROVE  LET after == ExecuteSubdag(state, delivered + 1, subdag, timings).state
           IN  /\ delivered + 1 \in Anchors
               /\ after \in State
               /\ after.store = state.store + WritesOf(subdag)
               /\ after.store <= delivered + 1
<1>1. /\ delivered \in Nat /\ MaxSubdag \in Nat /\ state \in State
      /\ state.store \in Nat /\ state.store <= delivered
  BY Numbers
<1>2. /\ Commitment(state, subdag) = state.store + WritesOf(subdag)
      /\ Commitment(state, subdag) \in 0..MaxSubdag
      /\ Commitment(state, subdag) <= delivered + 1
  BY <1>1 DEF Commitment, WritesOf
<1>3. delivered + 1 \in Anchors /\ Commitment(state, subdag) \in Commitments
  BY <1>1, <1>2, StreamAssumption DEF Anchors
<1> QED
  BY <1>1, <1>2, <1>3, ExecuteSubdagType

(***************************************************************************)
(* What certification_status publishes is well-formed.                     *)
(***************************************************************************)
LEMMA StatusType ==
    ASSUME NEW s \in State
    PROVE  CertificationStatus(s) \in [certified : Commitments \cup {None}, store : Commitments]
BY DEF CertificationStatus, State, CheckpointCertifier, CertifiedCheckpoint, Checkpoint
-----------------------------------------------------------------------------
TypeInv == TypeOK /\ Bounded

(***************************************************************************)
(* The first states are well-formed.                                       *)
(***************************************************************************)
LEMMA InitType == Init => TypeInv
<1> SUFFICES ASSUME Init PROVE TypeInv
  OBVIOUS
<1>1. MaxSubdag \in Nat /\ 0 \in Commitments /\ QueueCapacity \in Nat /\ StreamCapacity \in Nat
  BY RoundAssumption, StateAssumption, StreamAssumption
<1>2. NewState \in State /\ NewState.store = 0
  BY <1>1, EmptySeq DEF NewState, NewCertifier, State, CheckpointCertifier
<1>3. CertificationStatus(NewState) \in [certified : Commitments \cup {None}, store : Commitments]
  BY <1>2, StatusType
<1>4. stream \in Seq(CommittedSubDag) /\ Len(stream) = 0
  BY EmptySeq DEF Init
<1>5. TypeOK
  <2>1. /\ delivered \in 0..MaxSubdag /\ count \in Nat /\ queued \in 0..QueueCapacity
        /\ Len(stream) <= StreamCapacity
    BY <1>1, <1>4 DEF Init
  <2>5. counts \in [1..delivered -> 0..count]
    BY EmptySeq DEF Init
  <2>2. executed \in [value : 0..count, version : 0..delivered]
    BY DEF Init, Channel
  <2>3. certified \in [value : [certified : Commitments \cup {None}, store : Commitments],
                       version : 0..delivered]
    BY <1>3 DEF Init, Channel
  <2>4. waiter \in [at : {"idle", "reading executed", "awaiting executed",
                          "reading certified", "awaiting certified",
                          "returned", "returned early"},
                    target : Targets,
                    seenExecuted : 0..delivered, seenCertified : 0..delivered]
    BY <1>1, TargetsType DEF Init
  <2> QED
    BY <1>2, <1>4, <2>1, <2>2, <2>3, <2>4, <2>5 DEF Init, TypeOK
<1>6. Bounded
  BY <1>1, <1>2, <1>4 DEF Init, Bounded
<1> QED
  BY <1>5, <1>6 DEF TypeInv

(***************************************************************************)
(* A step of the start or of the driver's loop keeps the state well-formed *)
(* (validator.rs:150-205).                                                 *)
(***************************************************************************)
LEMMA DriverType ==
    ASSUME TypeInv, ReplaySome \/ Start \/ Drive
    PROVE  TypeInv'
<1>0. TypeOK /\ Bounded
  BY DEF TypeInv
<1>1. /\ MaxSubdag \in Nat /\ delivered \in Nat /\ count \in Nat
      /\ Len(stream) \in Nat /\ delivered + Len(stream) <= MaxSubdag
  BY <1>0, Numbers
<1>2. stream \in Seq(CommittedSubDag) /\ Len(stream) <= StreamCapacity /\ StreamCapacity \in Nat
  BY <1>0, StreamAssumption DEF TypeOK
<1>14. state \in State
  BY <1>0 DEF TypeOK
<1>3. /\ executed \in [value : 0..count, version : 0..delivered]
      /\ certified \in [value : [certified : Commitments \cup {None}, store : Commitments],
                        version : 0..delivered]
      /\ waiter \in [at : {"idle", "reading executed", "awaiting executed",
                           "reading certified", "awaiting certified",
                           "returned", "returned early"},
                     target : Targets,
                     seenExecuted : 0..delivered, seenCertified : 0..delivered]
  BY <1>0 DEF TypeOK
<1>4. queued \in 0..QueueCapacity /\ closed \in BOOLEAN
  BY <1>0 DEF TypeOK
<1>5. QueueCapacity \in Nat /\ MaxReplayed \in 0..MaxSubdag
  BY StreamAssumption
<1>6. CertificationStatus(state) \in [certified : Commitments \cup {None}, store : Commitments]
  BY <1>14, StatusType
<1>7. CASE ReplaySome
  <2>1. PICK effect \in StreamEffects, votes \in SeqOf(VotesInReach, MaxVotes),
            transactions \in 1..MaxTransactions : Replay(effect, votes, transactions)
    BY <1>7 DEF ReplaySome
  <2> DEFINE subdag == [effect |-> effect, votes |-> votes]
             after == ExecuteSubdag(state, delivered + 1, subdag, "replayed").state
  <2>2. /\ driver = "replaying" /\ delivered < MaxReplayed
        /\ state' = after
        /\ CountUp(subdag, transactions)
        /\ delivered' = delivered + 1
        /\ UNCHANGED <<stream, queued, closed, driver, executed, certified, waiter>>
    BY <2>1 DEF Replay, channels
  <2>3. subdag \in CommittedSubDag /\ delivered < MaxSubdag
    BY <1>0, <1>1, <1>5, <2>2, VotesInReachType, StreamAssumption DEF CommittedSubDag
  <2>4. after \in State /\ after.store <= delivered + 1
    <3>1. "replayed" \in Timings
      BY StateAssumption
    <3> HIDE DEF subdag
    <3> QED
      BY <1>0, <2>3, <3>1, NextSubdagType
  <2>5. stream = << >> /\ waiter.at = "idle" /\ Len(stream) = 0
    BY <1>0, <2>2 DEF Bounded
  <2>6. /\ count' \in Nat /\ delivered' \in 0..MaxSubdag /\ count <= count'
        /\ counts' \in [1..delivered' -> 0..count']
    BY <1>0, <1>1, <2>2, <2>3, CountsGrow
  <2> HIDE DEF after, subdag
  <2>7. /\ executed' \in [value : 0..count', version : 0..delivered']
        /\ certified' \in [value : [certified : Commitments \cup {None}, store : Commitments],
                           version : 0..delivered']
        /\ waiter' \in [at : {"idle", "reading executed", "awaiting executed",
                              "reading certified", "awaiting certified",
                              "returned", "returned early"},
                        target : Targets,
                        seenExecuted : 0..delivered', seenCertified : 0..delivered']
    <3>1. 0..count \subseteq 0..count' /\ 0..delivered \subseteq 0..delivered'
      BY <1>1, <2>2, <2>6
    <3> QED
      BY <1>3, <2>2, <3>1
  <2>8. TypeOK'
    BY <1>2, <1>4, <2>2, <2>4, <2>6, <2>7 DEF TypeOK
  <2>9. Bounded'
    BY <1>0, <1>1, <2>2, <2>3, <2>4, <2>5 DEF Bounded
  <2> QED
    BY <2>8, <2>9 DEF TypeInv
<1>8. CASE Start
  <2>1. executed' \in [value : 0..count, version : 0..delivered]
    BY <1>1, <1>8 DEF Start, Channel
  <2>2. certified' \in [value : [certified : Commitments \cup {None}, store : Commitments],
                        version : 0..delivered]
    BY <1>1, <1>6, <1>8 DEF Start, Channel
  <2>3. driver' \in {"re-attesting", "receiving"}
    BY <1>8 DEF Start
  <2> QED
    BY <1>0, <1>8, <2>1, <2>2, <2>3 DEF Start, execution, TypeOK, Bounded, TypeInv
<1>9. CASE ExecuteSome
  <2>12. PICK transactions \in 1..MaxTransactions : Execute(transactions)
    BY <1>9 DEF ExecuteSome
  <2> DEFINE subdag == Head(stream)
             after == ExecuteSubdag(state, delivered + 1, subdag, "live").state
  <2>1. /\ driver = "receiving" /\ stream # << >> /\ driver' = "sending executed"
        /\ stream' = Tail(stream)
        /\ state' = after
        /\ CountUp(subdag, transactions)
        /\ delivered' = delivered + 1
        /\ UNCHANGED <<queued, closed, executed, certified, waiter>>
    BY <2>12 DEF Execute, channels
  <2>2. /\ Len(stream) >= 1 /\ subdag = stream[1] /\ subdag \in CommittedSubDag
        /\ Tail(stream) \in Seq(CommittedSubDag) /\ Len(Tail(stream)) = Len(stream) - 1
        /\ \A m \in 1..(Len(stream) - 1) : Tail(stream)[m] = stream[m + 1]
    BY <1>2, <2>1, HeadAndTail
  <2>3. after \in State /\ after.store <= delivered + 1 /\ delivered < MaxSubdag
    <3>1. "live" \in Timings /\ delivered < MaxSubdag
      BY <1>1, <2>2, StateAssumption
    <3> HIDE DEF subdag
    <3> QED
      BY <1>0, <2>2, <3>1, NextSubdagType
  <2> HIDE DEF after, subdag
  <2>10. delivered' = delivered + 1 /\ Len(stream') = Len(stream) - 1
    BY <2>1, <2>2
  <2>4. /\ count' \in Nat /\ delivered' \in 0..MaxSubdag /\ count <= count'
        /\ counts' \in [1..delivered' -> 0..count']
    <3>1. delivered' \in 0..MaxSubdag
      BY <1>1, <2>3, <2>10
    <3>2. CountUp(subdag, transactions)
      BY <2>1
    <3> QED
      BY <1>0, <2>10, <3>1, <3>2, CountsGrow
  <2>5. /\ executed' \in [value : 0..count', version : 0..delivered']
        /\ certified' \in [value : [certified : Commitments \cup {None}, store : Commitments],
                           version : 0..delivered']
        /\ waiter' \in [at : {"idle", "reading executed", "awaiting executed",
                              "reading certified", "awaiting certified",
                              "returned", "returned early"},
                        target : Targets,
                        seenExecuted : 0..delivered', seenCertified : 0..delivered']
    <3>1. 0..count \subseteq 0..count' /\ 0..delivered \subseteq 0..delivered'
      BY <1>1, <2>4, <2>10
    <3> QED
      BY <1>3, <2>1, <3>1
  <2>6. Len(stream') <= StreamCapacity
    BY <1>1, <1>2, <2>10
  <2>7. TypeOK'
    BY <1>4, <2>1, <2>2, <2>3, <2>4, <2>5, <2>6 DEF TypeOK
  <2>8. Bounded'
    <3>1. executed.version \in 0..delivered /\ certified.version \in 0..delivered
      BY <1>3
    <3>2. \A m \in 1..Len(stream') : stream'[m].effect \in StreamEffects
      <4>1. \A m \in 1..Len(stream') : m + 1 \in 1..Len(stream)
        BY <1>1, <2>10
      <4> QED
        BY <1>0, <2>1, <2>2, <4>1 DEF Bounded
    <3>3. delivered' + Len(stream') <= MaxSubdag
      BY <1>1, <2>10
    <3>4. executed'.version < delivered' /\ certified'.version < delivered'
      <4>1. executed' = executed /\ certified' = certified
        BY <2>1
      <4> QED
        BY <1>1, <2>10, <3>1, <4>1
    <3>5. state'.store <= delivered' /\ driver' = "sending executed"
      BY <2>1, <2>3
    <3> QED
      BY <3>2, <3>3, <3>4, <3>5 DEF Bounded
  <2> QED
    BY <2>7, <2>8 DEF TypeInv
<1>10. CASE SendExecuted
  <2>1. executed.version < delivered /\ executed.version \in 0..delivered
    BY <1>0, <1>3, <1>10 DEF Bounded, SendExecuted
  <2>2. executed' \in [value : 0..count, version : 0..delivered]
    <3>1. executed.version + 1 \in 0..delivered /\ count \in 0..count
      BY <1>1, <2>1
    <3> QED
      BY <1>10, <3>1 DEF SendExecuted, Send
  <2> QED
    BY <1>0, <1>10, <2>2 DEF SendExecuted, execution, TypeOK, Bounded, TypeInv
<1>11. CASE SendCertified
  <2>1. certified.version < delivered /\ certified.version \in 0..delivered
    BY <1>0, <1>3, <1>11 DEF Bounded, SendCertified
  <2>2. certified' \in [value : [certified : Commitments \cup {None}, store : Commitments],
                        version : 0..delivered]
    <3>1. certified.version + 1 \in 0..delivered
      BY <1>1, <2>1
    <3> QED
      BY <1>6, <1>11, <3>1 DEF SendCertified, Send
  <2>3. driver' \in {"attesting", "receiving"}
    BY <1>11 DEF SendCertified
  <2> QED
    BY <1>0, <1>11, <2>2, <2>3 DEF SendCertified, execution, TypeOK, Bounded, TypeInv
<1>12. CASE SubmitAttestations
  <2>1. queued' \in 0..QueueCapacity
    BY <1>4, <1>5, <1>12 DEF SubmitAttestations
  <2> QED
    BY <1>0, <1>12, <2>1 DEF SubmitAttestations, execution, channels, TypeOK, Bounded, TypeInv
<1>13. CASE StopDriver
  BY <1>0, <1>13 DEF StopDriver, execution, channels, TypeOK, Bounded, TypeInv
<1> QED
  BY <1>7, <1>8, <1>9, <1>10, <1>11, <1>12, <1>13 DEF Drive

(***************************************************************************)
(* A step of the replica or of a client keeps the state well-formed        *)
(* (validator.rs:370-441).                                                 *)
(***************************************************************************)
LEMMA ReplicaAndClientType ==
    ASSUME TypeInv,
           CommitSome \/ TakeBatch \/ StopReplica \/ SubmitTransactions \/ CallSome \/ Wait
    PROVE  TypeInv'
<1>0. TypeOK /\ Bounded
  BY DEF TypeInv
<1>1. /\ MaxSubdag \in Nat /\ delivered \in Nat /\ count \in Nat
      /\ Len(stream) \in Nat /\ delivered + Len(stream) <= MaxSubdag
      /\ stream \in Seq(CommittedSubDag)
  BY <1>0, Numbers DEF TypeOK
<1>2. queued \in 0..QueueCapacity /\ QueueCapacity \in Nat /\ StreamCapacity \in Nat
  BY <1>0, StreamAssumption DEF TypeOK
<1>3. /\ executed.version \in 0..delivered /\ certified.version \in 0..delivered
      /\ waiter \in [at : {"idle", "reading executed", "awaiting executed",
                           "reading certified", "awaiting certified",
                           "returned", "returned early"},
                     target : Targets,
                     seenExecuted : 0..delivered, seenCertified : 0..delivered]
  BY <1>0 DEF TypeOK
<1>4. CASE CommitSome
  <2>1. PICK effect \in StreamEffects, votes \in SeqOf(VotesInReach, MaxVotes) :
            Commit(effect, votes)
    BY <1>4 DEF CommitSome
  <2> DEFINE subdag == [effect |-> effect, votes |-> votes]
  <2>2. /\ driver # "replaying" /\ Len(stream) < StreamCapacity
        /\ delivered + Len(stream) < MaxSubdag
        /\ stream' = Append(stream, subdag)
        /\ UNCHANGED <<queued, closed, delivered, state, count, counts, driver, executed, certified,
                       waiter>>
    BY <2>1 DEF Commit, Started, execution, channels
  <2>3. subdag \in CommittedSubDag /\ subdag.effect \in StreamEffects
    BY <1>0, VotesInReachType, StreamAssumption DEF CommittedSubDag
  <2> HIDE DEF subdag
  <2>4. /\ stream' \in Seq(CommittedSubDag) /\ Len(stream') = Len(stream) + 1
        /\ \A m \in 1..Len(stream) : stream'[m] = stream[m]
        /\ stream'[Len(stream) + 1] = subdag
    BY <1>1, <2>2, <2>3, AppendProperties
  <2>5. \A m \in 1..Len(stream') : stream'[m].effect \in StreamEffects
    <3> TAKE m \in 1..Len(stream')
    <3>1. m \in 1..Len(stream) \/ m = Len(stream) + 1
      BY <1>1, <2>4
    <3> QED
      BY <1>0, <2>3, <2>4, <3>1 DEF Bounded
  <2>6. Len(stream') <= StreamCapacity /\ delivered' + Len(stream') <= MaxSubdag
    BY <1>1, <1>2, <2>2, <2>4
  <2> QED
    BY <1>0, <2>2, <2>4, <2>5, <2>6 DEF TypeOK, Bounded, TypeInv
<1>5. CASE TakeBatch
  <2>1. queued' \in 0..QueueCapacity
    BY <1>2, <1>5 DEF TakeBatch
  <2> QED
    BY <1>0, <1>5, <2>1 DEF TakeBatch, execution, channels, TypeOK, Bounded, TypeInv
<1>6. CASE StopReplica
  BY <1>0, <1>6 DEF StopReplica, execution, channels, TypeOK, Bounded, TypeInv
<1>7. CASE SubmitTransactions
  <2>1. queued' \in 0..QueueCapacity
    BY <1>2, <1>7 DEF SubmitTransactions
  <2> QED
    BY <1>0, <1>7, <2>1 DEF SubmitTransactions, execution, channels, TypeOK, Bounded, TypeInv
<1>8. CASE CallSome \/ Wait
  <2>1. UNCHANGED <<stream, queued, closed, delivered, state, count, counts, driver, executed,
                   certified>>
    BY <1>8 DEF CallSome, Wait, execution, channels
  <2>2. waiter' \in [at : {"idle", "reading executed", "awaiting executed",
                           "reading certified", "awaiting certified",
                           "returned", "returned early"},
                     target : Targets,
                     seenExecuted : 0..delivered, seenCertified : 0..delivered]
    BY <1>3, <1>8 DEF CallSome, Call, Wait, ReadExecuted, AwaitExecuted, ReadCertified,
                      AwaitCertified, At, Goto
  <2>3. waiter'.at = "idle" \/ driver # "replaying"
    <3>1. CASE CallSome
      BY <3>1 DEF CallSome, Call, Started
    <3>2. CASE Wait
      <4>1. waiter.at # "idle"
        BY <3>2 DEF Wait, ReadExecuted, AwaitExecuted, ReadCertified, AwaitCertified, At
      <4> QED
        BY <1>0, <4>1 DEF Bounded
    <3> QED
      BY <1>8, <3>1, <3>2
  <2> QED
    BY <1>0, <2>1, <2>2, <2>3 DEF TypeOK, Bounded, TypeInv
<1> QED
  BY <1>4, <1>5, <1>6, <1>7, <1>8

(***************************************************************************)
(* Every state is well-formed, and the counts and versions are bounded by  *)
(* the number of sub-dags received.                                        *)
(***************************************************************************)
LEMMA TypeInvariant == Spec => []TypeInv
<1>1. TypeInv /\ [Next]_vars => TypeInv'
  <2>1. TypeInv /\ UNCHANGED vars => TypeInv'
    BY DEF vars, TypeInv, TypeOK, Bounded
  <2> QED
    BY <2>1, DriverType, ReplicaAndClientType DEF Next
<1> QED
  BY <1>1, InitType, PTL DEF Spec

(***************************************************************************)
(* The driver, its channels and the client are in well-formed states.      *)
(***************************************************************************)
THEOREM HandleType == Spec => []TypeOK
<1>1. TypeInv => TypeOK
  BY DEF TypeInv
<1> QED
  BY <1>1, TypeInvariant, PTL
-----------------------------------------------------------------------------
(***************************************************************************)
(* Whenever the driver has published a sub-dag's result, both channels     *)
(* show what it executed (validator.rs:150-205).                           *)
(***************************************************************************)
LEMMA PublishedInvariant == Spec => []Published
<1>1. Init => Published
  BY DEF Init, Published
<1>2. Published /\ [Next]_vars => Published'
  <2> SUFFICES ASSUME Published, [Next]_vars PROVE Published'
    OBVIOUS
  <2> USE DEF Published
  <2>1. CASE ReplaySome
    BY <2>1 DEF ReplaySome, Replay
  <2>2. CASE Start
    BY <2>2 DEF Start, Channel, execution
  <2>3. CASE ExecuteSome
    BY <2>3 DEF ExecuteSome, Execute
  <2>4. CASE SendExecuted
    BY <2>4 DEF SendExecuted, Send, execution
  <2>5. CASE SendCertified
    BY <2>5 DEF SendCertified, Send, execution
  <2>6. CASE SubmitAttestations
    BY <2>6 DEF SubmitAttestations, Attesting, execution, channels
  <2>7. CASE StopDriver
    BY <2>7 DEF StopDriver, StreamEnds, execution, channels
  <2>8. CASE CommitSome
    BY <2>8 DEF CommitSome, Commit, execution, channels
  <2>9. CASE TakeBatch
    BY <2>9 DEF TakeBatch, execution, channels
  <2>10. CASE StopReplica
    BY <2>10 DEF StopReplica, execution, channels
  <2>11. CASE SubmitTransactions
    BY <2>11 DEF SubmitTransactions, execution, channels
  <2>12. CASE CallSome \/ Wait
    BY <2>12 DEF CallSome, Wait, execution, channels
  <2>13. CASE UNCHANGED vars
    BY <2>13 DEF vars
  <2> QED
    BY <2>1, <2>2, <2>3, <2>4, <2>5, <2>6, <2>7, <2>8, <2>9, <2>10, <2>11, <2>12, <2>13
       DEF Next, Drive
<1> QED
  BY <1>1, <1>2, PTL DEF Spec

(***************************************************************************)
(* A driver that stopped has executed every commit the replica handed over *)
(* and published the result (validator.rs:434-441).                        *)
(***************************************************************************)
THEOREM HandleStopsDrained == Spec => []StopsDrained
<1>1. Published => StopsDrained
  BY DEF Published, StopsDrained
<1> QED
  BY <1>1, PublishedInvariant, PTL
-----------------------------------------------------------------------------
OrderInv == InCommitOrder(state, delivered) /\ VotesAgree

(***************************************************************************)
(* A vote for a checkpoint in reach is for one of an executed sub-dag or   *)
(* of one in the stream, and agrees with it: no two pending checkpoints    *)
(* share an anchor.                                                        *)
(***************************************************************************)
LEMMA AttestedAgrees ==
    ASSUME TypeInv, InCommitOrder(state, delivered), NEW c \in Attested
    PROVE  /\ c.anchor <= delivered + Len(stream)
           /\ \A i \in 1..Len(Pending) : Pending[i].local.anchor = c.anchor =>
                  Pending[i].local = c
           /\ \A j \in 1..Len(stream) : c.anchor = delivered + j =>
                  c.commitment = state.store + CommitmentAfter(stream, j)
<1>1. /\ Pending \in Seq(PendingCheckpoint) /\ Len(Pending) \in Nat
      /\ delivered \in Nat /\ Len(stream) \in Nat
  BY Numbers DEF TypeInv
<1>2. \A i \in 1..Len(Pending) :
          Pending[i].local.anchor \in Nat /\ Pending[i].local.anchor <= delivered
  <2> TAKE i \in 1..Len(Pending)
  <2>1. Pending[i] \in PendingCheckpoint
    BY <1>1, ElementOfSeq
  <2>2. Pending[i].local.anchor \in Anchors
    BY <2>1 DEF PendingCheckpoint, Checkpoint
  <2> QED
    BY <2>2, RoundAssumption DEF Anchors, InCommitOrder, Pending
<1>3. \A i, j \in 1..Len(Pending) : i < j => Pending[i].local.anchor < Pending[j].local.anchor
  BY DEF InCommitOrder, Pending
<1>4. CASE \E i \in 1..Len(Pending) : c = Pending[i].local
  <2>1. PICK i \in 1..Len(Pending) : c = Pending[i].local
    BY <1>4
  <2>2. c.anchor \in Nat /\ c.anchor <= delivered
    BY <1>2, <2>1
  <2>3. ASSUME NEW j \in 1..Len(Pending), Pending[j].local.anchor = c.anchor
        PROVE  j = i
    <3>1. ~(i < j) /\ ~(j < i)
      BY <1>2, <1>3, <2>1, <2>3
    <3> QED
      BY <1>1, <3>1
  <2>4. c.anchor <= delivered + Len(stream) /\ \A j \in 1..Len(stream) : c.anchor # delivered + j
    BY <1>1, <2>2
  <2> QED
    BY <2>1, <2>3, <2>4
<1>5. CASE \E j \in 1..Len(stream) : c = [anchor |-> delivered + j,
                                         commitment |-> state.store + CommitmentAfter(stream, j)]
  <2>1. PICK j \in 1..Len(stream) :
            /\ c.anchor = delivered + j
            /\ c.commitment = state.store + CommitmentAfter(stream, j)
    BY <1>5
  <2>2. c.anchor <= delivered + Len(stream) /\ c.anchor > delivered
        /\ \A i \in 1..Len(stream) : c.anchor = delivered + i => i = j
    BY <1>1, <2>1
  <2>3. \A i \in 1..Len(Pending) : Pending[i].local.anchor # c.anchor
    BY <1>1, <1>2, <2>1, <2>2
  <2> QED
    BY <2>1, <2>2, <2>3
<1> QED
  BY <1>4, <1>5, AttestedInReach DEF TypeInv

\* A checkpoint of the window, or that of the n-th sub-dag.
FromWindowOr(checkpoint, n) ==
    \/ \E j \in 1..Len(Pending) : checkpoint = Pending[j].local
    \/ checkpoint.anchor = n

\* The votes of a sub-dag executed next.
VotesMatch(subdag) ==
    \A k \in 1..Len(subdag.votes) :
        /\ subdag.votes[k].checkpoint.anchor <= delivered
        /\ \A i \in 1..Len(Pending) :
               Pending[i].local.anchor = subdag.votes[k].checkpoint.anchor =>
                   Pending[i].local = subdag.votes[k].checkpoint

\* The next sub-dag is the first of the stream, or replayed before there is one.
NextOf(subdag, rest) ==
    /\ rest \in Seq(CommittedSubDag)
    /\ \/ Len(rest) = 0
       \/ /\ Len(stream) = Len(rest) + 1
          /\ subdag = stream[1]
          /\ \A m \in 1..Len(rest) : rest[m] = stream[m + 1]

(***************************************************************************)
(* Executing a sub-dag, from the WAL or from the stream, keeps the order   *)
(* and the agreement of the votes still in the stream.                     *)
(***************************************************************************)
LEMMA ExecutionKeepsOrder ==
    ASSUME TypeInv, OrderInv, "aborts" \notin StreamEffects,
           NEW subdag \in CommittedSubDag, subdag.effect \in StreamEffects,
           NEW timings \in Timings, delivered < MaxSubdag,
           NEW rest, NextOf(subdag, rest), VotesMatch(subdag)
    PROVE  LET after == ExecuteSubdag(state, delivered + 1, subdag, timings).state
           IN  /\ InCommitOrder(after, delivered + 1)
               /\ \A i \in 1..Len(after.certifier.pending) :
                      FromWindowOr(after.certifier.pending[i].local, delivered + 1)
               /\ VotesOfStreamAgree(after, delivered + 1, rest)
<1> DEFINE after == ExecuteSubdag(state, delivered + 1, subdag, timings).state
           r == after.certifier.pending
<1>1. /\ MaxSubdag \in Nat /\ delivered \in Nat /\ state.store \in Nat
      /\ state.store <= delivered /\ Len(stream) \in Nat
  BY Numbers DEF TypeInv
<1>2. state \in State /\ stream \in Seq(CommittedSubDag)
  BY DEF TypeInv, TypeOK
<1>3. delivered + 1 \in Anchors /\ delivered + 1 - 1 = delivered /\ Len(rest) \in Nat
      /\ after.store = state.store + WritesOf(subdag)
  BY <1>1, LenProperties, NextSubdagType DEF TypeInv, NextOf
<1>4. subdag.effect # "aborts" /\ 0..MaxSubdag \subseteq Commitments
  BY StreamAssumption
<1>5. \A k \in 1..Len(subdag.votes) :
          /\ subdag.votes[k].checkpoint.anchor < delivered + 1
          /\ \A i \in 1..Len(state.certifier.pending) :
                 state.certifier.pending[i].local.anchor = subdag.votes[k].checkpoint.anchor =>
                     state.certifier.pending[i].local = subdag.votes[k].checkpoint
  <2> TAKE k \in 1..Len(subdag.votes)
  <2>1. subdag.votes[k] \in Vote
    BY LenProperties, ElementOfSeq DEF CommittedSubDag
  <2>2. subdag.votes[k].checkpoint.anchor \in Nat
    BY <2>1 DEF Vote, Checkpoint, Anchors
  <2>3. subdag.votes[k].checkpoint.anchor < delivered + 1
    BY <1>1, <2>2 DEF VotesMatch
  <2> QED
    BY <2>3 DEF Pending, VotesMatch
<1>6. /\ InCommitOrder(after, delivered + 1)
      /\ \A i \in 1..Len(r) :
             \/ \E j \in 1..Len(Pending) : r[i].local = Pending[j].local
             \/ r[i].local = [anchor |-> delivered + 1, commitment |-> after.store]
  <2>2. PICK n \in Anchors : n = delivered + 1
    BY <1>3
  <2>3. \A k \in 1..Len(subdag.votes) :
            /\ subdag.votes[k].checkpoint.anchor < n
            /\ \A i \in 1..Len(state.certifier.pending) :
                   state.certifier.pending[i].local.anchor = subdag.votes[k].checkpoint.anchor =>
                       state.certifier.pending[i].local = subdag.votes[k].checkpoint
    BY <1>5, <2>2
  <2>4. InCommitOrder(state, n - 1) /\ state.store <= n - 1
    <3>1. n - 1 = delivered
      BY <1>1, <2>2
    <3>2. InCommitOrder(state, delivered) /\ state.store <= delivered
      BY <1>1 DEF OrderInv
    <3> QED
      BY <3>1, <3>2
  <2>5. LET later == ExecuteSubdag(state, n, subdag, timings).state
        IN  /\ InCommitOrder(later, n)
            /\ \A i \in 1..Len(later.certifier.pending) :
                   \/ \E j \in 1..Len(state.certifier.pending) :
                          later.certifier.pending[i].local = state.certifier.pending[j].local
                   \/ later.certifier.pending[i].local = [anchor |-> n, commitment |-> later.store]
    BY <1>2, <1>4, <2>3, <2>4, ExecutionInOrder
  <2> QED
    BY <2>2, <2>5 DEF Pending
<1> HIDE DEF after
<1>7. ASSUME NEW m \in 1..Len(rest), NEW k \in 1..Len(rest[m].votes)
      PROVE  LET vote == rest[m].votes[k].checkpoint
             IN  /\ vote.anchor < delivered + 1 + m
                 /\ \A i \in 1..Len(r) : r[i].local.anchor = vote.anchor => r[i].local = vote
                 /\ \A j \in 1..Len(rest) : vote.anchor = delivered + 1 + j =>
                        vote.commitment = after.store + CommitmentAfter(rest, j)
  <2> DEFINE vote == rest[m].votes[k].checkpoint
  <2>1. /\ Len(stream) = Len(rest) + 1 /\ m + 1 \in 1..Len(stream) /\ rest[m] = stream[m + 1]
        /\ subdag = stream[1] /\ \A l \in 1..Len(rest) : rest[l] = stream[l + 1]
    <3>1. Len(rest) # 0
      BY <1>3
    <3>2. /\ Len(stream) = Len(rest) + 1 /\ subdag = stream[1]
          /\ \A l \in 1..Len(rest) : rest[l] = stream[l + 1]
      BY <3>1 DEF NextOf
    <3> QED
      BY <1>1, <1>3, <3>2
  <2>2. vote \in Checkpoint
    <3>1. rest[m] \in CommittedSubDag
      BY ElementOfSeq DEF NextOf
    <3>2. rest[m].votes[k] \in Vote
      BY <3>1, LenProperties, ElementOfSeq DEF CommittedSubDag
    <3> QED
      BY <3>2 DEF Vote
  <2> HIDE DEF vote
  <2>3. /\ vote.anchor < delivered + (m + 1)
        /\ \A i \in 1..Len(Pending) : Pending[i].local.anchor = vote.anchor =>
               Pending[i].local = vote
        /\ \A j \in 1..Len(stream) : vote.anchor = delivered + j =>
               vote.commitment = state.store + CommitmentAfter(stream, j)
    <3>1. VotesOfStreamAgree(state, delivered, stream)
      BY DEF OrderInv, VotesAgree
    <3>2. k \in 1..Len(stream[m + 1].votes) /\ vote = stream[m + 1].votes[k].checkpoint
      BY <2>1 DEF vote
    <3>3. m + 1 \in 1..Len(stream)
      BY <2>1
    <3> QED
      BY <3>1, <3>2, <3>3 DEF VotesOfStreamAgree, Pending
  <2>4. vote.anchor < delivered + 1 + m
    BY <1>1, <1>3, <2>2, <2>3 DEF Checkpoint, Anchors
  <2>5. \A j \in 0..Len(rest) : CommitmentAfter(stream, j + 1) =
                                    WritesOf(stream[1]) + CommitmentAfter(rest, j)
    <3> TAKE j \in 0..Len(rest)
    <3>1. j \in Nat /\ \A i \in 1..j : rest[i] = stream[i + 1]
      BY <1>3, <2>1
    <3> QED
      BY <3>1, CommitmentOfTail
  <2>6. CommitmentAfter(rest, 0) = 0 /\ \A j \in Nat : CommitmentAfter(rest, j) \in Nat
    <3>1. \A j \in Nat : CommitmentAfter(rest, j) \in 0..j
      BY CommitmentSteps
    <3>2. \A j \in Nat : 0..j \subseteq Nat
      OBVIOUS
    <3>3. CommitmentAfter(rest, 0) = 0
      BY CommitmentSteps
    <3> QED
      BY <3>1, <3>2, <3>3, Zenon
  <2>7. WritesOf(subdag) \in Nat /\ subdag = stream[1]
    BY <2>1 DEF WritesOf
  <2>8. ASSUME NEW i \in 1..Len(r), r[i].local.anchor = vote.anchor
        PROVE  r[i].local = vote
    <3>1. CASE \E j \in 1..Len(Pending) : r[i].local = Pending[j].local
      BY <2>3, <2>8, <3>1
    <3>2. CASE r[i].local = [anchor |-> delivered + 1, commitment |-> after.store]
      <4>1. vote.anchor = delivered + 1 /\ 1 \in 1..Len(stream)
        BY <1>1, <2>1, <2>8, <3>2
      <4>2. vote.commitment = state.store + CommitmentAfter(stream, 1)
        BY <2>3, <4>1
      <4>3. CommitmentAfter(stream, 0 + 1) = WritesOf(subdag)
        BY <1>3, <2>5, <2>6, <2>7
      <4>4. vote.commitment = after.store
        BY <1>3, <4>2, <4>3
      <4> QED
        BY <2>2, <3>2, <4>1, <4>4 DEF Checkpoint
    <3> QED
      BY <1>6, <3>1, <3>2
  <2>9. ASSUME NEW j \in 1..Len(rest), vote.anchor = delivered + 1 + j
        PROVE  vote.commitment = after.store + CommitmentAfter(rest, j)
    <3>1. j + 1 \in 1..Len(stream) /\ vote.anchor = delivered + (j + 1) /\ j \in Nat
      <4>1. j \in Nat /\ Len(stream) = Len(rest) + 1
        BY <1>1, <1>3, <2>1
      <4>2. delivered + 1 + j = delivered + (j + 1) /\ j + 1 \in 1..Len(stream)
        BY <1>1, <1>3, <4>1
      <4> QED
        BY <2>9, <4>1, <4>2
    <3>2. vote.commitment = state.store + CommitmentAfter(stream, j + 1)
      BY <2>3, <3>1
    <3>3. CommitmentAfter(stream, j + 1) = WritesOf(subdag) + CommitmentAfter(rest, j)
      BY <2>5, <2>7, <3>1
    <3>4. CommitmentAfter(rest, j) \in Nat /\ WritesOf(subdag) \in Nat
      BY <2>6, <2>7, <3>1
    <3>5. state.store + (WritesOf(subdag) + CommitmentAfter(rest, j)) =
              (state.store + WritesOf(subdag)) + CommitmentAfter(rest, j)
      BY <1>1, <3>4
    <3> QED
      BY <1>3, <3>2, <3>3, <3>5
  <2> QED
    BY <2>4, <2>8, <2>9 DEF vote
<1>8. \A i \in 1..Len(r) : FromWindowOr(r[i].local, delivered + 1)
  BY <1>6 DEF FromWindowOr
<1> QED
  BY <1>6, <1>7, <1>8 DEF after, VotesOfStreamAgree

(***************************************************************************)
(* The sub-dag that is replayed, and the one that the driver receives,     *)
(* carry votes for executed sub-dags that agree with the window.           *)
(***************************************************************************)
LEMMA ExecutedOrder ==
    ASSUME TypeInv, OrderInv, "aborts" \notin StreamEffects, ReplaySome \/ ExecuteSome
    PROVE  /\ OrderInv'
           /\ delivered' = delivered + 1
           /\ \E subdag \in CommittedSubDag, transactions \in 1..MaxTransactions :
                  CountUp(subdag, transactions)
           /\ \A i \in 1..Len(state'.certifier.pending) :
                  FromWindowOr(state'.certifier.pending[i].local, delivered + 1)
<1>1. /\ delivered \in Nat /\ MaxSubdag \in Nat /\ Len(stream) \in Nat
      /\ delivered + Len(stream) <= MaxSubdag
  BY Numbers DEF TypeInv
<1>2. stream \in Seq(CommittedSubDag) /\ TypeOK /\ Bounded
  BY DEF TypeInv, TypeOK
<1>3. "live" \in Timings /\ "replayed" \in Timings
  BY StateAssumption
<1>4. CASE ReplaySome
  <2>1. PICK effect \in StreamEffects, votes \in SeqOf(VotesInReach, MaxVotes),
            transactions \in 1..MaxTransactions : Replay(effect, votes, transactions)
    BY <1>4 DEF ReplaySome
  <2> DEFINE subdag == [effect |-> effect, votes |-> votes]
  <2>2. /\ driver = "replaying" /\ delivered < MaxReplayed
        /\ state' = ExecuteSubdag(state, delivered + 1, subdag, "replayed").state
        /\ CountUp(subdag, transactions)
        /\ delivered' = delivered + 1 /\ stream' = stream
    BY <2>1 DEF Replay
  <2>3. /\ subdag \in CommittedSubDag /\ subdag.effect \in StreamEffects
        /\ \A k \in 1..Len(subdag.votes) : subdag.votes[k].checkpoint \in Attested
    BY <1>2, VotesInReachType, StreamAssumption DEF CommittedSubDag
  <2>4. stream = << >> /\ Len(stream) = 0 /\ delivered < MaxSubdag
    BY <1>1, <1>2, <2>2, StreamAssumption DEF Bounded
  <2>5. VotesMatch(subdag)
    <3> SUFFICES ASSUME NEW k \in 1..Len(subdag.votes)
                 PROVE  /\ subdag.votes[k].checkpoint.anchor <= delivered
                        /\ \A i \in 1..Len(Pending) :
                               Pending[i].local.anchor = subdag.votes[k].checkpoint.anchor =>
                                   Pending[i].local = subdag.votes[k].checkpoint
      BY DEF VotesMatch
    <3>1. subdag.votes[k].checkpoint \in Attested
      BY <2>3
    <3> HIDE DEF subdag
    <3>2. delivered + Len(stream) = delivered
      BY <1>1, <2>4
    <3> QED
      BY <3>1, <3>2, AttestedAgrees DEF OrderInv
  <2> HIDE DEF subdag
  <2>6. /\ InCommitOrder(state', delivered + 1)
        /\ \A i \in 1..Len(state'.certifier.pending) :
               FromWindowOr(state'.certifier.pending[i].local, delivered + 1)
    <3>1. NextOf(subdag, stream)
      BY <1>2, <2>4 DEF NextOf
    <3>2. "replayed" \in Timings /\ "aborts" \notin StreamEffects
      BY <1>3
    <3> QED
      BY <2>2, <2>3, <2>4, <2>5, <3>1, <3>2, ExecutionKeepsOrder
  <2>7. VotesAgree'
    BY <2>2, <2>4 DEF VotesAgree, VotesOfStreamAgree
  <2> QED
    BY <2>2, <2>3, <2>6, <2>7 DEF OrderInv
<1>5. CASE ExecuteSome
  <2>11. PICK transactions \in 1..MaxTransactions : Execute(transactions)
    BY <1>5 DEF ExecuteSome
  <2> DEFINE subdag == Head(stream)
             rest == Tail(stream)
  <2>1. /\ stream # << >> /\ stream' = rest
        /\ state' = ExecuteSubdag(state, delivered + 1, subdag, "live").state
        /\ CountUp(subdag, transactions)
        /\ delivered' = delivered + 1
    BY <2>11 DEF Execute
  <2>2. /\ Len(stream) >= 1 /\ subdag = stream[1] /\ subdag \in CommittedSubDag
        /\ rest \in Seq(CommittedSubDag) /\ Len(rest) = Len(stream) - 1
        /\ \A m \in 1..(Len(stream) - 1) : rest[m] = stream[m + 1]
    BY <1>2, <2>1, HeadAndTail
  <2> HIDE DEF subdag, rest
  <2>3. Len(stream) = Len(rest) + 1 /\ 1 \in 1..Len(stream) /\ delivered < MaxSubdag
    BY <1>1, <2>2
  <2>9. NextOf(subdag, rest)
    BY <2>2, <2>3 DEF NextOf
  <2>4. subdag.effect \in StreamEffects
    BY <1>2, <2>2, <2>3 DEF Bounded
  <2>5. ASSUME NEW k \in 1..Len(subdag.votes)
        PROVE  /\ subdag.votes[k].checkpoint.anchor <= delivered
               /\ \A i \in 1..Len(Pending) :
                      Pending[i].local.anchor = subdag.votes[k].checkpoint.anchor =>
                          Pending[i].local = subdag.votes[k].checkpoint
    <3>1. /\ subdag.votes[k].checkpoint.anchor < delivered + 1
          /\ \A i \in 1..Len(Pending) :
                 Pending[i].local.anchor = subdag.votes[k].checkpoint.anchor =>
                     Pending[i].local = subdag.votes[k].checkpoint
      BY <2>2, <2>3 DEF OrderInv, VotesAgree, VotesOfStreamAgree, Pending
    <3>2. subdag.votes[k] \in Vote
      BY <2>2, LenProperties, ElementOfSeq DEF CommittedSubDag
    <3>3. subdag.votes[k].checkpoint.anchor \in Nat
      BY <3>2 DEF Vote, Checkpoint, Anchors
    <3> QED
      BY <1>1, <3>1, <3>3
  <2>10. VotesMatch(subdag)
    BY <2>5 DEF VotesMatch
  <2>6. LET after == ExecuteSubdag(state, delivered + 1, subdag, "live").state
        IN  /\ InCommitOrder(after, delivered + 1)
            /\ \A i \in 1..Len(after.certifier.pending) :
                   FromWindowOr(after.certifier.pending[i].local, delivered + 1)
            /\ VotesOfStreamAgree(after, delivered + 1, rest)
    BY <1>3, <2>2, <2>3, <2>4, <2>9, <2>10, ExecutionKeepsOrder
  <2>7. VotesAgree'
    BY <2>1, <2>6 DEF VotesAgree
  <2>8. InCommitOrder(state', delivered')
        /\ \A i \in 1..Len(state'.certifier.pending) :
               FromWindowOr(state'.certifier.pending[i].local, delivered + 1)
    BY <2>1, <2>6
  <2> QED
    BY <2>1, <2>2, <2>7, <2>8 DEF OrderInv
<1> QED
  BY <1>4, <1>5

(***************************************************************************)
(* A commit appends a sub-dag with votes for checkpoints in reach.         *)
(***************************************************************************)
LEMMA CommittedOrder ==
    ASSUME TypeInv, OrderInv, CommitSome
    PROVE  OrderInv'
<1>1. /\ delivered \in Nat /\ Len(stream) \in Nat /\ stream \in Seq(CommittedSubDag)
      /\ TypeOK /\ Bounded /\ \A m \in 1..Len(stream) : stream[m] \in CommittedSubDag
  BY Numbers DEF TypeInv, TypeOK
<1>2. PICK effect \in StreamEffects, votes \in SeqOf(VotesInReach, MaxVotes) :
          Commit(effect, votes)
  BY DEF CommitSome
<1> DEFINE subdag == [effect |-> effect, votes |-> votes]
<1>3. stream' = Append(stream, subdag) /\ UNCHANGED <<delivered, state>>
  BY <1>2 DEF Commit, execution
<1>4. /\ subdag \in CommittedSubDag
      /\ \A k \in 1..Len(subdag.votes) : subdag.votes[k].checkpoint \in Attested
  BY <1>1, VotesInReachType, StreamAssumption DEF CommittedSubDag
<1> HIDE DEF subdag
<1>5. /\ Len(stream') = Len(stream) + 1
      /\ \A m \in 1..Len(stream) : stream'[m] = stream[m]
      /\ stream'[Len(stream) + 1] = subdag
  BY <1>1, <1>3, <1>4, AppendProperties
<1>6. \A j \in 1..Len(stream) : CommitmentAfter(stream', j) = CommitmentAfter(stream, j)
  <2> TAKE j \in 1..Len(stream)
  <2>1. j \in Nat /\ \A m \in 1..j : stream[m] = stream'[m]
    BY <1>1, <1>5
  <2> QED
    BY <2>1, CommitmentOfPrefix
<1>7. ASSUME NEW m \in 1..Len(stream'), NEW k \in 1..Len(stream'[m].votes)
      PROVE  LET vote == stream'[m].votes[k].checkpoint
             IN  /\ vote.anchor < delivered + m
                 /\ \A i \in 1..Len(Pending) : Pending[i].local.anchor = vote.anchor =>
                        Pending[i].local = vote
                 /\ \A j \in 1..Len(stream') : vote.anchor = delivered + j =>
                        vote.commitment = state.store + CommitmentAfter(stream', j)
  <2> DEFINE vote == stream'[m].votes[k].checkpoint
  <2>1. m \in 1..Len(stream) \/ m = Len(stream) + 1
    BY <1>1, <1>5
  <2>2. stream'[m] \in CommittedSubDag
    BY <1>1, <1>4, <1>5, <2>1
  <2>3. stream'[m].votes[k] \in Vote
    BY <2>2, LenProperties, ElementOfSeq DEF CommittedSubDag
  <2>4. vote.anchor \in Nat
    BY <2>3 DEF Vote, Checkpoint, Anchors
  <2>5. /\ vote.anchor < delivered + m /\ vote.anchor <= delivered + Len(stream)
        /\ \A i \in 1..Len(Pending) : Pending[i].local.anchor = vote.anchor =>
               Pending[i].local = vote
        /\ \A j \in 1..Len(stream) : vote.anchor = delivered + j =>
               vote.commitment = state.store + CommitmentAfter(stream, j)
    <3>1. CASE m \in 1..Len(stream)
      <4>1. stream'[m] = stream[m]
        BY <1>5, <3>1
      <4>2. /\ vote.anchor < delivered + m
            /\ \A i \in 1..Len(Pending) : Pending[i].local.anchor = vote.anchor =>
                   Pending[i].local = vote
            /\ \A j \in 1..Len(stream) : vote.anchor = delivered + j =>
                   vote.commitment = state.store + CommitmentAfter(stream, j)
        BY <3>1, <4>1 DEF OrderInv, VotesAgree, VotesOfStreamAgree, Pending
      <4> HIDE DEF vote
      <4>3. vote.anchor <= delivered + Len(stream)
        BY <1>1, <2>4, <3>1, <4>2
      <4> QED
        BY <4>2, <4>3
    <3>2. CASE m = Len(stream) + 1
      <4>1. vote \in Attested
        BY <1>4, <1>5, <3>2
      <4> HIDE DEF vote
      <4>2. /\ vote.anchor <= delivered + Len(stream)
            /\ \A i \in 1..Len(Pending) : Pending[i].local.anchor = vote.anchor =>
                   Pending[i].local = vote
            /\ \A j \in 1..Len(stream) : vote.anchor = delivered + j =>
                   vote.commitment = state.store + CommitmentAfter(stream, j)
        BY <4>1, AttestedAgrees DEF OrderInv
      <4>3. vote.anchor < delivered + m
        BY <1>1, <2>4, <3>2, <4>2
      <4> QED
        BY <4>2, <4>3
    <3> QED
      BY <2>1, <3>1, <3>2
  <2> HIDE DEF vote
  <2>6. ASSUME NEW j \in 1..Len(stream'), vote.anchor = delivered + j
        PROVE  vote.commitment = state.store + CommitmentAfter(stream', j)
    <3>1. j \in 1..Len(stream)
      BY <1>1, <1>5, <2>4, <2>5, <2>6
    <3> QED
      BY <1>6, <2>5, <2>6, <3>1
  <2> QED
    BY <2>5, <2>6 DEF vote
<1>8. VotesAgree'
  BY <1>3, <1>7 DEF VotesAgree, VotesOfStreamAgree, Pending
<1> QED
  BY <1>3, <1>8 DEF OrderInv

(***************************************************************************)
(* Every other step leaves the stream and the state alone.                 *)
(***************************************************************************)
LEMMA OtherSteps ==
    ASSUME Next, ~ReplaySome, ~ExecuteSome
    PROVE  /\ UNCHANGED <<delivered, state, count, counts>>
           /\ CommitSome \/ UNCHANGED stream
BY DEF Next, Drive, Start, SendExecuted, SendCertified, SubmitAttestations, StopDriver,
       CommitSome, Commit, TakeBatch, StopReplica, SubmitTransactions, CallSome, Wait,
       execution

(***************************************************************************)
(* As long as no transaction aborts, every window is in commit order and   *)
(* every vote in the stream agrees with it.                                *)
(***************************************************************************)
LEMMA OrderInvariant ==
    ASSUME "aborts" \notin StreamEffects
    PROVE  Spec => []OrderInv
<1>1. Init => OrderInv
  <2> SUFFICES ASSUME Init PROVE OrderInv
    OBVIOUS
  <2>1. /\ state.certifier.pending = << >> /\ state.certifier.watermark = None
        /\ stream = << >> /\ Len(<< >>) = 0
    BY EmptySeq DEF Init, NewState, NewCertifier
  <2> QED
    BY <2>1 DEF OrderInv, InCommitOrder, VotesAgree, VotesOfStreamAgree, Honest
<1>2. TypeInv /\ OrderInv /\ [Next]_vars => OrderInv'
  <2> SUFFICES ASSUME TypeInv, OrderInv, [Next]_vars PROVE OrderInv'
    OBVIOUS
  <2>1. CASE ReplaySome \/ ExecuteSome
    BY <2>1, ExecutedOrder
  <2>2. CASE CommitSome
    BY <2>2, CommittedOrder
  <2>3. CASE UNCHANGED <<delivered, state, stream>>
    BY <2>3 DEF OrderInv, VotesAgree
  <2> QED
    BY <2>1, <2>2, <2>3, OtherSteps DEF vars
<1> QED
  BY <1>1, <1>2, TypeInvariant, PTL DEF Spec
-----------------------------------------------------------------------------
(***************************************************************************)
(* An equal pair in the driver's channel of certification means that its   *)
(* window was empty when it sent it: every pending checkpoint commits to   *)
(* a later state than the watermark.                                       *)
(***************************************************************************)
LEMMA EqualityEmptiesWindow ==
    ASSUME TypeInv, OrderInv, certified.value = CertificationStatus(state),
           EverythingCertified(certified.value)
    PROVE  Len(Pending) = 0 /\ Pending = << >>
<1>1. /\ Pending \in Seq(PendingCheckpoint) /\ Len(Pending) \in Nat
      /\ state.store \in Nat /\ state \in State
  BY Numbers DEF TypeInv
<1>2. state.store # None
  BY <1>1, NoneAssumption DEF State
<1>3. Watermark # None /\ Watermark.checkpoint.commitment = state.store
  BY <1>2 DEF EverythingCertified, CertificationStatus, Watermark
<1>4. \A i \in 1..Len(Pending) : /\ Pending[i].local.commitment <= state.store
                                 /\ state.store < Pending[i].local.commitment
  BY <1>3 DEF OrderInv, InCommitOrder, Pending, Watermark
<1>5. ASSUME Len(Pending) # 0 PROVE FALSE
  <2>1. 1 \in 1..Len(Pending)
    BY <1>1, <1>5
  <2>2. Pending[1] \in PendingCheckpoint
    BY <1>1, <2>1, ElementOfSeq
  <2>3. Pending[1].local.commitment \in Commitments /\ Commitments \subseteq Nat
    BY <2>2, StateAssumption DEF PendingCheckpoint, Checkpoint
  <2>4. Pending[1].local.commitment \in Nat
    BY <2>3
  <2> QED
    BY <1>1, <1>4, <2>1, <2>4
<1> QED
  BY <1>1, <1>5, EmptySeq

(***************************************************************************)
(* When the highest certified commitment equals the store's, everything    *)
(* executed is certified, as long as no transaction aborts                 *)
(* (validator.rs:411-412). With transactions that abort it is not so: two  *)
(* sub-dags then share a commitment.                                       *)
(***************************************************************************)
THEOREM HandleEqualityMeansCertified ==
    ASSUME "aborts" \notin StreamEffects
    PROVE  Spec => []EqualityMeansCertified
<1>1. TypeInv /\ Published /\ OrderInv => EqualityMeansCertified
  BY EqualityEmptiesWindow DEF Published, EqualityMeansCertified, Pending
<1> QED
  BY <1>1, TypeInvariant, PublishedInvariant, OrderInvariant, PTL

\* A client that awaits certification, or returned from it.
PastTheCut == waiter.at \in {"reading certified", "awaiting certified", "returned"}

\* The window of a stable or an unstable driver, when the pair it last sent was equal.
WindowInv ==
    /\ driver \in {"re-attesting", "receiving", "attesting", "stopped"}
          /\ EverythingCertified(certified.value) => Pending = << >>
    /\ driver \in {"sending executed", "sending certified"}
          /\ EverythingCertified(certified.value) =>
           \A i \in 1..Len(Pending) : Pending[i].local.anchor = delivered

(***************************************************************************)
(* What the cut's property says, entry by entry of the window.             *)
(***************************************************************************)
LEMMA CutByEntry ==
    ASSUME TypeInv
    PROVE  CutLagsByOneSubdag <=>
               (At("returned") =>
                    \A i \in 1..Len(Pending) : counts[Pending[i].local.anchor] >= waiter.target)
<1>1. DOMAIN Pending = 1..Len(Pending)
  BY Numbers DEF TypeInv
<1>2. UncertifiedSubdags = {Pending[i].local.anchor : i \in 1..Len(Pending)}
  BY <1>1 DEF UncertifiedSubdags, Uncertified, Range, Pending
<1> QED
  BY <1>2 DEF CutLagsByOneSubdag

(***************************************************************************)
(* A sub-dag that is executed leaves, in the window, earlier entries whose *)
(* counts are in the history, and its own, at a count that is no lower.    *)
(***************************************************************************)
LEMMA CutExecuted ==
    ASSUME TypeInv, TypeInv', Published, OrderInv, CutInv, "aborts" \notin StreamEffects,
           ReplaySome \/ ExecuteSome
    PROVE  CutInv'
<1>1. /\ delivered \in Nat /\ delivered' = delivered + 1
      /\ Len(Pending) \in Nat /\ waiter.target \in Nat
      /\ executed.value \in 0..count /\ count \in Nat
  <2>1. delivered \in Nat /\ Len(Pending) \in Nat /\ count \in Nat
    BY Numbers DEF TypeInv
  <2>2. executed.value \in 0..count /\ waiter.target \in Targets
    BY DEF TypeInv, TypeOK
  <2> QED
    BY <2>1, <2>2, ExecutedOrder, TargetsType
<1>2. UNCHANGED <<executed, certified, waiter>>
  BY DEF ReplaySome, Replay, ExecuteSome, Execute, channels
<1>3. /\ count' \in Nat /\ count <= count'
      /\ \A n \in 1..delivered : counts'[n] = counts[n]
      /\ counts'[delivered + 1] = count'
  <2>1. PICK subdag \in CommittedSubDag, transactions \in 1..MaxTransactions :
            CountUp(subdag, transactions)
    BY ExecutedOrder
  <2> QED
    BY <2>1, CountsGrow DEF TypeInv
<1>4. \A i \in 1..Len(Pending') : FromWindowOr(Pending'[i].local, delivered + 1)
  BY ExecutedOrder DEF Pending
<1>5. \A j \in 1..Len(Pending) : Pending[j].local.anchor \in 1..delivered
  <2> TAKE j \in 1..Len(Pending)
  <2>1. Pending[j] \in PendingCheckpoint
    BY Numbers, ElementOfSeq DEF TypeInv
  <2>2. Pending[j].local.anchor \in 1..MaxSubdag /\ MaxSubdag \in Nat
    BY <2>1, RoundAssumption DEF PendingCheckpoint, Checkpoint, Anchors
  <2>3. Pending[j].local.anchor <= delivered
    BY DEF OrderInv, InCommitOrder, Pending
  <2> QED
    BY <1>1, <2>2, <2>3
<1>6. EverythingCertified(certified.value) /\ ExecuteSome => Pending = << >>
  <2>1. ExecuteSome => driver = "receiving"
    BY DEF ExecuteSome, Execute
  <2> QED
    BY <2>1, EqualityEmptiesWindow DEF Published
<1>7. /\ driver' \in {"sending executed", "sending certified"}
      /\ EverythingCertified(certified'.value)
      => \A i \in 1..Len(Pending') : Pending'[i].local.anchor = delivered'
  <2>1. CASE ReplaySome
    BY <2>1 DEF ReplaySome, Replay
  <2>2. CASE ExecuteSome
    <3> SUFFICES ASSUME EverythingCertified(certified'.value), NEW i \in 1..Len(Pending')
                 PROVE  Pending'[i].local.anchor = delivered'
      OBVIOUS
    <3>1. Len(Pending) = 0
      BY <1>2, <1>6, <2>2, EmptySeq
    <3>2. ~ \E j \in 1..Len(Pending) : TRUE
      BY <3>1
    <3> QED
      BY <1>1, <1>4, <3>2 DEF FromWindowOr
  <2> QED
    BY <2>1, <2>2
<1>8. PastTheCut => waiter.target <= executed.value
  BY DEF CutInv, PastTheCut
<1>9. At("returned") => \A i \in 1..Len(Pending') : counts'[Pending'[i].local.anchor] >= waiter.target
  <2> SUFFICES ASSUME At("returned"), NEW i \in 1..Len(Pending')
               PROVE  counts'[Pending'[i].local.anchor] >= waiter.target
    OBVIOUS
  <2>1. CASE \E j \in 1..Len(Pending) : Pending'[i].local = Pending[j].local
    <3>1. PICK j \in 1..Len(Pending) : Pending'[i].local = Pending[j].local
      BY <2>1
    <3>2. counts[Pending[j].local.anchor] >= waiter.target
      BY CutByEntry DEF CutInv
    <3> QED
      BY <1>3, <1>5, <3>1, <3>2
  <2>2. CASE Pending'[i].local.anchor = delivered + 1
    <3>1. waiter.target <= executed.value
      BY <1>8 DEF PastTheCut, At
    <3>2. counts'[Pending'[i].local.anchor] = count'
      BY <1>3, <2>2
    <3> QED
      BY <1>1, <1>3, <3>1, <3>2
  <2> QED
    BY <1>4, <2>1, <2>2 DEF FromWindowOr
<1>10. CutLagsByOneSubdag'
  <2>1. DOMAIN Pending' = 1..Len(Pending')
    <3>1. Pending' \in Seq(PendingCheckpoint)
      BY DEF TypeInv, TypeOK, State, CheckpointCertifier, Pending
    <3> QED
      BY <3>1, LenProperties
  <2>2. UncertifiedSubdags' = {Pending'[i].local.anchor : i \in 1..Len(Pending')}
    BY <2>1 DEF UncertifiedSubdags, Uncertified, Range, Pending
  <2> QED
    BY <1>2, <1>9, <2>2 DEF CutLagsByOneSubdag, At
<1> QED
  BY <1>1, <1>2, <1>3, <1>7, <1>8, <1>10 DEF CutInv, PastTheCut

(***************************************************************************)
(* A step that executes nothing keeps the window and the counts. A send    *)
(* of the count only raises it, and a client that returns has seen an      *)
(* equal pair: at most the sub-dag in progress is uncertified, and the     *)
(* count it reached has been published.                                    *)
(***************************************************************************)
LEMMA CutOther ==
    ASSUME TypeInv, Published, OrderInv, CutInv, Next, ~ReplaySome, ~ExecuteSome
    PROVE  CutInv'
<1>1. UNCHANGED <<delivered, state, count, counts>> /\ Pending' = Pending
  BY OtherSteps DEF Pending
<1>2. /\ count \in Nat /\ executed.value \in 0..count /\ waiter.target \in Nat
      /\ delivered \in Nat
  <2>1. count \in Nat /\ delivered \in Nat
    BY Numbers DEF TypeInv
  <2>2. executed.value \in 0..count /\ waiter.target \in Targets
    BY DEF TypeInv, TypeOK
  <2> QED
    BY <2>1, <2>2, TargetsType
<1>3. WindowInv
  BY EqualityEmptiesWindow DEF Published, CutInv, WindowInv
<1>4. UNCHANGED UncertifiedSubdags
  BY <1>1 DEF UncertifiedSubdags
<1>5. CASE UNCHANGED waiter
  <2>1. /\ driver' \in {"sending executed", "sending certified"}
        /\ EverythingCertified(certified'.value)
        => \A i \in 1..Len(Pending) : Pending[i].local.anchor = delivered
    <3>1. driver' \in {"sending executed", "sending certified"} =>
              driver \in {"sending executed", "sending certified"} /\ certified' = certified
      BY DEF Next, Drive, Start, SendExecuted, SendCertified, SubmitAttestations,
             StopDriver, CommitSome, Commit, TakeBatch, StopReplica, SubmitTransactions,
             CallSome, Wait, channels
    <3> QED
      BY <1>3, <3>1 DEF WindowInv
  <2>2. executed'.value = executed.value \/ executed'.value = count
    <3>1. CASE Start
      BY <3>1 DEF Start, Channel
    <3>2. CASE SendExecuted
      BY <3>2 DEF SendExecuted, Send
    <3>3. CASE ~Start /\ ~SendExecuted
      <4>1. executed' = executed
        BY <3>3 DEF Next, Drive, SendCertified, SubmitAttestations, StopDriver, CommitSome,
                    Commit, TakeBatch, StopReplica, SubmitTransactions, CallSome, Wait, channels
      <4> QED
        BY <4>1
    <3> QED
      BY <3>1, <3>2, <3>3
  <2>3. PastTheCut => waiter.target <= executed'.value
    <3>1. PastTheCut => waiter.target <= executed.value
      BY DEF CutInv, PastTheCut
    <3> QED
      BY <1>2, <2>2, <3>1
  <2> QED
    BY <1>1, <1>4, <1>5, <2>1, <2>3 DEF CutInv, PastTheCut, CutLagsByOneSubdag, At
<1>6. CASE CallSome \/ Wait
  <2>1. UNCHANGED <<driver, executed, certified>>
    BY <1>6 DEF CallSome, Wait, channels
  <2>2. waiter \in [at : {"idle", "reading executed", "awaiting executed",
                          "reading certified", "awaiting certified",
                          "returned", "returned early"},
                    target : Targets,
                    seenExecuted : 0..delivered, seenCertified : 0..delivered]
    BY DEF TypeInv, TypeOK
  <2>3. \/ waiter'.at \in {"reading executed", "awaiting executed", "returned early"}
        \/ /\ waiter'.at = "reading certified" /\ waiter'.target = waiter.target
           /\ ~(executed.value < waiter.target)
        \/ /\ waiter'.at \in {"reading certified", "awaiting certified"}
           /\ waiter'.target = waiter.target
           /\ waiter.at \in {"reading certified", "awaiting certified"}
        \/ /\ waiter'.at = "returned" /\ waiter'.target = waiter.target
           /\ waiter.at = "reading certified" /\ EverythingCertified(certified.value)
    BY <1>6, <2>2 DEF CallSome, Call, Wait, ReadExecuted, AwaitExecuted, ReadCertified,
                      AwaitCertified, At, Goto
  <2>4. PastTheCut' => waiter'.target <= executed.value
    <3>1. PastTheCut => waiter.target <= executed.value
      BY DEF CutInv, PastTheCut
    <3>2. ~(executed.value < waiter.target) => waiter.target <= executed.value
      BY <1>2
    <3> QED
      BY <2>3, <3>1, <3>2 DEF PastTheCut
  <2>5. ASSUME waiter'.at = "returned", NEW i \in 1..Len(Pending)
        PROVE  counts[Pending[i].local.anchor] >= waiter'.target
    <3>1. /\ waiter'.target = waiter.target /\ waiter.at = "reading certified"
          /\ EverythingCertified(certified.value)
      BY <2>3, <2>5
    <3>2. driver # "replaying"
      BY <3>1 DEF TypeInv, Bounded
    <3>3. driver \in {"sending executed", "sending certified"} \/ Pending = << >>
      BY <1>3, <3>1, <3>2 DEF TypeInv, TypeOK, WindowInv
    <3>4. Pending # << >>
      BY <2>5, EmptySeq
    <3>5. Pending[i].local.anchor = delivered
      BY <1>3, <3>1, <3>3, <3>4 DEF WindowInv
    <3>6. Pending[i].local.anchor > 0
      <4>1. Pending[i] \in PendingCheckpoint
        BY Numbers, ElementOfSeq DEF TypeInv
      <4>2. Pending[i].local.anchor \in 1..MaxSubdag
        BY <4>1 DEF PendingCheckpoint, Checkpoint, Anchors
      <4> QED
        BY <4>2, RoundAssumption
    <3>7. counts[Pending[i].local.anchor] = count
      BY <3>5, <3>6 DEF CutInv
    <3>8. waiter'.target <= executed.value
      BY <2>4, <2>5 DEF PastTheCut
    <3> QED
      <4>1. waiter.target <= executed.value
        BY <3>1, <3>8
      <4>2. count >= waiter.target
        BY <1>2, <4>1
      <4> QED
        BY <3>1, <3>7, <4>2
  <2>6. CutLagsByOneSubdag'
    <3>1. DOMAIN Pending = 1..Len(Pending)
      BY Numbers DEF TypeInv
    <3>2. UncertifiedSubdags = {Pending[i].local.anchor : i \in 1..Len(Pending)}
      BY <3>1 DEF UncertifiedSubdags, Uncertified, Range, Pending
    <3> QED
      BY <1>1, <1>4, <2>5, <3>2 DEF CutLagsByOneSubdag, At
  <2>7. /\ driver \in {"sending executed", "sending certified"}
        /\ EverythingCertified(certified.value)
        => \A i \in 1..Len(Pending) : Pending[i].local.anchor = delivered
    BY <1>3 DEF WindowInv
  <2>8. delivered > 0 => counts[delivered] = count
    BY DEF CutInv
  <2> QED
    BY <1>1, <2>1, <2>4, <2>6, <2>7, <2>8 DEF CutInv, PastTheCut
<1>7. UNCHANGED waiter \/ CallSome \/ Wait
  BY DEF Next, Drive, Start, SendExecuted, SendCertified, SubmitAttestations, StopDriver,
         CommitSome, Commit, TakeBatch, StopReplica, SubmitTransactions
<1> QED
  BY <1>5, <1>6, <1>7

(***************************************************************************)
(* When both waits have returned, every sub-dag of the cut is certified    *)
(* but, at most, the one that reached the target, as long as no            *)
(* transaction aborts, however many transactions each sub-dag executes     *)
(* (validator.rs:193-195 and 401-426).                                     *)
(***************************************************************************)
THEOREM HandleCutLagsByOneSubdag ==
    ASSUME "aborts" \notin StreamEffects
    PROVE  Spec => []CutLagsByOneSubdag
<1>1. Init => CutInv
  BY DEF Init, CutInv, CutLagsByOneSubdag, At
<1>2. TypeInv /\ TypeInv' /\ Published /\ OrderInv /\ CutInv /\ [Next]_vars => CutInv'
  <2> SUFFICES ASSUME TypeInv, TypeInv', Published, OrderInv, CutInv, [Next]_vars
               PROVE  CutInv'
    OBVIOUS
  <2>1. CASE UNCHANGED vars
    BY <2>1 DEF vars, CutInv, CutLagsByOneSubdag, UncertifiedSubdags, Pending, At
  <2> QED
    BY <2>1, CutExecuted, CutOther
<1>3. CutInv => CutLagsByOneSubdag
  BY DEF CutInv
<1> QED
  BY <1>1, <1>2, <1>3, TypeInvariant, PublishedInvariant, OrderInvariant, PTL DEF Spec
=============================================================================
