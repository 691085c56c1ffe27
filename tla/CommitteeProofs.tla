--------------------------- MODULE CommitteeProofs ---------------------------
(***************************************************************************)
(* Proofs about Committee: however validators crash, replay and race, and  *)
(* whatever the Byzantine authorities attest to, correct validators never  *)
(* equivocate, lose no vote for good and hold what the log determines; and *)
(* they certify only what execution yields, if the Byzantine authorities   *)
(* weigh less than the quorum. For every committee and every bound.        *)
(***************************************************************************)
EXTENDS Committee, OperatorProofs

(***************************************************************************)
(* More authorities never weigh less.                                      *)
(***************************************************************************)
LEMMA WeightGrows ==
    ASSUME NEW S \in SUBSET Authorities, NEW D \in SUBSET Authorities, IsFiniteSet(D),
           S \cap D = {}
    PROVE  Weight[S] <= Weight[S \cup D]
<1> DEFINE n == Cardinality(D)
           T == {k \in 0..n : \A E \in SUBSET D :
                     Cardinality(E) = k => Weight[S] <= Weight[S \cup E]}
<1>1. n \in Nat /\ \A E \in SUBSET D : IsFiniteSet(E) /\ Cardinality(E) \in Nat
  BY FS_Subset, FS_CardinalityType
<1>2. \A E \in SUBSET D : Weight[S \cup E] \in Nat
  BY WeightAssumption
<1>3. 0 \in T
  <2>1. \A E \in SUBSET D : Cardinality(E) = 0 => S \cup E = S
    BY <1>1, FS_EmptySet
  <2>2. Weight[S] \in Nat
    BY WeightAssumption
  <2> HIDE DEF n
  <2> QED
    BY <1>1, <2>1, <2>2
<1>4. ASSUME NEW k \in 1..n, k - 1 \in T PROVE k \in T
  <2>1. k \in 0..n /\ k # 0
    BY <1>1
  <2> SUFFICES ASSUME NEW E \in SUBSET D, Cardinality(E) = k
               PROVE  Weight[S] <= Weight[S \cup E]
    BY <2>1
  <2>2. PICK a \in E : TRUE
    BY <1>1, <2>1, FS_EmptySet
  <2> DEFINE F == E \ {a}
  <2>3. F \in SUBSET D /\ Cardinality(F) = k - 1
    BY <1>1, <2>2, FS_RemoveElement
  <2>4. Weight[S] <= Weight[S \cup F]
    BY <1>4, <2>3
  <2>5. S \cup F \in SUBSET Authorities /\ a \in Authorities \ (S \cup F)
        /\ (S \cup F) \cup {a} = S \cup E
    BY <2>2
  <2> HIDE DEF F
  <2>6. Weight[S \cup E] = Weight[S \cup F] + Weight[{a}]
    BY <2>5, WeightAssumption
  <2>7. Weight[S] \in Nat /\ Weight[S \cup F] \in Nat /\ Weight[{a}] \in Nat
    BY <2>5, WeightAssumption
  <2> QED
    BY <2>4, <2>6, <2>7
<1>5. 0..n \subseteq T
  <2> HIDE DEF n, T
  <2> QED
    BY <1>1, <1>3, <1>4, IntervalInduction
<1> QED
  BY <1>1, <1>5

\* The Byzantine authorities are few and weigh less than a quorum.
Tolerated == IsFiniteSet(Byzantine) /\ Weight[Byzantine] < Quorum

(***************************************************************************)
(* Then no set of them is a quorum.                                        *)
(***************************************************************************)
LEMMA ToleratedNoQuorum == Tolerated => NoQuorum(Byzantine)
<1> SUFFICES ASSUME Tolerated PROVE NoQuorum(Byzantine)
  OBVIOUS
<1>1. Byzantine \subseteq Authorities
  BY CommitteeAssumption
<1>2. ASSUME NEW S \in SUBSET Byzantine PROVE Weight[S] < Quorum
  <2> DEFINE D == Byzantine \ S
  <2>1. IsFiniteSet(D)
    BY FS_Subset DEF Tolerated
  <2>2. S \cup D = Byzantine /\ S \cap D = {}
        /\ S \in SUBSET Authorities /\ D \in SUBSET Authorities
    BY <1>1
  <2> HIDE DEF D
  <2>3. Weight[S] <= Weight[Byzantine]
    BY <2>1, <2>2, WeightGrows
  <2>4. Weight[S] \in Nat /\ Weight[Byzantine] \in Nat
    BY <1>1, <2>2, WeightAssumption
  <2> QED
    BY <2>3, <2>4, QuorumAssumption DEF Tolerated
<1> QED
  BY <1>1, <1>2 DEF NoQuorum

VotedBy(author, votes) ==
    {votes[k].checkpoint : k \in {l \in 1..Len(votes) : votes[l].author = author}}

AddIfFrom(checkpoints, author, vote) ==
    IF vote.author = author THEN Append(checkpoints, vote.checkpoint) ELSE checkpoints

(***************************************************************************)
(* The checkpoints of an author's votes are those of its votes, one each.  *)
(***************************************************************************)
LEMMA CheckpointsOfType ==
    ASSUME NEW author, NEW votes \in Seq(Vote)
    PROVE  CheckpointsOf(author, votes) \in Seq(VotedBy(author, votes))
<1> DEFINE m == Len(votes)
           X == Seq(VotedBy(author, votes))
           h == [pair \in (1..m) \X X |-> AddIfFrom(pair[2], author, votes[pair[1]])]
           Solves(f) == f = [t \in SUBSET DOMAIN votes |->
                                IF t = {} THEN << >>
                                ELSE AddIfFrom(f[t \ {Max(t)}], author, votes[Max(t)])]
<1>1. m \in Nat /\ DOMAIN votes = 1..m
  BY LenProperties
<1>2. ASSUME NEW k \in 1..m, NEW q \in X PROVE AddIfFrom(q, author, votes[k]) \in X
  <2>1. CASE votes[k].author = author
    <3>1. votes[k].checkpoint \in VotedBy(author, votes)
      BY <2>1 DEF VotedBy
    <3>2. AddIfFrom(q, author, votes[k]) = Append(q, votes[k].checkpoint)
      BY <2>1 DEF AddIfFrom
    <3> QED
      BY <3>1, <3>2, AppendProperties
  <2>2. CASE votes[k].author # author
    BY <2>2 DEF AddIfFrom
  <2> QED
    BY <2>1, <2>2
<1>3. << >> \in X
  BY EmptySeq
<1> HIDE DEF X
<1>4. \E f : Solves(f)
  <2>1. PICK f : Folds(f, X, << >>, m, h)
    <3>1. \A k \in 1..m, q \in X : h[<<k, q>>] \in X
      BY <1>2
    <3> HIDE DEF h, m
    <3> QED
      BY <1>1, <1>3, <3>1, FoldExists
  <2>2. /\ f \in [SUBSET (1..m) -> X] /\ f[{}] = << >>
        /\ \A t \in (SUBSET (1..m)) \ {{}} : f[t] = h[<<Max(t), f[t \ {Max(t)}]>>]
    <3> HIDE DEF h, m
    <3> QED
      BY <2>1 DEF Folds
  <2>3. ASSUME NEW t \in SUBSET (1..m), t # {}
        PROVE  f[t] = AddIfFrom(f[t \ {Max(t)}], author, votes[Max(t)])
    <3>1. Max(t) \in 1..m
      BY <1>1, <2>3, MaxOfInterval
    <3>2. f[t \ {Max(t)}] \in X
      BY <2>2
    <3>3. h[<<Max(t), f[t \ {Max(t)}]>>] = AddIfFrom(f[t \ {Max(t)}], author, votes[Max(t)])
      <4> HIDE DEF m
      <4> QED
        BY <3>1, <3>2
    <3>4. f[t] = h[<<Max(t), f[t \ {Max(t)}]>>]
      <4> HIDE DEF h, m
      <4> QED
        BY <2>2, <2>3
    <3> QED
      BY <3>3, <3>4
  <2>4. Solves(f)
    BY <1>1, <2>2, <2>3
  <2> HIDE DEF Solves
  <2> QED
    BY <2>4
<1> DEFINE fold == CHOOSE f : Solves(f)
           T == {k \in 0..m : fold[1..k] \in X}
<1>5. Solves(fold)
  <2> HIDE DEF Solves
  <2> QED
    BY <1>4
<1>6. CheckpointsOf(author, votes) = fold[1..m]
  BY <1>1 DEF CheckpointsOf, FoldLeft, MapThenFoldSet, AddIfFrom
<1> HIDE DEF fold
<1>7. 0 \in T
  <2>1. 1..0 = {} /\ 1..0 \in SUBSET DOMAIN votes
    OBVIOUS
  <2>2. fold[1..0] = << >>
    BY <1>5, <2>1
  <2> QED
    BY <1>1, <1>3, <2>2
<1>8. ASSUME NEW k \in 1..m, k - 1 \in T PROVE k \in T
  <2>1. Max(1..k) = k /\ (1..k) \ {k} = 1..(k - 1) /\ k \in 0..m
    BY <1>1, MaxOfBounded
  <2>2. fold[1..k] = AddIfFrom(fold[(1..k) \ {Max(1..k)}], author, votes[Max(1..k)])
    <3>1. 1..k \in SUBSET DOMAIN votes /\ 1..k # {}
      BY <1>1, SMTT(40)
    <3> HIDE DEF m
    <3> QED
      BY <1>5, <3>1
  <2> QED
    BY <1>2, <1>8, <2>1, <2>2
<1>9. 0..m \subseteq T
  <2> HIDE DEF T, m
  <2> QED
    BY <1>1, <1>7, <1>8, IntervalInduction
<1>10. fold[1..m] \in X
  BY <1>1, <1>9
<1> QED
  BY <1>6, <1>10 DEF X
-----------------------------------------------------------------------------
(***************************************************************************)
(* The inductive invariant, of one state: after the first n sub-dags of a  *)
(* log, what is pending or certified is what executing the log yields.     *)
(***************************************************************************)
YieldedBy(c, n, subdags) ==
    /\ c.anchor \in 1..n
    /\ Executes(subdags[c.anchor])
    /\ c.commitment = CommitmentAfter(subdags, c.anchor)

Sound(s, n, subdags) ==
    /\ s \in State
    /\ s.store = CommitmentAfter(subdags, n)
    /\ CommitOrder(s.certifier.pending)
    /\ \A i \in 1..Len(s.certifier.pending) : YieldedBy(s.certifier.pending[i].local, n, subdags)
    /\ Tolerated =>
           /\ Honest(s.certifier, Byzantine)
           /\ s.certifier.watermark # None =>
                  YieldedBy(s.certifier.watermark.checkpoint, n, subdags)

(***************************************************************************)
(* What a prefix yields the log yields, and a longer log, too.             *)
(***************************************************************************)
LEMMA YieldedByMore ==
    ASSUME NEW l, NEW longer, NEW n \in Nat, NEW m \in Nat, n <= m,
           \A k \in 1..n : l[k] = longer[k],
           NEW c, YieldedBy(c, n, l)
    PROVE  YieldedBy(c, m, longer)
<1>1. c.anchor \in 1..n /\ c.anchor \in 1..m
  BY DEF YieldedBy
<1>2. CommitmentAfter(l, c.anchor) = CommitmentAfter(longer, c.anchor)
  <2>1. c.anchor \in Nat /\ \A k \in 1..c.anchor : k \in 1..n
    BY <1>1
  <2> QED
    BY <2>1, CommitmentOfPrefix
<1> QED
  BY <1>1, <1>2 DEF YieldedBy

(***************************************************************************)
(* A sound state stays so in a longer log.                                 *)
(***************************************************************************)
LEMMA SoundInLonger ==
    ASSUME NEW s, NEW l, NEW longer, NEW n \in Nat, \A k \in 1..n : l[k] = longer[k],
           Sound(s, n, l)
    PROVE  Sound(s, n, longer)
<1>1. \A c : YieldedBy(c, n, l) => YieldedBy(c, n, longer)
  BY YieldedByMore
<1>2. CommitmentAfter(l, n) = CommitmentAfter(longer, n)
  BY CommitmentOfPrefix
<1> QED
  BY <1>1, <1>2 DEF Sound

(***************************************************************************)
(* Executing the next sub-dag of a log commits to what the log yields.     *)
(***************************************************************************)
LEMMA CommitmentOfNext ==
    ASSUME NEW l, NEW n \in Nat, n - 1 \in Nat, NEW s, s.store = CommitmentAfter(l, n - 1)
    PROVE  Commitment(s, l[n]) = CommitmentAfter(l, n)
<1>1. CommitmentAfter(l, (n - 1) + 1) = CommitmentAfter(l, n - 1) + WritesOf(l[(n - 1) + 1])
      /\ CommitmentAfter(l, n - 1) \in 0..(n - 1)
  BY CommitmentSteps
<1>2. (n - 1) + 1 = n
  OBVIOUS
<1> QED
  BY <1>1, <1>2 DEF Commitment, WritesOf

\* The votes of a sub-dag, but the Byzantine ones, are for what was yielded before it.
VotesYielded(n, subdags) ==
    \A k \in 1..Len(subdags[n].votes) :
        subdags[n].votes[k].author \notin Byzantine =>
            YieldedBy(subdags[n].votes[k].checkpoint, n - 1, subdags)

\* After an execution that recorded votes, each entry is one that was there before or
\* the minted one, and those that a vote is for are certified or have counted it.
WindowProgresses(before, after, votes) ==
    LET p == before.certifier.pending
        window == after.state.certifier.pending
    IN  /\ \A i \in 1..Len(window) :
               \/ \E j \in 1..Len(p) : Progressed(p[j], window[i])
               \/ after.minted # None /\ window[i].local = after.minted
        /\ \A k \in 1..Len(votes) :
               Counts(after.state.certifier, votes[k].author, votes[k].checkpoint)

(***************************************************************************)
(* Executing the next sub-dag of the log, live or in a replay, yields a    *)
(* sound state and mints the sub-dag's checkpoint (validator.rs:299-340):  *)
(* the votes that correct authors cast agree with the window, and those of *)
(* Byzantine ones never reach a quorum, if they are tolerated. The window  *)
(* makes progress, and the votes for what it keeps are counted.            *)
(***************************************************************************)
LEMMA ExecutionSound ==
    ASSUME NEW l \in Seq(CommittedSubDag), Len(l) <= MaxSubdag, NEW n \in 1..Len(l),
           NEW s, Sound(s, n - 1, l), NEW timings \in Timings,
           VotesYielded(n, l), CommitmentAfter(l, n) \in Commitments
    PROVE  LET after == ExecuteSubdag(s, n, l[n], timings)
           IN  /\ Sound(after.state, n, l)
               /\ after.minted # None => YieldedBy(after.minted, n, l)
               /\ WindowProgresses(s, after, l[n].votes)
<1> DEFINE after == ExecuteSubdag(s, n, l[n], timings)
           minted == MintedInto(s, n, l[n], timings)
           store == Commitment(s, l[n])
           c == [anchor |-> n, commitment |-> store]
           p == s.certifier.pending
           q == minted.pending
           window == after.state.certifier.pending
<1>1. /\ n \in Anchors /\ n \in Nat /\ n - 1 \in Nat /\ l[n] \in CommittedSubDag /\ s \in State
      /\ n \in 1..n /\ n - 1 <= n
  BY LenProperties, ElementOfSeq, RoundAssumption DEF Sound, Anchors
<1>2. store = CommitmentAfter(l, n) /\ store \in Commitments
  BY <1>1, CommitmentOfNext DEF Sound
<1>3. Executes(l[n]) => YieldedBy(c, n, l)
  BY <1>1, <1>2 DEF YieldedBy
<1>4. /\ minted \in CheckpointCertifier
      /\ minted.watermark = s.certifier.watermark
      /\ Len(p) \in Nat /\ \A i \in 1..Len(p) : q[i] = p[i]
      /\ \/ Len(q) = Len(p)
         \/ Executes(l[n]) /\ Len(q) = Len(p) + 1 /\ q[Len(p) + 1].local = c
  BY <1>1, <1>2, MintAppends
<1>5. \A d : YieldedBy(d, n - 1, l) => YieldedBy(d, n, l)
  BY <1>1, YieldedByMore
<1>6. /\ \A j \in 1..Len(p) : YieldedBy(p[j].local, n - 1, l)
      /\ CommitOrder(p)
  BY DEF Sound
<1>7. c.anchor = n
  OBVIOUS
<1>8. p \in Seq(PendingCheckpoint) /\ DOMAIN p = 1..Len(p)
  BY <1>1, LenProperties DEF State, CheckpointCertifier
<1>9. q \in Seq(PendingCheckpoint) /\ DOMAIN q = 1..Len(q)
  BY <1>4, LenProperties DEF CheckpointCertifier
<1> HIDE DEF after, minted, c, p, q, window, store
<1>10. \A i \in 1..Len(q) : \/ i \in 1..Len(p) /\ q[i] = p[i]
                            \/ i = Len(p) + 1 /\ Executes(l[n]) /\ q[i].local = c
  BY <1>4
<1>11. CommitOrder(q)
  <2> SUFFICES ASSUME NEW i \in 1..Len(q), NEW j \in 1..Len(q), i < j
               PROVE  q[i].local.anchor < q[j].local.anchor
    BY <1>9 DEF CommitOrder
  <2>1. i \in 1..Len(p) /\ q[i] = p[i]
    BY <1>4, <1>10
  <2>2. p[i].local.anchor \in 1..(n - 1)
    BY <1>6, <2>1 DEF YieldedBy
  <2>3. CASE j \in 1..Len(p)
    BY <1>4, <1>6, <1>8, <2>1, <2>3 DEF CommitOrder
  <2>4. CASE j = Len(p) + 1
    <3>1. q[j].local.anchor = n
      BY <1>4, <1>7, <1>10, <2>4
    <3> QED
      BY <1>1, <2>1, <2>2, <3>1
  <2> QED
    BY <1>10, <2>3, <2>4
<1>12. \A i \in 1..Len(q) : YieldedBy(q[i].local, n, l)
  BY <1>3, <1>5, <1>6, <1>10
<1>13. /\ after.state \in State
       /\ after.state.store = store
       /\ after.minted = IF Executes(l[n]) THEN c ELSE None
  BY <1>1, <1>2, ExecuteSubdagType DEF after, store, c, ExecuteSubdag
<1>14. PICK k : /\ Shifts(minted, after.state.certifier, k)
                /\ CommitOrder(q) =>
                       \A j \in 1..Len(l[n].votes) :
                           Counts(after.state.certifier, l[n].votes[j].author,
                                  l[n].votes[j].checkpoint)
  BY <1>1, <1>2, ExecuteSubdagShifts DEF after, minted, store, q
<1>15. /\ CommitOrder(window)
       /\ \A i \in 1..Len(window) : /\ k + i \in 1..Len(q) /\ window[i].local = q[k + i].local
                                   /\ Progressed(q[k + i], window[i])
  <2>1. after.state.certifier \in CheckpointCertifier
    BY <1>13 DEF State
  <2> QED
    BY <1>4, <1>11, <1>14, <2>1, ShiftsInOrder, ZenonT(60) DEF window, q, Shifts
<1>16. \A i \in 1..Len(window) : YieldedBy(window[i].local, n, l)
  BY <1>12, <1>15
<1>17. ASSUME Tolerated
       PROVE  /\ Honest(after.state.certifier, Byzantine)
              /\ after.state.certifier.watermark # None =>
                     YieldedBy(after.state.certifier.watermark.checkpoint, n, l)
  <2>1. \A k1 \in 1..Len(l[n].votes) :
            Agrees(minted, l[n].votes[k1].author, l[n].votes[k1].checkpoint, Byzantine)
    <3> DEFINE vote(k1) == l[n].votes[k1].checkpoint
    <3> SUFFICES ASSUME NEW k1 \in 1..Len(l[n].votes), l[n].votes[k1].author \notin Byzantine,
                        NEW i \in 1..Len(q), q[i].local.anchor = vote(k1).anchor
                 PROVE  q[i].local = vote(k1)
      BY DEF Agrees, q
    <3>1. vote(k1) \in Checkpoint
      <4>1. l[n].votes[k1] \in Vote
        BY <1>1, LenProperties, ElementOfSeq DEF CommittedSubDag
      <4> QED
        BY <4>1 DEF Vote
    <3>2. YieldedBy(vote(k1), n, l) /\ YieldedBy(q[i].local, n, l)
      BY <1>5, <1>12 DEF VotesYielded
    <3>3. q[i].local \in Checkpoint
      <4>1. q[i] \in PendingCheckpoint
        BY <1>9, LenProperties, ElementOfSeq
      <4> QED
        BY <4>1 DEF PendingCheckpoint
    <3> HIDE DEF vote
    <3> QED
      BY <3>1, <3>2, <3>3 DEF YieldedBy, Checkpoint
  <2>2. NoQuorum(Byzantine) /\ Honest(s.certifier, Byzantine)
    BY <1>17, ToleratedNoQuorum DEF Sound
  <2>3. Honest(after.state.certifier, Byzantine)
        /\ \E k1 : Drops(minted, after.state.certifier, k1)
    BY <1>1, <1>2, <2>1, <2>2, ExecuteSubdagHonest DEF after, minted, store
  <2>4. PICK k1 : Drops(minted, after.state.certifier, k1)
    BY <2>3
  <2>5. k1 # 0 => k1 \in 1..Len(q)
    BY <1>9, <2>4, LenProperties DEF Drops, q
  <2>6. minted.watermark # None => YieldedBy(minted.watermark.checkpoint, n, l)
    BY <1>4, <1>5, <1>17 DEF Sound
  <2> QED
    BY <1>12, <2>3, <2>4, <2>5, <2>6 DEF Drops, q
<1>18. Sound(after.state, n, l)
  BY <1>2, <1>13, <1>15, <1>16, <1>17 DEF Sound, window
<1>19. after.minted # None => YieldedBy(after.minted, n, l)
  BY <1>3, <1>13
<1>20. c # None
  BY <1>1, <1>2, NoneAssumption DEF c, Checkpoint
<1>21. ASSUME NEW i \in 1..Len(window)
       PROVE  \/ \E j \in 1..Len(p) : Progressed(p[j], window[i])
              \/ after.minted # None /\ window[i].local = after.minted
  <2>1. CASE k + i \in 1..Len(p) /\ q[k + i] = p[k + i]
    BY <1>15, <2>1
  <2>2. CASE Executes(l[n]) /\ q[k + i].local = c
    BY <1>13, <1>15, <1>20, <2>2
  <2> QED
    BY <1>10, <1>15, <2>1, <2>2
<1> QED
  BY <1>11, <1>14, <1>18, <1>19, <1>21 DEF WindowProgresses, after, window, p
-----------------------------------------------------------------------------
(***************************************************************************)
(* The inductive invariant: every validator's state is sound, and so is    *)
(* every vote of a correct author, wherever it is.                         *)
(***************************************************************************)
Yielded(n, subdags) == {c \in Checkpoint : YieldedBy(c, n, subdags)}

Inv ==
    /\ TypeOK
    /\ ExecutingSubdags(log) <= MaxCheckpoints
    /\ \A v \in Correct : Sound(state[v], delivered[v], log)
    /\ \A n \in 1..Len(log) : VotesYielded(n, log)
    /\ {proposed, queue} \subseteq [Correct -> Seq(Yielded(Len(log), log))]

(***************************************************************************)
(* A sequence over a set is one over a larger set.                         *)
(***************************************************************************)
LEMMA SeqOfMore ==
    ASSUME NEW S, NEW T, S \subseteq T
    PROVE  Seq(S) \subseteq Seq(T)
<1> SUFFICES ASSUME NEW q \in Seq(S) PROVE q \in Seq(T)
  OBVIOUS
<1>1. q \in [1..Len(q) -> S] /\ Len(q) \in Nat
  BY LenProperties
<1>2. q \in [1..Len(q) -> T]
  BY <1>1
<1> QED
  BY <1>1, <1>2

(***************************************************************************)
(* Types and bounds that the proofs below keep using.                      *)
(***************************************************************************)
LEMMA CommitteeNumbers ==
    ASSUME TypeOK
    PROVE  /\ log \in Seq(CommittedSubDag) /\ Len(log) \in Nat /\ Len(log) <= MaxSubdag
           /\ MaxSubdag \in Nat /\ MaxCheckpoints \in Nat /\ MaxCrashes \in Nat
           /\ DOMAIN log = 1..Len(log)
           /\ \A n \in 1..Len(log) : log[n] \in CommittedSubDag
           /\ \A v \in Correct : /\ delivered[v] \in 0..Len(log) /\ delivered[v] \in Nat
                                 /\ wal[v] \in 0..Len(log)
                                 /\ state[v] \in State
                                 /\ proposed[v] \in Seq(Checkpoint)
                                 /\ queue[v] \in Seq(Checkpoint)
<1>1. log \in Seq(CommittedSubDag) /\ Len(log) <= MaxSubdag
  BY DEF TypeOK
<1>2. /\ Len(log) \in Nat /\ DOMAIN log = 1..Len(log)
      /\ \A n \in 1..Len(log) : log[n] \in CommittedSubDag
  BY <1>1, LenProperties, ElementOfSeq
<1>3. MaxSubdag \in Nat /\ MaxCheckpoints \in Nat /\ MaxCrashes \in Nat
  BY RoundAssumption, CommitteeAssumption
<1>4. \A v \in Correct : /\ delivered[v] \in 0..Len(log) /\ wal[v] \in 0..Len(log)
                         /\ state[v] \in State
                         /\ proposed[v] \in Seq(Checkpoint)
                         /\ queue[v] \in Seq(Checkpoint)
  BY DEF TypeOK
<1>5. 0..Len(log) \subseteq Nat
  BY <1>2
<1> QED
  BY <1>1, <1>2, <1>3, <1>4, <1>5

ExecutingIn(subdags) == Cardinality({m \in DOMAIN subdags : Executes(subdags[m])})

(***************************************************************************)
(* The commitments in reach are those of the model: a log with few enough  *)
(* executing sub-dags has few writes.                                      *)
(***************************************************************************)
LEMMA CommitmentInReach ==
    ASSUME NEW l, NEW m \in Nat, DOMAIN l = 1..m, ExecutingIn(l) <= MaxCheckpoints,
           NEW n \in 0..m
    PROVE  CommitmentAfter(l, n) \in Commitments
<1> DEFINE W == {k \in 1..n : l[k].effect = "writes"}
           E == {k \in DOMAIN l : Executes(l[k])}
<1>1. MaxCheckpoints \in Nat
  BY CommitteeAssumption
<1>2. W \in SUBSET E
  BY DEF Executes
<1>3. IsFiniteSet(E)
  <2>1. IsFiniteSet(1..m) /\ E \in SUBSET (1..m)
    BY FS_Interval
  <2> HIDE DEF E
  <2> QED
    BY <2>1, FS_Subset
<1>4. CommitmentAfter(l, n) = Cardinality(W) /\ ExecutingIn(l) = Cardinality(E)
  BY DEF CommitmentAfter, ExecutingIn
<1> HIDE DEF W, E
<1>5. Cardinality(W) <= Cardinality(E) /\ Cardinality(W) \in Nat /\ Cardinality(E) \in Nat
  BY <1>2, <1>3, FS_Subset, FS_CardinalityType
<1>6. Cardinality(W) \in 0..MaxCheckpoints
  BY <1>1, <1>4, <1>5
<1> QED
  BY <1>4, <1>6, CommitteeAssumption

(***************************************************************************)
(* A validator that executed nothing holds what the empty prefix yields.   *)
(***************************************************************************)
LEMMA NewStateSound ==
    ASSUME NEW l
    PROVE  Sound(NewState, 0, l)
<1>1. /\ NewState.certifier = NewCertifier /\ NewState.store = 0
      /\ NewCertifier.pending = << >> /\ NewCertifier.watermark = None
  BY DEF NewState, NewCertifier
<1>2. Len(<< >>) = 0 /\ DOMAIN << >> = {} /\ 1..0 = {}
  OBVIOUS
<1>3. NewState \in State
  <2>1. NewCertifier \in CheckpointCertifier
    BY EmptySeq DEF NewCertifier, CheckpointCertifier
  <2> QED
    BY <2>1, StateAssumption DEF NewState, State
<1>4. CommitmentAfter(l, 0) = 0
  BY CommitmentSteps
<1>5. CommitOrder(<< >>) /\ Honest(NewCertifier, Byzantine)
  BY <1>1, <1>2 DEF CommitOrder, Honest
<1> QED
  BY <1>1, <1>2, <1>3, <1>4, <1>5 DEF Sound

(***************************************************************************)
(* Initially nothing is committed and nothing is on its way.               *)
(***************************************************************************)
LEMMA InitInv == Init => Inv
<1> SUFFICES ASSUME Init PROVE Inv
  OBVIOUS
<1>1. /\ log = << >> /\ log \in Seq(CommittedSubDag) /\ Len(log) = 0 /\ DOMAIN log = 1..0
      /\ 1..0 = {}
  BY EmptySeq, LenProperties DEF Init
<1>2. MaxSubdag \in Nat /\ MaxCheckpoints \in Nat /\ MaxCrashes \in Nat
  BY RoundAssumption, CommitteeAssumption
<1>3. NewState \in State
  BY NewStateSound DEF Sound
<1>4. TypeOK
  <2>1. \A S : << >> \in Seq(S)
    BY EmptySeq
  <2>2. 0 \in 0..0
    OBVIOUS
  <2> QED
    BY <1>1, <1>2, <1>3, <2>1, <2>2 DEF Init, TypeOK
<1>5. ExecutingSubdags(log) <= MaxCheckpoints
  <2>1. {n \in DOMAIN log : Executes(log[n])} = {}
    BY <1>1
  <2>2. ExecutingSubdags(log) = 0
    BY <2>1, FS_EmptySet DEF ExecutingSubdags
  <2> QED
    BY <1>2, <2>2
<1>6. ASSUME NEW v \in Correct PROVE Sound(state[v], delivered[v], log)
  <2>1. state[v] = NewState /\ delivered[v] = 0
    BY <1>6 DEF Init
  <2> QED
    BY <2>1, NewStateSound
<1>7. \A n \in 1..Len(log) : VotesYielded(n, log)
  BY <1>1
<1>8. {proposed, queue} \subseteq [Correct -> Seq(Yielded(Len(log), log))]
  <2>1. \A S : << >> \in Seq(S)
    BY EmptySeq
  <2> HIDE DEF Yielded
  <2> QED
    BY <2>1 DEF Init
<1> QED
  BY <1>4, <1>5, <1>6, <1>7, <1>8 DEF Inv

(***************************************************************************)
(* Executing the next sub-dag of the log at one validator.                 *)
(***************************************************************************)
LEMMA NextIsSound ==
    ASSUME Inv, NEW v \in Correct, delivered[v] < Len(log), NEW timings \in Timings
    PROVE  LET n == delivered[v] + 1
               after == ExecuteSubdag(state[v], n, log[n], timings)
           IN  /\ n \in 0..Len(log)
               /\ Sound(after.state, n, log)
               /\ after.minted # None => after.minted \in Yielded(Len(log), log)
               /\ WindowProgresses(state[v], after, log[n].votes)
<1>1. /\ log \in Seq(CommittedSubDag) /\ Len(log) \in Nat /\ Len(log) <= MaxSubdag
      /\ delivered[v] \in Nat
  BY CommitteeNumbers DEF Inv
<1>2. PICK n \in 1..Len(log) : n = delivered[v] + 1
  BY <1>1
<1>3. n - 1 = delivered[v] /\ n \in 0..Len(log) /\ n \in Nat /\ n <= Len(log)
  BY <1>1, <1>2
<1>4. Sound(state[v], n - 1, log) /\ VotesYielded(n, log) /\ CommitmentAfter(log, n) \in Commitments
  <2>1. DOMAIN log = 1..Len(log) /\ ExecutingIn(log) <= MaxCheckpoints
    BY CommitteeNumbers DEF Inv, ExecutingIn, ExecutingSubdags
  <2>2. CommitmentAfter(log, n) \in Commitments
    BY <1>1, <1>3, <2>1, CommitmentInReach
  <2> QED
    BY <1>3, <2>2 DEF Inv
<1> DEFINE after == ExecuteSubdag(state[v], n, log[n], timings)
<1>5. /\ Sound(after.state, n, log) /\ (after.minted # None => YieldedBy(after.minted, n, log))
      /\ WindowProgresses(state[v], after, log[n].votes)
  BY <1>1, <1>4, ExecutionSound
<1>6. after.minted # None => after.minted \in Checkpoint
  <2>1. after.minted # None => after.minted = [anchor |-> n, commitment |-> Commitment(state[v], log[n])]
    BY DEF ExecuteSubdag
  <2> HIDE DEF after
  <2>2. after.minted # None => after.minted.commitment = CommitmentAfter(log, n)
    <3>1. after.minted # None => after.minted.anchor = n
      BY <2>1
    <3> QED
      BY <1>5, <3>1 DEF YieldedBy
  <2>3. n \in Anchors
    BY <1>1, <1>3, RoundAssumption DEF Anchors
  <2> QED
    BY <1>4, <2>1, <2>2, <2>3 DEF Checkpoint
<1> HIDE DEF after
<1>7. after.minted # None => YieldedBy(after.minted, Len(log), log)
  BY <1>1, <1>3, <1>5, YieldedByMore
<1> QED
  BY <1>2, <1>3, <1>5, <1>6, <1>7 DEF Yielded, after

(***************************************************************************)
(* The votes that consensus may commit: a correct author's are ones that   *)
(* it submitted.                                                           *)
(***************************************************************************)
LEMMA VotesOfNextSubdag ==
    ASSUME Inv, NEW votes \in SeqOf(VotesInReach, MaxVotes)
    PROVE  /\ votes \in Seq(Vote)
           /\ \A k \in 1..Len(votes) :
                  votes[k].author \notin Byzantine =>
                      YieldedBy(votes[k].checkpoint, Len(log), log)
<1> DEFINE sent == UNION {{[author |-> a, checkpoint |-> c] : c \in Range(proposed[a])} :
                              a \in Correct}
           forged == [author : Byzantine,
                      checkpoint : [anchor : {n \in DOMAIN log : Executes(log[n])},
                                    commitment : 0..MaxCheckpoints]]
<1>1. /\ DOMAIN log = 1..Len(log) /\ Len(log) \in Nat
      /\ Len(log) <= MaxSubdag /\ MaxSubdag \in Nat
  BY CommitteeNumbers DEF Inv
<1>2. PICK m \in 0..MaxVotes : votes \in [1..m -> VotesInReach]
  BY DEF SeqOf
<1>3. m \in Nat
  BY <1>2, CommitteeAssumption
<1>4. \A x \in sent : x \in Vote /\ YieldedBy(x.checkpoint, Len(log), log)
  <2> SUFFICES ASSUME NEW a \in Correct, NEW c \in Range(proposed[a])
               PROVE  c \in Checkpoint /\ YieldedBy(c, Len(log), log) /\ a \in Authorities
    BY DEF Vote
  <2>1. proposed[a] \in Seq(Yielded(Len(log), log))
    BY DEF Inv
  <2>2. c \in Yielded(Len(log), log)
    BY <2>1, LenProperties, ElementOfSeq DEF Range
  <2> QED
    BY <2>2 DEF Yielded, Correct
<1>5. \A x \in forged : x \in Vote /\ x.author \in Byzantine
  <2> SUFFICES ASSUME NEW x \in forged
               PROVE  x \in Vote /\ x.author \in Byzantine
    OBVIOUS
  <2>1. x.author \in Byzantine /\ x.author \in Authorities
    BY CommitteeAssumption
  <2>2. x.checkpoint \in Checkpoint
    <3>1. x.checkpoint.anchor \in Anchors
      BY <1>1 DEF Anchors
    <3>2. x.checkpoint.commitment \in Commitments
      BY CommitteeAssumption
    <3> QED
      BY <3>1, <3>2 DEF Checkpoint
  <2> QED
    BY <2>1, <2>2 DEF Vote
<1>6. VotesInReach = sent \cup forged
  BY DEF VotesInReach
<1> HIDE DEF sent, forged
<1>7. votes \in Seq(Vote) /\ Len(votes) = m
  BY <1>2, <1>3, <1>4, <1>5, <1>6
<1>8. \A k \in 1..Len(votes) : votes[k] \in sent \/ votes[k] \in forged
  BY <1>2, <1>7, <1>6
<1> QED
  BY <1>4, <1>5, <1>7, <1>8

(***************************************************************************)
(* Consensus commits a sub-dag.                                            *)
(***************************************************************************)
LEMMA CommitInv ==
    ASSUME Inv, CommitSome
    PROVE  Inv'
<1>1. PICK effect \in Effects, votes \in SeqOf(VotesInReach, MaxVotes) : Commit(effect, votes)
  BY CommitteeAssumption DEF CommitSome
<1> DEFINE L == Len(log)
           subdag == [effect |-> effect, votes |-> votes]
<1>2. /\ log \in Seq(CommittedSubDag) /\ L \in Nat /\ MaxSubdag \in Nat
      /\ DOMAIN log = 1..L /\ MaxCheckpoints \in Nat
      /\ \A v \in Correct : delivered[v] \in 0..L /\ delivered[v] \in Nat /\ wal[v] \in 0..L
  BY CommitteeNumbers DEF Inv
<1>3. /\ votes \in Seq(Vote)
      /\ \A k \in 1..Len(votes) : votes[k].author \notin Byzantine =>
             YieldedBy(votes[k].checkpoint, L, log)
  BY VotesOfNextSubdag
<1>4. subdag \in CommittedSubDag
  BY <1>3 DEF CommittedSubDag
<1>5. /\ L < MaxSubdag /\ log' = Append(log, subdag)
      /\ WithinBounds(log', crashes)
      /\ proposed' = [a \in Correct |-> SubSeq(proposed[a], Len(CheckpointsOf(a, votes)) + 1,
                                               Len(proposed[a]))]
      /\ UNCHANGED <<phase, delivered, wal, state, queue, crashes>>
  BY <1>1 DEF Commit
<1> HIDE DEF subdag, L
<1>6. /\ log' \in Seq(CommittedSubDag) /\ Len(log') = L + 1
      /\ \A n \in 1..L : log'[n] = log[n]
      /\ log'[L + 1] = subdag
      /\ DOMAIN log' = 1..(L + 1)
  <2>1. Append(log, subdag) \in Seq(CommittedSubDag)
    BY <1>2, <1>4, AppendProperties
  <2>2. /\ Len(Append(log, subdag)) = L + 1
        /\ \A n \in 1..L : Append(log, subdag)[n] = log[n]
        /\ Append(log, subdag)[L + 1] = subdag
    BY <1>2, <1>4, AppendProperties DEF L
  <2>3. DOMAIN Append(log, subdag) = 1..Len(Append(log, subdag))
    BY <2>1, LenProperties
  <2> QED
    BY <1>5, <2>1, <2>2, <2>3
<1>7. \A c : YieldedBy(c, L, log) => YieldedBy(c, L + 1, log') /\ YieldedBy(c, L, log')
  <2>1. L + 1 \in Nat /\ L <= L + 1 /\ L <= L
    BY <1>2
  <2> QED
    BY <1>2, <1>6, <2>1, YieldedByMore
<1>8. Yielded(L, log) \subseteq Yielded(L + 1, log') /\ Yielded(L, log) \subseteq Checkpoint
  BY <1>7 DEF Yielded
<1>9. {proposed', queue'} \subseteq [Correct -> Seq(Yielded(L + 1, log'))]
  <2> DEFINE Y == Yielded(L, log)
             Z == Yielded(L + 1, log')
  <2>1. proposed \in [Correct -> Seq(Y)] /\ queue \in [Correct -> Seq(Y)]
    BY DEF Inv, L
  <2> HIDE DEF Y, Z
  <2>2. Seq(Y) \subseteq Seq(Z)
    BY <1>8, SeqOfMore DEF Y, Z
  <2>3. queue' \in [Correct -> Seq(Z)]
    BY <1>5, <2>1, <2>2
  <2>4. ASSUME NEW a \in Correct
        PROVE  SubSeq(proposed[a], Len(CheckpointsOf(a, votes)) + 1, Len(proposed[a])) \in Seq(Y)
    <3> DEFINE q == proposed[a]
               cut == Len(CheckpointsOf(a, votes))
    <3>1. cut \in Nat
      BY <1>3, CheckpointsOfType, LenProperties
    <3>2. q \in Seq(Y) /\ Len(q) \in Nat
      BY <2>1, LenProperties
    <3> HIDE DEF q, cut
    <3>3. \A i \in (cut + 1)..Len(q) : q[i] \in Y
      <4> TAKE i \in (cut + 1)..Len(q)
      <4>1. i \in 1..Len(q)
        BY <3>1, <3>2
      <4> QED
        BY <3>2, <4>1, ElementOfSeq
    <3>4. cut + 1 \in Int /\ Len(q) \in Int
      BY <3>1, <3>2
    <3>5. SubSeq(q, cut + 1, Len(q)) \in Seq(Y)
      BY <3>3, <3>4, SubSeqProperties
    <3> QED
      BY <3>5 DEF q, cut
  <2>5. proposed' \in [Correct -> Seq(Z)]
    BY <1>5, <2>2, <2>4
  <2> QED
    BY <2>3, <2>5 DEF Z
<1>10. ExecutingSubdags(log') <= MaxCheckpoints
  BY <1>5 DEF WithinBounds
<1>11. \A v \in Correct : Sound(state'[v], delivered'[v], log')
  <2> TAKE v \in Correct
  <2>1. Sound(state[v], delivered[v], log) /\ delivered[v] \in Nat
    BY <1>2 DEF Inv
  <2>2. \A k \in 1..delivered[v] : log[k] = log'[k]
    <3>1. \A k \in 1..delivered[v] : k \in 1..L
      BY <1>2
    <3> QED
      BY <1>6, <3>1
  <2>3. Sound(state[v], delivered[v], log')
    BY <2>1, <2>2, SoundInLonger
  <2> QED
    BY <1>5, <2>3
<1>12. \A n \in 1..(L + 1) : VotesYielded(n, log')
  <2> TAKE n \in 1..(L + 1)
  <2>1. CASE n \in 1..L
    <3>1. VotesYielded(n, log) /\ log'[n] = log[n]
      BY <1>6, <2>1 DEF Inv, L
    <3>2. \A c : YieldedBy(c, n - 1, log) => YieldedBy(c, n - 1, log')
      <4>1. n - 1 \in Nat /\ n - 1 <= n - 1 /\ \A k \in 1..(n - 1) : k \in 1..L
        BY <1>2, <2>1
      <4> QED
        BY <1>6, <4>1, YieldedByMore
    <3> QED
      BY <3>1, <3>2 DEF VotesYielded
  <2>2. CASE n = L + 1
    <3>1. log'[n].votes = votes /\ n - 1 = L
      BY <1>2, <1>6, <2>2 DEF subdag
    <3> QED
      BY <1>3, <1>7, <3>1 DEF VotesYielded
  <2> QED
    BY <1>2, <2>1, <2>2
<1>13. TypeOK'
  <2>1. log' \in Seq(CommittedSubDag) /\ Len(log') <= MaxSubdag
    BY <1>2, <1>5, <1>6
  <2>2. proposed' \in [Correct -> Seq(Checkpoint)]
    <3>1. Seq(Yielded(L + 1, log')) \subseteq Seq(Checkpoint)
      BY SeqOfMore DEF Yielded
    <3> QED
      BY <1>9, <3>1
  <2>3. {delivered', wal'} \subseteq [Correct -> 0..Len(log')]
    <3>1. 0..L \subseteq 0..(L + 1)
      BY <1>2
    <3>2. delivered \in [Correct -> 0..L] /\ wal \in [Correct -> 0..L]
      BY DEF Inv, TypeOK, L
    <3> QED
      BY <1>5, <1>6, <3>1, <3>2
  <2>4. /\ phase' \in [Correct -> {"running", "down", "replaying", "broken"}]
        /\ state' \in [Correct -> State] /\ queue' \in [Correct -> Seq(Checkpoint)]
        /\ crashes' \in 0..MaxCrashes
    BY <1>5 DEF Inv, TypeOK
  <2> QED
    BY <2>1, <2>2, <2>3, <2>4 DEF TypeOK
<1> QED
  BY <1>6, <1>9, <1>10, <1>11, <1>12, <1>13 DEF Inv

(***************************************************************************)
(* A validator executes the next sub-dag: the driver, which then attests   *)
(* to what it minted, or the replay, which does not.                       *)
(***************************************************************************)
LEMMA ExecuteInv ==
    ASSUME Inv, NEW v \in Correct, Deliver(v) \/ Replay(v)
    PROVE  Inv'
<1> DEFINE n == delivered[v] + 1
           timings == IF phase[v] = "running" THEN "live" ELSE "replayed"
           after == ExecuteSubdag(state[v], n, log[n], timings)
           Y == Yielded(Len(log), log)
<1>1. /\ Len(log) \in Nat /\ wal[v] \in 0..Len(log) /\ delivered[v] \in Nat
      /\ delivered[v] \in 0..Len(log)
  BY CommitteeNumbers DEF Inv
<1>2. /\ delivered[v] < Len(log) /\ timings \in Timings
      /\ log' = log /\ proposed' = proposed /\ phase' = phase /\ wal' = wal
      /\ crashes' = crashes
      /\ state' = [state EXCEPT ![v] = after.state]
      /\ delivered' = [delivered EXCEPT ![v] = n]
      /\ \/ queue' = queue
         \/ after.minted # None /\ queue' = [queue EXCEPT ![v] = Append(@, after.minted)]
  <2>1. CASE Deliver(v)
    BY <2>1, StateAssumption DEF Deliver, Executed, consensus
  <2>2. CASE Replay(v)
    <3>1. delivered[v] < Len(log)
      BY <1>1, <2>2 DEF Replay
    <3> QED
      BY <2>2, <3>1, StateAssumption DEF Replay, Replayed, Executed, consensus
  <2> QED
    BY <2>1, <2>2
<1> HIDE DEF timings
<1>3. /\ n \in 0..Len(log)
      /\ Sound(after.state, n, log)
      /\ after.minted # None => after.minted \in Y
  BY <1>2, NextIsSound
<1> HIDE DEF after, n, Y
<1>4. /\ state \in [Correct -> State] /\ delivered \in [Correct -> 0..Len(log)]
      /\ queue \in [Correct -> Seq(Y)] /\ proposed \in [Correct -> Seq(Y)]
  BY DEF Inv, TypeOK, Y
<1>5. queue' \in [Correct -> Seq(Y)]
  <2>1. CASE queue' = queue
    BY <1>4, <2>1
  <2>2. CASE after.minted # None /\ queue' = [queue EXCEPT ![v] = Append(@, after.minted)]
    <3>1. Append(queue[v], after.minted) \in Seq(Y)
      BY <1>3, <1>4, <2>2, AppendProperties
    <3> QED
      BY <1>4, <2>2, <3>1
  <2> QED
    BY <1>2, <2>1, <2>2
<1>6. Seq(Y) \subseteq Seq(Checkpoint)
  BY SeqOfMore DEF Y, Yielded
<1>7. TypeOK'
  <2>1. state' \in [Correct -> State] /\ delivered' \in [Correct -> 0..Len(log)]
    BY <1>2, <1>3, <1>4 DEF Sound
  <2>2. queue' \in [Correct -> Seq(Checkpoint)]
    BY <1>5, <1>6
  <2> QED
    BY <1>2, <2>1, <2>2 DEF Inv, TypeOK
<1>8. \A w \in Correct : Sound(state'[w], delivered'[w], log')
  <2> TAKE w \in Correct
  <2>1. CASE w = v
    BY <1>2, <1>3, <1>4, <2>1
  <2>2. CASE w # v
    BY <1>2, <1>4, <2>2 DEF Inv
  <2> QED
    BY <2>1, <2>2
<1>9. {proposed', queue'} \subseteq [Correct -> Seq(Yielded(Len(log'), log'))]
  BY <1>2, <1>4, <1>5 DEF Y
<1>10. ExecutingSubdags(log') = ExecutingSubdags(log)
  BY <1>2
<1> QED
  BY <1>2, <1>7, <1>8, <1>9, <1>10 DEF Inv

(***************************************************************************)
(* The replica moves votes into blocks, and a validator dies, restarts and *)
(* re-attests to what its replay left uncertified.                         *)
(***************************************************************************)
LEMMA OtherStepsInv ==
    ASSUME Inv, NEW v \in Correct, Propose(v) \/ Crash(v) \/ Break(v) \/ Restart(v) \/ Resume(v)
    PROVE  Inv'
<1> DEFINE Y == Yielded(Len(log), log)
<1>1. /\ Len(log) \in Nat /\ MaxCrashes \in Nat
      /\ delivered[v] \in 0..Len(log) /\ wal[v] \in 0..Len(log)
  BY CommitteeNumbers DEF Inv
<1>2. log' = log
  BY DEF Propose, Crash, Break, LoseMemory, Restart, Resume, consensus
<1>3. /\ queue \in [Correct -> Seq(Y)] /\ proposed \in [Correct -> Seq(Y)]
      /\ wal \in [Correct -> 0..Len(log)] /\ delivered \in [Correct -> 0..Len(log)]
      /\ state \in [Correct -> State] /\ crashes \in 0..MaxCrashes
      /\ phase \in [Correct -> {"running", "down", "replaying", "broken"}]
  BY DEF Inv, TypeOK
<1>4. << >> \in Seq(Y)
  BY EmptySeq
<1>5. SUFFICES /\ TypeOK'
               /\ \A w \in Correct : Sound(state'[w], delivered'[w], log)
               /\ {proposed', queue'} \subseteq [Correct -> Seq(Y)]
  BY <1>2 DEF Inv
<1>6. Seq(Y) \subseteq Seq(Checkpoint)
  BY SeqOfMore DEF Yielded
<1>7. \A w \in Correct : Sound(state[w], delivered[w], log)
  BY DEF Inv
<1>8. log \in Seq(CommittedSubDag) /\ Len(log) <= MaxSubdag
  BY DEF Inv, TypeOK
<1> HIDE DEF Y
<1>9. CASE Propose(v)
  <2>1. proposed[v] \o queue[v] \in Seq(Y)
    BY <1>3, ConcatProperties
  <2>2. proposed' \in [Correct -> Seq(Y)] /\ queue' \in [Correct -> Seq(Y)]
    BY <1>3, <1>4, <1>9, <2>1 DEF Propose
  <2>3. TypeOK'
    BY <1>2, <1>3, <1>6, <1>8, <1>9, <2>2 DEF Propose, TypeOK
  <2> QED
    BY <1>7, <1>9, <2>2, <2>3 DEF Propose
<1>10. CASE Crash(v) \/ Break(v)
  <2>1. /\ phase' \in [Correct -> {"running", "down", "replaying", "broken"}]
        /\ delivered' = [delivered EXCEPT ![v] = 0]
        /\ state' = [state EXCEPT ![v] = NewState]
        /\ queue' = [queue EXCEPT ![v] = << >>]
        /\ proposed' = proposed /\ crashes' \in 0..MaxCrashes
    <3>1. LoseMemory(v)
      BY <1>10 DEF Crash, Break
    <3>2. phase' = [phase EXCEPT ![v] = "down"] \/ phase' = [phase EXCEPT ![v] = "broken"]
      BY <1>10 DEF Crash, Break
    <3>3. crashes' \in 0..MaxCrashes
      BY <1>1, <1>3, <3>1 DEF LoseMemory, WithinBounds
    <3> QED
      BY <1>3, <3>1, <3>2, <3>3 DEF LoseMemory, consensus
  <2>2. wal' \in [Correct -> 0..Len(log)]
    <3>1. PICK committed \in 0..Len(log) : wal' = [wal EXCEPT ![v] = committed]
      BY <1>1, <1>10 DEF Crash, Break
    <3> QED
      BY <1>3, <3>1
  <2>3. Sound(NewState, 0, log)
    BY NewStateSound
  <2>4. queue' \in [Correct -> Seq(Y)]
    BY <1>3, <1>4, <2>1
  <2>5. TypeOK'
    <3>1. 0 \in 0..Len(log)
      BY <1>1
    <3>2. NewState \in State
      BY <2>3 DEF Sound
    <3>3. delivered' \in [Correct -> 0..Len(log)] /\ state' \in [Correct -> State]
      BY <1>3, <2>1, <3>1, <3>2
    <3> QED
      BY <1>2, <1>3, <1>6, <1>8, <2>1, <2>2, <2>4, <3>3 DEF TypeOK
  <2>6. \A w \in Correct : Sound(state'[w], delivered'[w], log)
    <3> TAKE w \in Correct
    <3>1. CASE w = v
      BY <1>3, <2>1, <2>3, <3>1
    <3>2. CASE w # v
      BY <1>3, <1>7, <2>1, <3>2
    <3> QED
      BY <3>1, <3>2
  <2> QED
    BY <1>3, <2>1, <2>4, <2>5, <2>6
<1>11. CASE Restart(v)
  <2>1. phase' \in [Correct -> {"running", "down", "replaying", "broken"}]
        /\ UNCHANGED <<log, proposed, delivered, wal, state, queue, crashes>>
    BY <1>3, <1>11 DEF Restart, consensus
  <2>2. TypeOK'
    BY <1>2, <1>3, <1>6, <1>8, <2>1 DEF TypeOK
  <2> QED
    BY <1>3, <1>7, <2>1, <2>2
<1>12. CASE Resume(v)
  <2>1. /\ phase' = [phase EXCEPT ![v] = "running"]
        /\ queue' = [queue EXCEPT ![v] = Uncertified(state[v])]
        /\ UNCHANGED <<log, proposed, delivered, wal, state, crashes>>
    BY <1>12 DEF Resume, ReAttestations, consensus
  <2>2. Uncertified(state[v]) \in Seq(Y)
    <3> DEFINE p == state[v].certifier.pending
    <3>1. p \in Seq(PendingCheckpoint) /\ Len(p) \in Nat /\ DOMAIN p = 1..Len(p)
      BY <1>3, LenProperties DEF State, CheckpointCertifier
    <3>2. \A i \in 1..Len(p) : p[i].local \in Y
      <4> TAKE i \in 1..Len(p)
      <4>1. p[i].local \in Checkpoint
        <5>1. p[i] \in PendingCheckpoint
          BY <3>1, ElementOfSeq
        <5> QED
          BY <5>1 DEF PendingCheckpoint
      <4>2. YieldedBy(p[i].local, delivered[v], log)
        BY <1>7 DEF Sound
      <4>3. YieldedBy(p[i].local, Len(log), log)
        <5>1. delivered[v] \in Nat /\ delivered[v] <= Len(log)
          BY <1>1
        <5> HIDE DEF p
        <5> QED
          BY <1>1, <4>2, <5>1, YieldedByMore
      <4> QED
        BY <4>1, <4>3 DEF Y, Yielded
    <3>3. Uncertified(state[v]) = [i \in 1..Len(p) |-> p[i].local]
      BY <3>1 DEF Uncertified
    <3> HIDE DEF p
    <3> QED
      BY <3>1, <3>2, <3>3
  <2>3. queue' \in [Correct -> Seq(Y)] /\ phase' \in [Correct -> {"running", "down", "replaying", "broken"}]
    BY <1>3, <2>1, <2>2
  <2>4. TypeOK'
    BY <1>2, <1>3, <1>6, <1>8, <2>1, <2>3 DEF TypeOK
  <2> QED
    BY <1>3, <1>7, <2>1, <2>3, <2>4
<1> QED
  BY <1>9, <1>10, <1>11, <1>12

(***************************************************************************)
(* The invariant holds in every state.                                     *)
(***************************************************************************)
LEMMA CommitteeInvariant == Spec => []Inv
<1>1. Init => Inv
  BY InitInv
<1>2. Inv /\ [Next]_vars => Inv'
  <2>1. ASSUME Inv, Next PROVE Inv'
    <3>1. CASE CommitSome
      BY <2>1, <3>1, CommitInv
    <3>2. ASSUME NEW v \in Correct, Step(v) PROVE Inv'
      BY <2>1, <3>2, ExecuteInv, OtherStepsInv DEF Step
    <3> QED
      BY <2>1, <3>1, <3>2 DEF Next
  <2>2. ASSUME Inv, UNCHANGED vars PROVE Inv'
    BY <2>2 DEF Inv, TypeOK, vars
  <2> QED
    BY <2>1, <2>2
<1> QED
  BY <1>1, <1>2, PTL DEF Spec

(***************************************************************************)
(* The log, the WALs and the validators' states stay well-formed.          *)
(***************************************************************************)
THEOREM CommitteeType == Spec => []TypeOK
<1>1. Inv => TypeOK
  BY DEF Inv
<1> QED
  BY <1>1, CommitteeInvariant, PTL

(***************************************************************************)
(* A correct validator never equivocates, before and after crashes: it     *)
(* attests the one commitment of a sub-dag that executed, and its vote is  *)
(* only delivered in a later one (certifier.rs:107-109, validator.rs:169). *)
(***************************************************************************)
THEOREM CorrectNeverEquivocate == Spec => []CorrectVotesAreTruthful
<1>1. Inv => CorrectVotesAreTruthful
  <2> SUFFICES ASSUME Inv PROVE CorrectVotesAreTruthful
    OBVIOUS
  <2> DEFINE Truthful(c, n) == /\ c.anchor < n
                               /\ Executes(log[c.anchor])
                               /\ c.commitment = StoreAt(c.anchor)
  <2>1. Len(log) \in Nat /\ DOMAIN log = 1..Len(log)
        /\ \A n \in 1..Len(log) : log[n] \in CommittedSubDag
    BY CommitteeNumbers DEF Inv
  <2>2. \A n \in Nat : \A c : YieldedBy(c, n, log) => Truthful(c, n + 1)
    <3> SUFFICES ASSUME NEW n \in Nat, NEW c, YieldedBy(c, n, log)
                 PROVE  Truthful(c, n + 1)
      OBVIOUS
    <3>1. c.anchor < n + 1
      BY DEF YieldedBy
    <3> QED
      BY <3>1 DEF YieldedBy, StoreAt
  <2> HIDE DEF Truthful
  <2>3. ASSUME NEW n \in DOMAIN log, NEW vote \in Range(log[n].votes), vote.author \in Correct
        PROVE  Truthful(vote.checkpoint, n)
    <3>1. PICK k \in 1..Len(log[n].votes) : vote = log[n].votes[k]
      <4>1. log[n].votes \in Seq(Vote)
        BY <2>1 DEF CommittedSubDag
      <4> QED
        BY <4>1, LenProperties DEF Range
    <3>2. YieldedBy(vote.checkpoint, n - 1, log)
      BY <2>1, <2>3, <3>1 DEF Inv, VotesYielded, Correct
    <3>3. n - 1 \in Nat /\ (n - 1) + 1 = n
      BY <2>1
    <3>4. Truthful(vote.checkpoint, (n - 1) + 1)
      BY <2>2, <3>2, <3>3
    <3> QED
      BY <3>3, <3>4
  <2>4. ASSUME NEW v \in Correct, NEW c \in Range(proposed[v] \o queue[v])
        PROVE  Truthful(c, Len(log) + 1)
    <3> DEFINE Y == Yielded(Len(log), log)
    <3>1. proposed[v] \in Seq(Y) /\ queue[v] \in Seq(Y)
      BY DEF Inv
    <3> HIDE DEF Y
    <3>2. proposed[v] \o queue[v] \in Seq(Y)
      BY <3>1, ConcatProperties
    <3>3. c \in Y
      <4> DEFINE q == proposed[v] \o queue[v]
      <4>1. c \in Range(q)
        OBVIOUS
      <4> HIDE DEF q
      <4>2. \E i \in 1..Len(q) : c = q[i]
        BY <3>2, <4>1, LenProperties DEF Range, q
      <4> QED
        BY <3>2, <4>2, ElementOfSeq DEF q
    <3> QED
      BY <2>1, <2>2, <3>3 DEF Y, Yielded
  <2> QED
    BY <2>3, <2>4 DEF CorrectVotesAreTruthful, Truthful
<1> QED
  BY <1>1, CommitteeInvariant, PTL

(***************************************************************************)
(* What is certified is what executing the log yields, whatever the        *)
(* Byzantine authorities attest to (checkpoint.rs:47-48).                  *)
(***************************************************************************)
THEOREM CertifiedIsExecuted ==
    ASSUME Tolerated
    PROVE  Spec => []CertifiedWasExecuted
<1>1. Inv => CertifiedWasExecuted
  <2> SUFFICES ASSUME Inv, NEW v \in Correct
               PROVE  LET pending == state[v].certifier.pending
                          watermark == state[v].certifier.watermark
                          Right(c) == c # None => c.checkpoint.commitment = StoreAt(c.checkpoint.anchor)
                      IN  Right(watermark) /\ \A i \in DOMAIN pending : Right(pending[i].certificate)
    BY DEF CertifiedWasExecuted
  <2>1. Sound(state[v], delivered[v], log) /\ state[v] \in State
    BY DEF Inv, Sound
  <2>2. DOMAIN state[v].certifier.pending = 1..Len(state[v].certifier.pending)
    BY <2>1, LenProperties DEF State, CheckpointCertifier
  <2> QED
    BY <2>1, <2>2, SMTT(40) DEF Sound, YieldedBy, Honest, HonestEntry, Certified, StoreAt
<1> QED
  BY <1>1, CommitteeInvariant, PTL
-----------------------------------------------------------------------------
(***************************************************************************)
(* The states that executing a log live, one sub-dag after the other,      *)
(* goes through, and a validator's state that differs from one of them in  *)
(* the timings of its window at most.                                      *)
(***************************************************************************)
Runs(r, subdags) ==
    /\ r \in [0..Len(subdags) -> State]
    /\ r[0] = NewState
    /\ \A n \in 1..Len(subdags) :
           /\ r[n] = ExecuteSubdag(r[n - 1], n, subdags[n], "live").state
           /\ r[n].store = CommitmentAfter(subdags, n)

Follows(s, expected) ==
    s.store = expected.store /\ SameButTimings(s.certifier, expected.certifier)

\* The inductive invariant: there is one such run, and all validators are on it.
Determined == \E r : Runs(r, log) /\ \A v \in Correct : Follows(state[v], r[delivered[v]])

(***************************************************************************)
(* A run of a log is extended by the execution of the sub-dag that         *)
(* consensus commits next.                                                 *)
(***************************************************************************)
LEMMA RunOfLonger ==
    ASSUME NEW l \in Seq(CommittedSubDag), NEW subdag \in CommittedSubDag,
           Len(l) < MaxSubdag, CommitmentAfter(Append(l, subdag), Len(l) + 1) \in Commitments,
           NEW r, Runs(r, l)
    PROVE  \E longer : Runs(longer, Append(l, subdag)) /\ \A n \in 0..Len(l) : longer[n] = r[n]
<1> DEFINE L == Len(l)
           m == Append(l, subdag)
           next == ExecuteSubdag(r[L], L + 1, subdag, "live").state
           longer == [n \in 0..(L + 1) |-> IF n = L + 1 THEN next ELSE r[n]]
<1>1. /\ L \in Nat /\ MaxSubdag \in Nat /\ Len(m) = L + 1 /\ m[L + 1] = subdag
      /\ \A n \in 1..L : m[n] = l[n]
  BY LenProperties, AppendProperties, RoundAssumption
<1>2. L + 1 \in Anchors
  BY <1>1 DEF Anchors
<1>3. r[L] \in State /\ r[L].store = CommitmentAfter(l, L)
  <2>1. CASE L = 0
    BY <2>1, CommitmentSteps DEF Runs, NewState
  <2>2. CASE L # 0
    BY <1>1, <2>2 DEF Runs
  <2> QED
    BY <2>1, <2>2
<1>4. \A n \in 0..L : CommitmentAfter(m, n) = CommitmentAfter(l, n)
  <2> TAKE n \in 0..L
  <2>1. n \in Nat /\ \A k \in 1..n : m[k] = l[k]
    BY <1>1
  <2> HIDE DEF m
  <2> QED
    BY <2>1, CommitmentOfPrefix
<1> HIDE DEF L, m
<1>5. Commitment(r[L], subdag) = CommitmentAfter(m, L + 1)
  <2>1. L + 1 \in Nat /\ (L + 1) - 1 = L /\ r[L].store = CommitmentAfter(m, L)
    BY <1>1, <1>3, <1>4
  <2>2. r[L].store = CommitmentAfter(m, (L + 1) - 1)
    BY <2>1
  <2>3. PICK n \in Nat : n = L + 1
    BY <2>1
  <2> QED
    BY <1>1, <2>1, <2>2, <2>3, CommitmentOfNext
<1>6. next \in State /\ next.store = CommitmentAfter(m, L + 1)
  <2>1. Commitment(r[L], subdag) \in Commitments /\ "live" \in Timings
    BY <1>5, StateAssumption DEF L, m
  <2> HIDE DEF next
  <2> QED
    BY <1>2, <1>3, <1>5, <2>1, ExecuteSubdagType DEF next
<1>7. /\ longer \in [0..(L + 1) -> State]
      /\ \A n \in 0..L : longer[n] = r[n]
      /\ longer[L + 1] = next
  <2>1. \A n \in 0..L : n # L + 1 /\ n \in 0..(L + 1) /\ r[n] \in State
    BY <1>1 DEF Runs, L
  <2>2. \A n \in 0..(L + 1) : n = L + 1 \/ n \in 0..L
    BY <1>1
  <2>3. L + 1 \in 0..(L + 1)
    BY <1>1
  <2> HIDE DEF next
  <2> QED
    BY <1>6, <2>1, <2>2, <2>3
<1> HIDE DEF longer
<1>8. ASSUME NEW n \in 1..(L + 1)
      PROVE  /\ longer[n] = ExecuteSubdag(longer[n - 1], n, m[n], "live").state
             /\ longer[n].store = CommitmentAfter(m, n)
  <2>1. CASE n = L + 1
    <3>1. longer[n - 1] = r[L]
      BY <1>1, <1>7, <2>1
    <3> QED
      BY <1>1, <1>6, <1>7, <2>1, <3>1
  <2>2. CASE n \in 1..L
    <3>1. longer[n] = r[n] /\ longer[n - 1] = r[n - 1] /\ m[n] = l[n]
          /\ CommitmentAfter(m, n) = CommitmentAfter(l, n)
      BY <1>1, <1>4, <1>7, <2>2
    <3> QED
      BY <2>2, <3>1 DEF Runs, L
  <2> QED
    BY <1>1, <2>1, <2>2
<1>9. longer[0] = NewState
  BY <1>1, <1>7 DEF Runs
<1>10. Runs(longer, m)
  BY <1>1, <1>7, <1>8, <1>9 DEF Runs
<1> QED
  BY <1>7, <1>10 DEF m, L

(***************************************************************************)
(* The commit of a sub-dag extends the run, and moves no validator.        *)
(***************************************************************************)
LEMMA CommitDetermined ==
    ASSUME Inv, Inv', Determined, CommitSome
    PROVE  Determined'
<1>1. PICK effect \in Effects, votes \in SeqOf(VotesInReach, MaxVotes) : Commit(effect, votes)
  BY CommitteeAssumption DEF CommitSome
<1> DEFINE subdag == [effect |-> effect, votes |-> votes]
<1>2. /\ log \in Seq(CommittedSubDag) /\ Len(log) \in Nat
      /\ \A v \in Correct : delivered[v] \in 0..Len(log)
  BY CommitteeNumbers DEF Inv
<1>3. /\ Len(log) < MaxSubdag /\ log' = Append(log, subdag)
      /\ state' = state /\ delivered' = delivered
  BY <1>1 DEF Commit
<1>4. subdag \in CommittedSubDag
  BY VotesOfNextSubdag DEF CommittedSubDag
<1>5. CommitmentAfter(log', Len(log) + 1) \in Commitments
  <2>1. log' \in Seq(CommittedSubDag) /\ Len(log') = Len(log) + 1
    BY <1>2, <1>3, <1>4, AppendProperties
  <2>2. DOMAIN log' = 1..(Len(log) + 1) /\ ExecutingIn(log') <= MaxCheckpoints
    BY <2>1, LenProperties DEF Inv, ExecutingIn, ExecutingSubdags
  <2>3. PICK m \in Nat : m = Len(log) + 1
    BY <1>2
  <2>4. m \in 0..m
    BY <2>3
  <2> QED
    BY <2>2, <2>3, <2>4, CommitmentInReach
<1>6. PICK r : Runs(r, log) /\ \A v \in Correct : Follows(state[v], r[delivered[v]])
  BY DEF Determined
<1> HIDE DEF subdag
<1>7. \E longer : Runs(longer, Append(log, subdag)) /\ \A n \in 0..Len(log) : longer[n] = r[n]
  BY <1>2, <1>3, <1>4, <1>5, <1>6, RunOfLonger
<1>8. PICK longer : Runs(longer, log') /\ \A n \in 0..Len(log) : longer[n] = r[n]
  BY <1>3, <1>7
<1>9. \A v \in Correct : Follows(state'[v], longer[delivered'[v]])
  BY <1>2, <1>3, <1>6, <1>8
<1> QED
  BY <1>8, <1>9 DEF Determined

(***************************************************************************)
(* Executing the next sub-dag keeps a validator on the run, live or in a   *)
(* replay, and a crash puts it back to the run's start.                    *)
(***************************************************************************)
LEMMA StepDetermined ==
    ASSUME Inv, Determined, NEW v \in Correct, Step(v)
    PROVE  Determined'
<1>1. PICK r : Runs(r, log) /\ \A w \in Correct : Follows(state[w], r[delivered[w]])
  BY DEF Determined
<1>2. /\ log \in Seq(CommittedSubDag) /\ Len(log) \in Nat /\ Len(log) <= MaxSubdag
      /\ MaxSubdag \in Nat /\ DOMAIN log = 1..Len(log)
      /\ delivered[v] \in Nat /\ delivered[v] \in 0..Len(log) /\ wal[v] \in 0..Len(log)
      /\ state[v] \in State
      /\ \A n \in 1..Len(log) : log[n] \in CommittedSubDag
  BY CommitteeNumbers DEF Inv
<1>3. state \in [Correct -> State] /\ delivered \in [Correct -> 0..Len(log)]
  BY DEF Inv, TypeOK
<1>4. log' = log
  BY DEF Step, Deliver, Propose, Crash, Break, LoseMemory, Restart, Replay, Resume, consensus
<1>5. SUFFICES \A w \in Correct : Follows(state'[w], r[delivered'[w]])
  BY <1>1, <1>4 DEF Determined
<1>6. CASE Deliver(v) \/ Replay(v)
  <2>1. delivered[v] < Len(log)
    BY <1>2, <1>6 DEF Deliver, Replay
  <2>2. PICK timings \in Timings :
            state' = [state EXCEPT ![v] = Executed(v, timings).state]
    BY <1>6, StateAssumption DEF Deliver, Replay, Replayed
  <2>3. delivered' = [delivered EXCEPT ![v] = @ + 1]
    BY <1>6 DEF Deliver, Replay
  <2>4. PICK n \in 1..Len(log) : n = delivered[v] + 1
    BY <1>2, <2>1
  <2>5. n \in Nat /\ n - 1 \in Nat /\ n - 1 = delivered[v] /\ n \in Anchors /\ n \in 0..Len(log)
    BY <1>2, <2>4 DEF Anchors
  <2> DEFINE expected == ExecuteSubdag(r[n - 1], n, log[n], "live").state
             actual == ExecuteSubdag(state[v], n, log[n], timings).state
  <2>6. Commitment(state[v], log[n]) \in Commitments
    <3>1. state[v].store = CommitmentAfter(log, n - 1)
      BY <2>5 DEF Inv, Sound
    <3>2. Commitment(state[v], log[n]) = CommitmentAfter(log, n)
      BY <2>5, <3>1, CommitmentOfNext
    <3>3. ExecutingIn(log) <= MaxCheckpoints
      BY DEF Inv, ExecutingIn, ExecutingSubdags
    <3> QED
      BY <1>2, <2>5, <3>2, <3>3, CommitmentInReach
  <2>7. Follows(actual, expected)
    <3>1. r[n - 1] \in State
      BY <1>1, <1>2, <2>5 DEF Runs
    <3>2. state[v].store = r[n - 1].store /\ SameButTimings(state[v].certifier, r[n - 1].certifier)
      BY <1>1, <2>5 DEF Follows
    <3>3. log[n] \in CommittedSubDag /\ "live" \in Timings
      BY <1>2, StateAssumption
    <3> QED
      BY <1>2, <2>5, <2>6, <3>1, <3>2, <3>3, ExecutionSame DEF Follows
  <2>8. r[n] = expected
    BY <1>1, <2>4 DEF Runs
  <2>9. state'[v] = actual /\ delivered'[v] = n
    BY <1>3, <2>2, <2>3, <2>4 DEF Executed
  <2> HIDE DEF expected, actual
  <2>10. ASSUME NEW w \in Correct, w # v PROVE state'[w] = state[w] /\ delivered'[w] = delivered[w]
    BY <1>3, <2>2, <2>3, <2>10
  <2> QED
    BY <1>1, <2>7, <2>8, <2>9, <2>10
<1>7. CASE Crash(v) \/ Break(v)
  <2>1. /\ state' = [state EXCEPT ![v] = NewState]
        /\ delivered' = [delivered EXCEPT ![v] = 0]
    BY <1>7 DEF Crash, Break, LoseMemory
  <2>2. r[0] = NewState /\ Follows(NewState, NewState)
    BY <1>1 DEF Runs, Follows, SameButTimings, SameEntry
  <2> QED
    BY <1>1, <1>3, <2>1, <2>2
<1>8. CASE Propose(v) \/ Restart(v) \/ Resume(v)
  BY <1>1, <1>8 DEF Propose, Restart, Resume
<1> QED
  BY <1>6, <1>7, <1>8 DEF Step

(***************************************************************************)
(* Without their timings, two states that follow one state are equal.      *)
(***************************************************************************)
LEMMA FollowersAgree ==
    ASSUME NEW s1 \in State, NEW s2 \in State, NEW e, Follows(s1, e), Follows(s2, e)
    PROVE  WithoutTimings(s1) = WithoutTimings(s2)
<1> DEFINE Bare(entry) == [local        |-> entry.local,
                           timings      |-> "live",
                           accumulators |-> entry.accumulators,
                           certificate  |-> entry.certificate]
<1>1. ASSUME NEW s \in State
      PROVE  WithoutTimings(s) =
                 [store     |-> s.store,
                  certifier |-> [pending   |-> [i \in 1..Len(s.certifier.pending) |->
                                                    Bare(s.certifier.pending[i])],
                                 watermark |-> s.certifier.watermark]]
  <2> DEFINE p == s.certifier.pending
             bare == [i \in DOMAIN p |-> [p[i] EXCEPT !.timings = "live"]]
  <2>1. p \in Seq(PendingCheckpoint) /\ DOMAIN p = 1..Len(p)
        /\ \A i \in 1..Len(p) : p[i] \in PendingCheckpoint
    BY LenProperties, ElementOfSeq DEF State, CheckpointCertifier
  <2>2. \A i \in 1..Len(p) : [p[i] EXCEPT !.timings = "live"] = Bare(p[i])
    BY <2>1 DEF PendingCheckpoint
  <2>3. bare = [i \in 1..Len(p) |-> Bare(p[i])]
    BY <2>1, <2>2
  <2>4. WithoutTimings(s) = [s EXCEPT !.certifier.pending = bare]
    BY DEF WithoutTimings
  <2> HIDE DEF bare, Bare
  <2>5. [s EXCEPT !.certifier.pending = bare] =
            [store |-> s.store, certifier |-> [pending |-> bare, watermark |-> s.certifier.watermark]]
    BY DEF State, CheckpointCertifier
  <2> QED
    BY <2>3, <2>4, <2>5
<1>2. /\ s1.store = s2.store /\ s1.certifier.watermark = s2.certifier.watermark
      /\ Len(s1.certifier.pending) = Len(s2.certifier.pending)
      /\ \A i \in 1..Len(s1.certifier.pending) :
             Bare(s1.certifier.pending[i]) = Bare(s2.certifier.pending[i])
  BY DEF Follows, SameButTimings, SameEntry
<1> HIDE DEF Bare
<1> QED
  BY <1>1, <1>2, ZenonT(60)

(***************************************************************************)
(* Validators that executed one prefix of the log hold one store and one   *)
(* certifier, but the timings, however they crashed, replayed and raced    *)
(* (validator.rs:219-221).                                                 *)
(***************************************************************************)
THEOREM LogDeterminesState == Spec => []PrefixDeterminesState
<1>1. Init => Determined
  <2> SUFFICES ASSUME Init PROVE Determined
    OBVIOUS
  <2> DEFINE r == [n \in 0..0 |-> NewState]
  <2>1. log = << >> /\ Len(log) = 0 /\ 1..0 = {} /\ 0 \in 0..0
    BY DEF Init
  <2>2. NewState \in State
    BY NewStateSound DEF Sound
  <2>3. Runs(r, log)
    BY <2>1, <2>2 DEF Runs
  <2>4. \A v \in Correct : Follows(state[v], r[delivered[v]])
    BY <2>1 DEF Init, Follows, SameButTimings, SameEntry
  <2> QED
    BY <2>3, <2>4 DEF Determined
<1>2. Inv /\ Inv' /\ Determined /\ [Next]_vars => Determined'
  BY CommitDetermined, StepDetermined DEF Next, vars, Determined
<1>3. Inv /\ Determined => PrefixDeterminesState
  <2> SUFFICES ASSUME Inv, Determined, NEW v \in Correct, NEW w \in Correct,
                      delivered[v] = delivered[w]
               PROVE  WithoutTimings(state[v]) = WithoutTimings(state[w])
    BY DEF PrefixDeterminesState
  <2>1. state[v] \in State /\ state[w] \in State
    BY CommitteeNumbers DEF Inv
  <2> QED
    BY <2>1, FollowersAgree DEF Determined
<1> QED
  BY <1>1, <1>2, <1>3, CommitteeInvariant, PTL DEF Spec
-----------------------------------------------------------------------------
(***************************************************************************)
(* A validator's vote for a checkpoint that is not counted yet: in its     *)
(* queue, in a block, or in a sub-dag that it has yet to execute.          *)
(***************************************************************************)
OnItsWay(c, v) ==
    \/ \E i \in 1..Len(queue[v]) : queue[v][i] = c
    \/ \E i \in 1..Len(proposed[v]) : proposed[v][i] = c
    \/ \E n \in (delivered[v] + 1)..Len(log) : \E k \in 1..Len(log[n].votes) :
           log[n].votes[k] = [author |-> v, checkpoint |-> c]

\* The inductive invariant, of one entry and of one validator.
Attested(entry, v) == Certified(entry) \/ HasVoted(entry, v) \/ OnItsWay(entry.local, v)

Attests(v) ==
    phase[v] = "running" =>
        \A i \in 1..Len(state[v].certifier.pending) : Attested(state[v].certifier.pending[i], v)

(***************************************************************************)
(* A commit takes votes from the blocks and puts them in the log.          *)
(***************************************************************************)
LEMMA CommitAttests ==
    ASSUME Inv, NEW v \in Correct, Attests(v), CommitSome
    PROVE  Attests(v)'
<1>1. PICK effect \in Effects, votes \in SeqOf(VotesInReach, MaxVotes) : Commit(effect, votes)
  BY CommitteeAssumption DEF CommitSome
<1> DEFINE subdag == [effect |-> effect, votes |-> votes]
           taken == CheckpointsOf(v, votes)
           q == proposed[v]
<1>2. /\ log \in Seq(CommittedSubDag) /\ Len(log) \in Nat
      /\ delivered[v] \in 0..Len(log) /\ q \in Seq(Checkpoint) /\ Len(q) \in Nat
      /\ proposed \in [Correct -> Seq(Checkpoint)]
  BY CommitteeNumbers, LenProperties DEF Inv, TypeOK
<1>3. votes \in Seq(Vote) /\ Len(votes) \in Nat /\ \A k \in 1..Len(votes) : votes[k] \in Vote
  BY VotesOfNextSubdag, LenProperties, ElementOfSeq
<1>4. /\ log' = Append(log, subdag) /\ IsPrefix(taken, q)
      /\ proposed'[v] = SubSeq(q, Len(taken) + 1, Len(q))
      /\ UNCHANGED <<phase, delivered, wal, state, queue, crashes>>
  BY <1>1 DEF Commit
<1>5. taken \in Seq(VotedBy(v, votes)) /\ Len(taken) \in Nat
  BY <1>3, CheckpointsOfType, LenProperties
<1>6. subdag \in CommittedSubDag
  BY <1>3 DEF CommittedSubDag
<1>7. /\ Len(log') = Len(log) + 1 /\ log'[Len(log) + 1].votes = votes
      /\ \A n \in 1..Len(log) : log'[n] = log[n]
  BY <1>2, <1>4, <1>6, AppendProperties
<1> HIDE DEF subdag, taken, q
<1>8. /\ Len(taken) <= Len(q)
      /\ \A i \in 1..Len(taken) : taken[i] = q[i]
  <2>1. Len(taken) <= Len(q) /\ SubSeq(taken, 1, Len(taken)) = SubSeq(q, 1, Len(taken))
    BY <1>4 DEF IsPrefix
  <2>2. \A i \in 1..Len(taken) : /\ SubSeq(taken, 1, Len(taken))[i] = taken[i]
                                 /\ SubSeq(q, 1, Len(taken))[i] = q[i]
    BY <1>2, <1>5, <2>1
  <2> QED
    BY <2>1, <2>2
<1>9. ASSUME NEW i \in 1..Len(taken)
      PROVE  \E k \in 1..Len(votes) : votes[k] = [author |-> v, checkpoint |-> q[i]]
  <2>1. taken[i] \in VotedBy(v, votes)
    BY <1>5, ElementOfSeq
  <2>2. PICK k \in 1..Len(votes) : votes[k].author = v /\ votes[k].checkpoint = taken[i]
    BY <2>1 DEF VotedBy
  <2>3. votes[k] = [author |-> votes[k].author, checkpoint |-> votes[k].checkpoint]
    BY <1>3 DEF Vote
  <2> QED
    BY <1>8, <2>2, <2>3
<1>10. \A i \in 1..Len(q) : i \in 1..Len(taken) \/ i - Len(taken) \in 1..(Len(q) - Len(taken))
  BY <1>2, <1>5, <1>8
<1>11. /\ Len(proposed'[v]) = Len(q) - Len(taken)
       /\ \A i \in 1..Len(q) : i - Len(taken) \in 1..(Len(q) - Len(taken)) =>
              proposed'[v][i - Len(taken)] = q[i]
  BY <1>2, <1>4, <1>5, <1>8
<1>12. ASSUME NEW c, OnItsWay(c, v) PROVE OnItsWay(c, v)'
  <2>1. CASE \E i \in 1..Len(queue[v]) : queue[v][i] = c
    BY <1>4, <2>1 DEF OnItsWay
  <2>2. CASE \E i \in 1..Len(proposed[v]) : proposed[v][i] = c
    <3>1. PICK i \in 1..Len(q) : q[i] = c
      BY <2>2 DEF q
    <3>2. CASE i \in 1..Len(taken)
      <4>1. PICK k \in 1..Len(votes) : votes[k] = [author |-> v, checkpoint |-> c]
        BY <1>9, <3>1, <3>2
      <4>2. Len(log) + 1 \in (delivered'[v] + 1)..Len(log')
        BY <1>2, <1>4, <1>7
      <4> QED
        BY <1>7, <4>1, <4>2 DEF OnItsWay
    <3>3. CASE i - Len(taken) \in 1..(Len(q) - Len(taken))
      BY <1>11, <3>1, <3>3 DEF OnItsWay
    <3> QED
      BY <1>10, <3>2, <3>3
  <2>3. CASE \E n \in (delivered[v] + 1)..Len(log) : \E k \in 1..Len(log[n].votes) :
                 log[n].votes[k] = [author |-> v, checkpoint |-> c]
    <3>1. PICK n \in (delivered[v] + 1)..Len(log) : \E k \in 1..Len(log[n].votes) :
              log[n].votes[k] = [author |-> v, checkpoint |-> c]
      BY <2>3
    <3>2. n \in 1..Len(log) /\ n \in (delivered'[v] + 1)..Len(log')
      BY <1>2, <1>4, <1>7
    <3> QED
      BY <1>7, <3>1, <3>2 DEF OnItsWay
  <2> QED
    BY <1>12, <2>1, <2>2, <2>3 DEF OnItsWay
<1>13. /\ phase'[v] = phase[v] /\ state'[v] = state[v]
  BY <1>4
<1> QED
  BY <1>12, <1>13 DEF Attests, Attested

(***************************************************************************)
(* Executing the next sub-dag counts the vote that it carries for a        *)
(* checkpoint, and attests to the one it mints (validator.rs:252-340).     *)
(***************************************************************************)
LEMMA DeliverAttests ==
    ASSUME Inv, NEW v \in Correct, Attests(v), Deliver(v)
    PROVE  Attests(v)'
<1> DEFINE n == delivered[v] + 1
           after == ExecuteSubdag(state[v], n, log[n], "live")
           p == state[v].certifier.pending
           window == after.state.certifier.pending
<1>1. /\ Len(log) \in Nat /\ delivered[v] \in Nat
      /\ queue[v] \in Seq(Checkpoint) /\ Len(queue[v]) \in Nat
      /\ phase[v] = "running" /\ delivered[v] < Len(log)
      /\ queue \in [Correct -> Seq(Checkpoint)]
      /\ state \in [Correct -> State] /\ delivered \in [Correct -> 0..Len(log)]
  BY CommitteeNumbers, LenProperties DEF Inv, TypeOK, Deliver
<1>2. /\ after.minted # None => after.minted \in Yielded(Len(log), log)
      /\ WindowProgresses(state[v], after, log[n].votes)
  BY <1>1, NextIsSound, StateAssumption
<1>3. /\ state'[v] = after.state /\ delivered'[v] = n
      /\ queue'[v] = IF after.minted = None THEN queue[v] ELSE Append(queue[v], after.minted)
      /\ log' = log /\ proposed' = proposed
  BY <1>1 DEF Deliver, Executed, consensus
<1>4. /\ \A i \in 1..Len(queue[v]) : i \in 1..Len(queue'[v]) /\ queue'[v][i] = queue[v][i]
      /\ after.minted # None => \E i \in 1..Len(queue'[v]) : queue'[v][i] = after.minted
  <2>1. CASE after.minted = None
    BY <1>3, <2>1
  <2>2. CASE after.minted # None
    <3>1. after.minted \in Checkpoint
      BY <1>2, <2>2 DEF Yielded
    <3>2. queue'[v] = Append(queue[v], after.minted)
      BY <1>3, <2>2
    <3> HIDE DEF after
    <3>3. /\ Len(queue'[v]) = Len(queue[v]) + 1
          /\ \A i \in 1..Len(queue[v]) : queue'[v][i] = queue[v][i]
          /\ queue'[v][Len(queue[v]) + 1] = after.minted
      BY <1>1, <3>1, <3>2, AppendProperties
    <3>4. Len(queue[v]) + 1 \in 1..Len(queue'[v])
          /\ \A i \in 1..Len(queue[v]) : i \in 1..Len(queue'[v])
      BY <1>1, <3>3
    <3> QED
      BY <3>3, <3>4
  <2> QED
    BY <2>1, <2>2
<1>5. \A m \in n..Len(log) : m = n \/ m \in (n + 1)..Len(log)
  BY <1>1
<1> HIDE DEF n, after, p, window
<1>6. ASSUME NEW c, OnItsWay(c, v), NEW e, e.local = c,
             \A k \in 1..Len(log[n].votes) : log[n].votes[k] = [author |-> v, checkpoint |-> c] =>
                 Certified(e) \/ HasVoted(e, v)
      PROVE  Certified(e) \/ HasVoted(e, v) \/ OnItsWay(c, v)'
  <2>1. CASE \E i \in 1..Len(queue[v]) : queue[v][i] = c
    BY <1>4, <2>1 DEF OnItsWay
  <2>2. CASE \E i \in 1..Len(proposed[v]) : proposed[v][i] = c
    BY <1>3, <2>2 DEF OnItsWay
  <2>3. CASE \E m \in n..Len(log) : \E k \in 1..Len(log[m].votes) :
                 log[m].votes[k] = [author |-> v, checkpoint |-> c]
    <3>1. PICK m \in n..Len(log) : \E k \in 1..Len(log[m].votes) :
              log[m].votes[k] = [author |-> v, checkpoint |-> c]
      BY <2>3
    <3>2. CASE m = n
      BY <1>6, <3>1, <3>2
    <3>3. CASE m \in (n + 1)..Len(log)
      BY <1>3, <3>1, <3>3 DEF OnItsWay
    <3> QED
      BY <1>5, <3>2, <3>3
  <2> QED
    BY <1>6, <2>1, <2>2, <2>3 DEF OnItsWay, n
<1>7. ASSUME NEW i \in 1..Len(window), NEW c, c = window[i].local
      PROVE  Certified(window[i]) \/ HasVoted(window[i], v) \/ OnItsWay(c, v)'
  <2>1. CASE \E j \in 1..Len(p) : Progressed(p[j], window[i])
    <3>1. PICK j \in 1..Len(p) : Progressed(p[j], window[i])
      BY <2>1
    <3>2. c = p[j].local
      BY <1>7, <3>1 DEF Progressed
    <3>3. CASE Certified(p[j]) \/ HasVoted(p[j], v)
      BY <3>1, <3>3 DEF Progressed
    <3>4. CASE OnItsWay(c, v)
      <4>1. ASSUME NEW k \in 1..Len(log[n].votes),
                   log[n].votes[k] = [author |-> v, checkpoint |-> c]
            PROVE  Certified(window[i]) \/ HasVoted(window[i], v)
        <5>1. log[n].votes[k].author = v /\ log[n].votes[k].checkpoint = c
          BY <4>1
        <5>2. Counts(after.state.certifier, v, c)
          BY <1>2, <5>1 DEF WindowProgresses
        <5> QED
          BY <1>7, <5>2 DEF Counts, window
      <4> QED
        BY <1>6, <1>7, <3>4, <4>1
    <3>5. Attested(p[j], v)
      BY <1>1 DEF Attests, p
    <3> QED
      BY <3>2, <3>3, <3>4, <3>5 DEF Attested
  <2>2. CASE after.minted # None /\ c = after.minted
    <3>1. \E l \in 1..Len(queue'[v]) : queue'[v][l] = c
      BY <1>4, <2>2
    <3> QED
      BY <3>1 DEF OnItsWay
  <2> QED
    BY <1>2, <1>7, <2>1, <2>2 DEF WindowProgresses, window, p
<1>8. state'[v].certifier.pending = window
  BY <1>3 DEF window
<1> QED
  BY <1>7, <1>8 DEF Attests, Attested, OnItsWay

(***************************************************************************)
(* The replica moves the votes to a block; a validator that comes up       *)
(* again attests to all that it has uncertified (validator.rs:169-183).    *)
(***************************************************************************)
LEMMA OwnStepAttests ==
    ASSUME Inv, NEW v \in Correct, Attests(v), Step(v)
    PROVE  Attests(v)'
<1>1. /\ queue[v] \in Seq(Checkpoint) /\ proposed[v] \in Seq(Checkpoint)
      /\ Len(queue[v]) \in Nat /\ Len(proposed[v]) \in Nat
      /\ proposed \in [Correct -> Seq(Checkpoint)] /\ queue \in [Correct -> Seq(Checkpoint)]
      /\ phase \in [Correct -> {"running", "down", "replaying", "broken"}]
      /\ state[v] \in State
  BY CommitteeNumbers, LenProperties DEF Inv, TypeOK
<1>2. CASE Propose(v)
  <2>1. /\ proposed'[v] = proposed[v] \o queue[v]
        /\ UNCHANGED <<log, phase, delivered, state>>
    BY <1>1, <1>2 DEF Propose
  <2>2. /\ Len(proposed'[v]) = Len(proposed[v]) + Len(queue[v])
        /\ \A i \in 1..Len(proposed[v]) : proposed'[v][i] = proposed[v][i]
        /\ \A i \in 1..Len(queue[v]) : proposed'[v][Len(proposed[v]) + i] = queue[v][i]
    BY <1>1, <2>1
  <2>3. /\ \A i \in 1..Len(proposed[v]) : i \in 1..Len(proposed'[v])
        /\ \A i \in 1..Len(queue[v]) : Len(proposed[v]) + i \in 1..Len(proposed'[v])
    BY <1>1, <2>2
  <2>4. \A c : OnItsWay(c, v) => OnItsWay(c, v)'
    BY <2>1, <2>2, <2>3, ZenonT(60) DEF OnItsWay
  <2> QED
    BY <2>1, <2>4 DEF Attests, Attested
<1>3. CASE Crash(v) \/ Break(v) \/ Restart(v) \/ Replay(v)
  <2>1. phase'[v] # "running"
    BY <1>1, <1>3 DEF Crash, Break, Restart, Replay
  <2> QED
    BY <2>1 DEF Attests
<1>4. CASE Resume(v)
  <2> DEFINE p == state[v].certifier.pending
  <2>1. queue'[v] = Uncertified(state[v]) /\ state' = state
    BY <1>1, <1>4 DEF Resume, ReAttestations
  <2>2. DOMAIN p = 1..Len(p) /\ Len(p) \in Nat
    BY <1>1, LenProperties DEF State, CheckpointCertifier
  <2>3. Uncertified(state[v]) = [i \in 1..Len(p) |-> p[i].local]
    BY <2>2 DEF Uncertified
  <2> HIDE DEF p
  <2>4. Len(queue'[v]) = Len(p) /\ \A i \in 1..Len(p) : queue'[v][i] = p[i].local
    BY <2>1, <2>2, <2>3
  <2>5. ASSUME NEW i \in 1..Len(p), NEW c, c = p[i].local PROVE OnItsWay(c, v)'
    BY <2>4, <2>5 DEF OnItsWay
  <2>6. state'[v].certifier.pending = p
    BY <2>1 DEF p
  <2> QED
    BY <2>5, <2>6 DEF Attests, Attested, OnItsWay
<1> QED
  BY <1>2, <1>3, <1>4, DeliverAttests DEF Step

(***************************************************************************)
(* A step of one validator changes nothing of another's.                   *)
(***************************************************************************)
LEMMA OthersAttest ==
    ASSUME Inv, NEW v \in Correct, NEW w \in Correct, w # v, Attests(w), Step(v)
    PROVE  Attests(w)'
<1>1. /\ queue \in [Correct -> Seq(Checkpoint)] /\ proposed \in [Correct -> Seq(Checkpoint)]
      /\ phase \in [Correct -> {"running", "down", "replaying", "broken"}]
      /\ state \in [Correct -> State] /\ delivered \in [Correct -> 0..Len(log)]
  BY DEF Inv, TypeOK
<1>2. /\ log' = log /\ phase'[w] = phase[w] /\ state'[w] = state[w]
      /\ delivered'[w] = delivered[w] /\ queue'[w] = queue[w] /\ proposed'[w] = proposed[w]
  <2>1. CASE Deliver(v)
    BY <1>1, <2>1 DEF Deliver, consensus
  <2>2. CASE Propose(v) \/ Restart(v) \/ Resume(v)
    BY <1>1, <2>2 DEF Propose, Restart, Resume, consensus
  <2>3. CASE Crash(v) \/ Break(v) \/ Replay(v)
    BY <1>1, <2>3 DEF Crash, Break, LoseMemory, Replay, consensus
  <2> QED
    BY <2>1, <2>2, <2>3 DEF Step
<1> QED
  BY <1>2 DEF Attests, Attested, OnItsWay

(***************************************************************************)
(* The elements of both sequences are in their concatenation.              *)
(***************************************************************************)
LEMMA ConcatHoldsBoth ==
    ASSUME NEW S, NEW q1 \in Seq(S), NEW q2 \in Seq(S)
    PROVE  /\ \A j \in 1..Len(q1) : q1[j] \in Range(q1 \o q2)
           /\ \A j \in 1..Len(q2) : q2[j] \in Range(q1 \o q2)
<1>1. Len(q1) \in Nat /\ Len(q2) \in Nat
  BY LenProperties
<1>2. /\ Len(q1 \o q2) = Len(q1) + Len(q2)
      /\ \A j \in 1..Len(q1) : (q1 \o q2)[j] = q1[j]
      /\ \A j \in 1..Len(q2) : (q1 \o q2)[Len(q1) + j] = q2[j]
  BY <1>1
<1>3. DOMAIN (q1 \o q2) = 1..Len(q1 \o q2)
  BY ConcatProperties, LenProperties
<1>4. /\ \A j \in 1..Len(q1) : j \in 1..Len(q1 \o q2)
      /\ \A j \in 1..Len(q2) : Len(q1) + j \in 1..Len(q1 \o q2)
  BY <1>1, <1>2
<1> HIDE DEF Range
<1> DEFINE q == q1 \o q2
<1> HIDE DEF q
<1>5. \A j \in 1..Len(q) : q[j] \in Range(q)
  BY <1>3 DEF Range, q
<1> QED
  BY <1>2, <1>4, <1>5 DEF q

(***************************************************************************)
(* No vote is lost for good: for each checkpoint that a running validator  *)
(* has uncertified its own vote is counted or on its way, whatever crashes *)
(* lost (validator.rs:169-172).                                            *)
(***************************************************************************)
THEOREM NoVoteIsLost == Spec => []PendingIsAttested
<1> DEFINE All == \A v \in Correct : Attests(v)
<1>1. Init => All
  <2> SUFFICES ASSUME Init, NEW v \in Correct PROVE Attests(v)
    OBVIOUS
  <2>1. state[v].certifier.pending = << >> /\ 1..Len(<< >>) = {}
    BY DEF Init, NewState, NewCertifier
  <2> QED
    BY <2>1 DEF Attests
<1>2. Inv /\ All /\ [Next]_vars => All'
  <2>1. ASSUME Inv, All, Next, NEW v \in Correct PROVE Attests(v)'
    BY <2>1, CommitAttests, OwnStepAttests, OthersAttest DEF Next
  <2>2. ASSUME All, UNCHANGED vars, NEW v \in Correct PROVE Attests(v)'
    BY <2>2 DEF vars, Attests, Attested, OnItsWay
  <2> QED
    BY <2>1, <2>2
<1>3. Inv /\ All => PendingIsAttested
  <2> SUFFICES ASSUME Inv, All, NEW v \in Correct, phase[v] = "running",
                      NEW i \in DOMAIN state[v].certifier.pending
               PROVE  LET entry == state[v].certifier.pending[i]
                      IN  \/ Certified(entry)
                          \/ HasVoted(entry, v)
                          \/ entry.local \in Range(queue[v] \o proposed[v])
                          \/ \E n \in (delivered[v] + 1)..Len(log) :
                                 [author |-> v, checkpoint |-> entry.local] \in
                                     Range(log[n].votes)
    BY DEF PendingIsAttested
  <2> DEFINE entry == state[v].certifier.pending[i]
             q == queue[v] \o proposed[v]
  <2>1. /\ log \in Seq(CommittedSubDag) /\ Len(log) \in Nat /\ delivered[v] \in Nat
        /\ \A n \in 1..Len(log) : log[n] \in CommittedSubDag
        /\ queue[v] \in Seq(Checkpoint) /\ proposed[v] \in Seq(Checkpoint)
        /\ state[v] \in State
    BY CommitteeNumbers DEF Inv
  <2>2. i \in 1..Len(state[v].certifier.pending)
    BY <2>1, LenProperties DEF State, CheckpointCertifier
  <2>3. Attested(entry, v)
    BY <2>2 DEF Attests
  <2>4. /\ \A j \in 1..Len(queue[v]) : queue[v][j] \in Range(q)
        /\ \A j \in 1..Len(proposed[v]) : proposed[v][j] \in Range(q)
    BY <2>1, ConcatHoldsBoth
  <2> HIDE DEF entry, q
  <2>5. ASSUME NEW n \in (delivered[v] + 1)..Len(log), NEW k \in 1..Len(log[n].votes),
               log[n].votes[k] = [author |-> v, checkpoint |-> entry.local]
        PROVE  [author |-> v, checkpoint |-> entry.local] \in Range(log[n].votes)
    <3>1. n \in 1..Len(log)
      BY <2>1
    <3>2. log[n].votes \in Seq(Vote)
      BY <2>1, <3>1 DEF CommittedSubDag
    <3>3. DOMAIN log[n].votes = 1..Len(log[n].votes)
      BY <3>2, LenProperties
    <3> QED
      BY <2>5, <3>3 DEF Range
  <2> QED
    BY <2>3, <2>4, <2>5 DEF Attested, OnItsWay, entry, q
<1> HIDE DEF All
<1> QED
  BY <1>1, <1>2, <1>3, CommitteeInvariant, PTL DEF Spec
=============================================================================
