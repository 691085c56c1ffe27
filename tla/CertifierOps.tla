---------------------------- MODULE CertifierOps ----------------------------
(***************************************************************************)
(* The checkpoint certifier of crates/checkpoint/src/certifier.rs as       *)
(* operators over its value: a certifier is a record                       *)
(*    [pending |-> the minted-but-not-contiguously-certified window,       *)
(*     watermark |-> the highest contiguously certified checkpoint].       *)
(* Certifier.tla drives one of them with an arbitrary stream of calls,     *)
(* Committee.tla gives one to every validator.                             *)
(*                                                                         *)
(* A checkpoint's anchor is the number of its committed sub-dag: consensus *)
(* orders the sub-dags totally and the anchor identifies one of them. Only *)
(* the round of the anchor's block is kept, because the certifier searches *)
(* its window by round, and several anchors may share a round.             *)
(*                                                                         *)
(* A seeded slip is an alternative that only the mutation runs substitute  *)
(* for the definition that follows it.                                     *)
(***************************************************************************)
EXTENDS Integers, Sequences

CONSTANTS
    Authorities,    \* the members of the committee
    Weight,         \* the total stake of every set of authorities
    Quorum,         \* the protocol's quorum threshold, passed in by the caller
    Commitments,    \* the digests a checkpoint may commit to
    Timings,        \* the timings carried from mint to certification
    MaxSubdag,      \* how many sub-dags consensus commits
    Round,          \* the round of every sub-dag's anchor
    None            \* Option::None

Anchors == 1..MaxSubdag

(***************************************************************************)
(* Weight is the additive extension of the stake of single authorities.    *)
(***************************************************************************)
ASSUME WeightAssumption ==
    /\ Weight \in [SUBSET Authorities -> Nat]
    /\ Weight[{}] = 0
    /\ \A S \in SUBSET Authorities : \A a \in Authorities \ S :
           Weight[S \cup {a}] = Weight[S] + Weight[{a}]

ASSUME QuorumAssumption == Quorum \in Nat \ {0}

(***************************************************************************)
(* Consensus commits its leaders in round order, several per round.        *)
(***************************************************************************)
ASSUME RoundAssumption ==
    /\ MaxSubdag \in Nat
    /\ Round \in [Anchors -> Nat]
    /\ \A m, n \in Anchors : m <= n => Round[m] <= Round[n]

Checkpoint == [anchor : Anchors, commitment : Commitments]
CertifiedCheckpoint == [checkpoint : Checkpoint, proof : Seq(Anchors)]

Accumulator == [votes : SUBSET Authorities, stake : Nat, deliveredIn : Seq(Anchors)]

PendingCheckpoint ==
    [local : Checkpoint,
     timings : Timings,
     accumulators : [Commitments -> Accumulator],
     certificate : CertifiedCheckpoint \cup {None}]

CheckpointCertifier ==
    [pending : Seq(PendingCheckpoint), watermark : CertifiedCheckpoint \cup {None}]

ASSUME NoneAssumption ==
    None \notin CertifiedCheckpoint \cup Checkpoint \cup Commitments \cup Timings
-----------------------------------------------------------------------------
(***************************************************************************)
(* CheckpointAccumulator. The code creates the accumulator of a commitment *)
(* at its first vote; an absent accumulator is an empty one here.          *)
(***************************************************************************)
EmptyAccumulator == [votes |-> {}, stake |-> 0, deliveredIn |-> << >>]

Add(accumulator, author, subdag) ==
    IF author \in accumulator.votes
    THEN accumulator
    ELSE [votes       |-> accumulator.votes \cup {author},
          stake       |-> accumulator.stake + Weight[{author}],
          deliveredIn |-> Append(accumulator.deliveredIn, subdag)]

\* Seeded slip: strictly more than the threshold is asked for.
ExceedsQuorum(accumulator) == accumulator.stake > Quorum

ReachesQuorum(accumulator) == accumulator.stake >= Quorum
-----------------------------------------------------------------------------
NewCertifier == [pending |-> << >>, watermark |-> None]

Push(certifier, anchor, commitment, timings) ==
    [certifier EXCEPT !.pending =
        Append(@, [local        |-> [anchor |-> anchor, commitment |-> commitment],
                   timings      |-> timings,
                   accumulators |-> [d \in Commitments |-> EmptyAccumulator],
                   certificate  |-> None])]

(***************************************************************************)
(* The entry a vote is for: the partition point of the window by round     *)
(* starts the walk, which ends with the run of that round.                 *)
(***************************************************************************)
RoundAt(pending, i) == Round[pending[i].local.anchor]

\* Seeded slip: only the entry at the partition point is looked at.
AtPartitionPoint(pending, i, round) ==
    /\ \A j \in 1..(i - 1) : RoundAt(pending, j) < round
    /\ RoundAt(pending, i) = round

InRun(pending, i, round) ==
    \E start \in 1..i : /\ \A j \in 1..(start - 1) : RoundAt(pending, j) < round
                        /\ \A j \in start..i : RoundAt(pending, j) = round

EntriesOf(pending, anchor) ==
    {i \in DOMAIN pending : /\ InRun(pending, i, Round[anchor])
                            /\ pending[i].local.anchor = anchor}

EntryOf(pending, anchor) ==
    CHOOSE i \in EntriesOf(pending, anchor) :
        \A j \in EntriesOf(pending, anchor) : i <= j

(***************************************************************************)
(* The length of the contiguously certified prefix of a window, and the    *)
(* watermark's advance over it.                                            *)
(***************************************************************************)
Certified(entry) == entry.certificate # None

CertifiedPrefix(pending) ==
    CHOOSE k \in 0..Len(pending) :
        /\ \A i \in 1..k : Certified(pending[i])
        /\ k < Len(pending) => ~Certified(pending[k + 1])

\* Seeded slip: the watermark stops at the first checkpoint that is popped.
AdvanceByOne(certifier) ==
    LET k == CertifiedPrefix(certifier.pending)
    IN  [pending   |-> SubSeq(certifier.pending, k + 1, Len(certifier.pending)),
         watermark |-> IF k = 0 THEN certifier.watermark
                                ELSE certifier.pending[1].certificate]

Advance(certifier) ==
    LET k == CertifiedPrefix(certifier.pending)
    IN  [pending   |-> SubSeq(certifier.pending, k + 1, Len(certifier.pending)),
         watermark |-> IF k = 0 THEN certifier.watermark
                                ELSE certifier.pending[k].certificate]
-----------------------------------------------------------------------------
(***************************************************************************)
(* record: a vote counts when its anchor is in the window, the entry is    *)
(* not certified yet and the author has no vote counted in any of its      *)
(* accumulators.                                                           *)
(***************************************************************************)
\* Seeded slip: an author is deduped within one accumulator only.
VotedNowhere(entry, author) == FALSE

HasVoted(entry, author) ==
    \E d \in Commitments : author \in entry.accumulators[d].votes

\* Seeded slip: a checkpoint certified above the watermark still takes votes.
AdmissibleAlways(certifier, author, vote) ==
    /\ EntriesOf(certifier.pending, vote.anchor) # {}
    /\ ~HasVoted(certifier.pending[EntryOf(certifier.pending, vote.anchor)], author)

Admissible(certifier, author, vote) ==
    /\ EntriesOf(certifier.pending, vote.anchor) # {}
    /\ LET entry == certifier.pending[EntryOf(certifier.pending, vote.anchor)]
       IN  ~Certified(entry) /\ ~HasVoted(entry, author)

Tallied(entry, subdag, author, vote) ==
    Add(entry.accumulators[vote.commitment], author, subdag)

FormsCertificate(certifier, subdag, author, vote) ==
    /\ Admissible(certifier, author, vote)
    /\ ReachesQuorum(Tallied(certifier.pending[EntryOf(certifier.pending, vote.anchor)],
                             subdag, author, vote))

WithTally(entry, subdag, author, vote) ==
    [entry EXCEPT !.accumulators[vote.commitment] = Tallied(entry, subdag, author, vote)]

\* Seeded slip: only the deliveries are taken, the votes and the stake are left.
WithStaleVotes(entry, subdag, author, vote) ==
    [entry EXCEPT
        !.accumulators[vote.commitment] = [Tallied(entry, subdag, author, vote) EXCEPT
                                               !.deliveredIn = << >>],
        !.certificate = [checkpoint |-> vote,
                         proof      |-> Tallied(entry, subdag, author, vote).deliveredIn]]

\* Seeded slip: the deliveries are taken before the last vote is added.
WithEarlyProof(entry, subdag, author, vote) ==
    [entry EXCEPT
        !.accumulators[vote.commitment] = EmptyAccumulator,
        !.certificate = [checkpoint |-> vote,
                         proof      |-> entry.accumulators[vote.commitment].deliveredIn]]

\* The winning accumulator is cleared: its deliveries become the proof.
WithCertificate(entry, subdag, author, vote) ==
    [entry EXCEPT
        !.accumulators[vote.commitment] = EmptyAccumulator,
        !.certificate = [checkpoint |-> vote,
                         proof      |-> Tallied(entry, subdag, author, vote).deliveredIn]]

\* The certifier after the vote is counted, before the watermark advances.
Counted(certifier, subdag, author, vote) ==
    LET i == EntryOf(certifier.pending, vote.anchor)
    IN  IF FormsCertificate(certifier, subdag, author, vote)
        THEN [certifier EXCEPT !.pending[i] = WithCertificate(@, subdag, author, vote)]
        ELSE [certifier EXCEPT !.pending[i] = WithTally(@, subdag, author, vote)]

Record(certifier, subdag, author, vote) ==
    IF ~Admissible(certifier, author, vote) THEN certifier
    ELSE IF FormsCertificate(certifier, subdag, author, vote)
    THEN Advance(Counted(certifier, subdag, author, vote))
    ELSE Counted(certifier, subdag, author, vote)

\* Seeded slip: every vote that is counted gives the timings back.
ReturnedEveryTime(certifier, subdag, author, vote) ==
    IF Admissible(certifier, author, vote)
    THEN certifier.pending[EntryOf(certifier.pending, vote.anchor)].timings
    ELSE None

\* What record returns: the mint timings exactly when the vote forms the certificate.
Returned(certifier, subdag, author, vote) ==
    IF FormsCertificate(certifier, subdag, author, vote)
    THEN certifier.pending[EntryOf(certifier.pending, vote.anchor)].timings
    ELSE None
=============================================================================
