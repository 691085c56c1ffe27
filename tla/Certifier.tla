------------------------------ MODULE Certifier ------------------------------
(***************************************************************************)
(* One checkpoint certifier, driven as ExecutionState::execute_subdag      *)
(* drives it: sub-dags are delivered in commit order, one that executed a  *)
(* transaction pushes its checkpoint, and then every vote it carries is    *)
(* recorded. The votes are arbitrary: for checkpoints never minted, not    *)
(* yet minted or long certified, repeated, and conflicting.                *)
(*                                                                         *)
(* minted, ballots, certificates and surrendered are history variables.    *)
(* They record the calls and what they returned, the certifier never reads *)
(* them, and the properties compare the certifier with them.               *)
(***************************************************************************)
EXTENDS CertifierOps, FiniteSets

VARIABLES
    certifier,      \* the CheckpointCertifier
    subdag,         \* the sub-dag being delivered
    minted,         \* per anchor, the checkpoint's commitment and timings
    ballots,        \* per anchor and author, the first vote since the mint
    certificates,   \* per anchor, the certificate that formed
    surrendered     \* per anchor, the timings that record returned

history == <<minted, ballots, certificates, surrendered>>
vars == <<certifier, subdag, minted, ballots, certificates, surrendered>>

Mint == [commitment : Commitments, timings : Timings]
Ballot == [commitment : Commitments, subdag : Anchors]

ASSUME HistoryAssumption == None \notin Mint \cup Ballot

Supporters(n, d) ==
    {a \in Authorities : ballots[n][a] # None /\ ballots[n][a].commitment = d}

Decided(n) == {d \in Commitments : Weight[Supporters(n, d)] >= Quorum}
-----------------------------------------------------------------------------
Init ==
    /\ certifier = NewCertifier
    /\ subdag = 0
    /\ minted = [n \in Anchors |-> None]
    /\ ballots = [n \in Anchors |-> [a \in Authorities |-> None]]
    /\ certificates = [n \in Anchors |-> None]
    /\ surrendered = [n \in Anchors |-> << >>]

\* The next sub-dag executes transactions: its checkpoint is pushed.
PushCheckpoint(commitment, timings) ==
    /\ subdag < MaxSubdag
    /\ subdag' = subdag + 1
    /\ certifier' = Push(certifier, subdag + 1, commitment, timings)
    /\ minted' = [minted EXCEPT ![subdag + 1] =
                      [commitment |-> commitment, timings |-> timings]]
    /\ UNCHANGED <<ballots, certificates, surrendered>>

\* The next sub-dag executes nothing: it is not checkpointed.
SkipSubdag ==
    /\ subdag < MaxSubdag
    /\ subdag' = subdag + 1
    /\ UNCHANGED <<certifier, history>>

\* A vote delivered in the current sub-dag.
RecordVote(author, vote) ==
    /\ subdag > 0
    /\ certifier' = Record(certifier, subdag, author, vote)
    /\ ballots' =
           IF minted[vote.anchor] # None /\ Decided(vote.anchor) = {}
                /\ ballots[vote.anchor][author] = None
           THEN [ballots EXCEPT ![vote.anchor][author] =
                     [commitment |-> vote.commitment, subdag |-> subdag]]
           ELSE ballots
    /\ certificates' =
           IF FormsCertificate(certifier, subdag, author, vote)
           THEN [certificates EXCEPT ![vote.anchor] =
                     Counted(certifier, subdag, author, vote).pending[
                         EntryOf(certifier.pending, vote.anchor)].certificate]
           ELSE certificates
    /\ surrendered' =
           IF Returned(certifier, subdag, author, vote) # None
           THEN [surrendered EXCEPT ![vote.anchor] =
                     Append(@, Returned(certifier, subdag, author, vote))]
           ELSE surrendered
    /\ UNCHANGED <<subdag, minted>>

Next ==
    \/ \E commitment \in Commitments, timings \in Timings :
           PushCheckpoint(commitment, timings)
    \/ SkipSubdag
    \/ \E author \in Authorities, vote \in Checkpoint : RecordVote(author, vote)

Spec == Init /\ [][Next]_vars
-----------------------------------------------------------------------------
(***************************************************************************)
(* The certifier's own state and the history are well-formed values, and   *)
(* the fields of an accumulator belong together: there are deliveries just *)
(* when there are votes. (certifier.rs:53-57: clear takes all of them.)    *)
(***************************************************************************)
Consistent(accumulator) == accumulator.votes = {} <=> accumulator.deliveredIn = << >>

TypeOK ==
    /\ certifier \in CheckpointCertifier
    /\ \A i \in DOMAIN certifier.pending, d \in Commitments :
           Consistent(certifier.pending[i].accumulators[d])
    /\ subdag \in 0..MaxSubdag
    /\ minted \in [Anchors -> Mint \cup {None}]
    /\ ballots \in [Anchors -> [Authorities -> Ballot \cup {None}]]
    /\ certificates \in [Anchors -> CertifiedCheckpoint \cup {None}]
    /\ surrendered \in [Anchors -> Seq(Timings)]

WatermarkAnchor ==
    IF certifier.watermark = None THEN 0 ELSE certifier.watermark.checkpoint.anchor

(***************************************************************************)
(* The window holds the checkpoints minted above the watermark, each once, *)
(* as they were minted and in commit order; it starts with one that has no *)
(* certificate, and everything minted up to the watermark is certified.    *)
(* (certifier.rs:88-91: the window and the watermark fields.)              *)
(***************************************************************************)
WindowFollowsWatermark ==
    LET pending == certifier.pending
        w == WatermarkAnchor
    IN  /\ {pending[i].local.anchor : i \in DOMAIN pending} =
               {n \in Anchors : n > w /\ minted[n] # None}
        /\ \A i, j \in DOMAIN pending :
               i < j => pending[i].local.anchor < pending[j].local.anchor
        /\ \A i \in DOMAIN pending :
               LET n == pending[i].local.anchor
               IN  /\ minted[n] = [commitment |-> pending[i].local.commitment,
                                   timings    |-> pending[i].timings]
                   /\ pending[i].certificate = certificates[n]
        /\ pending # << >> => ~Certified(pending[1])
        /\ \A n \in 1..w : minted[n] # None => certificates[n] # None
        /\ w > 0 => certifier.watermark = certificates[w]

(***************************************************************************)
(* The accumulators of an uncertified checkpoint hold every author's first *)
(* vote since the mint and no other, and the running stake is the weight   *)
(* of the votes. (certifier.rs:39-46 and 165-178: one pass over the        *)
(* accumulators dedupes an author who voted for another commitment.)       *)
(***************************************************************************)
TalliesAreFirstVotes ==
    \A i \in DOMAIN certifier.pending :
        LET entry == certifier.pending[i]
            n == entry.local.anchor
        IN  ~Certified(entry) =>
                \A d \in Commitments :
                    /\ entry.accumulators[d].votes = Supporters(n, d)
                    /\ entry.accumulators[d].stake = Weight[Supporters(n, d)]

(***************************************************************************)
(* A checkpoint is certified exactly when the first votes for one of its   *)
(* commitments weigh a quorum, with that commitment and its own anchor.    *)
(* (certifier.rs:129-199: record, whatever the local commitment is.)       *)
(***************************************************************************)
CertificatesAreQuorums ==
    \A n \in Anchors :
        IF certificates[n] = None
        THEN Decided(n) = {}
        ELSE /\ Decided(n) = {certificates[n].checkpoint.commitment}
             /\ certificates[n].checkpoint.anchor = n

(***************************************************************************)
(* The proof of a certificate lists the delivering sub-dag of each counted *)
(* vote, one entry per supporter, in commit order.                         *)
(* (certifier.rs:24: "The delivering sub-dag of each counted vote, in      *)
(* commit order".)                                                         *)
(***************************************************************************)
ProofsListDeliveries ==
    \A n \in Anchors : certificates[n] # None =>
        LET proof == certificates[n].proof
            supporters == Supporters(n, certificates[n].checkpoint.commitment)
        IN  /\ \A s \in Anchors :
                   Cardinality({i \in DOMAIN proof : proof[i] = s}) =
                       Cardinality({a \in supporters : ballots[n][a].subdag = s})
            /\ \A i, j \in DOMAIN proof : i < j => proof[i] <= proof[j]

(***************************************************************************)
(* record gives a checkpoint's timings back once, when its certificate     *)
(* forms, and they are those of its own mint: a latency is observed once   *)
(* per certified checkpoint. (certifier.rs:127-128 and 200-210.)           *)
(***************************************************************************)
TimingsReturnedOnce ==
    \A n \in Anchors :
        surrendered[n] = IF certificates[n] = None THEN << >> ELSE <<minted[n].timings>>

(***************************************************************************)
(* An observed certificate can never change (certifier.rs:160).            *)
(***************************************************************************)
CertificatesAreFinal ==
    [][\A n \in Anchors :
           certificates[n] # None => certificates'[n] = certificates[n]]_vars

(***************************************************************************)
(* The certifier implements Certification: its window, accumulators and    *)
(* lookups decide what the ballots alone would decide.                     *)
(***************************************************************************)
Abstract == INSTANCE Certification WITH
    minted       <- {n \in Anchors : minted[n] # None},
    ballots      <- [n \in Anchors |-> [a \in Authorities |->
                        IF ballots[n][a] = None THEN None ELSE ballots[n][a].commitment]],
    certificates <- [n \in Anchors |->
                        IF certificates[n] = None THEN None
                        ELSE certificates[n].checkpoint.commitment],
    watermark    <- WatermarkAnchor

ImplementsCertification == Abstract!Spec
=============================================================================
