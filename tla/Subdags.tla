------------------------------- MODULE Subdags -------------------------------
(***************************************************************************)
(* execute_subdag (validator.rs) in full: the blocks of a committed        *)
(* sub-dag are put in canonical order, their payloads decoded              *)
(* (envelope.rs), the transactions executed on the versioned store, a      *)
(* checkpoint minted and the votes recorded.                               *)
(*                                                                         *)
(* One log is executed by two copies of the state: a live one, and one     *)
(* that replays the log. The stream and the WAL may hand the blocks of a   *)
(* sub-dag over in any order (both are external, and so is the canonical   *)
(* order: each block has a place in it).                                   *)
(*                                                                         *)
(* A seeded slip is an alternative that only the mutation runs substitute  *)
(* for the definition that follows it.                                     *)
(***************************************************************************)
EXTENDS CertifierOps, ExecutionOps, SequencesExt

CONSTANTS
    Submissions,        \* the Execute payloads and the undecodable ones, as bytes
    VoteStamp,          \* the time stamp of attestations
    MaxPayloadSize,     \* envelope.rs: MAX_PAYLOAD_SIZE
    StampRange,         \* 2^64: time stamps and their sum are taken modulo it
    Shapes              \* bound on the sub-dags: the payloads of each block

Copies == {"live", "replayed"}
Stamps == 0..(StampRange - 1)
CheckpointTimings == [minted_at : 0..MaxSubdag, mean_timestamp_ms : Stamps]

\* What a store may commit to: no write is ahead of its place, none of an object
\* is below an earlier one.
Histories ==
    {history \in UNION {[1..k -> Object] : k \in 0..MaxWrites} :
        \A i \in DOMAIN history :
            /\ history[i].version \in 1..i
            /\ \A j \in 1..(i - 1) : history[j].id = history[i].id =>
                                           history[j].version < history[i].version}

ExecuteEnvelope == [timestamp_ms : Stamps, payload : {"Execute"}, transaction : Transaction]
Submission == [envelope : ExecuteEnvelope \cup {None}, size : Nat]

ASSUME SubdagsAssumption ==
    /\ Timings = CheckpointTimings
    /\ Histories \subseteq Commitments
    /\ Submissions \subseteq Submission
    /\ StampRange \in Nat \ {0} /\ VoteStamp \in Stamps /\ MaxPayloadSize \in Nat
    /\ Shapes \subseteq Seq(Nat)

VARIABLES
    log,    \* what the executed sub-dags were, read in canonical order
    state   \* per copy, its ExecutionState with the executed count

vars == <<log, state>>
-----------------------------------------------------------------------------
(***************************************************************************)
(* Payloads. The bytes of a payload encode an envelope of some size, or    *)
(* none. What follows the envelope is ignored.                             *)
(***************************************************************************)
Execute(timestamp_ms, transaction) ==
    [timestamp_ms |-> timestamp_ms, payload |-> "Execute", transaction |-> transaction]
Attest(timestamp_ms, checkpoint) ==
    [timestamp_ms |-> timestamp_ms, payload |-> "Attest", checkpoint |-> checkpoint]

ToBytes(envelope, size) == [envelope |-> envelope, size |-> size]
Garbage(size) == [envelope |-> None, size |-> size]

FromBytes(bytes) == IF bytes.size > MaxPayloadSize THEN None ELSE bytes.envelope

\* An attestation is a few fixed-size fields.
AttestationSize == 1

\* CommittedSubDag::sort.
Sorted(blocks) == [i \in DOMAIN blocks |-> CHOOSE b \in Range(blocks) : b.place = i]

\* The payloads of the blocks, in order, decoded, each with the author of its block.
Decoded(blocks) ==
    FlattenSeq([i \in DOMAIN blocks |->
        [j \in DOMAIN blocks[i].payloads |->
            [author |-> blocks[i].author, envelope |-> FromBytes(blocks[i].payloads[j])]]])

\* Seeded slip: the blocks are taken as they come.
Unsorted(blocks) == Decoded(blocks)

\* What a sub-dag holds, whatever order its blocks came in.
InCanonicalOrder(blocks) == Decoded(Sorted(blocks))

\* The payloads of one kind; those that do not decode are skipped.
OfKind(kind, decoded) ==
    FoldLeft(LAMBDA kept, d : IF d.envelope # None /\ d.envelope.payload = kind
                              THEN Append(kept, d) ELSE kept,
             << >>, decoded)

Calls(decoded) == OfKind("Execute", decoded)
Votes(decoded) == OfKind("Attest", decoded)

SumOfStamps(payloads) == FoldLeft(LAMBDA sum, d : sum + d.envelope.timestamp_ms, 0, payloads)

\* Seeded slip: the stamps of the votes are summed as well.
MeanOfAll(decoded) ==
    (SumOfStamps(Calls(decoded) \o Votes(decoded)) % StampRange) \div Len(Calls(decoded))

\* The mean submission stamp, from an unchecked sum.
MeanTimestamp(decoded) ==
    (SumOfStamps(Calls(decoded)) % StampRange) \div Len(Calls(decoded))

\* SequentialScheduler::execute over the calls of a sub-dag.
ExecuteAll(store, calls) ==
    FoldLeft(LAMBDA s, d : Apply(s, OutputWrites(s, d.envelope.transaction)), store, calls)

\* Seeded slip: a checkpoint is minted by votes too.
MintedWithVotes(copy, n, store, decoded, now) ==
    IF Calls(decoded) = << >> /\ Votes(decoded) = << >> THEN copy.certifier
    ELSE Push(copy.certifier, n, store.commitment,
              [minted_at |-> now, mean_timestamp_ms |-> 0])

Minted(copy, n, store, decoded, now) ==
    IF Calls(decoded) = << >> THEN copy.certifier
    ELSE Push(copy.certifier, n, store.commitment,
              [minted_at |-> now, mean_timestamp_ms |-> MeanTimestamp(decoded)])

RecordAll(certifier, n, votes) ==
    FoldLeft(LAMBDA c, d : Record(c, n, d.author, d.envelope.checkpoint), certifier, votes)

\* execute_subdag for the n-th sub-dag, at the given clock.
ExecuteBlocks(copy, n, blocks, now) ==
    LET decoded == InCanonicalOrder(blocks)
        store == ExecuteAll(copy.store, Calls(decoded))
    IN  [store     |-> store,
         certifier |-> RecordAll(Minted(copy, n, store, decoded, now), n, Votes(decoded)),
         executed  |-> copy.executed + Len(Calls(decoded))]
-----------------------------------------------------------------------------
Init ==
    /\ log = << >>
    /\ state = [copy \in Copies |-> [store |-> EmptyStore, certifier |-> NewCertifier,
                                     executed |-> 0]]

\* The clock of a live delivery is the number of the sub-dag; a replay's stands still.
Clock(copy, n) == IF copy = "live" THEN n ELSE 0

\* What the sub-dag was, for the properties.
Summary(blocks, before, after) ==
    LET calls == Calls(Decoded(blocks))
        votes == Votes(Decoded(blocks))
    IN  [effect     |-> IF calls = << >> THEN "nothing"
                        ELSE IF before = after THEN "aborts" ELSE "writes",
         votes      |-> [i \in DOMAIN votes |->
                            [author |-> votes[i].author,
                             checkpoint |-> votes[i].envelope.checkpoint]],
         stamps     |-> {calls[i].envelope.timestamp_ms : i \in DOMAIN calls},
         commitment |-> after]

Orders(k) == {order \in [1..k -> 1..k] : Range(order) = 1..k}

\* Both copies receive and execute the next sub-dag, here in canonical order.
Deliver(blocks) ==
    LET n == Len(log) + 1
        calls == Calls(Decoded(blocks))
        before == state["live"].store
    IN  /\ n <= MaxSubdag
        /\ CreateFreshIds(before, [i \in DOMAIN calls |-> calls[i].envelope.transaction])
        /\ Len(ExecuteAll(before, calls).commitment) <= MaxWrites
        /\ \E order \in [Copies -> Orders(Len(blocks))] :
               state' = [copy \in Copies |->
                            ExecuteBlocks(state[copy], n,
                                          [i \in DOMAIN blocks |-> blocks[order[copy][i]]],
                                          Clock(copy, n))]
        /\ log' = Append(log, Summary(blocks, before.commitment, state'["live"].store.commitment))

\* Votes are for sub-dags that committed before (see Committee), and for the
\* commitments of any prefix of the log.
VotesInReach ==
    {ToBytes(Attest(VoteStamp, [anchor |-> n, commitment |-> c]), AttestationSize) :
        n \in DOMAIN log, c \in {<< >>} \cup {log[m].commitment : m \in DOMAIN log}}

BlocksOf(authors, payloads) ==
    [i \in DOMAIN authors |-> [place |-> i, author |-> authors[i], payloads |-> payloads[i]]]

Next ==
    \E shape \in Shapes :
        \E authors \in [DOMAIN shape -> Authorities],
           payloads \in [DOMAIN shape -> UNION {[1..k -> Submissions \cup VotesInReach] :
                                                    k \in Range(shape)}] :
               /\ \A i \in DOMAIN shape : Len(payloads[i]) = shape[i]
               /\ Deliver(BlocksOf(authors, payloads))

Spec == Init /\ [][Next]_vars
-----------------------------------------------------------------------------
(***************************************************************************)
(* The stores, certifiers and timings of both copies are well-formed.      *)
(***************************************************************************)
TypeOK ==
    /\ Len(log) <= MaxSubdag
    /\ \A copy \in Copies :
           /\ state[copy].store \in [objects : SUBSET Object, latest : [ObjectIds -> Version],
                                     commitment : Commitments]
           /\ state[copy].certifier \in CheckpointCertifier
           /\ state[copy].executed \in Nat

\* Apart from the clocks of the mints.
Undated(copy) ==
    [copy EXCEPT !.certifier.pending =
        [i \in DOMAIN @ |-> [@[i] EXCEPT !.timings.minted_at = 0]]]

(***************************************************************************)
(* Two validators that executed one log hold the same store, count, window *)
(* and certificates, whatever order its blocks reached them in, also when  *)
(* one of them replayed it: only the clocks of the mints differ.           *)
(* (validator.rs:219-221, "exactly as the live stream delivered them", and *)
(* 261-264, "in canonical order".)                                         *)
(***************************************************************************)
BlockOrderIsImmaterial == Undated(state["live"]) = Undated(state["replayed"])

(***************************************************************************)
(* The stamp of a checkpoint is the mean of the stamps of its own          *)
(* transactions and of nothing else, also of checkpoints that wait in the  *)
(* window: it lies between the earliest and the latest of them.            *)
(* (certifier.rs:64: "Mean submission stamp of the checkpointed            *)
(* transactions".)                                                         *)
(***************************************************************************)
MeansLieWithinStamps ==
    \A copy \in Copies : \A i \in DOMAIN state[copy].certifier.pending :
        LET entry == state[copy].certifier.pending[i]
            stamps == log[entry.local.anchor].stamps
        IN  entry.timings.mean_timestamp_ms \in Min(stamps)..Max(stamps)
-----------------------------------------------------------------------------
(***************************************************************************)
(* The refinement mapping: along a log, a chain of writes is the number of *)
(* writing sub-dags up to the first whose execution led to it.             *)
(***************************************************************************)
Writing(l, n) == Cardinality({m \in 1..n : l[m].effect = "writes"})

Number(l, commitment) ==
    LET leading == {n \in DOMAIN l : l[n].commitment = commitment}
    IN  IF leading = {} THEN 0 ELSE Writing(l, Min(leading))

\* The commitment that has a number, for the numbers that were reached.
Numbered(l, number) ==
    IF number = 0 THEN << >>
    ELSE l[Min({n \in DOMAIN l : Writing(l, n) = number})].commitment

AbstractCheckpoint(l, c) == [c EXCEPT !.commitment = Number(l, @)]
AbstractCertificate(l, c) ==
    IF c = None THEN None ELSE [c EXCEPT !.checkpoint = AbstractCheckpoint(l, @)]

AbstractEntry(l, entry) ==
    [local        |-> AbstractCheckpoint(l, entry.local),
     timings      |-> "live",
     accumulators |-> [number \in 0..MaxSubdag |->
                          IF number <= Writing(l, Len(l))
                          THEN entry.accumulators[Numbered(l, number)] ELSE EmptyAccumulator],
     certificate  |-> AbstractCertificate(l, entry.certificate)]

AbstractCertifier(l, certifier) ==
    [pending   |-> [i \in DOMAIN certifier.pending |-> AbstractEntry(l, certifier.pending[i])],
     watermark |-> AbstractCertificate(l, certifier.watermark)]

AbstractState(l, copy) ==
    [store     |-> Number(l, copy.store.commitment),
     certifier |-> AbstractCertifier(l, copy.certifier)]

AbstractVote(l, vote) == [vote EXCEPT !.checkpoint = AbstractCheckpoint(l, @)]

AbstractLog(l) ==
    [n \in DOMAIN l |->
        [effect |-> l[n].effect,
         votes  |-> [i \in DOMAIN l[n].votes |-> AbstractVote(l, l[n].votes[i])]]]

Abstract == INSTANCE Ledger WITH
    Commitments <- 0..MaxSubdag,
    Timings     <- {"live", "replayed"},
    log         <- AbstractLog(log),
    state       <- AbstractState(log, state["live"])

\* Option::None is no certificate of the abstract specification either.
ASSUME AbstractAssumption == None \notin Abstract!CertifiedCheckpoint

(***************************************************************************)
(* Executing sub-dags is what Committee and Handle take it for: of blocks, *)
(* payloads, objects and versions, the state keeps whether a sub-dag       *)
(* executed and wrote, and its votes; and along one log the number of      *)
(* writing sub-dags identifies the commitment.                             *)
(* (validator.rs:261-267, store.rs:69-70.)                                 *)
(***************************************************************************)
ImplementsLedger == Abstract!Spec
=============================================================================
