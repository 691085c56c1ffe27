--------------------------- MODULE ExecutionState ---------------------------
(***************************************************************************)
(* ExecutionState of crates/validator/src/validator.rs: the scheduler and  *)
(* the certifier that the driver task feeds with committed sub-dags.       *)
(*                                                                         *)
(* Of the execution layer only the commitment is kept. It chains every     *)
(* write in commit order (Execution!CommitmentDeterminesStore) and all     *)
(* validators execute one log, so the number of writing sub-dags executed  *)
(* identifies it. Of a committed sub-dag there remain what its             *)
(* transactions do to the store and the votes it carries, in canonical     *)
(* order; undecodable payloads are skipped by everyone and left out.       *)
(***************************************************************************)
EXTENDS CertifierOps, SequencesExt

Effects == {"nothing", "aborts", "writes"}
Vote == [author : Authorities, checkpoint : Checkpoint]
CommittedSubDag == [effect : Effects, votes : Seq(Vote)]
State == [store : Commitments, certifier : CheckpointCertifier]

NewState == [store |-> 0, certifier |-> NewCertifier]

Executes(subdag) == subdag.effect # "nothing"

\* Seeded slip: the votes are executed too, and a sub-dag of votes alone writes.
CommitmentOfAll(state, subdag) == state.store + 1

\* The commitment after the sub-dag's transactions are executed.
Commitment(state, subdag) ==
    IF subdag.effect = "writes" THEN state.store + 1 ELSE state.store

\* The commitment to the state after the first n sub-dags of a log.
CommitmentAfter(log, n) == Cardinality({m \in 1..n : log[m].effect = "writes"})

\* Recording one vote: a certificate that forms is observed as a latency.
ObserveVote(progress, n, vote) ==
    LET returned == Returned(progress.certifier, n, vote.author, vote.checkpoint)
    IN  [certifier |-> Record(progress.certifier, n, vote.author, vote.checkpoint),
         latencies |-> IF returned = None THEN progress.latencies
                                          ELSE Append(progress.latencies, returned)]

\* Seeded slip: the checkpoint commits to the store before the sub-dag.
ExecuteSubdagLate(state, n, subdag, timings) ==
    LET minted == IF Executes(subdag)
                  THEN Push(state.certifier, n, state.store, timings)
                  ELSE state.certifier
        recorded == FoldLeft(LAMBDA progress, vote : ObserveVote(progress, n, vote),
                             [certifier |-> minted, latencies |-> << >>], subdag.votes)
    IN  [state     |-> [store |-> Commitment(state, subdag), certifier |-> recorded.certifier],
         minted    |-> IF Executes(subdag)
                       THEN [anchor |-> n, commitment |-> state.store]
                       ELSE None,
         latencies |-> recorded.latencies]

\* execute_subdag: execute, mint, then record the votes, in this order.
ExecuteSubdag(state, n, subdag, timings) ==
    LET store == Commitment(state, subdag)
        minted == IF Executes(subdag)
                  THEN Push(state.certifier, n, store, timings)
                  ELSE state.certifier
        recorded == FoldLeft(LAMBDA progress, vote : ObserveVote(progress, n, vote),
                             [certifier |-> minted, latencies |-> << >>], subdag.votes)
    IN  [state     |-> [store |-> store, certifier |-> recorded.certifier],
         minted    |-> IF Executes(subdag) THEN [anchor |-> n, commitment |-> store] ELSE None,
         latencies |-> recorded.latencies]

\* CheckpointCertifier::pending, the checkpoints not yet contiguously certified.
Uncertified(state) ==
    [i \in DOMAIN state.certifier.pending |-> state.certifier.pending[i].local]

\* Seeded slip: a certificate that awaits contiguity counts as the highest one.
StatusOutOfOrder(state) ==
    LET pending == state.certifier.pending
        ahead == {i \in DOMAIN pending : Certified(pending[i])}
    IN  [certified |-> IF ahead # {} THEN pending[Max(ahead)].certificate.checkpoint.commitment
                       ELSE IF state.certifier.watermark = None THEN None
                       ELSE state.certifier.watermark.checkpoint.commitment,
         store     |-> state.store]

\* certification_status, the pair that wait_for_certified compares.
CertificationStatus(state) ==
    [certified |-> IF state.certifier.watermark = None THEN None
                   ELSE state.certifier.watermark.checkpoint.commitment,
     store     |-> state.store]
=============================================================================
