-------------------------------- MODULE Handle --------------------------------
(***************************************************************************)
(* A validator from its start on, and its ValidatorHandle (validator.rs):  *)
(* it replays its WAL and starts the driver task, which attests again to   *)
(* what is uncertified and then executes the commit stream. The driver     *)
(* publishes its progress on two watch channels, one after the other,      *)
(* while a client waits on them: wait_for_transactions(target), then       *)
(* wait_for_certified. The stream ends when the replica stops; the driver  *)
(* then drains it and drops the channels' senders.                         *)
(*                                                                         *)
(* Driver and replica are joined by two bounded channels in a cycle: the   *)
(* commit stream, and the transaction queue to which the driver and other  *)
(* clients submit batches. The replica is external: it awaits room in the  *)
(* stream, takes batches from the queue, and refuses them once it stopped. *)
(*                                                                         *)
(* A watch channel is external (tokio): it holds the last value sent and   *)
(* counts the sends; its receiver remembers the last one it saw, changed() *)
(* waits for another, or fails once the sender is dropped.                 *)
(***************************************************************************)
EXTENDS ExecutionState

CONSTANTS
    StreamEffects,  \* what the committed transactions do
    MaxVotes,       \* bound on the votes that one sub-dag carries
    MaxReplayed,    \* bound on the sub-dags in the WAL
    StreamCapacity, \* COMMIT_CHANNEL_CAPACITY
    QueueCapacity,  \* how many batches the transaction queue holds
    MaxTransactions \* bound on the transactions that one sub-dag executes

\* A commitment counts the writing sub-dags; a checkpoint is minted when the driver
\* receives its sub-dag, or in a replay.
ASSUME StateAssumption ==
    /\ Commitments \subseteq Nat /\ 0 \in Commitments
    /\ Timings = {"live", "replayed"}

ASSUME StreamAssumption ==
    /\ StreamEffects \subseteq Effects
    /\ MaxVotes \in Nat /\ MaxReplayed \in 0..MaxSubdag
    /\ 0..MaxSubdag \subseteq Commitments
    /\ {StreamCapacity, QueueCapacity, MaxTransactions} \subseteq Nat \ {0}

VARIABLES
    stream,         \* the committed sub-dags that the driver has not received
    queued,         \* how many batches are in the transaction queue
    closed,         \* whether the replica has stopped
    delivered,      \* how many sub-dags the driver received
    state,          \* its ExecutionState
    count,          \* how many transactions it executed
    counts,         \* history: the count after each sub-dag it received
    driver,         \* where the start, and then the driver's task, is
    executed,       \* the watch channel of the count
    certified,      \* the watch channel of the certification status
    waiter          \* the client, with what its receivers last saw

execution == <<delivered, state, count, counts>>
channels == <<executed, certified>>
vars == <<stream, queued, closed, delivered, state, count, counts, driver, executed, certified,
          waiter>>

Channel(value) == [value |-> value, version |-> 0]
Send(channel, value) == [value |-> value, version |-> channel.version + 1]

Init ==
    /\ stream = << >>
    /\ queued = 0
    /\ closed = FALSE
    /\ delivered = 0
    /\ state = NewState
    /\ count = 0
    /\ counts = << >>
    /\ driver = "replaying"
    /\ executed = Channel(0)
    /\ certified = Channel(CertificationStatus(NewState))
    /\ waiter = [at |-> "idle", target |-> 0, seenExecuted |-> 0, seenCertified |-> 0]
-----------------------------------------------------------------------------
\* A sub-dag that executes transactions adds as many of them to the count.
CountUp(subdag, transactions) ==
    /\ count' = count + (IF Executes(subdag) THEN transactions ELSE 0)
    /\ counts' = Append(counts, count')

(***************************************************************************)
(* The start: the sub-dags of the WAL are executed, then the replica runs, *)
(* the channels are created and the driver is spawned.                     *)
(***************************************************************************)
Replay(effect, votes, transactions) ==
    /\ driver = "replaying"
    /\ delivered < MaxReplayed
    /\ LET subdag == [effect |-> effect, votes |-> votes]
       IN  /\ state' = ExecuteSubdag(state, delivered + 1, subdag, "replayed").state
           /\ CountUp(subdag, transactions)
    /\ delivered' = delivered + 1
    /\ UNCHANGED <<stream, queued, closed, driver, channels, waiter>>

Start ==
    /\ driver = "replaying"
    /\ executed' = Channel(count)
    /\ certified' = Channel(CertificationStatus(state))
    /\ driver' = IF Uncertified(state) = << >> THEN "receiving" ELSE "re-attesting"
    /\ UNCHANGED <<stream, queued, closed, execution, waiter>>

Started == driver # "replaying"

(***************************************************************************)
(* The replica: until it stops, by itself or because the handle shuts it   *)
(* down, it commits sub-dags and may put what is queued in its blocks.     *)
(***************************************************************************)
Commit(effect, votes) ==
    /\ Started /\ ~closed
    /\ Len(stream) < StreamCapacity
    /\ delivered + Len(stream) < MaxSubdag
    /\ stream' = Append(stream, [effect |-> effect, votes |-> votes])
    /\ UNCHANGED <<queued, closed, execution, driver, channels, waiter>>

TakeBatch ==
    /\ ~closed
    /\ queued > 0
    /\ queued' = queued - 1
    /\ UNCHANGED <<stream, closed, execution, driver, channels, waiter>>

StopReplica ==
    /\ Started /\ ~closed
    /\ closed' = TRUE
    /\ UNCHANGED <<stream, queued, execution, driver, channels, waiter>>

(***************************************************************************)
(* submit of the handle, or a batch of the load generator.                 *)
(***************************************************************************)
SubmitTransactions ==
    /\ Started /\ ~closed
    /\ queued < QueueCapacity
    /\ queued' = queued + 1
    /\ UNCHANGED <<stream, closed, execution, driver, channels, waiter>>

(***************************************************************************)
(* The driver's loop: receive and execute, publish the count, publish the  *)
(* status, and attest to the minted checkpoint.                            *)
(***************************************************************************)
Execute(transactions) ==
    /\ driver = "receiving"
    /\ stream # << >>
    /\ stream' = Tail(stream)
    /\ delivered' = delivered + 1
    /\ state' = ExecuteSubdag(state, delivered + 1, Head(stream), "live").state
    /\ CountUp(Head(stream), transactions)
    /\ driver' = "sending executed"
    /\ UNCHANGED <<queued, closed, channels, waiter>>

\* Seeded slip: the sub-dags are counted and not the transactions.
SendDelivered ==
    /\ driver = "sending executed"
    /\ executed' = Send(executed, delivered)
    /\ driver' = "sending certified"
    /\ UNCHANGED <<stream, queued, closed, execution, certified, waiter>>

SendExecuted ==
    /\ driver = "sending executed"
    /\ executed' = Send(executed, count)
    /\ driver' = "sending certified"
    /\ UNCHANGED <<stream, queued, closed, execution, certified, waiter>>

\* Whether the last sub-dag minted: its checkpoint cannot be certified yet.
Minted ==
    LET pending == Uncertified(state)
    IN  pending # << >> /\ Last(pending).anchor = delivered

SendCertified ==
    /\ driver = "sending certified"
    /\ certified' = Send(certified, CertificationStatus(state))
    /\ driver' = IF Minted THEN "attesting" ELSE "receiving"
    /\ UNCHANGED <<stream, queued, closed, execution, executed, waiter>>

Attesting == driver \in {"re-attesting", "attesting"}

\* Seeded slip: a submission that is refused is tried again.
RetryAttestations ==
    /\ Attesting
    /\ closed \/ queued < QueueCapacity
    /\ queued' = IF closed THEN queued ELSE queued + 1
    /\ driver' = IF closed THEN driver ELSE "receiving"
    /\ UNCHANGED <<stream, closed, execution, channels, waiter>>

\* A submission is one batch, of the whole window when the driver attests again. It
\* resolves once there is room, or fails once the replica stopped, which is ignored.
SubmitAttestations ==
    /\ Attesting
    /\ closed \/ queued < QueueCapacity
    /\ queued' = IF closed THEN queued ELSE queued + 1
    /\ driver' = "receiving"
    /\ UNCHANGED <<stream, closed, execution, channels, waiter>>

\* Seeded slip: the driver stops with the replica, whatever is left of the stream.
StreamEndsAtOnce == closed

\* recv returns None once the channel is closed and empty.
StreamEnds == closed /\ stream = << >>

StopDriver ==
    /\ driver = "receiving"
    /\ StreamEnds
    /\ driver' = "stopped"
    /\ UNCHANGED <<stream, queued, closed, execution, channels, waiter>>

(***************************************************************************)
(* The client. Each wait reads its channel and marks it seen, and awaits a *)
(* change when the value is not there yet.                                 *)
(***************************************************************************)
At(place) == waiter.at = place
Goto(place) == [waiter EXCEPT !.at = place]

\* The counts that a client may wait for, of which the last are never reached.
Targets == 0..(MaxSubdag * MaxTransactions)

Call(target) ==
    /\ Started
    /\ At("idle") \/ At("returned") \/ At("returned early")
    /\ waiter' = [waiter EXCEPT !.at = "reading executed", !.target = target]

ReadExecuted ==
    /\ At("reading executed")
    /\ waiter' = [waiter EXCEPT
                    !.at = IF executed.value < waiter.target THEN "awaiting executed"
                                                             ELSE "reading certified",
                    !.seenExecuted = executed.version]

\* changed(): a value not seen yet, or the sender is gone.
AwaitExecuted ==
    /\ At("awaiting executed")
    /\ \/ /\ waiter.seenExecuted # executed.version
          /\ waiter' = [Goto("reading executed") EXCEPT !.seenExecuted = executed.version]
       \/ /\ waiter.seenExecuted = executed.version
          /\ driver = "stopped"
          /\ waiter' = Goto("returned early")

EverythingCertified(status) == status.certified = status.store

ReadCertified ==
    /\ At("reading certified")
    /\ waiter' = [waiter EXCEPT
                    !.at = IF EverythingCertified(certified.value) THEN "returned"
                                                                   ELSE "awaiting certified",
                    !.seenCertified = certified.version]

\* Seeded slip: what was sent since the value was read is taken as seen.
AwaitNextCertified ==
    /\ At("awaiting certified")
    /\ waiter' = IF driver = "stopped" THEN Goto("returned early")
                 ELSE [waiter EXCEPT !.seenCertified = certified.version]

AwaitCertified ==
    /\ At("awaiting certified")
    /\ \/ /\ waiter.seenCertified # certified.version
          /\ waiter' = [Goto("reading certified") EXCEPT !.seenCertified = certified.version]
       \/ /\ waiter.seenCertified = certified.version
          /\ driver = "stopped"
          /\ waiter' = Goto("returned early")

Wait ==
    /\ ReadExecuted \/ AwaitExecuted \/ ReadCertified \/ AwaitCertified
    /\ UNCHANGED <<stream, queued, closed, execution, driver, channels>>

CallSome ==
    /\ \E target \in Targets : Call(target)
    /\ UNCHANGED <<stream, queued, closed, execution, driver, channels>>

\* The checkpoints of the committed sub-dags, as every correct validator attests them
\* (Committee!CertifiedWasExecuted): those executed here and those of the stream.
Attested ==
    Range(Uncertified(state))
        \cup {[anchor |-> delivered + n, commitment |-> state.store + CommitmentAfter(stream, n)] :
                  n \in {m \in DOMAIN stream : Executes(stream[m])}}

VotesInReach == [author : Authorities, checkpoint : Attested]

CommitSome == \E effect \in StreamEffects, votes \in SeqOf(VotesInReach, MaxVotes) :
                  Commit(effect, votes)

ReplaySome == \E effect \in StreamEffects, votes \in SeqOf(VotesInReach, MaxVotes),
                 transactions \in 1..MaxTransactions :
                  Replay(effect, votes, transactions)

ExecuteSome == \E transactions \in 1..MaxTransactions : Execute(transactions)

Drive == ExecuteSome \/ SendExecuted \/ SendCertified \/ SubmitAttestations \/ StopDriver

Next ==
    \/ ReplaySome \/ Start \/ Drive
    \/ CommitSome \/ TakeBatch \/ StopReplica \/ SubmitTransactions
    \/ CallSome \/ Wait

Spec == Init /\ [][Next]_vars

(***************************************************************************)
(* The runtime schedules the start, the driver and the client. The queue   *)
(* hands its room out in the order in which it is asked for, so that a     *)
(* submission is not overtaken for ever. Nothing obliges the replica to    *)
(* commit, to take a batch or to stop, or the client to call. A step of    *)
(* the driver is one that moves its place, which says it without computing *)
(* the state.                                                              *)
(***************************************************************************)
DriverMoves ==
    /\ \/ driver \in {"replaying", "sending executed", "sending certified"}
       \/ driver = "receiving" /\ (stream # << >> \/ closed)
    /\ driver' \in {"re-attesting", "receiving", "sending executed", "sending certified",
                   "attesting", "stopped"}

FairSpec ==
    /\ Spec
    /\ WF_driver(DriverMoves) /\ SF_driver(SubmitAttestations)
    /\ WF_vars(Wait)
-----------------------------------------------------------------------------
(***************************************************************************)
(* The driver, its channels and the client are in well-formed states.      *)
(***************************************************************************)
TypeOK ==
    /\ stream \in Seq(CommittedSubDag) /\ Len(stream) <= StreamCapacity
    /\ queued \in 0..QueueCapacity
    /\ closed \in BOOLEAN
    /\ delivered \in 0..MaxSubdag
    /\ count \in Nat
    /\ counts \in [1..delivered -> 0..count]
    /\ state \in State
    /\ driver \in {"replaying", "re-attesting", "receiving", "sending executed",
                  "sending certified", "attesting", "stopped"}
    /\ executed \in [value : 0..count, version : 0..delivered]
    /\ certified \in [value : [certified : Commitments \cup {None}, store : Commitments],
                      version : 0..delivered]
    /\ waiter \in [at : {"idle", "reading executed", "awaiting executed",
                         "reading certified", "awaiting certified",
                         "returned", "returned early"},
                   target : Targets,
                   seenExecuted : 0..delivered, seenCertified : 0..delivered]

(***************************************************************************)
(* When the highest certified commitment equals the store's, everything    *)
(* executed is certified. (validator.rs:411-412: "Waits until everything   *)
(* executed is certified: the highest certified commitment equals the      *)
(* store commitment".)                                                     *)
(***************************************************************************)
EqualityMeansCertified ==
    driver \in {"re-attesting", "receiving", "attesting"} /\ EverythingCertified(certified.value) =>
        state.certifier.pending = << >>

\* The sub-dags of the uncertified checkpoints.
UncertifiedSubdags == {checkpoint.anchor : checkpoint \in Range(Uncertified(state))}

\* How many transactions were executed before the n-th sub-dag.
CountBefore(n) == IF n = 1 THEN 0 ELSE counts[n - 1]

(***************************************************************************)
(* When both waits have returned, every sub-dag that executed a            *)
(* transaction of the cut is certified. (validator.rs:412-414: "meaningful *)
(* after an executed-count cut (wait_for_transactions first)".)            *)
(***************************************************************************)
CutIsCertified ==
    At("returned") => \A n \in UncertifiedSubdags : CountBefore(n) >= waiter.target

(***************************************************************************)
(* The two channels are never further apart than one sub-dag: when both    *)
(* waits have returned, every sub-dag of the cut is certified but, at      *)
(* most, the one that reached the target. (validator.rs:194-195: the two   *)
(* sends, in this order.)                                                  *)
(***************************************************************************)
CutLagsByOneSubdag ==
    At("returned") => \A n \in UncertifiedSubdags : counts[n] >= waiter.target

(***************************************************************************)
(* A driver that stopped has executed every commit the replica handed over *)
(* and published the result. (validator.rs:434-441: shutdown "waits for    *)
(* the driver to drain the remaining commits".)                            *)
(***************************************************************************)
StopsDrained ==
    driver = "stopped" =>
        /\ stream = << >>
        /\ executed.value = count
        /\ certified.value = CertificationStatus(state)

(***************************************************************************)
(* No wakeup is lost: a client does not wait forever for what the channels *)
(* hold for good, nor for a driver that stopped.                           *)
(* (validator.rs:401-426: borrow_and_update, then changed.)                *)
(***************************************************************************)
Answered ==
    \/ driver = "stopped"
    \/ executed.value >= waiter.target /\ EverythingCertified(certified.value)

Waiting == ~(At("idle") \/ At("returned") \/ At("returned early"))

WaitsReturn == []<>(~Waiting \/ ~Answered)

CaughtUp ==
    \/ driver = "stopped"
    \/ driver = "receiving" /\ stream = << >> /\ ~closed

(***************************************************************************)
(* Provided that the transaction queue has room, or is closed, again and   *)
(* again, the driver has executed and answered all of the (bounded) stream *)
(* again and again, or has ended, so shutdown returns: whenever the        *)
(* replica stops, a driver that awaits room or a commit is released. Of a  *)
(* replica that waits for the stream, and takes no batch meanwhile, it     *)
(* says nothing. (validator.rs:183-204, 434-441; 38-39: a slow consumer    *)
(* backpressures the replica; 196-198: a failing submission is benign.)    *)
(***************************************************************************)
QueueHasRoom == closed \/ queued < QueueCapacity

DriverCatchesUp == []<>QueueHasRoom => []<>CaughtUp
=============================================================================
