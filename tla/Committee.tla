------------------------------ MODULE Committee ------------------------------
(***************************************************************************)
(* A committee of validators over one totally ordered commit log: the      *)
(* driver task of every correct validator, its attestations riding back    *)
(* through consensus, crashes that lose the transaction queue, WAL replay  *)
(* and re-attestation (validator.rs: start, replay, execute_subdag), and   *)
(* crashes from which the pinned replica does not recover.                 *)
(*                                                                         *)
(* Consensus is external: it commits one sequence of sub-dags, every       *)
(* correct replica commits its prefixes and writes each commit to its WAL  *)
(* before it streams it, and a correct author's payloads commit in the     *)
(* order of its blocks. How far a replica's WAL is ahead of its driver     *)
(* matters when it crashes, and is chosen then. A Byzantine author votes   *)
(* whatever it likes, as often as it likes. A sub-dag with no payload      *)
(* changes nothing and is left out: a committed one executes something or  *)
(* carries a vote.                                                         *)
(***************************************************************************)
EXTENDS ExecutionState

CONSTANTS
    Byzantine,          \* the authorities that do not run this code
    LogEffects,         \* what the committed transactions do
    MaxCheckpoints,     \* bound on the executing sub-dags
    MaxVotes,           \* bound on the votes that one sub-dag carries
    MaxByzantineVotes,  \* bound on the Byzantine votes in the log
    MaxCrashes,         \* bound on the crashes of all validators
    MaxFaults           \* bound on both together, per number of executing sub-dags

Correct == Authorities \ Byzantine

\* A commitment counts the writing sub-dags; a checkpoint is minted when the driver
\* receives its sub-dag, or in a replay.
ASSUME StateAssumption ==
    /\ Commitments \subseteq Nat /\ 0 \in Commitments
    /\ Timings = {"live", "replayed"}

ASSUME CommitteeAssumption ==
    /\ Byzantine \subseteq Authorities
    /\ LogEffects \subseteq Effects
    /\ {MaxCheckpoints, MaxVotes, MaxByzantineVotes, MaxCrashes} \subseteq Nat
    /\ MaxFaults \in [0..MaxCheckpoints -> Nat]
    /\ 0..MaxCheckpoints \subseteq Commitments

VARIABLES
    log,        \* the sub-dags that consensus committed
    proposed,   \* per author, the votes in its blocks that are not committed yet
    phase,      \* per validator, whether it is running, down, replaying or broken
    delivered,  \* per validator, how many sub-dags it executed
    wal,        \* per validator, how many sub-dags its replay has to execute
    state,      \* per validator, its ExecutionState
    queue,      \* per validator, the votes submitted to its replica, unproposed
    crashes     \* how many crashes there were

consensus == <<log, proposed>>
vars == <<log, proposed, phase, delivered, wal, state, queue, crashes>>
-----------------------------------------------------------------------------
CheckpointsOf(author, votes) ==
    FoldLeft(LAMBDA checkpoints, vote : IF vote.author = author
                                        THEN Append(checkpoints, vote.checkpoint)
                                        ELSE checkpoints, << >>, votes)

\* No block can name the anchor of a sub-dag that commits it or comes after it: a
\* Byzantine vote is for a committed anchor, or for one that never exists. Only the
\* anchors of the sub-dags that executed something are known to the certifiers.
VotesInReach ==
    (UNION {{[author |-> a, checkpoint |-> c] : c \in Range(proposed[a])} : a \in Correct})
    \cup [author : Byzantine,
          checkpoint : [anchor : {n \in DOMAIN log : Executes(log[n])},
                        commitment : 0..MaxCheckpoints]]

\* How many Byzantine votes a sequence of votes has, and a log.
ByzantineAmong(votes) == Cardinality({i \in DOMAIN votes : votes[i].author \in Byzantine})

ByzantineVotes(subdags) ==
    FoldLeft(LAMBDA sum, subdag : sum + ByzantineAmong(subdag.votes), 0, subdags)

ExecutingSubdags(subdags) == Cardinality({n \in DOMAIN subdags : Executes(subdags[n])})

WithinBounds(subdags, numberOfCrashes) ==
    /\ ExecutingSubdags(subdags) <= MaxCheckpoints
    /\ ByzantineVotes(subdags) <= MaxByzantineVotes
    /\ numberOfCrashes <= MaxCrashes
    /\ numberOfCrashes + ByzantineVotes(subdags) <= MaxFaults[ExecutingSubdags(subdags)]

Init ==
    /\ log = << >>
    /\ proposed = [a \in Correct |-> << >>]
    /\ phase = [v \in Correct |-> "running"]
    /\ wal = [v \in Correct |-> 0]
    /\ delivered = [v \in Correct |-> 0]
    /\ state = [v \in Correct |-> NewState]
    /\ queue = [v \in Correct |-> << >>]
    /\ crashes = 0

\* Consensus commits the next sub-dag.
Commit(effect, votes) ==
    /\ Len(log) < MaxSubdag
    /\ effect # "nothing" \/ votes # << >>
    /\ \A a \in Correct : IsPrefix(CheckpointsOf(a, votes), proposed[a])
    /\ WithinBounds(Append(log, [effect |-> effect, votes |-> votes]), crashes)
    /\ log' = Append(log, [effect |-> effect, votes |-> votes])
    /\ proposed' = [a \in Correct |->
                        SubSeq(proposed[a], Len(CheckpointsOf(a, votes)) + 1, Len(proposed[a]))]
    /\ UNCHANGED <<phase, delivered, wal, state, queue, crashes>>

\* The replica puts the submitted votes in its next blocks.
Propose(v) ==
    /\ phase[v] = "running"
    /\ queue[v] # << >>
    /\ proposed' = [proposed EXCEPT ![v] = @ \o queue[v]]
    /\ queue' = [queue EXCEPT ![v] = << >>]
    /\ UNCHANGED <<log, phase, delivered, wal, state, crashes>>

Executed(v, timings) ==
    ExecuteSubdag(state[v], delivered[v] + 1, log[delivered[v] + 1], timings)

\* The driver's loop body: execute the next sub-dag and attest to what it minted.
Deliver(v) ==
    /\ phase[v] = "running"
    /\ delivered[v] < Len(log)
    /\ LET executed == Executed(v, "live")
       IN  /\ state' = [state EXCEPT ![v] = executed.state]
           /\ queue' = IF executed.minted = None THEN queue
                       ELSE [queue EXCEPT ![v] = Append(@, executed.minted)]
    /\ delivered' = [delivered EXCEPT ![v] = @ + 1]
    /\ UNCHANGED <<consensus, phase, wal, crashes>>

\* Everything is lost but the blocks and the WAL.
LoseMemory(v) ==
    /\ WithinBounds(log, crashes + 1)
    /\ crashes' = crashes + 1
    /\ delivered' = [delivered EXCEPT ![v] = 0]
    /\ state' = [state EXCEPT ![v] = NewState]
    /\ queue' = [queue EXCEPT ![v] = << >>]
    /\ UNCHANGED consensus

\* The WAL may hold sub-dags that the driver had not received.
Crash(v) ==
    /\ phase[v] \in {"running", "replaying"}
    /\ LoseMemory(v)
    /\ phase' = [phase EXCEPT ![v] = "down"]
    /\ \E committed \in IF phase[v] = "running" THEN delivered[v]..Len(log) ELSE {wal[v]} :
           wal' = [wal EXCEPT ![v] = committed]

\* A crash that leaves payloads in the WAL which no block holds yet, submitted by the
\* driver or by a client: the pinned replica panics whenever it restarts on them. The
\* length of its WAL matters no more.
Break(v) ==
    /\ phase[v] = "running"
    /\ LoseMemory(v)
    /\ phase' = [phase EXCEPT ![v] = "broken"]
    /\ wal' = [wal EXCEPT ![v] = 0]

Restart(v) ==
    /\ phase[v] = "down"
    /\ phase' = [phase EXCEPT ![v] = "replaying"]
    /\ UNCHANGED <<consensus, delivered, wal, state, queue, crashes>>

\* Seeded slip: a replay executes the sub-dags but records no votes.
ReplayedWithoutVotes(v) ==
    ExecuteSubdag(state[v], delivered[v] + 1,
                  [log[delivered[v] + 1] EXCEPT !.votes = << >>], "replayed").state

Replayed(v) == Executed(v, "replayed").state

\* One sub-dag of replay: the minted checkpoint is dropped.
Replay(v) ==
    /\ phase[v] = "replaying"
    /\ delivered[v] < wal[v]
    /\ state' = [state EXCEPT ![v] = Replayed(v)]
    /\ delivered' = [delivered EXCEPT ![v] = @ + 1]
    /\ UNCHANGED <<consensus, phase, wal, queue, crashes>>

\* Seeded slip: the driver starts without re-attesting.
NoAttestations(v) == << >>

ReAttestations(v) == Uncertified(state[v])

\* The replay is complete: the driver starts, with the re-attestations.
Resume(v) ==
    /\ phase[v] = "replaying"
    /\ delivered[v] = wal[v]
    /\ phase' = [phase EXCEPT ![v] = "running"]
    /\ queue' = [queue EXCEPT ![v] = ReAttestations(v)]
    /\ UNCHANGED <<consensus, delivered, wal, state, crashes>>

CommitSome == \E effect \in LogEffects, votes \in SeqOf(VotesInReach, MaxVotes) :
                  Commit(effect, votes)

Step(v) ==
    \/ Deliver(v) \/ Propose(v)
    \/ Crash(v) \/ Break(v) \/ Restart(v) \/ Replay(v) \/ Resume(v)

Next == CommitSome \/ \E v \in Correct : Step(v)

Spec == Init /\ [][Next]_vars

(***************************************************************************)
(* The driver's loop and the replica's tasks are scheduled, a validator    *)
(* that is down is restarted, and consensus keeps committing what correct  *)
(* authors propose. A broken one stays so: no fairness restarts it.        *)
(* Nothing obliges a client to submit, an authority to misbehave or a      *)
(* validator to crash. Executing a sub-dag is the step that moves the      *)
(* validator's cursor, which says it without computing its state.          *)
(***************************************************************************)
Advances(v) ==
    /\ \/ phase[v] = "running" /\ delivered[v] < Len(log)
       \/ phase[v] = "replaying" /\ delivered[v] < wal[v]
    /\ delivered' = [delivered EXCEPT ![v] = @ + 1]

CommitOf(v) ==
    /\ proposed[v] # << >>
    /\ Commit("nothing", <<[author |-> v, checkpoint |-> Head(proposed[v])]>>)

Fairness ==
    \A v \in Correct :
        /\ WF_delivered(Advances(v)) /\ WF_vars(Propose(v))
        /\ WF_vars(Restart(v)) /\ WF_vars(Resume(v))
        /\ WF_vars(CommitOf(v))

FairSpec == Spec /\ Fairness
-----------------------------------------------------------------------------
(***************************************************************************)
(* The log, the WALs and the validators' states are well-formed.           *)
(***************************************************************************)
TypeOK ==
    /\ log \in Seq(CommittedSubDag) /\ Len(log) <= MaxSubdag
    /\ proposed \in [Correct -> Seq(Checkpoint)]
    /\ phase \in [Correct -> {"running", "down", "replaying", "broken"}]
    /\ {delivered, wal} \subseteq [Correct -> 0..Len(log)]
    /\ state \in [Correct -> State]
    /\ queue \in [Correct -> Seq(Checkpoint)]
    /\ crashes \in 0..MaxCrashes

StoreAt(n) == CommitmentAfter(log, n)

WatermarkOf(v) ==
    IF state[v].certifier.watermark = None THEN 0
    ELSE state[v].certifier.watermark.checkpoint.anchor

WithoutTimings(s) ==
    [s EXCEPT !.certifier.pending =
        [i \in DOMAIN @ |-> [@[i] EXCEPT !.timings = "live"]]]

(***************************************************************************)
(* Certification is a deterministic function of the commit stream: two     *)
(* validators that executed the same prefix, one live and one perhaps      *)
(* through a replay, hold one store, one window with the same tallies and  *)
(* one certificate, proof included. (validator.rs:219-221, and the tests   *)
(* simulation.rs:251 and recovery.rs:79.)                                  *)
(***************************************************************************)
PrefixDeterminesState ==
    \A v, w \in Correct :
        delivered[v] = delivered[w] => WithoutTimings(state[v]) = WithoutTimings(state[w])

(***************************************************************************)
(* A certified commitment is the one that executing the log yields at its  *)
(* anchor, although Byzantine authorities attest to others.                *)
(* (checkpoint.rs:47-48: the committee's agreement on the state.)          *)
(***************************************************************************)
CertifiedWasExecuted ==
    \A v \in Correct :
        LET pending == state[v].certifier.pending
            watermark == state[v].certifier.watermark
            Sound(c) == c # None => c.checkpoint.commitment = StoreAt(c.checkpoint.anchor)
        IN  Sound(watermark) /\ \A i \in DOMAIN pending : Sound(pending[i].certificate)

(***************************************************************************)
(* A correct validator never equivocates: every vote it submits, before    *)
(* and after crashes, attests the one commitment of a sub-dag that         *)
(* executed, and is only delivered in a later sub-dag, so no validator can *)
(* receive it ahead of its own mint. (certifier.rs:107-109: "Certification *)
(* can never outrun minting".)                                             *)
(***************************************************************************)
CorrectVotesAreTruthful ==
    LET Truthful(c, n) == /\ c.anchor < n
                          /\ Executes(log[c.anchor])
                          /\ c.commitment = StoreAt(c.anchor)
    IN  /\ \A n \in DOMAIN log : \A vote \in Range(log[n].votes) :
               vote.author \in Correct => Truthful(vote.checkpoint, n)
        /\ \A v \in Correct : \A c \in Range(proposed[v] \o queue[v]) :
               Truthful(c, Len(log) + 1)

(***************************************************************************)
(* No vote is lost for good: for each checkpoint that a running validator  *)
(* has uncertified, its own vote is counted or on its way, in its queue,   *)
(* in a block or in a sub-dag it has yet to execute. (validator.rs:169-172:*)
(* re-attestation, "an uncertified checkpoint could stall forever".)       *)
(***************************************************************************)
PendingIsAttested ==
    \A v \in Correct : phase[v] = "running" =>
        \A i \in DOMAIN state[v].certifier.pending :
            LET entry == state[v].certifier.pending[i]
            IN  \/ Certified(entry)
                \/ HasVoted(entry, v)
                \/ entry.local \in Range(queue[v] \o proposed[v])
                \/ \E n \in (delivered[v] + 1)..Len(log) :
                       [author |-> v, checkpoint |-> entry.local] \in Range(log[n].votes)

(***************************************************************************)
(* Every latency that the driver observes started at a mint the driver     *)
(* stamped. (metrics.rs:53: "Checkpoint creation to quorum certification   *)
(* latency (s)".)                                                          *)
(***************************************************************************)
LatenciesStartAtTheMint ==
    \A v \in Correct : phase[v] = "running" /\ delivered[v] < Len(log) =>
        Range(Executed(v, "live").latencies) \subseteq {"live"}

EverythingIsCertified ==
    \A v \in Correct, n \in DOMAIN log : Executes(log[n]) => WatermarkOf(v) >= n

\* The pinned replica of a correct validator no longer starts.
SomeReplicaBroke == \E v \in Correct : phase[v] = "broken"

(***************************************************************************)
(* Whatever crashes and Byzantine votes there are, every sub-dag that      *)
(* executed is certified in the end, at every correct validator, unless a  *)
(* replica that does not recover is lost for good. (validator.rs:169-172:  *)
(* without re-attestation "an uncertified checkpoint could stall forever"; *)
(* recovery.rs:107-110: the test of it is ignored until mysticeti#221 is   *)
(* fixed, because a restart with unproposed payloads in the WAL panics.)   *)
(***************************************************************************)
CheckpointsCertify == []<>(EverythingIsCertified \/ SomeReplicaBroke)
=============================================================================
