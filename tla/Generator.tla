------------------------------ MODULE Generator ------------------------------
(***************************************************************************)
(* The load generators of a committee (validator/src/generator.rs), one in *)
(* the process of each authority: every tick a batch of creations with ids *)
(* from a wrapping stream, cut into blocks, each of them submitted to the  *)
(* replica's bounded transaction queue.                                    *)
(*                                                                         *)
(* The queue is external: submit waits for room and fails once the replica *)
(* has stopped. An envelope stands for the id that it creates; its padding *)
(* makes every one of them exactly transaction_size bytes, so a block has  *)
(* a size. Time stamps and the pacing of the ticks are left out.           *)
(***************************************************************************)
EXTENDS Integers, Sequences, SequencesExt, FiniteSetsExt

CONSTANTS
    Generators,             \* the authorities that run a generator
    AuthorityRange,         \* the authorities that an id tells apart, 2^8
    RandomRange,            \* the randoms below them, 2^AUTHORITY_SHIFT
    Seed,                   \* the first random of each authority, drawn from its rng
    TransactionsPerInterval,
    TransactionSize,        \* in bytes, as MaxBlockSize
    MaxBlockSize,
    QueueCapacity,          \* the submissions that the replica holds
    MaxRestarts             \* bound on the restarts of all processes

\* An id is a word: the random is as wide.
WordRange == AuthorityRange * RandomRange
Words == 0..(WordRange - 1)

\* AUTHORITY_SHIFT leaves room for the authority, and start asserts that there are a
\* load and a size.
ASSUME GeneratorAssumption ==
    /\ {AuthorityRange, RandomRange} \subseteq Nat \ {0}
    /\ Generators \subseteq 0..(AuthorityRange - 1)
    /\ Seed \in [Generators -> Words]
    /\ {TransactionsPerInterval, TransactionSize, QueueCapacity} \subseteq Nat \ {0}
    /\ {MaxBlockSize, MaxRestarts} \subseteq Nat

VARIABLES
    task,       \* where each generator is: between ticks, shipping or stopped
    stream,     \* its counter and its random
    batch,      \* the rest of the batch that it ships
    accepted,   \* every id that was submitted since the process started
    reported,   \* the metric submitted_transactions
    queue,      \* the replica's transaction queue
    closed,     \* whether the replica has stopped
    restarts    \* how many processes restarted

vars == <<task, stream, batch, accepted, reported, queue, closed, restarts>>
-----------------------------------------------------------------------------
NewStream(a) == [counter |-> 0, random |-> Seed[a]]

\* Seeded slip: the stream is added without the mask.
UnmaskedId(a, random) == a * RandomRange + random

ObjectId(a, random) == ((a * RandomRange) % WordRange) + (random % RandomRange)

\* One round of the loop: the random moves by the counter, wrapping, and is an id.
Draw(a, drawn) ==
    LET random == (drawn.stream.random + drawn.stream.counter) % WordRange
    IN  [stream |-> [counter |-> drawn.stream.counter + 1, random |-> random],
         ids    |-> Append(drawn.ids, ObjectId(a, random))]

\* Seeded slip: the counter starts again in every batch.
FillBatchAnew(a, from) ==
    FoldLeft(LAMBDA drawn, i : Draw(a, drawn),
             [stream |-> [from EXCEPT !.counter = 0], ids |-> << >>],
             [i \in 1..TransactionsPerInterval |-> i])

FillBatch(a, from) ==
    FoldLeft(LAMBDA drawn, i : Draw(a, drawn), [stream |-> from, ids |-> << >>],
             [i \in 1..TransactionsPerInterval |-> i])

\* ship_blocks cuts after the transaction that reaches the block size.
BlockLength(n) == Min({n} \cup {k \in 1..n : k * TransactionSize >= MaxBlockSize})

Init ==
    /\ task = [a \in Generators |-> "ticking"]
    /\ stream = [a \in Generators |-> NewStream(a)]
    /\ batch = [a \in Generators |-> << >>]
    /\ accepted = [a \in Generators |-> << >>]
    /\ reported = [a \in Generators |-> 0]
    /\ queue = [a \in Generators |-> << >>]
    /\ closed = [a \in Generators |-> FALSE]
    /\ restarts = 0

\* A tick fills a batch. The stream is not drawn from beyond its period, 2^56.
Tick(a) ==
    /\ task[a] = "ticking"
    /\ stream[a].counter + TransactionsPerInterval <= RandomRange
    /\ LET filled == FillBatch(a, stream[a])
       IN  /\ stream' = [stream EXCEPT ![a] = filled.stream]
           /\ batch' = [batch EXCEPT ![a] = filled.ids]
    /\ task' = [task EXCEPT ![a] = "shipping"]
    /\ UNCHANGED <<accepted, reported, queue, closed, restarts>>

NextBlock(a) == SubSeq(batch[a], 1, BlockLength(Len(batch[a])))

\* Seeded slip: the transaction that fills a block also opens the next one.
OverlappingRest(a) ==
    LET n == BlockLength(Len(batch[a]))
    IN  SubSeq(batch[a], IF n = Len(batch[a]) THEN n + 1 ELSE n, Len(batch[a]))

Rest(a) == SubSeq(batch[a], BlockLength(Len(batch[a])) + 1, Len(batch[a]))

\* Seeded slip: the tick's transactions are reported with each of its blocks.
ReportedPerBlock(a) == reported[a] + TransactionsPerInterval

\* The metric counts a tick when its last block is submitted.
Reported(a) ==
    IF Rest(a) = << >> THEN reported[a] + TransactionsPerInterval ELSE reported[a]

\* submit returns Ok for the next block.
Submit(a) ==
    /\ task[a] = "shipping"
    /\ ~closed[a]
    /\ Len(queue[a]) < QueueCapacity
    /\ queue' = [queue EXCEPT ![a] = Append(@, NextBlock(a))]
    /\ accepted' = [accepted EXCEPT ![a] = @ \o NextBlock(a)]
    /\ batch' = [batch EXCEPT ![a] = Rest(a)]
    /\ reported' = [reported EXCEPT ![a] = Reported(a)]
    /\ task' = [task EXCEPT ![a] = IF Rest(a) = << >> THEN "ticking" ELSE @]
    /\ UNCHANGED <<stream, closed, restarts>>

\* submit fails: the generator returns, and the process reports that it stopped.
Stop(a) ==
    /\ task[a] = "shipping"
    /\ closed[a]
    /\ task' = [task EXCEPT ![a] = "stopped"]
    /\ UNCHANGED <<stream, batch, accepted, reported, queue, closed, restarts>>

\* The replica takes a submission into its next block.
Take(a) ==
    /\ ~closed[a]
    /\ queue[a] # << >>
    /\ queue' = [queue EXCEPT ![a] = Tail(@)]
    /\ UNCHANGED <<task, stream, batch, accepted, reported, closed, restarts>>

Close(a) ==
    /\ ~closed[a]
    /\ closed' = [closed EXCEPT ![a] = TRUE]
    /\ UNCHANGED <<task, stream, batch, accepted, reported, queue, restarts>>

\* The process dies and is run again on its storage: start seeds the same stream.
Restart(a) ==
    /\ restarts < MaxRestarts
    /\ restarts' = restarts + 1
    /\ task' = [task EXCEPT ![a] = "ticking"]
    /\ stream' = [stream EXCEPT ![a] = NewStream(a)]
    /\ batch' = [batch EXCEPT ![a] = << >>]
    /\ accepted' = [accepted EXCEPT ![a] = << >>]
    /\ reported' = [reported EXCEPT ![a] = 0]
    /\ queue' = [queue EXCEPT ![a] = << >>]
    /\ closed' = [closed EXCEPT ![a] = FALSE]

Step(a) == Tick(a) \/ Submit(a) \/ Stop(a) \/ Close(a) \/ Restart(a)

Next == \E a \in Generators : Step(a) \/ Take(a)

Spec == Init /\ [][Next]_vars
-----------------------------------------------------------------------------
(***************************************************************************)
(* The generators and the queues are well-formed.                          *)
(***************************************************************************)
TypeOK ==
    /\ task \in [Generators -> {"ticking", "shipping", "stopped"}]
    /\ stream \in [Generators -> [counter : 0..RandomRange, random : Words]]
    /\ {batch, accepted} \subseteq [Generators -> Seq(Words)]
    /\ reported \in [Generators -> Nat]
    /\ queue \in [Generators -> Seq(Seq(Words))]
    /\ closed \in [Generators -> BOOLEAN]
    /\ restarts \in 0..MaxRestarts

\* The k-th id of an authority in closed form: its seed and the k-th triangular number.
Id(a, k) == (a * RandomRange) + ((Seed[a] + ((k * (k - 1)) \div 2)) % RandomRange)

(***************************************************************************)
(* Nothing that is generated is lost, repeated or reordered between the    *)
(* stream and the queue, whatever the sizes of blocks and batches are: the *)
(* submitted blocks and the rest of the batch are the stream so far.       *)
(* (generator.rs:163-184: the full blocks and the last, partial one.)      *)
(***************************************************************************)
ShipsTheStream ==
    \A a \in Generators :
        accepted[a] \o batch[a] = [k \in 1..stream[a].counter |-> Id(a, k)]

(***************************************************************************)
(* The metric never counts what was not submitted, is exact between ticks, *)
(* and while a tick is being shipped it is behind by less than that tick.  *)
(* A generator whose submission failed in the middle of a tick stays       *)
(* behind (NeverUnderReports), but by no more than that.                   *)
(* (generator.rs:223-238: a tick is counted after its last block.)         *)
(***************************************************************************)
ReportsLagByATick ==
    \A a \in Generators :
        /\ reported[a] <= Len(accepted[a])
        /\ Len(accepted[a]) < reported[a] + TransactionsPerInterval
        /\ task[a] = "ticking" => reported[a] = Len(accepted[a])

(***************************************************************************)
(* Once a generator is through with a tick, what it submitted is counted.  *)
(* (generator.rs:235-236: "a counter must not under-report".)              *)
(***************************************************************************)
NeverUnderReports ==
    \A a \in Generators : task[a] # "shipping" => reported[a] >= Len(accepted[a])
=============================================================================
