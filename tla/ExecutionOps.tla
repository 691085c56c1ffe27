---------------------------- MODULE ExecutionOps ----------------------------
(***************************************************************************)
(* The execution layer of crates/execution/src as operators over the value *)
(* of its store: static verification, the version that a transaction       *)
(* writes, the fake engine and the application of its output.              *)
(* Execution.tla drives one store with an arbitrary stream of transactions *)
(* and Subdags.tla executes whole sub-dags on it.                          *)
(*                                                                         *)
(* The contents of objects are left out: the engine gives every object the *)
(* same contents and carries them forward. The store's commitment is a     *)
(* hash folded over the ordered writes; a collision-free hash is the chain *)
(* of what it absorbed, so the commitment is the sequence of writes.       *)
(*                                                                         *)
(* A seeded slip is an alternative that only the mutation runs substitute  *)
(* for the definition that follows it.                                     *)
(***************************************************************************)
EXTENDS Integers, Sequences, SequencesExt

CONSTANTS
    ObjectIds,
    Transactions,   \* the transactions that consensus may commit
    MaxWrites       \* bound on the length of the write history

AccessMode == {"ReadOnly", "WriteOnly", "ReadWrite"}
FunctionId == {"Success", "Abort", "Unknown"}
Input == [id : ObjectIds, mode : AccessMode]
Transaction == [function : FunctionId, inputs : Seq(Input)]
AbortReason == {"ExplicitAbort", "MissingRead", "UnknownFunction", "InvalidTransaction"}
ExecutionStatus == {"Success"} \cup AbortReason
Version == 0..MaxWrites     \* 0 is the version of an object never written
Object == [id : ObjectIds, version : Version]

ASSUME ExecutionAssumption ==
    /\ MaxWrites \in Nat
    /\ Transactions \subseteq Transaction
-----------------------------------------------------------------------------
Inputs(transaction) == Range(transaction.inputs)

\* Seeded slip: the static verification is skipped.
VerifyNothing(transaction) == TRUE

\* Transaction::verify: no id is declared twice.
Verify(transaction) ==
    \A i, j \in DOMAIN transaction.inputs :
        transaction.inputs[i].id = transaction.inputs[j].id => i = j

\* The inputs that must exist, and whose versions the writes exceed.
Reads(transaction) == {input \in Inputs(transaction) : input.mode # "WriteOnly"}

\* Seeded slip: an object that is also written need not exist.
MissingReadOnly(s, transaction) ==
    \E input \in Reads(transaction) : input.mode = "ReadOnly" /\ s.latest[input.id] = 0

MissingRead(s, transaction) ==
    \E input \in Reads(transaction) : s.latest[input.id] = 0

\* Seeded slip: objects that are only read do not count.
NextVersionOfWrites(s, transaction) ==
    1 + Max({0} \cup {s.latest[input.id] :
                          input \in {i \in Reads(transaction) : i.mode = "ReadWrite"}})

\* Seeded slip: every write skips a version.
NextVersionSkipping(s, transaction) ==
    2 + Max({0} \cup {s.latest[input.id] : input \in Reads(transaction)})

\* Transaction::next_version when no read is missing.
NextVersion(s, transaction) ==
    1 + Max({0} \cup {s.latest[input.id] : input \in Reads(transaction)})

\* The objects a successful call writes, in the order of its inputs.
Writes(s, transaction) ==
    LET version == NextVersion(s, transaction)
    IN  FoldLeft(LAMBDA writes, input :
                     IF input.mode = "ReadOnly" THEN writes
                     ELSE Append(writes, [id |-> input.id, version |-> version]),
                 << >>, transaction.inputs)

\* FakeExecutor::execute, after the scheduler's static verification.
StatusOf(s, transaction) ==
    CASE ~Verify(transaction)                -> "InvalidTransaction"
      [] transaction.function = "Unknown"    -> "UnknownFunction"
      [] transaction.function = "Abort"      -> "ExplicitAbort"
      [] MissingRead(s, transaction)         -> "MissingRead"
      [] OTHER                               -> "Success"

OutputWrites(s, transaction) ==
    IF StatusOf(s, transaction) = "Success" THEN Writes(s, transaction) ELSE << >>

\* The assertion of InMemoryStore::apply, for each write after the ones before it.
VersionsMoveForward(s, writes) ==
    \A i \in DOMAIN writes :
        /\ s.latest[writes[i].id] < writes[i].version
        /\ \A j \in 1..(i - 1) :
               writes[j].id = writes[i].id => writes[j].version < writes[i].version

\* Seeded slip: the latest version of a known object is kept.
ApplyOnce(s, writes) ==
    [objects    |-> s.objects \cup Range(writes),
     latest     |-> [id \in ObjectIds |->
                        IF s.latest[id] = 0 /\ \E w \in Range(writes) : w.id = id
                        THEN (CHOOSE w \in Range(writes) : w.id = id).version
                        ELSE s.latest[id]],
     commitment |-> s.commitment \o writes]

Apply(s, writes) ==
    [objects    |-> s.objects \cup Range(writes),
     latest     |-> [id \in ObjectIds |->
                        IF \E i \in DOMAIN writes : writes[i].id = id
                        THEN (CHOOSE w \in Range(writes) : w.id = id).version
                        ELSE s.latest[id]],
     commitment |-> s.commitment \o writes]

\* The environment's promise on WriteOnly ids (transaction.rs:37 and 42).
CreatesFreshIds(s, transaction) ==
    \A input \in Inputs(transaction) :
        input.mode = "WriteOnly" => s.latest[input.id] = 0

\* No creation meets an object, nor another one of the same object.
CreateFreshIds(s, transactions) ==
    \A i \in DOMAIN transactions :
        /\ CreatesFreshIds(s, transactions[i])
        /\ \A j \in 1..(i - 1), input \in Inputs(transactions[i]) :
               input \in Inputs(transactions[j]) => input.mode # "WriteOnly"

EmptyStore == [objects |-> {}, latest |-> [id \in ObjectIds |-> 0], commitment |-> << >>]
=============================================================================
