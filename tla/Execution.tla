------------------------------ MODULE Execution ------------------------------
(***************************************************************************)
(* The execution layer under an arbitrary stream of transactions: the      *)
(* sequential scheduler executes them strictly in commit order and applies *)
(* each output to the store.                                               *)
(***************************************************************************)
EXTENDS ExecutionOps

CONSTANT FreshIds   \* whether a WriteOnly id is one no transaction created before

ASSUME FreshIdsAssumption == FreshIds \in BOOLEAN

VARIABLES
    store,      \* InMemoryStore
    last,       \* the last transaction executed
    status,     \* and the status it returned
    panicked    \* whether the task that owns the scheduler died of an assertion

vars == <<store, last, status, panicked>>
-----------------------------------------------------------------------------
Init ==
    /\ store = EmptyStore
    /\ last = [function |-> "Unknown", inputs |-> << >>]
    /\ status = "UnknownFunction"
    /\ panicked = FALSE

\* SequentialScheduler::execute for the next committed transaction.
Execute(transaction) ==
    /\ ~panicked
    /\ FreshIds => CreatesFreshIds(store, transaction)
    /\ Len(store.commitment) + Len(transaction.inputs) <= MaxWrites
    /\ last' = transaction
    /\ LET writes == OutputWrites(store, transaction)
       IN  IF VersionsMoveForward(store, writes)
           THEN /\ store' = Apply(store, writes)
                /\ status' = StatusOf(store, transaction)
                /\ panicked' = FALSE
           ELSE /\ panicked' = TRUE
                /\ UNCHANGED <<store, status>>

Next == \E transaction \in Transactions : Execute(transaction)

Spec == Init /\ [][Next]_vars
-----------------------------------------------------------------------------
(***************************************************************************)
(* The store, the executed transaction and its status are well-formed.     *)
(***************************************************************************)
TypeOK ==
    /\ store \in [objects : SUBSET Object, latest : [ObjectIds -> Version],
                  commitment : Seq(Object)]
    /\ last \in [function : FunctionId, inputs : Seq(Input)]
    /\ status \in ExecutionStatus
    /\ panicked \in BOOLEAN

(***************************************************************************)
(* The commitment determines the whole state: the objects are the writes   *)
(* it absorbed, none twice, and the latest version of an object is that of *)
(* its last write. Two validators with one commitment have one store.      *)
(* (store.rs:27-36 and 45-67: three fields updated side by side.)          *)
(***************************************************************************)
CommitmentDeterminesStore ==
    LET history == store.commitment
    IN  /\ store.objects = Range(history)
        /\ \A i, j \in DOMAIN history : history[i] = history[j] => i = j
        /\ \A id \in ObjectIds :
               LET writes == {i \in DOMAIN history : history[i].id = id}
               IN  store.latest[id] =
                       IF writes = {} THEN 0 ELSE history[Max(writes)].version

(***************************************************************************)
(* Versions order the writes causally: every object that a transaction     *)
(* writes gets one version, above the version of each object it declared,  *)
(* the ones it only read included. (transaction.rs:88-102: one past the    *)
(* highest version among its existing inputs.)                             *)
(***************************************************************************)
WritesFollowReads ==
    [][LET written == store'.objects \ store.objects
       IN  written # {} =>
               /\ \A w, x \in written : w.version = x.version
               /\ \A input \in Inputs(last'), w \in written :
                      store.latest[input.id] < w.version]_vars

(***************************************************************************)
(* A transaction that does not succeed leaves no trace in the store. One   *)
(* that succeeds found every object that it declared to read or update,    *)
(* and writes exactly the objects it declared writable.                    *)
(* (effects.rs:28-66, scheduler.rs:27-45.)                                 *)
(***************************************************************************)
StatusTellsWrites ==
    [][~panicked' =>
           LET written == {w.id : w \in store'.objects \ store.objects}
           IN  IF status' = "Success"
               THEN /\ \A input \in Inputs(last') :
                           input.mode # "WriteOnly" => store.latest[input.id] # 0
                    /\ written = {input.id : input \in {i \in Inputs(last') :
                                                            i.mode # "ReadOnly"}}
               ELSE written = {}]_vars

(***************************************************************************)
(* Execution is infallible: no transaction stops the task that owns the    *)
(* store. (engine.rs:13-14: "infallible at the Rust level: malformed or    *)
(* misbehaving transactions yield aborted outputs, not errors".)           *)
(***************************************************************************)
NeverPanics == ~panicked
=============================================================================
