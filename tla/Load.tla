-------------------------------- MODULE Load --------------------------------
(***************************************************************************)
(* The generators of a committee composed with the execution layer: what a *)
(* replica takes from its queue is committed, and the committed creations  *)
(* are executed in commit order. All validators execute one log, and a     *)
(* replay rebuilds the store (Committee!PrefixDeterminesState), so one     *)
(* store stands for those of all validators, across restarts too.          *)
(***************************************************************************)
EXTENDS Generator

CONSTANT MaxCreations

VARIABLES
    log,        \* the committed creations that are not executed yet
    store, last, status, panicked   \* the variables of Execution

execution == <<store, last, status, panicked>>
allVars == <<task, stream, batch, accepted, reported, queue, closed, restarts,
             log, store, last, status, panicked>>

\* transaction: one creation of the object.
Creation(id) == [function |-> "Success", inputs |-> <<[id |-> id, mode |-> "WriteOnly"]>>]

Exec == INSTANCE Execution WITH
    ObjectIds    <- Words,
    Transactions <- {Creation(id) : id \in Words},
    FreshIds     <- FALSE,
    MaxWrites    <- MaxCreations

LoadInit == Init /\ log = << >> /\ Exec!Init

\* What a replica proposes commits: between two authorities, in any order.
Propose(a) ==
    /\ Take(a)
    /\ log' = log \o Head(queue[a])
    /\ UNCHANGED execution

Execute ==
    /\ log # << >>
    /\ Exec!Execute(Creation(Head(log)))
    /\ log' = Tail(log)
    /\ UNCHANGED vars

Generate(a) == Step(a) /\ UNCHANGED <<log, execution>>

LoadNext == Execute \/ \E a \in Generators : Generate(a) \/ Propose(a)

LoadSpec == LoadInit /\ [][LoadNext]_allVars
-----------------------------------------------------------------------------
(***************************************************************************)
(* Every creation that is executed is of an object the store has not got,  *)
(* which is what Execution assumes of WriteOnly ids. (generator.rs:135:    *)
(* "One creation of a fresh object", transaction.rs:42: "the id guaranteed *)
(* unused".)                                                               *)
(***************************************************************************)
CreatesFreshObjects ==
    log # << >> => Exec!CreatesFreshIds(store, Creation(Head(log)))

(***************************************************************************)
(* Until a generator is started a second time, no creation repeats one of  *)
(* any authority, although the streams of all wrap around and may be equal *)
(* but for the authority; so the load never meets the assertion of the     *)
(* store. (generator.rs:88-91, the split of the ids; store.rs:52.)         *)
(***************************************************************************)
FirstLivesCreateFreshObjects == restarts = 0 => CreatesFreshObjects

=============================================================================
