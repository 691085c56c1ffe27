------------------------------- MODULE Ledger -------------------------------
(***************************************************************************)
(* What executing a commit stream promises to the rest of the validator:   *)
(* the state moves by ExecuteSubdag of ExecutionState, where a sub-dag is  *)
(* no more than its effect on the store and its votes, and a commitment is *)
(* no more than the number of writing sub-dags before it. Committee and    *)
(* Handle are built on this view; Subdags is shown to implement it.        *)
(***************************************************************************)
EXTENDS ExecutionState

VARIABLES
    log,    \* the committed sub-dags that were executed
    state   \* the ExecutionState

Init ==
    /\ log = << >>
    /\ state = NewState

\* The log grows by one sub-dag, whose votes are for sub-dags before it.
Execute ==
    /\ Len(log') = Len(log) + 1
    /\ IsPrefix(log, log')
    /\ LET subdag == Last(log')
       IN  /\ subdag.effect \in Effects
           /\ \A vote \in Range(subdag.votes) :
                  /\ vote.checkpoint.anchor \in DOMAIN log
                  /\ vote.checkpoint.commitment \in Commitments
           /\ state' = ExecuteSubdag(state, Len(log'), subdag, "live").state

Spec == Init /\ [][Execute]_<<log, state>>
=============================================================================
