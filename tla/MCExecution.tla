---------------------------- MODULE MCExecution ----------------------------
(***************************************************************************)
(* Execution on three objects: every call of at most two inputs in every   *)
(* mode, duplicated ids included, and the two functions that abort.        *)
(***************************************************************************)
EXTENDS Execution, TLC

CONSTANTS o1, o2, o3

InputsUpTo(n) == UNION {[1..k -> Input] : k \in 0..n}

SmallTransactions ==
    [function : {"Success"}, inputs : InputsUpTo(2)]
        \cup [function : {"Abort", "Unknown"}, inputs : InputsUpTo(1)]

Symmetry == Permutations(ObjectIds)
=============================================================================
