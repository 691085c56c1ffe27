------------------------------ MODULE MCHandle ------------------------------
(***************************************************************************)
(* A validator whose quorum is one authority: a vote certifies at once.    *)
(***************************************************************************)
EXTENDS Handle

CONSTANT a

UnitWeight == [S \in SUBSET {a} |-> Cardinality(S)]
SuccessiveRounds == [n \in Anchors |-> n]
StoreCommitments == 0..MaxSubdag
=============================================================================
