---------------------------- MODULE MCCommittee ----------------------------
(***************************************************************************)
(* A committee of two correct validators and a Byzantine authority with a  *)
(* quarter of the stake, at the quorum of three quarters.                  *)
(***************************************************************************)
EXTENDS Committee

CONSTANTS h1, h2, b

WeightOf(stake) == [S \in SUBSET DOMAIN stake |-> SumFunctionOnSet(stake, S)]

Members == {h1, h2, b}
UnequalStake == WeightOf([a \in Members |-> IF a = h1 THEN 2 ELSE 1])

\* The first two anchors are leaders of the same round.
SameRoundFirst == [n \in Anchors |-> IF n <= 2 THEN 1 ELSE n]
\* A longer log suffers less: one crash or Byzantine vote in a log of two checkpoints.
FewerWhenLonger == [n \in 0..MaxCheckpoints |-> IF n <= 1 THEN 3 ELSE 1]
StoreCommitments == 0..MaxCheckpoints
=============================================================================
