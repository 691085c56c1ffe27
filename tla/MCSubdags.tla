----------------------------- MODULE MCSubdags -----------------------------
(***************************************************************************)
(* Two authorities, of which one is a quorum alone; one object, created    *)
(* and updated, so that the order of two transactions decides what they    *)
(* do; payloads that are garbage or too large.                             *)
(***************************************************************************)
EXTENDS Subdags

CONSTANTS a1, a2, o

Members == {a1, a2}
UnequalStake ==
    [S \in SUBSET Members |-> SumFunctionOnSet([a \in Members |-> IF a = a1 THEN 2 ELSE 1], S)]

\* The first two anchors are leaders of the same round.
SameRoundFirst == [n \in Anchors |-> IF n <= 2 THEN 1 ELSE n]

Create == [function |-> "Success", inputs |-> <<[id |-> o, mode |-> "WriteOnly"]>>]
Update == [function |-> "Success", inputs |-> <<[id |-> o, mode |-> "ReadWrite"]>>]

Payloads == {ToBytes(Execute(1, Create), 1), ToBytes(Execute(4, Update), 1),
             ToBytes(Execute(4, Update), MaxPayloadSize + 1), Garbage(1)}

Chains == {[i \in 1..n |-> [id |-> o, version |-> i]] : n \in 0..MaxWrites}
SubdagTimings == CheckpointTimings

\* One or two blocks with two payloads between them.
TwoPayloads == {<<2>>, <<1, 1>>}
=============================================================================
