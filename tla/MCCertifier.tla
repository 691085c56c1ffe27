----------------------------- MODULE MCCertifier -----------------------------
(***************************************************************************)
(* Four authorities of equal stake and sub-dags of which two share a round.*)
(***************************************************************************)
EXTENDS Certifier, FiniteSetsExt, TLC

CONSTANTS a1, a2, a3, a4, d1, d2, t1, t2

FourAuthorities == {a1, a2, a3, a4}
EqualOfFour == [S \in SUBSET FourAuthorities |-> Cardinality(S)]

\* The first two anchors are leaders of the same round.
SameRoundFirst == [n \in Anchors |-> IF n <= 2 THEN 1 ELSE n]

SymmetryOfFour == Permutations(FourAuthorities) \cup Permutations({d1, d2})
=============================================================================
