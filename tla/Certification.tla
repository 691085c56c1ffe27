--------------------------- MODULE Certification ---------------------------
(***************************************************************************)
(* What certification promises, with no window, no accumulators and no     *)
(* search: every authority has one ballot per minted checkpoint; the       *)
(* commitment whose ballots first reach the quorum is certified, for good; *)
(* and the watermark is the highest minted checkpoint such that it and all *)
(* earlier minted ones are certified.                                      *)
(***************************************************************************)
EXTENDS CertifierOps

VARIABLES
    minted,         \* the anchors of the checkpoints minted so far
    ballots,        \* the counted vote of each authority for each anchor
    certificates,   \* the certified commitment of each anchor
    watermark       \* the anchor of the highest contiguously certified one, 0 if none

vars == <<minted, ballots, certificates, watermark>>

Supporters(n, d) == {a \in Authorities : ballots[n][a] = d}

IsWatermark(w) ==
    /\ w \in minted \cup {0}
    /\ \A n \in minted : n <= w => certificates[n] # None
    /\ \A n \in minted : n > w =>
           \E m \in minted : w < m /\ m <= n /\ certificates[m] = None

Init ==
    /\ minted = {}
    /\ ballots = [n \in Anchors |-> [a \in Authorities |-> None]]
    /\ certificates = [n \in Anchors |-> None]
    /\ watermark = 0

Mint(n) ==
    /\ \A m \in minted : m < n
    /\ minted' = minted \cup {n}
    /\ UNCHANGED <<ballots, certificates, watermark>>

Cast(n, a, d) ==
    /\ n \in minted
    /\ certificates[n] = None
    /\ ballots[n][a] = None
    /\ ballots' = [ballots EXCEPT ![n][a] = d]
    /\ UNCHANGED minted

\* A vote that leaves its commitment below the quorum.
Vote(n, a, d) ==
    /\ Cast(n, a, d)
    /\ Weight[Supporters(n, d)'] < Quorum
    /\ UNCHANGED <<certificates, watermark>>

\* The vote that certifies its commitment.
Certify(n, a, d) ==
    /\ Cast(n, a, d)
    /\ Weight[Supporters(n, d)'] >= Quorum
    /\ certificates' = [certificates EXCEPT ![n] = d]
    /\ watermark' \in 0..MaxSubdag
    /\ IsWatermark(watermark)'

Next ==
    \E n \in Anchors :
        \/ Mint(n)
        \/ \E a \in Authorities, d \in Commitments : Vote(n, a, d) \/ Certify(n, a, d)

Spec == Init /\ [][Next]_vars
=============================================================================
