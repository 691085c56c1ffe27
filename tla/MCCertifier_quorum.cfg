SPECIFICATION Spec
CONSTANTS
    a1 = a1
    a2 = a2
    a3 = a3
    a4 = a4
    d1 = d1
    d2 = d2
    t1 = t1
    t2 = t2
    None = None
    Authorities <- FourAuthorities
    Weight <- EqualOfFour
    Quorum = 3
    Commitments = {d1, d2}
    Timings = {t1, t2}
    MaxSubdag = 2
    Round <- SameRoundFirst
SYMMETRY SymmetryOfFour
INVARIANTS
    TypeOK
    WindowFollowsWatermark
    TalliesAreFirstVotes
    CertificatesAreQuorums
    ProofsListDeliveries
    TimingsReturnedOnce
PROPERTIES
    CertificatesAreFinal
    ImplementsCertification
