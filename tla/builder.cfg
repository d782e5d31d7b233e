CONSTANTS
    k1 = k1
    k2 = k2
    k3 = k3
    s1 = s1
    s2 = s2
    u1 = u1
    u2 = u2
    u3 = u3
    t1 = t1
    t2 = t2
    b1 = b1
    b2 = b2
    p1 = p1
    p2 = p2
    NoKey = NoKey
    Absent = Absent
    Undefined = Undefined
    Keys = {k1, k2, k3, s1, s2, u1, u2, u3, t1, t2}
    Uncompressed = {u1, u2, u3, t1, t2}
    Twin <- Twins
    Builders = {b1, b2}
    Sponsors = {p1, p2}
    Requests <- Both
    SponsorRequests <- TwoSponsors
    Rates = {1}
    InitialNonces = {1}
    PayloadSize <- Sizes
    MaxNonce = 3
SPECIFICATION Spec
INVARIANTS TypeOK BuiltVerifiesIffInOrder EstimateCoversSize SponsorsStayApart
PROPERTIES OnlyOvertakenIsRefused
CHECK_DEADLOCK FALSE
