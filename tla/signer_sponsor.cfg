CONSTANTS
    k1 = k1
    k2 = k2
    k3 = k3
    s1 = s1
    u1 = u1
    u2 = u2
    u3 = u3
    t1 = t1
    ann = ann
    bob = bob
    NoKey = NoKey
    NoSigner = NoSigner
    Keys = {k1, k2, k3, s1, u1, u2, u3, t1}
    Uncompressed = {u1, u2, u3, t1}
    Twin <- Twins
    Parties = {ann, bob}
    KeysOf <- AnnAndBob
    Accounts <- SponsoredTwoOfThree
    SponsorKeys = {s1}
    Fees = {0, 1}
    Nonces = {0}
    Misuses = {}
    MaxFields = 3
    MaxCirculating <- FewCopies
SPECIFICATION Spec
INVARIANTS VerifiedCanBeSponsored
CHECK_DEADLOCK FALSE
