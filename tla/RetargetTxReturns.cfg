SPECIFICATION FairSpec
CONSTANTS
    a = a
    b = b
    c = c
    s1 = s1
    s2 = s2
    h1 = h1
    h2 = h2
    Local = Local
    Null = Null
    Gone = Gone
    NoApproval = NoApproval
    NoPlan = NoPlan
    Res <- MCRes
    Server <- MCServer
    Hash <- MCOneHash
    Allowed <- MCAllowed
    Listed <- MCRes
    Requests <- Opposed
    Writer = {w1, w2, w3}
PROPERTY CallsReturn
