SPECIFICATION Spec
CONSTANTS
    a = a
    b = b
    c = c
    s1 = s1
    s2 = s2
    h1 = h1
    h2 = h2
    Local = Local
    Null = Null
    Gone = Gone
    NoApproval = NoApproval
    NoPlan = NoPlan
    Res <- MCResAndForeign
    Server <- MCServers
    Hash <- MCHash
    Allowed <- MCAllowed
    Listed <- MCRes
    Requests <- AnyRequest
    Writer = {w1, w2}
INVARIANTS
    TypeOK
    LockedRowsUnchanged
    ProgressMatchesLocks
PROPERTY
    ImplementsRetarget
