SPECIFICATION MigrationSpec
CONSTANTS
    a = a
    c = c
    d = d
    apps = apps
    disks = disks
    stacks = stacks
    s1 = s1
    h1 = h1
    h2 = h2
    h3 = h3
    w1 = w1
    Local = Local
    Null = Null
    Gone = Gone
    NoApproval = NoApproval
    NoPlan = NoPlan
    NoHash = NoHash
    Res <- MCRes
    Server <- MCServer
    Hash <- MCHash
    Allowed <- MCAllowed
    Listed <- MCListed
    Requests <- MCRequests
    Table <- MCTable
    RetargetTables <- MCRetargetTables
    TableOf <- MCTableOf
    TableOrder <- MCTableOrder
    Place <- MCPlace
    Retargetable <- MCRetargetable
    Version <- MCVersion
    Writer <- MCWriter
INVARIANTS
    MigrationTypeOK
    Complete
    Sound
    WritableIfUnchanged
PROPERTIES
    NothingLeftBehind
    MovesOnlyReviewed
