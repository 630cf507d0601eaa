SPECIFICATION MCSpec
CONSTANTS
    Row = {r1, r2}
    Hash = {h1, h2}
    Asked = {k1, k2}
    NoApproval = NoApproval
    None = None
    Absent = Absent
    Job = {j1, j2, j3}
    Slot = {q1, q2}
    PageSize = 2
    Protected = 1
    Id = {1, 2, 3}
    Base = 2
    Places = 2
    Seconds = 2
    MaxLimit = 2
    ProtectedCount = 1
    AskedNumber <- MCAskedNumber
    NoText = NoText
    a = a
    b = b
    c = c
    apps = apps
    stacks = stacks
    s1 = s1
    Local = Local
    Gone = Gone
    NoAge = NoAge
    DeadAfter = 10
    Res <- MCRes
    Table <- MCTable
    TableOf <- MCTableOf
    Server <- MCServer
    Report <- MCReport
SYMMETRY Symmetry
CONSTRAINT OneApply
INVARIANTS
    ViewTypeOK
    SentIsStored
    ButtonTellsTruth
    CountsWithinBounds
    QuietScanShowsAll
    EmptyWhenUndisturbed
    RefreshKeepsPage
    OfferedIsDeletable
    PagesPartition
    MisorderIsByTrimming
PROPERTY
    UncheckedStaysOut
