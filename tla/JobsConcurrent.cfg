SPECIFICATION Spec
CONSTANTS
    s1 = s1
    s2 = s2
    j1 = j1
    j2 = j2
    NoJob = NoJob
    Deleted = Deleted
    NoPlan = NoPlan
    Idle = Idle
    Res = {a}
    Server <- MCServer
    Job <- OneJob
    Client = {c1, c2}
    ProtectedCount = 0
    Submitted <- OneWay
SYMMETRY Symmetry
INVARIANTS
    TypeOK
    OutcomeIsDocumented
    StatusNamesLastWrite
    NothingOrphaned
    SettledWithoutFault
PROPERTY WritesAreTraced
