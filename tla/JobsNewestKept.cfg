SPECIFICATION Spec
CONSTANTS
    s1 = s1
    s2 = s2
    j1 = j1
    j2 = j2
    NoJob = NoJob
    Deleted = Deleted
    NoPlan = NoPlan
    Idle = Idle
    Res = {a}
    Server <- MCServer
    Job <- TwoJobs
    Client = {c1, c2}
    ProtectedCount = 1
    Submitted <- OneWay
PROPERTY NewestJobsKept
