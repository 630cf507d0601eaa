SPECIFICATION HistorySpec
CONSTANTS
    Job = {j1, j2, j3}
    PageSize = 2
    Protected = 2
    Slot = {q1, q2}
    Absent = Absent
SYMMETRY Symmetry
INVARIANTS
    EmptyWhenAlone
