SPECIFICATION MCSpec
CONSTANTS
    a = a
    b = b
    c = c
    d = d
    Row <- MCRow
    Identity = {0, 1, 2}
    Ident <- MCIdent
    Blank = {0}
    Header = {1, 2}
    PlanID = {1, 2}
    Undecodable = Undecodable
INVARIANTS
    VerdictIsRight
CHECK_DEADLOCK FALSE
