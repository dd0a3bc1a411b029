SPECIFICATION TurnsSpec
CONSTANTS
    p1 = p1
    p2 = p2
    Procs = {p1, p2}
    NoTime = NoTime
    MaxChanges = 3
    MaxWrites = 4
SYMMETRY Symmetry
INVARIANT AckedSurvives
