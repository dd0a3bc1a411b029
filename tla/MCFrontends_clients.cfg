SPECIFICATION Spec
CONSTANTS
    c1 = c1
    c2 = c2
    n1 = n1
    n2 = n2
    Clients = {c1, c2}
    Names = {n1, n2}
    Full = 2
    NoEntry = NoEntry
SYMMETRY Symmetry
INVARIANTS TypeOK StorIsWhole NoPartialSize
