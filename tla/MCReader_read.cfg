SPECIFICATION Spec
CONSTANTS
    r1 = r1
    r2 = r2
    a = a
    b = b
    d = d
    e = e
    x = x
    Readers = {r1, r2}
    Sources = {a, b}
    SizeOf <- const_SizeOf
    ChunkSizes = {2}
    Names <- const_Names
    Paths <- const_Paths
    Args <- const_Args
    Keys <- const_Keys
    Slash = Slash
    Zero = Zero
    Alias <- const_Alias
    RAMBuffer = 2
    Offsets = {0, 1}
    ReadSizes = {2}
    MaxSize = 3
    MaxCrashes = 1
    MaxFailures = 1
    NoIndex = NoIndex
    NoSet = NoSet
    NoEntry = NoEntry
    NoOp = NoOp
SYMMETRY Symmetry
VIEW Observable
INVARIANTS TypeOK CacheIsRight TornAtWorst Budget
PROPERTIES ReadIsRight GoneIsUncached
