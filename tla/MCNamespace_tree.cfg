\* Two names, paths of up to three of them, up to five entries, and
\* uploads to two paths at a time.
SPECIFICATION Spec
CONSTANTS
    Names = {n1, n2}
    MaxDepth = 3
    MaxEntries = 5
    MaxUploads = 2
    Contents = {c1}
    Folder = Folder
SYMMETRY Symmetry
INVARIANTS
    TypeOK
    TreeOK
    CountIsWalk
PROPERTIES
    RenameMoves
