\* Every cap of the store at its limit: one checkpoint, one copy, no dirty copies, a file too large; two files.
SPECIFICATION Spec
CONSTANTS
    f1 = f1
    f2 = f2
    a = a
    b = b
    big = big
    s1 = s1
    s2 = s2
    Absent = Absent
    Unknown = Unknown
    None = None
    Files <- MCFiles
    Contents <- MCWithLarge
    Large <- MCLarge
    Shells <- MCOneShell
    InGit = TRUE
    MaxCheckpoints = 1
    MaxCopies = 1
    MaxPrecapture = 0
    MaxRequests = 2
    MaxChanges = 1
SYMMETRY MCSymmetry
INVARIANTS
    TypeOK
    BeforeIsOld
PROPERTIES
    UndoIsComplete
\* The bounds on requests and changes end every behaviour.
CHECK_DEADLOCK FALSE
