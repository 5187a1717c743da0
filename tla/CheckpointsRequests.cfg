\* Two requests on one file.
SPECIFICATION Spec
CONSTANTS
    f1 = f1
    f2 = f2
    a = a
    b = b
    big = big
    s1 = s1
    s2 = s2
    Absent = Absent
    Unknown = Unknown
    None = None
    Files <- MCOneFile
    Contents <- MCContents
    Large <- MCNone
    Shells <- MCOneShell
    InGit = TRUE
    MaxCheckpoints = 2
    MaxCopies = 9
    MaxPrecapture = 9
    MaxRequests = 2
    MaxChanges = 3
SYMMETRY MCSymmetry
PROPERTIES
    UndoGivesBack
    NewerKept
\* The bounds on requests and changes end every behaviour.
CHECK_DEADLOCK FALSE
