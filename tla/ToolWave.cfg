SPECIFICATION Spec
CONSTANTS
    Batches <- MCBatches
    MaxBatches = 2
    MaxChanges = 2
    ReadBudget = 1
    MaxRetries = 1
INVARIANTS
    TypeOK
    
    
    CacheIsCurrent
PROPERTIES
    BatchEnds
\* The last answer, or the user's stop, ends a behaviour.
CHECK_DEADLOCK FALSE
