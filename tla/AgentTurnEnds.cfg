SPECIFICATION Spec
CONSTANTS
    src = src
    doc = doc
    Files <- MCNoFiles
    CodeFiles <- MCNoFiles
    MaxIterations = 4
    MaxToolCalls = 1
    MaxReadOnlyBatches = 2
    MaxAutoContinues = 4
    MaxPlanContinues = 2
    MaxJevContinues = 1
    MaxGateRetries = 1
    MaxTruncationResumes = 1
    MaxEditRetries = 1
    MaxTextRecoveries = 1
    MaxBatch = 2
    MaxTodo = 1
    ToolVerdicts <- MCNoVerdicts
    Projects <- MCNoSuite

    
    
PROPERTIES
    TurnEnds
    KeepsContract
CHECK_DEADLOCK FALSE
