SPECIFICATION Spec
CONSTANTS
    src = src
    doc = doc
    Files <- MCFiles
    CodeFiles <- MCCodeFiles
    MaxIterations = 3
    MaxToolCalls = 2
    MaxReadOnlyBatches = 2
    MaxAutoContinues = 0
    MaxPlanContinues = 0
    MaxJevContinues = 0
    MaxGateRetries = 1
    MaxTruncationResumes = 0
    MaxEditRetries = 0
    MaxTextRecoveries = 0
    MaxBatch = 1
    MaxTodo = 0
    ToolVerdicts <- MCAllVerdicts
    Projects <- MCProjects
INVARIANT
    EveryEndIsVerified
CHECK_DEADLOCK FALSE
