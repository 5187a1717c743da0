SPECIFICATION Spec
CONSTANTS
    Steps = 2
    MaxResumes = 1
    PlanMode = FALSE
    Outcomes <- MCOutcomes
    MaxRequests = 2
    MaxCommands = 1
    MaxTurns = 1
PROPERTIES
    SavedConversationKept
CHECK_DEADLOCK FALSE
