\* An odd command, an empty one and a plain one.
SPECIFICATION Spec
CONSTANTS
    MaxCommands = 3
    Blank <- MCBlank
    Odd <- MCOdd
    ExitCodes = {1}
    None = None
    MaxInterrupts = 1
INVARIANTS
    TypeOK
    OutputIsWhole
    
    
    FrameIsAwaitedBriefly
    
PROPERTIES
    ImplementsQueue
    EveryCommandIsAnswered
\* Once every command is answered and every process gone, nothing is left to do.
CHECK_DEADLOCK FALSE
