SPECIFICATION Spec
CONSTANTS
    Windows = {mainWindow, extraWindow}
    NoWindow = NoWindow
    MaxContexts = 3
    CloseInContext = TRUE
    RequestInFrame = TRUE
INVARIANTS
    TypeOK
    ContextExcludesFrames
    RepliesReachTheirWaiter
    SemaphoresBinary
    WakeUpsMatchSuspensions
    NoStaleCommand
    OneFrameDelegate
    WaitsAreServed
PROPERTIES
    OnlyOutermostResumes
    ImplementsAccess
CHECK_DEADLOCK FALSE
