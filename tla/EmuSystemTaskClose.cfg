SPECIFICATION FairSpec
CONSTANTS
    Windows = {mainWindow, extraWindow}
    NoWindow = NoWindow
    MaxContexts = 3
    CloseInContext = TRUE
    RequestInFrame = FALSE
PROPERTIES
    FatalErrorsClose
CHECK_DEADLOCK FALSE
