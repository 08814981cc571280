SPECIFICATION Spec
CONSTANTS
    Windows = {mainWindow, extraWindow}
    NoWindow = NoWindow
    MaxContexts = 3
    CloseInContext = FALSE
    RequestInFrame = TRUE
INVARIANTS
    RequesterIsNotEmuThread
