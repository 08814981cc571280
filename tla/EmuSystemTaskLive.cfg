SPECIFICATION FairSpec
CONSTANTS
    Windows = {mainWindow, extraWindow}
    NoWindow = NoWindow
    MaxContexts = 3
    CloseInContext = FALSE
    RequestInFrame = FALSE
PROPERTIES
    RequestsReturn
