SPECIFICATION FairSpec
CONSTANTS
    Main = Main
    Extra = Extra
    MaxDraws = 5
INVARIANTS
    TypeOK
    PresentWaitExact
    WaitIsAnswered
    DrawPhaseEnds
    DrawnByOneThread
    UIKeepsOtherWindows
    DrawRepliesReachTheirWaiter
    MainDrawsKeepPace
PROPERTIES
    FrameEnds
    StopReturns
