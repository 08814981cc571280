SPECIFICATION Spec
CONSTANTS
    Main = Main
    ExtraSlots = {a, b}
    NoSave = NoSave
    None = None
    MaxExtraSlots = 1
    States = {s1, s2}
    NoState = NoState
    StateCounts = {0, 2}
INVARIANTS
    TypeOK
    StaticSavesOwnMemory
    HandleIsSlots
    TimersOnlyWhileRunning
    BackgroundSaveIsCurrent
    RewindInRange
PROPERTIES
    SlotsKeepTheirMemory
    SlotSwitchKeepsProgress
    RewindImplementsHistory
SYMMETRY Symmetry
CONSTRAINT SlotsOrRing
