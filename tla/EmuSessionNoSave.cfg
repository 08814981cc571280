SPECIFICATION Spec
CONSTANTS
    Main = Main
    ExtraSlots = {a}
    NoSave = NoSave
    None = None
    MaxExtraSlots = 1
    States = {s1}
    NoState = NoState
    StateCounts = {0}
PROPERTIES
    NoSaveKeepsProgress
