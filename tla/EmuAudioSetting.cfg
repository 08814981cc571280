SPECIFICATION Spec
CONSTANTS
    Zero = 0
    Capacities = {2, 4}
    IndexModulus = 8
    MaxTransfer = 2
    BufferIncrement = 1
    MaxSoundBuffers = 2
    CapacityOfOneSec = 2
    Values = {0}
INVARIANTS
    AutoIncreaseFollowsSetting
