SPECIFICATION Spec
CONSTANTS
    Values = {v0, v1}
    Zero = v0
    Capacities = {1, 2, 4}
    IndexModulus = 8
    MaxTransfer = 3
INVARIANTS
    TypeOK
    SpansDisjoint
PROPERTIES
    ImplementsQueue
