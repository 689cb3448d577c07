SPECIFICATION Spec
CONSTANTS
    Byte = {0, 1}
    Zero = 0
    InitialSize = 2
    ExtSize = 2
    Chunks <- MCChunks
    MaxReadable = 4
INVARIANTS
    BoundedGrowth
PROPERTIES
    ImplementsQueue
