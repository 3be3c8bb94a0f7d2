SPECIFICATION AllSpec
CONSTANTS
    Conns = {1, 2}
    BufferSize = 2
    Kinds <- MCKinds
    Asks <- MCAsks
    Stream = 3
    Messages = 2
INVARIANTS DataInOrder
PROPERTIES Served
CHECK_DEADLOCK FALSE
