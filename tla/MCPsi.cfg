SPECIFICATION Spec
CONSTANTS
    Sections = 3
    Lengths = {3, 7}
    MaxSize = 7
    MaxLen = 9
    Payload = 5
    HdrLen = 2
    CCMod = 3
    MaxFaults = 2
    None = None
\* The last section has been sent.
CHECK_DEADLOCK FALSE
INVARIANTS
    BufferIsPrefix
    WholeSectionDelivered
PROPERTIES
    DeliveredInOrder
    LoopEnds
