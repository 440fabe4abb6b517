SPECIFICATION Spec
CONSTANTS
    PacketLen = 2
    MaxTs = 2
    PipeBuffer = 7
    PipeBuf = 3
    SeqMod = 4
    CCMod = 4
    PatPackets = {1, 2, 3}
    None = None
INVARIANTS
    BufferHoldsRest
    SeqCountsPackets
    PipeOpenOrRetried
    PatContinues
PROPERTIES
    ReaderServed
