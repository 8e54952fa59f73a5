SPECIFICATION FairSpec
CONSTANTS
    RingSize = 3
    MaxPackets = 4
INVARIANTS
    TypeOK
    ResampledIsLatest
    FrameIsFaithful
PROPERTIES
    EverySampleIsDrawn
