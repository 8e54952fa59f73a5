SPECIFICATION FairSpec
CONSTANTS
    Streams = {color, depth}
    Frame = {0, 1, 2, 3, 4}
    NoFrame = NoFrame
    FrameIds = 5
    Configurations = {{color}}
INVARIANTS
    TypeOK
    CaptureHasCameras
    StoppedIsOff
PROPERTIES
    FramesInOrder
    CallsReturn
    ErrorsStopTheDevice
