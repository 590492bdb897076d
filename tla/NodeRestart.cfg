SPECIFICATION Spec
CONSTANTS
    StandDuration = 0
    DampDuration = 1
    MaxTimeStep = 1
    PolicyCount = 1
    MotionFrames <- NoMotion
    MotionIndices <- NoIndices
    SupportsInterrupt = TRUE
    Callbacks = {"A", "LB", "init_motors"}
PROPERTIES
    RestartIsFresh
