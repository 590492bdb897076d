SPECIFICATION Spec
CONSTANTS
    StandDuration = 1
    DampDuration = 1
    MaxTimeStep = 1
    PolicyCount = 3
    MotionFrames <- ThreeMotions
    MotionIndices <- ThreeIndices
    SupportsInterrupt = FALSE
    Callbacks = {"A", "LB", "RB", "init_motors"}
INVARIANTS
    TypeOK
    RefsMixOnlyByReset
    MotionFrameInRange
