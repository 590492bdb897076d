SPECIFICATION Spec
CONSTANTS
    StandDuration = 1
    DampDuration = 2
    MaxTimeStep = 2
    PolicyCount = 1
    MotionFrames <- NoMotion
    MotionIndices <- NoIndices
    SupportsInterrupt = TRUE
    Callbacks = {"A", "B", "X", "LB", "set_zeros", "reset_joints", "start_inference", "stop_inference", "init_motors", "deinit_motors"}
INVARIANTS
    PauseHonoured
    NoPolicyAfterViolation
    OneOutputAfterPause
PROPERTIES
    KeepsSafeModes
