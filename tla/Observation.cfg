SPECIFICATION Spec
CONSTANTS
    FrameStack = 3
    StackOrder = "ObsMajor"
    MaxSample = 2
INVARIANTS
    TypeOK
    AttitudeIsFresh
    AttitudeIsWhole
    InputIsHistory
