SPECIFICATION FairSpec
CONSTANTS
    PayloadLen = 1
    Shapes <- AllShapes
    SavedOutputs <- Saved
    MaxLost = 1
    Cycle = 2
    Backlog = 2
INVARIANTS
    TypeOK
    FrameBegan
PROPERTIES
    ImplementsAttitudeSource
    Resynchronises
    DestructorReturns
