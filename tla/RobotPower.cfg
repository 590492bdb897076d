SPECIFICATION FairSpec
CONSTANTS
    Motors = {1}
    InterfaceOf <- OneMotor
    CloseChain = {1}
    offline_threshold = 1
    ChanSize = 2
    CallBound = 1
INVARIANTS
    TypeOK
    PowerFollowsInit
    JointsConverted
PROPERTIES
    OfflineVerdict
    CallReturns
    OfflineEndsRun
