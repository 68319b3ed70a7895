CONSTANTS
    Unset = Unset
    AppIDs = {app1, app2}
    Keys = {k1, k2}
    ChallengeSize = 2
    AuthSize = 3
    AckSize = 2
    MaxData = 2
    MaxFaults = 1
SPECIFICATION FairSpec
INVARIANTS
    StreamIntact
    BuffersMatchStep
PROPERTIES
    ImplementsMessages
    Termination
