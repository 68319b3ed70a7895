CONSTANTS
    Unset = Unset
    AppIDs = {app1, app2}
    Keys = {k1, k2}
    MaxFaults = 2
SPECIFICATION FairSpec
INVARIANTS
    TypeOK
    Agreement
    ServerAuthenticatesClient
    ErrorMeaning
    LockStep
    EachKeyOnce
PROPERTIES
    VerdictIsFinal
    Termination
    HonestSuccess
