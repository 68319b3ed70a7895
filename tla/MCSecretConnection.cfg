CONSTANTS
    Unset = Unset
    AppIDs = {app1, app2}
    Keys = {k1, k2}
    MaxFaults = 1
SPECIFICATION WrapFairSpec
INVARIANTS
    Admission
PROPERTIES
    WrapSettles
    RefusedIsCut
