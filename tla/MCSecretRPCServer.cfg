CONSTANTS
    Sockets = {s1, s2}
    Keys = {k1, k2}
    Anonymous = Anonymous
    Secrecy = {TRUE, FALSE}
    MaxFaults = 1
SPECIFICATION FairSpec
INVARIANTS
    OneAccept
    ServedForIdentity
PROPERTY EveryClientSettles
