CONSTANTS
    Base = 2
    MacSize = 1
    Cipher <- MCCipher
    MaxBytes = 3
    WriteSizes <- MCWriteSizes
    MaxFaults = 1
    ReadLimits = {1, 2}
    MaxCloses = 1
SPECIFICATION FairSpec
INVARIANTS
    ReadsExact
    EndVerdict
PROPERTIES
    ImplementsChannel
    ErrorIsFinal
    AllRead
