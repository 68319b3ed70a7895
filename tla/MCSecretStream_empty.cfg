CONSTANTS
    Base = 2
    MacSize = 1
    Cipher <- MCCipher
    MaxBytes = 4
    MaxFaults = 2
SPECIFICATION Spec
INVARIANT CleanIsWhole
