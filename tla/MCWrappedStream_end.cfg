CONSTANTS
    Base = 2
    MacSize = 1
    Cipher <- MCCipher
    MaxBytes = 5
    WriteSizes <- MCWriteSizes
    ReadSizes <- MCReadSizes
    MaxFaults = 1
SPECIFICATION WrappedSpec
INVARIANT EndIsChecked
