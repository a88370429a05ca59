CONSTANTS
    PageSize = 2
    Blocksize = 2
    DigestSize = 2
    MaxAuthSize = 2
    Prealloc = 2
    MaxDiff = 2
    MaxMessage = 4
    CryptInputs <- MCCryptInputs
    AuthInputs <- MCAuthInputs
SPECIFICATION Spec
INVARIANTS
    TypeOK
    
    
    NothingLeaks
    DigestIsOwn
