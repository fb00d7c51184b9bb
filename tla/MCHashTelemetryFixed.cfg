CONSTANTS
    N = 2
    NonceBits = 2
    AdvanceFirst = TRUE
    MaxHashes = 3
SPECIFICATION Spec
INVARIANTS
    StatusMaxWasHashed
