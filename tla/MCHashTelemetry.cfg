CONSTANTS
    N = 2
    NonceBits = 3
    AdvanceFirst = FALSE
    MaxHashes = 0
SPECIFICATION Spec
INVARIANTS
    TypeOK
    RateAccountsEveryHash
    MaxNonceIsLargestHashed
    StatusMaxWasHashed
