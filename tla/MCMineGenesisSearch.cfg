CONSTANTS
    NonceBits = 2
    ExtraBits = 1
    ThreadCounts = {1, 2, 3}
    NonceStarts = {0, 3}
    MaxSolutions = 2
SPECIFICATION Spec
INVARIANTS
    TypeOK
    ReportedGenesisValid
    JoinOnlyAfterFind
PROPERTIES
    SolutionEventuallyReported
