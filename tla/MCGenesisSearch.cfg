CONSTANTS
    NonceBits = 2
    ExtraBits = 1
    ThreadCounts = {1, 2, 3}
    ExtraStarts = {0, 1, 3}
    FixedStarts = {3}
    MaxSolutions = 2
SPECIFICATION Spec
INVARIANTS
    TypeOK
    ReportedGenesisValid
    SearchExhaustive
    NoNonceHashedTwice
PROPERTIES
    SolutionEventuallyReported
    RefinesAbstract
