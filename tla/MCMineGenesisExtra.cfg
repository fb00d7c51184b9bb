CONSTANTS
    NonceBits = 2
    ExtraBits = 1
    ThreadCounts = {2}
    NonceStarts = {0}
    MaxSolutions = 1
SPECIFICATION Spec
PROPERTIES
    ExtraNonceSolutionEventuallyReported
