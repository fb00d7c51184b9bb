CONSTANTS
    NonceBits = 2
    ExtraBits = 1
    ThreadCounts = {2}
    NonceStarts = {1}
    UseExtraNonce = FALSE
    MaxSolutions = 1
SPECIFICATION Spec
PROPERTIES
    EventuallyDecided
