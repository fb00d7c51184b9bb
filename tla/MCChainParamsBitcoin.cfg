CONSTANTS
    TextBytes <- MCTextBytes
SPECIFICATION Spec
INVARIANTS
    NoNetworkIdentitySharedWithBitcoin
