CONSTANTS
    MessageLens = {0, 30, 39, 40, 240, 241, 245, 246}
    ExtraNonces = {0, 1, 256, 65536, 16777216, 2147483647}
    OpReturnLens = {0, 14, 75, 76, 77}
    MsgByte = 77
    Exponents = {0, 1, 2, 3, 4, 5, 16, 28, 29, 30, 31, 32}
    Mantissas = {0, 255, 65535, 8388607, 8388608, 12345678, 16777215}
    CmpWidth = 3
    CmpBytes = {0, 1, 127, 255}
    Amounts <- MCAmounts
    TextChars = {"0", "5", ".", "-", "+", " ", "thin"}
    TextLen = 4
    ParseDigits = 9
    TextBytes <- MCTextBytes
SPECIFICATION Spec
INVARIANTS
    VarIntRoundTrip
    BlockBytesRoundTrip
    ExtraNonceSeparatesCoinbases
    OpReturnIsSinglePush
    TargetMatchesCompact
    MeetsTargetIsNumericOrder
    FormatParseRoundTrip
    ParseAcceptsDecimalText
    PrivacyKeepsLayout
    GenesisMatchesMiner
    GenesisPassesProofOfWork
    MagicIdentifiesNetwork
    AddressSpacesSeparate
    VerifyReportsErrorsFirst
    WrapperVerifyNeverAborts
    RangeTraversal
    WriteBytesAllOrThrow
    DriverRunsFilteredNets
    StartOverrideResumes
    EnumsKeepTheirMeaning
