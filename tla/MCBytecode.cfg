\* Both programs of three contracts, decoded from hex, in prefuzz and in fuzz mode.
CONSTANTS
    Contracts <- MCContracts
    HexTexts <- MCHexTexts
    Source <- MCSource
    ConstantRanges <- MCConstantRanges
    TokenPrefixes <- MCTokenPrefixes
    TokenWords <- MCTokenWords
    Empty = Empty

SPECIFICATION Spec

INVARIANTS
    TypeOK
    JumpisMatchSpec
    FromHexMatchesReference
    DelegateCallsMatchSpec

\* The constructor returns once both programs are walked.
CHECK_DEADLOCK FALSE
