\* Both modes, a constructor and two function calls, exceptions anywhere,
\* right after a valid JUMPI included.
CONSTANTS
    DeployCode <- MCDeployCode
    RuntimeCode <- MCRuntimeCode
    DeployJumpDest <- MCDeployJumpDest
    RuntimeJumpDest <- MCRuntimeJumpDest
    Valids <- MCValids
    PrefuzzModes = {TRUE, FALSE}
    CmpWidth = 1
    NumFuncs = 2
    IsSplice = FALSE
    PcLimit = 9
    MaxSteps = 6
    JumpiMayFault = TRUE

SPECIFICATION Spec

INVARIANTS
    TypeOK
    MatchesExecResult
    OracleTraceWellFormed

\* exec returns after the last function call.
CHECK_DEADLOCK FALSE
