CONSTANTS
    DeployCode <- MCDeployCode
    RuntimeCode <- MCRuntimeCode
    DeployJumpDest <- MCDeployJumpDest
    RuntimeJumpDest <- MCRuntimeJumpDest
    Valids <- MCValids
    PrefuzzModes = {TRUE}
    CmpWidth = 1
    NumFuncs = 2
    IsSplice = FALSE
    PcLimit = 9
    MaxSteps = 6
    JumpiMayFault = FALSE

SPECIFICATION Spec

INVARIANT
    DisjointResult

CHECK_DEADLOCK FALSE
