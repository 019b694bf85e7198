CONSTANTS
    t1 = t1
    t2 = t2
    t3 = t3
    t4 = t4
    t5 = t5
    Tests <- MCTests
    JumpDest <- MCJumpDest
    Run <- MCRun
    SpliceRun <- MCSpliceRun
    CmpWidth = 2
    StallSaves = 2
    FuzzCap = 2
    CycleCap = 1

SPECIFICATION Spec

INVARIANTS
    TypeOK
    QueueMatchesLeaders
    CoveredIffZero
    PredicatesAreUncovered

PROPERTIES
    ImplementsBranchSearch
    Termination

\* stop() ends the process: the loop really halts in phase "stopped".
CHECK_DEADLOCK FALSE
