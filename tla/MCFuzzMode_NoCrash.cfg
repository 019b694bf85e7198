\* leaders.json without a leader for the branch of most energy.
CONSTANTS
    t1 = t1
    t2 = t2
    t3 = t3
    Tests <- MCTests
    Ids = {":", "a", "b", "c"}
    Reach <- MCReach
    Kinds = {"k"}
    Found <- MCFound
    WeightTable <- MCWeightTable
    LeaderTable <- MCLeaderTableStale
    ValidJumpiCases = {TRUE}
    NoBranchWeight = 8
    ReplaceAfter = 2
    CounterWidth = 16
    DurationSaves = 6
SPECIFICATION Spec
INVARIANT NoCrash
CHECK_DEADLOCK FALSE
