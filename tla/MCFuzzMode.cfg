\* Fuzz mode on a contract with valid JUMPIs (weights and leaders read)
\* and on one without (the ":" energy appended last): energy accounting
\* and termination of the loop.
CONSTANTS
    t1 = t1
    t2 = t2
    t3 = t3
    Tests <- MCTests
    Ids = {":", "a", "b", "c"}
    Reach <- MCReach
    Kinds = {"k"}
    Found <- MCFound
    WeightTable <- MCWeightTable
    LeaderTable <- MCLeaderTable
    ValidJumpiCases = {TRUE, FALSE}
    NoBranchWeight = 8
    ReplaceAfter = 2
    CounterWidth = 16
    DurationSaves = 6
SPECIFICATION Spec
INVARIANTS
    TypeOK
    EnergyAccountsHits
PROPERTIES
    Termination
CHECK_DEADLOCK FALSE
