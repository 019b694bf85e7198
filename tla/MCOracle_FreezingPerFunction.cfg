\* Freezing ether counted per call, as spec.md 4.6 states it.
CONSTANTS
    Roots <- MCRoots
    Events <- MCEvents
    FaultPcs = {0, 33}
    MaxSteps = 2
    MaxCalls = 2
    CounterWidth = 16
    OverflowNumWidth = 8
SPECIFICATION Spec
INVARIANT
    FreezingPerFunction
\* The run is bounded by MaxCalls: the fuzzer stops when its time is up.
CHECK_DEADLOCK FALSE
