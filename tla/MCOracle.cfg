\* Oracle over two calls of up to two recorded events each (plus root and
\* fault), with analyze after every execution.
CONSTANTS
    Roots <- MCRoots
    Events <- MCEvents
    FaultPcs = {0, 33}
    MaxSteps = 2
    MaxCalls = 2
    CounterWidth = 16
    OverflowNumWidth = 8
SPECIFICATION Spec
INVARIANTS
    TypeOK
    ClassifiersMatchSpec
\* The run is bounded by MaxCalls: the fuzzer stops when its time is up.
CHECK_DEADLOCK FALSE
