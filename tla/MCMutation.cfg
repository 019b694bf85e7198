\* The mutation stages of one leader, as the fuzz loops call them: the
\* three stage sequences, the deterministic stages over a 64-byte input,
\* two stacked havoc mutations per iteration, and splice over three queues.
CONSTANTS
    Input <- MCInput
    InputCksum = 1
    Addresses <- MCAddresses
    CodeDict <- MCCodeDict
    Queues <- MCQueues
    Fds <- MCFds
    Nameless = "ctor"
    HavocMin = 2
    HavocStacks = {2}
    HavocPos = {0, 40}
    HavocArith = {1}
    HavocPicks = {1}
    HavocBlockLens = {1, 16}
    FreedBytes = {255}
    ClobberLens = {0, 16}
SPECIFICATION Spec
INVARIANTS
    TypeOK
    BufferRestored
    CallbacksStayInWindow
    SkipsOnlyInertBytes
    SpliceRestoresAbi
    PartnerExists
\* A Mutation object's life ends when its last stage returns.
CHECK_DEADLOCK FALSE
