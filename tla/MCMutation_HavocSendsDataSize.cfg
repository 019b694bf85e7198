\* Havoc against its own bookkeeping and spec 4.7: after a block deletion
\* the testcase sent has dataSize bytes.  The code keeps data's size.
CONSTANTS
    Input <- MCInput
    InputCksum = 1
    Addresses <- MCAddresses
    CodeDict <- MCCodeDict
    Queues <- MCQueues
    Fds <- MCFds
    Nameless = "ctor"
    HavocMin = 2
    HavocStacks = {2}
    HavocPos = {0, 40}
    HavocArith = {1}
    HavocPicks = {1}
    HavocBlockLens = {1, 16}
    FreedBytes = {255}
    ClobberLens = {0, 16}
SPECIFICATION Spec
INVARIANT HavocSendsDataSize
CHECK_DEADLOCK FALSE
