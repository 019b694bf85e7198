\* Splice of a leader fuzzed before, against spec 4.7: the spliced buffer
\* is the partner followed by the leader.  The leader's half is read
\* through a pointer the resize has freed.
CONSTANTS
    Input <- MCInput
    InputCksum = 1
    Addresses <- MCAddresses
    CodeDict <- MCCodeDict
    Queues <- MCQueues
    Fds <- MCFds
    Nameless = "ctor"
    HavocMin = 2
    HavocStacks = {2}
    HavocPos = {0, 40}
    HavocArith = {1}
    HavocPicks = {1}
    HavocBlockLens = {1, 16}
    FreedBytes = {255}
    ClobberLens = {0, 16}
SPECIFICATION Spec
INVARIANT SplicedIsPartnerThenSelf
CHECK_DEADLOCK FALSE
