\* Three checkpoints: enough for a fork around an empty tree, an elided one in the
\* middle, and sizes out of order; two instants on either side of a deadline.
CONSTANTS
    NumCps = 3
    MaxSize = 1
    MaxTime = 1
    Branches = {a, b}
    Skew = 0
    MaxRecords = 1
    MaxAsserted = 1
SPECIFICATION Spec
SYMMETRY BranchSymmetry
INVARIANTS
    TypeOK
    DeadlineHeld
    OneHistory
    ElisionNeverSilent
    CoverageFollowsChain
PROPERTY JudgedAtOnce
CHECK_DEADLOCK FALSE
