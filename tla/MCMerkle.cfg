\* Trees of up to 17 leaves: every shape of right edge (none to four skipped
\* levels), powers of two and their neighbours, proofs of up to six hashes.
CONSTANTS
    MaxSize = 17
    Given <- HonestGiven
    Offered <- HonestOffered
    Claimed <- HonestClaimed
SPECIFICATION Spec
INVARIANTS
    TypeOK
    FnWithinSn
    InclusionSound
    ConsistencySound
    HonestProofAccepted
PROPERTY Termination
CHECK_DEADLOCK FALSE
