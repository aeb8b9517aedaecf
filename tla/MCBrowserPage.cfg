\* Three selections: one shown, one read that ends late, one in between.
CONSTANTS
    MaxSelections = 3
SPECIFICATION Spec
INVARIANTS
    TypeOK
    GreenIsLatest
    GreenObeysPolicy
    DigestBesideGreen
    NothingWhileReading
PROPERTY ReadingEnds
CHECK_DEADLOCK FALSE
