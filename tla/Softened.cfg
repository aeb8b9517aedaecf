\* One thing odd about the dealing and one change by the producer are enough.
CONSTANTS
    MaxEvents = 2
    MaxOdd = 2
SPECIFICATION Spec
INVARIANT ContradictionStands
CHECK_DEADLOCK FALSE
