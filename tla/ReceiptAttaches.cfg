\* A dealing in which everything is in order.
CONSTANTS
    MaxEvents = 1
    MaxOdd = 0
SPECIFICATION Spec
INVARIANT ReceiptAttaches
CHECK_DEADLOCK FALSE
