\* One dealing both parties may record, three receipts between them: enough for
\* two receipts of one side against one of the other, and for a late receipt
\* between reconciling and submitting.
CONSTANTS
    Claims = {c1}
    MaxReceipts = 3
    MaxChanges = 1
SPECIFICATION DisputeSpec
INVARIANTS
    NothingSmoothedOver
    DroppedReceiptsShow
