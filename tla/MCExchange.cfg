SPECIFICATION Spec
CONSTANTS
    MaximumPduSize = 1000
    MaxOutstanding = 5
    Device <- MCDevice
    Calls <- MCCalls
    Reports <- MCReports
    Changes <- MCChanges
    MaxChanges = 1
    FirstId = 126
    LastId = 128
INVARIANTS ReadTrue WriteTakes ReadManyTrue ListsTrue NamesTrue RepliesFit Framed ReportDelivered
CHECK_DEADLOCK FALSE
