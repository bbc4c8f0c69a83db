SPECIFICATION ExportSpec
CONSTANTS
    Fingerprint = {f1, f2}
    Flagged <- MCFlagged
    MaxSources = 2
    MaxActions = 1
    MaxQueue = 1
    MaxRaises = 2
    MaxHour = 1
INVARIANT
    EveryEventIsKept
CHECK_DEADLOCK FALSE
