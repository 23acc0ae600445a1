\* The state the PWA keeps in the browser.
SPECIFICATION ClientSpec
CONSTANTS
    Desks = {"queue", "photos", "models"}
    i1 = i1  i2 = i2  f1 = f1  f2 = f2
    Items <- MCItems
    Flushes <- MCFlushes
    Photos <- MCItems
    MaxPresses = 3
    Models = {"m"}  Totals = {1, 2}  Unknown = 0  MaxBytes = 2
    MaxAttempts = 2
    MaxReloads = 1
INVARIANTS ClientTypeOK QueueIsExact SendingIsBounded ToldIsKept ResumesWhereItStopped
SYMMETRY MCSymmetry
CHECK_DEADLOCK FALSE
