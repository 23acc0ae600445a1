\* The queue as the application uses it.
SPECIFICATION AppSpec
CONSTANTS
    i1 = i1  i2 = i2  f1 = f1  f2 = f2
    Items <- MCItems
    Flushes <- MCFlushes
    MaxAttempts = 2
    MaxReloads = 1
PROPERTY QueuedIsSent
CHECK_DEADLOCK FALSE
