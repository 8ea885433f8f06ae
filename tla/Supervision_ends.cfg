SPECIFICATION Spec
CONSTANTS
    a = a
    b = b
    Bms <- TwoBms
    Watchdog = TRUE
    MaxErrors = 1
    MaxOld = 1
INVARIANTS TypeOK
PROPERTIES ShutdownEnds SilenceEnds SerialAbortEnds Restarted
CHECK_DEADLOCK FALSE
