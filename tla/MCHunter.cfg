CONSTANTS
    InitMayFail = FALSE
    MaxEntries = 1
    MaxSignals = 1
SPECIFICATION Spec
INVARIANT ReleaseOnce
