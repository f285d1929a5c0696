SPECIFICATION MCSpec
CONSTANTS
    Fds = {f1, f2}
    MaxTries = 5
    Interval = 1
    MaxInterval = 3
    Timeout = 2
    AutoReconnect = TRUE
    Uses <- BareAndFull
INVARIANTS SessionAgrees ModesSound
PROPERTIES AttemptsSound ImplementsLifecycle Settles LoginEnds
CHECK_DEADLOCK FALSE
