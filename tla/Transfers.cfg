SPECIFICATION MCSpec
CONSTANTS
    Fds = {1, 2}
    Lens = {0, 1, 2}
    MaxXfers = 2
    AckLimit = 2
INVARIANTS TransfersSound AimTransfersSound
PROPERTIES SendEnds
CHECK_DEADLOCK FALSE
