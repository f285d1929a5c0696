SPECIFICATION Spec
CONSTANTS
    Windows = {status, w1, w2}
    StatusWin = status
    Accts = {irc}
    NullAcct = null
    BlistAccts = {}
    NoAcct = none
    Targets = {t}
    Skippable = {status, w1, w2}
    MaxRefnum = 4
INVARIANTS CurrentIsOpen
CHECK_DEADLOCK FALSE
SYMMETRY Symmetry
