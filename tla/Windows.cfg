SPECIFICATION MCSpec
CONSTANTS
    Windows = {status, w1}
    StatusWin = status
    Accts = {aim, irc}
    NullAcct = null
    BlistAccts = {aim}
    NoAcct = none
    Targets = {t}
    Skippable = {w1}
    MaxRefnum = 3
    RingWindows = {status, w1, w2, w3}
    RingSkippable = {w1, w2}
    RingMaxRefnum = 5
    NULL = NULL
    Plays <- MCPlays
    Char = {"a", "b", " ", "/"}
INVARIANTS TypeOK VisibleIsCurrent
INVARIANTS OwnersAgree SortedRing InputSound
PROPERTIES ImplementsWindowSet RingImplementsWindowSet ImplementsLineEdit
CHECK_DEADLOCK FALSE
