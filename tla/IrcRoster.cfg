SPECIFICATION MCSpec
CONSTANTS
    a = a
    b = b
    c = c
    Nicks <- ABC
    Me = a
    Plain <- Letters
    Worlds <- CalmAndRough
    MaxWire = 2
    MaxBack = 2
    Delay = 2
    Spellings = {1, 2}
    Manners <- Moods
INVARIANTS ChatSound SaidSound
CHECK_DEADLOCK FALSE
