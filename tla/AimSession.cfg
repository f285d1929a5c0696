CONSTANTS
    Conns = {1, 2, 3, 4, 5}
    Chats = {1, 2, 3}
    a = a
    b = b
    Rooms = {a, b}
    MaxTries = 2
    Plays <- MCPlays
SPECIFICATION Spec
CHECK_DEADLOCK FALSE
INVARIANTS LinksSound
PROPERTIES EverythingEnds
