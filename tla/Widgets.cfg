SPECIFICATION MCSpec
CONSTANTS
    a = a
    b = b
    c = c
    friends = friends
    work = work
    Names <- ABC
    Groups <- GH
    Gone = Gone
    Null = Null
    Freed = Freed
    Heights = {3, 4}
    Worlds <- TwoWorlds
    Scripts = TRUE
INVARIANTS ListSound ScreenAgrees
PROPERTIES CursorStays ImplementsViewport
CHECK_DEADLOCK FALSE
