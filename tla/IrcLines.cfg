SPECIFICATION BothSpec
CONSTANTS
    Lengths = {1, 4}
    Blanks = TRUE
    Drops = TRUE
    MaxLines = 2
    MaxStream = 6
    BufLen = 5
    MaxTyped = 4
INVARIANTS LinesInOrder
PROPERTIES EveryLineHeard ImplementsLineStream
CHECK_DEADLOCK FALSE
