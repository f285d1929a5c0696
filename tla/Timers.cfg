SPECIFICATION TimersSpec
CONSTANTS
    Accts = {a1, a2}
    Types = {7, 9}
    Commands = {f, g}
    Recursive = {FALSE, TRUE}
    Quiet = {g}
    MaxRefnum = 1
    MaxDepth = 2
    Programs = {p}
    Intervals = {2}
    Times = {0, 2}
    MaxTimers = 3
INVARIANTS StrayOnlyIfLost NeverTooOften
PROPERTIES FiniteTimersEnd
CHECK_DEADLOCK FALSE
