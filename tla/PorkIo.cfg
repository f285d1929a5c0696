SPECIFICATION FairSpec
CONSTANTS
    Keys = {k1, k2}
    Tty = globals
    Nodes = {n1, n2, n3, n4}
    Null = null
    Fds = {f1}
    TtyFd = 0
    Gone = gone
INVARIANTS IoSound
PROPERTIES NoStaleCall SizeFollows
CHECK_DEADLOCK FALSE
