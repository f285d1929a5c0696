CONSTANTS
    friend = friend
    other = other
    friends = friends
    orphans = orphans
    plain = plain
    nick = nick
    null = null
    Names = {friend, other}
    Groups = {friends, orphans}
    Orphans = orphans
    Aliases = {plain, nick}
    Plain = plain
    Null = null
    Modes = {0, 4}
    Starts <- MCStarts
SPECIFICATION MCSpec
CHECK_DEADLOCK FALSE
INVARIANTS ListsAgree WireSound
PROPERTIES Settles
