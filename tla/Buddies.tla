------------------------------ MODULE Buddies ------------------------------
(***************************************************************************)
(* The buddies of an account (pork_buddy.c) and the list on the screen     *)
(* that shows them (pork_buddy_list.c, pork_slist.c).                      *)
(*                                                                         *)
(* A buddy is an entry of a hash, by normalized name, and a member of a    *)
(* group.  A cell of the list stands for a group, or for a member that is  *)
(* online; buddies and groups point at their cells and back.  The list     *)
(* keeps for every cell the line it is on (Above and Below the screen),    *)
(* the first and the last cell shown, and a cursor, and every operation    *)
(* corrects them by steps from the cell that changed.                      *)
(*                                                                         *)
(* Names stands for what names normalize to.  A cell has the name of what  *)
(* it shows.  A buddy that was removed may stay in the hash (see           *)
(* buddy_remove), so a group has the buddies that point at it, by their    *)
(* refnums, and listed says which of them are on its member_list.          *)
(***************************************************************************)
EXTENDS Integers, SequencesExt

CONSTANTS Names,       \* normalized screen names
          Groups,      \* names of groups
          Gone,        \* a group that has been removed
          Null,        \* NULL
          Freed,       \* a pointer to memory that was freed
          Heights,     \* numbers of rows the widget may be given
          Worlds,      \* who there is, and the names among these that a
                       \* buddy of another name may be called
          Scripts      \* whether scripts remove buddies in their handlers

ASSUME NamesAssumption ==
    /\ Names \cap Groups = {} /\ Gone \notin Groups
    /\ Worlds \subseteq [names: SUBSET Names, aliased: SUBSET Names]
    /\ {Null, Freed} \cap (Names \cup Groups) = {}
ASSUME RowsAssumption == Heights \subseteq Nat \ {0} /\ Heights # {}
ASSUME ScriptsAssumption == Scripts \in BOOLEAN

VARIABLES hash,         \* buddy_hash: the buddies, by normalized name
          group_list,   \* the groups
          refnums,      \* for every group, its buddies in the order of refnums
          listed,       \* the buddies that are on the member_list of their group
          num_online,   \* the counter of every group
          has_line,     \* the buddies and groups whose blist_line is not NULL
          slist,        \* the widget, and the first misuse of a pointer
          world         \* a member of Worlds, which does not change

vars == <<hash, group_list, refnums, listed, num_online, has_line, slist, world>>

Cells == Names \cup Groups
Buddy == [name: Names, group: Groups \cup {Gone}, online: BOOLEAN]

(* SLIST_FIRST_ROW and SLIST_LAST_ROW: the widget has a border.            *)
FirstRow == 1
LastRow(L) == L.rows - 2
Above == -2
Below == -1

-----------------------------------------------------------------------------
(* The cells in the order in which slist_node_next meets them, and back.   *)

WithKids(L, g) == <<g>> \o L.kids[g]
Flat(L)    == FlattenSeq([i \in DOMAIN L.cells |-> WithKids(L, L.cells[i])])
Shown(L)   == Range(Flat(L))
Pos(F, c)  == CHOOSE i \in DOMAIN F : F[i] = c
Near(L, c, d) ==
    LET F == Flat(L)
        p == Pos(F, c)
    IN  IF c \in Range(F) /\ p + d \in DOMAIN F THEN F[p + d] ELSE Null
NodeNext(L, c) == Near(L, c, 1)
NodePrev(L, c) == Near(L, c, -1)

(* What the code does with a pointer that it does not check.               *)
Touched(L, P) ==
    IF L.harm = "none" /\ {Null, Freed} \cap P # {}
    THEN [L EXCEPT !.harm = IF Freed \in P THEN "freed" ELSE "null"]
    ELSE L

(* Lines are counted from start, which is given line n, until the screen   *)
(* is full.                                                                *)
Renumber(L, start, n) ==
    LET F    == Flat(L)
        p    == Pos(F, start)
        room == LastRow(L) - n
    IN  IF start \notin Range(F) THEN L
        ELSE [L EXCEPT !.line = [c \in Cells |->
                                  IF c \in {F[i] : i \in p .. Len(F)}
                                  THEN LET i == Pos(F, c) - p IN
                                       IF i <= room THEN n + i ELSE Below
                                  ELSE @[c]],
                       !.bot = IF room < 0 THEN NodePrev(L, start)
                               ELSE F[Min({Len(F), p + room})]]

FromTop(L) == Renumber(L, L.top, FirstRow)

(* slist_scroll_screen_up and slist_scroll_screen_down read both ends.     *)
ScrolledUp(L)   == Touched(L, {L.bot, L.top})
ScrolledDown(L) == Touched(L, {L.bot})

(* mutant of CursorOnScreen: always to the first line                      *)
CursorToTop(L) == [L EXCEPT !.cursor = L.top]

(* A cursor that left the screen is brought back.                          *)
CursorOnScreen(L) ==
    IF L.cursor \notin Cells THEN Touched(L, {L.cursor} \cap {Freed})
    ELSE CASE L.line[L.cursor] = Below -> [L EXCEPT !.cursor = L.bot]
           [] L.line[L.cursor] = Above -> [L EXCEPT !.cursor = L.top]
           [] OTHER -> L

(* blist_draw draws from top on, and the cursor.                           *)
Drawn(L) == Touched(L, {L.top, L.cursor} \cap {Freed})

-----------------------------------------------------------------------------
(* slist_add: cell c joins the siblings it has in L, in the place that     *)
(* order, the order of refnums, gives it; N is the tree after that.        *)

Inserted(siblings, c, order) ==
    SelectSeq(order, LAMBDA x : x \in Range(siblings) \cup {c})

(* mutant of LineFor: what follows a cell above the screen is on it        *)
LineForNext(L, N, siblings, first, c) ==
    LET prev == NodePrev(N, c)
        line == IF first /\ siblings # <<>> THEN L.line[siblings[1]]
                ELSE IF prev = Null THEN FirstRow
                ELSE L.line[prev] + 1
    IN  IF line > LastRow(L) THEN Below ELSE line

LineFor(L, N, siblings, first, c) ==
    LET prev == NodePrev(N, c)
        line == IF first /\ siblings # <<>> THEN L.line[siblings[1]]
                ELSE IF prev = Null THEN FirstRow
                ELSE L.line[prev] + (IF L.line[prev] >= 0 THEN 1 ELSE 0)
    IN  IF line > LastRow(L) THEN Below ELSE line

Placed(N, head, first, c, line) ==
    LET top == IF first /\ N.top = head THEN c ELSE N.top
    IN  [N EXCEPT !.line[c] = line, !.top = top,
                  !.cursor = IF @ # Null THEN @ ELSE IF line >= 0 THEN c ELSE top]

NumberedFrom(L, c) == IF L.line[c] >= 0 THEN Renumber(L, c, L.line[c]) ELSE L

Back(L) == [Touched(L, {L.top}) EXCEPT !.top = NodePrev(L, @)]

ScrolledFor(L, c) ==
    IF L.line[c] = Above THEN ScrolledUp(FromTop(Back(L))) ELSE L

SlistAdd(L, N, siblings, first, c) ==
    LET head == IF siblings = <<>> THEN Null ELSE siblings[1]
        P == Placed(N, head, first, c, LineFor(L, N, siblings, first, c))
    IN  CursorOnScreen(ScrolledFor(NumberedFrom(P, c), c))

AddedGroup(L, g, order) ==
    LET N == [L EXCEPT !.cells = Inserted(@, g, order)]
    IN  SlistAdd(L, N, L.cells, N.cells[1] = g, g)

AddedMember(L, c, g, order) ==
    LET N == [L EXCEPT !.kids[g] = Inserted(@, c, order)]
    IN  SlistAdd(L, N, L.kids[g], N.kids[g][1] = c, c)

(* mutant of DelChildren: the pointer to the first cell shown stays        *)
DelChildrenNotTop(L, g) ==
    LET up(p) == IF p \in Range(L.kids[g]) THEN g ELSE p
    IN  [L EXCEPT !.kids[g] = <<>>, !.collapsed = @ \cup {g},
                  !.top = IF @ \in Range(L.kids[g]) THEN Freed ELSE @,
                  !.bot = up(@), !.cursor = up(@),
                  !.line = [c \in Cells |-> IF c \in Range(L.kids[g]) THEN 0 ELSE @[c]]]

(* slist_del_children: what pointed at a child points at its parent.       *)
DelChildren(L, g) ==
    LET up(p) == IF p \in Range(L.kids[g]) THEN g ELSE p
    IN  [L EXCEPT !.kids[g] = <<>>, !.collapsed = @ \cup {g},
                  !.top = up(@), !.bot = up(@), !.cursor = up(@),
                  !.line = [c \in Cells |-> IF c \in Range(L.kids[g]) THEN 0 ELSE @[c]]]

Collapsed(L, g) == FromTop(DelChildren(L, g))

(* slist_del.                                                              *)
Unlinked(L, c) ==
    [L EXCEPT !.cells = Remove(@, c),
              !.kids = [g \in Groups |-> Remove(@[g], c)],
              !.collapsed = @ \ {c},
              !.top = IF @ = c THEN Freed ELSE @,
              !.bot = IF @ = c THEN Freed ELSE @,
              !.cursor = IF @ = c THEN Freed ELSE @,
              !.line[c] = 0]

Instead(L, p, c) ==
    IF p # c THEN p
    ELSE IF NodeNext(L, c) # Null THEN NodeNext(L, c) ELSE NodePrev(L, c)

Stepped(L, c) == [L EXCEPT !.top = Instead(L, @, c), !.cursor = Instead(L, @, c)]

(* The first line shown goes off the screen.                               *)
PushedOff(L, next) ==
    [L EXCEPT !.line[L.top] = Above, !.top = next,
              !.cursor = IF @ = L.top THEN next ELSE @]

PulledUp(L, c) ==
    LET next == NodeNext(L, L.top)
    IN  IF L.line[c] = Above /\ next # Null THEN ScrolledDown(PushedOff(L, next)) ELSE L

CursorBack(L) ==
    IF L.cursor = Null THEN [L EXCEPT !.cursor = L.top] ELSE CursorOnScreen(L)

Childless(L, c) ==
    IF c \in Groups /\ L.kids[c] # <<>> THEN DelChildren(L, c) ELSE L

SlistDel(L, c) ==
    CursorBack(FromTop(Unlinked(PulledUp(Stepped(Childless(L, c), c), c), c)))

-----------------------------------------------------------------------------
(* The cursor and the size.                                                *)

(* slist_cursor_up and slist_cursor_down, to a line that may be off the    *)
(* screen.                                                                 *)
BotOff(L) ==
    IF L.bot \in Cells /\ L.line[L.bot] = LastRow(L)
    THEN [L EXCEPT !.line[L.bot] = Below]
    ELSE Touched(L, {L.bot} \ Cells)

UpTo(L, prev) ==
    IF prev = Null THEN L
    ELSE IF L.line[prev] >= 0 THEN [L EXCEPT !.cursor = prev]
    ELSE ScrolledUp(FromTop(BotOff(Back([L EXCEPT !.cursor = prev]))))

DownTo(L, next) ==
    IF next = Null THEN L
    ELSE IF L.line[next] >= 0 THEN [L EXCEPT !.cursor = next]
    ELSE [ScrolledDown(FromTop(PushedOff(Touched(L, {L.top}), NodeNext(L, L.top))))
             EXCEPT !.cursor = next]

CursorUp(L)   == UpTo(L, NodePrev(L, L.cursor))
CursorDown(L) == DownTo(L, NodeNext(L, L.cursor))

Times(f(_), L, n) == FoldLeft(LAMBDA M, i : f(M), L, [i \in 1 .. n |-> i])

Resized(L, rows) == CursorBack(Drawn(FromTop([L EXCEPT !.rows = rows])))

-----------------------------------------------------------------------------
(* The state as a record: the operations of pork_buddy.c call each other.  *)

Now == [hash |-> hash, group_list |-> group_list, refnums |-> refnums,
        listed |-> listed, num_online |-> num_online, has_line |-> has_line,
        slist |-> slist]

Becomes(S) ==
    /\ hash' = S.hash /\ group_list' = S.group_list
    /\ refnums' = S.refnums /\ listed' = S.listed
    /\ num_online' = S.num_online /\ has_line' = S.has_line
    /\ slist' = Drawn(S.slist) /\ UNCHANGED world

Running == slist.harm = "none"

Harmed(S, place) ==
    IF S.slist.harm = "none" THEN [S EXCEPT !.slist.harm = place] ELSE S

member_list(S, g) == SelectSeq(S.refnums[g], LAMBDA n : n \in S.listed)

Counted(S, g, d) == IF g = Gone THEN S ELSE [S EXCEPT !.num_online[g] = @ + d]

(* A group that was removed has no line: the cell becomes one of the top   *)
(* level, and then the line of the group is dereferenced.                  *)
blist_add(S, n) ==
    LET g == S.hash[n].group
    IN  IF g = Gone THEN Harmed(S, "no group")
        ELSE IF g \in S.slist.collapsed THEN S
        ELSE [S EXCEPT !.slist = AddedMember(@, n, g, S.refnums[g]),
                       !.has_line = @ \cup {n}]

blist_del(S, n) ==
    IF n \notin S.has_line THEN S
    ELSE [S EXCEPT !.slist = SlistDel(@, n), !.has_line = @ \ {n}]

buddy_online(S, n) ==
    blist_add(Counted([S EXCEPT !.hash[n].online = TRUE], S.hash[n].group, 1), n)

buddy_offline(S, n) ==
    blist_del(Counted([S EXCEPT !.hash[n].online = FALSE], S.hash[n].group, -1), n)

(* Out of the hash goes whoever has the name that the buddy is called by.  *)
(* If that is a member still listed, or one that has a cell, these keep    *)
(* its address: the model ends there.                                      *)
buddy_hash_remove(S, n) ==
    LET R == [S EXCEPT !.hash = [m \in DOMAIN @ \ {n} |-> @[m]],
                       !.listed = @ \ {n},
                       !.refnums = [g \in Groups |-> Remove(@[g], n)]]
    IN  IF n \notin DOMAIN S.hash THEN S
        ELSE IF n \in S.listed \cup S.has_line THEN Harmed(R, "member freed")
        ELSE R

buddy_remove(S, n) ==
    LET T == IF S.hash[n].online THEN buddy_offline(S, n) ELSE S
    IN  IF n \notin DOMAIN S.hash \/ n \notin S.listed THEN S
        ELSE buddy_hash_remove([T EXCEPT !.listed = @ \ {n}], S.hash[n].name)

buddy_add(S, n, g) ==
    IF n \in DOMAIN S.hash THEN S
    ELSE [S EXCEPT !.hash = @ @@ (n :> [name |-> n, group |-> g, online |-> FALSE]),
                   !.refnums[g] = Append(@, n),
                   !.listed = @ \cup {n}]

group_add(S, g) ==
    IF g \in Range(S.group_list) THEN S
    ELSE LET order == Append(S.group_list, g)
         IN  [S EXCEPT !.group_list = order,
                       !.slist = AddedGroup(@, g, order),
                       !.has_line = @ \cup {g}]

(* group_remove walks the members, next saved before each is removed by    *)
(* the name it is called by.                                               *)
RECURSIVE RemoveMembers(_, _, _)
GoesOn(S, g, next) ==
    IF S.slist.harm # "none" \/ next = Null THEN S
    ELSE IF next \notin S.listed THEN Harmed(S, "next freed")
    ELSE RemoveMembers(S, g, next)
RemoveMembers(S, g, n) ==
    LET M == member_list(S, g)
    IN  GoesOn(buddy_remove(S, S.hash[n].name), g,
               IF n = Last(M) THEN Null ELSE M[CHOOSE i \in 2 .. Len(M) : M[i - 1] = n])

Ungrouped(S, g) ==
    [S EXCEPT !.group_list = Remove(@, g),
              !.has_line = @ \ ({g} \cup Range(S.slist.kids[g])),
              !.slist = SlistDel(@, g),
              !.hash = [n \in DOMAIN @ |->
                          IF @[n].group = g THEN [@[n] EXCEPT !.group = Gone] ELSE @[n]],
              !.refnums[g] = <<>>,
              !.num_online[g] = 0]

group_remove(S, g) ==
    LET M == member_list(S, g)
    IN  Ungrouped(IF M = <<>> THEN S ELSE RemoveMembers(S, g, M[1]), g)

(* A buddy is read after it may have been freed.                           *)
ReadOf(S, n, place) == IF n \in DOMAIN S.hash THEN S ELSE Harmed(S, place)

buddy_alias(S, n, alias) == [S EXCEPT !.hash[n].name = alias]

-----------------------------------------------------------------------------
(* Commands and scripts.                                                   *)

AddGroup(g) ==
    /\ Running /\ g \notin Range(group_list)
    /\ Becomes(group_add(Now, g))

AddBuddy(n, g) ==
    /\ Running /\ n \notin DOMAIN hash /\ g \in Range(group_list)
    /\ Becomes(buddy_add(Now, n, g))

Alias(n, alias) ==
    /\ Running /\ n \in DOMAIN hash
    /\ Becomes(buddy_alias(Now, n, alias))

RemoveBuddy(n) ==
    /\ Running /\ n \in DOMAIN hash
    /\ Becomes(buddy_remove(Now, n))

RemoveGroup(g) ==
    /\ Running /\ g \in Range(group_list)
    /\ Becomes(group_remove(Now, g))

(* cmd_blist_remove: the name in its message is that of the buddy which    *)
(* buddy_remove has freed.                                                 *)
RemoveAtCursor ==
    /\ Running /\ slist.cursor \in Names
    /\ Becomes(ReadOf(buddy_remove(Now, slist.cursor), slist.cursor, "cmd_blist_remove"))

(* blist_collapse_group: opened again, a group gets a line for every       *)
(* listed member that is online.                                           *)
Collapse(g) ==
    LET open == SelectSeq(member_list(Now, g), LAMBDA n : hash[n].online)
    IN  /\ Running /\ g \in Range(group_list)
        /\ Becomes(IF g \in slist.collapsed
                   THEN FoldLeft(blist_add, [Now EXCEPT !.slist.collapsed = @ \ {g}], open)
                   ELSE [Now EXCEPT !.slist = Collapsed(@, g),
                                    !.has_line = @ \ Range(slist.kids[g])])

-----------------------------------------------------------------------------
(* The server: an item of the stored list, sign-on and sign-off.           *)

ServerItem(n, g, alias) ==
    /\ Running
    /\ LET T == IF n \in DOMAIN hash THEN Now
                ELSE buddy_add(group_add(Now, g), n, g)
       IN  Becomes(IF alias = Null THEN T ELSE buddy_alias(T, n, alias))

(* A handler of the event may remove the buddy.  Its name is then used for *)
(* a message, if somebody is to be told.                                   *)
Handled(S, n, removes, told) ==
    LET T == IF removes THEN buddy_remove(S, n) ELSE S
    IN  IF told THEN ReadOf(T, n, "name") ELSE T

Offgoing(n, removes, told) ==
    /\ Running /\ n \in DOMAIN hash /\ hash[n].online
    /\ Becomes(Handled(buddy_offline(Now, n), n, removes, told))

Oncoming(n, removes, told) ==
    /\ Running /\ n \in DOMAIN hash /\ ~hash[n].online
    /\ Becomes(Handled(buddy_online(Now, n), n, removes, told))

(* A buddy that is online goes away, comes back or falls idle, and is      *)
(* updated after the event.                                                *)
OncomingAgain(n, removes) ==
    /\ Running /\ n \in DOMAIN hash /\ hash[n].online
    /\ Becomes(ReadOf(Handled(Now, n, removes, FALSE), n, "buddy_update"))

-----------------------------------------------------------------------------
(* The screen and the keys.                                                *)

Moves(L) == Becomes([Now EXCEPT !.slist = L]) /\ Running

Up       == Moves(CursorUp(slist))
Down     == Moves(CursorDown(slist))
Start    == Moves(Times(CursorUp, slist, Cardinality(Cells)))
End      == Moves(Times(CursorDown, slist, Cardinality(Cells)))
PageUp   == Moves(Times(CursorUp, slist, LastRow(slist)))
PageDown == Moves(Times(CursorDown, slist, LastRow(slist)))

Resize(rows) == rows # slist.rows /\ Moves(Resized(slist, rows))

(* The border is drawn with the widget: slist_clear_bot follows bot.       *)
Refresh ==
    Becomes([Now EXCEPT !.slist.harm = IF slist.bot = Freed THEN "slist_clear_bot" ELSE @])
    /\ Running

-----------------------------------------------------------------------------
Init ==
    /\ hash = <<>> /\ group_list = <<>> /\ listed = {} /\ has_line = {}
    /\ world \in Worlds
    /\ refnums = [g \in Groups |-> <<>>]
    /\ num_online = [g \in Groups |-> 0]
    /\ \E r \in Heights :
         slist = [cells |-> <<>>, kids |-> [g \in Groups |-> <<>>], collapsed |-> {},
                  line |-> [c \in Cells |-> 0], top |-> Null, bot |-> Null,
                  cursor |-> Null, rows |-> r, harm |-> "none"]

Next ==
    \/ \E g \in Groups : AddGroup(g) \/ RemoveGroup(g) \/ Collapse(g)
    \/ \E n \in world.names : RemoveBuddy(n) \/ \E g \in Groups : AddBuddy(n, g)
    \/ \E n \in world.names, g \in Groups : \E m \in {n} \cup world.aliased :
          Alias(n, m) \/ \E alias \in {m, Null} : ServerItem(n, g, alias)
    \/ \E n \in world.names, removes \in {FALSE, Scripts}, told \in BOOLEAN :
          Offgoing(n, removes, told) \/ Oncoming(n, removes, told)
    \/ \E n \in world.names, removes \in {FALSE, Scripts} : OncomingAgain(n, removes)
    \/ RemoveAtCursor \/ Refresh
    \/ Up \/ Down \/ Start \/ End \/ PageUp \/ PageDown
    \/ \E r \in Heights : Resize(r)

Spec == Init /\ [][Next]_vars

-----------------------------------------------------------------------------
(* Properties.                                                             *)

(* The shape of the state.                                                 *)
TypeOK ==
    /\ DOMAIN hash \subseteq Names /\ \A n \in DOMAIN hash : hash[n] \in Buddy
    /\ group_list \in Seq(Groups) /\ listed \subseteq DOMAIN hash /\ world \in Worlds
    /\ num_online \in [Groups -> Int] /\ has_line \subseteq Cells
    /\ {slist.top, slist.bot, slist.cursor} \subseteq Cells \cup {Null, Freed}

(* A buddy that was removed under another name is still in the hash.       *)
Strays == DOMAIN hash \ listed

(* What the list should have for a group: a line, and under it those of    *)
(* the members that are online, unless it is collapsed.                    *)
Wanted(g) ==
    <<g>> \o (IF g \in slist.collapsed THEN <<>>
             ELSE SelectSeq(member_list(Now, g), LAMBDA n : hash[n].online))

(* The list shows the groups in their order, each with the members that    *)
(* are online; buddies and groups point at a line exactly if they have     *)
(* one; and a group counts the members that are online.                    *)
ListShowsOnline ==
    Running /\ Strays = {} =>
        /\ Flat(slist) = FlattenSeq([i \in DOMAIN group_list |-> Wanted(group_list[i])])
        /\ has_line = Shown(slist)
        /\ \A g \in Groups : num_online[g] =
             Cardinality({n \in DOMAIN hash : hash[n].group = g /\ hash[n].online})

(* However cells come and go, the lines on the screen are a run of the     *)
(* list: what is before top is above, top is on the first row, the rows    *)
(* follow without a gap to bot, and the rest is below.  The cursor is on   *)
(* one of them.  And the list is the one that is wanted.                   *)
ScreenFollows ==
    LET F == Flat(slist)
        p == Pos(F, slist.top)
        q == Pos(F, slist.bot)
    IN  /\ ListShowsOnline
        /\ Running /\ F # <<>> =>
          /\ {slist.top, slist.bot} \subseteq Range(F)
          /\ \A i \in DOMAIN F : slist.line[F[i]] = IF i < p THEN Above
                                                     ELSE IF i > q THEN Below
                                                     ELSE FirstRow + i - p
          /\ q = Len(F) \/ FirstRow + q - p = LastRow(slist)
          /\ slist.cursor \in {F[i] : i \in p .. q}

(* A key that removes the buddy under the cursor removes the one that the  *)
(* user chose: what others do moves the cursor only off a line that is     *)
(* gone or that has left the screen.  (A buddy that a script removes as it *)
(* signs on may push a line off the screen and let it come back.)          *)
CursorStays ==
    [][\/ slist'.cursor = slist.cursor
       \/ Up \/ Down \/ Start \/ End \/ PageUp \/ PageDown
       \/ ~Running'
       \/ slist.cursor \notin Shown(slist')
       \/ slist'.line[slist.cursor] < 0
       \/ listed \ (listed' \cup has_line) # {}]_vars

(* The pointers that are misused are these: bot after the list was         *)
(* emptied, what a command or an event reads of a buddy after its removal, *)
(* and what follows from a buddy that goes by the name of another.         *)
KnownHarm ==
    \/ slist.harm \in {"none", "cmd_blist_remove", "name", "buddy_update"}
    \/ slist.harm = "slist_clear_bot" /\ slist.cells = <<>>
    \/ slist.harm \in {"no group", "member freed", "next freed", "freed"} /\ world.aliased # {}

(* The screen follows the list until a pointer is misused in one of the    *)
(* known ways (pork_slist.c, pork_buddy.c): the two.                       *)
ListSound == ScreenFollows /\ KnownHarm
=============================================================================
