----------------------------- MODULE MCWidgets ------------------------------
(* The two widgets for TLC, in one run: the list of buddies (Buddies) and  *)
(* the window with a scroll buffer (Scrollback).  In a behaviour one of    *)
(* the two is in use and the other stays as it began.                      *)
(*                                                                         *)
(* There are three buddies in two groups, or two of whom one may go by the *)
(* name of the other; texts have one line or more than the screen has.     *)
EXTENDS Buddies

CONSTANTS a, b, c, friends, work

ABC == {a, b, c}
GH  == {friends, work}

TwoWorlds == {[names |-> ABC, aliased |-> {}], [names |-> {a, b}, aliased |-> {b}]}

VARIABLES part, buf, view, screen, opts, past, extent

x == 1

Scroll == INSTANCE Scrollback WITH
              Texts <- {<<x>>, <<x, x, 0, x, x, x, x>>}, Note <- <<x>>,
              Sizes <- {<<2, 2>>, <<3, 3>>}, Conts <- {TRUE}, MaxLens <- {1}, MaxMsgs <- 3, Word <- 64

scrollVars == <<buf, view, screen, opts, past, extent>>

L(A) == part = "list" /\ A /\ UNCHANGED <<part, scrollVars>>
W(A) == part = "window" /\ A /\ UNCHANGED <<part, vars>>

MCInit ==
    /\ part \in {"list", "window"}
    /\ Init /\ Scroll!Init
    /\ part = "window" => slist.rows = 3 /\ world.aliased = {}
    /\ part = "list" => view.rows = 2 /\ ~opts.wrap /\ ~opts.follow

(* Next of the one or of the other.                                        *)
MCNext ==
    \/ \E g \in Groups : L(AddGroup(g)) \/ L(RemoveGroup(g)) \/ L(Collapse(g))
    \/ \E n \in world.names : L(RemoveBuddy(n)) \/ \E g \in Groups : L(AddBuddy(n, g))
    \/ \E n \in world.names, g \in Groups : \E m \in {n} \cup world.aliased :
          L(Alias(n, m)) \/ \E alias \in {m, Null} : L(ServerItem(n, g, alias))
    \/ \E n \in world.names, removes \in {FALSE, Scripts}, told \in BOOLEAN :
          L(Offgoing(n, removes, told)) \/ L(Oncoming(n, removes, told))
    \/ \E n \in world.names, removes \in {FALSE, Scripts} : L(OncomingAgain(n, removes))
    \/ L(RemoveAtCursor) \/ L(Refresh)
    \/ L(Up) \/ L(Down) \/ L(Start) \/ L(End) \/ L(PageUp) \/ L(PageDown)
    \/ \E r \in Heights : L(Resize(r))
    \/ \E t \in {<<x>>, <<x, x, 0, x, x, x, x>>} : W(Scroll!Add(t))
    \/ \E m, n \in 1 .. Len(buf) + 1 : W(Scroll!Find(m .. n))
    \/ \E n \in {1, -1, view.rows, -view.rows} : W(Scroll!ScrollBy(n))
    \/ W(Scroll!ScrollToStart) \/ W(Scroll!ScrollToEnd) \/ W(Scroll!Redraw)
    \/ W(Scroll!swindow_clear) \/ W(Scroll!swindow_erase)
    \/ \E wrap \in BOOLEAN : W(Scroll!swindow_set_wordwrap(wrap, TRUE))
    \/ \E size \in {<<2, 2>>, <<3, 3>>} : W(Scroll!imwindow_resize(size))
    \/ W(Scroll!SetScrollbufLen(1))

MCSpec == MCInit /\ [][MCNext]_<<part, vars, scrollVars>>

(* What is on the screen is what the pointers say (pork_swindow.c).        *)
ScreenAgrees == Scroll!ScreenAgrees

(* The window scrolls, follows and holds as doc/help/scroll says.          *)
ImplementsViewport == Scroll!ImplementsViewport
=============================================================================
