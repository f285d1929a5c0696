------------------------------ MODULE Viewport ------------------------------
(***************************************************************************)
(* What a window with a scroll buffer is for its user (doc/help/scroll and *)
(* doc/help/win): so many lines of text, of which some are above the       *)
(* screen, some on it, and some below.  Text is added at the end; a window *)
(* that is at its end stays there, one that is scrolled up does not move.  *)
(***************************************************************************)
EXTENDS Integers

CONSTANT MaxScroll    \* lines that are ever scrolled at once

VARIABLES rows,       \* the height of the screen
          above, shown, below,
          lost        \* nothing is promised any more

viewVars == <<rows, above, shown, below, lost>>

Least(m, n) == IF m <= n THEN m ELSE n
Most(m, n)  == IF m <= n THEN n ELSE m

Lines == above + shown + below

Same == rows' = rows /\ lost' = lost

(* The lines of a text are shown from line a on, as far as there is room.  *)
ShowsFrom(a, lines) ==
    /\ above' = a
    /\ shown' = Least(rows', lines - a)
    /\ below' = lines - a - shown'

Init == above = 0 /\ shown = 0 /\ below = 0 /\ lost = FALSE /\ rows \in Nat \ {0}

(* More lines come: a screen that is scrolled up does not move, one that   *)
(* is at its end shows them below the others until it is full.  Lines that *)
(* are above the screen may be forgotten then.                             *)
Hold   == Same /\ below > 0 /\ above' = above /\ shown' = shown /\ below' > below
Follow == Same /\ below' = 0 /\ (shown' = rows \/ (shown' > shown /\ above' <= above))

(* "A negative number will cause the display to be scroll up."  What fits  *)
(* on the screen as a whole cannot be scrolled.                            *)
ScrollBy(n) ==
    /\ Same /\ Lines > rows
    /\ IF n < 0 THEN above > 0 /\ ShowsFrom(Most(0, above + n), Lines)
       ELSE below > 0 /\ ShowsFrom(above + Least(n, below), Lines)

ScrollStart == Same /\ ShowsFrom(0, Lines)
ScrollEnd   == Same /\ below > 0 /\ ShowsFrom(Most(0, Lines - rows), Lines)

(* "The text ... can be recovered by scrolling up."                        *)
Clear == Same /\ above' = Lines /\ shown' = 0 /\ below' = 0
Erase == Same /\ above' = 0 /\ shown' = 0 /\ below' = 0

(* A new size shows the end; lines broken in another way keep their place. *)
Full   == shown' \in 0 .. rows' /\ (below' > 0 => shown' = rows')
Resize == lost' = lost /\ rows' \in Nat \ {0} /\ Full /\ below' = 0
Rewrap == Same /\ Full /\ (above = 0 \/ Lines' = Lines => above' = above)

Lost == lost' = TRUE

Next == \/ Hold \/ Follow \/ ScrollStart \/ ScrollEnd \/ Clear \/ Erase
        \/ Resize \/ Rewrap \/ Lost
        \/ \E n \in -MaxScroll .. MaxScroll : ScrollBy(n)

Spec == Init /\ [][Next]_viewVars
=============================================================================
