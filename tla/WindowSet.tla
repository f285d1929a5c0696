------------------------------ MODULE WindowSet ------------------------------
(***************************************************************************)
(* What the window commands of pork promise (doc/help/win): a set of open  *)
(* windows, each with a reference number of its own, one of which is the   *)
(* current one.  Nothing is said of lists, pointers, owners or flags: the  *)
(* modules WindowRing (the circular list of pork_screen.c) and PorkScreen  *)
(* (windows, accounts and focus) are shown to implement this one.          *)
(***************************************************************************)
EXTENDS Integers

CONSTANTS Windows,    \* the windows that may ever exist
          MaxRefnum   \* the largest value of a u_int32_t refnum

VARIABLES num,        \* the reference number of every open window
          cur         \* the current window

winVars == <<num, cur>>

Open == DOMAIN num
Used == {num[w] : w \in Open}

(* The number given to a new window: the lowest free one from 1 up, or 0   *)
(* when all of them are taken.                                             *)
IsNewRefnum(used, n) ==
    \/ n \in 1 .. (MaxRefnum - 1) /\ n \notin used /\ 1 .. (n - 1) \subseteq used
    \/ n = 0 /\ 1 .. (MaxRefnum - 1) \subseteq used

Init == \E w \in Windows : num = [v \in {w} |-> 1] /\ cur = w

NewWindow(w) ==
    /\ w \in Windows \ Open
    /\ \E n \in 0 .. MaxRefnum :
          /\ IsNewRefnum(Used, n)
          /\ num' = [v \in Open \cup {w} |-> IF v = w THEN n ELSE num[v]]
    /\ cur' = cur

(* "Close the current window": some other open window takes its place.     *)
CloseWindow(w) ==
    /\ w \in Open
    /\ num' = [v \in Open \ {w} |-> num[v]]
    /\ cur' \in Open \ {w}
    /\ w # cur => cur' = cur

(* "If the reference number that is requested is currently in use, the     *)
(* window that has that reference number and the current window will have  *)
(* their reference numbers swapped."                                       *)
Renumber(w, n) ==
    /\ w \in Open
    /\ num' = [v \in Open |-> IF v = w THEN n
                              ELSE IF num[v] = n THEN num[w]
                              ELSE num[v]]
    /\ cur' = cur

Switch == cur' \in Open /\ num' = num

(* A new window, or one that exists, brought to the front by one command.  *)
NewAndSwitch(w) ==
    /\ w \in Windows \ Open
    /\ \E n \in 0 .. MaxRefnum :
          /\ IsNewRefnum(Used, n)
          /\ num' = [v \in Open \cup {w} |-> IF v = w THEN n ELSE num[v]]
    /\ cur' = w

(* The program ends: every window is destroyed.                            *)
Quit == num' = [v \in {} |-> 0] /\ cur' = cur

Next ==
    \/ \E w \in Windows : NewWindow(w) \/ NewAndSwitch(w) \/ CloseWindow(w)
    \/ \E w \in Windows, n \in 0 .. MaxRefnum : Renumber(w, n)
    \/ Switch
    \/ Quit

Spec == Init /\ [][Next]_winVars
=============================================================================
