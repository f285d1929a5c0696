----------------------------- MODULE WindowRing -----------------------------
(***************************************************************************)
(* The window list of pork_screen.c, pointer by pointer: a circular doubly *)
(* linked list that is meant to be sorted by refnum, with window_list at   *)
(* its lowest number.  A search stops at the first higher number, so every *)
(* operation depends on the order the others leave behind.                 *)
(*                                                                         *)
(* A node and its window are one thing here.  Searches and cycles walk the *)
(* pointers as the loops of the code do.                                   *)
(***************************************************************************)
EXTENDS Integers, FiniteSets, Sequences, SequencesExt

CONSTANTS Windows,    \* addresses of the nodes; reused after free()
          StatusWin,  \* the first window; it is never closed
          NULL,
          Skippable,  \* the windows on which "win skip" is ever used
          MaxRefnum

VARIABLES list,       \* [head, next, prev, num]: the pointers and the numbers
          nodes,      \* the nodes that are allocated
          skip,       \* the windows that are marked as skipped
          cur         \* globals.cur_window

vars == <<list, nodes, skip, cur>>

Refnums == 0 .. MaxRefnum

-----------------------------------------------------------------------------
(* The nodes a do-while loop visits that starts at n, follows ptr and ends *)
(* when it is back at n; the walk is cut when it meets a node twice.       *)
RECURSIVE Visit(_, _, _)
Visit(ptr, n, seen) ==
    IF ptr[n] = NULL \/ ptr[n] \in Range(seen) THEN seen
    ELSE Visit(ptr, ptr[n], Append(seen, ptr[n]))

Walk(ptr, n) == IF n = NULL THEN <<>> ELSE Visit(ptr, n, <<n>>)

Nodes(L) == Walk(L.next, L.head)

(* The first place in a sequence where Test holds, 0 when there is none.   *)
FirstAt(s, Test(_)) ==
    LET hits == {i \in 1 .. Len(s) : Test(s[i])}
    IN  IF hits = {} THEN 0 ELSE CHOOSE i \in hits : \A j \in hits : i <= j

(* mutant of Find: it gives up at the first number that is different *)
FindFirstOnly(L, n) ==
    IF L.head # NULL /\ L.num[L.head] = n THEN L.head ELSE NULL

(* screen_find_refnum: the search gives up at a higher number.             *)
Find(L, n) ==
    LET s == Nodes(L)
        i == FirstAt(s, LAMBDA w : L.num[w] >= n)
    IN  IF i # 0 /\ L.num[s[i]] = n THEN s[i] ELSE NULL

(* screen_get_new_refnum.                                                  *)
NewRefnum(L) ==
    LET free == {n \in 1 .. (MaxRefnum - 1) : Find(L, n) = NULL}
    IN  IF free = {} THEN 0 ELSE CHOOSE n \in free : \A m \in free : n <= m

(* mutant of Link: always before the head, and the head stays *)
LinkLast(L, n) ==
    IF L.head = NULL
    THEN [L EXCEPT !.head = n, !.next[n] = n, !.prev[n] = n]
    ELSE LET bef == L.prev[L.head]
         IN  [L EXCEPT !.next = [@ EXCEPT ![n] = L.head, ![bef] = n],
                       !.prev = [@ EXCEPT ![n] = bef, ![L.head] = n]]

(* screen_window_list_add: before the first node with a higher number, or  *)
(* before the head, which is the end of the circle.                        *)
Link(L, n) ==
    IF L.head = NULL
    THEN [L EXCEPT !.head = n, !.next[n] = n, !.prev[n] = n]
    ELSE LET s   == Nodes(L)
             i   == FirstAt(s, LAMBDA w : L.num[n] < L.num[w])
             at  == IF i = 0 THEN L.head ELSE s[i]
             bef == L.prev[at]
         IN  [L EXCEPT !.head = IF i = 1 THEN n ELSE @,
                       !.next = [@ EXCEPT ![n] = at, ![bef] = n],
                       !.prev = [@ EXCEPT ![n] = bef, ![at] = n]]

(* screen_window_list_remove; the node keeps its own pointers.             *)
Unlink(L, n) ==
    LET hd == IF n = L.head THEN L.next[n] ELSE L.head
    IN  [L EXCEPT !.head = IF n = hd THEN NULL ELSE hd,
                  !.next[L.prev[n]] = L.next[n],
                  !.prev[L.next[n]] = L.prev[n]]

FreeNode(L, n) == [L EXCEPT !.next[n] = NULL, !.prev[n] = NULL, !.num[n] = 0]

SetNum(L, w, n) == [L EXCEPT !.num[w] = n]

(* screen_renumber: take the node out, give it the number, and if another  *)
(* node has that number move it to the old one.  The test that the list is *)
(* not empty is made on the pointers of the node that was taken out.       *)
Renumbered(L, w, n) ==
    LET node  == Find(L, L.num[w])
        old   == L.num[w]
        L1    == SetNum(Unlink(L, node), w, n)
        other == node # L1.next[node] \/ L1.next[node] # L1.prev[node]
        temp  == IF other THEN Find(L1, n) ELSE NULL
        L2    == IF temp = NULL THEN L1
                 ELSE Link(SetNum(Unlink(L1, temp), temp, old), temp)
    IN  IF node = NULL THEN L ELSE Link(L2, node)

(* Where a cycle along ptr stops: the first window that is not skipped, or *)
(* the current one again.                                                  *)
CycleEnd(ptr) ==
    LET s == Append(Tail(Walk(ptr, cur)), cur)
    IN  s[FirstAt(s, LAMBDA w : w \notin skip \/ w = cur)]

-----------------------------------------------------------------------------
Unlinked == [w \in Windows |-> NULL]

Init ==
    /\ list = Link([head |-> NULL, next |-> Unlinked, prev |-> Unlinked,
                   num |-> [w \in Windows |-> IF w = StatusWin THEN 1 ELSE 0]],
                  StatusWin)
    /\ nodes = {StatusWin}
    /\ skip = {}
    /\ cur = StatusWin

(* The main loop dereferences the current window each time round.          *)
Running == cur \in nodes

WithNode(w) == /\ w \in Windows \ nodes
             /\ list' = Link(SetNum(list, w, NewRefnum(list)), w)
             /\ nodes' = nodes \cup {w}
             /\ skip' = skip

NewWindow(w)    == Running /\ WithNode(w) /\ cur' = cur
NewAndSwitch(w) == Running /\ WithNode(w) /\ cur' = Find(list', list'.num[w])

CloseWindow(w) ==
    /\ Running
    /\ w \in nodes \ {StatusWin}
    /\ LET node == Find(list, list.num[w])
       IN  /\ node # NULL
           /\ cur' = IF w = cur THEN CycleEnd(list.next) ELSE cur
           /\ list' = FreeNode(Unlink(list, node), node)
           /\ nodes' = nodes \ {node}
    /\ skip' = skip \ {w}

Renumber(w, n) ==
    /\ Running
    /\ w \in nodes
    /\ list' = Renumbered(list, w, n)
    /\ UNCHANGED <<nodes, skip, cur>>

GotoWindow(n) ==
    /\ Running
    /\ Find(list, n) # NULL
    /\ cur' = Find(list, n)
    /\ UNCHANGED <<list, nodes, skip>>

CycleFwd == /\ Running
            /\ cur' = CycleEnd(list.next)
            /\ UNCHANGED <<list, nodes, skip>>
CycleBak == /\ Running
            /\ cur' = CycleEnd(list.prev)
            /\ UNCHANGED <<list, nodes, skip>>

SetSkip(w) == /\ Running
              /\ w \in nodes \cap Skippable
              /\ skip' \in {skip \cup {w}, skip \ {w}}
              /\ UNCHANGED <<list, nodes, cur>>

Next ==
    \/ \E w \in Windows :
          NewWindow(w) \/ NewAndSwitch(w) \/ CloseWindow(w) \/ SetSkip(w)
    \/ \E w \in Windows, n \in Refnums : Renumber(w, n)
    \/ \E n \in Refnums : GotoWindow(n)
    \/ CycleFwd \/ CycleBak

Spec == Init /\ [][Next]_vars

-----------------------------------------------------------------------------
TypeOK ==
    /\ list \in [head : Windows \cup {NULL},
                 next : [Windows -> Windows \cup {NULL}],
                 prev : [Windows -> Windows \cup {NULL}],
                 num  : [Windows -> Refnums]]
    /\ nodes \in SUBSET Windows
    /\ skip \in SUBSET Windows
    /\ cur \in Windows

(* "The window list is a sorted circular doubly linked list. The           *)
(* window_list pointer points to the window having the lowest refnum."     *)
(* (pork_screen.c:94): walking from it meets every open window once, with  *)
(* rising numbers, and walking back meets them in the opposite order.      *)
SortedRing ==
    LET s == Nodes(list)
    IN  /\ Range(s) = nodes
        /\ \A i, j \in 1 .. Len(s) : i < j => list.num[s[i]] < list.num[s[j]]
        /\ \A w \in nodes : list.prev[list.next[w]] = w /\ list.next[list.prev[w]] = w

(* The pointers implement the windows and numbers that doc/help/win        *)
(* promises.                                                               *)
Promise == INSTANCE WindowSet WITH num <- [w \in nodes |-> list.num[w]]
ImplementsWindowSet == Promise!Spec
=============================================================================
