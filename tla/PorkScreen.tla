------------------------------ MODULE PorkScreen -----------------------------
(***************************************************************************)
(* The windows of pork and the accounts that own them: pork_screen.c,      *)
(* pork_imwindow.c, and the parts of pork_acct.c that hand windows from    *)
(* one account to another.                                                 *)
(*                                                                         *)
(* Every window belongs to one account, which counts its windows in        *)
(* ref_count; an account that goes away leaves its windows to null_acct,   *)
(* and its struct is freed only when the count has dropped to zero.  One   *)
(* window is current; the others are reached by number or by cycling.      *)
(*                                                                         *)
(* Abstracted: the order of window_list is the order of the numbers (the   *)
(* pointers are in WindowRing), text, sizes and logs are left out, and the *)
(* preference SHOW_BLIST and the activity flags are inputs.                *)
(***************************************************************************)
EXTENDS Integers, FiniteSets, Sequences, SequencesExt

CONSTANTS Windows,      \* addresses of struct imwindow; reused after free()
          StatusWin,    \* globals.status_win
          Accts,        \* the accounts a user may connect
          NullAcct,     \* globals.null_acct
          BlistAccts,   \* the accounts whose protocol has a buddy list
          NoAcct,       \* the NULL owner, seen only while the program exits
          Targets,      \* names of the peers and the rooms windows are for
          Skippable,    \* the windows on which "win skip" is ever used
          MaxRefnum     \* the largest u_int32_t refnum

ASSUME WindowsAssumption ==
    /\ IsFiniteSet(Windows)
    /\ StatusWin \in Windows
    /\ MaxRefnum \in Nat
    /\ Cardinality(Windows) < MaxRefnum
ASSUME AcctsAssumption ==
    /\ BlistAccts \subseteq Accts
    /\ NullAcct \notin Accts
    /\ NoAcct \notin Accts \cup {NullAcct}

VARIABLES
    win,         \* the open windows: a function from Windows to WinRec
    cur_window,  \* globals.cur_window
    acct_list,   \* globals.acct_list, the newest account first
    ref_count,   \* acct->ref_count
    alive,       \* the account structs that are allocated
    phase        \* "running", "exiting" (inside pork_exit) or "done"

vars     == <<win, cur_window, acct_list, ref_count, alive, phase>>
acctVars == <<acct_list, ref_count, alive, phase>>

AllAccts == Accts \cup {NullAcct}
Refnums  == 0 .. MaxRefnum

WinRec == [num    : Refnums,
           type   : {"status", "privmsg", "chat"},
           owner  : AllAccts \cup {NoAcct},
           target : Targets \cup {"status"},
           skip   : BOOLEAN,
           visible: BOOLEAN,             \* swindow.visible
           blist  : BOOLEAN,             \* blist_visible
           focus  : {"main", "buddy"},   \* input_focus
           binds  : {"main", "buddy"}]   \* active_binds

OpenWins     == DOMAIN win
Listed       == Range(acct_list)
OwnedBy(W, a) == {w \in DOMAIN W : W[w].owner = a}
UsedRefnums  == {win[w].num : w \in OpenWins}

(* A step of the program that dereferences cur_window() can be taken.  The *)
(* main loop does so each time round, so nothing happens after it dangles. *)
Running == phase = "running" /\ cur_window \in OpenWins

-----------------------------------------------------------------------------
(* Records: what the functions on one window do to it.                     *)

NewWin(n, ty, a, t, show) ==
    [num |-> n, type |-> ty, owner |-> a, target |-> t, skip |-> FALSE,
     visible |-> FALSE, blist |-> show /\ a \in BlistAccts,
     focus |-> "main", binds |-> "main"]

Hidden(r) == IF r.blist
             THEN [r EXCEPT !.blist = FALSE, !.focus = "main", !.binds = "main"]
             ELSE r

Shown(r) == IF r.owner \in BlistAccts THEN [r EXCEPT !.blist = TRUE] ELSE r

SwitchedFocus(r) ==
    IF ~r.blist THEN r
    ELSE IF r.focus = "main" THEN [r EXCEPT !.focus = "buddy", !.binds = "buddy"]
    ELSE [r EXCEPT !.focus = "main", !.binds = "main"]

BoundKeepsBlist(r, a) == [r EXCEPT !.owner = a]     \* mutant of Bound

(* imwindow_bind_acct once its checks are passed: a buddy list that is     *)
(* shown is hidden when the new owner has none.                            *)
Bound(r, a) == IF a \in BlistAccts THEN [r EXCEPT !.owner = a]
               ELSE [Hidden(r) EXCEPT !.owner = a]

SwappedKeepsOld(W, old, new) == [W EXCEPT ![new].visible = TRUE]  \* mutant

(* screen_window_swap: clear the old current window's flag, set the new's. *)
Swapped(W, old, new) == [W EXCEPT ![old].visible = FALSE, ![new].visible = TRUE]

RenumberedOnly(W, w, n) == [W EXCEPT ![w].num = n]   \* mutant of Renumbered

(* screen_renumber: the window that has the number takes the old one.      *)
Renumbered(W, w, n) ==
    [v \in DOMAIN W |-> IF v = w THEN [W[v] EXCEPT !.num = n]
                        ELSE IF W[v].num = n THEN [W[v] EXCEPT !.num = W[w].num]
                        ELSE W[v]]

-----------------------------------------------------------------------------
(* Reference counts: a window is created, destroyed or bound elsewhere.    *)

RefForgotten(C, a) == C       \* mutant of Ref

Ref(C, a)   == [C EXCEPT ![a] = @ + 1]
Unref(C, a) == [C EXCEPT ![a] = @ - 1]

Moved(C, a, b) == Ref(Unref(C, a), b)

-----------------------------------------------------------------------------
(* The order of the circular list, and the window a cycle stops at.        *)

Gap(m, n) == IF n > m THEN n - m ELSE n - m + MaxRefnum + 1
Fwd(w, v) == Gap(win[w].num, win[v].num)
Bak(w, v) == Gap(win[v].num, win[w].num)

Unskipped == {w \in OpenWins : ~win[w].skip}

(* Walking from w in the direction whose distances are D, v is the first   *)
(* window in Stop; the walk ends at w itself when it meets none.           *)
StopsAt(w, v, Stop, D(_, _)) ==
    /\ v \in Stop \cup {w}
    /\ \A u \in Stop \cup {w} : D(w, v) <= D(w, u)

IsNewRefnum(used, n) ==
    \/ n \in 1 .. (MaxRefnum - 1) /\ n \notin used /\ 1 .. (n - 1) \subseteq used
    \/ n = 0 /\ 1 .. (MaxRefnum - 1) \subseteq used

Query(a, t) == {w \in OpenWins : win[w].owner = a /\ win[w].type = "privmsg"
                                  /\ win[w].target = t}
ChatWin(a, t) == {w \in OpenWins : win[w].owner = a /\ win[w].type = "chat"
                                    /\ win[w].target = t}
FirstOf(S, w) == w \in S /\ \A v \in S : win[w].num <= win[v].num

-----------------------------------------------------------------------------
Init ==
    /\ win = [w \in {StatusWin} |->
                 [NewWin(1, "status", NullAcct, "status", FALSE)
                    EXCEPT !.visible = TRUE]]
    /\ cur_window = StatusWin
    /\ acct_list = <<NullAcct>>
    /\ ref_count = [a \in AllAccts |-> IF a = NullAcct THEN 1 ELSE 0]
    /\ alive = {NullAcct}
    /\ phase = "running"

(* screen_new_window, screen_new_chat_window: imwindow_new gives the owner *)
(* a reference and the window goes into the list at its number.            *)
Created(w, ty, a, t) ==
    /\ w \in Windows \ OpenWins
    /\ \E n \in Refnums, show \in BOOLEAN :
          /\ IsNewRefnum(UsedRefnums, n)
          /\ win' = [v \in OpenWins \cup {w} |->
                        IF v = w THEN NewWin(n, ty, a, t, show) ELSE win[v]]
    /\ ref_count' = Ref(ref_count, a)
    /\ UNCHANGED <<acct_list, alive, phase>>

CreatedCurrent(w, ty, a, t) ==
    /\ w \in Windows \ OpenWins
    /\ \E n \in Refnums, show \in BOOLEAN :
          /\ IsNewRefnum(UsedRefnums, n)
          /\ win' = Swapped([v \in OpenWins \cup {w} |->
                                IF v = w THEN NewWin(n, ty, a, t, show)
                                ELSE win[v]],
                            cur_window, w)
    /\ cur_window' = w
    /\ ref_count' = Ref(ref_count, a)
    /\ UNCHANGED <<acct_list, alive, phase>>

(* A message from or to t: screen_get_query_window with no window for t.   *)
GetQueryWindow(w, a, t) ==
    /\ Running
    /\ a \in Listed \ {NullAcct}
    /\ Query(a, t) = {}
    /\ Created(w, "privmsg", a, t)
    /\ UNCHANGED cur_window

(* The server put the account into a room.                                 *)
NewChatWindow(w, a, t) ==
    /\ Running
    /\ a \in Listed \ {NullAcct}
    /\ ChatWin(a, t) = {}
    /\ Created(w, "chat", a, t)
    /\ UNCHANGED cur_window

(* "/query t": screen_make_query_window, then screen_goto_window.          *)
CmdQueryNew(w, t) ==
    LET a == win[cur_window].owner
    IN  /\ Running
        /\ Query(a, t) = {}
        /\ CreatedCurrent(w, "privmsg", a, t)

(* "/chat join t": chat_join with no window for the room.                  *)
CmdJoinNew(w, t) ==
    LET a == win[cur_window].owner
    IN  /\ Running
        /\ a # NullAcct
        /\ ChatWin(a, t) = {}
        /\ CreatedCurrent(w, "chat", a, t)

SwapTo(w) ==
    /\ win' = Swapped(win, cur_window, w)
    /\ cur_window' = w
    /\ UNCHANGED acctVars

GotoWindow(w) == Running /\ w \in OpenWins /\ SwapTo(w)

(* The same two commands when the window is there: the first one in the    *)
(* list that fits.                                                         *)
CmdFindWindow(w, t) ==
    LET a == win[cur_window].owner
    IN  /\ Running
        /\ FirstOf(Query(a, t), w) \/ (a # NullAcct /\ FirstOf(ChatWin(a, t), w))
        /\ SwapTo(w)

CycleFwd(w) == Running /\ StopsAt(cur_window, w, Unskipped, Fwd) /\ SwapTo(w)
CycleBak(w) == Running /\ StopsAt(cur_window, w, Unskipped, Bak) /\ SwapTo(w)

(* The "active" cycles also stop at a skipped window that has activity;    *)
(* act is the set of windows whose swindow.activity is set.                *)
CycleFwdActive(w, act) ==
    /\ Running
    /\ act \subseteq OpenWins \ {cur_window}
    /\ StopsAt(cur_window, w, Unskipped \cup act, Fwd)
    /\ SwapTo(w)
CycleBakActive(w, act) ==
    /\ Running
    /\ act \subseteq OpenWins \ {cur_window}
    /\ StopsAt(cur_window, w, Unskipped \cup act, Bak)
    /\ SwapTo(w)

MayClose(w) == win[w].type # "status"

(* screen_close_window: a visible window is first cycled away from, then   *)
(* the node and the window are freed and the owner loses a reference.      *)
CloseWindow(w) ==
    /\ Running
    /\ w \in OpenWins
    /\ MayClose(w)
    /\ ref_count' = Unref(ref_count, win[w].owner)
    /\ \/ /\ win[w].visible
          /\ \E v \in OpenWins :
                /\ StopsAt(cur_window, v, Unskipped, Fwd)
                /\ cur_window' = v
                /\ win' = [x \in OpenWins \ {w} |-> Swapped(win, cur_window, v)[x]]
       \/ /\ ~win[w].visible
          /\ cur_window' = cur_window
          /\ win' = [x \in OpenWins \ {w} |-> win[x]]
    /\ UNCHANGED <<acct_list, alive, phase>>

Renumber(w, n) ==
    /\ Running
    /\ w \in OpenWins
    /\ win' = Renumbered(win, w, n)
    /\ UNCHANGED <<cur_window, acctVars>>

Update(w, r) ==
    /\ win' = [win EXCEPT ![w] = r]
    /\ UNCHANGED <<cur_window, acctVars>>

SetSkip(w, b) ==
    /\ Running
    /\ w \in OpenWins \cap Skippable
    /\ Update(w, [win[w] EXCEPT !.skip = b])

BlistShow(w) == Running /\ w \in OpenWins /\ Update(w, Shown(win[w]))
BlistHide(w) == Running /\ w \in OpenWins /\ Update(w, Hidden(win[w]))

SwitchFocus == Running /\ Update(cur_window, SwitchedFocus(win[cur_window]))

Toggled(r)  == IF r.blist THEN Hidden(r) ELSE Shown(r)
ToggleFocus == Running /\ Update(cur_window, SwitchedFocus(Toggled(win[cur_window])))

(* screen_resize: the lists that have become too wide (those of the        *)
(* accounts in A) are taken off the screen; input_focus stays as it was.   *)
Resize(A) ==
    /\ Running
    /\ win' = [w \in OpenWins |->
                  IF win[w].blist /\ win[w].owner \in A
                  THEN [win[w] EXCEPT !.blist = FALSE, !.binds = "main"]
                  ELSE win[w]]
    /\ UNCHANGED <<cur_window, acctVars>>

(* imwindow_bind_acct: a chat window may change hands only when it belongs *)
(* to nobody.                                                              *)
MayBind(w) == ~(win[w].type = "chat" /\ win[w].owner # NullAcct)

BindAcct(w, a) ==
    /\ Running
    /\ w \in OpenWins
    /\ MayBind(w)
    /\ a \in Listed
    /\ a # win[w].owner
    /\ win' = [win EXCEPT ![w] = Bound(@, a)]
    /\ ref_count' = Moved(ref_count, win[w].owner, a)
    /\ UNCHANGED <<cur_window, acct_list, alive, phase>>

(* pork_acct_next_refnum: the account after a in the circular list, the    *)
(* null account passed over.  There is none when the list is <<a>>.        *)
NextAcct(list, a, b) ==
    \E i, j \in 1 .. Len(list) :
       /\ Len(list) > 1 /\ list[i] = a /\ list[j] = b /\ b # NullAcct
       /\ LET steps(k) == IF k > i THEN k - i ELSE k - i + Len(list)
          IN  \A k \in 1 .. Len(list) : list[k] # NullAcct => steps(j) <= steps(k)

BindNextAcct(w, a) ==
    /\ Running
    /\ w = cur_window
    /\ NextAcct(acct_list, win[w].owner, a)
    /\ BindAcct(w, a)

-----------------------------------------------------------------------------
(* Accounts.                                                               *)

(* pork_acct_connect up to the call of proto->connect: the account heads   *)
(* the list and gets every window that has no account; pref is the set of  *)
(* windows whose SHOW_BLIST is on.  When proto->connect fails the handler  *)
(* deletes the account again, and the windows are back where they were.    *)
AcctConnect(a, pref) ==
    /\ Running
    /\ a \in Accts \ alive
    /\ acct_list' = <<a>> \o acct_list
    /\ alive' = alive \cup {a}
    /\ win' = [w \in OpenWins |->
                  IF win[w].owner # NullAcct THEN win[w]
                  ELSE IF w \in pref THEN Shown(Bound(win[w], a))
                  ELSE Bound(win[w], a)]
    /\ LET n == Cardinality(OwnedBy(win, NullAcct))
       IN  ref_count' = [ref_count EXCEPT ![a] = n, ![NullAcct] = @ - n]
    /\ UNCHANGED <<cur_window, phase>>

(* The loop of pork_acct_del: a's windows go to the account heir, or to    *)
(* nobody when it is the null account that is deleted.                     *)
Disowned(W, a, heir) ==
    [w \in DOMAIN W |-> IF W[w].owner = a
                        THEN [Hidden(W[w]) EXCEPT !.owner = heir] ELSE W[w]]

(* mutant of Counted: the heir is not credited *)
CountedNoHeir(a, heir) ==
    [b \in AllAccts |-> IF b = a THEN ref_count[b] - Cardinality(OwnedBy(win, a))
                        ELSE ref_count[b]]

Counted(a, heir) ==
    LET n == Cardinality(OwnedBy(win, a))
    IN  [b \in AllAccts |-> IF b = a THEN ref_count[b] - n
                            ELSE IF b = heir THEN ref_count[b] + n
                            ELSE ref_count[b]]

Unlisted(a) ==
    \E i \in 1 .. Len(acct_list) :
       acct_list[i] = a /\ acct_list' = RemoveAt(acct_list, i)

(* pork_acct_free runs only when no reference is left.                     *)
Freed(a) == alive' = IF ref_count'[a] = 0 THEN alive \ {a} ELSE alive

(* pork_acct_del after the network dropped the account or gave up on it.   *)
AcctDel(a) ==
    /\ Running
    /\ a \in Listed \ {NullAcct}
    /\ Unlisted(a)
    /\ win' = Disowned(win, a, NullAcct)
    /\ ref_count' = Counted(a, NullAcct)
    /\ Freed(a)
    /\ UNCHANGED <<cur_window, phase>>

(* "/disconnect": the same, and a status window left without an account is *)
(* given the next one.                                                     *)
CmdDisconnect(a) ==
    /\ Running
    /\ win[cur_window].owner # NullAcct
    /\ a \in Listed \ {NullAcct}
    /\ Unlisted(a)
    /\ LET W == Disowned(win, a, NullAcct)
           C == Counted(a, NullAcct)
           rebind(b) == W[StatusWin].owner = NullAcct
                        /\ NextAcct(acct_list', NullAcct, b)
       IN \/ \E b \in Accts :
                /\ rebind(b)
                /\ win' = [W EXCEPT ![StatusWin] = Bound(@, b)]
                /\ ref_count' = Moved(C, NullAcct, b)
          \/ /\ \A b \in Accts : ~rebind(b)
             /\ win' = W
             /\ ref_count' = C
    /\ Freed(a)
    /\ UNCHANGED <<cur_window, phase>>

(* pork_exit: pork_acct_del_all deletes the accounts from the head of the  *)
(* list to the null account at its tail, then screen_destroy.              *)
Exit ==
    /\ Running
    /\ phase' = "exiting"
    /\ UNCHANGED <<win, cur_window, acct_list, ref_count, alive>>

ExitDelAcct ==
    /\ phase = "exiting"
    /\ acct_list # <<>>
    /\ LET a    == Head(acct_list)
           heir == IF a = NullAcct THEN NoAcct ELSE NullAcct
       IN  /\ win' = Disowned(win, a, heir)
           /\ ref_count' = Counted(a, heir)
           /\ Freed(a)
    /\ acct_list' = Tail(acct_list)
    /\ UNCHANGED <<cur_window, phase>>

ScreenDestroy ==
    /\ phase = "exiting"
    /\ acct_list = <<>>
    /\ win' = [w \in {} |-> win[w]]
    /\ ref_count' = [a \in AllAccts |-> ref_count[a] - Cardinality(OwnedBy(win, a))]
    /\ phase' = "done"
    /\ UNCHANGED <<cur_window, acct_list, alive>>

Next ==
    \/ \E w \in Windows, a \in Accts, t \in Targets :
          GetQueryWindow(w, a, t) \/ NewChatWindow(w, a, t)
    \/ \E w \in Windows, t \in Targets :
          CmdQueryNew(w, t) \/ CmdJoinNew(w, t) \/ CmdFindWindow(w, t)
    \/ \E w \in Windows :
          \/ GotoWindow(w) \/ CycleFwd(w) \/ CycleBak(w) \/ CloseWindow(w)
          \/ BlistShow(w) \/ BlistHide(w)
    \/ \E w \in Windows, b \in BOOLEAN : SetSkip(w, b)
    \/ \E w \in Windows, act \in SUBSET Windows :
          CycleFwdActive(w, act) \/ CycleBakActive(w, act)
    \/ \E w \in Windows, n \in Refnums : Renumber(w, n)
    \/ \E w \in Windows, a \in AllAccts : BindAcct(w, a)
    \/ \E w \in Windows, a \in Accts : BindNextAcct(w, a)
    \/ SwitchFocus \/ ToggleFocus
    \/ \E A \in SUBSET BlistAccts : Resize(A)
    \/ \E a \in Accts, pref \in SUBSET Windows : AcctConnect(a, pref)
    \/ \E a \in Accts : AcctDel(a) \/ CmdDisconnect(a)
    \/ Exit \/ ExitDelAcct \/ ScreenDestroy

Spec == Init /\ [][Next]_vars

-----------------------------------------------------------------------------
(* Every variable has its type; the windows and the list hold what the     *)
(* structs of pork_imwindow.h and pork_acct.h can hold.                    *)
TypeOK ==
    /\ OpenWins \subseteq Windows
    /\ win \in [OpenWins -> WinRec]
    /\ cur_window \in Windows
    /\ acct_list \in Seq(AllAccts)
    /\ ref_count \in [AllAccts -> Nat]
    /\ alive \subseteq AllAccts
    /\ phase \in {"running", "exiting", "done"}

(* An account's ref_count is the number of windows it owns, whatever was   *)
(* opened, closed, rebound or inherited (pork_imwindow.c:72, 233, 364-366, *)
(* pork_acct.c:174-180).                                                   *)
RefCountExact ==
    \A a \in AllAccts : ref_count[a] = Cardinality(OwnedBy(win, a))

(* No window points at an account that was freed or has left the list, and *)
(* a NULL owner is seen only while the program exits.                      *)
OwnersListed ==
    \A w \in OpenWins : \/ win[w].owner \in Listed
                        \/ win[w].owner = NoAcct /\ phase = "exiting"

(* "This must always be the case." (pork_acct.c:188): whenever an account  *)
(* is taken off the list its reference count is zero, so that it is freed. *)
UnlistedFreed == alive = Listed

(* No two windows have one number: screen_find_refnum gives the window the *)
(* user named, and screen_close_window unlinks the node it was asked for.  *)
RefnumsDistinct ==
    \A v, w \in OpenWins : win[v].num = win[w].num => v = w

(* The flag on which screen_close_window decides to cycle away is set on   *)
(* the current window and on no other.                                     *)
VisibleIsCurrent ==
    phase # "done" => \A w \in OpenWins : win[w].visible <=> w = cur_window

(* After "win close" the current window is one of the open windows.        *)
CurrentIsOpen == phase # "done" => cur_window \in OpenWins

(* A buddy list is shown only where there is one, and its keys are active  *)
(* only in a window that shows it: imwindow_blist_refresh, screen_resize   *)
(* and the commands behind the keys follow owner->blist unchecked.         *)
BlistSound ==
    \A w \in OpenWins : /\ win[w].blist => win[w].owner \in BlistAccts
                        /\ win[w].binds = "buddy" => win[w].blist

(* Windows and accounts agree: counts, owners and buddy lists are those of *)
(* accounts that are there, whatever is opened, bound, inherited, closed.  *)
OwnersAgree == RefCountExact /\ OwnersListed /\ BlistSound

(* The windows and their numbers behave as doc/help/win promises.          *)
Promise == INSTANCE WindowSet WITH num <- [w \in OpenWins |-> win[w].num],
                                   cur <- cur_window
ImplementsWindowSet == Promise!Spec
=============================================================================
