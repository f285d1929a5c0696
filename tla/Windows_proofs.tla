--------------------------- MODULE Windows_proofs ---------------------------
(***************************************************************************)
(* Theorems of PorkScreen, for any number of windows, accounts and peers,  *)
(* and of InputLine, for any size of the buffer, of the screen and of the  *)
(* history, any commands to complete and any strings to insert.            *)
(***************************************************************************)
EXTENDS PorkScreen, InputLine, FiniteSetTheorems, SequenceTheorems,
        WellFoundedInduction, TLAPS

Owners == AllAccts \cup {NoAcct}

(* What holds of every window on its own: the record has its type and the  *)
(* buddy list's flag, owner and keys agree.                                *)
GoodRec(r) == /\ r \in WinRec
              /\ r.blist => r.owner \in BlistAccts
              /\ r.binds = "buddy" => r.blist

(* W is a function with domain D.                                          *)
IsOn(W, D) == W = [w \in D |-> W[w]]

GoodWin(W) == /\ IsOn(W, DOMAIN W)
              /\ DOMAIN W \subseteq Windows
              /\ \A w \in DOMAIN W : GoodRec(W[w])

-----------------------------------------------------------------------------
(* The operations on one window keep its record good, and those of the     *)
(* buddy list and of ownership leave number, type and visibility alone.    *)

LEMMA NewWinGood ==
    ASSUME NEW n \in Refnums, NEW ty \in {"status", "privmsg", "chat"},
           NEW a \in Owners, NEW t \in Targets \cup {"status"},
           NEW show \in BOOLEAN
    PROVE  GoodRec(NewWin(n, ty, a, t, show))
BY DEF NewWin, GoodRec, WinRec, Owners

SameWindow(r, s) == s.num = r.num /\ s.type = r.type /\ s.visible = r.visible

LEMMA HiddenGood ==
    ASSUME NEW r, GoodRec(r)
    PROVE  /\ GoodRec(Hidden(r)) /\ SameWindow(r, Hidden(r))
           /\ ~Hidden(r).blist
           /\ Hidden(r).owner = r.owner
           /\ Hidden(r).binds = "main"
BY DEF Hidden, GoodRec, WinRec, SameWindow

LEMMA ShownGood ==
    ASSUME NEW r, GoodRec(r)
    PROVE  /\ GoodRec(Shown(r)) /\ SameWindow(r, Shown(r))
           /\ Shown(r).owner = r.owner
BY DEF Shown, GoodRec, WinRec, SameWindow

LEMMA SwitchedFocusGood ==
    ASSUME NEW r, GoodRec(r)
    PROVE  /\ GoodRec(SwitchedFocus(r)) /\ SameWindow(r, SwitchedFocus(r))
           /\ SwitchedFocus(r).owner = r.owner
BY DEF SwitchedFocus, GoodRec, WinRec, SameWindow

LEMMA NewOwnerGood ==
    ASSUME NEW h, GoodRec(h), ~h.blist, h.binds = "main", NEW a \in Owners
    PROVE  /\ GoodRec([h EXCEPT !.owner = a])
           /\ SameWindow(h, [h EXCEPT !.owner = a])
           /\ [h EXCEPT !.owner = a].owner = a
BY DEF GoodRec, WinRec, SameWindow, Owners

LEMMA DisownedRecGood ==
    ASSUME NEW r, GoodRec(r), NEW a \in Owners
    PROVE  /\ GoodRec([Hidden(r) EXCEPT !.owner = a])
           /\ SameWindow(r, [Hidden(r) EXCEPT !.owner = a])
           /\ [Hidden(r) EXCEPT !.owner = a].owner = a
<1>1. /\ GoodRec(Hidden(r)) /\ SameWindow(r, Hidden(r))
      /\ ~Hidden(r).blist /\ Hidden(r).binds = "main"
  BY HiddenGood
<1>2. /\ GoodRec([Hidden(r) EXCEPT !.owner = a])
      /\ SameWindow(Hidden(r), [Hidden(r) EXCEPT !.owner = a])
      /\ [Hidden(r) EXCEPT !.owner = a].owner = a
  BY <1>1, NewOwnerGood
<1> QED BY <1>1, <1>2 DEF SameWindow

LEMMA BoundGood ==
    ASSUME NEW r, GoodRec(r), NEW a \in Owners
    PROVE  /\ GoodRec(Bound(r, a)) /\ SameWindow(r, Bound(r, a))
           /\ Bound(r, a).owner = a
<1>1. CASE a \in BlistAccts
  BY <1>1 DEF Bound, GoodRec, WinRec, SameWindow, Owners
<1>2. CASE a \notin BlistAccts
  BY <1>2, DisownedRecGood DEF Bound
<1> QED BY <1>1, <1>2

LEMMA ToggledGood ==
    ASSUME NEW r, GoodRec(r)
    PROVE  /\ GoodRec(SwitchedFocus(Toggled(r)))
           /\ SameWindow(r, SwitchedFocus(Toggled(r)))
           /\ SwitchedFocus(Toggled(r)).owner = r.owner
<1>1. GoodRec(Toggled(r)) /\ SameWindow(r, Toggled(r)) /\ Toggled(r).owner = r.owner
  BY HiddenGood, ShownGood DEF Toggled
<1>2. /\ GoodRec(SwitchedFocus(Toggled(r)))
      /\ SameWindow(Toggled(r), SwitchedFocus(Toggled(r)))
      /\ SwitchedFocus(Toggled(r)).owner = Toggled(r).owner
  BY <1>1, SwitchedFocusGood
<1> QED BY <1>1, <1>2 DEF SameWindow

-----------------------------------------------------------------------------
(* Whatever the action, a step does one of seven things to the windows.    *)

Opened(w, n, ty, a, t, show) ==
    [v \in OpenWins \cup {w} |-> IF v = w THEN NewWin(n, ty, a, t, show) ELSE win[v]]

(* A window is opened; it becomes the current one if sw holds.             *)
Opens(w, sw) ==
    /\ Running /\ w \in Windows \ OpenWins /\ phase' = phase
    /\ \E n \in Refnums, ty \in {"privmsg", "chat"}, a \in Owners, t \in Targets,
          show \in BOOLEAN :
          /\ IsNewRefnum(UsedRefnums, n)
          /\ win' = IF sw THEN Swapped(Opened(w, n, ty, a, t, show), cur_window, w)
                    ELSE Opened(w, n, ty, a, t, show)
    /\ cur_window' = IF sw THEN w ELSE cur_window

SwapsTo(w) ==
    /\ Running /\ w \in OpenWins /\ phase' = phase
    /\ win' = Swapped(win, cur_window, w)
    /\ cur_window' = w

Closes(w) ==
    /\ Running /\ w \in OpenWins /\ MayClose(w) /\ phase' = phase
    /\ \/ /\ win[w].visible
          /\ \E v \in OpenWins :
                /\ StopsAt(cur_window, v, Unskipped, Fwd)
                /\ cur_window' = v
                /\ win' = [x \in OpenWins \ {w} |-> Swapped(win, cur_window, v)[x]]
       \/ /\ ~win[w].visible
          /\ cur_window' = cur_window
          /\ win' = [x \in OpenWins \ {w} |-> win[x]]

Renumbers(w, n) ==
    /\ Running /\ w \in OpenWins /\ n \in Refnums /\ phase' = phase
    /\ win' = Renumbered(win, w, n)
    /\ cur_window' = cur_window

KeptWindow(r, s, w) == /\ GoodRec(s)
                       /\ SameWindow(r, s)
                       /\ s.skip = r.skip \/ w \in Skippable

(* Every window stays and keeps its number, type and visibility.           *)
Windowwise ==
    /\ IsOn(win', OpenWins)
    /\ \A w \in OpenWins : KeptWindow(win[w], win'[w], w)
    /\ cur_window' = cur_window
    /\ phase' = phase \/ (phase' = "exiting" /\ phase = "running")

Ends == /\ win' = [w \in {} |-> win[w]]
        /\ cur_window' = cur_window
        /\ phase' = "done"

Shape ==
    \/ \E w \in Windows : Opens(w, FALSE) \/ Opens(w, TRUE) \/ SwapsTo(w) \/ Closes(w)
    \/ \E w \in Windows, n \in Refnums : Renumbers(w, n)
    \/ Windowwise
    \/ Ends

LEMMA WindowwiseExcept ==
    ASSUME GoodWin(win), NEW w \in OpenWins, NEW r, win' = [win EXCEPT ![w] = r],
           KeptWindow(win[w], r, w), cur_window' = cur_window, phase' = phase
    PROVE  Windowwise
<1>1. win' = [v \in OpenWins |-> IF v = w THEN r ELSE win[v]]
  BY DEF GoodWin, OpenWins, IsOn
<1>2. IsOn(win', OpenWins)
  BY <1>1 DEF IsOn
<1>3. ASSUME NEW v \in OpenWins
      PROVE  KeptWindow(win[v], win'[v], v)
  <2>1. CASE v = w
    BY <1>1, <2>1
  <2>2. CASE v # w
    BY <1>1, <2>2 DEF GoodWin, OpenWins, SameWindow, KeptWindow
  <2> QED BY <2>1, <2>2
<1> QED BY <1>2, <1>3 DEF Windowwise

LEMMA SkipKept ==
    ASSUME NEW r, GoodRec(r), NEW a \in Owners
    PROVE  /\ Hidden(r).skip = r.skip
           /\ Shown(r).skip = r.skip
           /\ SwitchedFocus(r).skip = r.skip
           /\ Bound(r, a).skip = r.skip
BY DEF Hidden, Shown, SwitchedFocus, Bound, GoodRec, WinRec

LEMMA KeptIsTransitive ==
    ASSUME NEW r, NEW s, NEW u, NEW w, KeptWindow(r, s, w), KeptWindow(s, u, w)
    PROVE  KeptWindow(r, u, w)
BY DEF KeptWindow, SameWindow

LEMMA KeptIsReflexive == ASSUME NEW r, NEW w, GoodRec(r) PROVE KeptWindow(r, r, w)
BY DEF KeptWindow, SameWindow

LEMMA CreatedOpens ==
    ASSUME Running, NEW w, NEW ty \in {"privmsg", "chat"}, NEW a \in Owners,
           NEW t \in Targets, Created(w, ty, a, t), cur_window' = cur_window
    PROVE  Opens(w, FALSE)
BY DEF Created, Opens, Opened

LEMMA CreatedCurrentOpens ==
    ASSUME Running, NEW w, NEW ty \in {"privmsg", "chat"}, NEW a \in Owners,
           NEW t \in Targets, CreatedCurrent(w, ty, a, t)
    PROVE  Opens(w, TRUE)
BY DEF CreatedCurrent, Opens, Opened

LEMMA DisownedKept ==
    ASSUME GoodWin(win), NEW a, NEW heir \in Owners
    PROVE  /\ IsOn(Disowned(win, a, heir), OpenWins)
           /\ \A w \in OpenWins : KeptWindow(win[w], Disowned(win, a, heir)[w], w)
<1>1. IsOn(Disowned(win, a, heir), OpenWins)
  BY DEF Disowned, OpenWins, IsOn
<1>2. ASSUME NEW w \in OpenWins
      PROVE  KeptWindow(win[w], Disowned(win, a, heir)[w], w)
  <2>1. GoodRec(win[w])
    BY DEF GoodWin, OpenWins
  <2>2. CASE win[w].owner = a
    <3>1. Disowned(win, a, heir)[w] = [Hidden(win[w]) EXCEPT !.owner = heir]
      BY <2>2 DEF Disowned, OpenWins
    <3>2. GoodRec(Hidden(win[w]))
      BY <2>1, HiddenGood
    <3>3. [Hidden(win[w]) EXCEPT !.owner = heir].skip = Hidden(win[w]).skip
      BY <3>2 DEF GoodRec, WinRec
    <3>4. Hidden(win[w]).skip = win[w].skip
      BY <2>1, SkipKept DEF Owners, AllAccts
    <3> QED BY <2>1, <3>1, <3>3, <3>4, DisownedRecGood DEF KeptWindow
  <2>3. CASE win[w].owner # a
    BY <2>1, <2>3, KeptIsReflexive DEF Disowned, OpenWins
  <2> QED BY <2>2, <2>3
<1> QED BY <1>1, <1>2

LEMMA ReboundKept ==
    ASSUME NEW W, NEW D, IsOn(W, D), \A w \in D : GoodRec(W[w]), NEW b \in Owners,
           NEW x
    PROVE  /\ IsOn([W EXCEPT ![x] = Bound(@, b)], D)
           /\ \A w \in D : KeptWindow(W[w], [W EXCEPT ![x] = Bound(@, b)][w], w)
<1>1. [W EXCEPT ![x] = Bound(@, b)] =
        [w \in D |-> IF w = x THEN Bound(W[x], b) ELSE W[w]]
  BY DEF IsOn
<1>2. ASSUME NEW w \in D
      PROVE  KeptWindow(W[w], [W EXCEPT ![x] = Bound(@, b)][w], w)
  <2>1. CASE w = x
    <3>1. [W EXCEPT ![x] = Bound(@, b)][w] = Bound(W[w], b)
      BY <1>1, <2>1
    <3> QED BY <3>1, BoundGood, SkipKept DEF KeptWindow
  <2>2. CASE w # x
    BY <1>1, <2>2, KeptIsReflexive
  <2> QED BY <2>1, <2>2
<1> QED BY <1>1, <1>2 DEF IsOn

LEMMA AcctConnectWindowwise ==
    ASSUME GoodWin(win), NEW a \in Accts, NEW pref, AcctConnect(a, pref)
    PROVE  Windowwise
<1>1. IsOn(win', OpenWins) /\ cur_window' = cur_window /\ phase' = phase
  BY DEF AcctConnect, IsOn
<1>2. ASSUME NEW w \in OpenWins
      PROVE  KeptWindow(win[w], win'[w], w)
  <2>1. GoodRec(win[w]) /\ a \in Owners
    BY DEF GoodWin, OpenWins, Owners, AllAccts
  <2>2. KeptWindow(win[w], Bound(win[w], a), w)
    BY <2>1, BoundGood, SkipKept DEF KeptWindow
  <2>3. GoodRec(Bound(win[w], a))
    BY <2>2 DEF KeptWindow
  <2>4. KeptWindow(Bound(win[w], a), Shown(Bound(win[w], a)), w)
    BY <2>1, <2>3, ShownGood, SkipKept DEF KeptWindow
  <2>5. KeptWindow(win[w], Shown(Bound(win[w], a)), w)
    BY <2>2, <2>4, KeptIsTransitive
  <2>6. \/ win'[w] = win[w]
        \/ win'[w] = Bound(win[w], a)
        \/ win'[w] = Shown(Bound(win[w], a))
    BY DEF AcctConnect
  <2> QED BY <2>1, <2>2, <2>5, <2>6, KeptIsReflexive
<1> QED BY <1>1, <1>2 DEF Windowwise

LEMMA CmdDisconnectWindowwise ==
    ASSUME GoodWin(win), NEW a \in Accts, CmdDisconnect(a)
    PROVE  Windowwise
<1> DEFINE W == Disowned(win, a, NullAcct)
<1>1. cur_window' = cur_window /\ phase' = phase
  BY DEF CmdDisconnect
<1>2. IsOn(W, OpenWins) /\ \A w \in OpenWins : KeptWindow(win[w], W[w], w)
  BY DisownedKept DEF Owners, AllAccts
<1>3. CASE win' = W
  BY <1>1, <1>2, <1>3 DEF Windowwise
<1>4. ASSUME NEW b \in Accts, win' = [W EXCEPT ![StatusWin] = Bound(@, b)]
      PROVE  Windowwise
  <2>1. \A w \in OpenWins : GoodRec(W[w])
    BY <1>2 DEF KeptWindow
  <2>2. b \in Owners
    BY DEF Owners, AllAccts
  <2> HIDE DEF W
  <2>3. /\ IsOn(win', OpenWins)
        /\ \A w \in OpenWins : KeptWindow(W[w], win'[w], w)
    BY <1>2, <1>4, <2>1, <2>2, ReboundKept
  <2>4. ASSUME NEW w \in OpenWins PROVE KeptWindow(win[w], win'[w], w)
    BY <1>2, <2>3, KeptIsTransitive
  <2> QED BY <1>1, <2>3, <2>4 DEF Windowwise
<1>5. \/ win' = W
      \/ \E b \in Accts : win' = [W EXCEPT ![StatusWin] = Bound(@, b)]
  BY DEF CmdDisconnect
<1> QED BY <1>3, <1>4, <1>5

LEMMA ResizeWindowwise ==
    ASSUME GoodWin(win), NEW A, Resize(A)
    PROVE  Windowwise
<1>1. IsOn(win', OpenWins) /\ cur_window' = cur_window /\ phase' = phase
  BY DEF Resize, IsOn, acctVars
<1>2. ASSUME NEW w \in OpenWins
      PROVE  KeptWindow(win[w], win'[w], w)
  <2>1. GoodRec(win[w])
    BY DEF GoodWin, OpenWins
  <2>2. KeptWindow(win[w], [win[w] EXCEPT !.blist = FALSE, !.binds = "main"], w)
    BY <2>1 DEF KeptWindow, SameWindow, GoodRec, WinRec
  <2>3. \/ win'[w] = win[w]
        \/ win'[w] = [win[w] EXCEPT !.blist = FALSE, !.binds = "main"]
    BY DEF Resize
  <2> QED BY <2>1, <2>2, <2>3, KeptIsReflexive
<1> QED BY <1>1, <1>2 DEF Windowwise

LEMMA BindAcctWindowwise ==
    ASSUME GoodWin(win), NEW w \in Windows, NEW a \in AllAccts, BindAcct(w, a)
    PROVE  Windowwise
<1>1. GoodRec(win[w]) /\ a \in Owners /\ w \in OpenWins
  BY DEF BindAcct, GoodWin, OpenWins, Owners
<1>2. KeptWindow(win[w], Bound(win[w], a), w)
  BY <1>1, BoundGood, SkipKept DEF KeptWindow
<1>3. win' = [win EXCEPT ![w] = Bound(win[w], a)] /\ cur_window' = cur_window /\ phase' = phase
  BY <1>1 DEF BindAcct, GoodWin, OpenWins, IsOn
<1> QED BY <1>1, <1>2, <1>3, WindowwiseExcept

LEMMA UpdateWindowwise ==
    ASSUME GoodWin(win), NEW w \in OpenWins, NEW r, Update(w, r),
           KeptWindow(win[w], r, w)
    PROVE  Windowwise
BY WindowwiseExcept DEF Update, acctVars

(* The operations on the window w alone.                                   *)
LEMMA OneWindowWindowwise ==
    ASSUME GoodWin(win), NEW w \in Windows,
           \/ \E b \in BOOLEAN : SetSkip(w, b)
           \/ BlistShow(w) \/ BlistHide(w)
           \/ w = cur_window /\ (SwitchFocus \/ ToggleFocus)
    PROVE  Windowwise
<1>1. w \in OpenWins /\ GoodRec(win[w])
  BY DEF SetSkip, BlistShow, BlistHide, SwitchFocus, ToggleFocus, Running, GoodWin,
         OpenWins
<1>2. PICK r : Update(w, r) /\ KeptWindow(win[w], r, w)
  <2>1. ASSUME NEW b \in BOOLEAN, SetSkip(w, b)
        PROVE  KeptWindow(win[w], [win[w] EXCEPT !.skip = b], w)
    BY <1>1, <2>1 DEF SetSkip, KeptWindow, SameWindow, GoodRec, WinRec
  <2>2. KeptWindow(win[w], Shown(win[w]), w)
    BY <1>1, ShownGood, SkipKept DEF KeptWindow, Owners, AllAccts
  <2>3. KeptWindow(win[w], Hidden(win[w]), w)
    BY <1>1, HiddenGood, SkipKept DEF KeptWindow, Owners, AllAccts
  <2>4. KeptWindow(win[w], SwitchedFocus(win[w]), w)
    BY <1>1, SwitchedFocusGood, SkipKept DEF KeptWindow, Owners, AllAccts
  <2>5. KeptWindow(win[w], SwitchedFocus(Toggled(win[w])), w)
    <3>1. KeptWindow(win[w], Toggled(win[w]), w)
      BY <2>2, <2>3 DEF Toggled
    <3>2. GoodRec(Toggled(win[w]))
      BY <3>1 DEF KeptWindow
    <3>3. KeptWindow(Toggled(win[w]), SwitchedFocus(Toggled(win[w])), w)
      BY <3>2, SwitchedFocusGood, SkipKept DEF KeptWindow, Owners, AllAccts
    <3> QED BY <3>1, <3>3, KeptIsTransitive
  <2>6. \/ \E b \in BOOLEAN : SetSkip(w, b) /\ Update(w, [win[w] EXCEPT !.skip = b])
        \/ Update(w, Shown(win[w])) \/ Update(w, Hidden(win[w]))
        \/ Update(w, SwitchedFocus(win[w]))
        \/ Update(w, SwitchedFocus(Toggled(win[w])))
    BY Zenon DEF SetSkip, BlistShow, BlistHide, SwitchFocus, ToggleFocus
  <2> QED BY <2>1, <2>2, <2>3, <2>4, <2>5, <2>6
<1> QED BY <1>1, <1>2, UpdateWindowwise

(* Every step has one of the seven shapes.                                 *)
LEMMA ShapeOfStep ==
    ASSUME GoodWin(win), [Next]_vars
    PROVE  Shape
<1>1. AllAccts \subseteq Owners /\ Accts \subseteq AllAccts /\ NullAcct \in AllAccts
      /\ NoAcct \in Owners
  BY DEF Owners, AllAccts
<1>2. \A w \in OpenWins : GoodRec(win[w]) /\ win[w].owner \in Owners
  BY DEF GoodWin, OpenWins, GoodRec, WinRec, Owners
<1>3. OpenWins \subseteq Windows
  BY DEF GoodWin, OpenWins
<1>4. ASSUME NEW w \in Windows, NEW a \in Accts, NEW t \in Targets,
             GetQueryWindow(w, a, t) \/ NewChatWindow(w, a, t)
      PROVE  Opens(w, FALSE)
  <2>1. \E ty \in {"privmsg", "chat"} : Running /\ Created(w, ty, a, t) /\ cur_window' = cur_window
    BY <1>4 DEF GetQueryWindow, NewChatWindow
  <2> QED BY <1>1, <2>1, CreatedOpens
<1>5. ASSUME NEW w \in Windows, NEW t \in Targets,
             CmdQueryNew(w, t) \/ CmdJoinNew(w, t)
      PROVE  Opens(w, TRUE)
  <2>1. Running /\ \E ty \in {"privmsg", "chat"} : CreatedCurrent(w, ty, win[cur_window].owner, t)
    BY <1>5 DEF CmdQueryNew, CmdJoinNew
  <2>2. win[cur_window].owner \in Owners
    BY <1>2, <2>1 DEF Running
  <2> QED BY <2>1, <2>2, CreatedCurrentOpens
<1>6. ASSUME NEW w \in Windows, Running, w \in OpenWins, SwapTo(w)
      PROVE  SwapsTo(w)
  BY <1>6 DEF SwapsTo, SwapTo, acctVars
<1>7. ASSUME NEW w \in Windows, NEW t \in Targets, CmdFindWindow(w, t)
      PROVE  SwapsTo(w)
  BY <1>6, <1>7 DEF CmdFindWindow, FirstOf, Query, ChatWin
<1>9. ASSUME NEW w \in Windows, GotoWindow(w) \/ CycleFwd(w) \/ CycleBak(w)
      PROVE  SwapsTo(w)
  BY <1>6, <1>9 DEF GotoWindow, CycleFwd, CycleBak, StopsAt, Running, Unskipped
<1>10. ASSUME NEW w \in Windows, NEW act \in SUBSET Windows,
              CycleFwdActive(w, act) \/ CycleBakActive(w, act)
       PROVE  SwapsTo(w)
  BY <1>6, <1>10 DEF CycleFwdActive, CycleBakActive, StopsAt, Running, Unskipped
<1>11. ASSUME NEW w \in Windows, CloseWindow(w) PROVE Closes(w)
  BY <1>11 DEF CloseWindow, Closes
<1>12. ASSUME NEW w \in Windows, NEW n \in Refnums, Renumber(w, n) PROVE Renumbers(w, n)
  BY <1>12 DEF Renumber, Renumbers, acctVars
<1>13. ASSUME NEW w \in Windows, BlistShow(w) \/ BlistHide(w) \/ \E b \in BOOLEAN : SetSkip(w, b)
       PROVE  Windowwise
  BY <1>13, OneWindowWindowwise
<1>14. ASSUME SwitchFocus \/ ToggleFocus PROVE Windowwise
  BY <1>3, <1>14, OneWindowWindowwise DEF SwitchFocus, ToggleFocus, Running
<1>15. ASSUME NEW w \in Windows, NEW a \in AllAccts, BindAcct(w, a) \/ BindNextAcct(w, a)
       PROVE  Windowwise
  BY <1>15, BindAcctWindowwise DEF BindNextAcct
<1>16. ASSUME NEW A \in SUBSET BlistAccts, Resize(A) PROVE Windowwise
  BY <1>16, ResizeWindowwise
<1>17. ASSUME NEW a \in Accts, NEW pref \in SUBSET Windows, AcctConnect(a, pref)
       PROVE  Windowwise
  BY <1>17, AcctConnectWindowwise
<1>18. ASSUME NEW a \in Accts, AcctDel(a) \/ CmdDisconnect(a) PROVE Windowwise
  <2>1. CASE AcctDel(a)
    BY <1>1, <2>1, DisownedKept DEF AcctDel, Windowwise
  <2> QED BY <1>18, <2>1, CmdDisconnectWindowwise
<1>19. ASSUME Exit PROVE Windowwise
  BY <1>2, <1>19, KeptIsReflexive DEF Exit, Windowwise, GoodWin, OpenWins, Running
<1>20. ASSUME ExitDelAcct PROVE Windowwise
  <2> DEFINE heir == IF Head(acct_list) = NullAcct THEN NoAcct ELSE NullAcct
  <2>1. heir \in Owners /\ win' = Disowned(win, Head(acct_list), heir)
    BY <1>1, <1>20 DEF ExitDelAcct
  <2> HIDE DEF heir
  <2> QED BY <1>20, <2>1, DisownedKept DEF ExitDelAcct, Windowwise
<1>21. ASSUME ScreenDestroy PROVE Ends
  BY <1>21 DEF ScreenDestroy, Ends
<1>22. ASSUME UNCHANGED vars PROVE Windowwise
  BY <1>2, <1>22, KeptIsReflexive DEF vars, Windowwise, GoodWin, OpenWins
<1>23. CASE \E w \in Windows, a \in Accts, t \in Targets :
               GetQueryWindow(w, a, t) \/ NewChatWindow(w, a, t)
  BY <1>4, <1>23, Zenon DEF Shape
<1>24. CASE \E w \in Windows, t \in Targets :
               CmdQueryNew(w, t) \/ CmdJoinNew(w, t) \/ CmdFindWindow(w, t)
  BY <1>5, <1>7, <1>24, Zenon DEF Shape
<1>25. CASE \E w \in Windows :
               \/ GotoWindow(w) \/ CycleFwd(w) \/ CycleBak(w) \/ CloseWindow(w)
               \/ BlistShow(w) \/ BlistHide(w)
  BY <1>9, <1>11, <1>13, <1>25, Zenon DEF Shape
<1>26. CASE \E w \in Windows, b \in BOOLEAN : SetSkip(w, b)
  BY <1>13, <1>26, Zenon DEF Shape
<1>27. CASE \E w \in Windows, act \in SUBSET Windows :
               CycleFwdActive(w, act) \/ CycleBakActive(w, act)
  BY <1>10, <1>27, Zenon DEF Shape
<1>28. CASE \E w \in Windows, n \in Refnums : Renumber(w, n)
  BY <1>12, <1>28, Zenon DEF Shape
<1>29. CASE \/ \E w \in Windows, a \in AllAccts : BindAcct(w, a)
            \/ \E w \in Windows, a \in Accts : BindNextAcct(w, a)
  BY <1>1, <1>15, <1>29 DEF Shape
<1>30. CASE \/ \E A \in SUBSET BlistAccts : Resize(A)
            \/ \E a \in Accts, pref \in SUBSET Windows : AcctConnect(a, pref)
            \/ \E a \in Accts : AcctDel(a) \/ CmdDisconnect(a)
  BY <1>16, <1>17, <1>18, <1>30, Zenon DEF Shape
<1>31. CASE SwitchFocus \/ ToggleFocus \/ Exit \/ ExitDelAcct \/ UNCHANGED vars
  BY <1>14, <1>19, <1>20, <1>22, <1>31, Zenon DEF Shape
<1>32. CASE ScreenDestroy
  BY <1>21, <1>32, Zenon DEF Shape
<1> QED
  BY <1>23, <1>24, <1>25, <1>26, <1>27, <1>28, <1>29, <1>30, <1>31, <1>32, Zenon DEF Next

-----------------------------------------------------------------------------
(* The windows' part of the inductive invariant.                           *)

WinInv == /\ GoodWin(win)
          /\ cur_window \in Windows
          /\ phase \in {"running", "exiting", "done"}

LEMMA OpenedGood ==
    ASSUME GoodWin(win), NEW w \in Windows, NEW n \in Refnums,
           NEW ty \in {"privmsg", "chat"}, NEW a \in Owners, NEW t \in Targets,
           NEW show \in BOOLEAN
    PROVE  /\ GoodWin(Opened(w, n, ty, a, t, show))
           /\ DOMAIN Opened(w, n, ty, a, t, show) = OpenWins \cup {w}
<1>1. GoodRec(NewWin(n, ty, a, t, show))
  BY NewWinGood
<1> QED BY <1>1 DEF Opened, GoodWin, OpenWins, IsOn

LEMMA SwappedDomain ==
    ASSUME NEW W, NEW old, NEW new
    PROVE  DOMAIN Swapped(W, old, new) = DOMAIN W
BY DEF Swapped

LEMMA SwappedFields ==
    ASSUME NEW W, GoodWin(W), NEW old, NEW new, NEW w, w \in DOMAIN W
    PROVE  /\ GoodRec(Swapped(W, old, new)[w])
           /\ w = new => Swapped(W, old, new)[w].visible
           /\ w # new /\ w = old => ~Swapped(W, old, new)[w].visible
           /\ w # new /\ w # old => Swapped(W, old, new)[w].visible = W[w].visible
           /\ Swapped(W, old, new)[w].num = W[w].num
           /\ Swapped(W, old, new)[w].type = W[w].type
           /\ Swapped(W, old, new)[w].skip = W[w].skip
           /\ Swapped(W, old, new)[w].owner = W[w].owner
<1> DEFINE S == Swapped(W, old, new)
<1>1. S = [x \in DOMAIN W |-> IF x = new THEN [[W EXCEPT ![old].visible = FALSE][x]
                                                  EXCEPT !.visible = TRUE]
                              ELSE [W EXCEPT ![old].visible = FALSE][x]]
  BY DEF Swapped, GoodWin, IsOn
<1>2. [W EXCEPT ![old].visible = FALSE][w] =
        IF w = old THEN [W[w] EXCEPT !.visible = FALSE] ELSE W[w]
  BY DEF GoodWin, IsOn
<1>3. GoodRec(W[w])
  BY DEF GoodWin
<1>4. CASE w = new
  <2>1. S[w] = [[W EXCEPT ![old].visible = FALSE][w] EXCEPT !.visible = TRUE]
    BY <1>1, <1>4
  <2>2. CASE w = old
    <3>1. S[w] = [[W[w] EXCEPT !.visible = FALSE] EXCEPT !.visible = TRUE]
      BY <1>2, <2>1, <2>2
    <3> HIDE DEF S
    <3>2. /\ GoodRec(S[w]) /\ S[w].visible = TRUE /\ S[w].num = W[w].num
          /\ S[w].type = W[w].type /\ S[w].skip = W[w].skip
          /\ S[w].owner = W[w].owner
      BY <1>3, <3>1 DEF GoodRec, WinRec
    <3> QED BY <1>4, <3>2 DEF S
  <2>3. CASE w # old
    <3>1. S[w] = [W[w] EXCEPT !.visible = TRUE]
      BY <1>2, <2>1, <2>3
    <3> HIDE DEF S
    <3>2. /\ GoodRec(S[w]) /\ S[w].visible = TRUE /\ S[w].num = W[w].num
          /\ S[w].type = W[w].type /\ S[w].skip = W[w].skip
          /\ S[w].owner = W[w].owner
      BY <1>3, <3>1 DEF GoodRec, WinRec
    <3> QED BY <1>4, <3>2 DEF S
  <2> QED BY <2>2, <2>3
<1>5. CASE w # new
  <2>1. S[w] = IF w = old THEN [W[w] EXCEPT !.visible = FALSE] ELSE W[w]
    BY <1>1, <1>2, <1>5
  <2> HIDE DEF S
  <2>2. /\ GoodRec(S[w])
        /\ w = old => ~S[w].visible
        /\ w # old => S[w].visible = W[w].visible
        /\ S[w].num = W[w].num /\ S[w].type = W[w].type /\ S[w].skip = W[w].skip
        /\ S[w].owner = W[w].owner
    BY <1>3, <2>1 DEF GoodRec, WinRec
  <2> QED BY <1>5, <2>2 DEF S
<1> QED BY <1>4, <1>5

LEMMA SwappedGood ==
    ASSUME NEW W, GoodWin(W), NEW old, NEW new
    PROVE  GoodWin(Swapped(W, old, new))
<1> DEFINE S == Swapped(W, old, new)
<1>1. DOMAIN S = DOMAIN W
  BY SwappedDomain
<1>2. IsOn(S, DOMAIN S)
  BY DEF Swapped, IsOn
<1>3. \A w \in DOMAIN W : GoodRec(S[w])
  BY SwappedFields
<1> HIDE DEF S
<1>4. GoodWin(S)
  BY <1>1, <1>2, <1>3 DEF GoodWin
<1> QED BY <1>4 DEF S

LEMMA ClosedGood ==
    ASSUME NEW W, GoodWin(W), NEW w, DOMAIN W = OpenWins,
           win' = [x \in OpenWins \ {w} |-> W[x]]
    PROVE  GoodWin(win)'
BY DEF GoodWin, IsOn

LEMMA WinInvInit == Init => WinInv
<1> SUFFICES ASSUME Init PROVE WinInv
  OBVIOUS
<1> DEFINE r == NewWin(1, "status", NullAcct, "status", FALSE)
<1>1. GoodRec(r)
  <2>1. 1 \in Refnums
    <3>1. Cardinality(Windows) \in Nat
      BY FS_CardinalityType, WindowsAssumption
    <3> QED BY <3>1, WindowsAssumption DEF Refnums
  <2> QED BY <2>1, NewWinGood DEF Owners, AllAccts
<1>2. GoodRec([r EXCEPT !.visible = TRUE])
  <2> HIDE DEF r
  <2> QED BY <1>1 DEF GoodRec, WinRec
<1>3. win = [w \in {StatusWin} |-> [r EXCEPT !.visible = TRUE]]
  BY DEF Init
<1> HIDE DEF r
<1>4. GoodWin(win)
  BY <1>2, <1>3, WindowsAssumption DEF GoodWin, IsOn
<1> QED BY <1>4, WindowsAssumption DEF Init, WinInv

LEMMA WinInvStep == WinInv /\ [Next]_vars => WinInv'
<1> SUFFICES ASSUME WinInv, [Next]_vars PROVE WinInv'
  OBVIOUS
<1>1. GoodWin(win) /\ cur_window \in Windows /\ phase \in {"running", "exiting", "done"}
  BY DEF WinInv
<1>2. Shape
  BY <1>1, ShapeOfStep
<1>3. ASSUME NEW w \in Windows, NEW sw \in BOOLEAN, Opens(w, sw) PROVE WinInv'
  <2>1. PICK n \in Refnums, ty \in {"privmsg", "chat"}, a \in Owners, t \in Targets,
             show \in BOOLEAN :
          win' = IF sw THEN Swapped(Opened(w, n, ty, a, t, show), cur_window, w)
                 ELSE Opened(w, n, ty, a, t, show)
    BY <1>3 DEF Opens
  <2>2. GoodWin(win')
    BY <1>1, <2>1, OpenedGood, SwappedGood
  <2>3. cur_window' \in Windows /\ phase' = phase
    BY <1>1, <1>3 DEF Opens
  <2> QED BY <1>1, <2>2, <2>3 DEF WinInv
<1>4. ASSUME NEW w \in Windows, SwapsTo(w) PROVE WinInv'
  BY <1>1, <1>4, SwappedGood DEF SwapsTo, WinInv
<1>5. ASSUME NEW w \in Windows, Closes(w) PROVE WinInv'
  <2>1. CASE win[w].visible
    <3>1. PICK v \in OpenWins : /\ cur_window' = v
                                /\ win' = [x \in OpenWins \ {w} |->
                                             Swapped(win, cur_window, v)[x]]
      BY <1>5, <2>1 DEF Closes
    <3> DEFINE W == Swapped(win, cur_window, v)
    <3>2. GoodWin(W)
      BY <1>1, SwappedGood
    <3>3. GoodWin(win)'
      <4>1. win' = [x \in OpenWins \ {w} |-> W[x]]
        BY <3>1
      <4>2. DOMAIN W = OpenWins
        BY SwappedDomain DEF OpenWins
      <4> HIDE DEF W
      <4> QED BY <3>2, <4>1, <4>2, ClosedGood
    <3> QED BY <1>1, <1>5, <3>1, <3>3 DEF WinInv, Closes, GoodWin, OpenWins
  <2>2. CASE ~win[w].visible
    <3>1. win' = [x \in OpenWins \ {w} |-> win[x]] /\ cur_window' = cur_window
      BY <1>5, <2>2 DEF Closes
    <3>2. GoodWin(win)'
      BY <1>1, <3>1, ClosedGood DEF OpenWins
    <3> QED BY <1>1, <1>5, <3>1, <3>2 DEF WinInv, Closes
  <2> QED BY <2>1, <2>2
<1>6. ASSUME NEW w \in Windows, NEW n \in Refnums, Renumbers(w, n) PROVE WinInv'
  <2>1. win' = Renumbered(win, w, n) /\ cur_window' = cur_window /\ phase' = phase
    BY <1>6 DEF Renumbers
  <2>2. DOMAIN win' = OpenWins /\ IsOn(win', DOMAIN win')
    BY <2>1 DEF Renumbered, OpenWins, IsOn
  <2>3. ASSUME NEW v \in OpenWins PROVE GoodRec(win'[v])
    <3>1. GoodRec(win[v]) /\ GoodRec(win[w])
      BY <1>1, <1>6 DEF GoodWin, OpenWins, Renumbers
    <3>2. \/ win'[v] = [win[v] EXCEPT !.num = n]
          \/ win'[v] = [win[v] EXCEPT !.num = win[w].num]
          \/ win'[v] = win[v]
      BY <2>1 DEF Renumbered, OpenWins
    <3> QED BY <3>1, <3>2 DEF GoodRec, WinRec
  <2> QED BY <1>1, <2>1, <2>2, <2>3 DEF WinInv, GoodWin, OpenWins
<1>7. ASSUME Windowwise PROVE WinInv'
  <2>1. IsOn(win', OpenWins) /\ \A w \in OpenWins : GoodRec(win'[w])
    BY <1>7 DEF Windowwise, KeptWindow
  <2>2. DOMAIN win' = OpenWins
    BY <2>1 DEF IsOn
  <2>3. GoodWin(win')
    BY <1>1, <2>1, <2>2 DEF GoodWin, OpenWins
  <2> QED BY <1>1, <1>7, <2>3 DEF Windowwise, WinInv
<1>8. ASSUME Ends PROVE WinInv'
  BY <1>1, <1>8 DEF Ends, WinInv, GoodWin, IsOn
<1> QED BY <1>2, <1>3, <1>4, <1>5, <1>6, <1>7, <1>8 DEF Shape

THEOREM WindowsWellFormed == Spec => []WinInv
BY WinInvInit, WinInvStep, PTL DEF Spec

(* A buddy list is shown only in a window whose account has one, and its   *)
(* keys are active only where it is shown: imwindow_blist_refresh, the     *)
(* resize loop and the cmd_blist_* commands follow owner->blist unchecked. *)
THEOREM BlistSafe == Spec => []BlistSound
<1>1. WinInv => BlistSound
  BY DEF WinInv, GoodWin, GoodRec, BlistSound, OpenWins
<1> QED BY <1>1, WindowsWellFormed, PTL

-----------------------------------------------------------------------------
(* The visible flag.                                                       *)

LEMMA VisibleStep == WinInv /\ VisibleIsCurrent /\ [Next]_vars => VisibleIsCurrent'
<1> SUFFICES ASSUME WinInv, VisibleIsCurrent, [Next]_vars, phase' # "done"
             PROVE  \A x \in DOMAIN win' : win'[x].visible <=> x = cur_window'
  BY DEF VisibleIsCurrent, OpenWins
<1>1. GoodWin(win)
  BY DEF WinInv
<1>2. Shape
  BY <1>1, ShapeOfStep
<1>3. \A x \in OpenWins : win[x].visible \in BOOLEAN
  BY <1>1 DEF GoodWin, GoodRec, WinRec, OpenWins
<1>4. ASSUME phase # "done" PROVE \A x \in OpenWins : win[x].visible <=> x = cur_window
  BY <1>4 DEF VisibleIsCurrent
<1>5. ASSUME NEW w \in Windows, NEW sw \in BOOLEAN, Opens(w, sw)
      PROVE  \A x \in DOMAIN win' : win'[x].visible <=> x = cur_window'
  <2>1. PICK n \in Refnums, ty \in {"privmsg", "chat"}, a \in Owners, t \in Targets,
             show \in BOOLEAN :
          win' = IF sw THEN Swapped(Opened(w, n, ty, a, t, show), cur_window, w)
                 ELSE Opened(w, n, ty, a, t, show)
    BY <1>5 DEF Opens
  <2> DEFINE W == Opened(w, n, ty, a, t, show)
  <2>2. GoodWin(W)
    BY <1>1, OpenedGood
  <2>3. /\ DOMAIN W = OpenWins \cup {w}
        /\ \A x \in OpenWins : W[x].visible = win[x].visible
        /\ W[w].visible = FALSE
    BY <1>5 DEF Opened, NewWin, Opens
  <2>4. phase # "done" /\ cur_window' = IF sw THEN w ELSE cur_window
    BY <1>5 DEF Opens, Running
  <2>5. w \notin OpenWins /\ cur_window \in OpenWins
    BY <1>5 DEF Opens, Running
  <2>6. win' = IF sw THEN Swapped(W, cur_window, w) ELSE W
    BY <2>1
  <2>7. DOMAIN Swapped(W, cur_window, w) = DOMAIN W
    BY SwappedDomain
  <2>8. ASSUME NEW x \in DOMAIN W
        PROVE  /\ x = w => Swapped(W, cur_window, w)[x].visible
               /\ x # w /\ x = cur_window => ~Swapped(W, cur_window, w)[x].visible
               /\ x # w /\ x # cur_window =>
                     Swapped(W, cur_window, w)[x].visible = W[x].visible
    BY <2>2, SwappedFields
  <2> HIDE DEF W
  <2>9. CASE sw
    BY <1>4, <2>3, <2>4, <2>5, <2>6, <2>7, <2>8, <2>9
  <2>10. CASE ~sw
    BY <1>4, <2>3, <2>4, <2>5, <2>6, <2>10
  <2> QED BY <2>9, <2>10
<1>6. ASSUME NEW v, NEW x \in OpenWins, phase # "done"
      PROVE  Swapped(win, cur_window, v)[x].visible <=> x = v
  <2>1. /\ x = v => Swapped(win, cur_window, v)[x].visible
        /\ x # v /\ x = cur_window => ~Swapped(win, cur_window, v)[x].visible
        /\ x # v /\ x # cur_window =>
              Swapped(win, cur_window, v)[x].visible = win[x].visible
    BY <1>1, SwappedFields DEF OpenWins
  <2> QED BY <1>3, <1>4, <1>6, <2>1
<1>7. ASSUME NEW w \in Windows, SwapsTo(w)
      PROVE  \A x \in DOMAIN win' : win'[x].visible <=> x = cur_window'
  <2>1. DOMAIN win' = OpenWins /\ cur_window' = w /\ phase # "done"
        /\ win' = Swapped(win, cur_window, w)
    BY <1>7, SwappedDomain DEF SwapsTo, Running, OpenWins
  <2> QED BY <1>6, <2>1
<1>8. ASSUME NEW w \in Windows, Closes(w)
      PROVE  \A x \in DOMAIN win' : win'[x].visible <=> x = cur_window'
  <2>1. phase # "done"
    BY <1>8 DEF Closes, Running
  <2>2. CASE win[w].visible
    <3>1. PICK v \in OpenWins : /\ cur_window' = v
                                /\ win' = [x \in OpenWins \ {w} |->
                                             Swapped(win, cur_window, v)[x]]
      BY <1>8, <2>2 DEF Closes
    <3> QED BY <1>6, <2>1, <3>1
  <2>3. CASE ~win[w].visible
    <3>1. win' = [x \in OpenWins \ {w} |-> win[x]] /\ cur_window' = cur_window
      BY <1>8, <2>3 DEF Closes
    <3> QED BY <1>4, <2>1, <3>1
  <2> QED BY <2>2, <2>3
<1>9. ASSUME NEW w \in Windows, NEW n \in Refnums, Renumbers(w, n)
      PROVE  \A x \in DOMAIN win' : win'[x].visible <=> x = cur_window'
  <2>1. phase # "done" /\ cur_window' = cur_window /\ w \in OpenWins
        /\ win' = Renumbered(win, w, n)
    BY <1>9 DEF Renumbers, Running
  <2>2. DOMAIN win' = OpenWins
    BY <2>1 DEF Renumbered, OpenWins
  <2>3. ASSUME NEW x \in OpenWins PROVE win'[x].visible = win[x].visible
    <3>1. GoodRec(win[x]) /\ GoodRec(win[w])
      BY <1>1, <2>1 DEF GoodWin, OpenWins
    <3>2. \/ win'[x] = [win[x] EXCEPT !.num = n]
          \/ win'[x] = [win[x] EXCEPT !.num = win[w].num]
          \/ win'[x] = win[x]
      BY <2>1 DEF Renumbered, OpenWins
    <3> QED BY <3>1, <3>2 DEF GoodRec, WinRec
  <2> QED BY <1>4, <2>1, <2>2, <2>3
<1>10. ASSUME Windowwise
       PROVE  \A x \in DOMAIN win' : win'[x].visible <=> x = cur_window'
  <2>1. DOMAIN win' = OpenWins
    BY <1>10 DEF Windowwise, IsOn
  <2>2. \A x \in OpenWins : win'[x].visible = win[x].visible
    BY <1>10 DEF Windowwise, KeptWindow, SameWindow
  <2>3. phase # "done" /\ cur_window' = cur_window
    BY <1>10 DEF Windowwise
  <2> QED BY <1>4, <2>1, <2>2, <2>3
<1>11. ~Ends
  BY DEF Ends
<1> QED BY <1>2, <1>5, <1>7, <1>8, <1>9, <1>10, <1>11 DEF Shape

(* The flag on which screen_close_window decides to cycle away is set on   *)
(* the current window and on no other.                                     *)
THEOREM VisibleFollowsCurrent == Spec => []VisibleIsCurrent
<1>1. Init => VisibleIsCurrent
  BY DEF Init, VisibleIsCurrent, OpenWins, NewWin
<1> QED BY <1>1, VisibleStep, WindowsWellFormed, PTL DEF Spec

-----------------------------------------------------------------------------
(* The numbers.                                                            *)

(* There are more numbers than windows, so that screen_get_new_refnum      *)
(* never falls through to the 0 at its end.                                *)
LEMMA NewRefnumIsFree ==
    ASSUME WinInv, NEW w \in Windows \ OpenWins, NEW n, IsNewRefnum(UsedRefnums, n)
    PROVE  n \notin UsedRefnums
<1>1. OpenWins \subseteq Windows /\ IsFiniteSet(OpenWins)
      /\ Cardinality(OpenWins) <= Cardinality(Windows)
  BY FS_Subset, WindowsAssumption DEF WinInv, GoodWin, OpenWins
<1>2. UsedRefnums \subseteq Int /\ IsFiniteSet(UsedRefnums)
      /\ Cardinality(UsedRefnums) <= Cardinality(OpenWins)
  <2> DEFINE f == [v \in OpenWins |-> win[v].num]
  <2>1. f \in Surjection(OpenWins, UsedRefnums)
    BY DEF Surjection, UsedRefnums
  <2>2. UsedRefnums \subseteq Int
    BY DEF UsedRefnums, WinInv, GoodWin, GoodRec, WinRec, Refnums, OpenWins
  <2> QED BY <1>1, <2>1, <2>2, FS_Surjection
<1>3. ~(1 .. (MaxRefnum - 1) \subseteq UsedRefnums)
  <2> SUFFICES ASSUME 1 .. (MaxRefnum - 1) \subseteq UsedRefnums PROVE FALSE
    OBVIOUS
  <2>1. Cardinality(Windows) \in Nat /\ Cardinality(OpenWins) \in Nat
        /\ Cardinality(UsedRefnums) \in Nat
    BY <1>1, <1>2, FS_CardinalityType, WindowsAssumption
  <2>2. MaxRefnum - 1 \in Nat
    BY <2>1, WindowsAssumption
  <2>3. Cardinality(1 .. (MaxRefnum - 1)) = MaxRefnum - 1
    BY <2>2, FS_Interval
  <2>4. Cardinality(1 .. (MaxRefnum - 1)) <= Cardinality(UsedRefnums)
    BY <1>2, FS_Subset
  <2>5. Cardinality(OpenWins) < Cardinality(Windows)
    <3>1. OpenWins # Windows
      OBVIOUS
    <3>2. Cardinality(OpenWins) = Cardinality(Windows) => OpenWins = Windows
      BY <1>1, FS_Subset, WindowsAssumption
    <3> QED BY <1>1, <2>1, <3>1, <3>2
  <2> QED BY <1>2, <2>1, <2>2, <2>3, <2>4, <2>5, WindowsAssumption
<1> QED BY <1>3 DEF IsNewRefnum

LEMMA DistinctStep == WinInv /\ RefnumsDistinct /\ [Next]_vars => RefnumsDistinct'
<1> SUFFICES ASSUME WinInv, RefnumsDistinct, [Next]_vars
             PROVE  \A v, w \in DOMAIN win' : win'[v].num = win'[w].num => v = w
  BY DEF RefnumsDistinct, OpenWins
<1>1. GoodWin(win)
  BY DEF WinInv
<1>2. Shape
  BY <1>1, ShapeOfStep
<1>3. \A u, v \in OpenWins : win[u].num = win[v].num => u = v
  BY DEF RefnumsDistinct
<1>4. ASSUME NEW w \in Windows, NEW sw \in BOOLEAN, Opens(w, sw)
      PROVE  \A u, v \in DOMAIN win' : win'[u].num = win'[v].num => u = v
  <2>1. PICK n \in Refnums, ty \in {"privmsg", "chat"}, a \in Owners, t \in Targets,
             show \in BOOLEAN :
          /\ IsNewRefnum(UsedRefnums, n)
          /\ win' = IF sw THEN Swapped(Opened(w, n, ty, a, t, show), cur_window, w)
                    ELSE Opened(w, n, ty, a, t, show)
    BY <1>4 DEF Opens
  <2> DEFINE W == Opened(w, n, ty, a, t, show)
  <2>2. GoodWin(W)
    BY <1>1, OpenedGood
  <2>3. n \notin UsedRefnums
    BY <1>4, <2>1, NewRefnumIsFree DEF Opens
  <2>4. /\ DOMAIN W = OpenWins \cup {w} /\ w \notin OpenWins
        /\ \A x \in OpenWins : W[x].num = win[x].num
        /\ W[w].num = n
    BY <1>4 DEF Opened, NewWin, Opens
  <2>5. \A u, v \in DOMAIN W : W[u].num = W[v].num => u = v
    <3> HIDE DEF W
    <3> QED BY <1>3, <2>3, <2>4 DEF UsedRefnums
  <2>6. /\ DOMAIN Swapped(W, cur_window, w) = DOMAIN W
        /\ \A x \in DOMAIN W : Swapped(W, cur_window, w)[x].num = W[x].num
    BY <2>2, SwappedDomain, SwappedFields
  <2>7. win' = IF sw THEN Swapped(W, cur_window, w) ELSE W
    BY <2>1
  <2> HIDE DEF W
  <2> QED BY <2>5, <2>6, <2>7
<1>5. ASSUME NEW v, NEW x \in OpenWins
      PROVE  Swapped(win, cur_window, v)[x].num = win[x].num
  BY <1>1, SwappedFields DEF OpenWins
<1>6. ASSUME NEW w \in Windows, SwapsTo(w)
      PROVE  \A u, v \in DOMAIN win' : win'[u].num = win'[v].num => u = v
  BY <1>3, <1>5, <1>6, SwappedDomain DEF SwapsTo, OpenWins
<1>7. ASSUME NEW w \in Windows, Closes(w)
      PROVE  \A u, v \in DOMAIN win' : win'[u].num = win'[v].num => u = v
  BY <1>3, <1>5, <1>7 DEF Closes
<1>8. ASSUME NEW w \in Windows, NEW n \in Refnums, Renumbers(w, n)
      PROVE  \A u, v \in DOMAIN win' : win'[u].num = win'[v].num => u = v
  <2>1. w \in OpenWins /\ win' = Renumbered(win, w, n)
    BY <1>8 DEF Renumbers
  <2>2. DOMAIN win' = OpenWins
    BY <2>1 DEF Renumbered, OpenWins
  <2>3. ASSUME NEW x \in OpenWins
        PROVE  win'[x].num = IF x = w THEN n
                             ELSE IF win[x].num = n THEN win[w].num ELSE win[x].num
    <3>1. GoodRec(win[x]) /\ GoodRec(win[w])
      BY <1>1, <2>1 DEF GoodWin, OpenWins
    <3>2. win'[x] = IF x = w THEN [win[x] EXCEPT !.num = n]
                    ELSE IF win[x].num = n THEN [win[x] EXCEPT !.num = win[w].num]
                    ELSE win[x]
      BY <2>1 DEF Renumbered, OpenWins
    <3> QED BY <3>1, <3>2 DEF GoodRec, WinRec
  <2> QED BY <1>3, <2>1, <2>2, <2>3
<1>9. ASSUME Windowwise
      PROVE  \A u, v \in DOMAIN win' : win'[u].num = win'[v].num => u = v
  <2>1. DOMAIN win' = OpenWins
    BY <1>9 DEF Windowwise, IsOn
  <2>2. \A x \in OpenWins : win'[x].num = win[x].num
    BY <1>9 DEF Windowwise, KeptWindow, SameWindow
  <2> QED BY <1>3, <2>1, <2>2
<1>10. ASSUME Ends
       PROVE  \A u, v \in DOMAIN win' : win'[u].num = win'[v].num => u = v
  BY <1>10 DEF Ends
<1> QED BY <1>2, <1>4, <1>6, <1>7, <1>8, <1>9, <1>10 DEF Shape

(* No two windows ever share a number, through opening, closing and        *)
(* renumbering: the searches of pork_screen.c by number name one window.   *)
THEOREM NumbersAreDistinct == Spec => []RefnumsDistinct
<1>1. Init => RefnumsDistinct
  BY DEF Init, RefnumsDistinct, OpenWins
<1> QED BY <1>1, DistinctStep, WindowsWellFormed, PTL DEF Spec

-----------------------------------------------------------------------------
(* The current window.                                                     *)

StatusKept ==
    phase # "done" => /\ StatusWin \in OpenWins
                      /\ win[StatusWin].type = "status"
                      /\ StatusWin \notin Skippable => ~win[StatusWin].skip

LEMMA GapBounds ==
    ASSUME NEW m \in Refnums, NEW n \in Refnums
    PROVE  /\ Gap(m, m) = MaxRefnum + 1
           /\ m # n => Gap(m, n) \in 1 .. MaxRefnum
BY WindowsAssumption DEF Gap, Refnums

LEMMA StatusStep == WinInv /\ StatusKept /\ [Next]_vars => StatusKept'
<1> SUFFICES ASSUME WinInv, StatusKept, [Next]_vars, phase' # "done"
             PROVE  /\ StatusWin \in DOMAIN win'
                    /\ win'[StatusWin].type = "status"
                    /\ StatusWin \notin Skippable => ~win'[StatusWin].skip
  BY DEF StatusKept, OpenWins
<1>1. GoodWin(win)
  BY DEF WinInv
<1>2. Shape
  BY <1>1, ShapeOfStep
<1> DEFINE Kept == /\ StatusWin \in DOMAIN win'
                   /\ win'[StatusWin].type = win[StatusWin].type
                   /\ win'[StatusWin].skip = win[StatusWin].skip
                      \/ StatusWin \in Skippable
                   /\ phase # "done"
<1>3. phase # "done" => StatusWin \in OpenWins /\ win[StatusWin].type = "status"
  BY DEF StatusKept
<1>4. ASSUME NEW w \in Windows, NEW sw \in BOOLEAN, Opens(w, sw) PROVE Kept
  <2>1. PICK n \in Refnums, ty \in {"privmsg", "chat"}, a \in Owners, t \in Targets,
             show \in BOOLEAN :
          win' = IF sw THEN Swapped(Opened(w, n, ty, a, t, show), cur_window, w)
                 ELSE Opened(w, n, ty, a, t, show)
    BY <1>4 DEF Opens
  <2> DEFINE W == Opened(w, n, ty, a, t, show)
  <2>2. GoodWin(W)
    BY <1>1, OpenedGood
  <2>3. phase # "done" /\ StatusWin \in OpenWins /\ w \notin OpenWins
    BY <1>3, <1>4 DEF Opens, Running
  <2>4. StatusWin \in DOMAIN W /\ W[StatusWin] = win[StatusWin]
    BY <2>3 DEF Opened
  <2>5. win' = IF sw THEN Swapped(W, cur_window, w) ELSE W
    BY <2>1
  <2> HIDE DEF W
  <2>6. /\ DOMAIN Swapped(W, cur_window, w) = DOMAIN W
        /\ Swapped(W, cur_window, w)[StatusWin].type = W[StatusWin].type
        /\ Swapped(W, cur_window, w)[StatusWin].skip = W[StatusWin].skip
    BY <2>2, <2>4, SwappedDomain, SwappedFields
  <2> QED BY <2>3, <2>4, <2>5, <2>6
<1>5. ASSUME NEW v, StatusWin \in OpenWins
      PROVE  /\ Swapped(win, cur_window, v)[StatusWin].type = win[StatusWin].type
             /\ Swapped(win, cur_window, v)[StatusWin].skip = win[StatusWin].skip
  BY <1>1, <1>5, SwappedFields DEF OpenWins
<1>6. ASSUME NEW w \in Windows, SwapsTo(w) PROVE Kept
  <2>1. phase # "done" /\ win' = Swapped(win, cur_window, w)
    BY <1>6 DEF SwapsTo, Running
  <2>2. DOMAIN win' = OpenWins
    BY <2>1, SwappedDomain DEF OpenWins
  <2> QED BY <1>3, <1>5, <2>1, <2>2
<1>7. ASSUME NEW w \in Windows, Closes(w) PROVE Kept
  <2>1. phase # "done" /\ StatusWin \in OpenWins \ {w}
    BY <1>3, <1>7 DEF Closes, Running, MayClose
  <2>2. \/ win' = [x \in OpenWins \ {w} |-> win[x]]
        \/ \E v : win' = [x \in OpenWins \ {w} |-> Swapped(win, cur_window, v)[x]]
    BY <1>7 DEF Closes
  <2> QED BY <1>5, <2>1, <2>2
<1>8. ASSUME NEW w \in Windows, NEW n \in Refnums, Renumbers(w, n) PROVE Kept
  <2>1. phase # "done" /\ w \in OpenWins /\ win' = Renumbered(win, w, n)
        /\ StatusWin \in OpenWins
    BY <1>3, <1>8 DEF Renumbers, Running
  <2>2. GoodRec(win[StatusWin])
    BY <1>1, <2>1 DEF GoodWin, OpenWins
  <2>3. \/ win'[StatusWin] = [win[StatusWin] EXCEPT !.num = n]
        \/ win'[StatusWin] = [win[StatusWin] EXCEPT !.num = win[w].num]
        \/ win'[StatusWin] = win[StatusWin]
    BY <2>1 DEF Renumbered, OpenWins
  <2>4. StatusWin \in DOMAIN win'
    BY <2>1 DEF Renumbered, OpenWins
  <2> QED BY <2>1, <2>2, <2>3, <2>4 DEF GoodRec, WinRec
<1>9. ASSUME Windowwise PROVE Kept
  <2>1. DOMAIN win' = OpenWins /\ phase # "done"
    BY <1>9 DEF Windowwise, IsOn
  <2>2. KeptWindow(win[StatusWin], win'[StatusWin], StatusWin)
    BY <1>3, <1>9, <2>1 DEF Windowwise
  <2> QED BY <1>3, <2>1, <2>2 DEF KeptWindow, SameWindow
<1>10. ~Ends
  BY DEF Ends
<1>11. Kept
  <2> HIDE DEF Kept
  <2> QED BY <1>2, <1>4, <1>6, <1>7, <1>8, <1>9, <1>10 DEF Shape
<1> QED BY <1>3, <1>11 DEF StatusKept

LEMMA CurrentStep ==
    ASSUME StatusWin \notin Skippable
    PROVE  /\ WinInv /\ VisibleIsCurrent /\ RefnumsDistinct /\ StatusKept
           /\ CurrentIsOpen /\ [Next]_vars
           => CurrentIsOpen'
<1> SUFFICES ASSUME WinInv, VisibleIsCurrent, RefnumsDistinct, StatusKept,
                    CurrentIsOpen, [Next]_vars, phase' # "done"
             PROVE  cur_window' \in DOMAIN win'
  BY DEF CurrentIsOpen, OpenWins
<1>1. GoodWin(win)
  BY DEF WinInv
<1>2. Shape
  BY <1>1, ShapeOfStep
<1>3. ASSUME NEW w \in Windows, NEW sw \in BOOLEAN, Opens(w, sw)
      PROVE  cur_window' \in DOMAIN win'
  <2>1. PICK n \in Refnums, ty \in {"privmsg", "chat"}, a \in Owners, t \in Targets,
             show \in BOOLEAN :
          win' = IF sw THEN Swapped(Opened(w, n, ty, a, t, show), cur_window, w)
                 ELSE Opened(w, n, ty, a, t, show)
    BY <1>3 DEF Opens
  <2>2. DOMAIN win' = OpenWins \cup {w}
    BY <2>1, SwappedDomain DEF Opened
  <2> QED BY <1>3, <2>2 DEF Opens, Running
<1>4. ASSUME NEW w \in Windows, SwapsTo(w) PROVE cur_window' \in DOMAIN win'
  BY <1>4, SwappedDomain DEF SwapsTo, OpenWins
<1>5. ASSUME NEW w \in Windows, Closes(w) PROVE cur_window' \in DOMAIN win'
  <2>1. phase # "done" /\ cur_window \in OpenWins /\ w \in OpenWins
    BY <1>5 DEF Closes, Running
  <2>2. CASE ~win[w].visible
    BY <1>5, <2>1, <2>2 DEF Closes, VisibleIsCurrent
  <2>3. CASE win[w].visible
    <3>1. w = cur_window
      BY <2>1, <2>3 DEF VisibleIsCurrent
    <3>2. PICK v \in OpenWins : /\ StopsAt(cur_window, v, Unskipped, Fwd)
                                /\ cur_window' = v
                                /\ DOMAIN win' = OpenWins \ {w}
      BY <1>5, <2>3 DEF Closes
    <3>3. /\ StatusWin \in Unskipped /\ StatusWin \in OpenWins
          /\ StatusWin # w
      BY <1>5, <2>1 DEF StatusKept, Unskipped, Closes, MayClose
    <3>4. Fwd(w, v) <= Fwd(w, StatusWin)
      BY <3>1, <3>2, <3>3 DEF StopsAt
    <3>5. win[w].num \in Refnums /\ win[StatusWin].num \in Refnums
          /\ win[w].num # win[StatusWin].num
      BY <1>1, <2>1, <3>3 DEF GoodWin, GoodRec, WinRec, OpenWins, RefnumsDistinct
    <3>6. v # w
      <4> SUFFICES ASSUME v = w PROVE FALSE
        OBVIOUS
      <4>1. Fwd(w, w) = MaxRefnum + 1 /\ Fwd(w, StatusWin) \in 1 .. MaxRefnum
        BY <3>5, GapBounds DEF Fwd
      <4> QED BY <3>4, <4>1, WindowsAssumption
    <3> QED BY <3>2, <3>6
  <2> QED BY <2>2, <2>3
<1>6. ASSUME NEW w \in Windows, NEW n \in Refnums, Renumbers(w, n)
      PROVE  cur_window' \in DOMAIN win'
  BY <1>6 DEF Renumbers, Renumbered, Running, OpenWins
<1>7. ASSUME Windowwise PROVE cur_window' \in DOMAIN win'
  BY <1>7 DEF Windowwise, IsOn, CurrentIsOpen
<1>8. ~Ends
  BY DEF Ends
<1> QED BY <1>2, <1>3, <1>4, <1>5, <1>6, <1>7, <1>8 DEF Shape

(* While the status window is never skipped, closing the current window    *)
(* always finds another one to make current (screen_close_window).         *)
THEOREM CurrentStaysOpen ==
    ASSUME StatusWin \notin Skippable
    PROVE  Spec => []CurrentIsOpen
<1>1. Init => StatusKept /\ CurrentIsOpen
  BY DEF Init, StatusKept, CurrentIsOpen, OpenWins, NewWin
<1>2. WinInv /\ VisibleIsCurrent /\ RefnumsDistinct /\ StatusKept
        /\ CurrentIsOpen /\ [Next]_vars => CurrentIsOpen'
  BY CurrentStep
<1> QED BY <1>1, <1>2, StatusStep, VisibleFollowsCurrent, NumbersAreDistinct,
           WindowsWellFormed, PTL DEF Spec

-----------------------------------------------------------------------------
(* Counting windows by owner.                                              *)

Exact(W, C) == /\ C \in [AllAccts -> Int]
               /\ \A a \in AllAccts : C[a] = Cardinality(OwnedBy(W, a))

LEMMA OwnedFinite ==
    ASSUME NEW W, DOMAIN W \subseteq Windows, NEW a
    PROVE  IsFiniteSet(OwnedBy(W, a)) /\ Cardinality(OwnedBy(W, a)) \in Nat
<1>1. OwnedBy(W, a) \subseteq Windows
  BY DEF OwnedBy
<1> QED BY <1>1, FS_Subset, FS_CardinalityType, WindowsAssumption

LEMMA ExactSame ==
    ASSUME NEW W, NEW V, NEW C, Exact(W, C), DOMAIN V = DOMAIN W,
           \A w \in DOMAIN W : V[w].owner = W[w].owner
    PROVE  Exact(V, C)
<1>1. \A a \in AllAccts : OwnedBy(V, a) = OwnedBy(W, a)
  BY DEF OwnedBy
<1> QED BY <1>1 DEF Exact

LEMMA ExactAdd ==
    ASSUME NEW W, NEW V, NEW C, Exact(W, C), NEW w, w \notin DOMAIN W,
           DOMAIN V = DOMAIN W \cup {w}, DOMAIN W \subseteq Windows,
           \A v \in DOMAIN W : V[v].owner = W[v].owner,
           V[w].owner \in AllAccts
    PROVE  Exact(V, Ref(C, V[w].owner))
<1> DEFINE a == V[w].owner
<1>1. OwnedBy(V, a) = OwnedBy(W, a) \cup {w} /\ w \notin OwnedBy(W, a)
  BY DEF OwnedBy
<1>2. Cardinality(OwnedBy(V, a)) = Cardinality(OwnedBy(W, a)) + 1
  <2>1. IsFiniteSet(OwnedBy(W, a))
    BY OwnedFinite
  <2> QED BY <1>1, <2>1, FS_AddElement
<1>3. \A b \in AllAccts \ {a} : OwnedBy(V, b) = OwnedBy(W, b)
  BY DEF OwnedBy
<1>4. C \in [AllAccts -> Int] /\ \A b \in AllAccts : C[b] = Cardinality(OwnedBy(W, b))
  BY DEF Exact
<1>5. /\ Ref(C, a) \in [AllAccts -> Int]
      /\ Ref(C, a)[a] = C[a] + 1
      /\ \A b \in AllAccts \ {a} : Ref(C, a)[b] = C[b]
  BY <1>4 DEF Ref
<1> QED BY <1>2, <1>3, <1>4, <1>5 DEF Exact

LEMMA ExactRemove ==
    ASSUME NEW W, NEW V, NEW C, Exact(W, C), NEW w, w \in DOMAIN W,
           DOMAIN V = DOMAIN W \ {w}, DOMAIN W \subseteq Windows,
           \A v \in DOMAIN V : V[v].owner = W[v].owner,
           W[w].owner \in AllAccts
    PROVE  Exact(V, Unref(C, W[w].owner))
<1> DEFINE a == W[w].owner
<1>1. OwnedBy(V, a) = OwnedBy(W, a) \ {w} /\ w \in OwnedBy(W, a)
  BY DEF OwnedBy
<1>2. Cardinality(OwnedBy(V, a)) = Cardinality(OwnedBy(W, a)) - 1
  <2> DEFINE S == OwnedBy(W, a)
  <2>1. IsFiniteSet(S) /\ w \in S
    BY <1>1, OwnedFinite
  <2> HIDE DEF S
  <2>2. Cardinality(S \ {w}) = Cardinality(S) - 1
    BY <2>1, FS_RemoveElement
  <2> QED BY <1>1, <2>2 DEF S
<1>3. \A b \in AllAccts \ {a} : OwnedBy(V, b) = OwnedBy(W, b)
  BY DEF OwnedBy
<1>4. C \in [AllAccts -> Int] /\ \A b \in AllAccts : C[b] = Cardinality(OwnedBy(W, b))
  BY DEF Exact
<1>5. /\ Unref(C, a) \in [AllAccts -> Int]
      /\ Unref(C, a)[a] = C[a] - 1
      /\ \A b \in AllAccts \ {a} : Unref(C, a)[b] = C[b]
  BY <1>4 DEF Unref
<1> QED BY <1>2, <1>3, <1>4, <1>5 DEF Exact

LEMMA ExactMove ==
    ASSUME NEW W, NEW V, NEW C, Exact(W, C), NEW w, w \in DOMAIN W,
           DOMAIN V = DOMAIN W, DOMAIN W \subseteq Windows,
           \A v \in DOMAIN W \ {w} : V[v].owner = W[v].owner,
           W[w].owner \in AllAccts, V[w].owner \in AllAccts,
           V[w].owner # W[w].owner
    PROVE  Exact(V, Moved(C, W[w].owner, V[w].owner))
<1> DEFINE X == [v \in DOMAIN W \ {w} |-> W[v]]
           D == Unref(C, W[w].owner)
<1>1. Exact(X, D)
  <2>1. DOMAIN X = DOMAIN W \ {w} /\ \A v \in DOMAIN X : X[v].owner = W[v].owner
    OBVIOUS
  <2> HIDE DEF X
  <2> QED BY <2>1, ExactRemove
<1>2. DOMAIN X = DOMAIN W \ {w} /\ \A v \in DOMAIN X : X[v].owner = V[v].owner
  OBVIOUS
<1> HIDE DEF X, D
<1>3. Exact(V, Ref(D, V[w].owner))
  BY <1>1, <1>2, ExactAdd
<1> QED BY <1>3 DEF Moved, D

(* All of a's windows go to heir, who may be the NULL owner.               *)
LEMMA ExactInherit ==
    ASSUME NEW W, NEW V, NEW C, NEW D, Exact(W, C), NEW a \in AllAccts,
           NEW heir \in Owners, heir # a,
           DOMAIN V = DOMAIN W, DOMAIN W \subseteq Windows,
           \A v \in DOMAIN W : V[v].owner = IF W[v].owner = a THEN heir ELSE W[v].owner,
           D = [b \in AllAccts |->
                  IF b = a THEN C[b] - Cardinality(OwnedBy(W, a))
                  ELSE IF b = heir THEN C[b] + Cardinality(OwnedBy(W, a))
                  ELSE C[b]]
    PROVE  Exact(V, D) /\ D[a] = 0
<1>1. C \in [AllAccts -> Int] /\ \A b \in AllAccts : C[b] = Cardinality(OwnedBy(W, b))
  BY DEF Exact
<1>2. \A b : Cardinality(OwnedBy(W, b)) \in Nat /\ IsFiniteSet(OwnedBy(W, b))
  BY OwnedFinite
<1>3. OwnedBy(V, a) = {}
  BY DEF OwnedBy
<1>4. OwnedBy(V, heir) = OwnedBy(W, heir) \cup OwnedBy(W, a)
      /\ OwnedBy(W, heir) \cap OwnedBy(W, a) = {}
  BY DEF OwnedBy
<1>5. \A b \in AllAccts \ {a, heir} : OwnedBy(V, b) = OwnedBy(W, b)
  BY DEF OwnedBy
<1>6. Cardinality(OwnedBy(V, heir)) = Cardinality(OwnedBy(W, heir)) + Cardinality(OwnedBy(W, a))
  <2> DEFINE S == OwnedBy(W, heir)
             T == OwnedBy(W, a)
  <2>1. IsFiniteSet(S) /\ IsFiniteSet(T) /\ S \cap T = {}
        /\ Cardinality(S) \in Nat /\ Cardinality(T) \in Nat
    BY <1>2, <1>4
  <2> HIDE DEF S, T
  <2>2. Cardinality(S \cup T) = Cardinality(S) + Cardinality(T) - Cardinality({})
    BY <2>1, FS_Union
  <2>3. Cardinality(S \cup T) = Cardinality(S) + Cardinality(T)
    BY <2>1, <2>2, FS_EmptySet
  <2> QED BY <1>4, <2>3 DEF S, T
<1>7. Cardinality(OwnedBy(V, a)) = 0
  BY <1>3, FS_EmptySet
<1>8. D \in [AllAccts -> Int]
  BY <1>1, <1>2
<1>9. ASSUME NEW b \in AllAccts PROVE D[b] = Cardinality(OwnedBy(V, b))
  <2>1. CASE b = a
    BY <1>1, <1>2, <1>7, <2>1
  <2>2. CASE b = heir /\ b # a
    BY <1>1, <1>2, <1>6, <2>2
  <2>3. CASE b \notin {a, heir}
    BY <1>1, <1>5, <2>3
  <2> QED BY <2>1, <2>2, <2>3
<1> QED BY <1>7, <1>8, <1>9 DEF Exact

-----------------------------------------------------------------------------
(* The account list.                                                       *)

NoRepeats(s) == \A i, j \in 1 .. Len(s) : s[i] = s[j] => i = j

(* No account is listed twice, and the null account is at the tail.        *)
GoodList(s) == /\ s \in Seq(AllAccts)
               /\ NoRepeats(s)
               /\ s # <<>> => s[Len(s)] = NullAcct

LEMMA RangeIs == ASSUME NEW s \in Seq(AllAccts) PROVE Range(s) = {s[i] : i \in 1 .. Len(s)}
BY DEF Range

LEMMA RemoveAtIs ==
    ASSUME NEW s \in Seq(AllAccts), NEW i \in 1 .. Len(s)
    PROVE  /\ RemoveAt(s, i) \in Seq(AllAccts)
           /\ Len(RemoveAt(s, i)) = Len(s) - 1
           /\ \A j \in 1 .. (Len(s) - 1) :
                 RemoveAt(s, i)[j] = IF j < i THEN s[j] ELSE s[j + 1]
<1> DEFINE b == SubSeq(s, 1, i - 1)
           e == SubSeq(s, i + 1, Len(s))
<1>1. Len(s) \in Nat /\ \A j \in 1 .. Len(s) : s[j] \in AllAccts
  OBVIOUS
<1>2. /\ b \in Seq(AllAccts) /\ Len(b) = i - 1
      /\ \A j \in 1 .. (i - 1) : b[j] = s[j]
  <2>1. /\ b \in Seq(AllAccts)
        /\ Len(b) = IF 1 <= i - 1 THEN (i - 1) - 1 + 1 ELSE 0
        /\ \A j \in 1 .. (i - 1) - 1 + 1 : b[j] = s[1 + j - 1]
    BY <1>1, SubSeqProperties
  <2> HIDE DEF b
  <2> QED BY <1>1, <2>1
<1>3. /\ e \in Seq(AllAccts) /\ Len(e) = Len(s) - i
      /\ \A j \in 1 .. (Len(s) - i) : e[j] = s[i + j]
  <2>1. /\ e \in Seq(AllAccts)
        /\ Len(e) = IF i + 1 <= Len(s) THEN Len(s) - (i + 1) + 1 ELSE 0
        /\ \A j \in 1 .. Len(s) - (i + 1) + 1 : e[j] = s[(i + 1) + j - 1]
    BY <1>1, SubSeqProperties
  <2> HIDE DEF e
  <2> QED BY <1>1, <2>1
<1> HIDE DEF b, e
<1>4. /\ b \o e \in Seq(AllAccts) /\ Len(b \o e) = Len(b) + Len(e)
      /\ \A j \in 1 .. Len(b) + Len(e) :
            (b \o e)[j] = IF j <= Len(b) THEN b[j] ELSE e[j - Len(b)]
  BY <1>2, <1>3, ConcatProperties
<1>5. RemoveAt(s, i) = b \o e
  BY DEF RemoveAt, b, e
<1> DEFINE c == b \o e
<1>6. Len(c) = Len(s) - 1
  BY <1>1, <1>2, <1>3, <1>4
<1>7. ASSUME NEW j \in 1 .. (Len(s) - 1)
      PROVE  c[j] = IF j < i THEN s[j] ELSE s[j + 1]
  <2>1. c[j] = IF j <= Len(b) THEN b[j] ELSE e[j - Len(b)]
    BY <1>1, <1>2, <1>3, <1>4
  <2> HIDE DEF c
  <2>2. CASE j < i
    BY <1>1, <1>2, <2>1, <2>2
  <2>3. CASE ~(j < i)
    <3>1. j - (i - 1) \in 1 .. (Len(s) - i) /\ i + (j - (i - 1)) = j + 1
      BY <1>1, <2>3
    <3>2. c[j] = e[j - (i - 1)]
      BY <1>1, <1>2, <2>1, <2>3
    <3>3. e[j - (i - 1)] = s[i + (j - (i - 1))]
      BY <1>3, <3>1
    <3> QED BY <2>3, <3>1, <3>2, <3>3
  <2> QED BY <2>2, <2>3
<1> QED BY <1>4, <1>5, <1>6, <1>7

LEMMA UnlistedGood ==
    ASSUME GoodList(acct_list), NEW a \in AllAccts \ {NullAcct}, Unlisted(a)
    PROVE  /\ GoodList(acct_list')
           /\ Range(acct_list') = Listed \ {a}
           /\ a \in Listed
           /\ acct_list' # <<>>
<1>1. PICK i \in 1 .. Len(acct_list) :
         acct_list[i] = a /\ acct_list' = RemoveAt(acct_list, i)
  BY DEF Unlisted
<1> DEFINE s == acct_list
           t == acct_list'
<1>2. s \in Seq(AllAccts) /\ Len(s) \in Nat /\ NoRepeats(s)
  BY DEF GoodList
<1>3. /\ t \in Seq(AllAccts)
      /\ Len(t) = Len(s) - 1
      /\ \A j \in 1 .. (Len(s) - 1) : t[j] = IF j < i THEN s[j] ELSE s[j + 1]
  BY <1>1, <1>2, RemoveAtIs
<1>4. s[Len(s)] = NullAcct /\ s # <<>> /\ i < Len(s) /\ i \in 1 .. Len(s) /\ s[i] = a
  BY <1>1, <1>2 DEF GoodList
<1> HIDE DEF s, t
<1>5. NoRepeats(t)
  <2> SUFFICES ASSUME NEW j \in 1 .. Len(t), NEW k \in 1 .. Len(t), t[j] = t[k]
               PROVE  j = k
    BY DEF NoRepeats
  <2> DEFINE up(x) == IF x < i THEN x ELSE x + 1
  <2>1. up(j) \in 1 .. Len(s) /\ up(k) \in 1 .. Len(s)
    BY <1>2, <1>3
  <2>2. s[up(j)] = s[up(k)]
    BY <1>2, <1>3
  <2>3. up(j) = up(k)
    <3> HIDE DEF up
    <3> QED BY <1>2, <2>1, <2>2 DEF NoRepeats
  <2> QED BY <2>3
<1>6. t # <<>> /\ t[Len(t)] = NullAcct
  <2>1. Len(t) >= 1
    BY <1>2, <1>3, <1>4
  <2>2. t[Len(t)] = s[Len(t) + 1]
    BY <1>2, <1>3, <1>4, <2>1
  <2> QED BY <1>2, <1>3, <1>4, <2>1, <2>2
<1>7. \A j \in 1 .. Len(t) : \E k \in 1 .. Len(s) : t[j] = s[k] /\ k # i
  BY <1>2, <1>3
<1>8. \A k \in 1 .. Len(s) : k # i => \E j \in 1 .. Len(t) : t[j] = s[k]
  <2> SUFFICES ASSUME NEW k \in 1 .. Len(s), k # i
               PROVE  \E j \in 1 .. Len(t) : t[j] = s[k]
    OBVIOUS
  <2>1. CASE k < i
    BY <1>2, <1>3, <1>4, <2>1
  <2>2. CASE k > i
    <3>1. k - 1 \in 1 .. Len(t) /\ t[k - 1] = s[k]
      BY <1>2, <1>3, <1>4, <2>2
    <3> QED BY <3>1
  <2> QED BY <2>1, <2>2
<1>9. Range(t) = Range(s) \ {a} /\ a \in Range(s)
  <2>1. Range(t) = {t[j] : j \in 1 .. Len(t)} /\ Range(s) = {s[j] : j \in 1 .. Len(s)}
    BY <1>2, <1>3, RangeIs
  <2>3. \A k \in 1 .. Len(s) : s[k] = a => k = i
    BY <1>2, <1>4 DEF NoRepeats
  <2>4. \A x : x \in Range(t) <=> \E j \in 1 .. Len(t) : x = t[j]
    BY <2>1
  <2>5. \A x : x \in Range(s) <=> \E j \in 1 .. Len(s) : x = s[j]
    BY <2>1
  <2>6. ASSUME NEW x PROVE x \in Range(t) <=> x \in Range(s) /\ x # a
    <3>1. ASSUME x \in Range(t) PROVE x \in Range(s) /\ x # a
      <4>1. PICK j \in 1 .. Len(t) : x = t[j]
        BY <2>4, <3>1
      <4>2. PICK k \in 1 .. Len(s) : t[j] = s[k] /\ k # i
        BY <1>7
      <4> QED BY <2>3, <2>5, <4>1, <4>2
    <3>2. ASSUME x \in Range(s), x # a PROVE x \in Range(t)
      <4>1. PICK k \in 1 .. Len(s) : x = s[k]
        BY <2>5, <3>2
      <4>2. k # i
        BY <1>4, <3>2, <4>1
      <4> QED BY <1>8, <2>4, <4>1, <4>2
    <3> QED BY <3>1, <3>2
  <2>7. a \in Range(s)
    BY <1>4, <2>5
  <2> QED BY <2>6, <2>7
<1> QED BY <1>3, <1>5, <1>6, <1>9 DEF GoodList, Listed, s, t

LEMMA ConsGood ==
    ASSUME NEW s, GoodList(s), s # <<>>, NEW a \in AllAccts \ Range(s)
    PROVE  /\ GoodList(<<a>> \o s)
           /\ Range(<<a>> \o s) = Range(s) \cup {a}
<1> DEFINE t == <<a>> \o s
<1>1. s \in Seq(AllAccts) /\ Len(s) \in Nat /\ Len(s) # 0
  BY DEF GoodList
<1>2. /\ t \in Seq(AllAccts) /\ Len(t) = Len(s) + 1 /\ t[1] = a
      /\ \A i \in 1 .. Len(s) : t[i + 1] = s[i]
  BY <1>1
<1>3. Range(s) = {s[i] : i \in 1 .. Len(s)} /\ Range(t) = {t[i] : i \in 1 .. Len(t)}
  BY <1>1, <1>2, RangeIs
<1> HIDE DEF t
<1>4. \A i \in 2 .. Len(t) : i - 1 \in 1 .. Len(s) /\ t[i] = s[i - 1]
  BY <1>1, <1>2
<1>5. NoRepeats(t)
  <2> SUFFICES ASSUME NEW i \in 1 .. Len(t), NEW j \in 1 .. Len(t), t[i] = t[j]
               PROVE  i = j
    BY DEF NoRepeats
  <2>1. \A k \in 2 .. Len(t) : t[k] # a
    BY <1>3, <1>4
  <2>2. CASE i = 1 \/ j = 1
    BY <1>2, <2>1, <2>2
  <2>3. CASE i # 1 /\ j # 1
    <3>1. i \in 2 .. Len(t) /\ j \in 2 .. Len(t)
      BY <2>3
    <3>2. i - 1 = j - 1
      BY <1>4, <3>1 DEF GoodList, NoRepeats
    <3> QED BY <3>2
  <2> QED BY <2>2, <2>3
<1>6. t # <<>> /\ t[Len(t)] = NullAcct
  BY <1>1, <1>2, <1>4 DEF GoodList
<1>7. Range(t) = Range(s) \cup {a}
  <2>1. \A x : x \in Range(t) <=> \E j \in 1 .. Len(t) : x = t[j]
    BY <1>3
  <2>2. \A x : x \in Range(s) <=> \E j \in 1 .. Len(s) : x = s[j]
    BY <1>3
  <2>3. 1 \in 1 .. Len(t) /\ \A j \in 1 .. Len(s) : j + 1 \in 1 .. Len(t)
    BY <1>1, <1>2
  <2>4. \A j \in 1 .. Len(t) : j = 1 \/ j \in 2 .. Len(t)
    BY <1>1, <1>2
  <2>5. ASSUME NEW x PROVE x \in Range(t) <=> x \in Range(s) \/ x = a
    BY <1>2, <1>4, <2>1, <2>2, <2>3, <2>4
  <2> QED BY <2>5
<1> QED BY <1>2, <1>5, <1>6, <1>7 DEF GoodList, t

LEMMA TailGood ==
    ASSUME NEW s, GoodList(s), s # <<>>
    PROVE  /\ GoodList(Tail(s))
           /\ Head(s) \in AllAccts
           /\ Range(Tail(s)) = Range(s) \ {Head(s)}
           /\ Head(s) \in Range(s)
           /\ Head(s) = NullAcct => Tail(s) = <<>>
           /\ Head(s) # NullAcct => Tail(s) # <<>>
<1> DEFINE t == Tail(s)
<1>1. s \in Seq(AllAccts) /\ Len(s) \in Nat /\ Len(s) # 0 /\ Head(s) = s[1]
      /\ NoRepeats(s) /\ s[Len(s)] = NullAcct
  BY DEF GoodList
<1>2. /\ t \in Seq(AllAccts) /\ Len(t) = Len(s) - 1
      /\ \A i \in 1 .. Len(t) : t[i] = s[i + 1]
  BY <1>1
<1>3. Range(s) = {s[i] : i \in 1 .. Len(s)} /\ Range(t) = {t[i] : i \in 1 .. Len(t)}
  BY <1>1, <1>2, RangeIs
<1> HIDE DEF t
<1>4. NoRepeats(t)
  <2> SUFFICES ASSUME NEW i \in 1 .. Len(t), NEW j \in 1 .. Len(t), t[i] = t[j]
               PROVE  i = j
    BY DEF NoRepeats
  <2>1. i + 1 \in 1 .. Len(s) /\ j + 1 \in 1 .. Len(s) /\ s[i + 1] = s[j + 1]
    BY <1>1, <1>2
  <2>2. i + 1 = j + 1
    BY <1>1, <2>1 DEF NoRepeats
  <2> QED BY <2>2
<1>5. t # <<>> => t[Len(t)] = NullAcct
  BY <1>1, <1>2
<1>6. 1 \in 1 .. Len(s) /\ Len(s) \in 1 .. Len(s)
  BY <1>1
<1>7. s[1] = NullAcct <=> Len(s) = 1
  BY <1>1, <1>6 DEF NoRepeats
<1>8. Len(s) = 1 <=> t = <<>>
  BY <1>1, <1>2
<1>9. Range(t) = Range(s) \ {s[1]} /\ s[1] \in Range(s)
  <2>1. \A i \in 1 .. Len(s) : s[i] = s[1] => i = 1
    BY <1>1, <1>6 DEF NoRepeats
  <2>2. \A i \in 1 .. Len(t) : i + 1 \in 1 .. Len(s) /\ i + 1 # 1
    BY <1>1, <1>2
  <2>3. \A i \in 1 .. Len(s) : i # 1 => i - 1 \in 1 .. Len(t) /\ t[i - 1] = s[i]
    BY <1>1, <1>2
  <2> QED BY <1>2, <1>3, <1>6, <2>1, <2>2, <2>3
<1> QED BY <1>1, <1>2, <1>4, <1>5, <1>6, <1>7, <1>8, <1>9 DEF GoodList, t

-----------------------------------------------------------------------------
(* The accounts' part of the inductive invariant.                          *)

AcctInv == /\ GoodList(acct_list)
           /\ phase = "running" => acct_list # <<>>
           /\ alive = Listed
           /\ Exact(win, ref_count)
           /\ OwnersListed

(* The steps that leave accounts and owners alone.                         *)
OwnersKept == /\ DOMAIN win' = OpenWins
              /\ \A w \in OpenWins : win'[w].owner = win[w].owner
              /\ UNCHANGED <<acct_list, ref_count, alive>>
              /\ phase' = phase \/ (phase' = "exiting" /\ phase = "running")

LEMMA OwnersKeptStep == ASSUME AcctInv, OwnersKept PROVE AcctInv'
<1>1. GoodList(acct_list') /\ alive' = Range(acct_list')
  BY DEF AcctInv, OwnersKept, Listed
<1>2. phase' = "running" => acct_list' # <<>>
  BY DEF AcctInv, OwnersKept
<1>3. Exact(win', ref_count')
  BY ExactSame DEF AcctInv, OwnersKept, OpenWins
<1>4. OwnersListed'
  BY DEF AcctInv, OwnersKept, OwnersListed, OpenWins, Listed
<1> QED BY <1>1, <1>2, <1>3, <1>4 DEF AcctInv, Listed

LEMMA AcctsDistinct == /\ Accts \subseteq AllAccts /\ NullAcct \in AllAccts
                       /\ NullAcct \notin Accts /\ NoAcct \notin AllAccts
                       /\ AllAccts \subseteq Owners /\ NoAcct \in Owners
BY AcctsAssumption DEF AllAccts, Owners

LEMMA ListedAreAccts == ASSUME AcctInv PROVE Listed \subseteq AllAccts
BY RangeIs DEF AcctInv, GoodList, Listed

LEMMA RunningOwners ==
    ASSUME AcctInv, Running
    PROVE  \A w \in OpenWins : win[w].owner \in Listed /\ win[w].owner \in AllAccts
BY ListedAreAccts DEF AcctInv, OwnersListed, Running

(* A window is opened for an account that is listed.                       *)
LEMMA OpenedStep ==
    ASSUME AcctInv, WinInv, Running, NEW w \in Windows \ OpenWins,
           NEW a \in Listed, DOMAIN win' = OpenWins \cup {w},
           \A v \in OpenWins : win'[v].owner = win[v].owner,
           win'[w].owner = a, ref_count' = Ref(ref_count, a),
           UNCHANGED <<acct_list, alive, phase>>
    PROVE  AcctInv'
<1>1. a \in AllAccts
  BY ListedAreAccts
<1>2. Exact(win', ref_count')
  <2>1. Exact(win, ref_count) /\ DOMAIN win \subseteq Windows /\ DOMAIN win = OpenWins
    BY DEF AcctInv, WinInv, GoodWin, OpenWins
  <2> QED BY <1>1, <2>1, ExactAdd
<1>3. OwnersListed'
  BY DEF AcctInv, OwnersListed, OpenWins, Listed
<1> QED BY <1>2, <1>3 DEF AcctInv, Listed

LEMMA CreatedStep ==
    ASSUME AcctInv, WinInv, Running, NEW w, NEW ty \in {"privmsg", "chat"},
           NEW a \in Listed, NEW t \in Targets,
           \/ Created(w, ty, a, t)
           \/ CreatedCurrent(w, ty, a, t)
    PROVE  AcctInv'
<1>1. /\ w \in Windows \ OpenWins /\ ref_count' = Ref(ref_count, a)
      /\ UNCHANGED <<acct_list, alive, phase>>
      /\ \E n \in Refnums, show \in BOOLEAN :
            \/ win' = Opened(w, n, ty, a, t, show)
            \/ win' = Swapped(Opened(w, n, ty, a, t, show), cur_window, w)
  BY Zenon DEF Created, CreatedCurrent, Opened
<1>2. PICK n \in Refnums, show \in BOOLEAN :
            \/ win' = Opened(w, n, ty, a, t, show)
            \/ win' = Swapped(Opened(w, n, ty, a, t, show), cur_window, w)
  BY <1>1
<1> DEFINE W == Opened(w, n, ty, a, t, show)
<1>3. GoodWin(W) /\ DOMAIN W = OpenWins \cup {w}
  <2>1. a \in Owners
    BY ListedAreAccts, AcctsDistinct
  <2>2. GoodWin(W)
    BY <1>1, <2>1, OpenedGood DEF WinInv
  <2> QED BY <2>2 DEF Opened
<1>4. (\A v \in OpenWins : W[v].owner = win[v].owner) /\ W[w].owner = a
  BY <1>1 DEF Opened, NewWin
<1> HIDE DEF W
<1>5. /\ DOMAIN Swapped(W, cur_window, w) = DOMAIN W
      /\ \A v \in DOMAIN W : Swapped(W, cur_window, w)[v].owner = W[v].owner
  BY <1>3, SwappedDomain, SwappedFields
<1>6. win' = W \/ win' = Swapped(W, cur_window, w)
  BY <1>2 DEF W
<1>7. /\ DOMAIN win' = OpenWins \cup {w}
      /\ \A v \in OpenWins : win'[v].owner = win[v].owner
      /\ win'[w].owner = a
  BY <1>3, <1>4, <1>5, <1>6
<1> QED BY <1>1, <1>7, OpenedStep

LEMMA ClosedStep ==
    ASSUME AcctInv, WinInv, NEW w \in Windows, CloseWindow(w)
    PROVE  AcctInv'
<1>1. /\ Running /\ w \in OpenWins
      /\ ref_count' = Unref(ref_count, win[w].owner)
      /\ UNCHANGED <<acct_list, alive, phase>>
  BY DEF CloseWindow
<1>2. \/ win' = [x \in OpenWins \ {w} |-> win[x]]
      \/ \E v : win' = [x \in OpenWins \ {w} |-> Swapped(win, cur_window, v)[x]]
  BY DEF CloseWindow
<1>3. ASSUME NEW v, NEW x \in OpenWins
      PROVE  Swapped(win, cur_window, v)[x].owner = win[x].owner
  BY SwappedFields DEF WinInv, OpenWins
<1>4. /\ DOMAIN win' = OpenWins \ {w}
      /\ \A v \in DOMAIN win' : win'[v].owner = win[v].owner
  <2>1. CASE win' = [x \in OpenWins \ {w} |-> win[x]]
    BY <2>1
  <2>2. ASSUME NEW v, win' = [x \in OpenWins \ {w} |-> Swapped(win, cur_window, v)[x]]
        PROVE  /\ DOMAIN win' = OpenWins \ {w}
               /\ \A x \in DOMAIN win' : win'[x].owner = win[x].owner
    BY <1>3, <2>2
  <2> QED BY <1>2, <2>1, <2>2
<1>5. Exact(win', ref_count')
  <2>1. Exact(win, ref_count) /\ DOMAIN win \subseteq Windows /\ DOMAIN win = OpenWins
    BY DEF AcctInv, WinInv, GoodWin, OpenWins
  <2>2. win[w].owner \in AllAccts
    BY <1>1, RunningOwners
  <2> QED BY <1>1, <1>4, <2>1, <2>2, ExactRemove
<1>6. OwnersListed'
  BY <1>1, <1>4 DEF AcctInv, OwnersListed, OpenWins, Listed
<1> QED BY <1>1, <1>5, <1>6 DEF AcctInv, Listed

LEMMA BindAcctStep ==
    ASSUME AcctInv, WinInv, NEW w \in Windows, NEW a, BindAcct(w, a)
    PROVE  AcctInv'
<1>1. /\ Running /\ w \in OpenWins /\ a \in Listed /\ a # win[w].owner
      /\ win' = [win EXCEPT ![w] = Bound(@, a)]
      /\ ref_count' = Moved(ref_count, win[w].owner, a)
      /\ UNCHANGED <<acct_list, alive, phase>>
  BY DEF BindAcct
<1>2. win[w].owner \in AllAccts /\ a \in AllAccts /\ GoodRec(win[w])
  BY <1>1, RunningOwners, ListedAreAccts DEF WinInv, GoodWin, OpenWins
<1>3. Bound(win[w], a).owner = a
  BY <1>2, BoundGood, AcctsDistinct
<1>4. /\ DOMAIN win' = OpenWins /\ win'[w].owner = a
      /\ \A v \in OpenWins \ {w} : win'[v].owner = win[v].owner
  BY <1>1, <1>3 DEF OpenWins
<1>5. Exact(win', ref_count')
  <2>1. Exact(win, ref_count) /\ DOMAIN win \subseteq Windows /\ DOMAIN win = OpenWins
    BY DEF AcctInv, WinInv, GoodWin, OpenWins
  <2>2. /\ w \in DOMAIN win /\ DOMAIN win' = DOMAIN win
        /\ \A v \in DOMAIN win \ {w} : win'[v].owner = win[v].owner
        /\ win'[w].owner \in AllAccts /\ win'[w].owner # win[w].owner
    BY <1>1, <1>2, <1>4, <2>1
  <2>3. Exact(win', Moved(ref_count, win[w].owner, win'[w].owner))
    BY <1>2, <2>1, <2>2, ExactMove
  <2> QED BY <1>1, <1>4, <2>3
<1>6. OwnersListed'
  BY <1>1, <1>4 DEF AcctInv, OwnersListed, OpenWins, Listed
<1> QED BY <1>1, <1>5, <1>6 DEF AcctInv, Listed

LEMMA NullListed ==
    ASSUME NEW s, GoodList(s), s # <<>>
    PROVE  NullAcct \in Range(s)
<1>1. s \in Seq(AllAccts) /\ Len(s) \in 1 .. Len(s) /\ s[Len(s)] = NullAcct
  BY DEF GoodList
<1> QED BY <1>1, RangeIs

(* pork_acct_connect: the account that heads the list had no window.       *)
LEMMA AcctConnectStep ==
    ASSUME AcctInv, WinInv, NEW a \in Accts, NEW pref, AcctConnect(a, pref)
    PROVE  AcctInv'
<1> DEFINE n == Cardinality(OwnedBy(win, NullAcct))
<1>1. /\ Running /\ a \notin Listed /\ acct_list' = <<a>> \o acct_list
      /\ alive' = alive \cup {a} /\ phase' = phase
      /\ ref_count' = [ref_count EXCEPT ![a] = n, ![NullAcct] = @ - n]
  BY DEF AcctConnect, AcctInv
<1>2. a \in AllAccts /\ a # NullAcct /\ NullAcct \in AllAccts /\ a \in Owners
  BY AcctsDistinct
<1>3. GoodList(acct_list') /\ Range(acct_list') = Listed \cup {a}
  <2>1. GoodList(acct_list) /\ acct_list # <<>> /\ a \in AllAccts \ Range(acct_list)
    BY <1>1, <1>2 DEF AcctInv, Running, Listed
  <2> QED BY <1>1, <2>1, ConsGood DEF Listed
<1>4. ref_count[a] = 0
  <2>1. OwnedBy(win, a) = {}
    BY <1>1, RunningOwners DEF OwnedBy, OpenWins
  <2> QED BY <1>2, <2>1, FS_EmptySet DEF AcctInv, Exact
<1>5. /\ DOMAIN win' = OpenWins
      /\ \A v \in OpenWins :
            win'[v].owner = IF win[v].owner = NullAcct THEN a ELSE win[v].owner
  <2>1. ASSUME NEW v \in OpenWins
        PROVE  /\ Bound(win[v], a).owner = a
               /\ Shown(Bound(win[v], a)).owner = a
    BY <1>2, BoundGood, ShownGood DEF WinInv, GoodWin, OpenWins
  <2> QED BY <2>1 DEF AcctConnect
<1>6. Exact(win', ref_count')
  <2> DEFINE D == [b \in AllAccts |->
                    IF b = NullAcct THEN ref_count[b] - n
                    ELSE IF b = a THEN ref_count[b] + n
                    ELSE ref_count[b]]
  <2>1. Exact(win, ref_count) /\ DOMAIN win \subseteq Windows /\ DOMAIN win = OpenWins
    BY DEF AcctInv, WinInv, GoodWin, OpenWins
  <2>2. n \in Nat
    BY <2>1, OwnedFinite
  <2>3. ref_count \in [AllAccts -> Int]
    BY <2>1 DEF Exact
  <2>4. ref_count' = D
    <3> HIDE DEF n
    <3>1. ref_count' = [b \in AllAccts |->
                          IF b = NullAcct THEN ref_count[NullAcct] - n
                          ELSE IF b = a THEN n ELSE ref_count[b]]
      BY <1>1, <1>2, <2>3
    <3>2. ref_count[a] + n = n
      BY <1>4, <2>2
    <3> QED BY <3>1, <3>2
  <2> HIDE DEF D
  <2>5. Exact(win', D)
    BY <1>2, <1>5, <2>1, ExactInherit DEF D
  <2> QED BY <2>4, <2>5
<1>7. OwnersListed'
  BY <1>1, <1>3, <1>5, RunningOwners DEF OwnersListed, OpenWins, Listed
<1>8. acct_list' # <<>>
  BY <1>1 DEF AcctInv, GoodList
<1> QED BY <1>1, <1>3, <1>6, <1>7, <1>8 DEF AcctInv, Listed

(* The loop of pork_acct_del: owners and counts move together.             *)
LEMMA DisownedExact ==
    ASSUME AcctInv, WinInv, NEW a \in AllAccts, NEW heir \in Owners, heir # a
    PROVE  /\ DOMAIN Disowned(win, a, heir) = OpenWins
           /\ \A v \in OpenWins : /\ GoodRec(Disowned(win, a, heir)[v])
                                  /\ Disowned(win, a, heir)[v].owner =
                                       IF win[v].owner = a THEN heir ELSE win[v].owner
           /\ Exact(Disowned(win, a, heir), Counted(a, heir))
           /\ Counted(a, heir)[a] = 0
<1> DEFINE W == Disowned(win, a, heir)
           C == Counted(a, heir)
<1>1. DOMAIN W = OpenWins
  BY DEF Disowned, OpenWins
<1>2. ASSUME NEW v \in OpenWins
      PROVE  GoodRec(W[v]) /\ W[v].owner = IF win[v].owner = a THEN heir ELSE win[v].owner
  <2>1. GoodRec(win[v])
    BY DEF WinInv, GoodWin, OpenWins
  <2>2. W[v] = IF win[v].owner = a THEN [Hidden(win[v]) EXCEPT !.owner = heir] ELSE win[v]
    BY DEF Disowned, OpenWins
  <2> HIDE DEF W
  <2> QED BY <2>1, <2>2, DisownedRecGood
<1>3. Exact(win, ref_count) /\ DOMAIN win \subseteq Windows /\ DOMAIN win = OpenWins
  BY DEF AcctInv, WinInv, GoodWin, OpenWins
<1>4. C = [b \in AllAccts |->
             IF b = a THEN ref_count[b] - Cardinality(OwnedBy(win, a))
             ELSE IF b = heir THEN ref_count[b] + Cardinality(OwnedBy(win, a))
             ELSE ref_count[b]]
  BY DEF Counted
<1> HIDE DEF W, C
<1>5. Exact(W, C) /\ C[a] = 0
  <2>1. \A v \in DOMAIN win :
           W[v].owner = IF win[v].owner = a THEN heir ELSE win[v].owner
    BY <1>2, <1>3
  <2>2. DOMAIN W = DOMAIN win
    BY <1>1, <1>3
  <2> QED BY <1>3, <1>4, <2>1, <2>2, ExactInherit
<1> QED BY <1>1, <1>2, <1>5 DEF W, C

LEMMA AcctDelStep ==
    ASSUME AcctInv, WinInv, NEW a \in Accts, AcctDel(a)
    PROVE  AcctInv'
<1>1. /\ Running /\ Unlisted(a) /\ phase' = phase
      /\ win' = Disowned(win, a, NullAcct) /\ ref_count' = Counted(a, NullAcct)
      /\ Freed(a)
  BY DEF AcctDel
<1>2. a \in AllAccts \ {NullAcct} /\ NullAcct \in Owners
  BY AcctsDistinct
<1>3. /\ GoodList(acct_list') /\ acct_list' # <<>>
      /\ Range(acct_list') = Listed \ {a}
  BY <1>1, <1>2, UnlistedGood DEF AcctInv
<1>4. /\ DOMAIN win' = OpenWins
      /\ \A v \in OpenWins :
            win'[v].owner = IF win[v].owner = a THEN NullAcct ELSE win[v].owner
      /\ Exact(win', ref_count') /\ ref_count'[a] = 0
  BY <1>1, <1>2, DisownedExact
<1>5. alive' = Range(acct_list')
  BY <1>1, <1>3, <1>4 DEF Freed, AcctInv
<1>6. NullAcct \in Range(acct_list')
  BY <1>3, NullListed
<1>7. OwnersListed'
  BY <1>1, <1>3, <1>4, <1>6, RunningOwners DEF OwnersListed, OpenWins, Listed
<1> QED BY <1>3, <1>4, <1>5, <1>7 DEF AcctInv, Listed

LEMMA CmdDisconnectStep ==
    ASSUME AcctInv, WinInv, StatusKept, NEW a \in Accts, CmdDisconnect(a)
    PROVE  AcctInv'
<1> DEFINE W == Disowned(win, a, NullAcct)
           C == Counted(a, NullAcct)
<1>1. /\ Running /\ Unlisted(a) /\ phase' = phase /\ Freed(a)
      /\ \/ win' = W /\ ref_count' = C
         \/ \E b \in Accts : /\ W[StatusWin].owner = NullAcct
                             /\ NextAcct(acct_list', NullAcct, b)
                             /\ win' = [W EXCEPT ![StatusWin] = Bound(@, b)]
                             /\ ref_count' = Moved(C, NullAcct, b)
  BY Zenon DEF CmdDisconnect
<1>2. a \in AllAccts \ {NullAcct} /\ NullAcct \in Owners
  BY AcctsDistinct
<1>3. /\ GoodList(acct_list') /\ acct_list' # <<>>
      /\ Range(acct_list') = Listed \ {a}
  BY <1>1, <1>2, UnlistedGood DEF AcctInv
<1>4. /\ DOMAIN W = OpenWins
      /\ \A v \in OpenWins :
            /\ GoodRec(W[v])
            /\ W[v].owner = IF win[v].owner = a THEN NullAcct ELSE win[v].owner
      /\ Exact(W, C) /\ C[a] = 0
  BY <1>2, DisownedExact
<1>5. NullAcct \in Range(acct_list')
  BY <1>3, NullListed
<1>6. /\ DOMAIN win' = OpenWins
      /\ \A v \in OpenWins : win'[v].owner \in Listed \ {a}
      /\ Exact(win', ref_count') /\ ref_count'[a] = 0
  <2>1. \A v \in OpenWins : W[v].owner \in Listed \ {a}
    BY <1>1, <1>3, <1>4, <1>5, RunningOwners
  <2>2. CASE win' = W /\ ref_count' = C
    BY <1>4, <2>1, <2>2
  <2>3. ASSUME NEW b \in Accts, W[StatusWin].owner = NullAcct,
               NextAcct(acct_list', NullAcct, b),
               win' = [W EXCEPT ![StatusWin] = Bound(@, b)],
               ref_count' = Moved(C, NullAcct, b)
        PROVE  /\ DOMAIN win' = OpenWins
               /\ \A v \in OpenWins : win'[v].owner \in Listed \ {a}
               /\ Exact(win', ref_count') /\ ref_count'[a] = 0
    <3> HIDE DEF W, C
    <3>1. StatusWin \in OpenWins
      BY <1>1 DEF StatusKept, Running
    <3>2. b \in Listed \ {a} /\ b # NullAcct /\ b \in AllAccts /\ b \in Owners
      <4>1. \E j \in 1 .. Len(acct_list') : acct_list'[j] = b
        BY <2>3 DEF NextAcct
      <4>2. b \in Range(acct_list')
        BY <1>3, <4>1, RangeIs DEF GoodList
      <4> QED BY <1>3, <4>2, AcctsDistinct
    <3>3. Bound(W[StatusWin], b).owner = b
      BY <1>4, <3>1, <3>2, BoundGood
    <3>4. /\ DOMAIN win' = OpenWins /\ win'[StatusWin].owner = b
          /\ \A v \in OpenWins \ {StatusWin} : win'[v].owner = W[v].owner
      BY <1>4, <2>3, <3>1, <3>3
    <3>5. Exact(win', ref_count')
      <4>1. DOMAIN W \subseteq Windows
        BY <1>4 DEF WinInv, GoodWin, OpenWins
      <4>2. NullAcct \in AllAccts
        BY AcctsDistinct
      <4>3. /\ StatusWin \in DOMAIN W /\ DOMAIN win' = DOMAIN W
            /\ \A v \in DOMAIN W \ {StatusWin} : win'[v].owner = W[v].owner
            /\ W[StatusWin].owner \in AllAccts /\ win'[StatusWin].owner \in AllAccts
            /\ win'[StatusWin].owner # W[StatusWin].owner
        BY <1>4, <2>3, <3>1, <3>2, <3>4, <4>2
      <4>4. Exact(win', Moved(C, W[StatusWin].owner, win'[StatusWin].owner))
        BY <1>4, <4>1, <4>3, ExactMove
      <4> QED BY <2>3, <3>4, <4>4
    <3>6. ref_count'[a] = 0
      <4>1. C \in [AllAccts -> Int]
        BY <1>4 DEF Exact
      <4> QED BY <1>2, <1>4, <2>3, <3>2, <4>1 DEF Moved, Ref, Unref
    <3> QED BY <2>1, <3>2, <3>4, <3>5, <3>6
  <2> HIDE DEF W, C
  <2> QED BY <1>1, <2>2, <2>3
<1>7. alive' = Range(acct_list')
  BY <1>1, <1>3, <1>6 DEF Freed, AcctInv
<1>8. OwnersListed'
  BY <1>3, <1>6 DEF OwnersListed, OpenWins, Listed
<1> QED BY <1>3, <1>6, <1>7, <1>8 DEF AcctInv, Listed

LEMMA ExitDelAcctStep ==
    ASSUME AcctInv, WinInv, ExitDelAcct
    PROVE  AcctInv'
<1> DEFINE a    == Head(acct_list)
           heir == IF a = NullAcct THEN NoAcct ELSE NullAcct
<1>1. /\ phase = "exiting" /\ phase' = phase /\ acct_list # <<>>
      /\ acct_list' = Tail(acct_list)
      /\ win' = Disowned(win, a, heir) /\ ref_count' = Counted(a, heir)
      /\ Freed(a)
  BY DEF ExitDelAcct
<1>2. /\ GoodList(acct_list') /\ a \in AllAccts
      /\ Range(acct_list') = Listed \ {a}
      /\ a # NullAcct => acct_list' # <<>>
  BY <1>1, TailGood DEF AcctInv, Listed
<1>3. heir \in Owners /\ heir # a
  BY <1>2, AcctsDistinct
<1>4. heir = NoAcct \/ heir \in Range(acct_list')
  BY <1>2, NullListed
<1> HIDE DEF a, heir
<1>5. /\ DOMAIN win' = OpenWins
      /\ \A v \in OpenWins :
            win'[v].owner = IF win[v].owner = a THEN heir ELSE win[v].owner
      /\ Exact(win', ref_count') /\ ref_count'[a] = 0
  BY <1>1, <1>2, <1>3, DisownedExact
<1>6. alive' = Range(acct_list')
  BY <1>1, <1>2, <1>5 DEF Freed, AcctInv
<1>7. OwnersListed'
  BY <1>1, <1>2, <1>4, <1>5 DEF AcctInv, OwnersListed, OpenWins, Listed
<1> QED BY <1>1, <1>2, <1>5, <1>6, <1>7 DEF AcctInv, Listed

LEMMA ScreenDestroyStep ==
    ASSUME AcctInv, ScreenDestroy
    PROVE  AcctInv'
<1>1. /\ UNCHANGED <<acct_list, alive>> /\ phase' = "done"
      /\ DOMAIN win' = {}
      /\ ref_count' = [a \in AllAccts |-> ref_count[a] - Cardinality(OwnedBy(win, a))]
  BY DEF ScreenDestroy
<1>2. Exact(win', ref_count')
  <2>1. \A a \in AllAccts : Cardinality(OwnedBy(win', a)) = 0
    BY <1>1, FS_EmptySet DEF OwnedBy
  <2>2. ref_count \in [AllAccts -> Int]
        /\ \A a \in AllAccts : ref_count[a] = Cardinality(OwnedBy(win, a))
    BY DEF AcctInv, Exact
  <2>3. \A a \in AllAccts : ref_count'[a] = 0
    BY <1>1, <2>2
  <2> QED BY <1>1, <2>1, <2>3 DEF Exact
<1>3. OwnersListed'
  BY <1>1 DEF OwnersListed, OpenWins
<1> QED BY <1>1, <1>2, <1>3 DEF AcctInv, Listed

(* The steps that move no window between accounts.                         *)
LEMMA SwapKeepsOwners == ASSUME WinInv, NEW w, SwapTo(w) PROVE OwnersKept
BY SwappedDomain, SwappedFields DEF SwapTo, WinInv, OwnersKept, OpenWins, acctVars

LEMMA UpdateKeepsOwners ==
    ASSUME NEW w, NEW r, Update(w, r), w \in OpenWins => r.owner = win[w].owner
    PROVE  OwnersKept
BY DEF Update, OwnersKept, OpenWins, acctVars

LEMMA OneWindowKeepsOwners ==
    ASSUME WinInv, NEW w \in Windows,
           \/ \E b \in BOOLEAN : SetSkip(w, b)
           \/ BlistShow(w) \/ BlistHide(w)
           \/ w = cur_window /\ (SwitchFocus \/ ToggleFocus)
    PROVE  OwnersKept
<1>1. w \in OpenWins => GoodRec(win[w])
  BY DEF WinInv, GoodWin, OpenWins
<1>2. /\ w \in OpenWins => Shown(win[w]).owner = win[w].owner
      /\ w \in OpenWins => Hidden(win[w]).owner = win[w].owner
      /\ w \in OpenWins => SwitchedFocus(win[w]).owner = win[w].owner
      /\ w \in OpenWins => SwitchedFocus(Toggled(win[w])).owner = win[w].owner
  BY <1>1, HiddenGood, ShownGood, SwitchedFocusGood, ToggledGood
<1>3. ASSUME NEW b \in BOOLEAN, w \in OpenWins
      PROVE  [win[w] EXCEPT !.skip = b].owner = win[w].owner
  BY <1>1, <1>3 DEF GoodRec, WinRec
<1>4. \/ \E b \in BOOLEAN : Update(w, [win[w] EXCEPT !.skip = b])
      \/ Update(w, Shown(win[w])) \/ Update(w, Hidden(win[w]))
      \/ Update(w, SwitchedFocus(win[w]))
      \/ Update(w, SwitchedFocus(Toggled(win[w])))
  BY Zenon DEF SetSkip, BlistShow, BlistHide, SwitchFocus, ToggleFocus
<1> QED BY <1>2, <1>3, <1>4, UpdateKeepsOwners

LEMMA RenumberKeepsOwners ==
    ASSUME WinInv, NEW w, NEW n, Renumber(w, n)
    PROVE  OwnersKept
<1>1. \A v \in OpenWins : /\ [win[v] EXCEPT !.num = n].owner = win[v].owner
                         /\ [win[v] EXCEPT !.num = win[w].num].owner = win[v].owner
  BY DEF WinInv, GoodWin, GoodRec, WinRec, OpenWins
<1>2. /\ DOMAIN win' = OpenWins
      /\ \A v \in OpenWins : win'[v].owner = win[v].owner
  BY <1>1 DEF Renumber, Renumbered, OpenWins
<1> QED BY <1>2 DEF Renumber, OwnersKept, acctVars

LEMMA ResizeKeepsOwners == ASSUME WinInv, NEW A, Resize(A) PROVE OwnersKept
<1>1. \A v \in OpenWins :
         [win[v] EXCEPT !.blist = FALSE, !.binds = "main"].owner = win[v].owner
  BY DEF WinInv, GoodWin, GoodRec, WinRec, OpenWins
<1> QED BY <1>1 DEF Resize, OwnersKept, acctVars

LEMMA AcctInvInit == Init => AcctInv
<1> SUFFICES ASSUME Init PROVE AcctInv
  OBVIOUS
<1>1. acct_list = <<NullAcct>> /\ GoodList(acct_list) /\ Listed = {NullAcct}
  BY AcctsDistinct DEF Init, GoodList, NoRepeats, Listed, Range
<1>2. DOMAIN win = {StatusWin} /\ win[StatusWin].owner = NullAcct
  BY DEF Init, NewWin
<1>3. Exact(win, ref_count)
  <2>1. OwnedBy(win, NullAcct) = {StatusWin}
        /\ \A a \in Accts : OwnedBy(win, a) = {}
    BY <1>2, AcctsDistinct DEF OwnedBy
  <2>2. Cardinality(OwnedBy(win, NullAcct)) = 1
        /\ \A a \in Accts : Cardinality(OwnedBy(win, a)) = 0
    BY <2>1, FS_EmptySet, FS_Singleton
  <2>3. /\ ref_count = [a \in AllAccts |-> IF a = NullAcct THEN 1 ELSE 0]
        /\ AllAccts = Accts \cup {NullAcct} /\ NullAcct \notin Accts
    BY AcctsDistinct DEF Init, AllAccts
  <2>4. ref_count \in [AllAccts -> Int]
    BY <2>3
  <2>5. ref_count[NullAcct] = 1 /\ \A a \in Accts : ref_count[a] = 0
    BY <2>3
  <2> QED BY <2>2, <2>3, <2>4, <2>5 DEF Exact
<1>4. OwnersListed
  BY <1>1, <1>2 DEF OwnersListed, OpenWins
<1> QED BY <1>1, <1>3, <1>4 DEF Init, AcctInv

LEMMA AcctInvStep == AcctInv /\ WinInv /\ StatusKept /\ [Next]_vars => AcctInv'
<1> SUFFICES ASSUME AcctInv, WinInv, StatusKept, [Next]_vars PROVE AcctInv'
  OBVIOUS
<1>1. ASSUME NEW w \in Windows, NEW a \in Accts, NEW t \in Targets,
             GetQueryWindow(w, a, t) \/ NewChatWindow(w, a, t)
      PROVE  AcctInv'
  BY <1>1, CreatedStep DEF GetQueryWindow, NewChatWindow
<1>2. ASSUME NEW w \in Windows, NEW t \in Targets, CmdQueryNew(w, t) \/ CmdJoinNew(w, t)
      PROVE  AcctInv'
  <2>1. win[cur_window].owner \in Listed
    BY <1>2, RunningOwners DEF CmdQueryNew, CmdJoinNew, Running
  <2>2. \/ CreatedCurrent(w, "privmsg", win[cur_window].owner, t)
        \/ CreatedCurrent(w, "chat", win[cur_window].owner, t)
    BY <1>2, Zenon DEF CmdQueryNew, CmdJoinNew
  <2>3. Running
    BY <1>2 DEF CmdQueryNew, CmdJoinNew
  <2> QED BY <2>1, <2>2, <2>3, CreatedStep
<1>3. ASSUME NEW w \in Windows, SwapTo(w) PROVE AcctInv'
  BY <1>3, SwapKeepsOwners, OwnersKeptStep
<1>4. ASSUME NEW w \in Windows, CloseWindow(w) PROVE AcctInv'
  BY <1>4, ClosedStep
<1>5. ASSUME NEW w \in Windows,
             \/ \E b \in BOOLEAN : SetSkip(w, b)
             \/ BlistShow(w) \/ BlistHide(w)
             \/ w = cur_window /\ (SwitchFocus \/ ToggleFocus)
      PROVE  AcctInv'
  BY <1>5, OneWindowKeepsOwners, OwnersKeptStep
<1>6. ASSUME SwitchFocus \/ ToggleFocus PROVE AcctInv'
  <2>1. cur_window \in Windows
    BY <1>6 DEF SwitchFocus, ToggleFocus, Running, WinInv, GoodWin, OpenWins
  <2> QED BY <1>6, <2>1, OneWindowKeepsOwners, OwnersKeptStep
<1>7. ASSUME NEW w, NEW n, Renumber(w, n) PROVE AcctInv'
  BY <1>7, RenumberKeepsOwners, OwnersKeptStep
<1>8. ASSUME NEW w \in Windows, NEW a, BindAcct(w, a) PROVE AcctInv'
  BY <1>8, BindAcctStep
<1>9. ASSUME NEW A, Resize(A) PROVE AcctInv'
  BY <1>9, ResizeKeepsOwners, OwnersKeptStep
<1>10. ASSUME NEW a \in Accts, NEW pref, AcctConnect(a, pref) PROVE AcctInv'
  BY <1>10, AcctConnectStep
<1>11. ASSUME NEW a \in Accts, AcctDel(a) \/ CmdDisconnect(a) PROVE AcctInv'
  BY <1>11, AcctDelStep, CmdDisconnectStep
<1>12. ASSUME Exit \/ UNCHANGED vars PROVE AcctInv'
  <2>1. OwnersKept
    BY <1>12 DEF Exit, Running, vars, OwnersKept, OpenWins
  <2> QED BY <2>1, OwnersKeptStep
<1>13. ASSUME ExitDelAcct \/ ScreenDestroy PROVE AcctInv'
  BY <1>13, ExitDelAcctStep, ScreenDestroyStep
<1>14. \/ \E w \in Windows, a \in Accts, t \in Targets :
             GetQueryWindow(w, a, t) \/ NewChatWindow(w, a, t)
       \/ \E w \in Windows, t \in Targets : CmdQueryNew(w, t) \/ CmdJoinNew(w, t)
       \/ \E w \in Windows : SwapTo(w)
       \/ \E w \in Windows : CloseWindow(w) \/ BlistShow(w) \/ BlistHide(w)
       \/ \E w \in Windows, b \in BOOLEAN : SetSkip(w, b)
       \/ \E w \in Windows, n \in Refnums : Renumber(w, n)
       \/ \E w \in Windows, a \in AllAccts : BindAcct(w, a)
       \/ \E w \in Windows, a \in Accts : BindAcct(w, a)
       \/ SwitchFocus \/ ToggleFocus
       \/ \E A \in SUBSET BlistAccts : Resize(A)
       \/ \E a \in Accts, pref \in SUBSET Windows : AcctConnect(a, pref)
       \/ \E a \in Accts : AcctDel(a) \/ CmdDisconnect(a)
       \/ Exit \/ ExitDelAcct \/ ScreenDestroy \/ UNCHANGED vars
  BY Zenon DEF Next, CmdFindWindow, GotoWindow, CycleFwd, CycleBak, CycleFwdActive,
               CycleBakActive, BindNextAcct
<1> QED BY <1>1, <1>2, <1>3, <1>4, <1>5, <1>6, <1>7, <1>8, <1>9, <1>10, <1>11, <1>12,
           <1>13, <1>14, Zenon

LEMMA AcctInvAlways == Spec => [](AcctInv /\ WinInv)
<1>1. Init => StatusKept
  BY DEF Init, StatusKept, OpenWins, NewWin
<1> QED BY <1>1, AcctInvInit, AcctInvStep, StatusStep, WindowsWellFormed, PTL DEF Spec

(* An account's reference count is the number of windows it owns, through  *)
(* every creation, rebinding, deletion and the program's exit.             *)
THEOREM CountsAreExact == Spec => []RefCountExact
<1>1. AcctInv => RefCountExact
  BY DEF AcctInv, Exact, RefCountExact
<1> QED BY <1>1, AcctInvAlways, PTL

(* No window is left with an owner that has been freed or has left the     *)
(* list (pork_acct_del hands all of them on before it frees).              *)
THEOREM OwnersAreListed == Spec => []OwnersListed
<1>1. AcctInv => OwnersListed
  BY DEF AcctInv
<1> QED BY <1>1, AcctInvAlways, PTL

(* Windows and accounts agree (the invariant that the model checker runs): *)
(* counts, owners and buddy lists are those of accounts that are there.    *)
THEOREM WindowsAndAccountsAgree == Spec => []OwnersAgree
<1>1. RefCountExact /\ OwnersListed /\ BlistSound => OwnersAgree
  BY DEF OwnersAgree
<1> QED BY <1>1, CountsAreExact, OwnersAreListed, BlistSafe, PTL

(* "This must always be the case" (pork_acct.c:188): an account that has   *)
(* left the list has no reference left, and is freed at that point.        *)
THEOREM UnlistedAreFreed == Spec => []UnlistedFreed
<1>1. AcctInv => UnlistedFreed
  BY DEF AcctInv, UnlistedFreed
<1> QED BY <1>1, AcctInvAlways, PTL

(* Every variable keeps its type; the counts never go below zero.          *)
THEOREM TypeCorrect == Spec => []TypeOK
<1>1. ASSUME AcctInv, WinInv PROVE TypeOK
  <2>1. OpenWins \subseteq Windows /\ win \in [OpenWins -> WinRec]
    BY <1>1 DEF WinInv, GoodWin, GoodRec, IsOn, OpenWins
  <2>2. cur_window \in Windows /\ phase \in {"running", "exiting", "done"}
    BY <1>1 DEF WinInv
  <2>3. acct_list \in Seq(AllAccts) /\ alive \subseteq AllAccts
    BY <1>1, ListedAreAccts DEF AcctInv, GoodList
  <2>4. ref_count \in [AllAccts -> Nat]
    <3>1. \A a \in AllAccts : Cardinality(OwnedBy(win, a)) \in Nat
      BY <1>1, OwnedFinite DEF WinInv, GoodWin
    <3>2. ref_count \in [AllAccts -> Int]
          /\ \A a \in AllAccts : ref_count[a] = Cardinality(OwnedBy(win, a))
      BY <1>1 DEF AcctInv, Exact
    <3> QED BY <3>1, <3>2
  <2> QED BY <2>1, <2>2, <2>3, <2>4 DEF TypeOK
<1> QED BY <1>1, AcctInvAlways, PTL

-----------------------------------------------------------------------------
(* PorkScreen implements WindowSet.                                        *)

LEMMA PromiseInit == Init => Promise!Init
<1> SUFFICES ASSUME Init PROVE Promise!Init
  OBVIOUS
<1>1. OpenWins = {StatusWin} /\ win[StatusWin].num = 1 /\ cur_window = StatusWin
  BY DEF Init, OpenWins, NewWin
<1> QED BY <1>1, WindowsAssumption DEF Promise!Init

LEMMA PromiseStep ==
    ASSUME WinInv, VisibleIsCurrent, CurrentIsOpen, CurrentIsOpen', [Next]_vars
    PROVE  [Promise!Next]_(Promise!winVars)
<1> DEFINE num == [w \in OpenWins |-> win[w].num]
<1>1. GoodWin(win)
  BY DEF WinInv
<1>2. Shape
  BY <1>1, ShapeOfStep
<1>3. /\ Promise!Open = OpenWins
      /\ Promise!Used = UsedRefnums
      /\ \A U, n : IsNewRefnum(U, n) => Promise!IsNewRefnum(U, n)
  BY DEF Promise!Open, Promise!Used, Promise!IsNewRefnum, IsNewRefnum, UsedRefnums
<1>4. num' = [w \in DOMAIN win' |-> win'[w].num]
  BY DEF OpenWins
<1>5. ASSUME NEW v, NEW x \in OpenWins
      PROVE  Swapped(win, cur_window, v)[x].num = win[x].num
  BY <1>1, SwappedFields DEF OpenWins
<1>6. ASSUME NEW w \in Windows, NEW sw \in BOOLEAN, Opens(w, sw)
      PROVE  IF sw THEN Promise!NewAndSwitch(w) ELSE Promise!NewWindow(w)
  <2>1. PICK n \in Refnums, ty \in {"privmsg", "chat"}, a \in Owners, t \in Targets,
             show \in BOOLEAN :
          /\ IsNewRefnum(UsedRefnums, n)
          /\ win' = IF sw THEN Swapped(Opened(w, n, ty, a, t, show), cur_window, w)
                    ELSE Opened(w, n, ty, a, t, show)
    BY <1>6 DEF Opens
  <2> DEFINE W == Opened(w, n, ty, a, t, show)
  <2>2. GoodWin(W)
    BY <1>1, OpenedGood
  <2>3. /\ DOMAIN W = OpenWins \cup {w} /\ w \in Windows \ OpenWins
        /\ \A x \in OpenWins : W[x].num = win[x].num
        /\ W[w].num = n
    BY <1>6 DEF Opened, NewWin, Opens
  <2>4. /\ DOMAIN Swapped(W, cur_window, w) = DOMAIN W
        /\ \A x \in DOMAIN W : Swapped(W, cur_window, w)[x].num = W[x].num
    BY <2>2, SwappedDomain, SwappedFields
  <2>5. win' = IF sw THEN Swapped(W, cur_window, w) ELSE W
    BY <2>1
  <2> HIDE DEF W
  <2>6. num' = [v \in OpenWins \cup {w} |-> IF v = w THEN n ELSE num[v]]
    BY <1>4, <2>3, <2>4, <2>5
  <2>7. n \in 0 .. MaxRefnum /\ Promise!IsNewRefnum(Promise!Used, n)
    BY <1>3, <2>1 DEF Refnums
  <2>8. cur_window' = IF sw THEN w ELSE cur_window
    BY <1>6 DEF Opens
  <2> HIDE DEF num
  <2>9. CASE sw
    BY <1>3, <2>3, <2>6, <2>7, <2>8, <2>9 DEF Promise!NewAndSwitch, num
  <2>10. CASE ~sw
    BY <1>3, <2>3, <2>6, <2>7, <2>8, <2>10 DEF Promise!NewWindow, num
  <2> QED BY <2>9, <2>10
<1>7. ASSUME NEW w \in Windows, SwapsTo(w) PROVE Promise!Switch
  <2>1. DOMAIN win' = OpenWins /\ cur_window' = w /\ w \in OpenWins
        /\ win' = Swapped(win, cur_window, w)
    BY <1>7, SwappedDomain DEF SwapsTo, OpenWins
  <2>2. num' = num
    BY <1>4, <1>5, <2>1
  <2> QED BY <1>3, <2>1, <2>2 DEF Promise!Switch
<1>8. ASSUME NEW w \in Windows, Closes(w) PROVE Promise!CloseWindow(w)
  <2>1. phase # "done" /\ w \in OpenWins /\ phase' = phase
    BY <1>8 DEF Closes, Running
  <2>2. /\ DOMAIN win' = OpenWins \ {w}
        /\ \A x \in DOMAIN win' : win'[x].num = win[x].num
    BY <1>5, <1>8 DEF Closes
  <2>3. cur_window' \in OpenWins \ {w}
    BY <2>1, <2>2 DEF CurrentIsOpen, OpenWins
  <2>4. w # cur_window => cur_window' = cur_window
    BY <1>8, <2>1 DEF VisibleIsCurrent, Closes
  <2>5. num' = [v \in OpenWins \ {w} |-> num[v]]
    BY <1>4, <2>2
  <2> QED BY <1>3, <2>1, <2>3, <2>4, <2>5 DEF Promise!CloseWindow
<1>9. ASSUME NEW w \in Windows, NEW n \in Refnums, Renumbers(w, n)
      PROVE  Promise!Renumber(w, n)
  <2>1. w \in OpenWins /\ win' = Renumbered(win, w, n) /\ cur_window' = cur_window
    BY <1>9 DEF Renumbers
  <2>2. DOMAIN win' = OpenWins
    BY <2>1 DEF Renumbered, OpenWins
  <2>3. ASSUME NEW x \in OpenWins
        PROVE  win'[x].num = IF x = w THEN n
                             ELSE IF win[x].num = n THEN win[w].num ELSE win[x].num
    <3>1. GoodRec(win[x]) /\ GoodRec(win[w])
      BY <1>1, <2>1 DEF GoodWin, OpenWins
    <3>2. win'[x] = IF x = w THEN [win[x] EXCEPT !.num = n]
                    ELSE IF win[x].num = n THEN [win[x] EXCEPT !.num = win[w].num]
                    ELSE win[x]
      BY <2>1 DEF Renumbered, OpenWins
    <3> QED BY <3>1, <3>2 DEF GoodRec, WinRec
  <2>4. num' = [v \in OpenWins |-> IF v = w THEN n
                                  ELSE IF num[v] = n THEN num[w] ELSE num[v]]
    BY <1>4, <2>1, <2>2, <2>3
  <2> QED BY <1>3, <2>1, <2>4 DEF Promise!Renumber
<1>10. ASSUME Windowwise PROVE UNCHANGED Promise!winVars
  <2>1. DOMAIN win' = OpenWins /\ cur_window' = cur_window
    BY <1>10 DEF Windowwise, IsOn
  <2>2. \A x \in OpenWins : win'[x].num = win[x].num
    BY <1>10 DEF Windowwise, KeptWindow, SameWindow
  <2>3. num' = num
    BY <1>4, <2>1, <2>2
  <2> QED BY <2>1, <2>3 DEF Promise!winVars
<1>11. ASSUME Ends PROVE Promise!Quit
  <2>1. DOMAIN win' = {} /\ cur_window' = cur_window
    BY <1>11 DEF Ends
  <2>2. num' = [v \in {} |-> 0]
    BY <1>4, <2>1
  <2> QED BY <2>1, <2>2 DEF Promise!Quit
<1>12. Refnums = 0 .. MaxRefnum
  BY DEF Refnums
<1> HIDE DEF num
<1> QED BY <1>2, <1>6, <1>7, <1>8, <1>9, <1>10, <1>11, <1>12 DEF Shape, Promise!Next

(* The windows of PorkScreen behave as doc/help/win promises, provided     *)
(* nobody skips the status window.                                         *)
THEOREM WindowsAsPromised ==
    ASSUME StatusWin \notin Skippable
    PROVE  Spec => ImplementsWindowSet
<1>1. Spec => []CurrentIsOpen
  BY CurrentStaysOpen
<1> QED BY <1>1, PromiseInit, PromiseStep, WindowsWellFormed, VisibleFollowsCurrent, PTL
        DEF Spec, ImplementsWindowSet, Promise!Spec

-----------------------------------------------------------------------------
(* Sequences that are cut in two and glued together.                       *)
LEMMA MinIs ==
    ASSUME NEW T, T \subseteq Nat, T # {}
    PROVE  Min(T) \in T /\ \A y \in T : Min(T) <= y
<1>1. PICK x \in T : \A y \in T : ~(<<y, x>> \in OpToRel(<, Nat))
  BY NatLessThanWellFounded, WFMin
<1>2. ASSUME NEW y \in T PROVE x <= y
  <2>1. ~(y < x)
    BY <1>1 DEF OpToRel
  <2> QED BY <2>1
<1> QED BY <1>2 DEF Min

LEMMA MaxIs ==
    ASSUME NEW n \in Nat, NEW T, T \subseteq 0 .. n, T # {}
    PROVE  Max(T) \in T /\ \A y \in T : y <= Max(T)
<1> DEFINE U == {n - y : y \in T}
<1>1. U \subseteq Nat /\ U # {}
  OBVIOUS
<1>2. Min(U) \in U /\ \A u \in U : Min(U) <= u
  BY <1>1, MinIs
<1>3. PICK x \in T : Min(U) = n - x
  BY <1>2
<1>4. ASSUME NEW y \in T PROVE x >= y
  <2>1. n - x <= n - y
    BY <1>2, <1>3
  <2> QED BY <2>1
<1> QED BY <1>4 DEF Max

LEMMA Cut ==
    ASSUME NEW S, NEW s \in Seq(S), NEW p \in 0 .. Len(s)
    PROVE  /\ SubSeq(s, 1, p) \in Seq(S) /\ Len(SubSeq(s, 1, p)) = p
           /\ \A i \in 1 .. p : SubSeq(s, 1, p)[i] = s[i]
           /\ SubSeq(s, p + 1, Len(s)) \in Seq(S)
           /\ Len(SubSeq(s, p + 1, Len(s))) = Len(s) - p
           /\ \A i \in 1 .. Len(s) - p : SubSeq(s, p + 1, Len(s))[i] = s[p + i]
<1>1. Len(s) \in Nat /\ \A i \in 1 .. Len(s) : s[i] \in S
  BY LenProperties, ElementOfSeq
<1>2. /\ SubSeq(s, 1, p) \in Seq(S)
      /\ Len(SubSeq(s, 1, p)) = IF 1 <= p THEN p - 1 + 1 ELSE 0
      /\ \A i \in 1 .. p - 1 + 1 : SubSeq(s, 1, p)[i] = s[1 + i - 1]
  BY <1>1, SubSeqProperties
<1>3. /\ SubSeq(s, p + 1, Len(s)) \in Seq(S)
      /\ Len(SubSeq(s, p + 1, Len(s))) = IF p + 1 <= Len(s) THEN Len(s) - (p + 1) + 1 ELSE 0
      /\ \A i \in 1 .. Len(s) - (p + 1) + 1 :
            SubSeq(s, p + 1, Len(s))[i] = s[p + 1 + i - 1]
  BY <1>1, SubSeqProperties
<1> DEFINE u == SubSeq(s, 1, p)
           v == SubSeq(s, p + 1, Len(s))
<1> HIDE DEF u, v
<1>4. u \in Seq(S) /\ Len(u) = p /\ \A i \in 1 .. p : u[i] = s[i]
  <2>1. \A i \in 1 .. p - 1 + 1 : u[i] = s[1 + i - 1]
    BY <1>2 DEF u
  <2>2. \A i \in 1 .. p : i \in 1 .. p - 1 + 1 /\ 1 + i - 1 = i
    OBVIOUS
  <2>3. Len(u) = p
    BY <1>2 DEF u
  <2> QED BY <1>2, <2>1, <2>2, <2>3 DEF u
<1>5. v \in Seq(S) /\ Len(v) = Len(s) - p /\ \A i \in 1 .. Len(s) - p : v[i] = s[p + i]
  <2>1. \A i \in 1 .. Len(s) - (p + 1) + 1 : v[i] = s[p + 1 + i - 1]
    BY <1>3 DEF v
  <2>2. \A i \in 1 .. Len(s) - p : i \in 1 .. Len(s) - (p + 1) + 1 /\ p + 1 + i - 1 = p + i
    BY <1>1
  <2>3. Len(v) = Len(s) - p
    BY <1>1, <1>3 DEF v
  <2> QED BY <1>3, <2>1, <2>2, <2>3 DEF v
<1> QED BY <1>4, <1>5 DEF u, v

LEMMA Glued ==
    ASSUME NEW S, NEW s \in Seq(S), NEW p \in 0 .. Len(s)
    PROVE  SubSeq(s, 1, p) \o SubSeq(s, p + 1, Len(s)) = s
<1>1. Len(s) \in Nat
  BY LenProperties
<1>2. 1 \in 1 .. Len(s) + 1 /\ p \in 1 - 1 .. Len(s) /\ Len(s) \in p .. Len(s)
  BY <1>1
<1>3. SubSeq(s, 1, p) \o SubSeq(s, p + 1, Len(s)) = SubSeq(s, 1, Len(s))
  BY <1>2, ConcatAdjacentSubSeq
<1> QED BY <1>3, SubSeqFull

LEMMA Joined ==
    ASSUME NEW S, NEW a \in Seq(S), NEW b \in Seq(S)
    PROVE  /\ a \o b \in Seq(S) /\ Len(a \o b) = Len(a) + Len(b)
           /\ SubSeq(a \o b, 1, Len(a)) = a
           /\ SubSeq(a \o b, Len(a) + 1, Len(a \o b)) = b
<1> DEFINE c == a \o b
<1>1. /\ c \in Seq(S) /\ Len(c) = Len(a) + Len(b)
      /\ \A i \in 1 .. Len(a) + Len(b) : c[i] = IF i <= Len(a) THEN a[i] ELSE b[i - Len(a)]
  BY ConcatProperties
<1>2. Len(a) \in Nat /\ Len(b) \in Nat
  BY LenProperties
<1> HIDE DEF c
<1> DEFINE u == SubSeq(c, 1, Len(a))
           v == SubSeq(c, Len(a) + 1, Len(c))
<1>3. /\ u \in Seq(S) /\ Len(u) = Len(a) /\ \A i \in 1 .. Len(a) : u[i] = c[i]
      /\ v \in Seq(S) /\ Len(v) = Len(c) - Len(a)
      /\ \A i \in 1 .. Len(c) - Len(a) : v[i] = c[Len(a) + i]
  <2>1. Len(a) \in 0 .. Len(c)
    BY <1>1, <1>2
  <2> QED BY <1>1, <2>1, Cut
<1> HIDE DEF u, v
<1>4. u = a
  <2>1. \A i \in 1 .. Len(u) : u[i] = a[i]
    BY <1>1, <1>2, <1>3
  <2> QED BY <1>3, <2>1, SeqEqual
<1>5. v = b
  <2>1. Len(v) = Len(b)
    BY <1>1, <1>2, <1>3
  <2>2. ASSUME NEW i \in 1 .. Len(v) PROVE v[i] = b[i]
    <3>1. v[i] = c[Len(a) + i]
      BY <1>1, <1>2, <1>3, <2>1
    <3>2. Len(a) + i \in 1 .. Len(a) + Len(b) /\ ~(Len(a) + i <= Len(a)) /\ Len(a) + i - Len(a) = i
      BY <1>2, <2>1
    <3> QED BY <1>1, <3>1, <3>2
  <2> QED BY <1>3, <2>1, <2>2, SeqEqual
<1> QED BY <1>1, <1>4, <1>5 DEF c, u, v

LEMMA LongerPrefix ==
    ASSUME NEW S, NEW a \in Seq(S), NEW b \in Seq(S)
    PROVE  IsPrefix(a, a \o b)
<1>1. Len(a) \in Nat /\ Len(b) \in Nat
  BY LenProperties
<1> QED BY <1>1, Joined, SubSeqFull DEF IsPrefix

LEMMA SamePrefix ==
    ASSUME NEW S, NEW s \in Seq(S)
    PROVE  IsPrefix(s, s)
<1> QED BY LenProperties DEF IsPrefix

(* What is cut off earlier begins what is cut off later.                   *)
LEMMA CutPrefix ==
    ASSUME NEW S, NEW s \in Seq(S), NEW q \in 0 .. Len(s), NEW p \in 0 .. q
    PROVE  IsPrefix(SubSeq(s, 1, p), SubSeq(s, 1, q))
<1>1. Len(s) \in Nat /\ p \in 0 .. Len(s)
  BY LenProperties
<1>2. SubSeq(s, 1, q) = SubSeq(s, 1, p) \o SubSeq(s, p + 1, q)
  <2>1. 1 \in 1 .. Len(s) + 1 /\ p \in 1 - 1 .. Len(s) /\ q \in p .. Len(s)
    BY <1>1
  <2> QED BY <2>1, ConcatAdjacentSubSeq
<1>3. SubSeq(s, 1, p) \in Seq(S)
  BY <1>1, Cut
<1>4. SubSeq(s, p + 1, q) \in Seq(S)
  <2>1. \A i \in p + 1 .. q : s[i] \in S
    BY <1>1, ElementOfSeq
  <2> QED BY <1>1, <2>1, SubSeqProperties
<1> QED BY <1>2, <1>3, <1>4, LongerPrefix

(* What is left later ends what is left earlier.                           *)
LEMMA CutSuffix ==
    ASSUME NEW S, NEW s \in Seq(S), NEW q \in 0 .. Len(s), NEW p \in 0 .. q
    PROVE  IsSuffix(SubSeq(s, q + 1, Len(s)), SubSeq(s, p + 1, Len(s)))
<1> DEFINE a == SubSeq(s, q + 1, Len(s))
           b == SubSeq(s, p + 1, Len(s))
<1>1. Len(s) \in Nat /\ p \in 0 .. Len(s)
  BY LenProperties
<1>2. /\ a \in Seq(S) /\ Len(a) = Len(s) - q
      /\ \A i \in 1 .. Len(s) - q : a[i] = s[q + i]
  BY Cut
<1>3. /\ b \in Seq(S) /\ Len(b) = Len(s) - p
      /\ \A i \in 1 .. Len(s) - p : b[i] = s[p + i]
  BY <1>1, Cut
<1> HIDE DEF a, b
<1> DEFINE x == [i \in 1 .. Len(a) |-> a[Len(a) - i + 1]]
           y == [i \in 1 .. Len(b) |-> b[Len(b) - i + 1]]
<1>4. x \in Seq(S) /\ y \in Seq(S) /\ Len(x) = Len(a) /\ Len(y) = Len(b)
  <2>1. Len(a) \in Nat /\ Len(b) \in Nat
    BY <1>1, <1>2, <1>3
  <2>2. \A i \in 1 .. Len(a) : a[Len(a) - i + 1] \in S
    BY <1>2, <2>1, ElementOfSeq
  <2>3. \A i \in 1 .. Len(b) : b[Len(b) - i + 1] \in S
    BY <1>3, <2>1, ElementOfSeq
  <2> QED BY <2>1, <2>2, <2>3
<1>5. \A i \in 1 .. Len(a) : x[i] = y[i]
  <2> SUFFICES ASSUME NEW i \in 1 .. Len(a) PROVE a[Len(a) - i + 1] = b[Len(b) - i + 1]
    BY <1>1, <1>2, <1>3
  <2>1. /\ Len(a) - i + 1 \in 1 .. Len(s) - q /\ Len(b) - i + 1 \in 1 .. Len(s) - p
        /\ q + (Len(a) - i + 1) = p + (Len(b) - i + 1)
    BY <1>1, <1>2, <1>3
  <2> QED BY <1>2, <1>3, <2>1
<1> HIDE DEF x, y
<1>6. Len(x) \in 0 .. Len(y) /\ Len(x) \in 0 .. Len(x)
  BY <1>1, <1>2, <1>3, <1>4
<1>7. /\ SubSeq(y, 1, Len(x)) \in Seq(S) /\ Len(SubSeq(y, 1, Len(x))) = Len(x)
      /\ \A i \in 1 .. Len(x) : SubSeq(y, 1, Len(x))[i] = y[i]
  BY <1>4, <1>6, Cut
<1>8. SubSeq(y, 1, Len(x)) = x
  <2> DEFINE z == SubSeq(y, 1, Len(x))
  <2> HIDE DEF z
  <2>1. z \in Seq(S) /\ Len(z) = Len(x) /\ \A i \in 1 .. Len(z) : z[i] = x[i]
    BY <1>4, <1>5, <1>7 DEF z
  <2> QED BY <2>1, <1>4, SeqEqual DEF z
<1>9. IsPrefix(x, y)
  BY <1>4, <1>6, <1>8, SubSeqFull DEF IsPrefix
<1> QED BY <1>9 DEF IsSuffix, Reverse, x, y, a, b

-----------------------------------------------------------------------------
(* The line as the invariant has it.                                       *)
Short(cap) == {t \in Seq(Char) : Len(t) <= cap}
Harms == {"none", "below", "freed", "behind"}
LineRec ==
    [text : Seq(Char), cur : Nat, begin : Nat, prompt : {0, PromptLen},
     width : Nat \ {0}, hist : Seq(Seq(Char)), hcur : Int, max : Nat, gone : BOOLEAN,
     cut : BOOLEAN, blank : BOOLEAN, dirty : BOOLEAN, harm : Harms]

(* If the cursor is before the prompt there is nothing on the line.        *)
CursorOk(L) ==
    IF Pos(L) >= 0 THEN Pos(L) <= Len0(L) /\ L.prompt <= L.begin /\ L.begin <= L.cur
    ELSE L.text = <<>> /\ L.begin = L.cur

(* What is recalled is in the history, unless that was cut.                *)
HistOk(L) ==
    /\ L.hcur \in -1 .. Len(L.hist)
    /\ L.hcur = -1 \/ L.gone \/ L.max < 2 => L.cut

(* What is completed of an argument starts behind the blanks before it.    *)
BeginOk(L) ==
    L.prompt < L.begin /\ L.begin < L.cur /\ At(L, 0) = Slash /\ Word(L) < L.begin - L.prompt
       => AfterBlanks(L, Word(L)) <= L.begin - L.prompt

Fine(cap, L) ==
    /\ L \in LineRec
    /\ L.text \in Short(cap) /\ L.hist \in Seq(Short(cap))
    /\ CursorOk(L) /\ HistOk(L) /\ BeginOk(L)

(* The two sides of the cursor, and how much was not completed.            *)
SplitOf(L) == IF Pos(L) < 0 THEN 0 ELSE Pos(L)
LeftOf(L) == Till(L, SplitOf(L))
RightOf(L) == From(L, SplitOf(L))
MarkOf(L) == IF L.begin <= L.prompt \/ L.begin >= L.cur THEN SplitOf(L)
             ELSE L.begin - L.prompt

(* The two sides of a line.                                                *)
LEMMA Sides ==
    ASSUME NEW cap \in Nat, NEW L, Fine(cap, L)
    PROVE  /\ L.text \in Seq(Char) /\ Len0(L) \in Nat /\ Len0(L) <= cap
           /\ Pos(L) \in Int /\ SplitOf(L) \in 0 .. Len0(L)
           /\ LeftOf(L) \in Seq(Char) /\ Len(LeftOf(L)) = SplitOf(L)
           /\ RightOf(L) \in Seq(Char) /\ Len(RightOf(L)) = Len0(L) - SplitOf(L)
           /\ LeftOf(L) \o RightOf(L) = L.text
<1>1. L.text \in Seq(Char) /\ Len0(L) \in Nat /\ Len0(L) <= cap
  BY LenProperties DEF Fine, Short, Len0
<1>2. Pos(L) \in Int
  BY DEF Fine, LineRec, Pos, PromptLen
<1>3. SplitOf(L) \in 0 .. Len0(L)
  <2>1. Pos(L) >= 0 => Pos(L) <= Len0(L)
    BY DEF Fine, CursorOk
  <2> QED BY <1>1, <1>2, <2>1 DEF SplitOf
<1> HIDE DEF SplitOf
<1>4. SplitOf(L) \in 0 .. Len(L.text)
  BY <1>3 DEF Len0
<1>5. PICK s \in Seq(Char) : s = L.text
  BY <1>1
<1>9. PICK n \in 0 .. Len(s) : n = SplitOf(L)
  BY <1>4, <1>5
<1>6. /\ SubSeq(s, 1, n) \in Seq(Char) /\ Len(SubSeq(s, 1, n)) = n
      /\ SubSeq(s, n + 1, Len(s)) \in Seq(Char)
      /\ Len(SubSeq(s, n + 1, Len(s))) = Len(s) - n
  BY Cut
<1>7. SubSeq(s, 1, n) \o SubSeq(s, n + 1, Len(s)) = s
  BY Glued
<1>8. LeftOf(L) = SubSeq(s, 1, n) /\ RightOf(L) = SubSeq(s, n + 1, Len(s)) /\ Len0(L) = Len(s)
  BY <1>5, <1>9 DEF LeftOf, RightOf, Till, From, Len0
<1> QED BY <1>1, <1>2, <1>3, <1>5, <1>6, <1>7, <1>8, <1>9

(* What a change leaves.                                                   *)
LEMMA PutIs ==
    ASSUME NEW L \in LineRec, NEW t \in Seq(Char), NEW p \in Int, p + L.prompt >= 0
    PROVE  LET M == Put(L, t, p)
           IN  /\ M \in LineRec
               /\ M.text = t /\ M.cur = p + L.prompt /\ M.begin = p + L.prompt /\ M.dirty
               /\ M.prompt = L.prompt /\ M.width = L.width /\ M.hist = L.hist
               /\ M.hcur = L.hcur /\ M.max = L.max /\ M.gone = L.gone /\ M.cut = L.cut
               /\ M.blank = L.blank /\ M.harm = L.harm /\ Pos(M) = p
<1> DEFINE M == Put(L, t, p)
<1>1. p + L.prompt \in Nat
  BY DEF LineRec, PromptLen
<1>2. M \in LineRec
  BY <1>1 DEF LineRec, Put
<1>3. /\ M.text = t /\ M.cur = p + L.prompt /\ M.begin = p + L.prompt /\ M.dirty
      /\ M.prompt = L.prompt /\ M.width = L.width /\ M.hist = L.hist
      /\ M.hcur = L.hcur /\ M.max = L.max /\ M.gone = L.gone /\ M.cut = L.cut
      /\ M.blank = L.blank /\ M.harm = L.harm
  BY DEF LineRec, Put
<1>4. Pos(M) = p
  <2>1. L.prompt \in Int
    BY DEF LineRec, PromptLen
  <2> HIDE DEF M
  <2> QED BY <1>3, <2>1 DEF Pos
<1> QED BY <1>2, <1>3, <1>4

LEMMA PutFine ==
    ASSUME NEW cap \in Nat, NEW L, Fine(cap, L),
           NEW t \in Short(cap), NEW p \in 0 .. Len(t)
    PROVE  LET M == Put(L, t, p)
           IN  /\ Fine(cap, M) /\ M.dirty /\ M.harm = L.harm
               /\ M.text = t /\ M.hist = L.hist /\ Pos(M) = p /\ M.begin = M.cur
               /\ M.prompt = L.prompt /\ M.cut = L.cut /\ M.hcur = L.hcur
               /\ LeftOf(M) = SubSeq(t, 1, p) /\ RightOf(M) = SubSeq(t, p + 1, Len(t))
<1> DEFINE M == Put(L, t, p)
<1>1. L \in LineRec /\ t \in Seq(Char) /\ p \in Nat /\ p <= Len(t) /\ Len(t) \in Nat
  BY LenProperties DEF Fine, Short
<1>2. p + L.prompt >= 0
  BY <1>1 DEF LineRec, PromptLen
<1>3. /\ M \in LineRec
      /\ M.text = t /\ M.cur = p + L.prompt /\ M.begin = p + L.prompt /\ M.dirty
      /\ M.prompt = L.prompt /\ M.hist = L.hist
      /\ M.hcur = L.hcur /\ M.max = L.max /\ M.gone = L.gone /\ M.cut = L.cut
      /\ M.harm = L.harm /\ Pos(M) = p
  BY <1>1, <1>2, PutIs
<1> HIDE DEF M
<1>4. CursorOk(M)
  BY <1>1, <1>2, <1>3 DEF CursorOk, Len0, LineRec, PromptLen
<1>5. HistOk(M)
  BY <1>3 DEF HistOk, Fine
<1>6. BeginOk(M)
  BY <1>3 DEF BeginOk, LineRec
<1>7. Fine(cap, M)
  BY <1>3, <1>4, <1>5, <1>6 DEF Fine
<1>8. SplitOf(M) = p
  BY <1>1, <1>3 DEF SplitOf
<1>9. LeftOf(M) = SubSeq(t, 1, p) /\ RightOf(M) = SubSeq(t, p + 1, Len(t))
  BY <1>3, <1>8 DEF LeftOf, RightOf, Till, From, Len0
<1> QED BY <1>3, <1>7, <1>9 DEF M

(* A line of two parts with the cursor between them.                       *)
LEMMA PutJoined ==
    ASSUME NEW cap \in Nat, NEW L, Fine(cap, L),
           NEW a \in Seq(Char), NEW b \in Seq(Char), Len(a) + Len(b) <= cap,
           NEW p, p = Len(a)
    PROVE  LET M == Put(L, a \o b, p)
           IN  /\ Fine(cap, M) /\ M.dirty /\ M.harm = L.harm
               /\ M.text = a \o b /\ M.hist = L.hist /\ Pos(M) = p /\ M.begin = M.cur
               /\ M.prompt = L.prompt /\ M.cut = L.cut /\ M.hcur = L.hcur
               /\ LeftOf(M) = a /\ RightOf(M) = b
<1>1. Len(a) \in Nat /\ Len(b) \in Nat
  BY LenProperties
<1>2. /\ a \o b \in Seq(Char) /\ Len(a \o b) = Len(a) + Len(b)
      /\ SubSeq(a \o b, 1, Len(a)) = a /\ SubSeq(a \o b, Len(a) + 1, Len(a \o b)) = b
  BY Joined
<1> DEFINE t == a \o b
<1>3. t \in Short(cap) /\ p \in 0 .. Len(t)
  BY <1>1, <1>2 DEF Short
<1>4. SubSeq(t, 1, p) = a /\ SubSeq(t, p + 1, Len(t)) = b
  BY <1>2
<1> HIDE DEF t
<1>5. LET M == Put(L, t, p)
      IN  /\ Fine(cap, M) /\ M.dirty /\ M.harm = L.harm
          /\ M.text = t /\ M.hist = L.hist /\ Pos(M) = p /\ M.begin = M.cur
          /\ M.prompt = L.prompt /\ M.cut = L.cut /\ M.hcur = L.hcur
          /\ LeftOf(M) = SubSeq(t, 1, p) /\ RightOf(M) = SubSeq(t, p + 1, Len(t))
  BY <1>3, PutFine
<1> QED BY <1>4, <1>5 DEF t

-----------------------------------------------------------------------------
(* The steps of LineEdit, from one line to another.                        *)
SameHist(L, M) == M.hist = L.hist
TrimsOf(h) == {SubSeq(h, 1, n) : n \in 0 .. Len(h)}
TextOf(L) == LeftOf(L) \o RightOf(L)

Inserts(L, M) == IsPrefix(LeftOf(L), LeftOf(M)) /\ RightOf(M) = RightOf(L) /\ SameHist(L, M)
Rubs(L, M) == IsPrefix(LeftOf(M), LeftOf(L)) /\ RightOf(M) = RightOf(L) /\ SameHist(L, M)
Kills(L, M) == IsSuffix(RightOf(M), RightOf(L)) /\ LeftOf(M) = LeftOf(L) /\ SameHist(L, M)
Moves(L, M) == TextOf(M) = TextOf(L) /\ SameHist(L, M)
Empties(L, M) == LeftOf(M) = <<>> /\ RightOf(M) = <<>> /\ M.hist \in {L.hist, <<>>}
Forgets(L, M) ==
    M.hist \in TrimsOf(L.hist) /\ LeftOf(M) = LeftOf(L) /\ RightOf(M) = RightOf(L)
Enters(L, M) ==
    /\ TextOf(L) # <<>> /\ LeftOf(M) = <<>> /\ RightOf(M) = <<>>
    /\ M.hist \in TrimsOf(<<TextOf(L)>> \o L.hist)
Recalls(L, M) ==
    /\ RightOf(M) = <<>> /\ \E i \in DOMAIN L.hist : LeftOf(M) = L.hist[i]
    /\ M.hist \in {L.hist} \cup TrimsOf(<<TextOf(L)>> \o L.hist)
Completes(L, M) ==
    /\ IsPrefix(SubSeq(LeftOf(L), 1, MarkOf(L)), LeftOf(M))
    /\ RightOf(M) = RightOf(L) /\ SameHist(L, M)

Edits(L, M) ==
    \/ Inserts(L, M) \/ Rubs(L, M) \/ Kills(L, M) \/ Moves(L, M) \/ Empties(L, M)
    \/ Forgets(L, M) \/ Enters(L, M) \/ Recalls(L, M) \/ Completes(L, M)

(* How the program comes to harm.                                          *)
HarmOk(cap, M) ==
    /\ M.harm = "below" => Pos(M) < 0
    /\ M.harm = "freed" => M.cut
    /\ M.harm = "behind" =>
        \/ Pos(M) = 0 /\ Len0(M) = cap
        \/ Pos(M) > 0 /\ At(M, Pos(M) - 1) = Blank /\ At(M, Pos(M)) = Blank

(* What a handler makes of L, with the screen that it need not touch.      *)
Ok(cap, L, M) ==
    /\ Fine(cap, M) /\ HarmOk(cap, M) /\ Edits(L, M)
    /\ ~M.dirty => ~L.dirty /\ M.prompt = L.prompt /\ M.width = L.width
    /\ ~M.dirty /\ ~M.blank => ~L.blank /\ M.text = L.text /\ M.cur = L.cur

LEMMA ChangedOk ==
    ASSUME NEW cap \in Nat, NEW L, NEW M,
           Fine(cap, M), M.dirty, M.harm = "none", Edits(L, M)
    PROVE  Ok(cap, L, M)
<1> QED BY DEF Ok, HarmOk

LEMMA SameOk ==
    ASSUME NEW cap \in Nat, NEW L, Fine(cap, L), L.harm = "none"
    PROVE  Ok(cap, L, L)
<1>1. LeftOf(L) \in Seq(Char)
  BY Sides
<1>2. IsPrefix(LeftOf(L), LeftOf(L))
  BY <1>1, SamePrefix
<1>3. Inserts(L, L)
  BY <1>2 DEF Inserts, SameHist
<1> QED BY <1>3 DEF Ok, HarmOk, Edits

(* What else is changed does not move the cursor or the text.              *)
LEMMA AlikeIs ==
    ASSUME NEW cap \in Nat, NEW L, Fine(cap, L), NEW M \in LineRec,
           M.text = L.text, M.cur = L.cur, M.begin = L.begin, M.prompt = L.prompt,
           M.hist \in Seq(Short(cap)), HistOk(M)
    PROVE  /\ Fine(cap, M) /\ Pos(M) = Pos(L) /\ Len0(M) = Len0(L)
           /\ \A p : At(M, p) = At(L, p)
           /\ LeftOf(M) = LeftOf(L) /\ RightOf(M) = RightOf(L)
<1>2. Pos(M) = Pos(L) /\ Len0(M) = Len0(L)
  BY DEF Pos, Len0
<1>3. \A p : At(M, p) = At(L, p)
  BY <1>2 DEF At
<1>4. LeftOf(M) = LeftOf(L) /\ RightOf(M) = RightOf(L)
  BY <1>2 DEF LeftOf, RightOf, SplitOf, Till, From
<1>5. Word(M) = Word(L)
  BY <1>2, <1>3, Zenon DEF Word
<1>6. \A p : AfterBlanks(M, p) = AfterBlanks(L, p)
  BY <1>2, <1>3, Zenon DEF AfterBlanks
<1>7. BeginOk(M)
  <2>1. BeginOk(L)
    BY DEF Fine
  <2>2. At(M, 0) = At(L, 0)
    BY <1>3
  <2>3. AfterBlanks(M, Word(M)) = AfterBlanks(L, Word(L))
    BY <1>5, <1>6
  <2> QED BY <1>5, <2>1, <2>2, <2>3 DEF BeginOk
<1>8. CursorOk(M)
  BY <1>2 DEF Fine, CursorOk
<1>9. Fine(cap, M)
  BY <1>7, <1>8 DEF Fine
<1> QED BY <1>2, <1>3, <1>4, <1>9

LEMMA HarmIs ==
    ASSUME NEW cap \in Nat, NEW L, Fine(cap, L), NEW h \in Harms
    PROVE  LET M == Harm(L, h)
           IN  /\ Fine(cap, M) /\ M.harm = h /\ M.text = L.text /\ M.cur = L.cur
               /\ M.begin = L.begin /\ M.prompt = L.prompt /\ M.width = L.width
               /\ M.hist = L.hist /\ M.cut = L.cut /\ M.dirty = L.dirty /\ M.blank = L.blank
               /\ Pos(M) = Pos(L) /\ Len0(M) = Len0(L) /\ \A p : At(M, p) = At(L, p)
               /\ LeftOf(M) = LeftOf(L) /\ RightOf(M) = RightOf(L)
<1> DEFINE M == Harm(L, h)
<1>1. /\ M \in LineRec /\ M.harm = h /\ M.text = L.text /\ M.cur = L.cur
      /\ M.begin = L.begin /\ M.prompt = L.prompt /\ M.width = L.width
      /\ M.hist = L.hist /\ M.cut = L.cut /\ M.dirty = L.dirty /\ M.blank = L.blank
      /\ M.hcur = L.hcur /\ M.gone = L.gone /\ M.max = L.max
  BY DEF Fine, LineRec, Harm
<1> HIDE DEF M
<1>2. M.hist \in Seq(Short(cap)) /\ HistOk(M)
  BY <1>1 DEF Fine, HistOk
<1>3. /\ Fine(cap, M) /\ Pos(M) = Pos(L) /\ Len0(M) = Len0(L)
      /\ \A p : At(M, p) = At(L, p)
      /\ LeftOf(M) = LeftOf(L) /\ RightOf(M) = RightOf(L)
  BY <1>1, <1>2, AlikeIs
<1> QED BY <1>1, <1>3 DEF M

LEMMA HarmIsOk ==
    ASSUME NEW cap \in Nat, NEW L, Fine(cap, L),
           NEW h \in Harms, HarmOk(cap, Harm(L, h))
    PROVE  Ok(cap, L, Harm(L, h))
<1> DEFINE M == Harm(L, h)
<1>1. /\ Fine(cap, M) /\ M.text = L.text /\ M.cur = L.cur
      /\ M.prompt = L.prompt /\ M.width = L.width
      /\ M.hist = L.hist /\ M.dirty = L.dirty /\ M.blank = L.blank
      /\ LeftOf(M) = LeftOf(L) /\ RightOf(M) = RightOf(L)
  BY HarmIs
<1>2. LeftOf(L) \in Seq(Char)
  BY Sides
<1> HIDE DEF M
<1>3. IsPrefix(LeftOf(L), LeftOf(M))
  BY <1>1, <1>2, SamePrefix
<1>4. Edits(L, M)
  BY <1>1, <1>3 DEF Edits, Inserts, SameHist
<1>5. HarmOk(cap, M)
  BY DEF M
<1> QED BY <1>1, <1>4, <1>5 DEF Ok, M

(* Before the prompt nothing is changed.                                   *)
LEMMA BelowOk ==
    ASSUME NEW cap \in Nat, NEW L, Fine(cap, L), Pos(L) < 0
    PROVE  Ok(cap, L, Harm(L, "below"))
<1>1. "below" \in Harms
  BY DEF Harms
<1>2. Harm(L, "below").harm = "below" /\ Pos(Harm(L, "below")) = Pos(L)
  BY <1>1, HarmIs
<1>3. HarmOk(cap, Harm(L, "below"))
  BY <1>2 DEF HarmOk
<1> QED BY <1>1, <1>3, HarmIsOk

LEMMA FreedOk ==
    ASSUME NEW cap \in Nat, NEW L, Fine(cap, L), L.cut
    PROVE  Ok(cap, L, Harm(L, "freed"))
<1>1. "freed" \in Harms
  BY DEF Harms
<1>2. Harm(L, "freed").harm = "freed" /\ Harm(L, "freed").cut = L.cut
  BY <1>1, HarmIs
<1>3. HarmOk(cap, Harm(L, "freed"))
  BY <1>2 DEF HarmOk
<1> QED BY <1>1, <1>3, HarmIsOk

-----------------------------------------------------------------------------
(* Editing.                                                                *)
LEMMA PutsOk ==
    ASSUME NEW cap \in Nat, NEW L, Fine(cap, L), L.harm = "none",
           NEW a \in Seq(Char), NEW b \in Seq(Char), Len(a) + Len(b) <= cap,
           \/ IsPrefix(LeftOf(L), a) /\ b = RightOf(L)
           \/ IsPrefix(a, LeftOf(L)) /\ b = RightOf(L)
           \/ a = LeftOf(L) /\ IsSuffix(b, RightOf(L))
           \/ a \o b = L.text
           \/ a = <<>> /\ b = <<>>
    PROVE  Ok(cap, L, Put(L, a \o b, Len(a)))
<1> DEFINE M == Put(L, a \o b, Len(a))
<1>1. /\ Fine(cap, M) /\ M.dirty /\ M.harm = L.harm /\ M.hist = L.hist
      /\ LeftOf(M) = a /\ RightOf(M) = b
  BY PutJoined
<1>2. L.text = TextOf(L)
  BY Sides DEF TextOf
<1> HIDE DEF M
<1>3. Edits(L, M)
  BY <1>1, <1>2
     DEF Edits, Inserts, Rubs, Kills, Moves, Empties, TextOf, SameHist
<1>4. Ok(cap, L, M)
  BY <1>1, <1>3, ChangedOk
<1> QED BY <1>4 DEF M

(* The line without what is from p to q, and the cursor there.             *)
LEMMA CutOutOk ==
    ASSUME NEW cap \in Nat, NEW L, Fine(cap, L), L.harm = "none",
           NEW p \in 0 .. Len0(L), NEW q \in p .. Len0(L), Pos(L) = p \/ Pos(L) = q
    PROVE  Ok(cap, L, Put(L, Till(L, p) \o From(L, q), p))
<1> DEFINE a == Till(L, p)
           b == From(L, q)
<1>1. PICK s \in Seq(Char) : s = L.text /\ Len(s) \in Nat /\ Len(s) = Len0(L) /\ Len(s) <= cap
  BY Sides DEF Len0
<1>2. p \in 0 .. Len(s) /\ q \in 0 .. Len(s) /\ p \in 0 .. q
  BY <1>1
<1>3. a = SubSeq(s, 1, p) /\ b = SubSeq(s, q + 1, Len(s))
  BY <1>1 DEF Till, From
<1>4. a \in Seq(Char) /\ Len(a) = p
  BY <1>2, <1>3, Cut
<1>5. b \in Seq(Char) /\ Len(b) = Len(s) - q
  BY <1>2, <1>3, Cut
<1>6. SplitOf(L) = Pos(L)
  BY <1>2 DEF SplitOf
<1>7. LeftOf(L) = SubSeq(s, 1, Pos(L)) /\ RightOf(L) = SubSeq(s, Pos(L) + 1, Len(s))
  BY <1>1, <1>6 DEF LeftOf, RightOf, Till, From
<1>8. IsPrefix(SubSeq(s, 1, p), SubSeq(s, 1, q))
  BY <1>2, CutPrefix
<1>9. IsSuffix(SubSeq(s, q + 1, Len(s)), SubSeq(s, p + 1, Len(s)))
  BY <1>2, CutSuffix
<1> HIDE DEF a, b
<1>10. \/ IsPrefix(a, LeftOf(L)) /\ b = RightOf(L)
       \/ a = LeftOf(L) /\ IsSuffix(b, RightOf(L))
  <2>1. CASE Pos(L) = q
    <3>1. IsPrefix(a, LeftOf(L))
      BY <1>3, <1>7, <1>8, <2>1
    <3>2. b = RightOf(L)
      BY <1>3, <1>7, <2>1
    <3> QED BY <3>1, <3>2
  <2>2. CASE Pos(L) = p
    <3>1. a = LeftOf(L)
      BY <1>3, <1>7, <2>2
    <3>2. IsSuffix(b, RightOf(L))
      BY <1>3, <1>7, <1>9, <2>2
    <3> QED BY <3>1, <3>2
  <2> QED BY <2>1, <2>2
<1>11. Len(a) + Len(b) <= cap
  BY <1>1, <1>2, <1>4, <1>5
<1>12. Ok(cap, L, Put(L, a \o b, Len(a)))
  BY <1>4, <1>5, <1>10, <1>11, PutsOk
<1> QED BY <1>4, <1>12 DEF a, b

LEMMA MovedOk ==
    ASSUME NEW cap \in Nat, NEW L, Fine(cap, L), L.harm = "none", NEW p \in 0 .. Len0(L)
    PROVE  Ok(cap, L, MovedTo(L, p))
<1>1. PICK s \in Seq(Char) : s = L.text /\ Len(s) \in Nat /\ Len(s) = Len0(L) /\ Len(s) <= cap
  BY Sides DEF Len0
<1> DEFINE a == SubSeq(s, 1, p)
           b == SubSeq(s, p + 1, Len(s))
<1>2. p \in 0 .. Len(s)
  BY <1>1
<1>3. a \in Seq(Char) /\ Len(a) = p
  BY <1>2, Cut
<1>4. b \in Seq(Char) /\ Len(b) = Len(s) - p
  BY <1>2, Cut
<1>5. a \o b = s
  BY <1>2, Glued
<1> HIDE DEF a, b
<1>6. Len(a) + Len(b) <= cap /\ a \o b = L.text
  BY <1>1, <1>2, <1>3, <1>4, <1>5
<1>7. Ok(cap, L, Put(L, a \o b, Len(a)))
  BY <1>3, <1>4, <1>6, PutsOk
<1> QED BY <1>3, <1>6, <1>7 DEF MovedTo

LEMMA InsertIs ==
    ASSUME NEW L, Fine(play.cap, L), play.cap \in Nat, Pos(L) >= 0,
           NEW str \in Seq(Char)
    PROVE  LET M == input_insert(L, str)
           IN  \/ M = L /\ Len0(L) + Len(str) > play.cap
               \/ /\ M = Put(L, (LeftOf(L) \o str) \o RightOf(L), Len(LeftOf(L) \o str))
                  /\ LeftOf(L) \o str \in Seq(Char)
                  /\ Len(LeftOf(L) \o str) = Pos(L) + Len(str)
                  /\ Len(LeftOf(L) \o str) + Len(RightOf(L)) <= play.cap
<1>1. /\ LeftOf(L) \in Seq(Char) /\ Len(LeftOf(L)) = SplitOf(L) /\ SplitOf(L) \in 0 .. Len0(L)
      /\ Len(RightOf(L)) = Len0(L) - SplitOf(L) /\ Len0(L) \in Nat /\ Pos(L) \in Int
  BY Sides
<1>2. SplitOf(L) = Pos(L) /\ Len(str) \in Nat
  BY <1>1, LenProperties DEF SplitOf
<1>3. LeftOf(L) \o str \in Seq(Char) /\ Len(LeftOf(L) \o str) = Pos(L) + Len(str)
  <2>1. PICK l \in Seq(Char) : l = LeftOf(L)
    BY <1>1
  <2>2. l \o str \in Seq(Char) /\ Len(l \o str) = Len(l) + Len(str)
    BY Joined
  <2> QED BY <1>1, <1>2, <2>1, <2>2
<1>4. LeftOf(L) = Till(L, Pos(L)) /\ RightOf(L) = From(L, Pos(L))
  BY <1>2 DEF LeftOf, RightOf
<1>5. CASE Len0(L) + Len(str) > play.cap
  BY <1>5 DEF input_insert
<1>6. CASE ~(Len0(L) + Len(str) > play.cap)
  <2>1. Len(LeftOf(L) \o str) + Len(RightOf(L)) <= play.cap
    BY <1>1, <1>2, <1>3, <1>6
  <2>2. input_insert(L, str) = Put(L, (LeftOf(L) \o str) \o RightOf(L), Len(LeftOf(L) \o str))
    BY <1>3, <1>4, <1>6 DEF input_insert
  <2> QED BY <1>3, <2>1, <2>2
<1> QED BY <1>5, <1>6

LEMMA InsertOk ==
    ASSUME NEW L, Fine(play.cap, L), play.cap \in Nat, L.harm = "none", Pos(L) >= 0,
           NEW str \in Seq(Char)
    PROVE  Ok(play.cap, L, input_insert(L, str))
<1>1. CASE input_insert(L, str) = L
  BY <1>1, SameOk
<1>2. CASE /\ input_insert(L, str) = Put(L, (LeftOf(L) \o str) \o RightOf(L), Len(LeftOf(L) \o str))
           /\ LeftOf(L) \o str \in Seq(Char)
           /\ Len(LeftOf(L) \o str) + Len(RightOf(L)) <= play.cap
  <2>1. LeftOf(L) \in Seq(Char) /\ RightOf(L) \in Seq(Char)
    BY Sides
  <2>2. IsPrefix(LeftOf(L), LeftOf(L) \o str)
    BY <2>1, LongerPrefix
  <2> DEFINE a == LeftOf(L) \o str
  <2> HIDE DEF a
  <2>3. a \in Seq(Char) /\ Len(a) + Len(RightOf(L)) <= play.cap /\ IsPrefix(LeftOf(L), a)
    BY <1>2, <2>2 DEF a
  <2>4. Ok(play.cap, L, Put(L, a \o RightOf(L), Len(a)))
    BY <2>1, <2>3, PutsOk
  <2> QED BY <1>2, <2>4 DEF a
<1> QED BY <1>1, <1>2, InsertIs

(* The removing of one character, of one side of the line or of some.      *)
LEMMA DeleteOk ==
    ASSUME NEW cap \in Nat, NEW L, Fine(cap, L), L.harm = "none", Pos(L) >= 0
    PROVE  Ok(cap, L, input_delete(L))
<1>1. Pos(L) \in Int /\ Len0(L) \in Nat /\ Pos(L) <= Len0(L)
  BY Sides DEF Fine, CursorOk
<1>2. CASE Pos(L) = Len0(L)
  BY <1>2, SameOk DEF input_delete
<1>3. CASE Pos(L) # Len0(L)
  <2>1. Pos(L) \in 0 .. Len0(L) /\ Pos(L) + 1 \in Pos(L) .. Len0(L)
    BY <1>1, <1>3
  <2>2. Ok(cap, L, Put(L, Till(L, Pos(L)) \o From(L, Pos(L) + 1), Pos(L)))
    BY <2>1, CutOutOk
  <2>3. RemoveAt(L.text, Pos(L) + 1) = Till(L, Pos(L)) \o From(L, Pos(L) + 1)
    <3>1. PICK m : m = Pos(L) + 1
      OBVIOUS
    <3>2. m - 1 = Pos(L)
      BY <1>1, <3>1
    <3>3. RemoveAt(L.text, m) = Till(L, m - 1) \o From(L, m)
      BY DEF RemoveAt, Till, From, Len0
    <3> QED BY <3>1, <3>2, <3>3
  <2> QED BY <1>3, <2>2, <2>3 DEF input_delete
<1> QED BY <1>2, <1>3

LEMMA BkspaceOk ==
    ASSUME NEW cap \in Nat, NEW L, Fine(cap, L), L.harm = "none", Pos(L) >= 0
    PROVE  Ok(cap, L, input_bkspace(L))
<1>1. Pos(L) \in Int /\ Len0(L) \in Nat /\ Pos(L) <= Len0(L)
  BY Sides DEF Fine, CursorOk
<1>2. CASE Pos(L) = 0
  BY <1>2, SameOk DEF input_bkspace
<1>3. CASE Pos(L) # 0
  <2>1. Pos(L) - 1 \in 0 .. Len0(L) /\ Pos(L) \in Pos(L) - 1 .. Len0(L)
    BY <1>1, <1>3
  <2>2. Ok(cap, L, Put(L, Till(L, Pos(L) - 1) \o From(L, Pos(L)), Pos(L) - 1))
    BY <2>1, CutOutOk
  <2>3. RemoveAt(L.text, Pos(L)) = Till(L, Pos(L) - 1) \o From(L, Pos(L))
    BY DEF RemoveAt, Till, From, Len0
  <2> QED BY <1>3, <2>2, <2>3 DEF input_bkspace
<1> QED BY <1>2, <1>3

LEMMA ClearToStartOk ==
    ASSUME NEW cap \in Nat, NEW L, Fine(cap, L), L.harm = "none", Pos(L) >= 0
    PROVE  Ok(cap, L, input_clear_to_start(L))
<1>1. Pos(L) \in Int /\ Len0(L) \in Nat /\ Pos(L) <= Len0(L)
  BY Sides DEF Fine, CursorOk
<1>2. 0 \in 0 .. Len0(L) /\ Pos(L) \in 0 .. Len0(L)
  BY <1>1
<1>3. Ok(cap, L, Put(L, Till(L, 0) \o From(L, Pos(L)), 0))
  BY <1>2, CutOutOk
<1>4. SplitOf(L) = Pos(L)
  BY <1>1 DEF SplitOf
<1>5. From(L, Pos(L)) \in Seq(Char)
  BY <1>4, Sides DEF RightOf
<1>6. Till(L, 0) = <<>>
  BY SubSeqEmpty DEF Till
<1>7. Till(L, 0) \o From(L, Pos(L)) = From(L, Pos(L))
  BY <1>5, <1>6, ConcatEmptySeq
<1> QED BY <1>3, <1>7 DEF input_clear_to_start

LEMMA ClearToEndOk ==
    ASSUME NEW cap \in Nat, NEW L, Fine(cap, L), L.harm = "none", Pos(L) >= 0
    PROVE  Ok(cap, L, input_clear_to_end(L))
<1>1. Pos(L) \in Int /\ Len0(L) \in Nat /\ Pos(L) <= Len0(L)
  BY Sides DEF Fine, CursorOk
<1>2. Pos(L) \in 0 .. Len0(L) /\ Len0(L) \in Pos(L) .. Len0(L)
  BY <1>1
<1>3. Ok(cap, L, Put(L, Till(L, Pos(L)) \o From(L, Len0(L)), Pos(L)))
  BY <1>2, CutOutOk
<1>4. SplitOf(L) = Pos(L)
  BY <1>1 DEF SplitOf
<1>5. Till(L, Pos(L)) \in Seq(Char)
  BY <1>4, Sides DEF LeftOf
<1>6. From(L, Len0(L)) = <<>>
  <2>1. Len0(L) + 1 \in Int /\ Len0(L) \in Int /\ Len0(L) < Len0(L) + 1
    BY <1>1
  <2> QED BY <2>1, SubSeqEmpty DEF From
<1>7. Till(L, Pos(L)) \o From(L, Len0(L)) = Till(L, Pos(L))
  BY <1>5, <1>6, ConcatEmptySeq
<1> QED BY <1>3, <1>7 DEF input_clear_to_end

LEMMA RemoveOk ==
    ASSUME NEW cap \in Nat, NEW L, Fine(cap, L), L.harm = "none", Pos(L) >= 0,
           NEW num \in Int
    PROVE  Ok(cap, L, input_remove(L, num))
<1>1. Pos(L) \in Int /\ Len0(L) \in Nat /\ Pos(L) <= Len0(L)
  BY Sides DEF Fine, CursorOk
<1>2. CASE num < 0 /\ -num >= Pos(L)
  BY <1>2, ClearToStartOk DEF input_remove
<1>3. CASE num < 0 /\ ~(-num >= Pos(L))
  <2>1. Pos(L) + num \in 0 .. Len0(L) /\ Pos(L) \in Pos(L) + num .. Len0(L)
    BY <1>1, <1>3
  <2>2. Ok(cap, L, Put(L, Till(L, Pos(L) + num) \o From(L, Pos(L)), Pos(L) + num))
    BY <2>1, CutOutOk
  <2> QED BY <1>3, <2>2 DEF input_remove
<1>4. CASE ~(num < 0) /\ Pos(L) + num >= Len0(L)
  BY <1>4, ClearToEndOk DEF input_remove
<1>5. CASE ~(num < 0) /\ ~(Pos(L) + num >= Len0(L))
  <2>1. Pos(L) \in 0 .. Len0(L) /\ Pos(L) + num \in Pos(L) .. Len0(L)
    BY <1>1, <1>5
  <2>2. Ok(cap, L, Put(L, Till(L, Pos(L)) \o From(L, Pos(L) + num), Pos(L)))
    BY <2>1, CutOutOk
  <2> QED BY <1>5, <2>2 DEF input_remove
<1> QED BY <1>2, <1>3, <1>4, <1>5

(* Where words begin is on the line.                                       *)
LEMMA WordBeforeIs ==
    ASSUME NEW cap \in Nat, NEW L, Fine(cap, L), Pos(L) > 0
    PROVE  WordBefore(L) \in 0 .. Pos(L)
<1> DEFINE Starts == {p \in 1 .. Pos(L) - 1 : At(L, p - 1) = Blank /\ At(L, p) # Blank}
<1>1. Pos(L) \in Nat /\ Starts \subseteq 0 .. Pos(L)
  BY Sides
<1>2. Starts # {} => Max(Starts) \in Starts
  BY <1>1, MaxIs
<1>3. WordBefore(L) = IF Starts = {} THEN 0 ELSE Max(Starts)
  BY DEF WordBefore
<1> HIDE DEF Starts
<1>4. CASE Starts = {}
  BY <1>1, <1>3, <1>4
<1>5. CASE Starts # {}
  <2>1. WordBefore(L) \in Starts
    BY <1>2, <1>3, <1>5
  <2> QED BY <1>1, <2>1
<1> QED BY <1>4, <1>5

LEMMA WordAfterIs ==
    ASSUME NEW cap \in Nat, NEW L, Fine(cap, L), Pos(L) >= 0, Pos(L) # Len0(L)
    PROVE  WordAfter(L) \in Pos(L) .. Len0(L)
<1> DEFINE B == {p \in Pos(L) .. Len0(L) : At(L, p) # Blank}
           W == {p \in Min(B) .. Len0(L) : At(L, p) \in {Blank, "NUL"}}
<1>1. Pos(L) \in Nat /\ Len0(L) \in Nat /\ Pos(L) <= Len0(L)
  BY Sides DEF Fine, CursorOk
<1>2. At(L, Len0(L)) = "NUL" /\ At(L, Len0(L)) # Blank
  <2>1. ~(Len0(L) < Len0(L))
    BY <1>1
  <2>2. At(L, Len0(L)) = "NUL"
    BY <2>1 DEF At
  <2> QED BY <2>2 DEF Blank
<1>3. B \subseteq Nat /\ Len0(L) \in B
  BY <1>1, <1>2
<1>4. Min(B) \in B
  BY <1>3, MinIs
<1>5. Min(B) \in Pos(L) .. Len0(L)
  BY <1>4
<1>6. W \subseteq Nat /\ Len0(L) \in W
  BY <1>1, <1>2, <1>5
<1>7. Min(W) \in W
  BY <1>6, MinIs
<1>8. WordAfter(L) = IF At(L, Min(W)) = Blank THEN Min(W) + 1 ELSE Min(W)
  BY DEF WordAfter
<1>9. Min(W) \in Min(B) .. Len0(L)
  BY <1>7
<1> HIDE DEF B, W
<1> QED BY <1>1, <1>2, <1>5, <1>8, <1>9

LEMMA WordsOk ==
    ASSUME NEW cap \in Nat, NEW L, Fine(cap, L), L.harm = "none", Pos(L) >= 0
    PROVE  /\ Ok(cap, L, input_prev_word(L)) /\ Ok(cap, L, input_next_word(L))
           /\ Ok(cap, L, input_clear_prev_word(L)) /\ Ok(cap, L, input_clear_next_word(L))
<1>1. Pos(L) \in Int /\ Len0(L) \in Nat /\ Pos(L) <= Len0(L)
  BY Sides DEF Fine, CursorOk
<1>2. Ok(cap, L, L)
  BY SameOk
<1>3. Ok(cap, L, input_prev_word(L)) /\ Ok(cap, L, input_clear_prev_word(L))
  <2>1. CASE Pos(L) = 0
    BY <1>2, <2>1 DEF input_prev_word, input_clear_prev_word
  <2>2. CASE Pos(L) # 0
    <3>1. WordBefore(L) \in 0 .. Pos(L)
      BY <1>1, <2>2, WordBeforeIs
    <3>2. WordBefore(L) \in 0 .. Len0(L) /\ Pos(L) \in WordBefore(L) .. Len0(L)
      BY <1>1, <3>1
    <3>3. Ok(cap, L, MovedTo(L, WordBefore(L)))
      BY <3>2, MovedOk
    <3>4. Ok(cap, L, Put(L, Till(L, WordBefore(L)) \o From(L, Pos(L)), WordBefore(L)))
      BY <3>2, CutOutOk
    <3> QED BY <2>2, <3>3, <3>4 DEF input_prev_word, input_clear_prev_word
  <2> QED BY <2>1, <2>2
<1>4. Ok(cap, L, input_next_word(L)) /\ Ok(cap, L, input_clear_next_word(L))
  <2>1. CASE Pos(L) = Len0(L)
    BY <1>2, <2>1 DEF input_next_word, input_clear_next_word
  <2>2. CASE Pos(L) # Len0(L)
    <3>1. WordAfter(L) \in Pos(L) .. Len0(L)
      BY <2>2, WordAfterIs
    <3>2. WordAfter(L) \in 0 .. Len0(L) /\ Pos(L) \in 0 .. Len0(L)
      BY <1>1, <3>1
    <3>3. Ok(cap, L, MovedTo(L, WordAfter(L)))
      BY <3>2, MovedOk
    <3>4. Ok(cap, L, Put(L, Till(L, Pos(L)) \o From(L, WordAfter(L)), Pos(L)))
      BY <3>1, <3>2, CutOutOk
    <3> QED BY <2>2, <3>3, <3>4 DEF input_next_word, input_clear_next_word
  <2> QED BY <2>1, <2>2
<1> QED BY <1>3, <1>4

LEMMA NothingIs == ASSUME NEW cap \in Nat
                   PROVE  <<>> \in Seq(Char) /\ Len(<<>>) = 0 /\ <<>> \in Short(cap)
BY EmptySeq DEF Short

LEMMA ClearIs ==
    ASSUME NEW cap \in Nat, NEW L, Fine(cap, L)
    PROVE  LET M == input_clear_line(L)
           IN  /\ Fine(cap, M) /\ M.dirty /\ M.harm = L.harm /\ M.hist = L.hist
               /\ M.text = <<>> /\ M.cut = L.cut /\ LeftOf(M) = <<>> /\ RightOf(M) = <<>>
<1> DEFINE M == Put(L, <<>>, 0)
<1>1. <<>> \in Short(cap) /\ Len(<<>>) = 0
  BY NothingIs
<1>2. /\ Fine(cap, M) /\ M.dirty /\ M.harm = L.harm /\ M.hist = L.hist /\ M.cut = L.cut
      /\ M.text = <<>>
      /\ LeftOf(M) = SubSeq(<<>>, 1, 0) /\ RightOf(M) = SubSeq(<<>>, 0 + 1, Len(<<>>))
  <2>1. PICK t \in Short(cap) : t = <<>>
    BY <1>1
  <2>2. 0 \in 0 .. Len(t)
    BY <1>1, <2>1
  <2>3. LET N == Put(L, t, 0)
        IN  /\ Fine(cap, N) /\ N.dirty /\ N.harm = L.harm /\ N.hist = L.hist
            /\ N.cut = L.cut /\ N.text = t
            /\ LeftOf(N) = SubSeq(t, 1, 0) /\ RightOf(N) = SubSeq(t, 0 + 1, Len(t))
    BY <2>2, PutFine
  <2> QED BY <2>1, <2>3
<1>3. LeftOf(M) = <<>> /\ RightOf(M) = <<>>
  <2>1. SubSeq(<<>>, 1, 0) = <<>>
    BY SubSeqEmpty
  <2> HIDE DEF M
  <2> QED BY <1>1, <1>2, <2>1
<1> QED BY <1>2, <1>3 DEF input_clear_line

LEMMA ClearOk ==
    ASSUME NEW cap \in Nat, NEW L, Fine(cap, L), L.harm = "none"
    PROVE  Ok(cap, L, input_clear_line(L))
<1> DEFINE M == input_clear_line(L)
<1>1. /\ Fine(cap, M) /\ M.dirty /\ M.harm = "none" /\ M.hist = L.hist
      /\ LeftOf(M) = <<>> /\ RightOf(M) = <<>>
  BY ClearIs
<1> HIDE DEF M
<1>2. Edits(L, M)
  BY <1>1 DEF Edits, Empties
<1>3. Ok(cap, L, M)
  BY <1>1, <1>2, ChangedOk
<1> QED BY <1>3 DEF M

(* begin is put back to the cursor.                                        *)
LEMMA StayIs ==
    ASSUME NEW cap \in Nat, NEW L, Fine(cap, L)
    PROVE  LET M == [L EXCEPT !.begin = L.cur]
           IN  /\ Fine(cap, M) /\ M.text = L.text /\ M.cur = L.cur /\ M.begin = M.cur
               /\ M.prompt = L.prompt /\ M.width = L.width
               /\ M.hist = L.hist /\ M.dirty = L.dirty /\ M.blank = L.blank
               /\ M.harm = L.harm /\ Pos(M) = Pos(L)
               /\ LeftOf(M) = LeftOf(L) /\ RightOf(M) = RightOf(L)
<1> DEFINE M == [L EXCEPT !.begin = L.cur]
<1>1. /\ M \in LineRec /\ M.text = L.text /\ M.cur = L.cur /\ M.begin = L.cur
      /\ M.prompt = L.prompt /\ M.width = L.width
      /\ M.hist = L.hist /\ M.cut = L.cut /\ M.dirty = L.dirty /\ M.blank = L.blank
      /\ M.hcur = L.hcur /\ M.gone = L.gone /\ M.max = L.max /\ M.harm = L.harm
  BY DEF Fine, LineRec
<1> HIDE DEF M
<1>2. Pos(M) = Pos(L) /\ Len0(M) = Len0(L)
  BY <1>1 DEF Pos, Len0
<1>3. LeftOf(M) = LeftOf(L) /\ RightOf(M) = RightOf(L)
  BY <1>1, <1>2 DEF LeftOf, RightOf, SplitOf, Till, From
<1>4. BeginOk(M)
  BY <1>1 DEF BeginOk, LineRec
<1>5. CursorOk(M)
  <2>1. Pos(L) >= 0 => L.prompt <= L.cur
    BY <1>1 DEF Pos, LineRec, Fine, PromptLen
  <2>2. L.cur <= L.cur
    BY DEF LineRec, Fine
  <2> QED BY <1>1, <1>2, <2>1, <2>2 DEF Fine, CursorOk
<1>6. Fine(cap, M)
  BY <1>1, <1>4, <1>5 DEF Fine, HistOk
<1> QED BY <1>1, <1>2, <1>3, <1>6 DEF M

LEMMA StayOk ==
    ASSUME NEW cap \in Nat, NEW L, Fine(cap, L), L.harm = "none"
    PROVE  Ok(cap, L, [L EXCEPT !.begin = L.cur])
<1> DEFINE M == [L EXCEPT !.begin = L.cur]
<1>1. /\ Fine(cap, M) /\ M.text = L.text /\ M.cur = L.cur
      /\ M.prompt = L.prompt /\ M.width = L.width
      /\ M.hist = L.hist /\ M.dirty = L.dirty /\ M.blank = L.blank
      /\ M.harm = L.harm /\ LeftOf(M) = LeftOf(L) /\ RightOf(M) = RightOf(L)
  BY StayIs
<1> HIDE DEF M
<1>2. LeftOf(L) \in Seq(Char)
  BY Sides
<1>3. IsPrefix(LeftOf(L), LeftOf(M))
  BY <1>1, <1>2, SamePrefix
<1>4. Ok(cap, L, M)
  BY <1>1, <1>3 DEF Ok, HarmOk, Edits, Inserts, SameHist
<1> QED BY <1>4 DEF M

(* Before the prompt the cursor moves over a line that is empty.           *)
LEMMA MovedBelowOk ==
    ASSUME NEW cap \in Nat, NEW L, Fine(cap, L), L.harm = "none", Pos(L) < 0
    PROVE  Ok(cap, L, MovedTo(L, Pos(L) + 1))
<1> DEFINE M == Put(L, L.text, Pos(L) + 1)
<1>0. L \in LineRec /\ L.text \in Seq(Char) /\ L.cur \in Nat /\ L.prompt \in Nat
  BY DEF Fine, LineRec, PromptLen
<1>1. L.text = <<>> /\ L \in LineRec /\ L.text \in Seq(Char)
  <2>1. ~(Pos(L) >= 0)
    BY <1>0 DEF Pos
  <2> QED BY <1>0, <2>1 DEF Fine, CursorOk
<1>2. Pos(L) \in Int /\ Pos(L) + L.prompt = L.cur /\ L.cur \in Nat /\ L.prompt \in Nat
  BY <1>0 DEF Pos
<1>3. Pos(L) + 1 \in Int /\ (Pos(L) + 1) + L.prompt = L.cur + 1 /\ L.cur + 1 >= 0
  BY <1>2
<1>4. /\ M \in LineRec
      /\ M.text = L.text /\ M.begin = M.cur /\ M.dirty
      /\ M.prompt = L.prompt /\ M.hist = L.hist
      /\ M.hcur = L.hcur /\ M.max = L.max /\ M.gone = L.gone /\ M.cut = L.cut
      /\ M.harm = L.harm /\ Pos(M) = Pos(L) + 1 /\ M.cur = L.cur + 1
  <2>1. PICK p \in Int : p = Pos(L) + 1
    BY <1>3
  <2>2. p + L.prompt >= 0 /\ p + L.prompt = L.cur + 1
    BY <1>3, <2>1
  <2>3. LET N == Put(L, L.text, p)
        IN  /\ N \in LineRec
            /\ N.text = L.text /\ N.cur = p + L.prompt /\ N.begin = p + L.prompt /\ N.dirty
            /\ N.prompt = L.prompt /\ N.hist = L.hist
            /\ N.hcur = L.hcur /\ N.max = L.max /\ N.gone = L.gone /\ N.cut = L.cut
            /\ N.harm = L.harm /\ Pos(N) = p
    BY <1>1, <2>2, PutIs
  <2> QED BY <2>1, <2>2, <2>3
<1> HIDE DEF M
<1>5. BeginOk(M)
  BY <1>4 DEF BeginOk, LineRec
<1>6. CursorOk(M)
  <2>1. M.prompt <= M.cur \/ Pos(M) < 0
    BY <1>2, <1>4
  <2>2. Pos(M) >= 0 => Pos(M) = 0
    BY <1>2, <1>4
  <2>3. Len0(M) = 0
    BY <1>1, <1>4, NothingIs DEF Len0
  <2>4. M.begin <= M.cur
    BY <1>2, <1>4
  <2> QED BY <1>1, <1>2, <1>4, <2>1, <2>2, <2>3, <2>4 DEF CursorOk
<1>7. Fine(cap, M)
  BY <1>4, <1>5, <1>6 DEF Fine, HistOk
<1>8. TextOf(M) = TextOf(L)
  BY <1>4, <1>7, Sides DEF TextOf
<1>9. Edits(L, M)
  BY <1>4, <1>8 DEF Edits, Moves, SameHist
<1>10. Ok(cap, L, M)
  BY <1>4, <1>7, <1>9, ChangedOk
<1> QED BY <1>10 DEF M, MovedTo

LEMMA LeftRightOk ==
    ASSUME NEW cap \in Nat, NEW L, Fine(cap, L), L.harm = "none"
    PROVE  Ok(cap, L, input_move_left(L)) /\ Ok(cap, L, input_move_right(L))
<1>1. Pos(L) \in Int /\ Len0(L) \in Nat /\ (Pos(L) >= 0 => Pos(L) <= Len0(L))
  BY Sides DEF Fine, CursorOk
<1>2. L.cur \in Nat /\ L.prompt \in Nat /\ Pos(L) = L.cur - L.prompt
  BY DEF Pos, Fine, LineRec, PromptLen
<1>3. Ok(cap, L, [L EXCEPT !.begin = L.cur])
  BY StayOk
<1>4. Ok(cap, L, input_move_left(L))
  <2>1. CASE L.cur > L.prompt
    <3>1. Pos(L) - 1 \in 0 .. Len0(L)
      BY <1>1, <1>2, <2>1
    <3> QED BY <2>1, <3>1, MovedOk DEF input_move_left
  <2>2. CASE ~(L.cur > L.prompt)
    BY <1>3, <2>2 DEF input_move_left
  <2> QED BY <2>1, <2>2
<1>5. Ok(cap, L, input_move_right(L))
  <2>1. CASE L.cur < Len0(L) + L.prompt /\ Pos(L) >= 0
    <3>1. Pos(L) + 1 \in 0 .. Len0(L)
      BY <1>1, <1>2, <2>1
    <3> QED BY <2>1, <3>1, MovedOk DEF input_move_right
  <2>2. CASE L.cur < Len0(L) + L.prompt /\ ~(Pos(L) >= 0)
    <3>1. Pos(L) < 0
      BY <1>1, <2>2
    <3> QED BY <2>2, <3>1, MovedBelowOk DEF input_move_right
  <2>3. CASE ~(L.cur < Len0(L) + L.prompt)
    BY <1>3, <2>3 DEF input_move_right
  <2> QED BY <2>1, <2>2, <2>3
<1> QED BY <1>4, <1>5

(* What leaves the sides of the cursor and the history alone.              *)
LEMMA AlikeOk ==
    ASSUME NEW cap \in Nat, NEW L, Fine(cap, L), NEW M, Fine(cap, M),
           M.dirty, M.harm = "none", M.hist = L.hist,
           LeftOf(M) = LeftOf(L), RightOf(M) = RightOf(L)
    PROVE  Ok(cap, L, M)
<1>1. LeftOf(L) \in Seq(Char)
  BY Sides
<1>2. IsPrefix(LeftOf(L), LeftOf(M))
  BY <1>1, SamePrefix
<1>3. Edits(L, M)
  BY <1>2 DEF Edits, Inserts, SameHist
<1> QED BY <1>3, ChangedOk

LEMMA ResizeOk ==
    ASSUME NEW cap \in Nat, NEW L, Fine(cap, L), L.harm = "none", NEW w \in Nat \ {0}
    PROVE  Ok(cap, L, input_resize(L, w))
<1> DEFINE M == input_resize(L, w)
<1>1. /\ M \in LineRec /\ M.text = L.text /\ M.cur = L.cur
      /\ M.begin = L.begin /\ M.prompt = L.prompt /\ M.hist = L.hist /\ M.cut = L.cut
      /\ M.hcur = L.hcur /\ M.gone = L.gone /\ M.max = L.max
      /\ M.dirty /\ M.harm = L.harm
  BY DEF Fine, LineRec, input_resize
<1> HIDE DEF M
<1>2. M.hist \in Seq(Short(cap)) /\ HistOk(M)
  BY <1>1 DEF Fine, HistOk
<1>3. Fine(cap, M) /\ LeftOf(M) = LeftOf(L) /\ RightOf(M) = RightOf(L)
  BY <1>1, <1>2, AlikeIs
<1>4. Ok(cap, L, M)
  BY <1>1, <1>3, AlikeOk
<1> QED BY <1>4 DEF M

LEMMA PromptOk ==
    ASSUME NEW cap \in Nat, NEW L, Fine(cap, L), L.harm = "none", NEW n \in {0, PromptLen}
    PROVE  Ok(cap, L, input_set_prompt(L, n))
<1>1. Pos(L) \in Int /\ n \in Nat /\ L \in LineRec /\ L.text \in Seq(Char)
  BY Sides DEF Fine, PromptLen
<1>2. CASE n > 0 /\ n >= L.width
  BY <1>2, SameOk DEF input_set_prompt
<1>3. CASE ~(n > 0 /\ n >= L.width) /\ Pos(L) + n < 0
  <2>1. Pos(L) < 0
    BY <1>1, <1>3
  <2> QED BY <1>3, <2>1, BelowOk DEF input_set_prompt
<1>4. CASE ~(n > 0 /\ n >= L.width) /\ ~(Pos(L) + n < 0)
  <2> DEFINE K == [L EXCEPT !.prompt = n]
             M == Put(K, L.text, Pos(L))
  <2>1. /\ K \in LineRec /\ K.prompt = n /\ K.hist = L.hist /\ K.hcur = L.hcur
        /\ K.max = L.max /\ K.gone = L.gone /\ K.cut = L.cut /\ K.harm = L.harm
    BY <1>1 DEF LineRec
  <2> HIDE DEF K
  <2>2. Pos(L) + K.prompt >= 0
    BY <1>1, <1>4, <2>1
  <2>3. /\ M \in LineRec
        /\ M.text = L.text /\ M.cur = Pos(L) + K.prompt /\ M.begin = Pos(L) + K.prompt
        /\ M.dirty /\ M.prompt = K.prompt /\ M.hist = K.hist
        /\ M.hcur = K.hcur /\ M.max = K.max /\ M.gone = K.gone /\ M.cut = K.cut
        /\ M.harm = K.harm /\ Pos(M) = Pos(L)
    BY <1>1, <2>1, <2>2, PutIs
  <2> HIDE DEF M
  <2>4. Len0(M) = Len0(L)
    BY <2>3 DEF Len0
  <2>5. CursorOk(M)
    <3>1. Pos(L) >= 0 => M.prompt <= M.begin
      BY <1>1, <2>1, <2>3
    <3>2. M.begin <= M.cur
      BY <1>1, <2>1, <2>3
    <3> QED BY <2>3, <2>4, <3>1, <3>2 DEF Fine, CursorOk
  <2>6. BeginOk(M)
    BY <2>3 DEF BeginOk, LineRec
  <2>7. Fine(cap, M)
    BY <2>1, <2>3, <2>5, <2>6 DEF Fine, HistOk
  <2>8. LeftOf(M) = LeftOf(L) /\ RightOf(M) = RightOf(L)
    BY <2>3, <2>4 DEF LeftOf, RightOf, SplitOf, Till, From
  <2>9. M.dirty /\ M.harm = "none" /\ M.hist = L.hist
    BY <2>1, <2>3
  <2>10. Ok(cap, L, M)
    BY <2>7, <2>8, <2>9, AlikeOk
  <2>11. input_set_prompt(L, n) = M
    BY <1>4 DEF input_set_prompt, M, K
  <2> QED BY <2>10, <2>11
<1> QED BY <1>2, <1>3, <1>4

-----------------------------------------------------------------------------
(* The history.                                                            *)
LEMMA PruneIs ==
    ASSUME NEW cap \in Nat, NEW K \in LineRec, K.hist \in Seq(Short(cap))
    PROVE  LET N == input_history_prune(K)
           IN  /\ N \in LineRec /\ N.text = K.text /\ N.cur = K.cur /\ N.begin = K.begin
               /\ N.prompt = K.prompt /\ N.width = K.width /\ N.max = K.max
               /\ N.cut = K.cut /\ N.blank = K.blank /\ N.dirty = K.dirty /\ N.harm = K.harm
               /\ N.hist \in Seq(Short(cap)) /\ N.hist \in TrimsOf(K.hist)
               /\ Len(N.hist) = (IF Len(K.hist) <= K.max THEN Len(K.hist) ELSE K.max)
               /\ \A i \in 1 .. Len(N.hist) : N.hist[i] = K.hist[i]
               /\ N.hcur = (IF Len(K.hist) > K.max /\ K.hcur > K.max THEN -1 ELSE K.hcur)
               /\ N.gone => K.gone \/ K.max = 0
<1>1. PICK h \in Seq(Short(cap)) : h = K.hist
  OBVIOUS
<1>2. Len(h) \in Nat /\ K.max \in Nat /\ K.hcur \in Int
  BY LenProperties DEF LineRec
<1>3. CASE Len(h) <= K.max
  <2>1. input_history_prune(K) = K
    BY <1>1, <1>3 DEF input_history_prune
  <2>2. h \in TrimsOf(h)
    <3>1. Len(h) \in 0 .. Len(h) /\ SubSeq(h, 1, Len(h)) = h
      BY <1>2, SubSeqFull
    <3> QED BY <3>1 DEF TrimsOf
  <2>3. ~(Len(h) > K.max)
    BY <1>2, <1>3
  <2> QED BY <1>1, <1>3, <2>1, <2>2, <2>3
<1>4. CASE ~(Len(h) <= K.max)
  <2> DEFINE g == SubSeq(h, 1, K.max)
             N == [K EXCEPT !.hist = g, !.hcur = IF @ > K.max THEN -1 ELSE @,
                            !.gone = @ \/ K.max = 0]
  <2>1. input_history_prune(K) = N
    BY <1>1, <1>4 DEF input_history_prune
  <2>2. K.max \in 0 .. Len(h)
    BY <1>2, <1>4
  <2>3. /\ g \in Seq(Short(cap)) /\ Len(g) = K.max
        /\ \A i \in 1 .. K.max : g[i] = h[i]
    BY <2>2, Cut
  <2>4. g \in TrimsOf(h)
    BY <2>2 DEF TrimsOf
  <2>5. g \in Seq(Seq(Char))
    <3>1. Short(cap) \subseteq Seq(Char)
      BY DEF Short
    <3> QED BY <2>3, <3>1, SeqMonotonic
  <2> HIDE DEF g
  <2>6. /\ N \in LineRec /\ N.text = K.text /\ N.cur = K.cur /\ N.begin = K.begin
        /\ N.prompt = K.prompt /\ N.width = K.width /\ N.max = K.max
        /\ N.cut = K.cut /\ N.blank = K.blank /\ N.dirty = K.dirty /\ N.harm = K.harm
        /\ N.hist = g /\ N.hcur = (IF K.hcur > K.max THEN -1 ELSE K.hcur)
        /\ N.gone => K.gone \/ K.max = 0
    <3>1. PICK c \in Int : c = IF K.hcur > K.max THEN -1 ELSE K.hcur
      BY <1>2
    <3>2. PICK b \in BOOLEAN : b = (K.gone \/ K.max = 0)
      OBVIOUS
    <3>3. N = [K EXCEPT !.hist = g, !.hcur = c, !.gone = b]
      BY <3>1, <3>2 DEF LineRec
    <3> HIDE DEF N
    <3>4. /\ N \in LineRec /\ N.text = K.text /\ N.cur = K.cur /\ N.begin = K.begin
          /\ N.prompt = K.prompt /\ N.width = K.width /\ N.max = K.max
          /\ N.cut = K.cut /\ N.blank = K.blank /\ N.dirty = K.dirty /\ N.harm = K.harm
          /\ N.hist = g /\ N.hcur = c /\ N.gone = b
      BY <2>5, <3>3 DEF LineRec
    <3>5. b => K.gone \/ K.max = 0
      BY <3>2
    <3> QED BY <3>1, <3>4, <3>5
  <2> HIDE DEF N
  <2>7. Len(h) > K.max
    BY <1>2, <1>4
  <2> QED BY <1>1, <1>4, <2>1, <2>3, <2>4, <2>6, <2>7
<1> QED BY <1>3, <1>4

LEMMA AddedIs ==
    ASSUME NEW L \in LineRec, NEW k \in Seq(Seq(Char)), <<L.text>> \o L.hist = k
    PROVE  LET B == Added(L)
           IN  /\ B \in LineRec /\ B.text = L.text /\ B.cur = L.cur
               /\ B.begin = L.begin /\ B.prompt = L.prompt /\ B.hist = k /\ B.cut = L.cut
               /\ B.hcur = 0 /\ B.gone = L.gone /\ B.max = L.max /\ B.harm = L.harm
<1> DEFINE B == Added(L)
<1>1. PICK z \in Int : z = 0
  OBVIOUS
<1>2. B = [L EXCEPT !.hist = k, !.hcur = z]
  BY <1>1 DEF Added, LineRec
<1> HIDE DEF B
<1>3. /\ B \in LineRec /\ B.text = L.text /\ B.cur = L.cur
      /\ B.begin = L.begin /\ B.prompt = L.prompt /\ B.hist = k /\ B.cut = L.cut
      /\ B.hcur = z /\ B.gone = L.gone /\ B.max = L.max /\ B.harm = L.harm
  BY <1>2 DEF LineRec
<1> QED BY <1>1, <1>3 DEF B

LEMMA AddIs ==
    ASSUME NEW cap \in Nat, NEW L, Fine(cap, L), ~L.gone
    PROVE  LET A == input_history_add(L)
           IN  /\ Fine(cap, A) /\ A.text = L.text /\ A.harm = L.harm
               /\ LeftOf(A) = LeftOf(L) /\ RightOf(A) = RightOf(L)
               /\ A.hist \in TrimsOf(<<TextOf(L)>> \o L.hist)
               /\ L.max >= 2 /\ L.hist # <<>> =>
                     Len(A.hist) >= 2 /\ A.hist[2] = L.hist[1] /\ 1 \in DOMAIN L.hist
<1> DEFINE g == <<L.text>> \o L.hist
           K == Added(L)
           A == input_history_prune(K)
<1>1. input_history_add(L) = A
  BY DEF input_history_add
<1>2. PICK h \in Seq(Short(cap)) : h = L.hist
  BY DEF Fine
<1>3. PICK t \in Short(cap) : t = L.text
  BY DEF Fine
<1>4. <<t>> \in Seq(Short(cap)) /\ Len(<<t>>) = 1 /\ <<t>>[1] = t
  OBVIOUS
<1>5. Len(h) \in Nat /\ DOMAIN h = 1 .. Len(h) /\ (h # <<>> => Len(h) >= 1)
  <2>1. Len(h) \in Nat /\ DOMAIN h = 1 .. Len(h)
    BY LenProperties
  <2>2. h # <<>> => Len(h) \in Nat \ {0}
    BY EmptySeq
  <2> QED BY <2>1, <2>2
<1>6. /\ g \in Seq(Short(cap)) /\ Len(g) = 1 + Len(h)
      /\ \A i \in 1 .. 1 + Len(h) : g[i] = IF i <= 1 THEN <<t>>[i] ELSE h[i - 1]
  <2>1. PICK s \in Seq(Short(cap)) : s = <<t>>
    BY <1>4
  <2>2. /\ s \o h \in Seq(Short(cap)) /\ Len(s \o h) = Len(s) + Len(h)
        /\ \A i \in 1 .. Len(s) + Len(h) : (s \o h)[i] = IF i <= Len(s) THEN s[i] ELSE h[i - Len(s)]
    BY ConcatProperties
  <2>3. g = s \o h
    BY <1>2, <1>3, <2>1
  <2>4. Len(s) = 1
    BY <1>4, <2>1
  <2> HIDE DEF g
  <2>5. Len(g) = 1 + Len(h)
    BY <2>2, <2>3, <2>4
  <2>6. \A i \in 1 .. 1 + Len(h) : g[i] = IF i <= 1 THEN s[i] ELSE h[i - 1]
    BY <2>2, <2>3, <2>4
  <2> QED BY <2>1, <2>2, <2>3, <2>5, <2>6
<1>7. g \in Seq(Seq(Char))
  <2>1. Short(cap) \subseteq Seq(Char)
    BY DEF Short
  <2> QED BY <1>6, <2>1, SeqMonotonic
<1> HIDE DEF g
<1>8. /\ K \in LineRec /\ K.text = L.text /\ K.cur = L.cur
      /\ K.begin = L.begin /\ K.prompt = L.prompt /\ K.hist = g /\ K.cut = L.cut
      /\ K.hcur = 0 /\ K.gone = L.gone /\ K.max = L.max /\ K.harm = L.harm
  <2>1. L \in LineRec
    BY DEF Fine
  <2>2. PICK k \in Seq(Seq(Char)) : k = g
    BY <1>7
  <2>3. <<L.text>> \o L.hist = k
    BY <2>2 DEF g
  <2> HIDE DEF K
  <2>4. LET B == Added(L)
        IN  /\ B \in LineRec /\ B.text = L.text /\ B.cur = L.cur
            /\ B.begin = L.begin /\ B.prompt = L.prompt /\ B.hist = k /\ B.cut = L.cut
            /\ B.hcur = 0 /\ B.gone = L.gone /\ B.max = L.max /\ B.harm = L.harm
    BY <2>1, <2>3, AddedIs
  <2> QED BY <2>2, <2>4 DEF K
<1> HIDE DEF K
<1>9. /\ A \in LineRec /\ A.text = K.text /\ A.cur = K.cur /\ A.begin = K.begin
      /\ A.prompt = K.prompt /\ A.max = K.max /\ A.cut = K.cut /\ A.harm = K.harm
      /\ A.hist \in Seq(Short(cap)) /\ A.hist \in TrimsOf(K.hist)
      /\ Len(A.hist) = (IF Len(K.hist) <= K.max THEN Len(K.hist) ELSE K.max)
      /\ \A i \in 1 .. Len(A.hist) : A.hist[i] = K.hist[i]
      /\ A.hcur = (IF Len(K.hist) > K.max /\ K.hcur > K.max THEN -1 ELSE K.hcur)
      /\ A.gone => K.gone \/ K.max = 0
  BY <1>6, <1>8, PruneIs
<1> HIDE DEF A
<1>10. L.max \in Nat /\ Len(A.hist) \in Nat
  <2>1. L.max \in Nat
    BY DEF Fine, LineRec
  <2> QED BY <1>9, <2>1, LenProperties
<1>11. HistOk(A)
  <2>1. A.hcur = 0
    BY <1>8, <1>9, <1>10
  <2>2. A.hcur \in -1 .. Len(A.hist)
    BY <2>1, <1>10
  <2>3. A.hcur # -1
    BY <2>1
  <2>4. A.gone \/ A.max < 2 => A.cut
    <3>1. L.max < 2 => L.cut
      BY DEF Fine, HistOk
    <3>2. A.gone => L.max = 0
      BY <1>8, <1>9
    <3> QED BY <1>8, <1>9, <1>10, <3>1, <3>2
  <2> QED BY <2>2, <2>3, <2>4 DEF HistOk
<1>12. Fine(cap, A) /\ LeftOf(A) = LeftOf(L) /\ RightOf(A) = RightOf(L)
  <2>1. A.text = L.text /\ A.cur = L.cur /\ A.begin = L.begin /\ A.prompt = L.prompt
    BY <1>8, <1>9
  <2> QED BY <1>9, <1>11, <2>1, AlikeIs
<1>13. A.hist \in TrimsOf(<<TextOf(L)>> \o L.hist)
  <2>1. TextOf(L) = L.text
    BY Sides DEF TextOf
  <2> QED BY <1>8, <1>9, <2>1 DEF g
<1>14. ASSUME L.max >= 2, L.hist # <<>>
       PROVE  Len(A.hist) >= 2 /\ A.hist[2] = L.hist[1] /\ 1 \in DOMAIN L.hist
  <2>1. Len(h) >= 1
    BY <1>2, <1>5, <1>14
  <2>2. Len(A.hist) >= 2
    BY <1>5, <1>6, <1>8, <1>9, <1>14, <1>10, <2>1
  <2>3. A.hist[2] = g[2]
    BY <1>8, <1>9, <1>10, <2>2
  <2>4. g[2] = h[1]
    <3>1. 2 \in 1 .. 1 + Len(h) /\ ~(2 <= 1) /\ 2 - 1 = 1
      BY <1>5, <2>1
    <3> QED BY <1>6, <3>1
  <2> QED BY <1>2, <1>5, <2>1, <2>2, <2>3, <2>4
<1> QED BY <1>1, <1>8, <1>9, <1>12, <1>13, <1>14

LEMMA RecalledIs ==
    ASSUME NEW cap \in Nat, NEW L, Fine(cap, L), NEW i \in 1 .. Len(L.hist)
    PROVE  LET M == Recalled(L, i)
           IN  /\ Fine(cap, M) /\ M.dirty /\ M.harm = L.harm /\ M.hist = L.hist
               /\ LeftOf(M) = L.hist[i] /\ RightOf(M) = <<>>
<1> DEFINE t == L.hist[i]
           P == Put(L, t, Len(t))
           M == [P EXCEPT !.hcur = i]
<1>1. L.hist \in Seq(Short(cap)) /\ Len(L.hist) \in Nat /\ t \in Short(cap)
  <2>1. PICK h \in Seq(Short(cap)) : h = L.hist
    BY DEF Fine
  <2>2. Len(h) \in Nat /\ \A j \in 1 .. Len(h) : h[j] \in Short(cap)
    BY LenProperties, ElementOfSeq
  <2> QED BY <2>1, <2>2
<1> HIDE DEF t
<1>2. t \in Seq(Char) /\ Len(t) \in Nat /\ Len(t) \in 0 .. Len(t)
  <2>1. t \in Seq(Char)
    BY <1>1 DEF Short
  <2>2. Len(t) \in Nat
    BY <2>1, LenProperties
  <2> QED BY <2>1, <2>2
<1>3. /\ Fine(cap, P) /\ P.dirty /\ P.harm = L.harm /\ P.hist = L.hist /\ P.cut = L.cut
      /\ LeftOf(P) = SubSeq(t, 1, Len(t)) /\ RightOf(P) = SubSeq(t, Len(t) + 1, Len(t))
  BY <1>1, <1>2, PutFine
<1>4. SubSeq(t, 1, Len(t)) = t /\ SubSeq(t, Len(t) + 1, Len(t)) = <<>>
  <2>1. Len(t) + 1 \in Int /\ Len(t) \in Int /\ Len(t) < Len(t) + 1
    BY <1>2
  <2> QED BY <1>2, <2>1, SubSeqFull, SubSeqEmpty
<1> HIDE DEF P
<1>5. /\ M \in LineRec /\ M.text = P.text /\ M.cur = P.cur /\ M.begin = P.begin
      /\ M.prompt = P.prompt /\ M.hist = P.hist /\ M.hcur = i /\ M.max = P.max
      /\ M.gone = P.gone /\ M.cut = P.cut /\ M.dirty = P.dirty /\ M.harm = P.harm
  <2>1. P \in LineRec /\ i \in Int
    BY <1>3, <1>1 DEF Fine
  <2> QED BY <2>1 DEF LineRec
<1> HIDE DEF M
<1>6. HistOk(M)
  <2>1. P.gone \/ P.max < 2 => P.cut
    BY <1>3 DEF Fine, HistOk
  <2>2. i \in -1 .. Len(L.hist) /\ i # -1
    BY <1>1
  <2> QED BY <1>3, <1>5, <2>1, <2>2 DEF HistOk
<1>7. Fine(cap, M) /\ LeftOf(M) = LeftOf(P) /\ RightOf(M) = RightOf(P)
  BY <1>1, <1>3, <1>5, <1>6, AlikeIs
<1>8. Recalled(L, i) = M
  BY DEF Recalled, M, P, t
<1> QED BY <1>3, <1>4, <1>5, <1>7, <1>8 DEF t

LEMMA RecalledOk ==
    ASSUME NEW cap \in Nat, NEW L, Fine(cap, L), L.harm = "none",
           NEW i \in 1 .. Len(L.hist)
    PROVE  Ok(cap, L, Recalled(L, i))
<1> DEFINE M == Recalled(L, i)
<1>1. /\ Fine(cap, M) /\ M.dirty /\ M.harm = "none" /\ M.hist = L.hist
      /\ LeftOf(M) = L.hist[i] /\ RightOf(M) = <<>>
  BY RecalledIs
<1>2. i \in DOMAIN L.hist
  <2>1. PICK h \in Seq(Short(cap)) : h = L.hist
    BY DEF Fine
  <2>2. DOMAIN h = 1 .. Len(h)
    BY LenProperties
  <2> QED BY <2>1, <2>2
<1> HIDE DEF M
<1>3. Recalls(L, M)
  BY <1>1, <1>2 DEF Recalls
<1>4. Edits(L, M)
  BY <1>3 DEF Edits
<1>5. Ok(cap, L, M)
  BY <1>1, <1>4, ChangedOk
<1> QED BY <1>5 DEF M

LEMMA HistoryPrevOk ==
    ASSUME NEW cap \in Nat, NEW L, Fine(cap, L), L.harm = "none"
    PROVE  Ok(cap, L, input_history_prev(L))
<1> DEFINE n == Len(L.hist)
<1>1. PICK h \in Seq(Short(cap)) : h = L.hist
  BY DEF Fine
<1>2. n \in Nat /\ (L.hist # <<>> => n >= 1) /\ L.hcur \in -1 .. n
  <2>1. Len(h) \in Nat
    BY LenProperties
  <2>2. h # <<>> => Len(h) \in Nat \ {0}
    BY EmptySeq
  <2>3. L.hcur \in -1 .. Len(L.hist)
    BY DEF Fine, HistOk
  <2> QED BY <1>1, <2>1, <2>2, <2>3
<1>3. L.hcur = -1 \/ L.gone \/ L.max < 2 => L.cut
  BY DEF Fine, HistOk
<1>4. CASE L.gone \/ L.hcur = -1
  <2>1. L.cut
    BY <1>3, <1>4
  <2> QED BY <1>4, <2>1, FreedOk DEF input_history_prev
<1>5. CASE ~(L.gone \/ L.hcur = -1) /\ (L.hist = <<>> \/ L.hcur = Len(L.hist))
  BY <1>5, SameOk DEF input_history_prev
<1>6. CASE /\ ~(L.gone \/ L.hcur = -1) /\ ~(L.hist = <<>> \/ L.hcur = Len(L.hist))
           /\ L.hcur # 0
  <2>1. L.hcur + 1 \in 1 .. n
    BY <1>2, <1>6
  <2>2. Ok(cap, L, Recalled(L, L.hcur + 1))
    BY <2>1, RecalledOk
  <2>3. input_history_prev(L) = Recalled(L, L.hcur + 1)
    BY <1>6 DEF input_history_prev
  <2> QED BY <2>2, <2>3
<1>7. CASE /\ ~(L.gone \/ L.hcur = -1) /\ ~(L.hist = <<>> \/ L.hcur = Len(L.hist))
           /\ ~(L.hcur # 0) /\ L.text = <<>>
  <2>1. 1 \in 1 .. n
    BY <1>2, <1>7
  <2>2. Ok(cap, L, Recalled(L, 1))
    BY <2>1, RecalledOk
  <2>3. input_history_prev(L) = Recalled(L, 1)
    BY <1>7 DEF input_history_prev
  <2> QED BY <2>2, <2>3
<1>8. CASE /\ ~(L.gone \/ L.hcur = -1) /\ ~(L.hist = <<>> \/ L.hcur = Len(L.hist))
           /\ ~(L.hcur # 0) /\ L.text # <<>>
  <2>1. CASE L.max < 2
    <3>1. input_history_prev(L) = Harm(L, "freed")
      BY <1>8, <2>1 DEF input_history_prev
    <3> QED BY <1>3, <2>1, <3>1, FreedOk
  <2>2. CASE ~(L.max < 2)
    <3> DEFINE A == input_history_add(L)
               M == Recalled(A, 2)
    <3>1. L.max >= 2
      BY <2>2 DEF Fine, LineRec
    <3>2. /\ Fine(cap, A) /\ A.harm = L.harm
          /\ A.hist \in TrimsOf(<<TextOf(L)>> \o L.hist)
          /\ Len(A.hist) >= 2 /\ A.hist[2] = L.hist[1] /\ 1 \in DOMAIN L.hist
      BY <1>8, <3>1, AddIs
    <3>3. input_history_prev(L) = M
      BY <1>8, <2>2 DEF input_history_prev
    <3> HIDE DEF A
    <3>4. 2 \in 1 .. Len(A.hist)
      <4>1. PICK g \in Seq(Short(cap)) : g = A.hist
        BY <3>2 DEF Fine
      <4>2. Len(g) \in Nat
        BY LenProperties
      <4> QED BY <3>2, <4>1, <4>2
    <3>5. /\ Fine(cap, M) /\ M.dirty /\ M.harm = A.harm /\ M.hist = A.hist
          /\ LeftOf(M) = A.hist[2] /\ RightOf(M) = <<>>
      BY <3>2, <3>4, RecalledIs
    <3> HIDE DEF M
    <3>6. Recalls(L, M)
      BY <3>2, <3>5 DEF Recalls
    <3>7. Edits(L, M)
      BY <3>6 DEF Edits
    <3>8. Ok(cap, L, M)
      BY <3>2, <3>5, <3>7, ChangedOk
    <3> QED BY <3>3, <3>8
  <2> QED BY <2>1, <2>2
<1> QED BY <1>4, <1>5, <1>6, <1>7, <1>8

LEMMA ForgottenIs ==
    ASSUME NEW cap \in Nat, NEW C, Fine(cap, C), NEW h \in {C.hist, <<>>}
    PROVE  LET M == [C EXCEPT !.hist = h, !.hcur = 0]
           IN  /\ Fine(cap, M) /\ M.dirty = C.dirty /\ M.harm = C.harm /\ M.hist = h
               /\ LeftOf(M) = LeftOf(C) /\ RightOf(M) = RightOf(C)
<1> DEFINE M == [C EXCEPT !.hist = h, !.hcur = 0]
<1>1. PICK z \in Int : z = 0
  OBVIOUS
<1>2. M = [C EXCEPT !.hist = h, !.hcur = z]
  BY <1>1
<1>3. C \in LineRec /\ C.hist \in Seq(Short(cap)) /\ h \in Seq(Short(cap)) /\ Len(h) \in Nat
  <2>1. <<>> \in Seq(Short(cap))
    BY EmptySeq
  <2>2. C \in LineRec /\ C.hist \in Seq(Short(cap)) /\ h \in Seq(Short(cap))
    BY <2>1 DEF Fine
  <2> QED BY <2>2, LenProperties
<1>4. h \in Seq(Seq(Char))
  <2>1. Short(cap) \subseteq Seq(Char)
    BY DEF Short
  <2> QED BY <1>3, <2>1, SeqMonotonic
<1> HIDE DEF M
<1>5. /\ M \in LineRec /\ M.text = C.text /\ M.cur = C.cur
      /\ M.begin = C.begin /\ M.prompt = C.prompt /\ M.hist = h /\ M.cut = C.cut
      /\ M.hcur = z /\ M.gone = C.gone /\ M.max = C.max /\ M.harm = C.harm
      /\ M.dirty = C.dirty
  BY <1>2, <1>3, <1>4 DEF LineRec
<1>6. HistOk(M)
  <2>1. z \in -1 .. Len(h) /\ z # -1
    BY <1>1, <1>3
  <2>2. C.gone \/ C.max < 2 => C.cut
    BY DEF Fine, HistOk
  <2> QED BY <1>5, <2>1, <2>2 DEF HistOk
<1>7. Fine(cap, M) /\ LeftOf(M) = LeftOf(C) /\ RightOf(M) = RightOf(C)
  BY <1>3, <1>5, <1>6, AlikeIs
<1> QED BY <1>5, <1>7 DEF M

LEMMA HistoryNextOk ==
    ASSUME NEW cap \in Nat, NEW L, Fine(cap, L), L.harm = "none"
    PROVE  Ok(cap, L, input_history_next(L))
<1>1. PICK h \in Seq(Short(cap)) : h = L.hist
  BY DEF Fine
<1>2. Len(h) \in Nat /\ L.hcur \in -1 .. Len(h)
  BY <1>1, LenProperties DEF Fine, HistOk
<1>3. CASE L.hcur = -1
  <2>1. L.cut
    BY <1>3 DEF Fine, HistOk
  <2>2. input_history_next(L) = Harm(L, "freed")
    BY <1>3 DEF input_history_next
  <2> QED BY <2>1, <2>2, FreedOk
<1>4. CASE L.hcur = 0
  <2>1. input_history_next(L) = L
    BY <1>4 DEF input_history_next
  <2> QED BY <2>1, SameOk
<1>5. CASE L.hcur = 1
  <2> DEFINE C == input_clear_line(L)
             M == [C EXCEPT !.hist = C.hist, !.hcur = 0]
  <2>1. /\ Fine(cap, C) /\ C.dirty /\ C.harm = L.harm /\ C.hist = L.hist
        /\ LeftOf(C) = <<>> /\ RightOf(C) = <<>>
    BY ClearIs
  <2>2. input_history_next(L) = [C EXCEPT !.hcur = 0]
    BY <1>5 DEF input_history_next
  <2> HIDE DEF C
  <2>3. M = [C EXCEPT !.hcur = 0]
    BY <2>1 DEF Fine, LineRec
  <2>4. /\ Fine(cap, M) /\ M.dirty = C.dirty /\ M.harm = C.harm /\ M.hist = C.hist
        /\ LeftOf(M) = LeftOf(C) /\ RightOf(M) = RightOf(C)
    <3>1. PICK k \in {C.hist, <<>>} : k = C.hist
      OBVIOUS
    <3>2. LET N == [C EXCEPT !.hist = k, !.hcur = 0]
          IN  /\ Fine(cap, N) /\ N.dirty = C.dirty /\ N.harm = C.harm /\ N.hist = k
              /\ LeftOf(N) = LeftOf(C) /\ RightOf(N) = RightOf(C)
      BY <2>1, ForgottenIs
    <3> QED BY <3>1, <3>2
  <2> HIDE DEF M
  <2>5. Edits(L, M)
    BY <2>1, <2>4 DEF Edits, Empties
  <2>6. Ok(cap, L, M)
    BY <2>1, <2>4, <2>5, ChangedOk
  <2> QED BY <2>2, <2>3, <2>6
<1>6. CASE L.hcur \notin {-1, 0, 1}
  <2>1. L.hcur - 1 \in 1 .. Len(L.hist)
    BY <1>1, <1>2, <1>6
  <2>2. input_history_next(L) = Recalled(L, L.hcur - 1)
    BY <1>6 DEF input_history_next
  <2> QED BY <2>1, <2>2, RecalledOk
<1> QED BY <1>3, <1>4, <1>5, <1>6

LEMMA HistoryClearOk ==
    ASSUME NEW cap \in Nat, NEW L, Fine(cap, L), L.harm = "none"
    PROVE  Ok(cap, L, input_history_clear(L))
<1>1. CASE L.gone
  <2>1. L.cut
    BY <1>1 DEF Fine, HistOk
  <2>2. input_history_clear(L) = Harm(L, "freed")
    BY <1>1 DEF input_history_clear
  <2> QED BY <2>1, <2>2, FreedOk
<1>2. CASE ~L.gone
  <2> DEFINE C == input_clear_line(L)
             M == [C EXCEPT !.hist = <<>>, !.hcur = 0]
  <2>1. /\ Fine(cap, C) /\ C.dirty /\ C.harm = L.harm /\ C.hist = L.hist
        /\ LeftOf(C) = <<>> /\ RightOf(C) = <<>>
    BY ClearIs
  <2>2. input_history_clear(L) = M
    BY <1>2 DEF input_history_clear
  <2> HIDE DEF C
  <2>3. /\ Fine(cap, M) /\ M.dirty = C.dirty /\ M.harm = C.harm /\ M.hist = <<>>
        /\ LeftOf(M) = LeftOf(C) /\ RightOf(M) = RightOf(C)
    <3>1. PICK k \in {C.hist, <<>>} : k = <<>>
      OBVIOUS
    <3>2. LET N == [C EXCEPT !.hist = k, !.hcur = 0]
          IN  /\ Fine(cap, N) /\ N.dirty = C.dirty /\ N.harm = C.harm /\ N.hist = k
              /\ LeftOf(N) = LeftOf(C) /\ RightOf(N) = RightOf(C)
      BY <2>1, ForgottenIs
    <3> QED BY <3>1, <3>2
  <2> HIDE DEF M
  <2>4. Edits(L, M)
    BY <2>1, <2>3 DEF Edits, Empties
  <2>5. Ok(cap, L, M)
    BY <2>1, <2>3, <2>4, ChangedOk
  <2> QED BY <2>2, <2>5
<1> QED BY <1>1, <1>2

LEMMA SetLenOk ==
    ASSUME NEW cap \in Nat, NEW L, Fine(cap, L), L.harm = "none", NEW n \in Nat
    PROVE  Ok(cap, L, SetLen(L, n))
<1> DEFINE K == [L EXCEPT !.max = n, !.cut = @ \/ n < 2 \/ L.hcur > n]
           N == input_history_prune(K)
<1>1. L \in LineRec /\ L.hist \in Seq(Short(cap)) /\ Len(L.hist) \in Nat /\ L.hcur \in Int
  <2>1. L \in LineRec /\ L.hist \in Seq(Short(cap)) /\ L.hcur \in Int
    BY DEF Fine, LineRec
  <2> QED BY <2>1, LenProperties
<1>2. PICK c \in BOOLEAN : c = (L.cut \/ n < 2 \/ L.hcur > n)
  OBVIOUS
<1>3. K = [L EXCEPT !.max = n, !.cut = c]
  BY <1>1, <1>2 DEF LineRec
<1> HIDE DEF K
<1>4. /\ K \in LineRec /\ K.text = L.text /\ K.cur = L.cur
      /\ K.begin = L.begin /\ K.prompt = L.prompt /\ K.width = L.width /\ K.hist = L.hist
      /\ K.cut = c /\ K.hcur = L.hcur /\ K.gone = L.gone /\ K.max = n /\ K.harm = L.harm
      /\ K.dirty = L.dirty /\ K.blank = L.blank
  BY <1>1, <1>3 DEF LineRec
<1>5. /\ N \in LineRec /\ N.text = K.text /\ N.cur = K.cur /\ N.begin = K.begin
      /\ N.prompt = K.prompt /\ N.width = K.width /\ N.max = K.max
      /\ N.cut = K.cut /\ N.blank = K.blank /\ N.dirty = K.dirty /\ N.harm = K.harm
      /\ N.hist \in Seq(Short(cap)) /\ N.hist \in TrimsOf(K.hist)
      /\ Len(N.hist) = (IF Len(K.hist) <= K.max THEN Len(K.hist) ELSE K.max)
      /\ N.hcur = (IF Len(K.hist) > K.max /\ K.hcur > K.max THEN -1 ELSE K.hcur)
      /\ N.gone => K.gone \/ K.max = 0
  BY <1>1, <1>4, PruneIs
<1>6. SetLen(L, n) = N
  BY DEF SetLen, N, K
<1> HIDE DEF N
<1>7. HistOk(N)
  <2>1. L.hcur \in -1 .. Len(L.hist) /\ (L.hcur = -1 \/ L.gone => L.cut)
    BY DEF Fine, HistOk
  <2>2. L.cut => c
    BY <1>2
  <2>3. n < 2 => c
    BY <1>2
  <2>4. L.hcur > n => c
    BY <1>2
  <2>5. N.hcur \in -1 .. Len(N.hist)
    BY <1>1, <1>4, <1>5, <2>1
  <2>6. N.hcur = -1 => c
    BY <1>1, <1>4, <1>5, <2>1, <2>2, <2>4
  <2>7. N.gone => c
    <3>1. N.gone => L.gone \/ n = 0
      BY <1>4, <1>5
    <3>2. n = 0 => n < 2
      OBVIOUS
    <3> QED BY <3>1, <3>2, <2>1, <2>2, <2>3
  <2>8. N.cut = c /\ N.max = n
    BY <1>4, <1>5
  <2> QED BY <2>3, <2>5, <2>6, <2>7, <2>8 DEF HistOk
<1>8. /\ N.text = L.text /\ N.cur = L.cur /\ N.begin = L.begin /\ N.prompt = L.prompt
      /\ N.width = L.width /\ N.dirty = L.dirty /\ N.blank = L.blank /\ N.harm = "none"
      /\ N.hist \in TrimsOf(L.hist)
  BY <1>4, <1>5
<1>9. Fine(cap, N) /\ LeftOf(N) = LeftOf(L) /\ RightOf(N) = RightOf(L)
  BY <1>5, <1>7, <1>8, AlikeIs
<1>10. Edits(L, N)
  BY <1>8, <1>9 DEF Edits, Forgets
<1>11. HarmOk(cap, N)
  BY <1>8 DEF HarmOk
<1> QED BY <1>6, <1>8, <1>9, <1>10, <1>11 DEF Ok

LEMMA SendOk ==
    ASSUME NEW cap \in Nat, NEW L, Fine(cap, L), L.harm = "none", L.text # <<>>
    PROVE  Ok(cap, L, input_clear_line(input_history_add(L)))
<1> DEFINE A == input_history_add(L)
           M == input_clear_line(A)
<1>1. TextOf(L) = L.text
  BY Sides DEF TextOf
<1>2. CASE L.gone
  <2>1. A = Harm(L, "freed") /\ "freed" \in Harms
    BY <1>2 DEF input_history_add, Harms
  <2>2. Fine(cap, A) /\ A.harm = "freed" /\ A.hist = L.hist /\ A.cut = L.cut
    BY <2>1, HarmIs
  <2> HIDE DEF A
  <2>3. /\ Fine(cap, M) /\ M.dirty /\ M.harm = A.harm /\ M.hist = A.hist
        /\ M.cut = A.cut /\ LeftOf(M) = <<>> /\ RightOf(M) = <<>>
    BY <2>2, ClearIs
  <2>4. L.cut
    BY <1>2 DEF Fine, HistOk
  <2> HIDE DEF M
  <2>5. Edits(L, M)
    BY <2>2, <2>3 DEF Edits, Empties
  <2>6. HarmOk(cap, M)
    BY <2>2, <2>3, <2>4 DEF HarmOk
  <2>7. Ok(cap, L, M)
    BY <2>3, <2>5, <2>6 DEF Ok
  <2> QED BY <2>7 DEF M, A
<1>3. CASE ~L.gone
  <2>1. /\ Fine(cap, A) /\ A.harm = "none"
        /\ A.hist \in TrimsOf(<<TextOf(L)>> \o L.hist)
    BY <1>3, AddIs
  <2> HIDE DEF A
  <2>2. /\ Fine(cap, M) /\ M.dirty /\ M.harm = A.harm /\ M.hist = A.hist
        /\ LeftOf(M) = <<>> /\ RightOf(M) = <<>>
    BY <2>1, ClearIs
  <2> HIDE DEF M
  <2>3. Enters(L, M)
    BY <1>1, <2>1, <2>2 DEF Enters
  <2>4. Edits(L, M)
    BY <2>3 DEF Edits
  <2>5. Ok(cap, L, M)
    BY <2>1, <2>2, <2>4, ChangedOk
  <2> QED BY <2>5 DEF M, A
<1> QED BY <1>2, <1>3

(* An empty string is sent.                                                *)
LEMMA BlankOk ==
    ASSUME NEW cap \in Nat, NEW L, Fine(cap, L), L.harm = "none"
    PROVE  Ok(cap, L, [L EXCEPT !.text = <<>>, !.cur = 0, !.begin = 0, !.blank = TRUE])
<1> DEFINE M == [L EXCEPT !.text = <<>>, !.cur = 0, !.begin = 0, !.blank = TRUE]
<1>1. PICK z \in Nat, t \in Short(cap) : z = 0 /\ t = <<>> /\ Len(t) = 0
  BY NothingIs
<1>2. M = [L EXCEPT !.text = t, !.cur = z, !.begin = z, !.blank = TRUE]
  BY <1>1
<1> HIDE DEF M
<1>3. L \in LineRec /\ t \in Seq(Char)
  BY DEF Fine, Short
<1>4. /\ M \in LineRec /\ M.text = t /\ M.cur = z
      /\ M.begin = z /\ M.prompt = L.prompt /\ M.width = L.width /\ M.hist = L.hist
      /\ M.cut = L.cut /\ M.hcur = L.hcur /\ M.gone = L.gone /\ M.max = L.max
      /\ M.harm = L.harm /\ M.dirty = L.dirty /\ M.blank
  BY <1>2, <1>3 DEF LineRec
<1>5. Len0(M) = 0 /\ M.prompt \in {0, PromptLen} /\ Pos(M) = 0 - M.prompt
  BY <1>1, <1>3, <1>4 DEF Len0, Pos, LineRec
<1>6. CursorOk(M)
  <2>1. CASE M.prompt = 0
    <3>1. Pos(M) = 0
      BY <1>5, <2>1
    <3>2. M.prompt = M.begin /\ M.begin = M.cur
      BY <1>1, <1>4, <2>1
    <3> QED BY <1>1, <1>4, <1>5, <2>1, <3>1, <3>2 DEF CursorOk
  <2>2. CASE M.prompt = PromptLen
    <3>1. ~(Pos(M) >= 0)
      BY <1>5, <2>2 DEF PromptLen
    <3> QED BY <1>1, <1>4, <3>1 DEF CursorOk
  <2> QED BY <1>5, <2>1, <2>2
<1>7. BeginOk(M)
  <2>1. ~(M.begin < M.cur)
    BY <1>4
  <2> QED BY <2>1 DEF BeginOk
<1>8. Fine(cap, M)
  BY <1>4, <1>6, <1>7 DEF Fine, HistOk
<1>9. LeftOf(M) = <<>> /\ RightOf(M) = <<>>
  <2>1. /\ Len(LeftOf(M)) = SplitOf(M) /\ SplitOf(M) \in 0 .. Len0(M)
        /\ LeftOf(M) \in Seq(Char) /\ RightOf(M) \in Seq(Char)
        /\ Len(RightOf(M)) = Len0(M) - SplitOf(M)
    BY <1>8, Sides
  <2>2. Len(LeftOf(M)) = 0 /\ Len(RightOf(M)) = 0
    BY <1>5, <2>1
  <2> QED BY <2>1, <2>2, EmptySeq
<1>10. Edits(L, M)
  BY <1>4, <1>9 DEF Edits, Empties
<1>11. HarmOk(cap, M)
  BY <1>4 DEF HarmOk
<1>12. Ok(cap, L, M)
  BY <1>4, <1>8, <1>10, <1>11 DEF Ok
<1> QED BY <1>12 DEF M

-----------------------------------------------------------------------------
(* Completing.                                                             *)
LEMMA EndIsNul ==
    ASSUME NEW L, Len0(L) \in Nat
    PROVE  At(L, Len0(L)) = "NUL" /\ At(L, Len0(L)) # Blank
<1>1. ~(Len0(L) < Len0(L))
  OBVIOUS
<1>2. At(L, Len0(L)) = "NUL"
  BY <1>1 DEF At
<1> QED BY <1>2 DEF Blank

LEMMA WordIs ==
    ASSUME NEW L, Len0(L) \in Nat, Len0(L) >= 1
    PROVE  /\ Word(L) \in 1 .. Len0(L) /\ At(L, Word(L)) \in {Blank, "NUL"}
           /\ \A p \in 1 .. Len0(L) : At(L, p) \in {Blank, "NUL"} => Word(L) <= p
<1> DEFINE T == {p \in 1 .. Len0(L) : At(L, p) \in {Blank, "NUL"}}
<1>1. Len0(L) \in T /\ T \subseteq Nat
  BY EndIsNul
<1>2. Min(T) \in T /\ \A y \in T : Min(T) <= y
  BY <1>1, MinIs
<1>3. Word(L) = Min(T)
  BY DEF Word
<1> QED BY <1>2, <1>3

LEMMA AfterBlanksIs ==
    ASSUME NEW L, Len0(L) \in Nat, NEW p \in 0 .. Len0(L)
    PROVE  /\ AfterBlanks(L, p) \in p .. Len0(L) /\ At(L, AfterBlanks(L, p)) # Blank
           /\ \A q \in p .. Len0(L) : At(L, q) # Blank => AfterBlanks(L, p) <= q
<1> DEFINE T == {q \in p .. Len0(L) : At(L, q) # Blank}
<1>1. Len0(L) \in T /\ T \subseteq Nat
  BY EndIsNul
<1>2. Min(T) \in T /\ \A y \in T : Min(T) <= y
  BY <1>1, MinIs
<1>3. AfterBlanks(L, p) = Min(T)
  BY DEF AfterBlanks
<1> QED BY <1>2, <1>3

(* Two lines with the same beginning have the same first word in it.       *)
LEMMA SameWord ==
    ASSUME NEW K, NEW C, NEW b \in Nat, Len0(K) \in Nat, Len0(C) \in Nat,
           1 <= b, b <= Len0(K), b <= Len0(C),
           \A p \in 0 .. b - 1 : At(C, p) = At(K, p), Word(C) < b
    PROVE  Word(K) = Word(C)
<1>1. /\ Word(K) \in 1 .. Len0(K) /\ At(K, Word(K)) \in {Blank, "NUL"}
      /\ \A p \in 1 .. Len0(K) : At(K, p) \in {Blank, "NUL"} => Word(K) <= p
  BY WordIs
<1>2. /\ Word(C) \in 1 .. Len0(C) /\ At(C, Word(C)) \in {Blank, "NUL"}
      /\ \A p \in 1 .. Len0(C) : At(C, p) \in {Blank, "NUL"} => Word(C) <= p
  BY WordIs
<1>3. Word(C) \in 0 .. b - 1 /\ Word(C) \in 1 .. Len0(K)
  BY <1>2
<1>4. Word(K) <= Word(C)
  BY <1>1, <1>2, <1>3
<1>5. Word(K) \in 0 .. b - 1 /\ Word(K) \in 1 .. Len0(C)
  BY <1>1, <1>3, <1>4
<1>6. Word(C) <= Word(K)
  BY <1>1, <1>2, <1>5
<1> QED BY <1>1, <1>2, <1>4, <1>6

(* What is inserted at the cursor follows what was there.                  *)
Follows(C, str) ==
    At(C, 0) = Slash /\ Word(C) < Pos(C) =>
        \/ \E q \in Word(C) .. Pos(C) - 1 : At(C, q) # Blank
        \/ str # <<>> => str[1] # Blank

LEMMA BeginKept ==
    ASSUME NEW C, NEW M, NEW b \in Nat, NEW str, Pos(C) = b, 1 <= b,
           Len0(C) \in Nat, b <= Len0(C), Len0(M) \in Nat,
           \A p \in 0 .. b - 1 : At(M, p) = At(C, p),
           M.begin - M.prompt = b, Follows(C, str),
           str # <<>> => b < Len0(M) /\ At(M, b) = str[1],
           str = <<>> => ~(M.begin < M.cur)
    PROVE  BeginOk(M)
<1> SUFFICES ASSUME M.prompt < M.begin, M.begin < M.cur, At(M, 0) = Slash, Word(M) < b
             PROVE  AfterBlanks(M, Word(M)) <= b
  BY DEF BeginOk
<1>1. str # <<>> /\ b < Len0(M) /\ At(M, b) = str[1]
  OBVIOUS
<1>2. Word(C) = Word(M)
  BY <1>1, SameWord
<1>3. Word(M) \in 1 .. Len0(M)
  BY <1>1, WordIs
<1>4. At(C, 0) = Slash
  <2>1. 0 \in 0 .. b - 1
    OBVIOUS
  <2> QED BY <2>1
<1>5. /\ AfterBlanks(M, Word(M)) \in Word(M) .. Len0(M)
      /\ \A q \in Word(M) .. Len0(M) : At(M, q) # Blank => AfterBlanks(M, Word(M)) <= q
  <2>1. Word(M) \in 0 .. Len0(M)
    BY <1>3
  <2> QED BY <2>1, AfterBlanksIs
<1>6. CASE \E q \in Word(C) .. b - 1 : At(C, q) # Blank
  <2>1. PICK q \in Word(C) .. b - 1 : At(C, q) # Blank
    BY <1>6
  <2>2. q \in 0 .. b - 1 /\ q \in Word(M) .. Len0(M) /\ q <= b
    BY <1>1, <1>2, <1>3, <2>1
  <2>3. At(M, q) # Blank
    BY <2>1, <2>2
  <2>4. AfterBlanks(M, Word(M)) <= q
    BY <1>5, <2>2, <2>3
  <2> QED BY <1>5, <2>2, <2>4
<1>7. CASE str[1] # Blank
  <2>1. b \in Word(M) .. Len0(M)
    BY <1>1, <1>3
  <2> QED BY <1>1, <1>5, <1>7, <2>1
<1> QED BY <1>1, <1>2, <1>4, <1>6, <1>7 DEF Follows

(* The characters of a line in two parts, and in three.                     *)
Glue(a, b) == a \o b
Begins(L, a, r, n) ==
    a \in Seq(Char) /\ r \in Seq(Char) /\ n = Len(a) /\ L.text = Glue(a, r)

LEMMA TwoParts ==
    ASSUME NEW a, NEW r, NEW L, NEW n, Begins(L, a, r, n)
    PROVE  /\ Len0(L) \in Nat /\ n \in Nat /\ Len0(L) = n + Len(r)
           /\ \A p \in 0 .. n - 1 : At(L, p) = a[p + 1]
<1>0. a \in Seq(Char) /\ r \in Seq(Char) /\ n = Len(a) /\ L.text = Glue(a, r)
  BY DEF Begins
<1>1. Len(a) \in Nat /\ Len(r) \in Nat
  BY <1>0, LenProperties
<1> DEFINE c == a \o r
<1>2. /\ c \in Seq(Char) /\ Len(c) = Len(a) + Len(r)
      /\ \A i \in 1 .. Len(a) + Len(r) : c[i] = IF i <= Len(a) THEN a[i] ELSE r[i - Len(a)]
  BY <1>0, ConcatProperties
<1> HIDE DEF c
<1>3. Len0(L) = Len(c) /\ L.text = c
  BY <1>0 DEF Len0, c, Glue
<1>4. ASSUME NEW p \in 0 .. n - 1 PROVE At(L, p) = a[p + 1]
  <2>1. p + 1 \in 1 .. Len(a) + Len(r) /\ p + 1 <= Len(a) /\ p < Len(c)
    BY <1>0, <1>1, <1>2
  <2> QED BY <1>2, <1>3, <2>1 DEF At
<1> QED BY <1>0, <1>1, <1>2, <1>3, <1>4

LEMMA ThreeParts ==
    ASSUME NEW a \in Seq(Char), NEW str \in Seq(Char), NEW r \in Seq(Char),
           NEW d \in Seq(Char), d = Glue(a, str), NEW b, b = Len(a),
           NEW C, NEW M, C.text = Glue(a, r), M.text = Glue(d, r)
    PROVE  /\ Len0(C) \in Nat /\ Len0(M) \in Nat /\ b \in Nat /\ b <= Len0(C)
           /\ \A p \in 0 .. b - 1 : At(M, p) = At(C, p)
           /\ str # <<>> => b < Len0(M) /\ At(M, b) = str[1]
<1>1. Len(a) \in Nat /\ Len(str) \in Nat /\ Len(r) \in Nat /\ (str # <<>> => Len(str) >= 1)
  <2>1. str # <<>> => Len(str) \in Nat \ {0}
    BY EmptySeq
  <2> QED BY <2>1, LenProperties
<1>2. /\ Len0(C) \in Nat /\ b \in Nat /\ Len0(C) = b + Len(r)
      /\ \A p \in 0 .. b - 1 : At(C, p) = a[p + 1]
  <2>1. Begins(C, a, r, b)
    BY DEF Begins
  <2> QED BY <2>1, TwoParts
<1>3. PICK e : e = Len(d)
  OBVIOUS
<1>4. /\ Len0(M) \in Nat /\ e \in Nat /\ Len0(M) = e + Len(r)
      /\ \A p \in 0 .. e - 1 : At(M, p) = d[p + 1]
  <2>1. Begins(M, d, r, e)
    BY <1>3 DEF Begins
  <2> QED BY <2>1, TwoParts
<1>5. /\ Len(d) = Len(a) + Len(str)
      /\ \A i \in 1 .. Len(a) + Len(str) : d[i] = IF i <= Len(a) THEN a[i] ELSE str[i - Len(a)]
  BY ConcatProperties DEF Glue
<1>6. ASSUME NEW p \in 0 .. b - 1
      PROVE  At(M, p) = At(C, p)
  <2>1. p \in 0 .. e - 1 /\ p + 1 \in 1 .. Len(a) + Len(str) /\ p + 1 <= Len(a)
    BY <1>1, <1>3, <1>5
  <2> QED BY <1>2, <1>4, <1>5, <2>1
<1>7. ASSUME str # <<>>
      PROVE  b < Len0(M) /\ At(M, b) = str[1]
  <2>1. /\ b \in 0 .. e - 1 /\ b + 1 \in 1 .. Len(a) + Len(str) /\ ~(b + 1 <= Len(a))
        /\ b + 1 - Len(a) = 1
    BY <1>1, <1>2, <1>3, <1>5, <1>7
  <2>2. d[b + 1] = str[1]
    BY <1>5, <2>1
  <2> QED BY <1>1, <1>4, <2>1, <2>2
<1> QED BY <1>1, <1>2, <1>4, <1>6, <1>7

LEMMA PutGlued ==
    ASSUME NEW cap \in Nat, NEW L, Fine(cap, L),
           NEW a \in Seq(Char), NEW b \in Seq(Char), Len(a) + Len(b) <= cap,
           NEW n, n = Len(a), NEW M, M = Put(L, Glue(a, b), n)
    PROVE  /\ Fine(cap, M) /\ M.dirty /\ M.harm = L.harm
           /\ M.text = Glue(a, b) /\ M.hist = L.hist /\ Pos(M) = n
           /\ M.prompt = L.prompt /\ LeftOf(M) = a /\ RightOf(M) = b
<1> QED BY PutJoined DEF Glue

(* What is inserted is on the line, and begin stays in front of it.        *)
LEMMA InsertedIs ==
    ASSUME NEW C, Fine(play.cap, C), play.cap \in Nat, C.harm = "none",
           C.begin = C.cur, Pos(C) >= 1, NEW str \in Seq(Char), Follows(C, str)
    PROVE  LET M == [input_insert(C, str) EXCEPT !.begin = C.begin]
           IN  \/ M = C
               \/ /\ Fine(play.cap, M) /\ M.dirty /\ M.harm = "none" /\ M.hist = C.hist
                  /\ LeftOf(M) = LeftOf(C) \o str /\ RightOf(M) = RightOf(C)
<1> DEFINE N == input_insert(C, str)
           M == [N EXCEPT !.begin = C.begin]
<1>1. /\ LeftOf(C) \in Seq(Char) /\ RightOf(C) \in Seq(Char)
      /\ Len(LeftOf(C)) = SplitOf(C) /\ LeftOf(C) \o RightOf(C) = C.text
      /\ Pos(C) \in Int /\ C \in LineRec
  BY Sides DEF Fine
<1>2. PICK a \in Seq(Char), r \in Seq(Char) : a = LeftOf(C) /\ r = RightOf(C)
  BY <1>1
<1>3. Len(a) = Pos(C) /\ C.text = a \o r /\ Pos(C) \in Nat /\ Len(str) \in Nat
  BY <1>1, <1>2, LenProperties DEF SplitOf
<1>4. CASE N = C
  <2>1. M = C
    BY <1>1, <1>4 DEF LineRec
  <2> QED BY <2>1
<1>5. CASE /\ N = Put(C, (a \o str) \o r, Len(a \o str))
           /\ a \o str \in Seq(Char) /\ Len(a \o str) = Pos(C) + Len(str)
           /\ Len(a \o str) + Len(r) <= play.cap
  <2>1. PICK d \in Seq(Char), n \in Nat : d = a \o str /\ n = Len(d)
    BY <1>5, LenProperties
  <2>2. N = Put(C, Glue(d, r), n) /\ n = Pos(C) + Len(str) /\ Len(d) + Len(r) <= play.cap
    BY <1>5, <2>1 DEF Glue
  <2> HIDE DEF N
  <2>4. /\ Fine(play.cap, N) /\ N.dirty /\ N.harm = "none"
        /\ N.text = Glue(d, r) /\ N.hist = C.hist /\ Pos(N) = n
        /\ N.prompt = C.prompt /\ LeftOf(N) = d /\ RightOf(N) = r
    <3>1. PICK cap \in Nat : cap = play.cap
      OBVIOUS
    <3>4. PICK m : m = N
      OBVIOUS
    <3>2. Fine(cap, C) /\ Len(d) + Len(r) <= cap /\ m = Put(C, Glue(d, r), n) /\ n = Len(d)
      BY <2>1, <2>2, <3>1, <3>4
    <3>3. /\ Fine(cap, m) /\ m.dirty /\ m.harm = C.harm
          /\ m.text = Glue(d, r) /\ m.hist = C.hist /\ Pos(m) = n
          /\ m.prompt = C.prompt /\ LeftOf(m) = d /\ RightOf(m) = r
      BY <3>2, PutGlued
    <3> QED BY <3>1, <3>3, <3>4
  <2>5. PICK z \in Nat : z = C.begin
    BY <1>1 DEF LineRec
  <2>6. N \in LineRec /\ N.hist \in Seq(Short(play.cap)) /\ HistOk(N) /\ N.text \in Short(play.cap)
    BY <2>4 DEF Fine
  <2>7. M = [N EXCEPT !.begin = z]
    BY <2>5
  <2> HIDE DEF M
  <2>8. /\ M \in LineRec /\ M.text = N.text /\ M.cur = N.cur
        /\ M.begin = z /\ M.prompt = N.prompt /\ M.hist = N.hist /\ M.cut = N.cut
        /\ M.hcur = N.hcur /\ M.gone = N.gone /\ M.max = N.max /\ M.harm = N.harm
        /\ M.dirty = N.dirty
    BY <2>6, <2>7 DEF LineRec
  <2>9. Pos(M) = Pos(N) /\ Len0(M) = Len0(N)
    BY <2>8 DEF Pos, Len0
  <2>10. LeftOf(M) = LeftOf(N) /\ RightOf(M) = RightOf(N)
    BY <2>8, <2>9 DEF LeftOf, RightOf, SplitOf, Till, From
  <2>11. /\ M.cur \in Nat /\ M.prompt \in Nat /\ z = M.prompt + Pos(C)
         /\ M.cur = M.prompt + (Pos(C) + Len(str))
    <3>1. C.cur = C.prompt + Pos(C) /\ C.prompt \in Nat
      BY <1>1 DEF Pos, LineRec, PromptLen
    <3>2. N.cur = N.prompt + Pos(N) /\ N.cur \in Nat /\ N.prompt \in Nat
      BY <2>6 DEF Pos, LineRec, PromptLen
    <3> QED BY <2>2, <2>4, <2>5, <2>8, <3>1, <3>2
  <2>12. CursorOk(M)
    <3>1. Pos(N) >= 0 /\ Pos(N) <= Len0(N)
      <4>1. Pos(N) >= 0
        BY <1>3, <2>2, <2>4
      <4> QED BY <2>4, <4>1 DEF Fine, CursorOk
    <3>2. M.prompt <= M.begin /\ M.begin <= M.cur
      BY <1>3, <2>8, <2>11
    <3> QED BY <2>9, <3>1, <3>2 DEF CursorOk
  <2>13. BeginOk(M)
    <3>1. M.text = Glue(d, r) /\ C.text = Glue(a, r) /\ d = Glue(a, str)
      BY <1>3, <2>1, <2>4, <2>8 DEF Glue
    <3>2. /\ Len0(C) \in Nat /\ Len0(M) \in Nat /\ Len(a) \in Nat /\ Len(a) <= Len0(C)
          /\ \A p \in 0 .. Len(a) - 1 : At(M, p) = At(C, p)
          /\ str # <<>> => Len(a) < Len0(M) /\ At(M, Len(a)) = str[1]
      <4>1. PICK m, b : m = M /\ b = Len(a)
        OBVIOUS
      <4>2. C.text = Glue(a, r) /\ m.text = Glue(d, r) /\ d = Glue(a, str)
        BY <3>1, <4>1
      <4>3. /\ Len0(C) \in Nat /\ Len0(m) \in Nat /\ b \in Nat /\ b <= Len0(C)
            /\ \A p \in 0 .. b - 1 : At(m, p) = At(C, p)
            /\ str # <<>> => b < Len0(m) /\ At(m, b) = str[1]
        BY <4>1, <4>2, ThreeParts
      <4> QED BY <4>1, <4>3
    <3>3. PICK b \in Nat : b = Len(a)
      BY <3>2
    <3>4. M.begin - M.prompt = b
      BY <1>3, <2>8, <2>11, <3>3
    <3>5. str = <<>> => ~(M.begin < M.cur)
      <4>1. str = <<>> => Len(str) = 0
        BY EmptySeq
      <4> QED BY <1>3, <2>8, <2>11, <4>1
    <3>6. /\ Pos(C) = b /\ 1 <= b /\ b <= Len0(C)
          /\ \A p \in 0 .. b - 1 : At(M, p) = At(C, p)
          /\ str # <<>> => b < Len0(M) /\ At(M, b) = str[1]
      BY <1>3, <3>2, <3>3
    <3> QED BY <3>2, <3>4, <3>5, <3>6, BeginKept
  <2>14. Fine(play.cap, M)
    <3>1. HistOk(M)
      BY <2>6, <2>8 DEF HistOk
    <3> QED BY <2>6, <2>8, <2>12, <2>13, <3>1 DEF Fine
  <2>15. /\ Fine(play.cap, M) /\ M.dirty /\ M.harm = "none" /\ M.hist = C.hist
         /\ LeftOf(M) = LeftOf(C) \o str /\ RightOf(M) = RightOf(C)
    BY <1>2, <2>1, <2>4, <2>8, <2>10, <2>14
  <2> QED BY <2>15 DEF M, N
<1>6. \/ N = C /\ Len0(C) + Len(str) > play.cap
      \/ /\ N = Put(C, (a \o str) \o r, Len(a \o str))
         /\ a \o str \in Seq(Char) /\ Len(a \o str) = Pos(C) + Len(str)
         /\ Len(a \o str) + Len(r) <= play.cap
  <2>1. Pos(C) >= 0
    BY <1>1
  <2> QED BY <1>2, <2>1, InsertIs
<1> QED BY <1>4, <1>5, <1>6

(* One of the names is chosen, or none.                                    *)
LEMMA ChosenIs ==
    ASSUME NEW L, NEW names \in Seq(Names), NEW w, NEW p, NEW b
    PROVE  Chosen(L, names, w, p, b) \in 0 .. Len(names)
<1> DEFINE fits == {i \in DOMAIN names : Same(L, names[i], w, p - w)}
           next == First(fits) + 1
<1>1. DOMAIN names = 1 .. Len(names) /\ Len(names) \in Nat
  BY LenProperties
<1>2. ASSUME NEW T \in SUBSET (1 .. Len(names))
      PROVE  /\ First(T) \in {0} \cup T
             /\ T # {} => First(T) \in T /\ \A y \in T : First(T) <= y
  <2>1. CASE T = {}
    BY <2>1 DEF First
  <2>2. CASE T # {}
    <3>1. T \subseteq Nat
      OBVIOUS
    <3>2. Min(T) \in T /\ \A y \in T : Min(T) <= y
      BY <2>2, <3>1, MinIs
    <3> QED BY <2>2, <3>2 DEF First
  <2> QED BY <2>1, <2>2
<1>3. fits \in SUBSET (1 .. Len(names))
  BY <1>1
<1>4. CASE L.cur = L.begin
  <2> DEFINE T == {i \in fits : Len(names[i]) # p - w}
  <2>1. Chosen(L, names, w, p, b) = First(T)
    BY <1>4 DEF Chosen
  <2>2. T \in SUBSET (1 .. Len(names))
    BY <1>3
  <2> HIDE DEF T
  <2>3. First(T) = 0 \/ First(T) \in 1 .. Len(names)
    BY <1>2, <2>2
  <2>4. First(T) \in 0 .. Len(names)
    BY <1>1, <2>3
  <2> QED BY <2>1, <2>4
<1>5. CASE L.cur # L.begin
  <2> DEFINE T == {i \in fits : i < Len(names)}
  <2>1. Chosen(L, names, w, p, b) =
          IF First(T) = 0 THEN 0 ELSE IF Same(L, names[next], w, b - w) THEN next ELSE 0
    BY <1>5 DEF Chosen
  <2>2. T \in SUBSET (1 .. Len(names)) /\ T \subseteq fits /\ \A i \in T : i < Len(names)
    BY <1>3
  <2> HIDE DEF T, fits
  <2>3. ASSUME First(T) # 0
        PROVE  next \in 1 .. Len(names)
    <3>1. First(T) \in T
      BY <1>2, <2>2, <2>3
    <3>2. First(fits) \in fits /\ First(fits) <= First(T)
      BY <1>2, <1>3, <2>2, <3>1
    <3>3. First(fits) \in 1 .. Len(names)
      BY <1>3, <3>2
    <3>4. First(T) \in 1 .. Len(names) /\ First(T) < Len(names)
      BY <2>2, <3>1
    <3> QED BY <1>1, <3>2, <3>3, <3>4
  <2>4. 0 \in 0 .. Len(names)
    BY <1>1
  <2> HIDE DEF next
  <2>5. CASE First(T) = 0
    BY <2>1, <2>4, <2>5
  <2>6. CASE First(T) # 0
    <3>1. next \in 0 .. Len(names)
      BY <1>1, <2>3, <2>6
    <3> QED BY <2>1, <2>4, <2>6, <3>1
  <2> QED BY <2>5, <2>6
<1> QED BY <1>4, <1>5

(* What is added of a name does not start with a blank if nothing of it is *)
(* there yet.                                                              *)
LEMMA AddedOfName ==
    ASSUME NEW name \in Names, NEW b \in Nat, NEW w \in Nat, w <= b
    PROVE  LET str == SubSeq(name, b - w + 1, Len(name))
           IN  str \in Seq(Char) /\ (b = w /\ str # <<>> => str[1] # Blank)
<1>1. name \in Seq(Char) /\ (name # <<>> => name[1] # Blank)
  BY DEF Names
<1>2. Len(name) \in Nat /\ \A i \in 1 .. Len(name) : name[i] \in Char
  BY <1>1, LenProperties, ElementOfSeq
<1>3. PICK m \in Int : m = b - w + 1 /\ m >= 1 /\ (b = w => m = 1)
  OBVIOUS
<1>4. SubSeq(name, m, Len(name)) \in Seq(Char)
  <2>1. \A i \in m .. Len(name) : name[i] \in Char
    BY <1>2, <1>3
  <2> QED BY <1>2, <2>1, SubSeqProperties
<1>5. SubSeq(name, 1, Len(name)) = name
  BY <1>1, SubSeqFull
<1> QED BY <1>1, <1>3, <1>4, <1>5

(* What is added of a name follows what was there.                         *)
LEMMA FollowsIs ==
    ASSUME NEW K, NEW C, NEW b \in Nat, 1 <= b, Len0(K) \in Nat, Len0(C) \in Nat,
           b <= Len0(K), b <= Len0(C), \A p \in 0 .. b - 1 : At(C, p) = At(K, p),
           Pos(C) = b, NEW w \in Nat, w <= b,
           Word(K) >= b \/ w = AfterBlanks(K, Word(K)),
           NEW name \in Names
    PROVE  Follows(C, SubSeq(name, b - w + 1, Len(name)))
<1> DEFINE str == SubSeq(name, b - w + 1, Len(name))
<1>1. b = w /\ str # <<>> => str[1] # Blank
  BY AddedOfName
<1> HIDE DEF str
<1> SUFFICES ASSUME Word(C) < b
             PROVE  \/ \E q \in Word(C) .. b - 1 : At(C, q) # Blank
                    \/ str # <<>> => str[1] # Blank
  BY DEF Follows, str
<1>2. Word(K) = Word(C)
  BY SameWord
<1>3. Word(C) \in 1 .. Len0(C)
  BY WordIs
<1>4. w = AfterBlanks(K, Word(K))
  BY <1>2, <1>3
<1>5. w \in Word(C) .. Len0(K) /\ At(K, w) # Blank
  <2>1. Word(K) \in 0 .. Len0(K)
    BY <1>2, <1>3
  <2> QED BY <1>2, <1>4, <2>1, AfterBlanksIs
<1>6. CASE w = b
  BY <1>1, <1>6
<1>7. CASE w # b
  <2>1. w \in 0 .. b - 1 /\ w \in Word(C) .. b - 1
    BY <1>3, <1>5, <1>7
  <2> QED BY <1>5, <2>1
<1> QED BY <1>6, <1>7

(* Something was added to C.                                               *)
Grown(C, M) ==
    /\ Fine(play.cap, M) /\ M.dirty /\ M.harm = "none" /\ M.hist = C.hist
    /\ RightOf(M) = RightOf(C) /\ \E str \in Seq(Char) : LeftOf(M) = Glue(LeftOf(C), str)

(* Completing among some names.                                            *)
Base(K, b) == IF K.begin = K.cur THEN K ELSE Put(K, Till(K, b) \o From(K, Pos(K)), b)

LEMMA CompletedIs ==
    ASSUME NEW K, NEW C, NEW b \in Nat, C = Base(K, b),
           Fine(play.cap, C), play.cap \in Nat, C.harm = "none", C.begin = C.cur,
           1 <= b, Len0(K) \in Nat, b <= Len0(K),
           \A p \in 0 .. b - 1 : At(C, p) = At(K, p), Pos(C) = b,
           NEW names \in Seq(Names), NEW w \in Nat, NEW p,
           Word(K) >= b \/ w = AfterBlanks(K, Word(K))
    PROVE  LET M == Completed(K, names, w, p, b)
           IN  M = C \/ (b < w /\ M = Harm(C, "behind")) \/ Grown(C, M)
<1> DEFINE M == Completed(K, names, w, p, b)
           i == Chosen(K, names, w, p, b)
           str == SubSeq(names[i], b - w + 1, Len(names[i]))
<1>1. M = IF i = 0 THEN C ELSE IF b < w THEN Harm(C, "behind")
          ELSE [input_insert(C, str) EXCEPT !.begin = C.begin]
  BY DEF Completed, Base
<1>2. i \in 0 .. Len(names)
  BY ChosenIs
<1> SUFFICES M = C \/ (b < w /\ M = Harm(C, "behind")) \/ Grown(C, M)
  OBVIOUS
<1> HIDE DEF M, i
<1>3. CASE i = 0 \/ b < w
  BY <1>1, <1>3
<1>4. CASE i # 0 /\ ~(b < w)
  <2>1. i \in 1 .. Len(names)
    BY <1>2, <1>4
  <2>2. PICK name \in Names : name = names[i]
    BY <2>1, ElementOfSeq
  <2>3. w <= b
    BY <1>4
  <2>4. Len0(C) \in Nat /\ b <= Len0(C)
    <3>1. PICK cap \in Nat : cap = play.cap
      OBVIOUS
    <3>2. Fine(cap, C)
      BY <3>1
    <3>3. Len0(C) \in Nat
      BY <3>2, Sides
    <3>4. b <= Len0(C)
      BY DEF Fine, CursorOk
    <3> QED BY <3>3, <3>4
  <2>5. Follows(C, SubSeq(name, b - w + 1, Len(name)))
    BY <2>3, <2>4, FollowsIs
  <2>6. SubSeq(name, b - w + 1, Len(name)) \in Seq(Char)
    BY <2>3, AddedOfName
  <2>7. PICK s \in Seq(Char) : s = str
    BY <2>2, <2>6
  <2>8. Follows(C, s)
    BY <2>2, <2>5, <2>7
  <2>9. M = [input_insert(C, s) EXCEPT !.begin = C.begin]
    BY <1>1, <1>4, <2>7
  <2>10. \/ M = C
         \/ /\ Fine(play.cap, M) /\ M.dirty /\ M.harm = "none" /\ M.hist = C.hist
            /\ LeftOf(M) = LeftOf(C) \o s /\ RightOf(M) = RightOf(C)
    BY <2>8, <2>9, InsertedIs
  <2>11. LeftOf(C) \o s = Glue(LeftOf(C), s)
    BY DEF Glue
  <2> QED BY <2>10, <2>11 DEF Grown
<1> QED BY <1>3, <1>4

LEMMA LookedIs ==
    ASSUME NEW K, NEW C, NEW b \in Nat, C = Base(K, b), play \in Plays,
           Fine(play.cap, C), C.harm = "none", C.begin = C.cur,
           1 <= b, Len0(K) \in Nat, b <= Len0(K),
           \A q \in 0 .. b - 1 : At(C, q) = At(K, q), Pos(C) = b, NEW p
    PROVE  LET M == Looked(K, p, b)
           IN  \/ M = K \/ M = C \/ Grown(C, M)
               \/ /\ M = Harm(C, "behind")
                  /\ At(K, 0) = Slash /\ Word(K) < b /\ b < AfterBlanks(K, Word(K))
<1> DEFINE M == Looked(K, p, b)
           e == Word(K)
           name == SubSeq(K.text, 2, e)
           w == AfterBlanks(K, e)
<1> SUFFICES \/ M = K \/ M = C \/ Grown(C, M)
             \/ M = Harm(C, "behind") /\ At(K, 0) = Slash /\ e < b /\ b < w
  OBVIOUS
<1>1. M = IF K.text = <<>> \/ At(K, 0) # Slash THEN K
          ELSE IF e >= b THEN Completed(K, play.mains, 1, p, b)
          ELSE IF name \in DOMAIN play.sets THEN Completed(K, play.sets[name], w, p, b)
          ELSE K
  BY DEF Looked
<1>2. play.cap \in Nat /\ play.mains \in Seq(Names)
      /\ \A s \in DOMAIN play.sets : play.sets[s] \in Seq(Names)
  BY PlaysAssumption
<1>3. e \in 1 .. Len0(K)
  BY WordIs
<1>4. w \in e .. Len0(K)
  <2>1. e \in 0 .. Len0(K)
    BY <1>3
  <2> QED BY <2>1, AfterBlanksIs
<1> HIDE DEF M, name
<1>5. CASE M = Completed(K, play.mains, 1, p, b) /\ e >= b
  <2>1. M = C \/ (b < 1 /\ M = Harm(C, "behind")) \/ Grown(C, M)
    BY <1>2, <1>5, CompletedIs
  <2> QED BY <2>1
<1>6. CASE /\ M = Completed(K, play.sets[name], w, p, b) /\ ~(e >= b)
           /\ name \in DOMAIN play.sets /\ At(K, 0) = Slash
  <2>1. PICK names \in Seq(Names) : names = play.sets[name]
    BY <1>2, <1>6
  <2>2. M = C \/ (b < w /\ M = Harm(C, "behind")) \/ Grown(C, M)
    <3>1. M = Completed(K, names, w, p, b) /\ w \in Nat
      BY <1>3, <1>4, <1>6, <2>1
    <3> HIDE DEF w
    <3>2. w = AfterBlanks(K, Word(K))
      BY DEF w
    <3> QED BY <1>2, <3>1, <3>2, CompletedIs
  <2>3. e < b
    BY <1>3, <1>6
  <2> QED BY <1>6, <2>2, <2>3
<1> QED BY <1>1, <1>5, <1>6

(* The cursor is between two blanks if a name would start behind it.       *)
LEMMA BetweenBlanks ==
    ASSUME NEW K, NEW b \in Nat, 1 <= b, Len0(K) \in Nat, b <= Len0(K),
           Word(K) < b, b < AfterBlanks(K, Word(K))
    PROVE  At(K, b - 1) = Blank /\ At(K, b) = Blank
<1>1. Word(K) \in 0 .. Len0(K)
  BY WordIs
<1>2. \A q \in Word(K) .. Len0(K) : At(K, q) # Blank => AfterBlanks(K, Word(K)) <= q
  BY <1>1, AfterBlanksIs
<1>3. AfterBlanks(K, Word(K)) \in Word(K) .. Len0(K)
  BY <1>1, AfterBlanksIs
<1>4. b \in Word(K) .. Len0(K) /\ b - 1 \in Word(K) .. Len0(K)
      /\ ~(AfterBlanks(K, Word(K)) <= b) /\ ~(AfterBlanks(K, Word(K)) <= b - 1)
  BY <1>1, <1>3
<1> QED BY <1>2, <1>4

(* A line on which something was completed where the cursor was.           *)
LEMMA GrownOk ==
    ASSUME NEW L, NEW C, play.cap \in Nat, Fine(play.cap, L), Fine(play.cap, C),
           NEW M, Grown(C, M), C.hist = L.hist, RightOf(C) = RightOf(L),
           NEW x \in Seq(Char), LeftOf(C) = Glue(LeftOf(L), x)
    PROVE  Ok(play.cap, L, M)
<1>1. PICK str \in Seq(Char) : LeftOf(M) = Glue(LeftOf(C), str)
  BY DEF Grown
<1>2. PICK a \in Seq(Char) : a = LeftOf(L)
  <2>1. PICK cap \in Nat : cap = play.cap
    OBVIOUS
  <2>2. Fine(cap, L)
    BY <2>1
  <2> QED BY <2>2, Sides
<1>3. LeftOf(M) = (a \o x) \o str
  BY <1>1, <1>2 DEF Glue
<1>4. (a \o x) \o str = a \o (x \o str)
  BY ConcatAssociative
<1>5. x \o str \in Seq(Char)
  BY ConcatProperties
<1>6. PICK y \in Seq(Char) : y = x \o str
  BY <1>5
<1>7. IsPrefix(a, a \o y)
  BY LongerPrefix
<1>8. IsPrefix(LeftOf(L), LeftOf(M))
  BY <1>2, <1>3, <1>4, <1>6, <1>7
<1>9. Edits(L, M)
  BY <1>8 DEF Edits, Inserts, SameHist, Grown
<1> QED BY <1>9, ChangedOk DEF Grown

(* Completing what is in front of the cursor for the first time.           *)
Extended(L, K) ==
    /\ K.hist = L.hist /\ RightOf(K) = RightOf(L)
    /\ \E x \in Seq(Char) : LeftOf(K) = Glue(LeftOf(L), x)

LEMMA FreshOk ==
    ASSUME NEW L, NEW K, play \in Plays, Fine(play.cap, L), Fine(play.cap, K),
           K.harm = "none", K.begin = K.cur, NEW b \in Nat, 1 <= b, Pos(K) = b,
           Ok(play.cap, L, K), Extended(L, K), NEW p
    PROVE  Ok(play.cap, L, Looked(K, p, b))
<1>0. K.hist = L.hist /\ RightOf(K) = RightOf(L)
  BY DEF Extended
<1> PICK x \in Seq(Char) : LeftOf(K) = Glue(LeftOf(L), x)
  BY DEF Extended
<1> DEFINE M == Looked(K, p, b)
<1> SUFFICES Ok(play.cap, L, M)
  OBVIOUS
<1>1. PICK cap \in Nat : cap = play.cap
  BY PlaysAssumption
<1>2. Fine(cap, L) /\ Fine(cap, K) /\ Ok(cap, L, K)
  BY <1>1
<1>3. Len0(K) \in Nat
  BY <1>2, Sides
<1>4. b <= Len0(K)
  BY DEF Fine, CursorOk
<1>5. K = Base(K, b)
  BY DEF Base
<1>6. \/ M = K \/ Grown(K, M)
      \/ /\ M = Harm(K, "behind")
         /\ At(K, 0) = Slash /\ Word(K) < b /\ b < AfterBlanks(K, Word(K))
  <2>1. \A q \in 0 .. b - 1 : At(K, q) = At(K, q)
    OBVIOUS
  <2> QED BY <1>3, <1>4, <1>5, <2>1, LookedIs
<1> HIDE DEF M
<1>7. CASE Grown(K, M)
  BY <1>0, <1>1, <1>7, GrownOk
<1>8. CASE M = Harm(K, "behind") /\ Word(K) < b /\ b < AfterBlanks(K, Word(K))
  <2>1. At(K, b - 1) = Blank /\ At(K, b) = Blank
    BY <1>3, <1>4, <1>8, BetweenBlanks
  <2>2. "behind" \in Harms
    BY DEF Harms
  <2>3. /\ Fine(cap, M) /\ M.harm = "behind" /\ M.text = K.text /\ M.cur = K.cur
        /\ M.prompt = K.prompt /\ M.width = K.width
        /\ M.hist = K.hist /\ M.dirty = K.dirty /\ M.blank = K.blank
        /\ Pos(M) = Pos(K) /\ \A q : At(M, q) = At(K, q)
        /\ LeftOf(M) = LeftOf(K) /\ RightOf(M) = RightOf(K)
    BY <1>2, <1>8, <2>2, HarmIs
  <2>4. HarmOk(cap, M)
    BY <2>1, <2>3 DEF HarmOk
  <2>5. Edits(L, M)
    <3>1. PICK a \in Seq(Char) : a = LeftOf(L)
      BY <1>2, Sides
    <3>2. IsPrefix(a, a \o x)
      BY LongerPrefix
    <3>3. IsPrefix(LeftOf(L), LeftOf(M))
      BY <2>3, <3>1, <3>2 DEF Glue
    <3> QED BY <1>0, <2>3, <3>3 DEF Edits, Inserts, SameHist
  <2>6. /\ ~K.dirty => ~L.dirty /\ K.prompt = L.prompt /\ K.width = L.width
        /\ ~K.dirty /\ ~K.blank => ~L.blank /\ K.text = L.text /\ K.cur = L.cur
    BY <1>2 DEF Ok
  <2>7. Ok(cap, L, M)
    BY <2>3, <2>4, <2>5, <2>6 DEF Ok
  <2> QED BY <1>1, <2>7
<1> QED BY <1>6, <1>7, <1>8

(* A line without what is from b to the cursor.                            *)
LEMMA CutBackIs ==
    ASSUME NEW cap \in Nat, NEW L, Fine(cap, L), L.harm = "none",
           NEW b \in Nat, b <= Pos(L), NEW C, C = Put(L, Till(L, b) \o From(L, Pos(L)), b)
    PROVE  /\ Ok(cap, L, C) /\ C.harm = "none" /\ C.hist = L.hist /\ C.begin = C.cur
           /\ Pos(C) = b /\ LeftOf(C) = Till(L, b) /\ RightOf(C) = RightOf(L)
           /\ LeftOf(C) \in Seq(Char) /\ SubSeq(LeftOf(L), 1, b) = LeftOf(C)
           /\ \A q \in 0 .. b - 1 : At(C, q) = At(L, q)
<1>1. L.text \in Seq(Char) /\ Len0(L) \in Nat /\ Len0(L) <= cap /\ Pos(L) \in Int
  BY Sides
<1>2. Pos(L) <= Len0(L)
  BY <1>1 DEF Fine, CursorOk
<1>3. PICK s \in Seq(Char), n \in Int : s = L.text /\ n = Pos(L)
  BY <1>1
<1>4. Len(s) = Len0(L) /\ n \in 0 .. Len(s) /\ b \in 0 .. n /\ b \in 0 .. Len(s)
  BY <1>1, <1>2, <1>3 DEF Len0
<1>5. C = Put(L, Till(L, b) \o From(L, n), b)
  BY <1>3
<1>6. Ok(cap, L, C)
  <2>1. b \in 0 .. Len0(L) /\ n \in b .. Len0(L) /\ Pos(L) = n
    BY <1>1, <1>3, <1>4
  <2>2. Ok(cap, L, Put(L, Till(L, b) \o From(L, n), b))
    BY <2>1, CutOutOk
  <2> QED BY <1>5, <2>2
<1> DEFINE u == SubSeq(s, 1, b)
           v == SubSeq(s, n + 1, Len(s))
           t == SubSeq(s, 1, n)
<1>7. u \in Seq(Char) /\ Len(u) = b /\ \A i \in 1 .. b : u[i] = s[i]
  BY <1>4, Cut
<1>8. v \in Seq(Char) /\ Len(v) = Len(s) - n
  BY <1>4, Cut
<1>9. t \in Seq(Char) /\ Len(t) = n /\ \A i \in 1 .. n : t[i] = s[i]
  BY <1>4, Cut
<1>10. SplitOf(L) = n
  BY <1>3, <1>4 DEF SplitOf
<1>11. Till(L, b) = u /\ From(L, n) = v /\ LeftOf(L) = t /\ RightOf(L) = v
  BY <1>3, <1>10 DEF Till, From, LeftOf, RightOf, Len0
<1> HIDE DEF u, v, t
<1>12. C = Put(L, Glue(u, v), b) /\ Len(u) + Len(v) <= cap /\ b = Len(u)
  BY <1>1, <1>4, <1>5, <1>7, <1>8, <1>11 DEF Glue
<1>13. /\ C.harm = L.harm /\ C.text = Glue(u, v) /\ C.hist = L.hist /\ Pos(C) = b
       /\ LeftOf(C) = u /\ RightOf(C) = v
  <2>1. PICK x \in Seq(Char), y \in Seq(Char) : x = u /\ y = v
    BY <1>7, <1>8
  <2>2. PICK m : m = Put(L, Glue(x, y), b)
    OBVIOUS
  <2>3. Len(x) + Len(y) <= cap /\ b = Len(x)
    BY <1>12, <2>1
  <2>4. /\ m.harm = L.harm /\ m.text = Glue(x, y) /\ m.hist = L.hist /\ Pos(m) = b
        /\ LeftOf(m) = x /\ RightOf(m) = y
    BY <2>2, <2>3, PutGlued
  <2>5. C = m
    BY <1>12, <2>1, <2>2
  <2> QED BY <2>1, <2>4, <2>5
<1>14. C.begin = C.cur
  <2>1. PICK x \in Seq(Char) : x = Glue(u, v)
    BY <1>7, <1>8, ConcatProperties DEF Glue
  <2>2. L \in LineRec /\ b \in Int /\ b + L.prompt >= 0
    BY DEF Fine, LineRec, PromptLen
  <2>3. Put(L, x, b).cur = b + L.prompt /\ Put(L, x, b).begin = b + L.prompt
    BY <2>2, PutIs
  <2> QED BY <1>12, <2>1, <2>3
<1>15. \A q \in 0 .. b - 1 : At(C, q) = At(L, q)
  <2>1. Begins(C, u, v, b)
    BY <1>7, <1>8, <1>12, <1>13 DEF Begins
  <2>2. \A q \in 0 .. b - 1 : At(C, q) = u[q + 1]
    BY <2>1, TwoParts
  <2>3. ASSUME NEW q \in 0 .. b - 1 PROVE At(L, q) = u[q + 1]
    <3>1. q + 1 \in 1 .. b /\ q < Len0(L)
      BY <1>1, <1>4
    <3> QED BY <1>3, <1>7, <3>1 DEF At
  <2> QED BY <2>2, <2>3
<1>16. SubSeq(t, 1, b) = u
  <2>1. b \in 0 .. Len(t)
    BY <1>4, <1>9
  <2> DEFINE w == SubSeq(t, 1, b)
  <2>2. w \in Seq(Char) /\ Len(w) = b /\ \A i \in 1 .. b : w[i] = t[i]
    BY <1>9, <2>1, Cut
  <2> HIDE DEF w
  <2>3. \A i \in 1 .. b : i \in 1 .. n
    BY <1>4
  <2>4. \A i \in 1 .. Len(w) : w[i] = u[i]
    BY <1>7, <1>9, <2>2, <2>3
  <2>5. w = u
    BY <1>7, <2>2, <2>4, SeqEqual
  <2> QED BY <2>5 DEF w
<1> QED BY <1>6, <1>7, <1>11, <1>13, <1>14, <1>15, <1>16

(* Completing once more: what was completed before goes.                   *)
LEMMA AgainOk ==
    ASSUME NEW L, play \in Plays, Fine(play.cap, L), L.harm = "none",
           L.begin > L.prompt, L.begin < L.cur, NEW p
    PROVE  Ok(play.cap, L, Looked(L, p, L.begin - L.prompt))
<1>1. PICK cap \in Nat : cap = play.cap
  BY PlaysAssumption
<1>2. Fine(cap, L)
  BY <1>1
<1>3. L \in LineRec /\ Len0(L) \in Nat /\ L.text \in Seq(Char) /\ Pos(L) \in Int
  BY <1>2, Sides DEF Fine
<1>4. PICK b \in Nat : b = L.begin - L.prompt /\ 1 <= b /\ b < Pos(L)
  BY <1>3 DEF LineRec, Pos, PromptLen
<1>5. Pos(L) <= Len0(L) /\ b <= Len0(L)
  BY <1>3, <1>4 DEF Fine, CursorOk
<1> DEFINE M == Looked(L, p, b)
<1>6. PICK C : C = Put(L, Till(L, b) \o From(L, Pos(L)), b)
  OBVIOUS
<1>7. C = Base(L, b)
  BY <1>3, <1>6 DEF Base, LineRec
<1>8. /\ Ok(cap, L, C) /\ C.harm = "none" /\ C.hist = L.hist /\ C.begin = C.cur
      /\ Pos(C) = b /\ RightOf(C) = RightOf(L)
      /\ LeftOf(C) \in Seq(Char) /\ SubSeq(LeftOf(L), 1, b) = LeftOf(C)
      /\ \A q \in 0 .. b - 1 : At(C, q) = At(L, q)
  <2>1. b <= Pos(L)
    BY <1>3, <1>4
  <2> QED BY <1>2, <1>6, <2>1, CutBackIs
<1>14. Fine(play.cap, C)
  BY <1>1, <1>8 DEF Ok
<1>15. \/ M = L \/ M = C \/ Grown(C, M)
       \/ /\ M = Harm(C, "behind")
          /\ At(L, 0) = Slash /\ Word(L) < b /\ b < AfterBlanks(L, Word(L))
  BY <1>3, <1>4, <1>5, <1>7, <1>8, <1>14, LookedIs
<1>16. ~(At(L, 0) = Slash /\ Word(L) < b /\ b < AfterBlanks(L, Word(L)))
  <2>1. SUFFICES ASSUME At(L, 0) = Slash, Word(L) < b PROVE ~(b < AfterBlanks(L, Word(L)))
    OBVIOUS
  <2>2. AfterBlanks(L, Word(L)) <= b
    BY <1>2, <1>3, <1>4, <2>1 DEF Fine, BeginOk, LineRec, PromptLen
  <2>3. Word(L) \in 0 .. Len0(L)
    BY <1>3, <1>4, <1>5, WordIs
  <2>4. AfterBlanks(L, Word(L)) \in Word(L) .. Len0(L)
    BY <1>3, <2>3, AfterBlanksIs
  <2> QED BY <2>2, <2>3, <2>4
<1> HIDE DEF M
<1>17. CASE Grown(C, M)
  <2>1. PICK a \in Seq(Char) : a = LeftOf(C)
    BY <1>8
  <2>2. PICK str \in Seq(Char) : LeftOf(M) = Glue(a, str)
    BY <1>17, <2>1 DEF Grown
  <2>3. IsPrefix(a, a \o str)
    BY LongerPrefix
  <2>4. IsPrefix(a, LeftOf(M))
    BY <2>2, <2>3 DEF Glue
  <2>5. MarkOf(L) = b
    BY <1>3, <1>4 DEF MarkOf, LineRec, PromptLen
  <2>9. Completes(L, M)
    BY <1>8, <1>17, <2>1, <2>4, <2>5 DEF Completes, Grown, SameHist
  <2>10. Ok(cap, L, M)
    BY <1>1, <1>17, <2>9, ChangedOk DEF Grown, Edits
  <2> QED BY <1>1, <1>4, <2>10 DEF M
<1>18. CASE M = L
  <2>1. Ok(cap, L, L)
    BY <1>2, SameOk
  <2> QED BY <1>1, <1>4, <1>18, <2>1 DEF M
<1>19. CASE M = C
  BY <1>1, <1>4, <1>8, <1>19 DEF M
<1> QED BY <1>15, <1>16, <1>17, <1>18, <1>19

LEMMA CompleteOk ==
    ASSUME NEW L, play \in Plays, Fine(play.cap, L), L.harm = "none"
    PROVE  Ok(play.cap, L, cmd_complete(L))
<1> DEFINE M == cmd_complete(L)
<1>1. PICK cap \in Nat : cap = play.cap
  BY PlaysAssumption
<1>2. Fine(cap, L)
  BY <1>1
<1>3. /\ L \in LineRec /\ Len0(L) \in Nat /\ Len0(L) <= cap /\ L.text \in Seq(Char)
      /\ Pos(L) \in Int /\ LeftOf(L) \in Seq(Char) /\ Len(L.text) = Len0(L)
  BY <1>2, Sides DEF Fine, Len0
<1>4. CASE L.begin > L.prompt /\ L.begin < L.cur
  <2>1. M = Looked(L, Pos(L), L.begin - L.prompt)
    BY <1>4 DEF cmd_complete
  <2>2. PICK p : p = Pos(L)
    OBVIOUS
  <2>3. Ok(play.cap, L, Looked(L, p, L.begin - L.prompt))
    BY <1>4, AgainOk
  <2> QED BY <2>1, <2>2, <2>3
<1>5. CASE ~(L.begin > L.prompt /\ L.begin < L.cur) /\ Pos(L) # 0
  <2> DEFINE K == [L EXCEPT !.begin = L.cur]
  <2>1. M = Looked(K, Pos(L), Pos(L))
    BY <1>5 DEF cmd_complete
  <2>2. /\ Fine(cap, K) /\ K.text = L.text /\ K.cur = L.cur /\ K.begin = K.cur
        /\ K.hist = L.hist /\ K.harm = L.harm /\ Pos(K) = Pos(L)
        /\ LeftOf(K) = LeftOf(L) /\ RightOf(K) = RightOf(L)
    BY <1>2, StayIs
  <2>3. Ok(cap, L, K)
    BY <1>2, StayOk
  <2> HIDE DEF K, M
  <2>4. CASE Pos(L) < 0
    <3>1. K.text = <<>>
      <4>1. CursorOk(L) /\ ~(Pos(L) >= 0)
        BY <1>2, <1>3, <2>4 DEF Fine
      <4> QED BY <2>2, <4>1 DEF CursorOk
    <3>2. M = K
      BY <2>1, <3>1 DEF Looked
    <3> QED BY <1>1, <2>3, <3>2 DEF M
  <2>5. CASE Pos(L) > 0
    <3>1. PICK b \in Nat : b = Pos(L) /\ 1 <= b
      BY <1>3, <2>5
    <3>2. LeftOf(K) = Glue(LeftOf(L), <<>>)
      BY <1>3, <2>2, ConcatEmptySeq DEF Glue
    <3>3. <<>> \in Seq(Char)
      OBVIOUS
    <3>4. PICK x \in Seq(Char) : x = <<>>
      BY <3>3
    <3>5. Ok(play.cap, L, Looked(K, b, b))
      <4>1. Fine(play.cap, K) /\ Ok(play.cap, L, K) /\ K.harm = "none" /\ Pos(K) = b
        BY <1>1, <1>4, <1>5, <2>2, <2>3, <3>1
      <4>2. Extended(L, K)
        BY <2>2, <3>2, <3>4 DEF Extended
      <4> QED BY <2>2, <3>1, <4>1, <4>2, FreshOk
    <3> QED BY <2>1, <3>1, <3>5 DEF M
  <2> QED BY <1>3, <1>5, <2>4, <2>5
<1>6. CASE ~(L.begin > L.prompt /\ L.begin < L.cur) /\ Pos(L) = 0
  <2> DEFINE S == input_insert(L, <<Slash>>)
  <2>1. M = Looked(S, 1, S.begin - S.prompt)
    BY <1>6 DEF cmd_complete
  <2>2. PICK x \in Seq(Char) : x = <<Slash>> /\ Len(x) = 1
    <3>1. Slash \in Char
      BY PlaysAssumption
    <3>2. <<Slash>> \in Seq(Char) /\ Len(<<Slash>>) = 1
      BY <3>1
    <3> QED BY <3>2
  <2>3. S = input_insert(L, x)
    BY <2>2
  <2>4. Ok(play.cap, L, S)
    <3>1. Pos(L) >= 0 /\ play.cap \in Nat
      BY <1>1, <1>6
    <3> QED BY <2>3, <3>1, InsertOk
  <2>5. \/ S = L /\ Len0(L) + Len(x) > play.cap
        \/ /\ S = Put(L, (LeftOf(L) \o x) \o RightOf(L), Len(LeftOf(L) \o x))
           /\ LeftOf(L) \o x \in Seq(Char)
           /\ Len(LeftOf(L) \o x) = Pos(L) + Len(x)
           /\ Len(LeftOf(L) \o x) + Len(RightOf(L)) <= play.cap
    <3> HIDE DEF S
    <3>1. Pos(L) >= 0 /\ play.cap \in Nat
      BY <1>1, <1>6
    <3>2. \/ input_insert(L, x) = L /\ Len0(L) + Len(x) > play.cap
          \/ /\ input_insert(L, x) = Put(L, (LeftOf(L) \o x) \o RightOf(L), Len(LeftOf(L) \o x))
             /\ LeftOf(L) \o x \in Seq(Char)
             /\ Len(LeftOf(L) \o x) = Pos(L) + Len(x)
             /\ Len(LeftOf(L) \o x) + Len(RightOf(L)) <= play.cap
      BY <3>1, InsertIs
    <3> QED BY <2>3, <3>2
  <2> HIDE DEF S, M
  <2>6. CASE S = L /\ Len0(L) + Len(x) > play.cap
    <3>1. Len0(L) = cap
      BY <1>1, <1>3, <2>2, <2>6
    <3>2. L.begin = L.cur /\ L.begin - L.prompt = 0
      BY <1>2, <1>3, <1>6 DEF Fine, CursorOk, Pos, LineRec, PromptLen
    <3>3. M = Looked(L, 1, 0)
      BY <2>1, <2>6, <3>2
    <3>4. M = L \/ M = Completed(L, play.mains, 1, 1, 0)
      <4>1. CASE L.text = <<>> \/ At(L, 0) # Slash
        BY <3>3, <4>1 DEF Looked
      <4>2. CASE ~(L.text = <<>> \/ At(L, 0) # Slash)
        <5>1. Len0(L) >= 1
          <6>1. Len(L.text) # 0
            BY <1>3, <4>2, EmptySeq
          <6> QED BY <1>3, <6>1
        <5>2. Word(L) \in 1 .. Len0(L)
          BY <1>3, <5>1, WordIs
        <5>3. Word(L) >= 0
          BY <5>2
        <5> QED BY <3>3, <4>2, <5>3 DEF Looked
      <4> QED BY <4>1, <4>2
    <3>5. M = L \/ M = Harm(L, "behind")
      BY <3>2, <3>4 DEF Completed
    <3>6. CASE M = L
      <4>1. Ok(cap, L, L)
        BY <1>2, SameOk
      <4> QED BY <1>1, <3>6, <4>1 DEF M
    <3>7. CASE M = Harm(L, "behind")
      <4>1. "behind" \in Harms
        BY DEF Harms
      <4>2. /\ Harm(L, "behind").harm = "behind" /\ Pos(Harm(L, "behind")) = Pos(L)
            /\ Len0(Harm(L, "behind")) = Len0(L)
        BY <1>2, <4>1, HarmIs
      <4>3. HarmOk(cap, Harm(L, "behind"))
        BY <1>6, <3>1, <4>2 DEF HarmOk
      <4>4. Ok(cap, L, Harm(L, "behind"))
        BY <1>2, <4>1, <4>3, HarmIsOk
      <4> QED BY <1>1, <3>7, <4>4 DEF M
    <3> QED BY <3>5, <3>6, <3>7
  <2>7. CASE /\ S = Put(L, (LeftOf(L) \o x) \o RightOf(L), Len(LeftOf(L) \o x))
             /\ LeftOf(L) \o x \in Seq(Char)
             /\ Len(LeftOf(L) \o x) = Pos(L) + Len(x)
             /\ Len(LeftOf(L) \o x) + Len(RightOf(L)) <= play.cap
    <3>1. PICK a \in Seq(Char), r \in Seq(Char) : a = Glue(LeftOf(L), x) /\ r = RightOf(L)
      BY <1>2, <2>7, Sides DEF Glue
    <3>2. PICK t \in Seq(Char) : t = Glue(a, r)
      BY <3>1, ConcatProperties DEF Glue
    <3>3. S = Put(L, Glue(a, r), 1) /\ Len(a) = 1 /\ Len(a) + Len(r) <= cap
      BY <1>1, <1>6, <2>2, <2>7, <3>1 DEF Glue
    <3>4. /\ Fine(cap, S) /\ S.harm = L.harm /\ S.hist = L.hist /\ Pos(S) = 1
          /\ LeftOf(S) = a /\ RightOf(S) = r
      <4>1. PICK n, m : n = 1 /\ m = S
        OBVIOUS
      <4>2. n = Len(a) /\ m = Put(L, Glue(a, r), n) /\ Len(a) + Len(r) <= cap
        BY <3>3, <4>1
      <4>3. /\ Fine(cap, m) /\ m.harm = L.harm /\ m.hist = L.hist /\ Pos(m) = n
            /\ LeftOf(m) = a /\ RightOf(m) = r
        BY <1>2, <4>2, PutGlued
      <4> QED BY <4>1, <4>3
    <3>5. S.begin = S.cur /\ S.begin - S.prompt = 1
      <4>1. 1 + L.prompt >= 0
        BY <1>3 DEF LineRec, PromptLen
      <4>2. Put(L, t, 1).cur = 1 + L.prompt /\ Put(L, t, 1).begin = 1 + L.prompt
            /\ Put(L, t, 1).prompt = L.prompt
        BY <1>3, <4>1, PutIs
      <4>3. L.prompt \in Int
        BY <1>3 DEF LineRec, PromptLen
      <4> QED BY <3>2, <3>3, <4>2, <4>3
    <3>6. PICK p : p = 1
      OBVIOUS
    <3>7. Ok(play.cap, L, Looked(S, p, 1))
      <4>1. Fine(play.cap, S) /\ S.harm = "none"
        BY <1>1, <3>4
      <4>2. RightOf(S) = RightOf(L) /\ LeftOf(S) = Glue(LeftOf(L), x)
        BY <3>1, <3>4
      <4>6. Extended(L, S)
        BY <3>4, <4>2 DEF Extended
      <4>3. PICK b \in Nat : b = 1
        OBVIOUS
      <4>4. 1 <= b /\ Pos(S) = b
        BY <3>4, <4>3
      <4>5. Ok(play.cap, L, Looked(S, p, b))
        BY <2>4, <3>5, <4>1, <4>4, <4>6, FreshOk
      <4> QED BY <4>3, <4>5
    <3> QED BY <2>1, <3>5, <3>6, <3>7 DEF M
  <2> QED BY <2>5, <2>6, <2>7
<1> QED BY <1>4, <1>5, <1>6

-----------------------------------------------------------------------------
(* The invariant.                                                          *)
Seen == line.harm = "none" /\ ~line.dirty /\ ~line.blank => shown = View(line)

InputInv ==
    /\ play \in Plays /\ Fine(play.cap, line) /\ HarmOk(play.cap, line)
    /\ Seen /\ (~line.dirty => line.prompt < line.width)

(* A line on the screen is the line that was drawn there.                  *)
LEMMA DrawnIs ==
    ASSUME NEW cap \in Nat, NEW L, NEW M, Fine(cap, M), HarmOk(cap, M), Edits(L, M)
    PROVE  LET N == [M EXCEPT !.dirty = FALSE, !.blank = FALSE]
           IN  /\ Fine(cap, N) /\ HarmOk(cap, N) /\ Edits(L, N) /\ View(N) = View(M)
               /\ N.prompt = M.prompt /\ N.width = M.width
<1> DEFINE N == [M EXCEPT !.dirty = FALSE, !.blank = FALSE]
<1> SUFFICES /\ Fine(cap, N) /\ HarmOk(cap, N) /\ Edits(L, N) /\ View(N) = View(M)
             /\ N.prompt = M.prompt /\ N.width = M.width
  OBVIOUS
<1>1. M \in LineRec /\ M.hist \in Seq(Short(cap)) /\ HistOk(M)
  BY DEF Fine
<1>2. /\ N \in LineRec /\ N.text = M.text /\ N.cur = M.cur /\ N.begin = M.begin
      /\ N.prompt = M.prompt /\ N.width = M.width /\ N.hist = M.hist /\ N.cut = M.cut
      /\ N.hcur = M.hcur /\ N.gone = M.gone /\ N.max = M.max /\ N.harm = M.harm
  BY <1>1 DEF LineRec
<1> HIDE DEF N
<1>3. HistOk(N)
  BY <1>1, <1>2 DEF HistOk
<1>4. /\ Fine(cap, N) /\ Pos(N) = Pos(M) /\ Len0(N) = Len0(M)
      /\ \A p : At(N, p) = At(M, p)
      /\ LeftOf(N) = LeftOf(M) /\ RightOf(N) = RightOf(M)
  BY <1>1, <1>2, <1>3, AlikeIs
<1>5. HarmOk(cap, N)
  BY <1>2, <1>4 DEF HarmOk
<1>6. View(N) = View(M)
  BY <1>2 DEF View, Len0
<1>7. Edits(L, N)
  <2>1. TextOf(N) = TextOf(M)
    BY <1>4 DEF TextOf
  <2> QED BY <1>2, <1>4, <2>1
     DEF Edits, Inserts, Rubs, Kills, Moves, Empties, Forgets, Enters, Recalls,
         Completes, SameHist
<1> QED BY <1>2, <1>4, <1>5, <1>6, <1>7

(* A handler keeps the invariant and does what a line editor does.         *)
LEMMA StepIs ==
    ASSUME InputInv, Typing, NEW M, Ok(play.cap, line, M), Becomes(M)
    PROVE  InputInv' /\ Edits(line, line')
<1>1. PICK cap \in Nat : cap = play.cap /\ play' = play /\ play \in Plays
  BY PlaysAssumption DEF InputInv, Becomes
<1>2. /\ Fine(cap, M) /\ HarmOk(cap, M) /\ Edits(line, M)
      /\ ~M.dirty => ~line.dirty /\ M.prompt = line.prompt /\ M.width = line.width
      /\ ~M.dirty /\ ~M.blank => ~line.blank /\ M.text = line.text /\ M.cur = line.cur
  BY <1>1 DEF Ok
<1>3. PICK L, N, v, s : L = line /\ N = line' /\ v = shown' /\ s = shown
  OBVIOUS
<1>4. CASE Draws(M)
  <2>1. N = [M EXCEPT !.dirty = FALSE, !.blank = FALSE] /\ v = View(M)
    BY <1>3, <1>4 DEF Becomes
  <2>2. /\ Fine(cap, N) /\ HarmOk(cap, N) /\ Edits(L, N) /\ View(N) = View(M)
        /\ N.prompt = M.prompt /\ N.width = M.width
    <3>1. Edits(L, M)
      BY <1>2, <1>3
    <3>2. LET Z == [M EXCEPT !.dirty = FALSE, !.blank = FALSE]
          IN  /\ Fine(cap, Z) /\ HarmOk(cap, Z) /\ Edits(L, Z) /\ View(Z) = View(M)
              /\ Z.prompt = M.prompt /\ Z.width = M.width
      BY <1>2, <3>1, DrawnIs
    <3> QED BY <2>1, <3>2
  <2>3. N.prompt < N.width
    BY <1>4, <2>2 DEF Draws
  <2> QED BY <1>1, <1>3, <2>1, <2>2, <2>3 DEF InputInv, Seen
<1>5. CASE ~Draws(M)
  <2>1. N = M /\ v = s
    BY <1>3, <1>5 DEF Becomes
  <2>2. /\ L.harm = "none"
        /\ L.harm = "none" /\ ~L.dirty /\ ~L.blank => s = View(L)
        /\ ~L.dirty => L.prompt < L.width
    BY <1>3 DEF InputInv, Seen, Typing
  <2>5. ~N.dirty /\ ~N.blank => ~L.blank /\ ~L.dirty /\ N.text = L.text /\ N.cur = L.cur
                               /\ N.prompt = L.prompt /\ N.width = L.width
    BY <1>2, <1>3, <2>1
  <2>3. ~N.dirty => N.prompt < N.width
    BY <1>2, <1>3, <2>1, <2>2
  <2>4. ~N.dirty /\ ~N.blank => v = View(N)
    <3>1. SUFFICES ASSUME ~N.dirty, ~N.blank PROVE View(N) = View(L)
      BY <2>1, <2>2, <2>5
    <3> QED BY <2>5, <3>1 DEF View, Len0
  <2> QED BY <1>1, <1>2, <1>3, <2>1, <2>3, <2>4 DEF InputInv, Seen
<1> QED BY <1>4, <1>5

LEMMA SafeOk ==
    ASSUME NEW cap \in Nat, NEW L, Fine(cap, L), NEW M, Pos(L) >= 0 => Ok(cap, L, M)
    PROVE  Ok(cap, L, Safe(L, M))
<1>1. Pos(L) \in Int
  BY Sides
<1>2. CASE Pos(L) < 0
  BY <1>2, BelowOk DEF Safe
<1>3. CASE Pos(L) >= 0
  BY <1>1, <1>3 DEF Safe
<1> QED BY <1>1, <1>2, <1>3

(* Every handler of the editing commands, where the cursor is on the line. *)
LEMMA EditingOk ==
    ASSUME InputInv, Typing, NEW M,
           \/ \E str \in play.strs \cup {<<c>> : c \in play.chars} :
                 M = Safe(line, input_insert(line, str))
           \/ M = Safe(line, input_delete(line))
           \/ M = Safe(line, input_bkspace(line))
           \/ M = Safe(line, input_clear_to_start(line))
           \/ M = Safe(line, input_clear_to_end(line))
           \/ \E n \in {-2, 2} : M = Safe(line, input_remove(line, n))
           \/ M = Safe(line, input_prev_word(line))
           \/ M = Safe(line, input_next_word(line))
           \/ M = Safe(line, input_clear_prev_word(line))
           \/ M = Safe(line, input_clear_next_word(line))
    PROVE  Ok(play.cap, line, M)
<1>0. PICK L : L = line
  OBVIOUS
<1>1. PICK cap \in Nat : cap = play.cap /\ play \in Plays
  BY PlaysAssumption DEF InputInv
<1>2. Fine(cap, L) /\ L.harm = "none" /\ Fine(play.cap, L) /\ play.cap \in Nat
  BY <1>0, <1>1 DEF InputInv, Typing
<1>3. SUFFICES ASSUME NEW Z, M = Safe(L, Z), Pos(L) >= 0 => Ok(cap, L, Z)
               PROVE  Ok(cap, L, M)
  <2>1. ASSUME NEW str \in play.strs \cup {<<c>> : c \in play.chars},
               M = Safe(L, input_insert(L, str))
        PROVE  \E Z : M = Safe(L, Z) /\ (Pos(L) >= 0 => Ok(cap, L, Z))
    <3>1. str \in Seq(Char)
      <4>1. play.strs \subseteq Seq(Char) /\ play.chars \subseteq Char
        BY <1>0, <1>1, PlaysAssumption
      <4>2. CASE str \in play.strs
        BY <4>1, <4>2
      <4>3. CASE \E c \in play.chars : str = <<c>>
        <5>1. PICK c \in play.chars : str = <<c>>
          BY <4>3
        <5>2. c \in Char
          BY <4>1
        <5>3. <<c>> \in Seq(Char)
          BY <5>2
        <5> QED BY <5>1, <5>3
      <4>4. str \in play.strs \/ \E c \in play.chars : str = <<c>>
        OBVIOUS
      <4> QED BY <4>2, <4>3, <4>4
    <3>2. Pos(L) >= 0 => Ok(cap, L, input_insert(L, str))
      BY <1>0, <1>1, <1>2, <3>1, InsertOk
    <3> QED BY <2>1, <3>2
  <2>2. ASSUME NEW n \in {-2, 2}, M = Safe(L, input_remove(L, n))
        PROVE  \E Z : M = Safe(L, Z) /\ (Pos(L) >= 0 => Ok(cap, L, Z))
    <3>1. n \in Int
      OBVIOUS
    <3>2. Pos(L) >= 0 => Ok(cap, L, input_remove(L, n))
      BY <1>2, <3>1, RemoveOk
    <3> QED BY <2>2, <3>2
  <2>3. /\ Pos(L) >= 0 => Ok(cap, L, input_delete(L))
        /\ Pos(L) >= 0 => Ok(cap, L, input_bkspace(L))
        /\ Pos(L) >= 0 => Ok(cap, L, input_clear_to_start(L))
        /\ Pos(L) >= 0 => Ok(cap, L, input_clear_to_end(L))
    BY <1>2, DeleteOk, BkspaceOk, ClearToStartOk, ClearToEndOk
  <2>4. Pos(L) >= 0 =>
           /\ Ok(cap, L, input_prev_word(L)) /\ Ok(cap, L, input_next_word(L))
           /\ Ok(cap, L, input_clear_prev_word(L)) /\ Ok(cap, L, input_clear_next_word(L))
    BY <1>2, WordsOk
  <2>5. \E Z : M = Safe(L, Z) /\ (Pos(L) >= 0 => Ok(cap, L, Z))
    BY <1>0, <1>1, <2>1, <2>2, <2>3, <2>4, Zenon
  <2> QED BY <1>0, <1>1, <1>3, <2>5
<1> QED BY <1>2, <1>3, SafeOk

(* The other handlers.                                                     *)
LEMMA OthersOk ==
    ASSUME InputInv, Typing, NEW M,
           \/ M = input_clear_line(line)
           \/ M = input_home(line)
           \/ M = input_end(line)
           \/ M = input_move_left(line)
           \/ M = input_move_right(line)
           \/ \E n \in {0, PromptLen} : M = input_set_prompt(line, n)
           \/ M = cmd_complete(line)
           \/ M = input_history_prev(line)
           \/ M = input_history_next(line)
           \/ M = input_history_clear(line)
           \/ \E n \in play.lens : M = SetLen(line, n)
           \/ \E w \in play.widths \ {line.width} : M = input_resize(line, w)
           \/ line.text # <<>> /\ M = input_clear_line(input_history_add(line))
           \/ M = [line EXCEPT !.text = <<>>, !.cur = 0, !.begin = 0, !.blank = TRUE]
    PROVE  Ok(play.cap, line, M)
<1>0. PICK L : L = line
  OBVIOUS
<1>1. PICK cap \in Nat : cap = play.cap /\ play \in Plays
  BY PlaysAssumption DEF InputInv
<1>2. Fine(cap, L) /\ L.harm = "none" /\ Fine(play.cap, L)
  BY <1>0, <1>1 DEF InputInv, Typing
<1>3. Len0(L) \in Nat /\ 0 \in 0 .. Len0(L) /\ Len0(L) \in 0 .. Len0(L)
  BY <1>2, Sides
<1> SUFFICES Ok(cap, L, M)
  BY <1>0, <1>1
<1>4. Ok(cap, L, input_home(L)) /\ Ok(cap, L, input_end(L))
  BY <1>2, <1>3, MovedOk DEF input_home, input_end
<1>5. Ok(cap, L, input_clear_line(L))
  BY <1>2, ClearOk
<1>6. Ok(cap, L, input_move_left(L)) /\ Ok(cap, L, input_move_right(L))
  BY <1>2, LeftRightOk
<1>7. \A n \in {0, PromptLen} : Ok(cap, L, input_set_prompt(L, n))
  BY <1>2, PromptOk
<1>8. Ok(cap, L, cmd_complete(L))
  BY <1>0, <1>1, <1>2, CompleteOk
<1>9. Ok(cap, L, input_history_prev(L))
  BY <1>2, HistoryPrevOk
<1>10. Ok(cap, L, input_history_next(L))
  BY <1>2, HistoryNextOk
<1>11. Ok(cap, L, input_history_clear(L))
  BY <1>2, HistoryClearOk
<1>12. \A n \in play.lens : Ok(cap, L, SetLen(L, n))
  <2>1. \A n \in Nat : Ok(cap, L, SetLen(L, n))
    BY <1>2, SetLenOk
  <2>2. play.lens \subseteq Nat
    BY <1>0, <1>1, PlaysAssumption
  <2> QED BY <2>1, <2>2
<1>13. \A w \in play.widths : Ok(cap, L, input_resize(L, w))
  <2>1. \A w \in Nat \ {0} : Ok(cap, L, input_resize(L, w))
    BY <1>2, ResizeOk
  <2>2. play.widths \subseteq Nat \ {0}
    BY <1>0, <1>1, PlaysAssumption
  <2> QED BY <2>1, <2>2
<1>14. L.text # <<>> => Ok(cap, L, input_clear_line(input_history_add(L)))
  BY <1>2, SendOk
<1>15. Ok(cap, L, [L EXCEPT !.text = <<>>, !.cur = 0, !.begin = 0, !.blank = TRUE])
  BY <1>2, BlankOk
<1> QED BY <1>0, <1>1, <1>4, <1>5, <1>6, <1>7, <1>8, <1>9, <1>10, <1>11, <1>12, <1>13, <1>14, <1>15,
           Zenon

(* Every action is one of these handlers.                                  *)
LEMMA ActionIs ==
    ASSUME InputInv, InputNext
    PROVE  Typing /\ \E M : Ok(play.cap, line, M) /\ Becomes(M)
<1>1. CASE Insert
  <2>1. Typing /\ \E str \in play.strs \cup {<<c>> : c \in play.chars} :
                     Becomes(Safe(line, input_insert(line, str)))
    BY <1>1 DEF Insert
  <2> QED BY <2>1, EditingOk
<1>2. CASE Delete
  <2>1. Typing /\ Becomes(Safe(line, input_delete(line)))
    BY <1>2 DEF Delete, Runs
  <2> QED BY <2>1, EditingOk
<1>3. CASE Bkspace
  <2>1. Typing /\ Becomes(Safe(line, input_bkspace(line)))
    BY <1>3 DEF Bkspace, Runs
  <2> QED BY <2>1, EditingOk
<1>4. CASE Clear
  <2>1. Typing /\ Becomes(input_clear_line(line))
    BY <1>4 DEF Clear, Runs
  <2> QED BY <2>1, OthersOk
<1>5. CASE ClearToStart
  <2>1. Typing /\ Becomes(Safe(line, input_clear_to_start(line)))
    BY <1>5 DEF ClearToStart, Runs
  <2> QED BY <2>1, EditingOk
<1>6. CASE ClearToEnd
  <2>1. Typing /\ Becomes(Safe(line, input_clear_to_end(line)))
    BY <1>6 DEF ClearToEnd, Runs
  <2> QED BY <2>1, EditingOk
<1>7. CASE RemoveSome
  <2>1. Typing /\ \E n \in {-2, 2} : Becomes(Safe(line, input_remove(line, n)))
    BY <1>7 DEF RemoveSome
  <2> QED BY <2>1, EditingOk
<1>8. CASE PrevWord
  <2>1. Typing /\ Becomes(Safe(line, input_prev_word(line)))
    BY <1>8 DEF PrevWord, Runs
  <2> QED BY <2>1, EditingOk
<1>9. CASE NextWord
  <2>1. Typing /\ Becomes(Safe(line, input_next_word(line)))
    BY <1>9 DEF NextWord, Runs
  <2> QED BY <2>1, EditingOk
<1>10. CASE ClearPrev
  <2>1. Typing /\ Becomes(Safe(line, input_clear_prev_word(line)))
    BY <1>10 DEF ClearPrev, Runs
  <2> QED BY <2>1, EditingOk
<1>11. CASE ClearNext
  <2>1. Typing /\ Becomes(Safe(line, input_clear_next_word(line)))
    BY <1>11 DEF ClearNext, Runs
  <2> QED BY <2>1, EditingOk
<1>12. CASE Home
  <2>1. Typing /\ Becomes(input_home(line))
    BY <1>12 DEF Home, Runs
  <2> QED BY <2>1, OthersOk
<1>13. CASE End
  <2>1. Typing /\ Becomes(input_end(line))
    BY <1>13 DEF End, Runs
  <2> QED BY <2>1, OthersOk
<1>14. CASE Left
  <2>1. Typing /\ Becomes(input_move_left(line))
    BY <1>14 DEF Left, Runs
  <2> QED BY <2>1, OthersOk
<1>15. CASE Right
  <2>1. Typing /\ Becomes(input_move_right(line))
    BY <1>15 DEF Right, Runs
  <2> QED BY <2>1, OthersOk
<1>16. CASE Prompt
  <2>1. Typing /\ \E n \in {0, PromptLen} : Becomes(input_set_prompt(line, n))
    BY <1>16 DEF Prompt
  <2> QED BY <2>1, OthersOk
<1>17. CASE Complete
  <2>1. Typing /\ Becomes(cmd_complete(line))
    BY <1>17 DEF Complete, Runs
  <2> QED BY <2>1, OthersOk
<1>18. CASE HistoryPrev
  <2>1. Typing /\ Becomes(input_history_prev(line))
    BY <1>18 DEF HistoryPrev, Runs
  <2> QED BY <2>1, OthersOk
<1>19. CASE HistoryNext
  <2>1. Typing /\ Becomes(input_history_next(line))
    BY <1>19 DEF HistoryNext, Runs
  <2> QED BY <2>1, OthersOk
<1>20. CASE HistoryClear
  <2>1. Typing /\ Becomes(input_history_clear(line))
    BY <1>20 DEF HistoryClear, Runs
  <2> QED BY <2>1, OthersOk
<1>21. CASE Set
  <2>1. Typing /\ \E n \in play.lens : Becomes(SetLen(line, n))
    BY <1>21 DEF Set
  <2> QED BY <2>1, OthersOk
<1>22. CASE ResizeLine
  <2>1. Typing /\ \E w \in play.widths \ {line.width} : Becomes(input_resize(line, w))
    BY <1>22 DEF ResizeLine
  <2> QED BY <2>1, OthersOk
<1>23. CASE Send
  <2>1. Typing /\ line.text # <<>> /\ Becomes(input_clear_line(input_history_add(line)))
    BY <1>23 DEF Send
  <2> QED BY <2>1, OthersOk
<1>24. CASE SendArgs
  <2>1. /\ Typing
        /\ \/ Becomes([line EXCEPT !.text = <<>>, !.cur = 0, !.begin = 0, !.blank = TRUE])
           \/ Becomes(input_clear_line(line))
    BY <1>24 DEF SendArgs
  <2> QED BY <2>1, OthersOk
<1> QED BY <1>1, <1>2, <1>3, <1>4, <1>5, <1>6, <1>7, <1>8, <1>9, <1>10, <1>11, <1>12, <1>13,
           <1>14, <1>15, <1>16, <1>17, <1>18, <1>19, <1>20, <1>21, <1>22, <1>23, <1>24
        DEF InputNext

(* The first line is empty.                                                *)
LEMMA InitIs ==
    ASSUME InputInit
    PROVE  /\ InputInv /\ line.text = <<>> /\ line.hist = <<>> /\ Pos(line) = 0
           /\ line.begin <= line.prompt
<1>0. PICK L : L = line
  OBVIOUS
<1>1. PICK cap \in Nat : cap = play.cap /\ play \in Plays
  BY PlaysAssumption DEF InputInit
<1>2. PICK n \in {0, PromptLen} :
          L = [text |-> <<>>, cur |-> n, begin |-> n, prompt |-> n, width |-> 5,
               hist |-> <<>>, hcur |-> 0, max |-> 2, gone |-> FALSE,
               cut |-> FALSE, blank |-> FALSE, dirty |-> TRUE, harm |-> "none"]
  BY <1>0, <1>1 DEF InputInit
<1>3. /\ L.text = <<>> /\ L.hist = <<>> /\ L.begin = n /\ L.prompt = n /\ L.cur = n
      /\ L.hcur = 0 /\ L.max = 2 /\ ~L.gone /\ L.dirty /\ L.harm = "none"
  BY <1>2
<1>4. L \in LineRec
  <2>1. n \in Nat /\ n \in {0, PromptLen} /\ 5 \in Nat \ {0} /\ 2 \in Nat /\ 0 \in Int
        /\ "none" \in Harms /\ <<>> \in Seq(Char) /\ <<>> \in Seq(Seq(Char))
    BY DEF PromptLen, Harms
  <2> QED BY <1>2, <2>1 DEF LineRec
<1>5. Pos(L) = 0 /\ Len0(L) = 0
  <2>1. n \in Int
    BY DEF PromptLen
  <2> QED BY <1>3, <2>1, EmptySeq DEF Pos, Len0
<1>6. L.text \in Short(cap) /\ L.hist \in Seq(Short(cap))
  BY <1>3, NothingIs, EmptySeq
<1>7. CursorOk(L)
  <2>1. n \in Int
    BY DEF PromptLen
  <2> QED BY <1>3, <1>5, <2>1 DEF CursorOk
<1>8. HistOk(L)
  BY <1>3, EmptySeq DEF HistOk
<1>9. BeginOk(L)
  <2>1. n \in Int
    BY DEF PromptLen
  <2> QED BY <1>3, <2>1 DEF BeginOk
<1>10. Fine(cap, L)
  BY <1>4, <1>6, <1>7, <1>8, <1>9 DEF Fine
<1>11. HarmOk(cap, L)
  BY <1>3 DEF HarmOk
<1>12. L.begin <= L.prompt
  <2>1. n \in Int
    BY DEF PromptLen
  <2> QED BY <1>3, <2>1
<1> QED BY <1>0, <1>1, <1>3, <1>5, <1>10, <1>11, <1>12 DEF InputInv, Seen

(* What is on the screen at the column of the cursor.                      *)
LEMMA ViewIs ==
    ASSUME NEW cap \in Nat, NEW L, Fine(cap, L), L.prompt < L.width,
           Pos(L) >= 0, Pos(L) < Len0(L)
    PROVE  View(L).text[(L.cur % L.width) - View(L).prompt + 1] = At(L, Pos(L))
<1>1. /\ Pos(L) \in Int /\ Len0(L) \in Nat /\ L.text \in Seq(Char)
  BY Sides
<1>2. PICK c \in Nat, w \in Nat, q \in Nat : c = L.cur /\ w = L.width /\ q = L.prompt
  BY DEF Fine, LineRec, PromptLen
<1>3. w > 0 /\ q < w /\ Pos(L) = c - q /\ q <= c
  BY <1>2 DEF Fine, LineRec, Pos
<1>4. PICK s \in Seq(Char), n \in Nat : s = L.text /\ n = Len(s) /\ n = Len0(L)
  BY <1>1 DEF Len0
<1>5. PICK d \in Int, m \in Int : d = c \div w /\ m = c % w
  BY <1>3
<1>6. c = w * d + m /\ 0 <= m /\ m < w
  BY <1>3, <1>5
<1>7. PICK o \in Int : o = IF c >= w THEN d * w - q ELSE 0
  <2>1. PICK y \in Int : y = d * w
    OBVIOUS
  <2>2. y - q \in Int /\ 0 \in Int
    OBVIOUS
  <2>3. CASE c >= w
    <3>1. WITNESS y - q \in Int
    <3> QED BY <2>1, <2>3
  <2>4. CASE ~(c >= w)
    <3>1. WITNESS 0 \in Int
    <3> QED BY <2>4
  <2> QED BY <2>3, <2>4
<1>8. PICK r \in Int : r = IF o = 0 THEN q ELSE 0
  OBVIOUS
<1>9. /\ o >= 0 /\ o + (m - r + 1) = c - q + 1 /\ 1 <= m - r + 1 /\ m - r + 1 <= w - r
  <2>1. CASE c < w
    <3>1. m = c
      BY <1>3, <1>5, <2>1
    <3> QED BY <1>3, <1>7, <1>8, <2>1, <3>1
  <2>2. CASE c >= w
    <3>1. d >= 1
      BY <1>3, <1>6, <2>2
    <3>2. PICK x \in Int : x = w * d
      OBVIOUS
    <3>3. d * w = x /\ x >= w
      BY <1>3, <3>1, <3>2
    <3>4. o = x - q /\ o > 0
      BY <1>3, <1>7, <2>2, <3>3
    <3> QED BY <1>3, <1>6, <1>8, <3>2, <3>3, <3>4
  <2> QED BY <2>1, <2>2
<1> DEFINE e == Min({n, o + w - r})
<1>10. e \in Nat /\ e <= n /\ (e = n \/ e = o + w - r)
  <2>1. {n, o + w - r} \subseteq Nat /\ {n, o + w - r} # {}
    BY <1>9
  <2>2. e \in {n, o + w - r} /\ \A y \in {n, o + w - r} : e <= y
    BY <2>1, MinIs
  <2> QED BY <1>9, <2>2
<1>11. View(L) = [prompt |-> r, text |-> SubSeq(s, o + 1, e)]
  BY <1>2, <1>4, <1>5, <1>7, <1>8 DEF View
<1> HIDE DEF e
<1>12. \A i \in 1 .. e - (o + 1) + 1 : SubSeq(s, o + 1, e)[i] = s[o + 1 + i - 1]
  <2>1. \A i \in o + 1 .. e : s[i] \in Char
    <3>1. \A i \in 1 .. Len(s) : s[i] \in Char
      BY ElementOfSeq
    <3>2. \A i \in o + 1 .. e : i \in 1 .. Len(s)
      BY <1>4, <1>9, <1>10
    <3> QED BY <3>1, <3>2
  <2> QED BY <1>9, <1>10, <2>1, SubSeqProperties
<1>13. PICK k \in Int : k = m - r + 1
  OBVIOUS
<1>14. k \in 1 .. e - (o + 1) + 1 /\ o + 1 + k - 1 = c - q + 1
  BY <1>3, <1>4, <1>9, <1>10, <1>13
<1>15. SubSeq(s, o + 1, e)[k] = s[c - q + 1]
  BY <1>12, <1>14
<1>16. At(L, Pos(L)) = s[c - q + 1]
  BY <1>3, <1>4 DEF At
<1>17. View(L).prompt = r /\ View(L).text = SubSeq(s, o + 1, e)
  <2>1. PICK t : t = SubSeq(s, o + 1, e)
    OBVIOUS
  <2>2. View(L) = [prompt |-> r, text |-> t]
    BY <1>11, <2>1
  <2>3. View(L).prompt = r /\ View(L).text = t
    BY <2>2
  <2> QED BY <2>1, <2>3
<1>18. (L.cur % L.width) - View(L).prompt + 1 = k
  BY <1>2, <1>5, <1>13, <1>17
<1> QED BY <1>15, <1>16, <1>17, <1>18

LEMMA InvIsSound ==
    ASSUME InputInv
    PROVE  InputSound
<1>0. PICK L : L = line
  OBVIOUS
<1>1. PICK cap \in Nat : cap = play.cap
  BY PlaysAssumption DEF InputInv
<1>2. /\ Fine(cap, L) /\ HarmOk(cap, L)
      /\ ~L.dirty => L.prompt < L.width
      /\ L.harm = "none" /\ ~L.dirty /\ ~L.blank => shown = View(L)
  BY <1>0, <1>1 DEF InputInv, Seen
<1>3. Pos(L) \in Int
  BY <1>2, Sides
<1>4. Pos(L) >= 0 => Pos(L) <= Len0(L) /\ L.begin <= L.cur
  BY <1>2 DEF Fine, CursorOk
<1>5. Pos(L) < 0 => L.text = <<>>
  BY <1>2, <1>3 DEF Fine, CursorOk
<1>6. ASSUME Pos(L) >= 0, L.harm = "none", ~L.dirty, ~L.blank, Pos(L) < Len0(L)
      PROVE  shown.text[(L.cur % L.width) - shown.prompt + 1] = At(L, Pos(L))
  <2>1. shown = View(L) /\ L.prompt < L.width
    BY <1>2, <1>6
  <2> QED BY <1>2, <1>6, <2>1, ViewIs
<1>7. /\ L.harm = "below" => Pos(L) < 0
      /\ L.harm = "freed" => L.cut
      /\ L.harm = "behind" =>
          \/ Pos(L) = 0 /\ Len0(L) = cap
          \/ Pos(L) > 0 /\ At(L, Pos(L) - 1) = Blank /\ At(L, Pos(L)) = Blank
  BY <1>2 DEF HarmOk
<1> QED BY <1>0, <1>1, <1>2, <1>4, <1>5, <1>6, <1>7 DEF InputSound

-----------------------------------------------------------------------------
(* The line that is edited is one of LineEdit.                             *)
LEMMA EditorIs ==
    /\ Till(line, Split) = LeftOf(line) /\ From(line, Split) = RightOf(line)
    /\ (IF line.begin <= line.prompt \/ line.begin >= line.cur
        THEN Split ELSE line.begin - line.prompt) = MarkOf(line)
BY DEF Split, SplitOf, LeftOf, RightOf, MarkOf

LEMMA EditIsEdit ==
    ASSUME Edits(line, line')
    PROVE  Editor!Next
<1>1. PICK a, b, m, h, c, d, k : /\ a = LeftOf(line) /\ b = RightOf(line) /\ m = MarkOf(line)
                                 /\ h = line.hist /\ c = LeftOf(line') /\ d = RightOf(line')
                                 /\ k = line'.hist
  OBVIOUS
<1>2. \/ IsPrefix(a, c) /\ d = b /\ k = h
      \/ IsPrefix(c, a) /\ d = b /\ k = h
      \/ IsSuffix(d, b) /\ c = a /\ k = h
      \/ c \o d = a \o b /\ k = h
      \/ c = <<>> /\ d = <<>> /\ k \in {h, <<>>}
      \/ k \in TrimsOf(h) /\ c = a /\ d = b
      \/ a \o b # <<>> /\ c = <<>> /\ d = <<>> /\ k \in TrimsOf(<<a \o b>> \o h)
      \/ /\ d = <<>> /\ \E i \in DOMAIN h : c = h[i]
         /\ k \in {h} \cup TrimsOf(<<a \o b>> \o h)
      \/ IsPrefix(SubSeq(a, 1, m), c) /\ d = b /\ k = h
  BY <1>1, Zenon DEF Edits, Inserts, Rubs, Kills, Moves, Empties, Forgets, Enters, Recalls,
     Completes, SameHist, TextOf
<1>3. /\ Till(line, Split) = a /\ From(line, Split) = b
      /\ (IF line.begin <= line.prompt \/ line.begin >= line.cur
          THEN Split ELSE line.begin - line.prompt) = m
      /\ Till(line, Split)' = c /\ From(line, Split)' = d
  BY <1>1, EditorIs DEF Split, SplitOf, LeftOf, RightOf
<1>4. line.hist = h /\ line.hist' = k
  BY <1>1
<1>5. Editor!Line = a \o b
  BY <1>3 DEF Editor!Line
<1>6. CASE IsPrefix(a, c) /\ d = b /\ k = h
  BY <1>3, <1>4, <1>6 DEF Editor!Next, Editor!Insert, IsPrefix, Editor!IsPrefix
<1>7. CASE IsPrefix(c, a) /\ d = b /\ k = h
  BY <1>3, <1>4, <1>7 DEF Editor!Next, Editor!Rub, IsPrefix, Editor!IsPrefix
<1>8. CASE IsSuffix(d, b) /\ c = a /\ k = h
  BY <1>3, <1>4, <1>8 DEF Editor!Next, Editor!Kill, IsSuffix, Editor!IsSuffix, IsPrefix,
     Editor!IsPrefix, Reverse, Editor!Reverse
<1>9. CASE c \o d = a \o b /\ k = h
  BY <1>3, <1>4, <1>5, <1>9 DEF Editor!Next, Editor!Move
<1>10. CASE c = <<>> /\ d = <<>> /\ k \in {h, <<>>}
  BY <1>3, <1>4, <1>10 DEF Editor!Next, Editor!Empty
<1>11. CASE k \in TrimsOf(h) /\ c = a /\ d = b
  BY <1>3, <1>4, <1>11 DEF Editor!Next, Editor!Forget, Editor!Trims, TrimsOf
<1>12. CASE a \o b # <<>> /\ c = <<>> /\ d = <<>> /\ k \in TrimsOf(<<a \o b>> \o h)
  BY <1>3, <1>4, <1>5, <1>12 DEF Editor!Next, Editor!Enter, Editor!Trims, TrimsOf
<1>13. CASE /\ d = <<>> /\ \E i \in DOMAIN h : c = h[i]
            /\ k \in {h} \cup TrimsOf(<<a \o b>> \o h)
  BY <1>3, <1>4, <1>5, <1>13 DEF Editor!Next, Editor!Recall, Editor!Trims, TrimsOf
<1>14. CASE IsPrefix(SubSeq(a, 1, m), c) /\ d = b /\ k = h
  BY <1>3, <1>4, <1>14 DEF Editor!Next, Editor!Complete, IsPrefix, Editor!IsPrefix
<1> QED BY <1>2, <1>6, <1>7, <1>8, <1>9, <1>10, <1>11, <1>12, <1>13, <1>14

LEMMA InputInvKept == InputInv /\ [InputNext]_inputVars => InputInv'
<1> SUFFICES ASSUME InputInv, [InputNext]_inputVars PROVE InputInv'
  OBVIOUS
<1>1. CASE InputNext
  BY <1>1, ActionIs, StepIs
<1>2. CASE UNCHANGED inputVars
  BY <1>2 DEF inputVars, InputInv, Seen, HarmOk, View, Pos, Len0, At
<1> QED BY <1>1, <1>2

(* The cursor stays on the line, the screen shows it, and the program      *)
(* comes to harm only in the ways that are known (InputInv is what is kept *)
(* by every key and command).                                              *)
THEOREM InputIsSound == InputSpec => []InputSound
<1>1. InputInit => InputInv
  BY InitIs
<1>2. InputInv /\ [InputNext]_inputVars => InputInv'
  BY InputInvKept
<1>3. InputInv => InputSound
  BY InvIsSound
<1> QED BY <1>1, <1>2, <1>3, PTL DEF InputSpec

(* The input line, with its prompt, its pointers and its history that is   *)
(* cut, is a line editor.                                                  *)
THEOREM InputIsLineEdit == InputSpec => ImplementsLineEdit
<1>1. InputInit => InputInv
  BY InitIs
<1>2. InputInv /\ [InputNext]_inputVars => InputInv'
  BY InputInvKept
<1>3. InputInit => Editor!Init
  <2> SUFFICES ASSUME InputInit PROVE Editor!Init
    OBVIOUS
  <2>1. line.text = <<>> /\ line.hist = <<>> /\ Split = 0 /\ line.begin <= line.prompt
    BY InitIs DEF Split
  <2>2. SubSeq(line.text, 1, 0) = <<>> /\ SubSeq(line.text, 0 + 1, Len0(line)) = <<>>
    BY <2>1, EmptySeq DEF Len0
  <2> QED BY <2>1, <2>2 DEF Editor!Init, Till, From
<1>4. InputInv /\ [InputNext]_inputVars =>
         [Editor!Next]_<<Till(line, Split), From(line, Split), line.hist>>
  <2> SUFFICES ASSUME InputInv, [InputNext]_inputVars
               PROVE  [Editor!Next]_<<Till(line, Split), From(line, Split), line.hist>>
    OBVIOUS
  <2>1. CASE InputNext
    BY <2>1, ActionIs, StepIs, EditIsEdit
  <2>2. CASE UNCHANGED inputVars
    BY <2>2 DEF inputVars, Till, From, Split, Pos, Len0
  <2> QED BY <2>1, <2>2
<1> QED BY <1>1, <1>2, <1>3, <1>4, PTL DEF InputSpec, ImplementsLineEdit, Editor!Spec
=============================================================================
