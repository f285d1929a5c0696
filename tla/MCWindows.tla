------------------------------ MODULE MCWindows -----------------------------
(* The windows for TLC, three times over in one run: what they are to the  *)
(* rest of the program (PorkScreen), how the list links them (WindowRing), *)
(* and the input line that they share (InputLine).  In a behaviour one of  *)
(* the three is under way and the others stay as they began.               *)
EXTENDS PorkScreen, InputLine, TLC

CONSTANTS RingWindows, RingSkippable, RingMaxRefnum, NULL

VARIABLES part, list, nodes, skip, cur

Ring == INSTANCE WindowRing WITH
            Windows <- RingWindows, Skippable <- RingSkippable, MaxRefnum <- RingMaxRefnum

ringVars == <<list, nodes, skip, cur>>

(* Editing, completing commands, walking through the history.              *)
MCPlays ==
    {[cap |-> 3, chars |-> {"a", " "}, strs |-> {<<"a", " ">>}, lens |-> {},
      widths |-> {2, 5}, enters |-> 0, mains |-> <<>>, sets |-> <<>>],
     [cap |-> 5, chars |-> {" "}, strs |-> {<<"/", "a">>}, lens |-> {},
      widths |-> {5}, enters |-> 0, mains |-> <<<<"a">>, <<"a", "b">>>>,
      sets |-> (<<"a">> :> <<<<"a">>, <<"b">>>>)],
     [cap |-> 1, chars |-> {"a", "b"}, strs |-> {}, lens |-> {0, 1, 2},
      widths |-> {5}, enters |-> 1, mains |-> <<>>, sets |-> <<>>]}

S(A) == part = "screen" /\ A /\ UNCHANGED <<part, ringVars, inputVars>>
R(A) == part = "ring" /\ A /\ UNCHANGED <<part, vars, inputVars>>
I(A) == part = "input" /\ A /\ UNCHANGED <<part, vars, ringVars>>

MCInit ==
    /\ part \in {"screen", "ring", "input"}
    /\ Init /\ Ring!Init /\ InputInit
    /\ part # "input" => play.cap = 1 /\ line.prompt = 0

(* Next of one of the three.                                               *)
MCNext ==
    \/ \E w \in Windows, a \in Accts, t \in Targets :
          S(GetQueryWindow(w, a, t)) \/ S(NewChatWindow(w, a, t))
    \/ \E w \in Windows, t \in Targets :
          S(CmdQueryNew(w, t)) \/ S(CmdJoinNew(w, t)) \/ S(CmdFindWindow(w, t))
    \/ \E w \in Windows :
          \/ S(GotoWindow(w)) \/ S(CycleFwd(w)) \/ S(CycleBak(w)) \/ S(CloseWindow(w))
          \/ S(BlistShow(w)) \/ S(BlistHide(w))
    \/ \E w \in Windows, b \in BOOLEAN : S(SetSkip(w, b))
    \/ \E w \in Windows, act \in SUBSET Windows :
          S(CycleFwdActive(w, act)) \/ S(CycleBakActive(w, act))
    \/ \E w \in Windows, n \in Refnums : S(Renumber(w, n))
    \/ \E w \in Windows, a \in AllAccts : S(BindAcct(w, a))
    \/ \E w \in Windows, a \in Accts : S(BindNextAcct(w, a))
    \/ S(SwitchFocus) \/ S(ToggleFocus)
    \/ \E A \in SUBSET BlistAccts : S(Resize(A))
    \/ \E a \in Accts, pref \in SUBSET Windows : S(AcctConnect(a, pref))
    \/ \E a \in Accts : S(AcctDel(a)) \/ S(CmdDisconnect(a))
    \/ S(Exit) \/ S(ExitDelAcct) \/ S(ScreenDestroy)
    \/ \E w \in RingWindows :
          \/ R(Ring!NewWindow(w)) \/ R(Ring!NewAndSwitch(w)) \/ R(Ring!CloseWindow(w))
          \/ R(Ring!SetSkip(w))
    \/ \E w \in RingWindows, n \in Ring!Refnums : R(Ring!Renumber(w, n))
    \/ \E n \in Ring!Refnums : R(Ring!GotoWindow(n))
    \/ R(Ring!CycleFwd) \/ R(Ring!CycleBak)
    \/ I(Insert) \/ I(Delete) \/ I(Bkspace) \/ I(Clear)
    \/ I(ClearToStart) \/ I(ClearToEnd) \/ I(RemoveSome)
    \/ I(PrevWord) \/ I(NextWord) \/ I(ClearPrev) \/ I(ClearNext)
    \/ I(Home) \/ I(End) \/ I(Left) \/ I(Right)
    \/ I(Prompt) \/ I(Complete) \/ I(HistoryPrev)
    \/ I(HistoryNext) \/ I(HistoryClear) \/ I(Set)
    \/ I(ResizeLine) \/ I(Send) \/ I(SendArgs)

MCSpec == MCInit /\ [][MCNext]_<<part, vars, ringVars, inputVars>>

(* The pointers are a sorted ring (pork_screen.c:94).                      *)
SortedRing == Ring!SortedRing

(* The ring implements the windows and numbers of doc/help/win.            *)
RingImplementsWindowSet == Ring!ImplementsWindowSet
=============================================================================
