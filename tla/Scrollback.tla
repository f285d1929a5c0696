----------------------------- MODULE Scrollback -----------------------------
(***************************************************************************)
(* A window with a scroll buffer: pork_swindow.c and pork_imsg.c.          *)
(*                                                                         *)
(* The messages are a list; pointers to the one at the top of the screen   *)
(* and the one at its bottom, and how many of their lines are hidden,      *)
(* tell what is on the screen.  Every operation corrects them by steps     *)
(* from what they were, and draws only what it thinks has changed.         *)
(*                                                                         *)
(* A text is a sequence of characters, which are Space or not: it is cut   *)
(* into lines when it is counted and when it is drawn.  A row of the       *)
(* screen is blank or line l of message m.  What u_int32_t makes of a      *)
(* negative number is beyond Word.                                         *)
(***************************************************************************)
EXTENDS Integers, SequencesExt, FiniteSetsExt

CONSTANTS Texts,      \* the messages
          Note,       \* the text before and after what was found
          Sizes,      \* pairs of rows and columns
          Conts,      \* whether WORDWRAP_CHAR is set
          MaxLens,    \* values of SCROLLBUF_LEN
          MaxMsgs,    \* messages that are ever in the buffer
          Word        \* 2^32

VARIABLES buf,        \* the messages, the oldest first: scrollbuf, backwards
          view,       \* the other fields of struct swindow
          screen,     \* what is on the terminal
          opts,       \* preferences: wrap (WORDWRAP), cont (WORDWRAP_CHAR is set),
                      \* follow (SCROLL_ON_OUTPUT), max (SCROLLBUF_LEN)
          past,       \* not in the code: how the screen may have gone astray
          extent      \* not in the code: lines above, on and below the screen

vars == <<buf, view, screen, opts, past, extent>>

NULL  == 0
Space == 0
Blank == <<0, 0>>

Now == [buf |-> buf, view |-> view, screen |-> screen, opts |-> opts, past |-> past]

Past(s, what, really) == IF really THEN [s EXCEPT !.past = @ \cup {what}] ELSE s

-----------------------------------------------------------------------------
(* Lines: imsg_lines, and the same cuts in swindow_print_msg_wr.           *)

(* Where the line that begins at i ends: at the last column, or at the     *)
(* last space if the column and the next one have none.                    *)
LineEnd(t, i, room) ==
    LET p == i + room - 1
        spaces == {j \in i + 1 .. p - 1 : t[j] = Space}
    IN  IF p >= Len(t) THEN Len(t)
        ELSE IF t[p] # Space /\ t[p + 1] # Space /\ spaces # {} THEN Max(spaces)
        ELSE p

(* Where the lines begin.                                                  *)
Begins(t, cols, cont) ==
    LET room(i) == IF i > 1 /\ cont /\ cols > 1 THEN cols - 1 ELSE cols
        from[i \in 1 .. Len(t)] ==
            LET e == LineEnd(t, i, room(i))
            IN  <<i>> \o (IF e = Len(t) THEN <<>> ELSE from[e + 1])
    IN  from[1]

(* imsg_lines.                                                             *)
imsg_lines(t, cols, o) ==
    IF Len(t) <= cols THEN 1
    ELSE IF ~o.wrap THEN (Len(t) + cols - 1) \div cols
    ELSE Len(Begins(t, cols, o.cont))

(* imsg_new.                                                               *)
imsg_new(s, t) == [text |-> t, lines |-> imsg_lines(t, s.view.cols, s.opts)]

Lines(s, m) == s.buf[m].lines

(* Lines of the messages m .. n.                                           *)
Sum(s, m, n) ==
    LET upto[i \in m - 1 .. n] == IF i < m THEN 0 ELSE upto[i - 1] + Lines(s, i)
    IN  IF n < m THEN 0 ELSE upto[n]

Newest(s) == Len(s.buf)
Total(s)  == Sum(s, 1, Newest(s))

(* Lines above the screen, and below it.                                   *)
Above(s) == Sum(s, 1, s.view.top - 1) + s.view.top_hidden
Below(s) == Sum(s, s.view.bot + 1, Newest(s)) + s.view.bottom_hidden

AtEnd(s) == s.view.bot = Newest(s) /\ s.view.bottom_hidden = 0

(* All lines: line l of message m is <<m, l>>.                             *)
Text(s) == FlattenSeq([m \in 1 .. Newest(s) |-> [l \in 1 .. Lines(s, m) |-> <<m, l>>]])

(* The message at the top, and how many of its lines are hidden, if a      *)
(* lines are above; the same for the bottom if b lines are below.          *)
TopAt(s, a) == LET at == Text(s)[a + 1] IN <<at[1], at[2] - 1>>

BotAt(s, b) == LET at == Text(s)[Total(s) - b] IN <<at[1], Lines(s, at[1]) - at[2]>>

SetTop(s, to) == [s EXCEPT !.view.top = to[1], !.view.top_hidden = to[2]]
SetBot(s, to) == [s EXCEPT !.view.bot = to[1], !.view.bottom_hidden = to[2]]

-----------------------------------------------------------------------------
(* What the pointers say is on the screen.                                 *)
View(s) ==
    LET shown == SubSeq(Text(s), Above(s) + 1, Above(s) + s.view.rows - s.view.bottom_blank)
    IN  [r \in 1 .. s.view.rows |-> IF r \in DOMAIN shown THEN shown[r] ELSE Blank]

(* The lines above, on and below the screen are all there are, the counts  *)
(* are right, and what was drawn is what the pointers say.  Once they do   *)
(* not agree, nothing more is followed.                                    *)
Agrees(s) ==
    LET v == s.view
    IN  /\ v.bottom_blank \in 0 .. v.rows
        /\ s.buf = <<>> => v.bottom_blank = v.rows /\ v.lines = 0 /\ v.held = 0
        /\ s.buf # <<>> =>
             /\ v.top \in 1 .. Newest(s) /\ v.top_hidden \in 0 .. Lines(s, v.top)
             /\ v.bot \in v.top .. Newest(s) /\ v.bottom_hidden \in 0 .. Lines(s, v.bot) - 1
             /\ v.lines = Total(s)
             /\ Total(s) = Above(s) + (v.rows - v.bottom_blank) + Below(s)
             /\ v.bottom_blank > 0 => AtEnd(s)
             /\ AtEnd(s) => v.held = 0
        /\ s.screen = View(s)

-----------------------------------------------------------------------------
(* The screen.                                                             *)

wclear(s) == [s EXCEPT !.screen = [r \in 1 .. s.view.rows |-> Blank]]

swindow_scroll(s, n) ==
    [s EXCEPT !.screen = [r \in DOMAIN @ |-> IF r + n \in DOMAIN @ THEN @[r + n] ELSE Blank]]

(* swindow_print_msg: lines first .. last of message m from row y on.  If  *)
(* words are wrapped the last line is drawn even if it comes before first. *)
swindow_print_msg(s, m, y, first, last) ==
    LET n == Lines(s, m)
        to == Min({n, last})
        seen == IF s.opts.wrap /\ n < first THEN <<n>>
                ELSE [i \in 1 .. to - first + 1 |-> first + i - 1]
    IN  [s EXCEPT !.screen =
            [r \in DOMAIN @ |-> IF r - y \in DOMAIN seen THEN <<m, seen[r - y]>> ELSE @[r]]]

(* The lines rest from row y on; the last message may be cut.              *)
Draw(s, rest, y) ==
    LET room == s.view.rows - y
        last == rest[Min({Len(rest), room})]
    IN  IF rest = <<>> \/ room <= 0 THEN s
        ELSE [s EXCEPT
                 !.screen = [r \in DOMAIN @ |-> IF r - y \in DOMAIN rest THEN rest[r - y] ELSE @[r]],
                 !.view.bot = last[1],
                 !.view.bottom_hidden = Lines(s, last[1]) - last[2],
                 !.view.bottom_blank = Max({0, room - Len(rest)}),
                 !.view.held = IF Len(rest) <= room THEN 0 ELSE @]

DrawFrom(s, m, y) == Draw(s, SubSeq(Text(s), Sum(s, 1, m - 1) + 1, Total(s)), y)

(* swindow_redraw.  If the message at the top fills the screen by itself   *)
(* the bottom is not set, and if it is the only one neither.               *)
swindow_redraw(s) ==
    LET v == s.view
        seen == (Lines(s, v.top) - v.top_hidden) % Word
        first == v.top_hidden + 1
    IN  IF v.top = NULL THEN s
        ELSE IF v.top_hidden = 0 THEN DrawFrom(s, v.top, 0)
        ELSE IF seen > v.rows
        THEN swindow_print_msg(
                 [Past(s, "tall", Lines(s, v.top) >= v.top_hidden) EXCEPT
                     !.view.bot = v.top, !.view.bottom_blank = 0,
                     !.view.bottom_hidden = seen - v.rows],
                 v.top, 0, first, (seen + v.rows) % Word)
        ELSE DrawFrom(
                 swindow_print_msg(
                     Past(Past(s, "tall", seen = v.rows),
                          "alone", v.top = Newest(s) /\ seen < v.rows),
                     v.top, 0, first, Word),
                 v.top + 1, seen)

-----------------------------------------------------------------------------
(* Scrolling.                                                              *)

swindow_scroll_to_end(s) ==
    IF s.buf = <<>> \/ AtEnd(s) THEN s
    ELSE swindow_redraw(wclear(
             [SetTop(s, IF Total(s) < s.view.rows THEN <<1, 0>>
                        ELSE TopAt(s, Total(s) - s.view.rows)) EXCEPT !.view.held = 0]))

swindow_scroll_to_start(s) ==
    IF s.buf = <<>> \/ (s.view.top = 1 /\ s.view.top_hidden = 0) THEN s
    ELSE swindow_redraw(wclear(SetTop(s, <<1, 0>>)))

(* mutant of ScrolledDown: the bottom does not follow                      *)
ScrolledDownTop(s, n) == SetTop(s, TopAt(s, Above(s) + Min({n, Below(s)})))

ScrolledDown(s, n) ==
    LET by == Min({n, Below(s)})
        t  == SetBot(SetTop(s, TopAt(s, Above(s) + by)), BotAt(s, Below(s) - by))
    IN  [t EXCEPT !.view.held = IF n > by THEN 0 ELSE @]

(* mutant of ScrolledUp: what is hidden of the top message is forgotten    *)
ScrolledUpWhole(s, n) == SetTop(s, TopAt(s, Max({0, Above(s) - s.view.top_hidden - n})))

ScrolledUp(s, n) == SetTop(s, TopAt(s, Max({0, Above(s) - n})))

swindow_scroll_by(s, n) ==
    IF s.view.lines <= s.view.rows \/ (n > 0 /\ AtEnd(s)) \/ (n < 0 /\ Above(s) = 0) THEN s
    ELSE swindow_redraw(wclear(IF n < 0 THEN ScrolledUp(s, -n) ELSE ScrolledDown(s, n)))

-----------------------------------------------------------------------------
(* Messages.                                                               *)

(* mutant of swindow_prune: what is on the screen is pruned too            *)
PruneAll(s) ==
    LET k == Max({0, Newest(s) - s.opts.max})
    IN  [s EXCEPT !.buf = SubSeq(@, k + 1, Len(@)), !.view.top = @ - k, !.view.bot = @ - k,
                  !.view.lines = @ - Sum(s, 1, k)]

(* The oldest messages go, but none that is on the screen.                 *)
swindow_prune(s) ==
    LET k == Max({0, Min({Newest(s) - s.opts.max, s.view.top - 1})})
    IN  [s EXCEPT !.buf = SubSeq(@, k + 1, Len(@)), !.view.top = @ - k, !.view.bot = @ - k,
                  !.view.lines = @ - Sum(s, 1, k),
                  !.screen = [r \in DOMAIN @ |->
                                 IF @[r] = Blank THEN Blank ELSE <<@[r][1] - k, @[r][2]>>]]

(* The newest message goes below the others, which are scrolled up as far  *)
(* as it needs.                                                            *)
Fits(s, n, blank) ==
    swindow_print_msg([s EXCEPT !.view.bottom_blank = @ - n],
                      Newest(s), s.view.rows - blank, 1, Word)

Evicts(s, n, evict) ==
    swindow_print_msg(
        SetTop(swindow_scroll([s EXCEPT !.view.bottom_blank = 0], evict),
               TopAt(s, Above(s) + evict)),
        Newest(s), Max({0, s.view.rows - n}), Max({1, n - s.view.rows + 1}), Word)

Placed(s, n, blank) ==
    IF n <= blank THEN Fits(s, n, blank) ELSE Evicts(s, n, n - blank)

Linked(s, msg) ==
    [s EXCEPT !.buf = Append(@, msg), !.view.lines = @ + msg.lines,
              !.view.top = IF s.buf = <<>> THEN 1 ELSE @]

(* The window is scrolled up, or not.                                      *)
Added(s, msg) ==
    IF ~Agrees(s) THEN s
    ELSE IF Newest(s) # s.view.bot THEN [Linked(s, msg) EXCEPT !.view.held = @ + msg.lines]
    ELSE swindow_prune(Placed(
             [Past(Linked(s, msg), "partly", s.view.bottom_hidden # 0)
                 EXCEPT !.view.bot = Newest(s) + 1],
             msg.lines, s.view.bottom_blank))

swindow_add(s, msg) ==
    Added(IF s.opts.follow THEN swindow_scroll_to_end(s) ELSE s, msg)

(* imwindow_buffer_find and swindow_print_matching: what matched is        *)
(* remembered, then copied message by message.  gone is how many have been *)
(* pruned since.                                                           *)
Copied(f, t) == [f EXCEPT !.s = t, !.gone = @ + Len(f.s.buf) + 1 - Len(t.buf)]

FoundFreed(f) == [f EXCEPT !.s = Past(Past(@, "freed", TRUE), "over", f.over)]

swindow_print_matching(s, found) ==
    LET next(f, m) ==
            IF ~Agrees(f.s) THEN f
            ELSE IF m <= f.gone THEN FoundFreed(f)
            ELSE Copied(f, swindow_add(f.s, f.s.buf[m - f.gone]))
    IN  FoldLeft(next, [s |-> s, gone |-> 0, over |-> Len(s.buf) > s.opts.max],
                 SetToSortSeq(found, <)).s

-----------------------------------------------------------------------------
Window(size, o) ==
    [buf |-> <<>>, opts |-> o, past |-> {}, screen |-> [r \in 1 .. size[1] |-> Blank],
     view |-> [rows |-> size[1], cols |-> size[2], lines |-> 0, held |-> 0,
               top |-> NULL, bot |-> NULL, top_hidden |-> 0, bottom_hidden |-> 0,
               bottom_blank |-> size[1]]]

(* swindow_init.                                                           *)
Init ==
    \E size \in Sizes,
       o \in [wrap : BOOLEAN, cont : Conts, follow : BOOLEAN, max : MaxLens] :
        LET s == Window(size, o)
        IN  /\ buf = s.buf /\ view = s.view /\ screen = s.screen
            /\ opts = s.opts /\ past = s.past
            /\ extent = [above |-> 0, shown |-> 0, below |-> 0]

(* A step of a window that has not gone astray.                            *)
Sound == past \cap {"astray", "freed"} = {}

Op(s) ==
    /\ Sound /\ Len(s.buf) <= MaxMsgs
    /\ buf' = s.buf /\ view' = s.view /\ screen' = s.screen /\ opts' = s.opts
    /\ IF Agrees(s)
       THEN /\ past' = s.past
            /\ extent' = [above |-> Above(s), below |-> Below(s),
                          shown |-> s.view.rows - s.view.bottom_blank]
       ELSE past' = s.past \cup {"astray"} /\ extent' = extent

Add(t) == Op(swindow_add(Now, imsg_new(Now, t)))

Matching(s, found) ==
    /\ found \subseteq DOMAIN s.buf
    /\ Op(swindow_add(swindow_print_matching(s, found), imsg_new(s, Note)))

Find(found) == Sound /\ Matching(swindow_add(Now, imsg_new(Now, Note)), found)

ScrollBy(n)   == Op(swindow_scroll_by(Now, n))
ScrollToStart == Op(swindow_scroll_to_start(Now))

(* The command, or swindow_input.                                          *)
ScrollToEnd   == Op(swindow_scroll_to_end(Now))

(* screen_refresh.                                                         *)
Redraw == Op(swindow_redraw(wclear(Now)))

swindow_clear ==
    /\ buf # <<>>
    /\ Op(wclear([Now EXCEPT
            !.view = [@ EXCEPT !.top = Len(buf), !.bot = Len(buf),
                               !.top_hidden = Lines(Now, Len(buf)), !.bottom_hidden = 0,
                               !.held = 0, !.bottom_blank = view.rows]]))

swindow_erase == Op([Window(<<view.rows, view.cols>>, opts) EXCEPT !.past = past])

(* swindow_recalculate, after opts or the size have changed.               *)
Recounted(s) ==
    [s EXCEPT !.buf = [m \in DOMAIN @ |-> imsg_new(s, @[m].text)]]

Recalculated(s, old) ==
    IF s.view.top = NULL THEN [s EXCEPT !.view.bottom_blank = s.view.rows]
    ELSE [s EXCEPT
             !.view.lines = Total(s),
             !.view.top_hidden =
                 IF @ # 0 /\ Lines(s, s.view.top) # Lines(old, s.view.top)
                 THEN (old.view.cols * @) \div s.view.cols
                 ELSE @]

swindow_recalculate(s) == Recalculated(Recounted(s), Now)

(* mutant of swindow_set_wordwrap: the lines are not counted again         *)
SetWordwrapOnly(wrap, cont) ==
    Op(swindow_redraw(wclear([Now EXCEPT !.opts.wrap = wrap, !.opts.cont = cont])))

swindow_set_wordwrap(wrap, cont) ==
    Op(swindow_redraw(wclear(
        Past(swindow_recalculate([Now EXCEPT !.opts.wrap = wrap, !.opts.cont = cont]),
             "rewrapped", buf # <<>> /\ view.top_hidden # 0))))

imwindow_resize(size) ==
    Op(swindow_scroll_to_end(swindow_scroll_to_start(swindow_redraw(swindow_recalculate(wclear(
        [Now EXCEPT !.view.rows = size[1], !.view.cols = size[2],
                    !.opts.max = Max({@, size[1]})]))))))

SetScrollbufLen(n) == Op([Now EXCEPT !.opts.max = n])

Next ==
    \/ \E t \in Texts : Add(t)
    \/ \E m, n \in 1 .. Len(buf) + 1 : Find(m .. n)
    \/ \E n \in {1, -1, view.rows, -view.rows} : ScrollBy(n)
    \/ ScrollToStart \/ ScrollToEnd \/ Redraw \/ swindow_clear \/ swindow_erase
    \/ \E wrap \in BOOLEAN, cont \in Conts : swindow_set_wordwrap(wrap, cont)
    \/ \E size \in Sizes : imwindow_resize(size)
    \/ \E n \in MaxLens : SetScrollbufLen(n)

Spec == Init /\ [][Next]_vars

-----------------------------------------------------------------------------
(* The pointers, the counts and the screen agree, unless a message at the  *)
(* top was as tall as the screen, or was the only one there, the newest    *)
(* message was partly below the screen when another came, or lines were    *)
(* broken anew while part of the top message was hidden (swindow_redraw,   *)
(* swindow_add, swindow_recalculate).  A search reads no message that was  *)
(* pruned since it was found, unless the buffer was over its limit         *)
(* (swindow_print_matching, swindow_prune).                                *)
ScreenAgrees ==
    /\ "astray" \in past => past \cap {"tall", "alone", "partly", "rewrapped"} # {}
    /\ "freed" \in past => "over" \in past

(* The window is a view on its text that scrolls as it is told and follows *)
(* or holds new text (doc/help/scroll), as long as it has not gone astray. *)
Promise == INSTANCE Viewport WITH
    MaxScroll <- 3, rows <- view.rows, lost <- ~Sound,
    above <- extent.above, shown <- extent.shown, below <- extent.below

ImplementsViewport == Promise!Spec
=============================================================================
