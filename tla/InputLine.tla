------------------------------ MODULE InputLine -----------------------------
(***************************************************************************)
(* The input line and its history: pork_input.c, the commands of the sets  *)
(* "input" and "history", the completion of commands (cmd_complete), and   *)
(* the keys that are bound to them (pork_bind.c, keyboard_input).          *)
(*                                                                         *)
(* Positions are those of the code, from 0; cur and begin count the prompt *)
(* and wrap when they get below it.  What a line that was entered means is *)
(* left open: any command may be what it asks for.                         *)
(***************************************************************************)
EXTENDS Integers, SequencesExt

CONSTANTS Plays,   \* records [cap, chars, strs, mains, sets, lens, widths, enters]:
                   \* size of the buffer less one, keys, strings to insert, main
                   \* commands, the sets by name, history lengths, widths, the longest line entered
          Char
VARIABLES play, line, shown

inputVars == <<play, line, shown>>

PromptLen == 2         \* of the prompt that is configured
Blank == " "
Slash == "/"

(* The names of commands (pork_command.c) do not start with a blank.       *)
Names == {n \in Seq(Char) : n # <<>> => n[1] # Blank}
ASSUME PlaysAssumption ==
    /\ Slash \in Char
    /\ \A p \in Plays :
          /\ p.cap \in Nat /\ p.chars \subseteq Char /\ p.strs \subseteq Seq(Char)
          /\ p.mains \in Seq(Names) /\ \A s \in DOMAIN p.sets : p.sets[s] \in Seq(Names)
          /\ p.lens \subseteq Nat /\ p.widths \subseteq Nat \ {0}

Pos(L) == L.cur - L.prompt
Len0(L) == Len(L.text)
Till(L, p) == SubSeq(L.text, 1, p)
From(L, p) == SubSeq(L.text, p + 1, Len0(L))
(* buf[p], the end of the string included.                                 *)
At(L, p) == IF p < Len0(L) THEN L.text[p + 1] ELSE "NUL"
Harm(L, h) == [L EXCEPT !.harm = h]

(* What every change ends with.                                            *)
Put(L, text, p) == [L EXCEPT !.text = text, !.cur = p + L.prompt,
                             !.begin = p + L.prompt, !.dirty = TRUE]
MovedTo(L, p) == Put(L, L.text, p)
Safe(L, M) == IF Pos(L) < 0 THEN Harm(L, "below") ELSE M

-----------------------------------------------------------------------------
(* Editing.                                                                *)
input_delete(L) ==
    IF Pos(L) = Len0(L) THEN L ELSE Put(L, RemoveAt(L.text, Pos(L) + 1), Pos(L))

(* mutant of input_bkspace: it removes what the cursor is on               *)
BkspaceDeletes(L) ==
    IF Pos(L) = 0 THEN L ELSE Put(L, Till(L, Pos(L)) \o From(L, Pos(L) + 1), Pos(L) - 1)

input_bkspace(L) ==
    IF Pos(L) = 0 THEN L ELSE Put(L, RemoveAt(L.text, Pos(L)), Pos(L) - 1)

(* input_insert and input_insert_str: what does not fit is not inserted.   *)
input_insert(L, str) ==
    IF Len0(L) + Len(str) > play.cap THEN L
    ELSE Put(L, Till(L, Pos(L)) \o str \o From(L, Pos(L)), Pos(L) + Len(str))

input_clear_line(L) == Put(L, <<>>, 0)
input_clear_to_start(L) == Put(L, From(L, Pos(L)), 0)
input_clear_to_end(L) == Put(L, Till(L, Pos(L)), Pos(L))

input_remove(L, num) ==
    IF num < 0
    THEN IF -num >= Pos(L) THEN input_clear_to_start(L)
         ELSE Put(L, Till(L, Pos(L) + num) \o From(L, Pos(L)), Pos(L) + num)
    ELSE IF Pos(L) + num >= Len0(L) THEN input_clear_to_end(L)
         ELSE Put(L, Till(L, Pos(L)) \o From(L, Pos(L) + num), Pos(L))

(* Back over blanks, then to the character after the blank before.         *)
WordBefore(L) ==
    LET Starts == {p \in 1 .. Pos(L) - 1 : At(L, p - 1) = Blank /\ At(L, p) # Blank}
    IN  IF Starts = {} THEN 0 ELSE Max(Starts)

(* Over blanks, over a word, and over one blank after it.                  *)
WordAfter(L) ==
    LET blank == Min({p \in Pos(L) .. Len0(L) : At(L, p) # Blank})
        word  == Min({p \in blank .. Len0(L) : At(L, p) \in {Blank, "NUL"}})
    IN  IF At(L, word) = Blank THEN word + 1 ELSE word

input_prev_word(L) == IF Pos(L) = 0 THEN L ELSE MovedTo(L, WordBefore(L))
input_next_word(L) == IF Pos(L) = Len0(L) THEN L ELSE MovedTo(L, WordAfter(L))

input_clear_prev_word(L) ==
    IF Pos(L) = 0 THEN L
    ELSE Put(L, Till(L, WordBefore(L)) \o From(L, Pos(L)), WordBefore(L))
input_clear_next_word(L) ==
    IF Pos(L) = Len0(L) THEN L
    ELSE Put(L, Till(L, Pos(L)) \o From(L, WordAfter(L)), Pos(L))

input_home(L) == MovedTo(L, 0)
input_end(L) == MovedTo(L, Len0(L))

(* These two compare cur and not the position.                             *)
input_move_left(L) ==
    IF L.cur > L.prompt THEN MovedTo(L, Pos(L) - 1) ELSE [L EXCEPT !.begin = L.cur]
input_move_right(L) ==
    IF L.cur < Len0(L) + L.prompt THEN MovedTo(L, Pos(L) + 1)
    ELSE [L EXCEPT !.begin = L.cur]

(* input_set_prompt; 0 for NULL.                                           *)
input_set_prompt(L, n) ==
    IF n > 0 /\ n >= L.width THEN L
    ELSE IF Pos(L) + n < 0 THEN Harm(L, "below")
    ELSE Put([L EXCEPT !.prompt = n], L.text, Pos(L))

input_resize(L, width) == [L EXCEPT !.width = width, !.dirty = TRUE]

-----------------------------------------------------------------------------
(* The history: hist from the newest to the oldest, hcur the index of      *)
(* history_cur in it, 0 for NULL, -1 when it was freed.  gone: the head    *)
(* was freed and input->history still points to it.  cut, which is not in  *)
(* the code: HISTORY_LEN was set to less than two, or to less than was     *)
(* walked back.  blank, which is not in the code either: an empty string   *)
(* was sent and the line has not been shown since.                         *)
input_history_prune(L) ==
    IF Len(L.hist) <= L.max THEN L
    ELSE [L EXCEPT !.hist = SubSeq(@, 1, L.max),
                   !.hcur = IF @ > L.max THEN -1 ELSE @,
                   !.gone = @ \/ L.max = 0]

(* mutant of Added: the line that was recalled stays the current one       *)
AddedKeepsCur(L) ==
    [L EXCEPT !.hist = <<L.text>> \o @, !.hcur = IF @ > 0 THEN @ + 1 ELSE @]

Added(L) == [L EXCEPT !.hist = <<L.text>> \o @, !.hcur = 0]
input_history_add(L) ==
    IF L.gone THEN Harm(L, "freed") ELSE input_history_prune(Added(L))

Recalled(L, i) == [Put(L, L.hist[i], Len(L.hist[i])) EXCEPT !.hcur = i]

(* A line that is being typed is added before the line that was the newest *)
(* is recalled, which the pruning may have freed.                          *)
input_history_prev(L) ==
    IF L.gone \/ L.hcur = -1 THEN Harm(L, "freed")
    ELSE IF L.hist = <<>> \/ L.hcur = Len(L.hist) THEN L
    ELSE IF L.hcur # 0 THEN Recalled(L, L.hcur + 1)
    ELSE IF L.text = <<>> THEN Recalled(L, 1)
    ELSE IF L.max < 2 THEN Harm(L, "freed")
    ELSE Recalled(input_history_add(L), 2)

input_history_next(L) ==
    CASE L.hcur = -1 -> Harm(L, "freed")
      [] L.hcur = 0  -> L
      [] L.hcur = 1  -> [input_clear_line(L) EXCEPT !.hcur = 0]
      [] OTHER       -> Recalled(L, L.hcur - 1)

input_history_clear(L) ==
    IF L.gone THEN Harm(L, "freed")
    ELSE [input_clear_line(L) EXCEPT !.hist = <<>>, !.hcur = 0]

(* opt_updated_histlen.                                                    *)
SetLen(L, n) == input_history_prune([L EXCEPT !.max = n, !.cut = @ \/ n < 2 \/ L.hcur > n])

-----------------------------------------------------------------------------
(* cmd_complete.                                                           *)
Word(L) == Min({p \in 1 .. Len0(L) : At(L, p) \in {Blank, "NUL"}})
AfterBlanks(L, p) == Min({q \in p .. Len0(L) : At(L, q) # Blank})

(* strncasecmp(name, &buf[w], n) = 0.  A negative n is a very large one.   *)
Same(L, name, w, n) ==
    IF n < 0 THEN From(L, w) = name
    ELSE n <= Len(name) /\ IsPrefix(SubSeq(name, 1, n), From(L, w))

First(S) == IF S = {} THEN 0 ELSE Min(S)

Chosen(L, names, w, p, b) ==
    LET fits == {i \in DOMAIN names : Same(L, names[i], w, p - w)}
        next == First(fits) + 1
    IN  IF L.cur = L.begin THEN First({i \in fits : Len(names[i]) # p - w})
        ELSE IF First({i \in fits : i < Len(names)}) = 0 THEN 0
        ELSE IF Same(L, names[next], w, b - w) THEN next ELSE 0

(* What the last match added goes, what this one adds comes.               *)
Completed(L, names, w, p, b) ==
    LET i == Chosen(L, names, w, p, b)
        C == IF L.begin = L.cur THEN L
             ELSE Put(L, Till(L, b) \o From(L, Pos(L)), b)
    IN  IF i = 0 THEN C
        ELSE IF b < w THEN Harm(C, "behind")
        ELSE [input_insert(C, SubSeq(names[i], b - w + 1, Len(names[i])))
                EXCEPT !.begin = C.begin]

(* The commands that the word under way may be: those of a set if it is    *)
(* not the first and the first names one.  Names of protocols never match: *)
(* the blank is compared with the end of the name.                         *)
Looked(L, p, b) ==
    IF L.text = <<>> \/ At(L, 0) # Slash THEN L
    ELSE LET e == Word(L)
             name == SubSeq(L.text, 2, e)
         IN  IF e >= b THEN Completed(L, play.mains, 1, p, b)
             ELSE IF name \in DOMAIN play.sets
             THEN Completed(L, play.sets[name], AfterBlanks(L, e), p, b)
             ELSE L

cmd_complete(L) ==
    IF L.begin > L.prompt /\ L.begin < L.cur
    THEN Looked(L, Pos(L), L.begin - L.prompt)
    ELSE IF Pos(L) # 0
    THEN Looked([L EXCEPT !.begin = L.cur], Pos(L), Pos(L))
    ELSE LET S == input_insert(L, <<Slash>>) IN Looked(S, 1, S.begin - S.prompt)

-----------------------------------------------------------------------------
(* screen_draw_input, input_partial: the part of the line that is on the   *)
(* screen, with the prompt or without.                                     *)
View(L) ==
    LET offset == IF L.cur >= L.width THEN (L.cur \div L.width) * L.width - L.prompt ELSE 0
        prompt == IF offset = 0 THEN L.prompt ELSE 0
    IN  [prompt |-> prompt, text |-> SubSeq(L.text, offset + 1, Min({Len0(L), offset + L.width - prompt}))]

Draws(L) == L.dirty /\ L.prompt < L.width

(* keyboard_input, bind_exec: the keys and what is entered run the same    *)
(* commands.  The line is shown when the command is done.                  *)
Typing == line.harm = "none"
Becomes(L) ==
    /\ UNCHANGED play
    /\ line' = IF Draws(L) THEN [L EXCEPT !.dirty = FALSE, !.blank = FALSE] ELSE L
    /\ shown' = IF Draws(L) THEN View(L) ELSE shown
Runs(L) == Typing /\ Becomes(L)

Insert == /\ Typing
          /\ \E str \in play.strs \cup {<<c>> : c \in play.chars} :
                Becomes(Safe(line, input_insert(line, str)))
Delete == Runs(Safe(line, input_delete(line)))
Bkspace == Runs(Safe(line, input_bkspace(line)))
Clear == Runs(input_clear_line(line))
ClearToStart == Runs(Safe(line, input_clear_to_start(line)))
ClearToEnd == Runs(Safe(line, input_clear_to_end(line)))
RemoveSome == Typing /\ \E n \in {-2, 2} : Becomes(Safe(line, input_remove(line, n)))
PrevWord == Runs(Safe(line, input_prev_word(line)))
NextWord == Runs(Safe(line, input_next_word(line)))
ClearPrev == Runs(Safe(line, input_clear_prev_word(line)))
ClearNext == Runs(Safe(line, input_clear_next_word(line)))
Home == Runs(input_home(line))
End == Runs(input_end(line))
Left == Runs(input_move_left(line))
Right == Runs(input_move_right(line))
Prompt == Typing /\ \E n \in {0, PromptLen} : Becomes(input_set_prompt(line, n))
Complete == Runs(cmd_complete(line))
HistoryPrev == Runs(input_history_prev(line))
HistoryNext == Runs(input_history_next(line))
HistoryClear == Runs(input_history_clear(line))
Set == Typing /\ \E n \in play.lens : Becomes(SetLen(line, n))
(* SIGWINCH.                                                               *)
ResizeLine == Typing /\ \E w \in play.widths \ {line.width} : Becomes(input_resize(line, w))

(* input_send with what is on the line.  The command that it asks for runs *)
(* when the line is empty again, as the one of the next key would.         *)
Send == /\ Typing /\ line.text # <<>> /\ Len0(line) <= play.enters
        /\ Becomes(input_clear_line(input_history_add(line)))

(* input_send with an argument.  If it is too long what is on the line is  *)
(* sent, without being added to the history.  One that is empty puts the   *)
(* cursor before the prompt.                                               *)
SendArgs ==
    /\ Typing
    /\ \/ Becomes([line EXCEPT !.text = <<>>, !.cur = 0, !.begin = 0, !.blank = TRUE])
       \/ Becomes(input_clear_line(line))

InputInit ==
    /\ play \in Plays
    /\ \E n \in {0, PromptLen} :
          line = [text |-> <<>>, cur |-> n, begin |-> n, prompt |-> n, width |-> 5,
                  hist |-> <<>>, hcur |-> 0, max |-> 2, gone |-> FALSE,
                  cut |-> FALSE, blank |-> FALSE, dirty |-> TRUE, harm |-> "none"]
    /\ shown = [prompt |-> 0, text |-> <<>>]

InputNext ==
    \/ Insert \/ Delete \/ Bkspace \/ Clear \/ ClearToStart \/ ClearToEnd \/ RemoveSome
    \/ PrevWord \/ NextWord \/ ClearPrev \/ ClearNext \/ Home \/ End \/ Left \/ Right
    \/ Prompt \/ Complete \/ HistoryPrev \/ HistoryNext \/ HistoryClear \/ Set
    \/ ResizeLine \/ Send \/ SendArgs

InputSpec == InputInit /\ [][InputNext]_inputVars

-----------------------------------------------------------------------------
(* The cursor is on the line, what it is on is at its column of the screen *)
(* (input_get_cursor_pos), and the screen shows the line as it is, unless  *)
(* the prompt does not fit.  The cursor gets before the prompt, with a     *)
(* line on the screen that is not there, only when an empty string was     *)
(* sent (input_set_buf).  A line of the history is used after it was freed *)
(* only if the history was cut, and completing reads in front of the name  *)
(* of a command only if the cursor is between two blanks, or at the start  *)
(* of a line that is full.                                                 *)
InputSound ==
    /\ Pos(line) >= 0 =>
        /\ Pos(line) <= Len0(line) /\ line.begin <= line.cur
        /\ line.harm = "none" /\ ~line.dirty /\ ~line.blank =>
              /\ shown = View(line)
              /\ Pos(line) < Len0(line) =>
                    shown.text[(line.cur % line.width) - shown.prompt + 1] = At(line, Pos(line))
    /\ Pos(line) < 0 => line.text = <<>>
    /\ line.harm = "below" => Pos(line) < 0
    /\ line.harm = "freed" => line.cut
    /\ line.harm = "behind" =>
        \/ Pos(line) = 0 /\ Len0(line) = play.cap
        \/ Pos(line) > 0 /\ At(line, Pos(line) - 1) = Blank /\ At(line, Pos(line)) = Blank

(* Whatever the buffer, the prompt and the pointers do, it is a line       *)
(* editor: the other side of the cursor stays, what was typed is not       *)
(* changed by completing it, and the lines that are recalled are those     *)
(* that were entered, in their order (input_history_prev).                 *)
Split == IF Pos(line) < 0 THEN 0 ELSE Pos(line)
Editor == INSTANCE LineEdit WITH
              left <- Till(line, Split), right <- From(line, Split),
              mark <- IF line.begin <= line.prompt \/ line.begin >= line.cur
                      THEN Split ELSE line.begin - line.prompt,
              lines <- line.hist
ImplementsLineEdit == Editor!Spec
=============================================================================
