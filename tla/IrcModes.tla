------------------------------ MODULE IrcModes ------------------------------
(***************************************************************************)
(* What an IRC server tells of a session and what the client believes: the *)
(* nick that the login ends with, the modes of the user, and the modes of  *)
(* one channel with their arguments (protocols/irc/pork_irc_input.c and    *)
(* pork_irc.c).  Both directions are streams; the connection may be lost,  *)
(* and with it what is under way.                                          *)
(*                                                                         *)
(* Only the letters of a mode change say which of them have an argument,   *)
(* and the client asks the list of the server, or a list of its own, for   *)
(* it.  A nick is the number of its underscores after the one that was     *)
(* chosen; n is another member of the channel; a letter is a string, and a *)
(* list of letters a sequence.                                             *)
(***************************************************************************)
EXTENDS Integers, SequencesExt, FiniteSetsExt

CONSTANTS Servers,      \* the servers: chanmodes, whether the client hears of
                        \* them, the length of nicks, and who is taken
          Limits        \* how many changes, commands and losses there are

VARIABLES me,           \* struct pork_acct, irc_session and irc_chan_data
          srv,          \* what the server has of the user and the channel
          inq, outq,    \* messages to the client and to the server
          world,        \* the server
          past          \* not in the code: harm, and what has happened

vars == <<me, srv, inq, outq, world, past>>

NULL == "NULL"
Self == "self"
Other == "n"

Lists == {"b", "e", "I"}
Ranks == {"o", "v", "h"}

-----------------------------------------------------------------------------
(* The server.  CHANMODES has four groups: lists, those that always have   *)
(* an argument, those that have one when set, and flags.                   *)

Letters(w) == w.lists \o w.keyed \o w.counted \o w.flags

(* As the server tells them, with commas between the groups.               *)
Chanmodes(w) ==
    w.lists \o <<",">> \o w.keyed \o <<",">> \o w.counted \o <<",">> \o w.flags

TakesArg(w, op, c) ==
    \/ c \in Ranks \/ Contains(w.lists, c) \/ Contains(w.keyed, c)
    \/ op = "+" /\ Contains(w.counted, c)

HasArg(w, c) == Contains(w.keyed, c) \/ Contains(w.counted, c)

Cut(w, n) == IF n > w.nicklen THEN w.nicklen ELSE n

Tell(m) == inq' = Append(inq, m)

-----------------------------------------------------------------------------
(* The client: what it knows of letters and their arguments.               *)

(* Only the last letter of a group stands before a comma.                  *)
irc_chanmode_has_arg(s, c) ==
    IF s.chanmodes = <<>> THEN c \in {"k", "l"} \cup Lists \cup Ranks
    ELSE \E i \in 1 .. Len(s.chanmodes) - 1 :
            /\ s.chanmodes[i] = c /\ s.chanmodes[i + 1] = ","
            /\ \A j \in 1 .. i - 1 : s.chanmodes[j] # c

Arg(c, val) == [c |-> c, val |-> val]

Places(args, c) == {i \in DOMAIN args : args[i].c = c}

irc_get_chanmode_arg(args, c) ==
    IF Places(args, c) = {} THEN NULL ELSE args[Min(Places(args, c))].val

(* hash_remove takes the first that it finds.                              *)
Without(args, c) ==
    IF Places(args, c) = {} THEN args ELSE RemoveAt(args, Min(Places(args, c)))

Drop(letters, c) == SelectSeq(letters, LAMBDA d : d # c)
Add(letters, c) == IF Contains(letters, c) THEN letters ELSE Append(letters, c)

(* irc_get_chanmode: chat->mode, the letters and then their arguments.     *)
irc_get_chanmode(s) ==
    [letters |-> s.mode_str,
     args |-> SelectSeq([i \in DOMAIN s.mode_str |->
                            IF irc_chanmode_has_arg(s, s.mode_str[i])
                            THEN irc_get_chanmode_arg(s.mode_args, s.mode_str[i]) ELSE NULL],
                        LAMBDA v : v # NULL)]

-----------------------------------------------------------------------------
(* A change of modes: h has the state s of the client, the place i of the  *)
(* next argument, and harm once an argument is used that is not there.     *)

Token(args, i) == IF i <= Len(args) THEN args[i] ELSE NULL

GivenRank(h, op, c, args) ==
    LET user == Token(args, h.i)
        t    == [h EXCEPT !.i = @ + 1]
    IN  IF user = NULL THEN [t EXCEPT !.harm = TRUE]
        ELSE IF user # Other THEN t
        ELSE IF op = "+" THEN [t EXCEPT !.s.status = @ \cup {c}]
        ELSE [t EXCEPT !.s.status = @ \ {c}]

(* mutant of GivenArg: an argument is looked for behind every letter       *)
LimitTakesArg(h, op, c, args) ==
    IF ~irc_chanmode_has_arg(h.s, c) THEN h
    ELSE IF op = "+"
    THEN [h EXCEPT !.i = @ + 1, !.harm = @ \/ Token(args, h.i) = NULL,
                   !.s.mode_args = <<Arg(c, Token(args, h.i))>>
                                      \o (IF c = "l" THEN Without(@, c) ELSE @)]
    ELSE [h EXCEPT !.i = @ + 1, !.s.mode_args = Without(@, c)]

(* A limit is replaced, and taken away without an argument.                *)
GivenArg(h, op, c, args) ==
    IF ~irc_chanmode_has_arg(h.s, c) THEN h
    ELSE IF op = "+"
    THEN [h EXCEPT !.i = @ + 1, !.harm = @ \/ Token(args, h.i) = NULL,
                   !.s.mode_args = <<Arg(c, Token(args, h.i))>>
                                      \o (IF c = "l" THEN Without(@, c) ELSE @)]
    ELSE [h EXCEPT !.i = IF c = "l" THEN @ ELSE @ + 1, !.s.mode_args = Without(@, c)]

GivenMode(h, op, c, args) ==
    LET t == GivenArg(h, op, c, args)
    IN  [t EXCEPT !.s.mode_str = IF op = "+" THEN Add(@, c) ELSE Drop(@, c)]

Given(h, op, c, args) ==
    IF c \in Lists THEN [h EXCEPT !.i = @ + 1]
    ELSE IF c \in Ranks THEN GivenRank(h, op, c, args)
    ELSE GivenMode(h, op, c, args)

irc_handler_chan_mode(s, m) ==
    LET h == FoldLeft(LAMBDA g, x : Given(g, x[1], x[2], m.args),
                      [s |-> s, i |-> 1, harm |-> FALSE], m.changes)
    IN  [h EXCEPT !.s.mode = irc_get_chanmode(h.s)]

(* irc_handler_324: the letters and arguments that are in force now.       *)
irc_handler_324(s, m) ==
    LET h == FoldLeft(LAMBDA g, c :
                 IF irc_chanmode_has_arg(s, c) /\ g.i <= Len(m.args)
                 THEN [g EXCEPT !.i = @ + 1, !.args = <<Arg(c, m.args[g.i])>> \o @] ELSE g,
                 [i |-> 1, args |-> <<>>], m.letters)
    IN  [s EXCEPT !.mode = [letters |-> m.letters, args |-> m.args],
                  !.mode_str = m.letters, !.mode_args = h.args]

irc_handler_user_mode(s, changes) ==
    [s EXCEPT !.umode = FoldLeft(LAMBDA u, x : IF x[1] = "+" THEN Add(u, x[2]) ELSE Drop(u, x[2]),
                                 @, changes)]

(* irc_handler_005: PREFIX is compared from its own P, and ends the loop.  *)
irc_handler_005(s) ==
    LET told == [s EXCEPT !.chanmodes = Chanmodes(world)]
    IN  CASE world.isupport = "chanmodes first" -> [told EXCEPT !.nick_len = world.nicklen]
          [] world.isupport = "prefix first"    -> s
          [] world.isupport = "none"            -> s

-----------------------------------------------------------------------------
(* The nick and the login.                                                 *)

(* irc_change_nick: a nick that is too long is not asked for.              *)
Fits(n) == me.nick_len = 0 \/ n <= me.nick_len

irc_change_nick(n) ==
    IF Fits(n)
    THEN /\ me' = IF me.online THEN me ELSE [me EXCEPT !.nick = n]
         /\ outq' = Append(outq, [cmd |-> "NICK", nick |-> n])
    ELSE UNCHANGED <<me, outq>>

(* mutant of irc_handler_433: the same nick again                          *)
SameNick(m) ==
    IF me.online THEN UNCHANGED <<me, outq>> ELSE irc_change_nick(m.nick)

irc_handler_433(m) ==
    IF me.online THEN UNCHANGED <<me, outq>> ELSE irc_change_nick(m.nick + 1)

(* irc_rejoin, with the key that is known.                                 *)
irc_rejoin == [cmd |-> "JOIN", key |-> irc_get_chanmode_arg(me.mode_args, "k")]

(* irc_handler_001 gives the user his modes again.                         *)
irc_handler_001(m) ==
    /\ me' = [me EXCEPT !.online = TRUE, !.nick = m.nick]
    /\ outq' = outq \o (IF me.chat THEN <<irc_rejoin>> ELSE <<>>)
                    \o (IF me.umode = <<>> THEN <<>>
                        ELSE <<[cmd |-> "UMODE", nick |-> m.nick, letters |-> ToSet(me.umode)]>>)

(* irc_handler_nick: only his own nick is changed here.                    *)
irc_handler_nick(m) ==
    /\ me' = IF me.nick = m.old THEN [me EXCEPT !.nick = m.nick] ELSE me
    /\ UNCHANGED outq

(* irc_handler_join: the chat is new or the one of an earlier connection.  *)
(* Names follow (irc_handler_353), and stop at one that is known.          *)
irc_handler_join(m) ==
    /\ me' = [me EXCEPT !.chat = TRUE,
                        !.status = IF ~me.chat \/ m.first = Other THEN m.status ELSE @]
    /\ outq' = Append(outq, [cmd |-> "MODE"])

-----------------------------------------------------------------------------
(* Messages to the client.                                                 *)

(* A change whose argument the client does not expect, or expects where    *)
(* there is none, or of a list that it takes for a mode of the channel.    *)
Odd(op, c) ==
    /\ c \notin Lists \cup Ranks
    /\ \/ Contains(world.lists, c)
       \/ TakesArg(world, op, c)
             # (irc_chanmode_has_arg(me, c) /\ ~(op = "-" /\ c = "l"))

Noted(what) == past' = [past EXCEPT !.seen = @ \cup what]

irc_handler_mode(m) ==
    LET h == irc_handler_chan_mode(me, m)
        odd == \E x \in ToSet(m.changes) : Odd(x[1], x[2])
    IN  /\ me' = IF me.chat THEN h.s ELSE me
        /\ past' = [past EXCEPT !.seen = @ \cup (IF me.chat /\ odd THEN {"odd", "shifted"} ELSE {}),
                                !.harm = @ \cup (IF me.chat /\ h.harm THEN {"null"} ELSE {})]
        /\ UNCHANGED outq

(* irc_handler_302 goes on with the next chat if the user is in this one,  *)
(* and looks at this one for ever if not: the client does nothing more.    *)
irc_handler_302(m) ==
    /\ past' = [past EXCEPT !.harm = @ \cup (IF me.chat /\ ~m.here THEN {"hangs"} ELSE {})]
    /\ UNCHANGED <<me, outq>>

Modes(m) ==
    /\ me' = IF ~me.chat THEN me ELSE irc_handler_324(me, m)
    /\ past' = [past EXCEPT !.seen = (@ \ {"odd"}) \cup
                                     (IF \E c \in ToSet(m.letters) : Odd("+", c) THEN {"odd"} ELSE {})]
    /\ UNCHANGED outq

ToMe(m, A) == (IF m.nick = me.nick THEN A ELSE UNCHANGED me) /\ UNCHANGED outq

Heard(m) ==
    CASE m.cmd = "433"   -> irc_handler_433(m) /\ UNCHANGED past
      [] m.cmd = "001"   -> irc_handler_001(m) /\ UNCHANGED past
      [] m.cmd = "005"   -> me' = irc_handler_005(me) /\ UNCHANGED <<outq, past>>
      [] m.cmd = "NICK"  -> irc_handler_nick(m) /\ UNCHANGED past
      [] m.cmd = "JOIN"  -> irc_handler_join(m) /\ Noted(IF me.chat THEN {"rejoined"} ELSE {})
      [] m.cmd = "324"   -> Modes(m)
      [] m.cmd = "MODE"  -> irc_handler_mode(m)
      [] m.cmd = "302"   -> irc_handler_302(m)
      [] m.cmd = "UMODE" -> ToMe(m, me' = irc_handler_user_mode(me, m.changes)) /\ UNCHANGED past
      [] m.cmd = "221"   -> ToMe(m, me' = [me EXCEPT !.umode = SetToSeq(m.letters)])
                               /\ UNCHANGED past

Running == past.harm = {}

Receive ==
    /\ Running /\ inq # <<>> /\ inq' = Tail(inq)
    /\ Heard(Head(inq)) /\ UNCHANGED <<srv, world>>

-----------------------------------------------------------------------------
(* The server answers.                                                     *)

Registered == srv.nick # -1

Nick(m) ==
    LET n == Cut(world, m.nick)
    IN  IF n \in world.taken
        THEN Tell([cmd |-> "433", nick |-> n]) /\ UNCHANGED srv
        ELSE /\ srv' = [srv EXCEPT !.nick = n]
             /\ IF Registered THEN Tell([cmd |-> "NICK", old |-> srv.nick, nick |-> n])
                ELSE inq' = inq \o <<[cmd |-> "001", nick |-> n], [cmd |-> "005"]>>

(* A user may not make himself an operator.                                *)
Umode(m) ==
    LET new == m.letters \ (srv.umode \cup {"o"})
    IN  IF new = {} THEN UNCHANGED <<srv, inq>>
        ELSE /\ srv' = [srv EXCEPT !.umode = @ \cup new]
             /\ Tell([cmd |-> "UMODE", nick |-> srv.nick,
                      changes |-> SetToSeq({<<"+", c>> : c \in new})])

Join(m) ==
    IF ~Registered \/ srv.joined \/ ("k" \in srv.modes /\ m.key # srv.arg["k"])
    THEN UNCHANGED <<srv, inq>>
    ELSE /\ srv' = [srv EXCEPT !.joined = TRUE]
         /\ \E first \in {Self, Other} :
               Tell([cmd |-> "JOIN", first |-> first, status |-> srv.status])

(* The letters that are in force, and the arguments of those that have one. *)
Mode(m) ==
    /\ UNCHANGED srv
    /\ IF ~srv.joined THEN UNCHANGED inq
       ELSE LET letters == SelectSeq(Letters(world), LAMBDA c : c \in srv.modes)
                valued  == SelectSeq(letters, LAMBDA c : HasArg(world, c))
            IN  Tell([cmd |-> "324", letters |-> letters,
                      args |-> [i \in DOMAIN valued |-> srv.arg[valued[i]]]])

Query == UNCHANGED srv /\ Tell([cmd |-> "221", nick |-> srv.nick, letters |-> srv.umode])

Userhost(m) == UNCHANGED srv /\ Tell([cmd |-> "302", here |-> m.here])

Serve ==
    /\ outq # <<>> /\ outq' = Tail(outq)
    /\ LET m == Head(outq)
       IN  CASE m.cmd = "NICK"     -> Nick(m)
             [] m.cmd = "JOIN"     -> Join(m)
             [] m.cmd = "MODE"     -> Mode(m)
             [] m.cmd = "UMODE"    -> Umode(m)
             [] m.cmd = "QUERY"    -> Query
             [] m.cmd = "USERHOST" -> Userhost(m)
    /\ UNCHANGED <<me, world, past>>

-----------------------------------------------------------------------------
(* Others change the modes of the channel.                                 *)

Values(c) == IF HasArg(world, c) THEN {"1", "2"} ELSE {NULL}

(* What a change may be; the key has to be taken away to be changed.       *)
Effective(x) ==
    LET op == x[1]
        c  == x[2]
    IN  \/ Contains(world.lists, c)
        \/ c \in Ranks /\ (op = "+" <=> c \notin srv.status)
        \/ op = "+" /\ c \notin srv.modes
        \/ op = "+" /\ Contains(world.counted, c) /\ x[3] # srv.arg[c]
        \/ op = "-" /\ c \in srv.modes /\ (x[3] = NULL \/ x[3] = srv.arg[c])

Said(c) ==
    IF c \in Ranks THEN {Other} ELSE IF Contains(world.lists, c) THEN {"mask"} ELSE Values(c)

ChangesOf(op, c) ==
    {<<op, c, v>> : v \in IF TakesArg(world, op, c) THEN Said(c) ELSE {NULL}}

Changes ==
    {x \in UNION {ChangesOf(op, c) : op \in {"+", "-"},
                                    c \in ToSet(Letters(world)) \cup {"o"}} :
        Effective(x)}

Applied(s, x) ==
    LET op == x[1]
        c  == x[2]
    IN  IF Contains(world.lists, c) THEN s
        ELSE IF c \in Ranks
        THEN [s EXCEPT !.status = IF op = "+" THEN @ \cup {c} ELSE @ \ {c}]
        ELSE IF op = "-" THEN [s EXCEPT !.modes = @ \ {c}]
        ELSE [s EXCEPT !.modes = @ \cup {c},
                       !.arg = [d \in DOMAIN @ \cup {c} |-> IF d = c THEN x[3] ELSE @[d]]]

Spend(what) ==
    /\ past.left[what] > 0
    /\ past' = [past EXCEPT !.left[what] = @ - 1]

Announce(xs) ==
    /\ srv' = IF Len(xs) = 1 THEN Applied(srv, xs[1]) ELSE Applied(Applied(srv, xs[1]), xs[2])
    /\ IF ~srv.joined THEN UNCHANGED inq
       ELSE Tell([cmd |-> "MODE", changes |-> [i \in DOMAIN xs |-> <<xs[i][1], xs[i][2]>>],
                  args |-> SelectSeq([i \in DOMAIN xs |-> xs[i][3]], LAMBDA v : v # NULL)])

(* One message has one change or two, of different letters, if the user is *)
(* there to hear it.                                                       *)
OthersChange ==
    /\ Running /\ Spend("changes")
    /\ LET C == Changes
       IN  \E x, y \in C : /\ IF srv.joined THEN x[2] = y[2] => x = y ELSE x = y
                           /\ Announce(IF x = y THEN <<x>> ELSE <<x, y>>)
    /\ UNCHANGED <<me, outq, world>>

(* The server makes the user an operator, or takes it away.                *)
Oper ==
    /\ Running /\ Registered /\ Spend("changes")
    /\ LET op == IF "o" \in srv.umode THEN "-" ELSE "+"
       IN  /\ srv' = [srv EXCEPT !.umode = IF op = "+" THEN @ \cup {"o"} ELSE @ \ {"o"}]
           /\ Tell([cmd |-> "UMODE", nick |-> srv.nick, changes |-> <<<<op, "o">>>>])
    /\ UNCHANGED <<me, outq, world>>

-----------------------------------------------------------------------------
(* The user and the connection.                                            *)

(* "nick", at any time, also during the login.                             *)
cmd_nick ==
    /\ Running /\ srv.up /\ Spend("commands")
    /\ \E n \in 0 .. 1 : irc_change_nick(n)
    /\ UNCHANGED <<srv, inq, world>>

(* "join", "mode" with or without letters, "quote userhost".               *)
Ask(m) ==
    /\ Running /\ me.online /\ srv.up /\ Spend("commands")
    /\ outq' = Append(outq, m)
    /\ UNCHANGED <<me, srv, inq, world>>

cmd_join == ~me.chat /\ Ask([cmd |-> "JOIN", key |-> "1"])
irc_cmd_mode ==
    \/ Ask([cmd |-> "QUERY"]) \/ Ask([cmd |-> "UMODE", nick |-> me.nick, letters |-> {"i"}])
irc_cmd_quote == \E here \in BOOLEAN : Ask([cmd |-> "USERHOST", here |-> here])

(* irc_send_login.                                                         *)
Connect ==
    /\ Running /\ ~srv.up
    /\ srv' = [srv EXCEPT !.up = TRUE]
    /\ outq' = <<[cmd |-> "NICK", nick |-> me.nick]>>
    /\ UNCHANGED <<me, inq, world, past>>

Lost ==
    /\ Running /\ srv.up /\ Spend("losses")
    /\ srv' = [srv EXCEPT !.up = FALSE, !.nick = -1, !.umode = {}, !.joined = FALSE]
    /\ me' = [me EXCEPT !.online = FALSE]
    /\ inq' = <<>> /\ outq' = <<>> /\ UNCHANGED world

Init ==
    /\ world \in Servers
    /\ me = [online |-> FALSE, nick |-> 0, umode |-> <<>>, chanmodes |-> <<>>, nick_len |-> 0,
             chat |-> FALSE, mode_str |-> <<>>, mode_args |-> <<>>, status |-> {},
             mode |-> [letters |-> <<>>, args |-> <<>>]]
    /\ srv = [up |-> FALSE, nick |-> -1, umode |-> {}, joined |-> FALSE, status |-> {},
              modes |-> {}, arg |-> [c \in {} |-> NULL]]
    /\ inq = <<>> /\ outq = <<>>
    /\ past \in [harm : {{}}, seen : {{}}, left : Limits]

Next ==
    \/ Receive \/ Serve \/ OthersChange \/ Oper \/ Connect \/ Lost
    \/ cmd_nick \/ cmd_join \/ irc_cmd_mode \/ irc_cmd_quote

(* During the login both sides go on.                                      *)
Reads   == ~me.online /\ Receive
Answers == ~me.online /\ Serve

Spec == Init /\ [][Next]_vars /\ WF_vars(Reads) /\ WF_vars(Answers)

-----------------------------------------------------------------------------
Quiet == Running /\ inq = <<>> /\ outq = <<>> /\ me.online /\ srv.up

(* When nothing is under way the modes of the channel, their arguments and *)
(* the ranks are those of the server, unless a letter came whose argument  *)
(* the client did not expect; the next answer to MODE mends all but the    *)
(* ranks, which only a first answer to NAMES gives (irc_handler_chan_mode, *)
(* irc_handler_324).                                                       *)
ChannelAgrees ==
    Quiet /\ me.chat /\ srv.joined =>
       /\ "odd" \notin past.seen =>
             /\ ToSet(me.mode_str) = srv.modes
             /\ \A c \in srv.modes : HasArg(world, c) =>
                   irc_get_chanmode_arg(me.mode_args, c) = srv.arg[c]
             /\ \A i \in DOMAIN me.mode_args : me.mode_args[i].c \in srv.modes
             /\ me.mode.letters = me.mode_str
             /\ ToSet(me.mode.args) = {srv.arg[c] : c \in {d \in srv.modes : HasArg(world, d)}}
       /\ past.seen \cap {"shifted", "rejoined"} = {} => me.status = srv.status

(* The user is who the server says he is, and has the modes that it gave,  *)
(* but for those that it gives nobody again (irc_handler_001).             *)
UserAgrees ==
    Quiet => /\ me.nick = srv.nick
             /\ srv.umode \subseteq ToSet(me.umode)
             /\ ToSet(me.umode) \ srv.umode \subseteq {"o"}

(* An argument that is not there is read only when a letter was not        *)
(* understood, which the classic letters never are                         *)
(* (irc_handler_chan_mode).                                                *)
Understood ==
    /\ "null" \in past.harm => "shifted" \in past.seen
    /\ world.classic => past.seen \cap {"odd", "shifted"} = {}

ModesSound == ChannelAgrees /\ UserAgrees /\ Understood

(* A login ends, however many nicks are taken, unless the longest nick of  *)
(* the server is among them: then it is asked for again and again, or, if  *)
(* its length is known, no more (irc_handler_433, irc_change_nick).        *)
LoginEnds ==
    srv.up /\ ~me.online
       ~> me.online \/ ~srv.up \/ ~Running \/ world.nicklen \in world.taken
=============================================================================
