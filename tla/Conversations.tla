--------------------------- MODULE Conversations ---------------------------
(***************************************************************************)
(* What is said: pork_msg.c, the messages, topics, modes and invitations   *)
(* of pork_chat.c, and the handlers of the two protocols that call them.   *)
(*                                                                         *)
(* One correspondent, with a query window or none, and one chat, with its  *)
(* window and one other member.  Every operation runs the scripts that     *)
(* wait for its event (event_generate) in the middle, and uses afterwards  *)
(* what it looked up before.  A script may take the event over, open or    *)
(* close the query window, go away and come back, leave the chat or close  *)
(* its window; scripts run by these only take the event over, or not.      *)
(* Formats do not come out empty (IrcRoster says what happens then).       *)
(***************************************************************************)
EXTENDS Integers, Sequences

CONSTANTS Delay,      \* 600 seconds, in ticks
          Spellings,  \* ways to write the name of the correspondent that fall
                      \* into different buckets of the hash
          Manners     \* the protocol (aim), DUMP_MSGS_TO_STATUS (dump),
                      \* SEND_REMOVES_AWAY (back), CTCP_BLOCK_LEAKS (leaks),
                      \* whether there are scripts (scripts), and what it is
                      \* about: a person or a chat

(* A spelling, a time, and options that are on or off.                     *)
ASSUME SpellingsAssumption == Spellings # {}
ASSUME DelayAssumption == Delay \in Nat
ASSUME MannersAssumption ==
    \A m \in Manners : /\ {m.aim, m.dump, m.back, m.leaks, m.scripts} \subseteq BOOLEAN
                       /\ m.about \in {"person", "chat"}

VARIABLES manner, now

talkVars == <<manner, now>>

None == "none"
Back == "back"

(* The window a line belongs to.                                           *)
Home(s, what) ==
    IF s.query # None THEN s.query
    ELSE IF what = "notice" THEN "status"
    ELSE IF what \in {"notice sent", "warn sent"} THEN "current"
    ELSE "status"

Harm(s, what) == [s EXCEPT !.harm = @ \cup {what}]

-----------------------------------------------------------------------------
(* Away.  What the server has follows unless there is no connection or the *)
(* message is too long; IRC queues what is set before there is one, and    *)
(* restores it in any case.                                                *)

ToServer(s, m) == IF s.online /\ m # "long" THEN [s EXCEPT !.server = m] ELSE s

Fresh == [sp \in Spellings |-> -1]

Gone(s, m) == ToServer([s EXCEPT !.away = m, !.hash = Fresh, !.replied.age = -1], m)

(* mutant of Returned: what the server has is not changed                  *)
ReturnedHere(s) == [s EXCEPT !.away = Back]

(* The hash is left alone if the protocol fails; the next away makes a     *)
(* new one.                                                                *)
Returned(s) ==
    IF s.away = Back THEN s
    ELSE ToServer([s EXCEPT !.away = Back, !.hash = IF manner.aim /\ ~s.online THEN @ ELSE Fresh],
                  Back)

-----------------------------------------------------------------------------
(* Windows and the chat, and what scripts do to them.  meanwhile is what   *)
(* has been opened or freed since the operation began.                     *)

Made(s) == IF "query" \in s.meanwhile THEN "second" ELSE "first"

Open(s) ==
    IF s.query # None THEN s ELSE [s EXCEPT !.query = Made(s), !.meanwhile = @ \cup {"opened"}]

Close(s) == IF s.query = None THEN s ELSE [s EXCEPT !.query = None, !.meanwhile = @ \cup {"query"}]

(* chat_free.                                                              *)
chat_free(s) ==
    IF s.chat = "gone" THEN Harm(s, "chat_free")
    ELSE [s EXCEPT !.chat = None, !.member = FALSE, !.ignored = FALSE, !.meanwhile = @ \cup {"chat"}]

ClosedChatWin(s) == [s EXCEPT !.chatwin = FALSE, !.meanwhile = @ \cup {"chatwin"}]

(* chat_leave, the rest of it when its scripts have run.                   *)
Left(s, close) ==
    LET t == IF close THEN ClosedChatWin(s) ELSE s
    IN  IF "chat" \in s.meanwhile \/ s.chat = "gone" THEN Harm(s, "chat_leave")
        ELSE [t EXCEPT !.chat = None, !.member = FALSE, !.ignored = FALSE,
                       !.meanwhile = @ \cup {"chat"}]

(* chat_leave from a script: the event may be taken over.                  *)
LeftByScript(s) == IF s.chat = None THEN {s} ELSE {s, Left(s, TRUE)}

(* screen_close_window for the window of the chat: if leaving is taken     *)
(* over the chat goes on without its window.                               *)
CloseChatWin(s) ==
    IF ~s.chatwin THEN {s}
    ELSE IF s.chat # "there" THEN {ClosedChatWin(s)}
    ELSE {ClosedChatWin(Left(s, FALSE))}
         \cup (IF manner.scripts THEN {[ClosedChatWin(s) EXCEPT !.chat = "gone"]} ELSE {})

Did(s) ==
    {s} \cup (IF ~manner.scripts THEN {}
              ELSE IF manner.about = "person" THEN {Open(s), Close(s), Gone(s, "short"), Returned(s)}
              ELSE LeftByScript(s) \cup CloseChatWin(s))

(* event_generate: what the scripts leave, and whether one took it over.   *)
Event(s) == [s : Did(s), takes : IF manner.scripts THEN BOOLEAN ELSE {FALSE}]

-----------------------------------------------------------------------------
(* Lines on the screen.                                                    *)

Line(what, right) == [what |-> what, right |-> right]

(* screen_print_str in a window that was looked up, as w, before.          *)
ShowIn(s, w, what) ==
    IF w \in {"first", "second"} \ {s.query} THEN Harm(s, what)
    ELSE [s EXCEPT !.shown = Append(@, Line(what, w = Home(s, what)))]

(* and in the window of the chat                                           *)
ShowInChat(s, what) ==
    IF "chat" \in s.meanwhile \/ s.chat = "gone" THEN Harm(s, what)
    ELSE [s EXCEPT !.shown = Append(@, Line(what, TRUE))]

(* and in the status or the current window, what belongs to no one.        *)
Elsewhere(s, what) == [s EXCEPT !.shown = Append(@, Line(what, TRUE))]

Send(s, what) == [s EXCEPT !.sent = Append(@, what)]

(* screen_get_query_window, and imwindow_find with another place to go to. *)
QueryWindow(s) == IF manner.dump \/ s.query # None THEN s ELSE [s EXCEPT !.query = Made(s)]

FindOr(s, other) == IF s.query # None THEN s.query ELSE other

Place(s) == FindOr(s, "status")

-----------------------------------------------------------------------------
Early(s, sp) == s.replied.sp = sp /\ s.replied.age \in 0 .. Delay - 1

(* mutant of pork_msg_send_auto: the time of the last one is not brought   *)
(* up to date                                                              *)
SendAutoOnce(s, sp) ==
    IF ~manner.aim THEN s
    ELSE IF s.hash[sp] \in 0 .. Delay - 1 THEN s
    ELSE [QueryWindow(s) EXCEPT !.hash[sp] = IF @ = -1 THEN 0 ELSE @,
              !.replied = [age |-> 0, sp |-> sp], !.sent = Append(@, "auto"),
              !.shown = Append(@, Line("auto", TRUE)),
              !.past = IF Early(s, sp) THEN @ \cup {"early"} ELSE @]

(* pork_msg_autoreply, if the protocol can: AIM.                           *)
pork_msg_autoreply(s) ==
    IF ~manner.aim \/ ~s.online THEN s
    ELSE LET t == QueryWindow(Send(s, "auto")) IN ShowIn(t, Place(t), "auto")

(* pork_msg_send_auto, and what becomes of the pace.                       *)
pork_msg_send_auto(s, sp) ==
    IF ~manner.aim \/ s.hash[sp] \in 0 .. Delay - 1 THEN s
    ELSE pork_msg_autoreply(
            [s EXCEPT !.hash[sp] = 0, !.replied = [age |-> 0, sp |-> sp],
                !.past = IF Early(s, sp) THEN @ \cup {"early"} ELSE @])

pork_set_away(s, m) == {IF r.takes THEN r.s ELSE Gone(r.s, m) : r \in Event(s)}

pork_set_back(s) == {IF r.takes THEN r.s ELSE Returned(r.s) : r \in Event(s)}

(* aim_set_profile: to clear it is refused by aim_locate_setprofile, which *)
(* wants an encoding.                                                      *)
ProfileServed(s, p) ==
    [s EXCEPT !.served = IF s.online /\ manner.aim /\ p # None THEN p ELSE @,
              !.past = IF p = None THEN @ \cup {"cleared"} ELSE @ \ {"cleared"}]

pork_set_profile(s, p) ==
    {IF r.takes THEN r.s ELSE ProfileServed([r.s EXCEPT !.profile = p], p) : r \in Event(s)}

(* aim_set_idle: only what the server is told is remembered.               *)
ToldIdle(s, on) ==
    IF ~s.online THEN s
    ELSE [s EXCEPT !.idle = on, !.servedidle = on, !.past = @ \ {"relogged"}]

(* pork_set_idle_time.                                                     *)
pork_set_idle(s, on) == {IF r.takes THEN r.s ELSE ToldIdle(r.s, on) : r \in Event(s)}

(* keyboard_input, when REPORT_IDLE is set.  Nothing marks an account idle *)
(* by itself: acct->report_idle, which pork_acct_update asks for, is never *)
(* set.                                                                    *)
keyboard_input(s) == IF s.online /\ s.idle THEN ToldIdle(s, FALSE) ELSE s

-----------------------------------------------------------------------------
(* The correspondent.                                                      *)

pork_recv_msg(s, sp, auto) ==
    LET t == QueryWindow(s)
    IN  {IF r.takes THEN r.s
         ELSE LET u == ShowIn(r.s, Place(t), "msg")
              IN  IF u.away # Back /\ ~auto THEN pork_msg_send_auto(u, sp) ELSE u : r \in Event(t)}

pork_recv_action(s) ==
    {IF r.takes THEN r.s
     ELSE LET u == QueryWindow(r.s) IN ShowIn(u, Place(u), "action") : r \in Event(s)}

(* mutant of pork_recv_notice: the window is not looked for                *)
NoticeInStatus(s) == {IF r.takes THEN r.s ELSE ShowIn(r.s, "status", "notice") : r \in Event(s)}

(* The window, and its format, are chosen before the scripts run.          *)
pork_recv_notice(s) ==
    {IF r.takes THEN r.s ELSE ShowIn(r.s, FindOr(s, "status"), "notice") : r \in Event(s)}

(* To whom, when it is typed in the query window, is read from the window. *)
Dangling(s, typed) == typed /\ "query" \in s.meanwhile

Said(s, typed, what) ==
    IF Dangling(s, typed) THEN Harm(s, what)
    ELSE LET t == QueryWindow(s) IN ShowIn(t, Place(t), what)

pork_msg_send(s, typed) ==
    UNION {IF r.takes THEN {r.s}
           ELSE IF Dangling(r.s, typed) THEN {Harm(r.s, "sent")}
           ELSE {r.s} \cup
                {Said(t, typed, "sent") :
                    t \in IF r.s.away # Back /\ manner.back THEN pork_set_back(Send(r.s, "sent"))
                          ELSE {Send(r.s, "sent")}}
           : r \in Event(s)}

pork_action_send(s, typed) ==
    UNION {IF r.takes THEN {r.s}
           ELSE IF Dangling(r.s, typed) THEN {Harm(r.s, "action sent")}
           ELSE {r.s, Said(Send(r.s, "action sent"), typed, "action sent")} : r \in Event(s)}

(* pork_notice_send: nothing is handed to the protocol.                    *)
pork_notice_send(s) ==
    {IF r.takes THEN r.s ELSE ShowIn(r.s, FindOr(s, "current"), "notice sent") : r \in Event(s)}

pork_send_warn(s) ==
    UNION {IF r.takes THEN {r.s}
           ELSE {r.s, ShowIn(Send(r.s, "warn sent"), FindOr(r.s, "current"), "warn sent")}
           : r \in Event(s)}

(* The same, by another call of the protocol.                              *)
pork_send_warn_anon(s) == pork_send_warn(s)

pork_recv_warn(s) ==
    {IF r.takes THEN r.s ELSE ShowIn(r.s, FindOr(r.s, "status"), "warn") : r \in Event(s)}

pork_recv_warn_anon(s) == {IF r.takes THEN r.s ELSE Elsewhere(r.s, "warn anon") : r \in Event(s)}

-----------------------------------------------------------------------------
(* The chat.                                                               *)

(* An event, and then something that uses the chat as it was found.        *)
InChat(s, what) == {IF r.takes THEN r.s ELSE ShowInChat(r.s, what) : r \in Event(s)}

(* chat_send_msg, chat_send_notice, chat_send_action: the protocol is      *)
(* given the chat, and may refuse.                                         *)
chat_send(s, what) ==
    UNION {IF r.takes THEN {r.s}
           ELSE IF "chat" \in r.s.meanwhile THEN {Harm(r.s, what)}
           ELSE {r.s, ShowInChat(Send(r.s, what), what)} : r \in Event(s)}

(* mutant of chat_recv: who is ignored is heard                            *)
RecvFromAll(s, what) == InChat(s, what)

(* chat_recv_msg, chat_recv_notice, chat_recv_action.                      *)
chat_recv(s, what) ==
    {IF r.takes THEN r.s
     ELSE IF "chat" \in r.s.meanwhile THEN Harm(r.s, what)
     ELSE IF r.s.member /\ r.s.ignored THEN r.s
     ELSE ShowInChat(r.s, what) : r \in Event(s)}

(* chat_ignore and chat_unignore, which then say so.                       *)
chat_ignore(s, on) ==
    IF ~s.member THEN s ELSE ShowInChat([s EXCEPT !.ignored = on], "ignoring")

(* chat_user_joined.                                                       *)
user_joined(s) ==
    IF s.member THEN {s}
    ELSE InChat([s EXCEPT !.member = TRUE, !.ignored = FALSE], "joined")

(* chat_user_left: the member is looked up before the scripts run.         *)
chat_user_left(s, silent) ==
    {LET t == IF r.takes \/ silent THEN r.s ELSE ShowInChat(r.s, "left")
     IN  IF "chat" \in t.meanwhile THEN Harm(t, "left")
         ELSE [t EXCEPT !.member = FALSE, !.ignored = FALSE] : r \in Event(s)}

(* chat_user_quit, whose user may be gone with the chat.                   *)
chat_user_quit(s) ==
    UNION {LET t == IF r.takes THEN r.s ELSE ShowInChat(r.s, "quit")
           IN  IF "chat" \in t.meanwhile THEN {Harm(t, "quit")} ELSE chat_user_left(t, TRUE)
           : r \in Event(s)}

chat_user_kicked(s) ==
    UNION {LET t == IF r.takes THEN r.s ELSE ShowInChat(r.s, "kicked")
           IN  IF "chat" \in t.meanwhile THEN {Harm(t, "kicked")} ELSE chat_user_left(t, TRUE)
           : r \in Event(s)}

(* chat_forced_leave: the one that is kicked is the user, who is not the   *)
(* member that is followed here.                                           *)
chat_forced_leave(s) ==
    {IF "chat" \in t.meanwhile THEN Harm(t, "forced leave")
     ELSE chat_free([t EXCEPT !.meanwhile = {}])
     : t \in UNION {{u.s : u \in Event(IF r.takes THEN r.s ELSE ShowInChat(r.s, "kicked"))}
                    : r \in Event(s)}}

(* chat_leave.                                                             *)
chat_leave(s) ==
    UNION {IF r.takes THEN {r.s} ELSE {r.s, Left(r.s, TRUE)} : r \in Event(s)}

(* chat_join, which goes to the window it found or made.                   *)
chat_join(s) ==
    {IF "chatwin" \in r.s.meanwhile THEN Harm(r.s, "join") ELSE r.s
     : r \in Event([s EXCEPT !.chatwin = TRUE])}

(* irc_handler_join and chat_new, when the server says so.                 *)
chat_new(s) == [s EXCEPT !.chat = "there"]

chat_got_topic(s) == InChat(s, "topic")
chat_got_mode(s)  == InChat(s, "mode")

(* chat_invite, which the protocol may refuse.                             *)
chat_invite(s) ==
    UNION {IF r.takes THEN {r.s}
           ELSE IF "chat" \in r.s.meanwhile THEN {Harm(r.s, "invite")}
           ELSE {r.s, ShowInChat(r.s, "invite")} : r \in Event(s)}

(* chat_got_invite: there is no chat yet.                                  *)
chat_got_invite(s) == {IF r.takes THEN r.s ELSE Elsewhere(r.s, "invited") : r \in Event(s)}

(* chat_kick only hands it to the protocol.                                *)
chat_kick(s) ==
    {IF ~r.takes /\ "chat" \in r.s.meanwhile THEN Harm(r.s, "kick") ELSE r.s : r \in Event(s)}

(* chat_set_topic, for a chat that may be NULL.                            *)
chat_set_topic(s) ==
    IF s.chat = None THEN {Harm(s, "no chat")}
    ELSE {IF ~r.takes /\ "chat" \in r.s.meanwhile THEN Harm(r.s, "set topic") ELSE r.s : r \in Event(s)}

-----------------------------------------------------------------------------
TalkInit ==
    /\ manner \in Manners
    /\ now = [query |-> None, chat |-> None, chatwin |-> FALSE, member |-> FALSE,
              ignored |-> FALSE, online |-> TRUE, away |-> Back, server |-> Back,
              profile |-> None, served |-> None, idle |-> FALSE, servedidle |-> FALSE, hash |-> Fresh,
              replied |-> [age |-> -1, sp |-> CHOOSE sp \in Spellings : TRUE],
              shown |-> <<>>, sent |-> <<>>, meanwhile |-> {}, harm |-> {}, past |-> {}]

Start == [now EXCEPT !.query = IF @ = None THEN None ELSE "first", !.meanwhile = {}, !.shown = <<>>, !.sent = <<>>]

Becomes(S) == now.harm = {} /\ now' \in S /\ UNCHANGED manner

Person == manner.about = "person"

SaidInChat == {"chat msg", "chat notice", "chat action"}

(* irc_handler_ctcp_version, _time and _echo answer if CTCP_BLOCK_LEAKS is *)
(* set; then irc_handler_privmsg tells of the request.                     *)
Ctcp(s, toMe) ==
    LET t == IF manner.leaks THEN Send(s, "ctcp reply") ELSE s
        u == QueryWindow(t)
    IN  IF toMe THEN ShowIn(u, Place(u), "ctcp")
        ELSE IF s.chat = None THEN Elsewhere(t, "ctcp")
        ELSE ShowInChat(t, "ctcp")

irc_handler_privmsg ==
    /\ ~manner.aim /\ now.online
    /\ \/ Person /\ Becomes(UNION {pork_recv_msg(Start, sp, FALSE) : sp \in Spellings})
       \/ Becomes({Ctcp(Start, Person)})
       \/ now.chat # None /\ Becomes(chat_recv(Start, "chat msg"))

irc_handler_ctcp_action ==
    /\ ~manner.aim /\ now.online
    /\ \/ Person /\ Becomes(pork_recv_action(Start))
       \/ now.chat # None /\ Becomes(chat_recv(Start, "chat action"))

(* A reply to a request is only shown.                                     *)
irc_handler_notice ==
    /\ ~manner.aim /\ now.online
    /\ \/ Person /\ Becomes(pork_recv_notice(Start) \cup {Elsewhere(Start, "ctcp reply")})
       \/ now.chat # None /\ Becomes(chat_recv(Start, "chat notice"))

irc_handler_topic == ~manner.aim /\ now.online /\ now.chat # None /\ Becomes(chat_got_topic(Start))

(* The answer to JOIN or TOPIC runs no scripts.                            *)
irc_handler_332 ==
    /\ ~manner.aim /\ ~Person /\ now.online
    /\ Becomes({IF now.chat = None THEN Elsewhere(Start, "topic") ELSE ShowInChat(Start, "topic")})

irc_handler_invite == ~manner.aim /\ ~Person /\ now.online /\ Becomes(chat_got_invite(Start))

(* What begins with /me is an action.                                      *)
parse_im_chan1 ==
    /\ Person /\ manner.aim /\ now.online
    /\ \/ \E sp \in Spellings, auto \in BOOLEAN : Becomes(pork_recv_msg(Start, sp, auto))
       \/ Becomes(pork_recv_action(Start))

(* An invitation; that ours was accepted is told of no chat.               *)
parse_im_chan2 == ~Person /\ manner.aim /\ now.online /\ Becomes(chat_got_invite(Start))

aim_recv_evil ==
    /\ Person /\ manner.aim /\ now.online
    /\ Becomes(pork_recv_warn(Start) \cup pork_recv_warn_anon(Start))

(* Others in the chat, and what the server tells of it.                    *)
ChatNews ==
    /\ now.chat # None /\ now.online
    /\ \/ Becomes(user_joined(Start))
       \/ Becomes(chat_user_left(Start, FALSE))
       \/ now.member /\ Becomes(chat_user_quit(Start))
       \/ Becomes(chat_user_kicked(Start))
       \/ Becomes(chat_forced_leave(Start))
       \/ Becomes(chat_got_mode(Start))

Joined == now.chat = None /\ now.chatwin /\ now.online /\ Becomes({chat_new(Start)})

-----------------------------------------------------------------------------
(* The user: in the window, or by name.                                    *)

cmd_send ==
    /\ now.online
    /\ \/ now.query # None /\ Becomes(pork_msg_send(Start, TRUE))
       \/ now.chat # None /\ Becomes(chat_send(Start, "chat msg sent"))

cmd_me ==
    /\ now.online
    /\ \/ now.query # None /\ Becomes(pork_action_send(Start, TRUE))
       \/ now.chat # None /\ Becomes(chat_send(Start, "chat action sent"))

cmd_msg == Person /\ now.online /\ Becomes(pork_msg_send(Start, FALSE))

cmd_notice ==
    /\ now.online /\ ~manner.aim
    /\ \/ Person /\ Becomes(pork_notice_send(Start))
       \/ now.chat # None /\ Becomes(chat_send(Start, "chat notice sent"))

cmd_auto == Person /\ now.online /\ manner.aim /\ Becomes({pork_msg_autoreply(Start)})

Warn ==
    /\ Person /\ now.online /\ manner.aim
    /\ Becomes(pork_send_warn(Start) \cup pork_send_warn_anon(Start))

(* The chat commands, for the chat of the current window.                  *)
cmd_chat_ignore   == now.chat # None /\ Becomes({chat_ignore(Start, TRUE)})
cmd_chat_unignore == now.chat # None /\ Becomes({chat_ignore(Start, FALSE)})
cmd_chat_invite   == now.online /\ now.chat # None /\ Becomes(chat_invite(Start))
cmd_chat_kick     == now.online /\ ~manner.aim /\ now.chat # None /\ Becomes(chat_kick(Start))
cmd_chat_leave    == now.online /\ now.chat # None /\ Becomes(chat_leave(Start))

(* The window is there when the chat has not been joined yet, or no more.  *)
cmd_chat_topic == now.online /\ ~manner.aim /\ now.chatwin /\ Becomes(chat_set_topic(Start))

cmd_chat_who ==
    /\ now.online /\ now.chatwin
    /\ Becomes({IF now.chat = None THEN Harm(Start, "no chat") ELSE Start})

cmd_chat_join == ~Person /\ now.online /\ now.chat = None /\ Becomes(chat_join(Start))

cmd_away ==
    /\ Person
    /\ Becomes(pork_set_back(Start) \cup UNION {pork_set_away(Start, m) : m \in {"short", "long"}})

SetProfile == ~Person /\ \E p \in {None, "profile"} : Becomes(pork_set_profile(Start, p))

SetIdle ==
    /\ ~Person /\ manner.aim
    /\ \/ \E on \in BOOLEAN : Becomes(pork_set_idle(Start, on))
       \/ Becomes({keyboard_input(Start)})

Windows == Becomes(IF Person THEN {Open(Start), Close(Start)} ELSE CloseChatWin(Start))

Dropped == now.online /\ Becomes({[Start EXCEPT !.online = FALSE, !.server = Back, !.served = None,
                                                 !.servedidle = FALSE]})

(* aim_recv_locrights, where the idle time is not the one that was set but *)
(* what the server said last, at a login none.                             *)
Restored(s) ==
    [s EXCEPT !.served = IF manner.aim THEN s.profile ELSE @,
              !.past = (@ \ {"cleared"}) \cup (IF s.idle THEN {"relogged"} ELSE {})]

(* irc_handler_001, and the same for AIM.                                  *)
LoggedIn == ~now.online /\ Becomes({ToServer(Restored([Start EXCEPT !.online = TRUE]), Start.away)})

Older(age) == IF age \in 0 .. Delay - 1 THEN age + 1 ELSE age

Tick ==
    Becomes({[Start EXCEPT !.hash = [sp \in Spellings |-> Older(@[sp])],
                           !.replied.age = Older(@)]})

TalkNext ==
    \/ irc_handler_privmsg \/ irc_handler_ctcp_action \/ irc_handler_notice
    \/ irc_handler_topic \/ irc_handler_332 \/ irc_handler_invite
    \/ parse_im_chan1 \/ parse_im_chan2 \/ aim_recv_evil \/ ChatNews \/ Joined
    \/ cmd_send \/ cmd_me \/ cmd_msg \/ cmd_notice \/ cmd_auto \/ Warn
    \/ cmd_chat_ignore \/ cmd_chat_unignore \/ cmd_chat_invite \/ cmd_chat_kick
    \/ cmd_chat_leave \/ cmd_chat_topic \/ cmd_chat_who \/ cmd_chat_join
    \/ cmd_away \/ SetProfile \/ SetIdle \/ Windows \/ Dropped \/ LoggedIn \/ Tick

TalkSpec == TalkInit /\ [][TalkNext]_talkVars

-----------------------------------------------------------------------------
(* A line is in the window of the conversation it belongs to, unless a     *)
(* script has opened that window since the place was chosen, as it can for *)
(* a message that goes to the status window and for a notice               *)
(* (pork_recv_msg, pork_recv_notice, pork_notice_send).                    *)
InItsPlace ==
    \A i \in DOMAIN now.shown :
        \/ now.shown[i].right
        \/ "opened" \in now.meanwhile /\ now.shown[i].what \in {"msg", "notice", "notice sent"}

Sendings ==
    {"sent", "action sent", "warn sent", "auto",
     "chat msg sent", "chat notice sent", "chat action sent"}

Places(q) == {i \in DOMAIN q : q[i] \in Sendings}

(* What is shown as sent was sent, and what was sent is shown, in that     *)
(* order.  Notices to a user are shown and never sent (pork_notice_send).  *)
ShownIsSent ==
    now.harm = {} =>
       LET what == [i \in DOMAIN now.shown |-> now.shown[i].what]
       IN  \E match \in [Places(what) -> Places(now.sent)] :
              /\ \A j \in Places(now.sent) : \E i \in Places(what) : match[i] = j
              /\ \A i \in Places(what) : now.sent[match[i]] = what[i]
              /\ \A i, j \in Places(what) : i < j => match[i] < match[j]

(* Who is ignored in the chat is not heard there.                          *)
IgnoredUnheard == now.ignored => \A i \in DOMAIN now.shown : now.shown[i].what \notin SaidInChat

(* The correspondent is answered automatically at most every ten minutes   *)
(* of one absence, as pork_msg.c:82 says, if the name is always written    *)
(* the same way: the hash of the names knows capitals.                     *)
RepliesPaced == "early" \notin now.past

(* The server has the away message, the profile and the idleness that the  *)
(* account has, over lost connections too, unless the message is too long  *)
(* for it, the profile was cleared, or the connection was lost while idle  *)
(* (pork_set_away, pork_set_back, pork_set_profile, pork_set_idle,         *)
(* irc_handler_001, aim_recv_locrights).                                   *)
ServerAgrees ==
    now.online => /\ now.away = "long" \/ now.server = now.away
                  /\ ~manner.aim \/ "cleared" \in now.past \/ now.served = now.profile
                  /\ "relogged" \in now.past \/ now.servedidle = now.idle

(* Without scripts nothing is used that was freed or is NULL but the chat  *)
(* that a window has not joined, by two commands; and what looks for its   *)
(* window after the scripts have run never does.                           *)
OnlyScriptsHarm ==
    /\ manner.scripts \/ now.harm \subseteq {"no chat"}
    /\ now.harm \cap {"action", "warn", "warn sent", "auto"} = {}

(* What is said reaches whom it should, once, and no one else: all of      *)
(* these (pork_msg.c, pork_chat.c).                                        *)
SaidSound ==
    InItsPlace /\ ShownIsSent /\ IgnoredUnheard /\ RepliesPaced /\ ServerAgrees /\ OnlyScriptsHarm
=============================================================================
