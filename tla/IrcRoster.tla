----------------------------- MODULE IrcRoster -----------------------------
(***************************************************************************)
(* Who is in an IRC channel: the list of users the client keeps for a chat *)
(* (pork_chat.c, the handlers of pork_irc_input.c), the server that knows  *)
(* the members, and the two streams between them.                          *)
(*                                                                         *)
(* What the server sends describes the channel as it was; what the client  *)
(* sends may meet a channel that has changed.  One channel is modelled,    *)
(* with the window it has (WINDOW: whether imwindow_find_chat_target finds *)
(* one).  Nicks stands for the nicks that compare different.               *)
(***************************************************************************)
EXTENDS Integers, SequencesExt

CONSTANTS Nicks,         \* nicks at the server
          Me,            \* the nick the client starts with
          Plain,         \* what is left of a nick without the characters it
                         \* begins with that are not letters
          Worlds,        \* pairs of some of the nicks and whether that world is
                         \* rough: AUTO_REJOIN may be set, the formats of leaving
                         \* may come out empty, the connection may be lost, and
                         \* the user joins, leaves and closes without waiting for
                         \* the answer to the last JOIN
          MaxWire,       \* messages under way to the client
          MaxBack        \* commands under way to the server

ASSUME NicksAssumption == IsFiniteSet(Nicks) /\ Me \in Nicks
ASSUME PlainAssumption == Nicks \subseteq DOMAIN Plain
ASSUME WorldAssumption == \A w \in Worlds : /\ Me \in w.nicks /\ w.nicks \subseteq Nicks
                                             /\ w.rough \in BOOLEAN

VARIABLES world,      \* one of Worlds, for good
          members,    \* server: who is in the channel, and which are ops
          us,         \* server: the nick of the client
          online,     \* whether there is a connection
          wire,       \* from the server, in order
          back,       \* to the server, in order
          window,     \* client: whether there is a window for the channel
          chat,       \* client: whether there is a chatroom
          joined,     \* client: irc_chan_data->joined
          user_list,  \* client: chatroom->user_list
          username,   \* client: pork_acct->username
          left,       \* not in the code: the user's last word was to leave,
          stale,      \* whether something has kept the list of users from
                      \* the news since the chat was made,
          hurried     \* and whether the user ever gave a command before the
                      \* answer to a JOIN

server == <<members, us>>
room   == <<window, chat, joined, user_list>>
marks  == <<left, stale, hurried>>
vars   == <<server, online, world, wire, back, room, username, marks>>

Names == Nicks \cup Range(Plain)

User == [name : Names, op : BOOLEAN]

Entry(n, op) == [name |-> n, op |-> op]

Message(kind, n, rest) == [kind |-> kind, nick |-> n, rest |-> rest]

-----------------------------------------------------------------------------
(* The list of users.  New users are added at the head.                    *)

(* chat_find_user_node.                                                    *)
Node(list, n) == SelectInSeq(list, LAMBDA u : u.name = n)

chat_find_user(list, n) == Node(list, n) # 0

chat_user_joined(list, n) ==
    IF chat_find_user(list, n) THEN list ELSE <<Entry(n, FALSE)>> \o list

(* mutant of Unlisted: the next node is lost with it *)
UnlistedTail(list, n) ==
    IF chat_find_user(list, n) THEN SubSeq(list, 1, Node(list, n) - 1) ELSE list

(* chat_user_left, once the announcement is made.                          *)
Unlisted(list, n) ==
    IF chat_find_user(list, n) THEN RemoveAt(list, Node(list, n)) ELSE list

(* chat_user_left, chat_user_quit, chat_user_kicked: a format that comes   *)
(* out empty ends them before the user is removed.                         *)
Leaves(list, n) == {Unlisted(list, n)} \cup (IF world.rough THEN {list} ELSE {})

chat_nick_change(list, old, new) ==
    IF chat_find_user(list, old)
    THEN [list EXCEPT ![Node(list, old)].name = new] ELSE list

(* irc_handler_chan_mode, o.                                               *)
WithMode(list, n, op) ==
    IF chat_find_user(list, n)
    THEN [list EXCEPT ![Node(list, n)].op = op] ELSE list

(* irc_handler_353: the names are added up to the first that is known from *)
(* before or from the line, which only gets its status.                    *)
Known(list, line, i) ==
    \/ chat_find_user(list, Plain[line[i].name])
    \/ \E j \in 1 .. i - 1 : Plain[line[j].name] = Plain[line[i].name]

(* The first n of the line, the last of them at the head.                  *)
Added(line, n) ==
    [i \in 1 .. n |-> Entry(Plain[line[n + 1 - i].name], line[n + 1 - i].op)]

ReadNames(list, line) ==
    LET known == {i \in DOMAIN line : Known(list, line, i)}
        first == Min(known)
    IN  IF known = {} THEN Added(line, Len(line)) \o list
        ELSE WithMode(Added(line, first - 1) \o list, Plain[line[first].name], line[first].op)

-----------------------------------------------------------------------------
Init ==
    /\ world \in Worlds
    /\ members \in {[n \in M |-> TRUE] : M \in SUBSET (world.nicks \ {Me})}
    /\ us = Me /\ username = Me /\ online = TRUE
    /\ wire = <<>> /\ back = <<>> /\ user_list = <<>>
    /\ window = FALSE /\ chat = FALSE /\ joined = FALSE /\ left = FALSE
    /\ stale = FALSE /\ hurried = FALSE

(* irc_send.  Commands are not sent while the connection is down: PorkAcct *)
(* says what happens to them.                                              *)
Sends(cmds) == online /\ Len(back \o cmds) <= MaxBack /\ back' = back \o cmds

(* chat_free.                                                              *)
NoChat == chat' = FALSE /\ joined' = FALSE /\ user_list' = <<>> /\ stale' = FALSE

(* A JOIN that has no answer yet, or has one under way.                    *)
Joining ==
    \/ "JOIN" \in Range(back)
    \/ \E m \in Range(wire) : m.kind = "JOIN" /\ m.rest = "answer"

Waits == (world.rough \/ ~Joining) /\ hurried' = (hurried \/ Joining)

(* The user: chat_join.                                                    *)
Join ==
    /\ world.rough \/ ~(chat \/ Joining)
    /\ Sends(<<"JOIN">>)
    /\ window' = TRUE /\ left' = FALSE
    /\ hurried' = (hurried \/ chat \/ Joining)
    /\ UNCHANGED <<server, online, world, wire, chat, joined, user_list, username, stale>>

(* chat_leave with the window, or screen_close_window with the chat.       *)
Leave ==
    /\ chat /\ Waits /\ Sends(<<"PART">>)
    /\ NoChat /\ window' = FALSE /\ left' = TRUE
    /\ UNCHANGED <<server, online, world, wire, username>>

(* screen_close_window when the chat has not been joined.                  *)
CloseWindow ==
    /\ window /\ ~chat /\ Waits /\ window' = FALSE
    /\ UNCHANGED <<server, online, world, wire, back, chat, joined, user_list, username, left, stale>>

(* chat_users.                                                             *)
AskNames ==
    /\ chat /\ Sends(<<"NAMES">>)
    /\ UNCHANGED <<server, online, world, wire, room, username, marks>>

-----------------------------------------------------------------------------
(* irc_handler_join for the client itself: a chat that is there is kept.   *)
(* If the window is gone chat_join makes another, and joins again.         *)
OwnJoin ==
    /\ IF window THEN UNCHANGED back ELSE Sends(<<"JOIN">>)
    /\ window' = TRUE /\ chat' = TRUE /\ joined' = TRUE
    /\ UNCHANGED <<user_list, username, stale>>

(* mutant of OtherJoin: it makes the chat, and its window, if it is missing *)
OtherJoinMakes(n) ==
    /\ window' = TRUE /\ chat' = TRUE /\ joined' = TRUE
    /\ user_list' = chat_user_joined(user_list, n)
    /\ UNCHANGED <<back, username, stale>>

OtherJoin(n) ==
    /\ user_list' = IF chat THEN chat_user_joined(user_list, n) ELSE user_list
    /\ UNCHANGED <<window, chat, joined, back, username, stale>>

(* irc_handler_part ignores the client's own PART; irc_handler_quit.       *)
OtherLeft(n) ==
    /\ user_list' \in Leaves(user_list, n)
    /\ stale' = (stale \/ chat_find_user(user_list', n))
    /\ UNCHANGED <<window, chat, joined, back, username>>

(* irc_handler_kick for the client itself, chat_forced_leave.              *)
OwnKick ==
    /\ \/ /\ world.rough
          /\ Sends(<<"JOIN">>)
          /\ user_list' \in Leaves(user_list, username)
          /\ joined' = FALSE /\ stale' = TRUE /\ UNCHANGED chat
       \/ NoChat /\ UNCHANGED back
    /\ UNCHANGED <<window, username>>

(* irc_handler_nick.                                                       *)
NickChange(old, new) ==
    /\ user_list' = chat_nick_change(user_list, old, new)
    /\ username' = IF username = old THEN new ELSE username
    /\ UNCHANGED <<window, chat, joined, back, stale>>

Handler(m) ==
    \/ m.kind = "JOIN" /\ m.nick = username /\ OwnJoin
    \/ m.kind = "JOIN" /\ m.nick # username /\ OtherJoin(m.nick)
    \/ m.kind = "PART" /\ m.nick # username /\ OtherLeft(m.nick)
    \/ m.kind = "PART" /\ m.nick = username /\ UNCHANGED <<room, back, username, stale>>
    \/ m.kind = "KICK" /\ m.nick = username /\ chat /\ OwnKick
    \/ m.kind = "KICK" /\ m.nick = username /\ ~chat /\ UNCHANGED <<room, back, username, stale>>
    \/ m.kind = "KICK" /\ m.nick # username /\ OtherLeft(m.nick)
    \/ m.kind = "QUIT" /\ OtherLeft(m.nick)
    \/ m.kind = "NICK" /\ NickChange(m.nick, m.rest)
    \/ /\ m.kind = "MODE"
       /\ user_list' = WithMode(user_list, m.nick, m.rest)
       /\ UNCHANGED <<window, chat, joined, back, username, stale>>
    \/ /\ m.kind = "353"
       /\ user_list' = IF chat THEN ReadNames(user_list, m.rest) ELSE user_list
       /\ UNCHANGED <<window, chat, joined, back, username, stale>>

Receive ==
    /\ wire # <<>> /\ wire' = Tail(wire)
    /\ Handler(Head(wire))
    /\ UNCHANGED <<server, online, world, left, hurried>>

-----------------------------------------------------------------------------
(* The server.  It tells the members of the channel what happens there.    *)
In == us \in DOMAIN members

Tells(msgs) ==
    /\ wire' = IF online THEN wire \o msgs ELSE wire
    /\ Len(wire') <= MaxWire

TellsIf(told, m) == Tells(IF told THEN <<m>> ELSE <<>>)

client == <<online, world, room, username, marks>>

With(n, op) == [m \in DOMAIN members \cup {n} |-> IF m = n THEN op ELSE members[m]]

Without(n) == [m \in DOMAIN members \ {n} |-> members[m]]

(* The lines that name the members M, in any order.                        *)
Lines(M) == {[i \in DOMAIN s |-> Entry(s[i], M[s[i]])] : s \in SetToSeqs(DOMAIN M)}

Obey ==
    /\ back # <<>> /\ back' = Tail(back)
    /\ \/ /\ Head(back) = "JOIN" /\ ~In
          /\ members' = With(us, members = <<>>)
          /\ \E line \in Lines(members') :
                Tells(<<Message("JOIN", us, "answer"), Message("353", us, line)>>)
       \/ Head(back) = "JOIN" /\ UNCHANGED <<members, wire>>
       \/ Head(back) = "PART" /\ In /\ members' = Without(us) /\ Tells(<<Message("PART", us, "news")>>)
       \/ Head(back) = "PART" /\ ~In /\ UNCHANGED <<members, wire>>
       \/ /\ Head(back) = "NAMES" /\ UNCHANGED members
          /\ \E line \in Lines(members) : Tells(<<Message("353", us, line)>>)
    /\ UNCHANGED <<us, client>>

Others == world.nicks \ {us}

Arrive(n) ==
    /\ n \in Others \ DOMAIN members
    /\ members' = With(n, FALSE) /\ TellsIf(In, Message("JOIN", n, "news"))
    /\ UNCHANGED <<us, back, client>>

Depart(n) ==
    /\ n \in Others \cap DOMAIN members
    /\ members' = Without(n)
    /\ \E kind \in {"PART", "KICK", "QUIT"} : TellsIf(In, Message(kind, n, "news"))
    /\ UNCHANGED <<us, back, client>>

Kick ==
    /\ In /\ online
    /\ members' = Without(us) /\ Tells(<<Message("KICK", us, "news")>>)
    /\ UNCHANGED <<us, back, client>>

(* A user, or the client itself, takes another nick.                       *)
Rename(n, new) ==
    /\ n \in DOMAIN members \cup {us} /\ new \in Others \ DOMAIN members
    /\ members' = IF n \in DOMAIN members
                  THEN [m \in (DOMAIN members \ {n}) \cup {new} |->
                           IF m = new THEN members[n] ELSE members[m]]
                  ELSE members
    /\ us' = IF us = n THEN new ELSE us
    /\ TellsIf(In \/ n = us, Message("NICK", n, new))
    /\ online \/ n # us
    /\ UNCHANGED <<back, client>>

SetMode(n) ==
    /\ n \in DOMAIN members
    /\ members' = With(n, ~members[n]) /\ TellsIf(In, Message("MODE", n, ~members[n]))
    /\ UNCHANGED <<us, back, client>>

(* The connection is lost, and what was under way with it.  The client     *)
(* signs on again with the nick it believes to have.                       *)
Drop ==
    /\ world.rough /\ online /\ online' = FALSE
    /\ members' = Without(us) /\ us' = username /\ username \notin DOMAIN Without(us)
    /\ wire' = <<>> /\ back' = <<>>
    /\ stale' = chat
    /\ UNCHANGED <<world, room, username, left, hurried>>

(* pork_acct_connected after a reconnection: chat_rejoin_all.              *)
Reconnected ==
    /\ ~online /\ online' = TRUE
    /\ us \notin DOMAIN members
    /\ back' = IF chat THEN <<"JOIN">> ELSE <<>>
    /\ UNCHANGED <<server, world, wire, room, username, marks>>

World == \E n \in Nicks : \/ Arrive(n) \/ Depart(n) \/ SetMode(n)
                          \/ \E new \in Nicks : Rename(n, new)

Next == \/ Join \/ Leave \/ CloseWindow \/ AskNames \/ Receive
        \/ Obey \/ Kick \/ World \/ Drop \/ Reconnected

Spec == Init /\ [][Next]_vars

-----------------------------------------------------------------------------
TypeOK ==
    /\ world \in Worlds
    /\ \E M \in SUBSET Nicks : members \in [M -> BOOLEAN]
    /\ {us, username} \subseteq Nicks
    /\ {online, window, chat, joined, left, stale, hurried} \subseteq BOOLEAN
    /\ Len(wire) <= MaxWire /\ back \in BoundedSeq({"JOIN", "PART", "NAMES"}, MaxBack)
    /\ Range(user_list) \subseteq User

(* Nothing is under way that the client has not heard of yet.              *)
Quiet == online /\ wire = <<>> /\ back = <<>>

(* When nothing is under way the client is in the channel exactly if it    *)
(* has a chatroom that says so, and then the list of users is the          *)
(* server's: the same nicks, each once, with the same status, whatever     *)
(* crossed on the way, unless the connection was lost under the chat or    *)
(* the user was kicked and AUTO_REJOIN took effect, which empties no list, *)
(* or a format came out empty, or the user does not wait for the answer to *)
(* a JOIN (irc_handler_353, chat_user_left, irc_handler_join,              *)
(* irc_handler_kick).                                                      *)
RosterAgrees ==
    Quiet /\ ~stale /\ ~hurried =>
       /\ chat /\ joined <=> In
       /\ joined => /\ {u.name : u \in Range(user_list)} = DOMAIN members
                    /\ \A u \in Range(user_list) : u.op = members[u.name]
                    /\ Len(user_list) = Cardinality(DOMAIN members)

(* A chat that the user has left is not joined again unless the user asks  *)
(* for it, whatever was under way, if the user waits for the answer to a   *)
(* JOIN before leaving (chat_leave, irc_handler_join).                     *)
StaysOut == left /\ ~hurried => ~chat

(* The chat is what the server and the user think it is: both of these.    *)
ChatSound == RosterAgrees /\ StaysOut
=============================================================================
