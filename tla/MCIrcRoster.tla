---------------------------- MODULE MCIrcRoster ----------------------------
(* Who is in a channel (IrcRoster) and what is said there and to a person  *)
(* (Conversations), for TLC, in one run: a behaviour is about one of the   *)
(* two, and the other stays as it began.                                   *)
(*                                                                         *)
(* There are three nicks that begin with letters; ten minutes are two      *)
(* ticks.                                                                  *)
EXTENDS IrcRoster, Conversations

CONSTANTS a, b, c

ABC == {a, b, c}
CalmAndRough == {[nicks |-> ABC, rough |-> FALSE], [nicks |-> {a, b}, rough |-> TRUE]}

Letters == [n \in ABC |-> n]

VARIABLE part

(* The options, with and without scripts; SEND_REMOVES_AWAY is set for AIM *)
(* and CTCP_BLOCK_LEAKS with DUMP_MSGS_TO_STATUS.                          *)
Moods ==
    {w \in [aim : BOOLEAN, dump : BOOLEAN, back : BOOLEAN, leaks : BOOLEAN,
            scripts : BOOLEAN, about : {"person", "chat"}] :
        w.back = w.aim /\ w.leaks = w.dump /\ (w.about = "chat" => ~w.dump)}

R(A) == part = "roster" /\ A /\ UNCHANGED <<part, talkVars>>
T(A) == part = "talk" /\ A /\ UNCHANGED <<part, vars>>

MCInit ==
    /\ part \in {"roster", "talk"}
    /\ Init /\ TalkInit
    /\ part = "roster" => manner.aim /\ manner.dump /\ manner.scripts /\ manner.about = "person"
    /\ part = "talk" => world.rough /\ members = <<>>

(* Next of the one or of the other.                                        *)
MCNext ==
    \/ R(Join) \/ R(Leave) \/ R(CloseWindow) \/ R(AskNames) \/ R(Receive)
    \/ R(Obey) \/ R(Kick) \/ R(Drop) \/ R(Reconnected)
    \/ \E n \in Nicks : \/ R(Arrive(n)) \/ R(Depart(n)) \/ R(SetMode(n))
                        \/ \E new \in Nicks : R(Rename(n, new))
    \/ T(irc_handler_privmsg) \/ T(irc_handler_ctcp_action)
    \/ T(irc_handler_notice) \/ T(irc_handler_topic)
    \/ T(irc_handler_332) \/ T(irc_handler_invite)
    \/ T(parse_im_chan1) \/ T(parse_im_chan2)
    \/ T(aim_recv_evil) \/ T(ChatNews) \/ T(Joined)
    \/ T(cmd_send) \/ T(cmd_me) \/ T(cmd_msg)
    \/ T(cmd_notice) \/ T(cmd_auto) \/ T(Warn)
    \/ T(cmd_chat_ignore) \/ T(cmd_chat_unignore)
    \/ T(cmd_chat_invite) \/ T(cmd_chat_kick)
    \/ T(cmd_chat_leave) \/ T(cmd_chat_topic)
    \/ T(cmd_chat_who) \/ T(cmd_chat_join) \/ T(cmd_away)
    \/ T(SetProfile) \/ T(SetIdle) \/ T(Windows)
    \/ T(Dropped) \/ T(LoggedIn) \/ T(Tick)

MCSpec == MCInit /\ [][MCNext]_<<part, vars, talkVars>>

============================================================================
