----------------------------- MODULE MCPorkAcct -----------------------------
(* The connection of an IRC account (PorkAcct) and what the server tells   *)
(* of its nick and its modes (IrcModes) for TLC, in one run: a behaviour   *)
(* is about one of the two, and the other stays as it began.               *)
EXTENDS PorkAcct, TLC

(* An account that is only connected and lost, and one with everything     *)
(* that the code allows.                                                   *)
BareAndFull == {{}, {"ssl", "chats", "typing", "scripts"}}

VARIABLES part, me, srv, inq, outq, world, past

(* The letters every server has, and those of a newer one, whose user is   *)
(* told of them before or after the letters of ranks, or not at all.       *)
Classic ==
    [classic |-> TRUE, lists |-> <<"b">>, keyed |-> <<"k">>, counted |-> <<"l">>, flags |-> <<"n">>]
Wide ==
    [classic |-> FALSE, lists |-> <<"b", "q">>, keyed |-> <<"k">>,
     counted |-> <<"l", "j">>, flags |-> <<"n">>]

Server(letters, isupport, nicklen, taken) ==
    letters @@ [isupport |-> isupport, nicklen |-> nicklen, taken |-> taken]

FourServers ==
    {Server(Classic, "none", 2, {0}), Server(Classic, "chanmodes first", 1, {}),
     Server(Wide, "chanmodes first", 2, {0, 1}), Server(Wide, "prefix first", 1, {1})}

Limit(changes, commands, losses) ==
    [changes |-> changes, commands |-> commands, losses |-> losses]

Modes == INSTANCE IrcModes WITH
             Servers <- FourServers,
             Limits <- {Limit(2, 1, 0), Limit(1, 1, 1), Limit(0, 3, 0), Limit(0, 2, 1)}

modesVars == <<me, srv, inq, outq, world, past>>

C(A) == part = "connection" /\ A /\ UNCHANGED <<part, modesVars>>
M(A) == part = "modes" /\ A /\ UNCHANGED <<part, vars>>

MCInit ==
    /\ part \in {"connection", "modes"}
    /\ Init /\ Modes!Init
    /\ part = "modes" => use = {}
    /\ part = "connection" =>
          world.classic /\ world.nicklen = 1 /\ past.left = Limit(0, 2, 1)

(* Next of the one or of the other.                                        *)
MCNext ==
    \/ C(Connect) \/ C(ConnectDone) \/ C(Welcome) \/ C(Drop) \/ C(MainLoop) \/ C(Tick)
    \/ C(Disconnect) \/ C(Join) \/ C(Command) \/ C(OtherOpens) \/ C(OtherCloses)
    \/ M(Modes!Receive) \/ M(Modes!Serve) \/ M(Modes!OthersChange) \/ M(Modes!Oper)
    \/ M(Modes!Connect) \/ M(Modes!Lost) \/ M(Modes!cmd_nick) \/ M(Modes!cmd_join)
    \/ M(Modes!irc_cmd_mode) \/ M(Modes!irc_cmd_quote)

all == <<part, vars, modesVars>>

MCSpec ==
    /\ MCInit /\ [][MCNext]_all
    /\ WF_all(C(Tick)) /\ WF_all(C(MainLoop)) /\ WF_all(C(ConnectDone))
    /\ WF_all(M(Modes!Reads)) /\ WF_all(M(Modes!Answers))

(* What the client believes of modes and nicks is what the server told it  *)
(* (pork_irc_input.c).                                                     *)
ModesSound == Modes!ModesSound

(* A login ends (irc_handler_433).                                         *)
LoginEnds == Modes!LoginEnds

=============================================================================
