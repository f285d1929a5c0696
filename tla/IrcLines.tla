------------------------------ MODULE IrcLines ------------------------------
(***************************************************************************)
(* Both directions of an IRC session: what it reads (IrcInput) and what it *)
(* writes (IrcOutput).  They share nothing but the connection, so in a     *)
(* behaviour one of the two is under way and the other stays as it began.  *)
(***************************************************************************)
EXTENDS IrcInput

CONSTANT MaxTyped     \* lines typed

VARIABLES part,
          sock, transport, source, outq, broken, typed, early, sent, since, lost, harm

Out == INSTANCE IrcOutput

outVars == <<sock, transport, source, outq, broken, typed, early, sent, since, lost, harm>>

I(A) == part = "in" /\ A /\ UNCHANGED <<part, outVars>>
O(A) == part = "out" /\ A /\ UNCHANGED <<part, vars>>

BothInit == part \in {"in", "out"} /\ Init /\ Out!Init

(* Next of the one or of the other.                                        *)
BothNext ==
    \/ I(Say) \/ I(SayBlank) \/ I(Dispatch) \/ I(Full) \/ I(Reconnect)
    \/ O(Out!Command) \/ O(Out!Quit)
    \/ O(Out!Connect) \/ O(Out!Refused) \/ O(Out!SslFails) \/ O(Out!Connected)
    \/ O(Out!Breaks) \/ O(Out!Lost) \/ O(Out!Dead) \/ O(Out!Abort)

(* The fairness of IrcInput.                                               *)
BothSpec ==
    /\ BothInit /\ [][BothNext]_<<part, vars, outVars>>
    /\ WF_vars(I(Dispatch)) /\ WF_vars(I(Full))

(* The lines are written in the order in which they were typed, after the  *)
(* login (pork_irc_output.c).                                              *)
LinesInOrder == Out!LinesInOrder
=============================================================================
