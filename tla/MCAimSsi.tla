----------------------------- MODULE MCAimSsi -----------------------------
(* The list of the server (AimSsi) and what else libfaim computes, the     *)
(* chains that everything travels in (TlvChains) and the checksum of a     *)
(* file (OftChecksum), for TLC, in one run: a behaviour is about the list  *)
(* or about chains, and the other stays as it began.                       *)
(*                                                                         *)
(* The lists of the server at the start: none; an ordinary one; one with   *)
(* a buddy whose group does not exist and one that is in the master group. *)
EXTENDS AimSsi

CONSTANTS friend, other, friends, orphans, plain, nick, null

Group(name, gid, kids) == [name |-> name, gid |-> gid, bid |-> 0, type |-> "group",
                           data |-> [x \in {"kids"} |-> kids]]
Buddy(name, gid, bid) == [name |-> name, gid |-> gid, bid |-> bid, type |-> "buddy",
                          data |-> NoData]
Permit(name, bid) == [name |-> name, gid |-> 0, bid |-> bid, type |-> "permit",
                      data |-> NoData]

Ordinary == {Group(null, 0, <<1>>), Group(friends, 1, <<1>>), Buddy(friend, 1, 1),
             Permit(other, 7)}
Odd == {Group(null, 0, <<1>>), Group(friends, 1, <<1>>), Buddy(friend, 1, 1),
        Buddy(other, 5, 3), Buddy(friend, 0, 2)}

Start(list, ops, trouble) == [list |-> list, ops |-> ops, trouble |-> trouble]
MCStarts == {Start({}, 2, 1), Start(Ordinary, 2, 1), Start(Odd, 1, 1),
             Start({}, 1, 2), Start(Ordinary, 1, 2)}

VARIABLES part, chain, dict

Chains == INSTANCE TlvChains WITH Types <- {1, 5}, MaxTlvs <- 3

(* Files of up to two blocks.                                              *)
Sums == INSTANCE OftChecksum WITH
            Block <- 2, Texts <- UNION {[1 .. n -> {0, 1, 255}] : n \in 0 .. 4}

chainVars == <<chain, dict>>

L(A) == part = "list" /\ A /\ UNCHANGED <<part, chainVars>>
T(A) == part = "chain" /\ A /\ UNCHANGED <<part, vars>>

MCInit ==
    /\ part \in {"list", "chain"}
    /\ Init /\ Chains!Init
    /\ part = "chain" => srv = {} /\ left.ops = 2

(* Next of the one or of the other.                                        *)
MCNext ==
    \/ L(User) \/ L(Client) \/ L(Server) \/ L(Another) \/ L(Lost)
    \/ T(Chains!Add) \/ T(Chains!Replace) \/ T(Chains!TakeOut) \/ T(Chains!Echo)

all == <<part, vars, chainVars>>

ListReads   == part = "list" /\ Reads
ListAnswers == part = "list" /\ Answers

MCSpec ==
    /\ MCInit /\ [][MCNext]_all
    /\ WF_all(L(ConnUp)) /\ WF_all(L(AskList)) /\ WF_told(ListReads) /\ WF_ssi(ListAnswers)

(* A chain stands for what was put into it, and a checksum for the file    *)
(* (libfaim/tlv.c, bstream.c, ft.c).                                       *)
WireSound == part = "chain" => Chains!TlvSound /\ (chain = <<>> => Sums!SumOfParts)
=============================================================================
