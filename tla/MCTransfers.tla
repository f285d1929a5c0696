----------------------------- MODULE MCTransfers -----------------------------
(* The transfers of an IRC account (Transfers) and of an AIM account       *)
(* (AimTransfers) for TLC, in one run: a behaviour is about one of the two *)
(* accounts, and the other stays as it began.                              *)
EXTENDS Transfers

VARIABLES part, st, sess, aim_refnum

Aim == INSTANCE AimTransfers WITH
           Lens <- Lens \ {1}, next_xfer_refnum <- aim_refnum

aimVars == <<st, sess, aim_refnum>>

OnIrc(Act) == part = "dcc" /\ Act /\ UNCHANGED <<part, aimVars>>
OnAim(Act) == part = "aim" /\ Act /\ UNCHANGED <<part, vars>>

MCInit == part \in {"dcc", "aim"} /\ Init /\ Aim!Init

(* Next of the one or of the other.                                        *)
MCNext ==
    \/ OnIrc(transfer_send) \/ OnIrc(irc_handler_dcc_send) \/ OnIrc(CancelAll)
    \/ OnIrc(pork_acct_free) \/ OnIrc(Others)
    \/ \E x \in Xfers : \/ OnIrc(Get(x)) \/ OnIrc(Cancel(x)) \/ OnIrc(irc_handler_dcc_resume(x))
                        \/ OnIrc(Listening(x)) \/ OnIrc(Connected(x))
                        \/ OnIrc(Receiving(x)) \/ OnIrc(Sending(x))
    \/ OnAim(Aim!transfer_send) \/ OnAim(Aim!parse_im_chan2) \/ OnAim(Aim!Lost)
    \/ OnAim(Aim!pork_acct_free) \/ OnAim(Aim!aim_setup) \/ OnAim(Aim!Again) \/ OnAim(Aim!Others)
    \/ \E x \in Xfers :
          \/ OnAim(Aim!Get(x)) \/ OnAim(Aim!Cancel(x)) \/ OnAim(Aim!Sending(x)) \/ OnAim(Aim!Receiving(x))
          \/ OnAim(Aim!Listening(<<x, "listener">>)) \/ OnAim(Aim!Shaking(<<x, "accepted">>))
          \/ \E how \in {"dialled", "redialled"} :
                OnAim(Aim!Dialling(<<x, how>>)) \/ OnAim(Aim!Shaking(<<x, how>>))
          \/ \E how \in Aim!Hows : OnAim(Aim!aim_connrst(<<x, how>>))

MCSpec ==
    /\ MCInit /\ [][MCNext]_<<part, vars, aimVars>>
    /\ \A x \in Xfers : WF_<<part, vars, aimVars>>(OnIrc(Works(x)))

(* Connections, transfers and infos belong together (pork_aim_proto.c).    *)
AimTransfersSound == part = "aim" => Aim!AimTransfersSound
=============================================================================
