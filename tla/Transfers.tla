------------------------------ MODULE Transfers ------------------------------
(***************************************************************************)
(* The file transfers of an IRC account: pork_transfer.c and the DCC part  *)
(* under it, protocols/irc/pork_irc_dcc.c.                                 *)
(*                                                                         *)
(* A transfer is a node of transfer_list, a source of the I/O multiplexer  *)
(* (its key is the transfer), a descriptor and a file; any of them may     *)
(* fail, the peer may reject, resume or leave, and the user may cancel.    *)
(* All ends meet in transfer_abort or in a completion, in the middle of    *)
(* the callback that noticed, and the callback may go on with what is left. *)
(*                                                                         *)
(* Functions that call each other are operators from a state to a state or *)
(* to the states they may end in.  Lengths are counted in blocks of 4096   *)
(* bytes.  A transfer is named by its reference number: the newest heads   *)
(* transfer_list, so that the list is the numbers from the highest down.   *)
(***************************************************************************)
EXTENDS Integers, FiniteSets

CONSTANTS Fds,        \* descriptors
          Lens,       \* lengths of files
          MaxXfers,   \* bound on next_xfer_refnum
          AckLimit    \* 2^32: an acknowledgement has four bytes

ASSUME LensAssumption  == Lens \subseteq Nat
ASSUME BoundAssumption == MaxXfers \in Nat /\ AckLimit \in Nat \ {0}

VARIABLES xfer,               \* transfer_list: struct file_transfer and struct dcc
                              \* of each transfer of the account
          io,                 \* the sources whose key is a transfer
          open,               \* who uses each descriptor
          next_xfer_refnum,
          acct,               \* whether the account exists
          again,              \* not in the code: whether a transfer that has
                              \* a descriptor has been got, and
          harm                \* "freed" if freed memory or NULL was used,
                              \* "other" if another's descriptor was closed

vars == <<xfer, io, open, next_xfer_refnum, acct, again, harm>>

None == -1

ASSUME FdsAssumption == None \notin Fds

(* resumed is not in the code: the peer asked for an offset.               *)
Xfer == [type : {"send", "recv"}, status : {"WAITING", "ACTIVE", "COMPLETE"},
         sock : Fds \cup {None}, len : Lens, start : Nat, sent : Nat,
         fp : BOOLEAN, pos : Nat, ack : Nat, resumed : BOOLEAN]

NewXfer(type, len) ==
    [type |-> type, status |-> "WAITING", sock |-> None, len |-> len,
     start |-> 0, sent |-> 0, fp |-> type = "send", pos |-> 0, ack |-> 0,
     resumed |-> FALSE]

Now == [xfer |-> xfer, io |-> io, open |-> open, harm |-> harm]

Listed(s) == DOMAIN s.xfer

Harm(s, kind) == [s EXCEPT !.harm = @ \cup {kind}]

-----------------------------------------------------------------------------
(* pork_io.h, sock.h: what the transfers use of them.                      *)
pork_io_del(s, x) == [s EXCEPT !.io = [k \in DOMAIN @ \ {x} |-> @[k]]]

pork_io_add(s, x, callback, fd) ==
    [s EXCEPT !.io = [k \in DOMAIN @ \cup {x} |->
                         IF k = x THEN [callback |-> callback, fd |-> fd] ELSE @[k]]]

Free(s) == {f \in Fds : s.open[f] = "closed"}

Open(s, f) == [s EXCEPT !.open[f] = "ours"]

Close(s, fd) ==
    IF fd = None THEN s
    ELSE [s EXCEPT !.open[fd] = "closed",
                   !.harm = IF s.open[fd] = "other" THEN @ \cup {"other"} ELSE @]

-----------------------------------------------------------------------------
(* transfer_new: at the head of the list.                                  *)
New(s, type, len) ==
    [s EXCEPT !.xfer = [k \in DOMAIN @ \cup {next_xfer_refnum} |->
                           IF k = next_xfer_refnum THEN NewXfer(type, len) ELSE @[k]]]

transfer_destroy(s, x) == [s EXCEPT !.xfer = [k \in DOMAIN @ \ {x} |-> @[k]]]

irc_file_abort(s, x) == Close(pork_io_del(s, x), s.xfer[x].sock)

(* transfer_lost, transfer_cancel_local and transfer_cancel_remote only    *)
(* print before it.  A second one works on freed memory.                   *)
transfer_abort(s, x) ==
    IF x \in Listed(s) THEN transfer_destroy(irc_file_abort(s, x), x)
    ELSE Harm(s, "freed")

(* transfer_abort_all: transfer_abort of each of X, in whatever order.     *)
Socks(s, X) == {s.xfer[x].sock : x \in X} \ {None}

transfer_abort_all(s, X) ==
    [xfer |-> [k \in DOMAIN s.xfer \ X |-> s.xfer[k]],
     io   |-> [k \in DOMAIN s.io \ X |-> s.io[k]],
     open |-> [f \in Fds |-> IF f \in Socks(s, X) THEN "closed" ELSE s.open[f]],
     harm |-> s.harm \cup (IF \E f \in Socks(s, X) : s.open[f] = "other" THEN {"other"} ELSE {})]

(* transfer_send and irc_file_send: the transfer listens, or it cannot, is *)
(* aborted, and is then taken for lost.                                    *)
irc_file_send(s, x) ==
    {pork_io_add([Open(s, f) EXCEPT !.xfer[x].sock = f], x, "peer_connected", f) :
         f \in Free(s)}
    \cup {transfer_abort(transfer_abort(s, x), x)}

(* transfer_find_filename opens a file.  If there are 300 of that name it  *)
(* returns -EEXIST, which transfer_get does not take for an error.         *)
transfer_find_filename(s, x) == {[s EXCEPT !.xfer[x].fp = TRUE], s}

(* irc_file_accept: the connection is under way; if it fails, or is there  *)
(* at once, the transfer is aborted here and in transfer_get.              *)
irc_file_accept(s, x) ==
    {pork_io_add([Open(s, f) EXCEPT !.xfer[x].sock = f], x, "connected", f) :
         f \in Free(s)}
    \cup {transfer_abort(transfer_abort([s EXCEPT !.xfer[x].sock = None], x), x)}

Activated(s, x) ==
    IF x \in Listed(s) THEN [s EXCEPT !.xfer[x].status = "ACTIVE"] ELSE s

transfer_get(s, x) ==
    {Activated(t, x) : t \in UNION {irc_file_accept(u, x) : u \in transfer_find_filename(s, x)}}

(* irc_handler_dcc_resume and transfer_resume.                             *)
transfer_resume(s, x, offset) ==
    IF s.xfer[x].fp /\ offset < s.xfer[x].len
    THEN [s EXCEPT !.xfer[x].start = offset, !.xfer[x].pos = offset,
                   !.xfer[x].resumed = TRUE]
    ELSE transfer_abort(s, x)

(* A callback that closes its descriptor and ends the transfer.            *)
Ends(s, x, fd, How(_, _)) == How(Close(pork_io_del(s, x), fd), x)

(* mutant of PeerConnected: sock stays that of the listening socket        *)
PeerConnectedOldSock(s, x, fd) ==
    {pork_io_add([Open(Close(s, fd), f) EXCEPT !.xfer[x].status = "ACTIVE"],
                 x, "send_ready", f) : f \in Free(s)}
    \cup {transfer_abort(Close(pork_io_del(s, x), fd), x)}

(* mutant of PeerConnected: the listening socket stays open                *)
PeerConnectedListens(s, x, fd) ==
    {pork_io_add([Open(s, f) EXCEPT !.xfer[x].sock = f, !.xfer[x].status = "ACTIVE"],
                 x, "send_ready", f) : f \in Free(s)}
    \cup {transfer_abort(Close(pork_io_del(s, x), fd), x)}

(* irc_file_send_peer_connected: accept(), then the listening descriptor   *)
(* is closed.                                                              *)
PeerConnected(s, x, fd) ==
    {pork_io_add([Open(Close(s, fd), f) EXCEPT !.xfer[x].sock = f,
                                               !.xfer[x].status = "ACTIVE"],
                 x, "send_ready", f) : f \in Free(s)}
    \cup {transfer_abort(Close(pork_io_del(s, x), fd), x)}

(* transfer_recv_data and irc_recv_data: the peer is gone, the file cannot *)
(* be written, or the acknowledgement cannot; or one or two blocks came.   *)
Received(s, x, fd, n) ==
    LET t == [s EXCEPT !.xfer[x].sent = @ + n]
    IN  IF t.xfer[x].sent + t.xfer[x].start >= t.xfer[x].len
        THEN Ends(t, x, s.xfer[x].sock, transfer_destroy)
        ELSE t

transfer_recv_data(s, x, fd) ==
    {transfer_abort(s, x)}
    \cup (IF s.xfer[x].fp
          THEN {Received(s, x, fd, n) : n \in 1 .. 2}
               \cup {transfer_abort(Close(s, s.xfer[x].sock), x)}
          ELSE {Harm(s, "freed")})

(* mutant of SentAll: an acknowledgement of everything is not enough       *)
SentBeyond(t) == t.ack > t.len

SentAll(t) == t.ack >= t.len

(* irc_file_send_ready told that it may write.  A write that fails loses   *)
(* the transfer, whose ack is then looked at.                              *)
Sent(s, x) ==
    LET t == s.xfer[x]
        sent == [s EXCEPT !.xfer[x] =
                    [t EXCEPT !.sent = @ + 1, !.pos = @ + 1,
                              !.status = IF t.sent + 1 + t.start >= t.len
                                         THEN "COMPLETE" ELSE @]]
    IN  IF t.sent + t.start >= t.len THEN {s}
        ELSE {Harm(transfer_abort(s, x), "freed")} \cup {u \in {sent} : t.pos < t.len}

Written(s, x, fd) ==
    {IF x \in Listed(t) /\ SentAll(t.xfer[x])
     THEN Ends(t, x, fd, transfer_destroy) ELSE t : t \in Sent(s, x)}

(* ... that it may read: the peer says how much it has, in four bytes.     *)
Acks(t) == {n % AckLimit : n \in (t.ack + 1) .. t.pos}

Acked(s, x) == {[s EXCEPT !.xfer[x].ack = n] : n \in Acks(s.xfer[x])}

(* What was read comes before what is written; a source that is dead is    *)
(* told nothing else.                                                      *)
Served(s, x, fd) ==
    Acked(s, x) \cup UNION {Written(t, x, fd) : t \in Acked(s, x) \cup {s}}

irc_file_send_ready(s, x, fd) == {Ends(s, x, fd, transfer_abort)} \cup Served(s, x, fd)

-----------------------------------------------------------------------------
Init ==
    /\ xfer = [k \in {} |-> 0] /\ io = [k \in {} |-> 0]
    /\ open = [f \in Fds |-> "closed"]
    /\ next_xfer_refnum = 0
    /\ acct = TRUE /\ again = FALSE /\ harm = {}

Running == "freed" \notin harm

Becomes(S) ==
    \E s \in S : xfer' = s.xfer /\ io' = s.io /\ open' = s.open /\ harm' = s.harm

Keeps == UNCHANGED <<next_xfer_refnum, acct, again>>

Alive(x) == Running /\ acct /\ x \in Listed(Now)

NewRefnum ==
    /\ Running /\ acct /\ next_xfer_refnum < MaxXfers
    /\ next_xfer_refnum' = next_xfer_refnum + 1
    /\ UNCHANGED <<acct, again>>

(* "file send": the file is opened first.                                  *)
transfer_send ==
    /\ NewRefnum
    /\ \E len \in Lens : Becomes(irc_file_send(New(Now, "send", len), next_xfer_refnum))

(* DCC SEND: the peer offers a file.                                       *)
irc_handler_dcc_send ==
    /\ NewRefnum
    /\ \E len \in Lens : Becomes({New(Now, "recv", len)})

(* "file get" takes any transfer, "file get all" gets those that wait one  *)
(* after the other.                                                        *)
Get(x) ==
    /\ Alive(x)
    /\ Becomes(transfer_get(Now, x))
    /\ again' = (again \/ xfer[x].sock # None)
    /\ UNCHANGED <<next_xfer_refnum, acct>>

(* "file cancel", and the peer's DCC REJECT.                               *)
Cancel(x) == Alive(x) /\ Becomes({transfer_abort(Now, x)}) /\ Keeps

CancelAll ==
    /\ Running /\ acct
    /\ \E types \in SUBSET {"send", "recv"} \ {{}} :
          Becomes({transfer_abort_all(Now, {x \in Listed(Now) : xfer[x].type \in types})})
    /\ Keeps

(* DCC RESUME names the port; what the user receives has port 0, and the   *)
(* newest is found.                                                        *)
irc_handler_dcc_resume(x) ==
    /\ Alive(x)
    /\ xfer[x].type = "recv" => \A y \in Listed(Now) : xfer[y].type = "recv" => y <= x
    /\ \E offset \in 0 .. xfer[x].len : Becomes({transfer_resume(Now, x, offset)})
    /\ Keeps

(* The callbacks of the sources.                                           *)
Calls(x, callback) == Running /\ x \in DOMAIN io /\ io[x].callback = callback

Undefined(x) == x \notin Listed(Now) \/ ~acct

Callback(x, callback, S) ==
    /\ Calls(x, callback)
    /\ \/ Undefined(x) /\ Becomes({Harm(Now, "freed")})
       \/ ~Undefined(x) /\ Becomes(S)
    /\ Keeps

Listening(x) ==
    Callback(x, "peer_connected", PeerConnected(Now, x, io[x].fd))

Connected(x) ==
    Callback(x, "connected", {pork_io_add(Now, x, "recv_data", io[x].fd)})

Receiving(x) ==
    Callback(x, "recv_data", transfer_recv_data(Now, x, io[x].fd))

Sending(x) ==
    Callback(x, "send_ready", irc_file_send_ready(Now, x, io[x].fd))

(* pork_acct_free forgets the transfers of the account.                    *)
pork_acct_free ==
    /\ Running /\ acct /\ acct' = FALSE
    /\ UNCHANGED <<xfer, io, open, next_xfer_refnum, again, harm>>

(* The rest of the program opens and closes descriptors of its own.        *)
Others ==
    /\ Running
    /\ \E f \in Fds : /\ open[f] \in {"closed", "other"}
                      /\ open' = [open EXCEPT ![f] = IF @ = "closed" THEN "other" ELSE "closed"]
    /\ UNCHANGED <<xfer, io, next_xfer_refnum, acct, again, harm>>

Xfers == 0 .. MaxXfers - 1

Next ==
    \/ transfer_send \/ irc_handler_dcc_send \/ CancelAll \/ pork_acct_free \/ Others
    \/ \E x \in Xfers : \/ Get(x) \/ Cancel(x) \/ irc_handler_dcc_resume(x)
                        \/ Listening(x) \/ Connected(x) \/ Receiving(x) \/ Sending(x)

Spec == Init /\ [][Next]_vars

(* pork_io_run calls what is ready, and a peer that stays reads and        *)
(* acknowledges: what ends a transfer then is not that something failed.   *)
Works(x) ==
    Callback(x, "send_ready",
             {t \in Served(Now, x, io[x].fd) : "freed" \notin t.harm})

FairSpec == Spec /\ \A x \in Xfers : WF_vars(Works(x))

-----------------------------------------------------------------------------
Callbacks == {"peer_connected", "connected", "recv_data", "send_ready"}

TypeOK ==
    /\ xfer \in [Listed(Now) -> Xfer] /\ Listed(Now) \subseteq Xfers
    /\ io \in [DOMAIN io -> [callback : Callbacks, fd : Fds]]
    /\ open \in [Fds -> {"closed", "ours", "other"}]
    /\ next_xfer_refnum \in 0 .. MaxXfers
    /\ acct \in BOOLEAN /\ again \in BOOLEAN /\ harm \subseteq {"freed", "other"}

(* A source is called for a transfer that is still on the list, with the   *)
(* descriptor that the transfer has; and every descriptor is watched for   *)
(* one transfer, and is closed with it, unless the user has got a transfer *)
(* twice or one of his own (irc_file_abort, transfer_get).                 *)
SourcesAgree ==
    Running =>
       /\ \A x \in DOMAIN io : x \in Listed(Now) /\ io[x].fd = xfer[x].sock
       /\ ~again => \A f \in Fds : open[f] = "ours" =>
            Cardinality({x \in Listed(Now) : xfer[x].sock = f /\ x \in DOMAIN io}) = 1

(* The callbacks close some descriptors twice, but never one that belongs  *)
(* to another part of the program by then (irc_file_abort).                *)
ClosesOwn == "other" \notin harm

(* Sources, descriptors and transfers belong together: both of these.      *)
TransfersSound == SourcesAgree /\ ClosesOwn

(* A file that is being sent is sent, or the transfer ends, if the length  *)
(* fits an acknowledgement and the peer did not ask for an offset          *)
(* (irc_file_send_ready).                                                  *)
IsSending(x) == x \in DOMAIN io /\ io[x].callback = "send_ready" /\ x \in DOMAIN xfer

SendEnds ==
    \A x \in Xfers :
       (IsSending(x) /\ xfer[x].len < AckLimit)
          ~> (~Running \/ ~IsSending(x) \/ (IsSending(x) /\ xfer[x].resumed))
=============================================================================
