---------------------------- MODULE AimTransfers ----------------------------
(***************************************************************************)
(* The file transfers of an AIM account: pork_transfer.c over              *)
(* pork_aim_proto.c, pork_aim.c and libfaim's ft.c, conn.c and rxqueue.c.  *)
(*                                                                         *)
(* A transfer has a struct aim_oft_info, which points to a connection,     *)
(* which points back (priv).  The multiplexer watches the connection while *)
(* the peers shake hands, and then the transfer.  Closing a connection     *)
(* calls the handler of its death, which ends the transfer, which closes   *)
(* the connection; and the loss of the session frees all connections.      *)
(*                                                                         *)
(* Functions that call each other are operators from a state to a state or *)
(* to the states they may end in.  Lengths are counted in blocks of 4096   *)
(* bytes; a connection is named by the transfer it was made for and by     *)
(* what it is: a listener, what it accepted, or the first or second dialled. *)
(* Only the loop over connlist at the end of a session is made of steps,   *)
(* as many as there are connections, while nothing else runs.              *)
(* After harm nothing is defined any more.                                 *)
(***************************************************************************)
EXTENDS Integers

CONSTANTS Fds,        \* descriptors
          Lens,       \* lengths of files
          MaxXfers    \* bound on next_xfer_refnum

VARIABLES st,         \* transfer_list with the oft_info of each transfer, connlist,
                      \* the sources, the descriptors, and of what is not in the
                      \* code: harm, and what has happened (past)
          sess,       \* "up", "lost", or "gone" with the account; "losing" and
                      \* "going" in aim_session_kill
          next_xfer_refnum

vars == <<st, sess, next_xfer_refnum>>

None == -1
NULL == <<>>

(* The key of a transfer among the sources.                                *)
Of(x) == <<x>>

Listed(s) == DOMAIN s.xfer
Keys(s)   == {Of(x) : x \in Listed(s)} \cup DOMAIN s.conns
Kin(s)    == {x \in Listed(s) : s.xfer[x].known}

Harm(s, what) == [s EXCEPT !.harm = @ \cup {what}]
Past(s, what) == [s EXCEPT !.past = @ \cup {what}]

(* A connection that is under way has no descriptor yet to be closed.      *)
Midway(s, C) ==
    IF \E c \in C \cap DOMAIN s.conns : s.conns[c].fd = None THEN Past(s, "midway") ELSE s

-----------------------------------------------------------------------------
(* Sources, descriptors and connections.                                   *)

pork_io_del(s, key) == [s EXCEPT !.io = [k \in DOMAIN @ \ {key} |-> @[k]]]

pork_io_add(s, key, callback, fd) ==
    [s EXCEPT !.io = [k \in DOMAIN @ \cup {key} |->
                         IF k = key THEN [callback |-> callback, fd |-> fd] ELSE @[k]]]

Free(s) == {f \in Fds : s.open[f] = "closed"}

Open(s, f) == [s EXCEPT !.open[f] = "ours"]

Close(s, fd) ==
    IF fd = None THEN s
    ELSE [s EXCEPT !.open[fd] = "closed",
                   !.harm = IF s.open[fd] = "other" THEN @ \cup {"other"} ELSE @]

(* aim_newconn, aim_cloneconn.                                             *)
Newconn(s, c, fd, handlers) ==
    [s EXCEPT !.conns = [k \in DOMAIN @ \cup {c} |->
                            IF k = c THEN [fd |-> fd, priv |-> c[1], handlers |-> handlers]
                            ELSE @[k]]]

aim_clearhandlers(s, c) ==
    IF c = NULL THEN s
    ELSE IF c \notin DOMAIN s.conns THEN Harm(s, "freed")
    ELSE [s EXCEPT !.conns[c].handlers = {}]

(* aim_conn_close without the handler of its death.                        *)
Shut(s, c) ==
    IF c \notin DOMAIN s.conns THEN Harm(s, "freed")
    ELSE [Close(s, s.conns[c].fd) EXCEPT !.conns[c].fd = None]

(* mutant of aim_conn_kill: the descriptor stays open                      *)
KillOnly(s, c) == [s EXCEPT !.conns = [k \in DOMAIN @ \ {c} |-> @[k]]]

(* aim_conn_kill, where that handler has been cleared; one that is not in  *)
(* connlist is left alone.  The pointer to it stays as it is.              *)
aim_conn_kill(s, c) ==
    IF c \notin DOMAIN s.conns THEN s
    ELSE [Shut(s, c) EXCEPT !.conns = [k \in DOMAIN @ \ {c} |-> @[k]]]

-----------------------------------------------------------------------------
(* Transfers and their ends.                                               *)

transfer_new(s, x, type, len) ==
    [s EXCEPT !.xfer = [k \in DOMAIN @ \cup {x} |->
        IF k = x THEN [type |-> type, status |-> "WAITING", sock |-> None, len |-> len,
                       sent |-> 0, fp |-> type = "send", info |-> FALSE,
                       known |-> FALSE, conn |-> NULL]
        ELSE @[k]]]

transfer_destroy(s, x) == [s EXCEPT !.xfer = [k \in DOMAIN @ \ {x} |-> @[k]]]

(* aim_oft_createinfo, and aim_oft_destroyinfo, which looks for it in the  *)
(* list of the session, and takes that for not empty.                      *)
aim_oft_createinfo(s, x) == [s EXCEPT !.xfer[x].info = TRUE, !.xfer[x].known = TRUE]

aim_oft_destroyinfo(s, x) == IF Kin(s) = {} THEN Harm(s, "freed") ELSE s

(* aim_file_abort, from the handler of the death of a connection or not.   *)
aim_file_abort(s, x, in_handler) ==
    LET t == pork_io_del(s, Of(x))
        c == s.xfer[x].conn
        u == aim_clearhandlers(pork_io_del(t, c), c)
    IN  IF ~s.xfer[x].info THEN t
        ELSE IF c \notin DOMAIN s.conns \cup {NULL} THEN u
        ELSE aim_oft_destroyinfo(IF in_handler THEN Shut(u, c) ELSE aim_conn_kill(u, c), x)

Abort(s, x, in_handler) ==
    IF x \notin Listed(s) THEN Harm(s, "freed")
    ELSE transfer_destroy(aim_file_abort(s, x, in_handler), x)

(* transfer_lost and transfer_cancel_local, which print before.            *)
transfer_abort(s, x) == Abort(s, x, FALSE)

(* aim_file_send_complete and aim_file_recv_complete, which tells the peer *)
(* on the connection first.                                                *)
Complete(s, x) ==
    LET c == s.xfer[x].conn
    IN  IF c \notin DOMAIN s.conns \cup {NULL} THEN Harm(s, "freed")
        ELSE transfer_destroy(pork_io_del(aim_oft_destroyinfo(
                aim_conn_kill(aim_clearhandlers(s, c), c), x), Of(x)), x)

(* mutant of aim_file_transfer_dead: the transfer is not told that it is   *)
(* in the handler                                                          *)
DeadKills(s, c) ==
    LET x == s.conns[c].priv
    IN  IF x \notin Listed(s) THEN Harm(s, "freed")
        ELSE Abort(pork_io_del(pork_io_del(s, Of(x)), c), x, FALSE)

aim_file_transfer_dead(s, c) ==
    LET x == s.conns[c].priv
    IN  IF x \notin Listed(s) THEN Harm(s, "freed")
        ELSE Abort(pork_io_del(pork_io_del(s, Of(x)), c), x, TRUE)

(* aim_conn_close as libfaim calls it.                                     *)
aim_conn_close(s, c) ==
    LET t == Shut(s, c)
        u == IF "dead" \in t.conns[c].handlers THEN aim_file_transfer_dead(t, c) ELSE t
    IN  aim_clearhandlers(u, c)

-----------------------------------------------------------------------------
(* Sending: the listener, the peer's answer and its word that it is ready. *)

(* aim_file_send, which needs the descriptor of the basic service, free or *)
(* not: without a port the transfer is lost.                               *)
aim_file_send(s, x) ==
    {LET c == <<x, "listener">>
     IN  [pork_io_add(Newconn(Open(aim_oft_createinfo(s, x), f), c, f, {"established"}),
                      c, "listening", f) EXCEPT !.xfer[x].sock = f, !.xfer[x].conn = c]
      : f \in Free(s)}
    \cup {transfer_abort(s, x)}

(* aim_handlerendconnect and aim_file_send_accepted.  If the peer has gone *)
(* already the listener is used after it was freed.                        *)
Accepted(s, c, f) ==
    LET x == c[1]
        n == <<x, "accepted">>
        t == [Newconn(Open(s, f), n, f, {"ack", "done", "dead"})
                 EXCEPT !.xfer[x].sock = f, !.xfer[x].conn = n]
        u == aim_conn_kill(pork_io_del(t, c), c)
    IN  {Past(Harm(Abort(u, x, TRUE), "freed"), "vanished"),
         [pork_io_add(u, n, "event", f) EXCEPT !.xfer[x].status = "ACTIVE"]}

aim_listen_conn_event(s, c, fd) ==
    {transfer_abort(Close(s, fd), s.conns[c].priv)}
    \cup (IF s.conns[c].priv \in Listed(s) THEN UNION {Accepted(s, c, f) : f \in Free(s)}
          ELSE {Harm(s, "freed")})

aim_file_send_ready(s, c) ==
    LET x == s.conns[c].priv
    IN  IF x \notin Listed(s) THEN Harm(s, "freed")
        ELSE pork_io_add(pork_io_del(s, c), Of(x), "send_data", s.xfer[x].sock)

aim_file_send_done(s, c) ==
    LET x == s.conns[c].priv
    IN  IF x \notin Listed(s) THEN Harm(s, "freed") ELSE Complete(pork_io_del(s, c), x)

(* transfer_send_data and aim_file_send_data: an empty file is lost.       *)
transfer_send_data(s, x) ==
    {transfer_abort(s, x)}
    \cup {LET t == [s EXCEPT !.xfer[x].sent = @ + 1]
          IN  IF t.xfer[x].sent >= t.xfer[x].len THEN Complete(pork_io_del(t, Of(x)), x) ELSE t
          : y \in {x} \cap {z \in Listed(s) : s.xfer[z].sent < s.xfer[z].len}}

-----------------------------------------------------------------------------
(* Receiving: dialling the peer, its word that it begins, and the file.    *)

(* aim_connected.                                                          *)
Connected(s, c, fd) ==
    LET x == s.conns[c].priv
    IN  IF x \notin Listed(s) THEN Harm(s, "freed")
        ELSE [pork_io_add(s, c, "event", fd) EXCEPT !.conns[c].fd = fd, !.xfer[x].sock = fd]

NotConnected(s, c, fd) == transfer_abort(Close(pork_io_del(s, c), fd), s.conns[c].priv)

aim_connected(s, c, fd) == {Connected(pork_io_del(s, c), c, fd), NotConnected(s, c, fd)}

Dialled(s, x) == IF <<x, "dialled">> \in DOMAIN s.conns THEN <<x, "redialled">> ELSE <<x, "dialled">>

(* aim_file_accept: it takes time, or is there at once, or fails at once.  *)
(* The last leaves a pointer to the connection, which transfer_get uses;   *)
(* and if what was there at once has an error, the transfer is gone.       *)
aim_file_accept(s, x) ==
    LET c == Dialled(s, x)
        t == [Newconn(s, c, None, {"prompt", "dead"}) EXCEPT !.xfer[x].conn = c]
    IN  {Past(transfer_abort(aim_conn_kill(t, c), x), "refused")}
        \cup UNION {{pork_io_add(Open(t, f), c, "connected", f),
                     Connected(Open(t, f), c, f),
                     Past(Harm(NotConnected(Open(t, f), c, f), "freed"), "refused")} : f \in Free(t)}

(* transfer_find_filename may leave the transfer without a file.           *)
transfer_get(s, x) ==
    LET named == {[s EXCEPT !.xfer[x].fp = TRUE]}
                 \cup (IF s.xfer[x].fp THEN {} ELSE {Past(s, "noname")})
    IN  {IF x \in Listed(t) THEN [t EXCEPT !.xfer[x].status = "ACTIVE"] ELSE t
         : t \in UNION {aim_file_accept(u, x) : u \in named}}

(* aim_file_recv_accept; that it sends goes by the transfer, whose         *)
(* connection may be another by then.                                      *)
aim_file_recv_accept(s, c) ==
    LET x == s.conns[c].priv
        t == aim_clearhandlers(pork_io_del(s, c), c)
    IN  IF x \notin Listed(s) THEN {Harm(s, "freed")}
        ELSE {pork_io_add(t, Of(x), "recv_data", s.xfer[x].sock), Past(Abort(t, x, TRUE), "unnamed")}

(* transfer_recv_data and aim_file_recv_data.                              *)
transfer_recv_data(s, x) ==
    {transfer_abort(s, x)}
    \cup (IF ~s.xfer[x].fp THEN {Harm(s, "freed")}
          ELSE {LET t == [s EXCEPT !.xfer[x].sent = @ + n]
                IN  IF t.xfer[x].sent >= t.xfer[x].len THEN Complete(t, x) ELSE t : n \in 1 .. 2})

(* aim_get_command: a frame, for which there is a handler or not; or the   *)
(* peer is gone.                                                           *)
Frame(s, c, type) ==
    IF type \notin s.conns[c].handlers THEN {s}
    ELSE CASE type = "ack"    -> {aim_file_send_ready(s, c)}
           [] type = "done"   -> {aim_file_send_done(s, c)}
           [] type = "prompt" -> aim_file_recv_accept(s, c)

aim_conn_event(s, c) ==
    {transfer_abort(s, s.conns[c].priv), aim_conn_kill(aim_conn_close(s, c), c)}
    \cup UNION {Frame(s, c, type) : type \in {"ack", "done", "prompt"}}

-----------------------------------------------------------------------------
(* The session.  aim_kill_all_conn stops watching the connections, closes  *)
(* and frees them one after the other; aim_setup forgets the list of infos. *)

Unwatched(s) == [s EXCEPT !.io = [k \in DOMAIN @ \ DOMAIN s.conns |-> @[k]]]

Killed(s, c) == aim_conn_kill(aim_conn_close(s, c), c)

Forgotten(s) ==
    IF Listed(s) = {} THEN s
    ELSE Past([s EXCEPT !.xfer = [x \in DOMAIN @ |-> [@[x] EXCEPT !.known = FALSE]]], "lost")

-----------------------------------------------------------------------------
Init ==
    /\ st = [xfer |-> [k \in {} |-> 0], conns |-> [k \in {} |-> 0],
             io |-> [k \in {} |-> 0], open |-> [f \in Fds |-> "closed"], harm |-> {}, past |-> {}]
    /\ sess = "up" /\ next_xfer_refnum = 0

Becomes(S) == st.harm = {} /\ st' \in S

Keeps == UNCHANGED <<sess, next_xfer_refnum>>

(* There is an account, and it is not in the loop over its connections.    *)
Commands == sess \in {"up", "lost"}

NewRefnum ==
    /\ Commands /\ next_xfer_refnum < MaxXfers
    /\ next_xfer_refnum' = next_xfer_refnum + 1
    /\ UNCHANGED sess

(* "file send", which does not ask whether there is a connection.          *)
transfer_send ==
    /\ NewRefnum
    /\ \E len \in Lens :
          LET s == transfer_new(st, next_xfer_refnum, "send", len)
          IN  Becomes(IF sess = "up" THEN aim_file_send(s, next_xfer_refnum)
                      ELSE {Past(Harm(s, "freed"), "offline")})

(* The peer offers a file, which is not empty.                             *)
parse_im_chan2 ==
    /\ NewRefnum /\ sess = "up"
    /\ \E len \in Lens \ {0} :
          Becomes({aim_oft_createinfo(transfer_new(st, next_xfer_refnum, "recv", len),
                                      next_xfer_refnum)})

(* "file get" of any transfer, twice at most.                              *)
Get(x) ==
    /\ Commands /\ x \in Listed(st) /\ <<x, "redialled">> \notin DOMAIN st.conns
    /\ Becomes({IF st.xfer[x].conn = NULL THEN t ELSE Past(t, "again") : t \in transfer_get(st, x)})
    /\ Keeps

(* "file cancel".                                                          *)
Cancel(x) ==
    /\ Commands /\ x \in Listed(st)
    /\ Becomes({transfer_abort(Midway(st, {st.xfer[x].conn}), x)})
    /\ Keeps

(* pork_io_run: a callback whose data is freed, or whose account is.       *)
Calls(key, callback) == key \in DOMAIN st.io /\ st.io[key].callback = callback

Callback(key, callback, S) ==
    /\ Calls(key, callback) /\ sess \notin {"losing", "going"} /\ Keeps
    /\ IF sess = "gone" \/ key \notin Keys(st)
       THEN Becomes({Harm(st, "freed")}) ELSE Becomes(S)

Listening(c) == Callback(c, "listening", aim_listen_conn_event(st, c, st.io[c].fd))
Dialling(c)  == Callback(c, "connected", aim_connected(st, c, st.io[c].fd))
Shaking(c)   == Callback(c, "event", aim_conn_event(st, c))
Sending(x)   == Callback(Of(x), "send_data", transfer_send_data(st, x))
Receiving(x) == Callback(Of(x), "recv_data", transfer_recv_data(st, x))

(* aim_connect_abort, and aim_acct_free with pork_acct_free, which forgets *)
(* the transfers: both begin with aim_kill_all_conn.                       *)
aim_kill_all_conn(next) ==
    /\ sess' = next
    /\ Becomes({Unwatched(Midway(st, DOMAIN st.conns))}) /\ UNCHANGED next_xfer_refnum

Lost           == sess = "up" /\ aim_kill_all_conn("losing")
pork_acct_free == Commands /\ aim_kill_all_conn("going")

(* aim_session_kill: a connection of those that are left, or aim_setup.    *)
aim_connrst(c) ==
    /\ sess \in {"losing", "going"} /\ c \in DOMAIN st.conns
    /\ Becomes({Killed(st, c)}) /\ Keeps

aim_setup ==
    /\ sess \in {"losing", "going"} /\ DOMAIN st.conns = {}
    /\ sess' = IF sess = "losing" THEN "lost" ELSE "gone"
    /\ Becomes({Forgotten(st)}) /\ UNCHANGED next_xfer_refnum

(* The connection that is made again.                                      *)
Again == sess = "lost" /\ sess' = "up" /\ UNCHANGED <<st, next_xfer_refnum>>

(* The rest of the program opens and closes descriptors of its own.        *)
Others ==
    /\ sess \notin {"losing", "going"} /\ Keeps
    /\ \E f \in Fds : /\ st.open[f] \in {"closed", "other"}
                      /\ Becomes({[st EXCEPT !.open[f] = IF @ = "closed" THEN "other" ELSE "closed"]})

Xfers == 0 .. MaxXfers - 1
Hows  == {"listener", "accepted", "dialled", "redialled"}

Next ==
    \/ transfer_send \/ parse_im_chan2 \/ Lost \/ pork_acct_free \/ aim_setup \/ Again \/ Others
    \/ \E x \in Xfers : \/ Get(x) \/ Cancel(x) \/ Sending(x) \/ Receiving(x)
                        \/ Listening(<<x, "listener">>) \/ Shaking(<<x, "accepted">>)
                        \/ \E how \in {"dialled", "redialled"} :
                              Dialling(<<x, how>>) \/ Shaking(<<x, how>>)
                        \/ \E how \in Hows : aim_connrst(<<x, how>>)

Spec == Init /\ [][Next]_vars

-----------------------------------------------------------------------------
(* What is watched is there, every descriptor is watched by one source,    *)
(* and transfers and connections point to each other, while nothing out    *)
(* of the ordinary has happened (aim_file_send_accepted, aim_file_accept). *)
PointersAgree ==
    st.past = {} /\ st.harm = {} /\ sess = "up" =>
       /\ DOMAIN st.io \subseteq Keys(st)
       /\ \A f \in Fds : st.open[f] = "ours" => \E k \in DOMAIN st.io : st.io[k].fd = f
       /\ \A j, k \in DOMAIN st.io : st.io[j].fd = st.io[k].fd => j = k
       /\ \A c \in DOMAIN st.conns : c[1] \in Listed(st) /\ st.xfer[c[1]].conn = c
       /\ \A x \in Listed(st) : st.xfer[x].conn \in DOMAIN st.conns \cup {NULL}

(* Freed memory is used only if a transfer was got twice, or sent without  *)
(* a connection; if the peer refuses at once or vanishes when it has been  *)
(* accepted; if there is no name for the file; or after the session was    *)
(* lost, or the account deleted, under a transfer.  No descriptor of       *)
(* another part of the program is closed without that (aim_file_abort,     *)
(* aim_file_transfer_dead).                                                *)
KnownHarm ==
    st.harm # {} =>
       \/ sess = "gone"
       \/ st.past \cap {"again", "offline", "refused", "vanished", "noname", "lost"} # {}

(* A session that is lost takes the transfers with it, but those that are  *)
(* only offered and a file that is being received (aim_kill_all_conn).     *)
LostWithSession ==
    sess = "lost" /\ st.past \subseteq {"lost", "midway"} /\ st.harm = {} =>
       /\ DOMAIN st.conns \subseteq {<<x, "dialled">> : x \in Xfers}
       /\ \A x \in Listed(st) :
             \/ st.xfer[x].status = "WAITING"
             \/ st.xfer[x].type = "recv"

(* All of these: the file transfers of AIM (pork_aim_proto.c).             *)
AimTransfersSound == PointersAgree /\ KnownHarm /\ LostWithSession
=============================================================================
