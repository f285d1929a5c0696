----------------------------- MODULE AimSession -----------------------------
(***************************************************************************)
(* The connections of an AIM account: pork_aim.c and pork_aim_proto.c over *)
(* libfaim's conn.c, txqueue.c, rxqueue.c, auth.c, service.c and chatnav.c. *)
(*                                                                         *)
(* A login takes a connection to the authorizer (auth), then one to the    *)
(* basic service (bos); rooms are made through a third (nav) and each room *)
(* that was joined has its own (chat).  Each is dialled, sends a cookie,   *)
(* and goes through the same hand-shake.  They refer to each other, to the *)
(* rooms and to the windows by pointers, and any of them may be lost in    *)
(* the middle of what another is waiting for.                              *)
(*                                                                         *)
(* A connection is named by its address, which may be that of an earlier   *)
(* one: the least free address, or one that a pointer still holds.  The    *)
(* server is external: owes is what it has been asked for on a connection  *)
(* and will answer in that order.  kept says that the request is still in  *)
(* the cache of SNACs.  After harm nothing is defined any more.            *)
(***************************************************************************)
EXTENDS Integers, SequencesExt

CONSTANTS Conns,      \* addresses of connections
          Chats,      \* addresses of rooms (struct chatroom)
          Rooms,      \* titles of rooms
          MaxTries,   \* RECONNECT_TRIES
          Plays       \* how often each may happen: joins, what the user ends (ends),
                      \* what fails (fails) and minutes; and the options
                      \* AUTO_RECONNECT (auto) and AUTO_REJOIN (rejoin)

ASSUME ConnsAssumption == Conns \subseteq Nat /\ Chats \subseteq Nat
ASSUME TriesAssumption == MaxTries \in Nat
ASSUME PlaysAssumption ==
    Plays \subseteq [joins : Nat, ends : Nat, fails : Nat, minutes : Nat,
                     auto : BOOLEAN, rejoin : BOOLEAN]

VARIABLES acct,        \* the flags of the account, and struct aim_priv
          conns,       \* session->connlist
          src,         \* the source of each connection in io_list
          chat_list,   \* the rooms of the account, newest first
          chats,       \* struct chatroom and struct aim_chat of each
          wins,        \* the window of each room: Shut, None (its data is
                       \* NULL), or the room it shows
          harm,        \* freed memory or NULL has been used, or a request
                       \* has gone to a connection of another kind
          past,        \* not in the code: what has happened
          left         \* what is left of the play

vars == <<acct, conns, src, chat_list, chats, wins, harm, past, left>>

None == -1
Shut == -2

Now == [acct |-> acct, conns |-> conns, src |-> src, list |-> chat_list,
        chats |-> chats, wins |-> wins, harm |-> harm, past |-> past]

Becomes(S) ==
    /\ harm = {}
    /\ \E s \in S : /\ acct' = s.acct /\ conns' = s.conns /\ src' = s.src
                    /\ chat_list' = s.list /\ chats' = s.chats /\ wins' = s.wins
                    /\ harm' = s.harm /\ past' = s.past

Harm(s, what) == [s EXCEPT !.harm = @ \cup {what}]
Past(s, what, really) == IF really THEN [s EXCEPT !.past = @ \cup {what}] ELSE s

-----------------------------------------------------------------------------
(* Connections: aim_newconn, aim_conn_kill, and a frame sent on one.       *)

Free(s) == Conns \ DOMAIN s.conns
Stale(s) == {s.acct.bos, s.acct.nav} \ {None}
Fresh(s) == {c \in Free(s) : c \in Stale(s) \/ \A d \in Free(s) : c <= d}

Newconn(s, c, type) ==
    [s EXCEPT !.conns = [d \in DOMAIN @ \cup {c} |->
        IF d = c THEN [type |-> type, status |-> "new", chat |-> None, owes |-> <<>>] ELSE @[d]]]

pork_io_del(s, c) == [s EXCEPT !.src[c] = "none"]

Dropped(s, c) == [s EXCEPT !.conns = [d \in DOMAIN @ \ {c} |-> @[d]]]

(* mutant of Kill: the source stays                                        *)
KillOnly(s, c) == Dropped(s, c)

Kill(s, c) == pork_io_del(Dropped(s, c), c)

(* aim_tx_enqueue on a connection named by a pointer.                      *)
Ask(s, c, type, m, room) ==
    IF c = None THEN s
    ELSE IF c \notin DOMAIN s.conns THEN Harm(s, "freed")
    ELSE IF s.conns[c].type # type THEN Harm(s, "astray")
    ELSE IF s.conns[c].status # "up" THEN s
    ELSE [s EXCEPT !.conns[c].owes =
             Append(@, [m |-> m, room |-> room, kept |-> TRUE])]

(* aim_connected when it is there, aim_conn_completeconnect, and the first *)
(* frame: aim_request_login or aim_sendcookie.                             *)
Connected(s, c) ==
    LET type == s.conns[c].type
    IN  Ask([s EXCEPT !.conns[c].status = "up", !.src[c] = "event"], c, type,
            IF type = "auth" THEN "key" ELSE "online", None)

Connecting(s, c) == [s EXCEPT !.conns[c].status = "inprogress", !.src[c] = "connected"]

(* aim_newconn and aim_sock_connect when it does not fail.                 *)
Dialled(s, c, type) ==
    LET t == Newconn(s, c, type) IN {Connected(t, c), Connecting(t, c)}

Dial(s, type) == UNION {Dialled(s, c, type) : c \in Fresh(s)}

-----------------------------------------------------------------------------
(* Rooms and windows: pork_chat.c as the AIM session uses it.              *)

(* chat_find: the names of the rooms before it in the list are read.       *)
Read(s, r) == {i \in DOMAIN s.list : s.chats[s.list[i]].room = r \/ ~s.chats[s.list[i]].data}
Found(s, r) ==
    IF Read(s, r) = {} THEN None
    ELSE s.list[CHOOSE i \in Read(s, r) : \A j \in Read(s, r) : i <= j]
FindsFreed(s, r) == Found(s, r) # None /\ ~s.chats[Found(s, r)].data

chat_new(s, c, r, k) ==
    [s EXCEPT !.list = <<k>> \o @,
              !.chats = [j \in DOMAIN @ \cup {k} |->
                  IF j = k THEN [room |-> r, conn |-> c, data |-> TRUE, win |-> TRUE] ELSE @[j]],
              !.wins[r] = k,
              !.conns[c].chat = k]

Forget(s, k) ==
    [s EXCEPT !.list = RemoveAt(@, CHOOSE i \in DOMAIN @ : @[i] = k),
              !.chats = [j \in DOMAIN @ \ {k} |-> @[j]]]

(* mutant of chat_free: the connection stays                               *)
ChatFreeKeepsConn(s, k) == Forget([s EXCEPT !.wins[s.chats[k].room] = None], k)

(* mutant of chat_free: the window still shows the room                    *)
ChatFreeKeepsWin(s, k) == Forget(Kill(s, s.chats[k].conn), k)

(* chat_free and aim_chat_free.  win is FALSE when the window has gone.    *)
chat_free(s, k) ==
    IF ~s.chats[k].win THEN Harm(s, "window")
    ELSE Forget(Kill([s EXCEPT !.wins[s.chats[k].room] = None], s.chats[k].conn), k)

(* chat_forced_leave, which says so in the window first.                   *)
ForcedLeave(s, r) ==
    IF Found(s, r) = None THEN s
    ELSE IF FindsFreed(s, r) \/ ~s.chats[Found(s, r)].win THEN Harm(s, "freed")
    ELSE IF left.rejoin THEN s
    ELSE chat_free(s, Found(s, r))

(* chat_leave and aim_leave_chatroom.                                      *)
Leave(s, r) ==
    IF Found(s, r) = None THEN s
    ELSE IF FindsFreed(s, r) THEN Harm(s, "freed")
    ELSE chat_free(s, Found(s, r))

(* imwindow_destroy.                                                       *)
Destroy(s, r) ==
    [s EXCEPT !.wins[r] = Shut,
              !.chats = [k \in DOMAIN @ |->
                  IF @[k].room = r THEN [@[k] EXCEPT !.win = FALSE] ELSE @[k]]]

-----------------------------------------------------------------------------
(* The account.                                                            *)

(* The rooms that wait for the chatnav connection are freed, the list      *)
(* still points to them.                                                   *)
aim_kill_pending_chats(s) ==
    IF s.acct.dangling THEN Harm(s, "pending")
    ELSE Past([s EXCEPT !.acct.pend = <<>>, !.acct.dangling = s.acct.pend # <<>>],
              "unjoined", s.acct.pend # <<>>)

(* aim_kill_all_conn: what the rooms have of AIM is freed, they stay.      *)
KillAll(s) ==
    IF \E k \in DOMAIN s.chats : ~s.chats[k].data THEN Harm(s, "freed")
    ELSE [s EXCEPT !.conns = [c \in {} |-> 0],
                   !.src = [c \in Conns |-> "none"],
                   !.chats = [k \in DOMAIN @ |-> [@[k] EXCEPT !.data = FALSE]]]

(* and aim_setup, which resets the session but not struct aim_priv.        *)
aim_connect_abort(s) ==
    Past(KillAll(aim_kill_pending_chats(s)), "lost",
         s.chats # <<>> \/ s.acct.nav # None)

Acct(on) ==
    [on |-> on, connected |-> FALSE, disconnected |-> FALSE, reconnecting |-> FALSE,
     successful |-> FALSE, tries |-> 0,
     bos |-> None, nav |-> None, pend |-> <<>>, dangling |-> FALSE]

(* pork_acct_del: chat_leave_all, aim_acct_free.                           *)
Del(s) ==
    IF s.acct.dangling \/ \E k \in DOMAIN s.chats : ~s.chats[k].data \/ ~s.chats[k].win
    THEN Harm(s, "freed")
    ELSE [KillAll(s) EXCEPT !.acct = Acct(FALSE), !.list = <<>>, !.chats = <<>>,
                            !.wins = [r \in Rooms |-> Shut]]

(* aim_login; if the dial fails it returns.                                *)
aim_login(s) ==
    LET t == [s EXCEPT !.acct.connected = FALSE] IN Dial(t, "auth") \cup {t}

pork_acct_reconnect(s) ==
    aim_login([s EXCEPT !.acct.tries = @ + 1, !.acct.reconnecting = TRUE])

pork_acct_connect_fail(s) ==
    LET t == [s EXCEPT !.acct.connected = FALSE, !.acct.reconnecting = FALSE,
                       !.acct.disconnected = TRUE]
    IN  IF t.acct.tries >= MaxTries THEN Del(t) ELSE t

pork_acct_disconnected(s) ==
    IF ~s.acct.successful \/ ~left.auto THEN {Del(s)}
    ELSE IF ~s.acct.connected THEN {pork_acct_connect_fail(s)}
    ELSE pork_acct_reconnect([s EXCEPT !.acct.connected = FALSE,
                                       !.acct.disconnected = TRUE, !.acct.tries = 0])

(* chat_rejoin_all, called while reconnecting, returns at once, as AIM   *)
(* sets no chat_rejoin.                                                  *)
pork_acct_connected(s) ==
    [s EXCEPT !.acct.connected = TRUE, !.acct.successful = TRUE, !.acct.tries = 0,
              !.acct.disconnected = FALSE, !.acct.reconnecting = FALSE]

-----------------------------------------------------------------------------
Init ==
    /\ acct = Acct(TRUE)
    /\ chat_list = <<>> /\ chats = <<>>
    /\ wins = [r \in Rooms |-> Shut]
    /\ harm = {} /\ past = {}
    /\ left \in Plays
    /\ \E s \in Dial([acct |-> acct, conns |-> <<>>, src |-> [c \in Conns |-> "none"],
                     list |-> chat_list, chats |-> chats, wins |-> wins,
                     harm |-> harm, past |-> past], "auth") :
           conns = s.conns /\ src = s.src

Fails == left.fails > 0 /\ left' = [left EXCEPT !.fails = @ - 1]
Quits == left.ends > 0 /\ left' = [left EXCEPT !.ends = @ - 1]

(* aim_connected, told that the connection is there or is not.             *)
ConnectOk(c) ==
    /\ src[c] = "connected" /\ UNCHANGED left
    /\ Becomes({Connected(Now, c)})

ConnectFails(c) ==
    /\ src[c] = "connected" /\ Fails
    /\ LET s == pork_io_del(Now, c)
           type == conns[c].type
       IN  Becomes(IF type = "nav" THEN {Kill(aim_kill_pending_chats(s), c)}
                   ELSE IF type = "chat" THEN {ForcedLeave(s, chats[conns[c].chat].room)}
                   ELSE pork_acct_disconnected(s))

(* aim_get_command fails: aim_conn_close, and aim_conn_dead if there is    *)
(* one; the descriptor of the authorizer's is closed, which select finds.  *)
HangUp(c) ==
    /\ src[c] = "event" /\ Fails
    /\ Becomes({[Past(Now, "hung", conns[c].type = "auth") EXCEPT
                    !.conns[c].status = "closed", !.conns[c].owes = <<>>, !.src[c] = "dead"]})

(* aim_conn_event called for a source that is dead.                        *)
Dead(c) ==
    /\ src[c] = "dead" /\ UNCHANGED left
    /\ LET s == pork_io_del(Now, c)
           type == conns[c].type
       IN  Becomes(IF type = "bos" THEN pork_acct_disconnected(aim_connect_abort(s))
                   ELSE IF type = "chat" THEN {ForcedLeave(s, chats[conns[c].chat].room)}
                   ELSE IF type = "nav"
                   THEN {[Kill(aim_kill_pending_chats(s), c) EXCEPT !.acct.nav = None]}
                   ELSE {s})

-----------------------------------------------------------------------------
(* aim_conn_event called to read, and aim_rxdispatch: the answer to the    *)
(* oldest request.                                                         *)

Hears(c, m) ==
    /\ src[c] = "event" /\ conns[c].owes # <<>>
    /\ Head(conns[c].owes).m = m

Answer(c) == Head(conns[c].owes)
Heard(c)  == [Now EXCEPT !.conns[c].owes = Tail(@)]

(* mutant of Dispatched: nobody looks whether anything is left             *)
DispatchedOn(S) == Becomes(S)

(* If the session has no connection left the login is over.                *)
Dispatched(S) ==
    Becomes(UNION {IF s.conns = <<>> THEN pork_acct_disconnected(s) ELSE {s} : s \in S})

Next1(c, m, next) ==
    /\ Hears(c, m) /\ UNCHANGED left
    /\ Dispatched({Ask(Heard(c), c, conns[c].type, next, None)})

(* aim_parse_login, hostonline, hostversions.                              *)
aim_parse_login(c) == Next1(c, "key", "login")
hostonline(c)      == Next1(c, "online", "versions")
hostversions(c)    == Next1(c, "versions", "rates")

(* rateresp: the hand-shake is done, and what is next depends on what the  *)
(* connection is for.                                                      *)
aim_recv_conn_complete(c) ==
    conns[c].type = "bos" /\ Next1(c, "rates", "rights")

recv_chatnav_conn(c) ==
    /\ conns[c].type = "nav" /\ Hears(c, "rates") /\ UNCHANGED left
    /\ Dispatched({[Ask(Heard(c), c, "nav", "info", None) EXCEPT !.acct.nav = c]})

recv_chat_conn(c) ==
    /\ conns[c].type = "chat" /\ Hears(c, "rates") /\ UNCHANGED left
    /\ Dispatched({Heard(c)})

(* aim_parse_authresp: the connection is gone before anything is looked    *)
(* at.  If the next cannot be dialled, the frame, which has not been       *)
(* handled, is looked at again and its connection with it.                 *)
aim_parse_authresp(c) ==
    /\ Hears(c, "login") /\ UNCHANGED left
    /\ Dispatched(Dial(Kill(Heard(c), c), "bos"))

aim_parse_authresp_error(c) ==
    /\ Hears(c, "login") /\ Fails
    /\ Dispatched({Kill(Heard(c), c),
                   Harm(Past(Kill(Heard(c), c), "refused", TRUE), "freed")})

aim_recv_bos_rights(c) ==
    /\ Hears(c, "rights") /\ UNCHANGED left
    /\ Dispatched({[Ask(Heard(c), c, "bos", "list", None) EXCEPT !.acct.bos = c]})

aim_ssi_recv_list(c) ==
    /\ Hears(c, "list") /\ UNCHANGED left
    /\ Dispatched({IF acct.connected THEN Heard(c) ELSE pork_acct_connected(Heard(c))})

(* aim_recv_chatnav_info, the rights: the rooms that wait are asked for.   *)
Created(s, c, rooms) ==
    [s EXCEPT !.conns[c].owes =
        @ \o [i \in DOMAIN rooms |-> [m |-> "created", room |-> rooms[i], kept |-> TRUE]]]

aim_recv_chatnav_info(c) ==
    /\ Hears(c, "info") /\ UNCHANGED left
    /\ Dispatched({IF ~Answer(c).kept THEN Past(Heard(c), "unjoined", acct.pend # <<>>)
                   ELSE IF acct.dangling THEN Harm(Heard(c), "pending")
                   ELSE [Created(Heard(c), c, acct.pend) EXCEPT !.acct.pend = <<>>]})

(* and a room that has been made: aim_chat_join.                           *)
aim_chat_join(c) ==
    /\ Hears(c, "created") /\ UNCHANGED left
    /\ Dispatched({IF Answer(c).kept
                   THEN Ask(Heard(c), acct.bos, "bos", "chat", Answer(c).room) ELSE Heard(c)})

(* aim_recv_redirect: to the chatnav server, or to a room.  What is known  *)
(* of the room is in the cache, or NULL is copied.                         *)
RedirectChatnav(c) ==
    /\ Hears(c, "nav") /\ UNCHANGED left
    /\ Dispatched(Dial(Heard(c), "nav"))

RedirectChat(c) ==
    /\ Hears(c, "chat") /\ UNCHANGED left
    /\ LET r == Answer(c).room
       IN  Dispatched(
             IF ~Answer(c).kept THEN {Harm(Past(Heard(c), "late", TRUE), "null")}
             ELSE IF wins[r] = Shut THEN {Heard(c)}
             ELSE UNION {{chat_new(s, d, r, k) : s \in Dialled(Heard(c), d, "chat")} :
                         d \in Fresh(Now),
                         k \in {k \in Chats \ DOMAIN chats :
                                   \A j \in Chats \ DOMAIN chats : k <= j}})

RedirectFails(c) ==
    /\ Hears(c, "nav") \/ Hears(c, "chat")
    /\ Fails
    /\ Dispatched({Past(Heard(c), "unjoined", Answer(c).m = "nav")})

(* aim_recv_chat_leave, of the user himself.                               *)
aim_recv_chat_leave(c) ==
    /\ src[c] = "event" /\ conns[c].type = "chat" /\ conns[c].owes = <<>> /\ Fails
    /\ Dispatched({ForcedLeave(Now, chats[conns[c].chat].room)})

-----------------------------------------------------------------------------
(* The user and the clock.                                                 *)

Requested(r) ==
    \/ r \in Range(acct.pend)
    \/ \E c \in DOMAIN conns : \E i \in DOMAIN conns[c].owes : conns[c].owes[i].room = r

(* chat_join and aim_join_chatroom.                                        *)
Joined(s, r) ==
    IF Found(s, r) # None THEN (IF FindsFreed(s, r) THEN Harm(s, "freed") ELSE s)
    ELSE IF s.acct.nav = None
    THEN Ask([s EXCEPT !.acct.pend = <<r>> \o @], s.acct.bos, "bos", "nav", None)
    ELSE Ask(s, s.acct.nav, "nav", "created", r)

Join(r) ==
    /\ acct.connected /\ left.joins > 0 /\ left' = [left EXCEPT !.joins = @ - 1]
    /\ Becomes({Joined([Past(Now, "twice", Requested(r)) EXCEPT
                           !.wins[r] = IF @ = Shut THEN None ELSE @], r)})

(* /chat leave: chat_leave, which closes the window.                       *)
LeaveRoom(r) ==
    /\ acct.connected /\ Quits
    /\ Found(Now, r) # None
    /\ Becomes({Destroy(Leave(Now, r), r)})

(* screen_close_window; a script may take the leaving over, and the window *)
(* goes nevertheless.                                                      *)
CloseWindow(r) ==
    /\ wins[r] # Shut /\ Quits
    /\ Becomes(IF wins[r] = None THEN {Destroy(Now, r)}
               ELSE IF wins[r] \notin DOMAIN chats THEN {Harm(Now, "window")}
               ELSE {Destroy(Leave(Now, r), r), Destroy(Past(Now, "kept", TRUE), r)})

(* pork_acct_del by the user.                                              *)
SignOff == acct.on /\ Quits /\ Becomes({Del(Now)})

(* pork_acct_reconnect_all.                                                *)
Reconnect ==
    /\ acct.on /\ acct.disconnected /\ ~acct.reconnecting /\ UNCHANGED left
    /\ Becomes(pork_acct_reconnect(Now))

Timeout ==
    /\ acct.on /\ acct.reconnecting /\ UNCHANGED left
    /\ Becomes({pork_acct_connect_fail(aim_connect_abort(Now))})

(* aim_cleansnacs: the SNACs of the older requests are forgotten.          *)
Aged(owes, n) == [i \in DOMAIN owes |-> [owes[i] EXCEPT !.kept = @ /\ i > n]]

(* aim_acct_update, once a minute.                                         *)
aim_acct_update(c, n) ==
    /\ acct.connected /\ left.minutes > 0 /\ left' = [left EXCEPT !.minutes = @ - 1]
    /\ n \in DOMAIN conns[c].owes
    /\ Becomes({[Now EXCEPT !.conns[c].owes = Aged(@, n)]})

-----------------------------------------------------------------------------
Serve(c) ==
    \/ aim_parse_login(c) \/ aim_parse_authresp(c) \/ aim_parse_authresp_error(c)
    \/ hostonline(c) \/ hostversions(c) \/ aim_recv_conn_complete(c)
    \/ recv_chatnav_conn(c) \/ recv_chat_conn(c)
    \/ aim_recv_bos_rights(c) \/ aim_ssi_recv_list(c)
    \/ aim_recv_chatnav_info(c) \/ aim_chat_join(c)
    \/ RedirectChatnav(c) \/ RedirectChat(c) \/ RedirectFails(c)

Network(c) == ConnectOk(c) \/ ConnectFails(c) \/ HangUp(c) \/ aim_recv_chat_leave(c)

User == \/ \E r \in Rooms : Join(r) \/ LeaveRoom(r) \/ CloseWindow(r)
        \/ SignOff

Clock == \/ Reconnect \/ Timeout
         \/ \E c \in DOMAIN conns, n \in 1 .. 2 : aim_acct_update(c, n)

Next ==
    \/ \E c \in DOMAIN conns : Serve(c) \/ Network(c) \/ Dead(c)
    \/ User \/ Clock

(* The network and the server answer, the multiplexer calls a dead source, *)
(* and the clock goes on.                                                  *)
Goes == \E c \in DOMAIN conns : ConnectOk(c) \/ ConnectFails(c) \/ Serve(c) \/ Dead(c)

Spec == /\ Init /\ [][Next]_vars
        /\ WF_vars(Goes) /\ WF_vars(Reconnect \/ Timeout)

-----------------------------------------------------------------------------
Kinds == [connected |-> "inprogress", event |-> "up", dead |-> "closed"]

SourcesAgree ==
    /\ \A c \in Conns : src[c] # "none" =>
          c \in DOMAIN conns /\ conns[c].status = Kinds[src[c]]
    /\ acct.connected =>
          {c \in DOMAIN conns : conns[c].type = "bos" /\ src[c] # "none"} = {acct.bos}

RoomsLive ==
    /\ \A k \in DOMAIN chats :
          /\ chats[k].conn \in DOMAIN conns /\ conns[chats[k].conn].chat = k
          /\ wins[chats[k].room] = k
          /\ src[chats[k].conn] = "none" => left.rejoin
    /\ \A r \in Rooms : wins[r] \in {Shut, None} \cup DOMAIN chats
    /\ \A c \in DOMAIN conns : conns[c].type = "chat" => conns[c].chat \in DOMAIN chats

(* A source belongs to a connection and is what the state of the connection *)
(* asks for; while the account is connected it has one BOS connection,     *)
(* which priv->bos_conn names.  A room has its own connection, which knows *)
(* it and has a source, and the window of its title shows it: unless the   *)
(* session was lost under it, it was asked for twice, or a script kept it  *)
(* when its window was closed.                                             *)
SessionSound ==
    harm = {} =>
      /\ SourcesAgree
      /\ past \cap {"lost", "twice", "kept"} = {} => RoomsLive

(* Freed memory is used only if the session was lost while there were      *)
(* rooms or a chatnav connection, rooms that waited for it were given up,  *)
(* a room was asked for twice or kept, an answer came after its request    *)
(* was forgotten, or the BOS server could not be dialled.                  *)
KnownWays == harm # {} => past \cap {"lost", "unjoined", "twice", "kept", "late", "refused"} # {}

(* The session is sound as long as nothing is undefined, and it becomes    *)
(* undefined in the known ways only: the two.                              *)
LinksSound == SessionSound /\ KnownWays

(* Once nothing fails any more the account is online or gone, unless the   *)
(* authorizer hung up at the first login, which is never noticed, and no   *)
(* room is being joined, unless one was given up.                          *)
Settled ==
    /\ acct.connected \/ ~acct.on \/ ("hung" \in past /\ ~acct.reconnecting)
    /\ \A r \in Rooms : ~Requested(r) \/ "unjoined" \in past

EverythingEnds == <>[](Settled \/ harm # {})
=============================================================================
