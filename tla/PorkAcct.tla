------------------------------ MODULE PorkAcct ------------------------------
(***************************************************************************)
(* The connection of an IRC account: pork_acct.c and the session under it, *)
(* protocols/irc/pork_irc.c.                                               *)
(*                                                                         *)
(* The account keeps flags and counters, the session a descriptor, what it *)
(* writes through (transport) and a source in io_list.  The two call each  *)
(* other: a source that fails ends in pork_acct_disconnected, which may    *)
(* start the next attempt at once, fail in it, and delete the account, all *)
(* in one callback.  Functions that call each other so are operators here  *)
(* from a state to the states they may end in.                             *)
(*                                                                         *)
(* A state is a record: on says whether the account exists.  src is the    *)
(* callback of the session's source and fd its descriptor.  The clock is   *)
(* next_try, the seconds left until reconnect_next_try.  A descriptor that *)
(* nothing refers to any more is forgotten, not counted.                   *)
(***************************************************************************)
EXTENDS Integers, FiniteSets

CONSTANTS Fds,             \* descriptors
          MaxTries,        \* RECONNECT_TRIES
          Interval,        \* RECONNECT_INTERVAL
          MaxInterval,     \* RECONNECT_MAX_INTERVAL
          Timeout,         \* CONNECT_TIMEOUT
          AutoReconnect,   \* AUTO_RECONNECT
          Uses             \* the ways in which the account may be used

ASSUME NumbersAssumption ==
    {MaxTries, Interval, MaxInterval, Timeout} \subseteq Nat
ASSUME SwitchAssumption == AutoReconnect \in BOOLEAN
ASSUME UsesAssumption == Uses \subseteq SUBSET {"ssl", "chats", "typing", "scripts"}

VARIABLES acct,      \* struct pork_acct and its struct irc_session
          open,      \* who uses each descriptor: "closed", "ours", "other"
          use,       \* which of these there are, from the start: servers given
                     \* with /ssl, chats, commands of the protocol, scripts
                     \* that take the SIGNOFF event over
          harm       \* not in the code: "pointer" if freed memory or NULL has
                     \* been used, "descriptor" if another's was closed

vars == <<acct, open, use, harm>>

Ssl == "ssl" \in use
Scripts == "scripts" \in use

None == -1

ASSUME FdsAssumption == None \notin Fds

Acct == [on : BOOLEAN, connected : BOOLEAN, disconnected : BOOLEAN,
         reconnecting : BOOLEAN, successful : BOOLEAN, tries : Nat,
         next_try : -(Timeout + 1) .. MaxInterval, chats : BOOLEAN,
         src : {"none", "connected", "event"}, fd : Fds \cup {None},
         sock : Fds \cup {None}, ssl : BOOLEAN,
         transport : {"null", "clear", "ssl", "freed"},
         attempts : Nat, aborts : 0 .. 2, waited : 0 .. MaxInterval]

(* attempts, aborts and waited are not in the code: the attempts made      *)
(* since the connection was lost, the calls of connect_abort, and the time *)
(* since the last attempt failed.                                          *)
Gone == [on |-> FALSE, connected |-> FALSE, disconnected |-> FALSE,
         reconnecting |-> FALSE, successful |-> FALSE, tries |-> 0,
         next_try |-> 0, chats |-> FALSE, src |-> "none", fd |-> None,
         sock |-> None, ssl |-> FALSE, transport |-> "null",
         attempts |-> 0, aborts |-> 0, waited |-> 0]

(* States: the account, the descriptors, and what went wrong.              *)
State(a, o, h) == [a |-> a, open |-> o, harm |-> h]

Harm(s, kind, really) == IF really THEN [s EXCEPT !.harm = @ \cup {kind}] ELSE s

Lower(x, y) == IF x < y THEN x ELSE y

Close(s, fd) ==
    IF fd = None THEN s
    ELSE [Harm(s, "descriptor", s.open[fd] = "other") EXCEPT !.open[fd] = "closed"]

-----------------------------------------------------------------------------
(* irc_send: a command waits in outq while there has been no descriptor.   *)
(* A write that fails is only reported.                                    *)
Send(s) ==
    Harm(s, "pointer", s.a.sock # None /\ s.a.transport \in {"null", "freed"})

(* SSL_free(session->transport).                                           *)
FreeSsl(s) ==
    IF ~s.a.ssl THEN s
    ELSE [Harm(s, "pointer", s.a.transport = "freed") EXCEPT !.a.transport = "freed"]

(* pork_acct_free and irc_free.                                            *)
Free(s) == [FreeSsl(s) EXCEPT !.a = Gone]

(* pork_acct_del: irc_quit sends if connected, chat_leave_all in any case. *)
Del(s) ==
    LET quit  == IF s.a.connected THEN Send(s) ELSE s
        leave == IF s.a.chats THEN Send(quit) ELSE quit
    IN  Free(leave)

(* mutant of GivesUp: one attempt more                                     *)
GivesUpLate(a) == a.tries > MaxTries

GivesUp(a) == a.tries >= MaxTries

(* mutant of Wait: the number of attempts does not matter                  *)
WaitNot(a) == Lower(Interval, MaxInterval)

Wait(a) == Lower(a.tries * Interval, MaxInterval)

(* mutant of ConnectFail: reconnecting is left                             *)
ConnectFailStays(s) ==
    IF GivesUp(s.a) THEN Del(s)
    ELSE [s EXCEPT !.a.connected = FALSE, !.a.disconnected = TRUE,
                   !.a.next_try = Wait(s.a), !.a.waited = 0]

(* pork_acct_connect_fail.                                                 *)
ConnectFail(s) ==
    LET t == [s EXCEPT !.a.connected = FALSE, !.a.reconnecting = FALSE,
                       !.a.disconnected = TRUE]
    IN  IF GivesUp(t.a) THEN Del(t)
        ELSE [t EXCEPT !.a.next_try = Wait(t.a), !.a.waited = 0]

(* pork_acct_disconnected: the account is deleted unless it has been online *)
(* and AUTO_RECONNECT is set, and then too if a script says so.            *)
Keeps(s) == s.a.successful /\ AutoReconnect

Given(s) == IF Keeps(s) /\ ~Scripts THEN {} ELSE {Del(s)}

LostAttempt(s) == Given(s) \cup {ConnectFail(t) : t \in {t \in {s} : Keeps(t)}}

(* irc_connected: the connection is there, or refused.  An SSL connection  *)
(* that fails is closed, and nobody is told.                               *)
Refused(s, fd) ==
    LostAttempt(Close([s EXCEPT !.a.src = "none", !.a.fd = None], fd))

Established(s, fd, ssl) ==
    LET t == [s EXCEPT !.a.src = "none", !.a.fd = None, !.a.sock = fd]
        up(kind) == Send([t EXCEPT !.a.src = "event", !.a.fd = fd,
                                   !.a.ssl = (kind = "ssl"),
                                   !.a.transport = kind])
    IN  IF ssl THEN {up("ssl"), Close(t, fd)}
               ELSE {up("clear")}

(* irc_connect: it fails, the connection is under way, or it is there at   *)
(* once, and then irc_connected is called without the flag for SSL.        *)
Started(s) ==
    {s} \cup UNION {
        LET t == [s EXCEPT !.open[fd] = "ours"] IN
        {[t EXCEPT !.a.src = "connected", !.a.fd = fd]}
            \cup Established(t, fd, FALSE) \cup Refused(t, fd)
        : fd \in {fd \in Fds : s.open[fd] = "closed"}}

(* pork_acct_reconnect.  An attempt that fails here is left to time out.   *)
Reconnect(s) ==
    IF s.a.connected \/ ~s.a.disconnected \/ s.a.reconnecting THEN {s}
    ELSE Started([s EXCEPT !.a.tries = @ + 1, !.a.reconnecting = TRUE,
                           !.a.attempts = @ + 1])

(* pork_acct_disconnected of an account that was connected.                *)
Lost(s) ==
    Given(s) \cup
    (IF Keeps(s)
     THEN Reconnect([s EXCEPT !.a.connected = FALSE, !.a.reconnecting = FALSE,
                              !.a.tries = 0, !.a.disconnected = TRUE,
                              !.a.next_try = 0, !.a.attempts = 0])
     ELSE {})

Disconnected(s) == IF s.a.connected THEN Lost(s) ELSE LostAttempt(s)

(* mutant of Abort: the source stays                                       *)
AbortKeepsSource(s) ==
    [Close(FreeSsl(s), s.a.sock) EXCEPT !.a.aborts = Lower(@ + 1, 2)]

(* irc_connect_abort: sock is the descriptor of the last connection there  *)
(* was, not of the attempt; ssl stays.                                     *)
Abort(s) == [Close(FreeSsl(s), s.a.sock) EXCEPT !.a.src = "none", !.a.fd = None,
                                                !.a.aborts = Lower(@ + 1, 2)]

(* mutant of Dropped: the descriptor is closed, but not forgotten          *)
DroppedCloses(s) ==
    [Close(s, s.a.sock) EXCEPT !.a.src = "none", !.a.fd = None, !.a.ssl = FALSE,
                               !.a.transport = "null"]

(* irc_event: the source and the transport go, the descriptor stays.       *)
Dropped(s) == [s EXCEPT !.a.src = "none", !.a.fd = None, !.a.ssl = FALSE,
                        !.a.transport = "null"]

-----------------------------------------------------------------------------
Init == acct = Gone /\ open = [f \in Fds |-> "closed"] /\ use \in Uses /\ harm = {}

Now == State(acct, open, harm)

Becomes(S) ==
    \E s \in S :
       /\ acct' = s.a
       /\ open' = [f \in Fds |-> IF s.open[f] = "ours" /\ f \notin {s.a.sock, s.a.fd}
                               THEN "closed" ELSE s.open[f]]
       /\ harm' = s.harm
       /\ UNCHANGED use

Running == "pointer" \notin harm
Alive   == acct.on /\ Running

(* pork_acct_connect, irc_do_connect.                                      *)
Connect ==
    /\ ~acct.on /\ Running
    /\ Becomes(Started([Now EXCEPT !.a.on = TRUE]) \ {[Now EXCEPT !.a.on = TRUE]})

(* select() reports the descriptor that is being connected.                *)
ConnectDone ==
    /\ Alive /\ acct.src = "connected"
    /\ Becomes(Established(Now, acct.fd, Ssl) \cup Refused(Now, acct.fd))

(* The server's 001: pork_acct_connected.  Chats are joined again.         *)
Welcome ==
    /\ Alive /\ acct.src = "event"
    /\ LET s == IF acct.reconnecting /\ acct.chats THEN Send(Now) ELSE Now
       IN  Becomes({[s EXCEPT !.a.successful = TRUE, !.a.connected = TRUE,
                              !.a.disconnected = FALSE, !.a.reconnecting = FALSE,
                              !.a.tries = 0, !.a.attempts = 0, !.a.aborts = 0,
                              !.a.waited = 0]})

(* The connection ends.                                                    *)
Drop ==
    /\ Alive /\ acct.src = "event"
    /\ Becomes(Disconnected(Dropped(Now)))

(* pork_acct_reconnect_all.                                                *)
Retry ==
    /\ Alive /\ acct.disconnected /\ ~acct.reconnecting /\ acct.next_try < 0
    /\ Becomes(Reconnect(Now))

TimedOut ==
    /\ Alive /\ acct.reconnecting /\ acct.next_try + Timeout < 0
    /\ Becomes({ConnectFail(Abort(Now))})

(* A second passes; next_try matters only while disconnected.              *)
Tick ==
    /\ Alive /\ acct.disconnected
    /\ acct' = [acct EXCEPT
                  !.next_try = IF @ + Timeout < 0 THEN @ ELSE @ - 1,
                  !.waited = Lower(@ + 1, MaxInterval)]
    /\ acct' # acct
    /\ UNCHANGED <<open, use, harm>>

(* The user.                                                               *)
Disconnect == Alive /\ Becomes({Del(Now)})

(* The user joins a chat, or leaves the chats.                             *)
Join ==
    /\ Alive /\ "chats" \in use /\ acct.connected
    /\ \E in \in BOOLEAN : Becomes({[Send(Now) EXCEPT !.a.chats = in]})

(* A command of the protocol, whatever the state of the connection.        *)
Command == Alive /\ "typing" \in use /\ Becomes({Send(Now)})

(* The rest of the program opens and closes descriptors of its own.        *)
OtherOpens ==
    /\ Running /\ \E f \in Fds : open[f] = "closed" /\ open' = [open EXCEPT ![f] = "other"]
    /\ UNCHANGED <<acct, use, harm>>

OtherCloses ==
    /\ Running /\ \E f \in Fds : open[f] = "other" /\ open' = [open EXCEPT ![f] = "closed"]
    /\ UNCHANGED <<acct, use, harm>>

MainLoop == Retry \/ TimedOut

Next == \/ Connect \/ ConnectDone \/ Welcome \/ Drop \/ MainLoop \/ Tick
        \/ Disconnect \/ Join \/ Command \/ OtherOpens \/ OtherCloses

Spec == Init /\ [][Next]_vars

(* Time passes, the main loop goes on, and the kernel settles what is      *)
(* being connected.                                                        *)
FairSpec == Spec /\ WF_vars(Tick) /\ WF_vars(MainLoop) /\ WF_vars(ConnectDone)

-----------------------------------------------------------------------------
TypeOK ==
    /\ acct \in Acct
    /\ open \in [Fds -> {"closed", "ours", "other"}]
    /\ use \in Uses /\ harm \subseteq {"pointer", "descriptor"}

(* The flags of the account and its session say the same: an account that  *)
(* is online has a source and something to write through, one that is      *)
(* waiting to try again has no source, and an attempt is made for an       *)
(* account that was online before.  And without chats, commands, scripts   *)
(* and SSL nothing is written through NULL or freed memory, or freed twice, *)
(* while AUTO_RECONNECT is set: without it pork_acct_disconnected deletes  *)
(* an account that still counts as connected, after irc_event has set its  *)
(* transport to NULL, and irc_quit writes to that.                         *)
SessionAgrees ==
    /\ acct.connected => /\ acct.src = "event" /\ acct.sock = acct.fd
                         /\ acct.transport \in {"clear", "ssl"}
                         /\ ~acct.disconnected /\ ~acct.reconnecting
    /\ acct.disconnected /\ ~acct.reconnecting => acct.src = "none"
    /\ acct.reconnecting => acct.disconnected /\ acct.successful
    /\ acct.src = "event" => open[acct.sock] = "ours" \/ harm # {}
    /\ use = {} /\ AutoReconnect => Running

(* An attempt that follows a failed one is made when the time that grows   *)
(* with their number has passed, and not before.                           *)
Paced ==
    [][acct.disconnected /\ acct'.attempts = acct.attempts + 1
          => acct.waited >= Lower(acct.tries * Interval, MaxInterval)]_vars

(* Without SSL, a descriptor of another part of the program is closed only *)
(* by aborting an attempt after another was aborted: the first closes the  *)
(* one irc_event left open, the next ones close the same number again.     *)
ClosesOwnUnlessAborted ==
    [][~Ssl /\ "descriptor" \in harm' \ harm => acct.aborts >= 1]_vars

(* Attempts come in their time and close what is theirs: both of these     *)
(* (pork_acct_reconnect_all, irc_connect_abort).                           *)
AttemptsSound == Paced /\ ClosesOwnUnlessAborted

(* An account that was disconnected is online again or given up, unless    *)
(* the program has done something undefined.                               *)
Settles == acct.disconnected ~> ~acct.disconnected \/ ~Running

Promise ==
    INSTANCE AcctLifecycle WITH
        phase <- CASE ~acct.on -> "gone"
                   [] acct.connected -> "online"
                   [] acct.reconnecting -> "retrying"
                   [] acct.disconnected /\ ~acct.reconnecting -> "waiting"
                   [] OTHER -> "connecting",
        tries <- acct.tries

(* The account keeps the promise of AcctLifecycle.                         *)
ImplementsLifecycle == Promise!Spec
=============================================================================
