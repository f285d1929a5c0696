----------------------------- MODULE IrcOutput ------------------------------
(***************************************************************************)
(* What an IRC session writes: pork_irc_output.c, pork_queue.c and the     *)
(* callbacks of the session's source in pork_irc.c.                        *)
(*                                                                         *)
(* A command of the user becomes a line, which is queued as long as the    *)
(* session never had a descriptor and is written at once after that.  The  *)
(* lines are numbered as they are typed; those of the login are negative.  *)
(* A command whose line does not fit into the buffer does nothing.         *)
(***************************************************************************)
EXTENDS Integers, Sequences

CONSTANTS MaxTyped     \* lines typed

VARIABLES sock,        \* session->sock: "none" (-1), "open" or "old"
          transport,   \* session->transport: "null" or "sock"
          source,      \* its source: "none", "connected" or "event", the callback
          outq,        \* session->outq
          broken,      \* a write on the connection fails
          typed,       \* number of lines typed
          early,       \* not in the code: those typed before there was a descriptor
          sent,        \* not in the code: lines written on this connection
          since,       \* not in the code: lines typed when it was made
          lost,        \* not in the code: lines of this connection that failed
          harm         \* not in the code: "none", "null" or "spins"

vars == <<sock, transport, source, outq, broken, typed, early, sent, since, lost, harm>>

Login == <<-2, -1>>

Running == harm = "none"

-----------------------------------------------------------------------------
(* queue_add, queue_get, queue_putback_head.  The queue has no limit.      *)
queue_add(q, line) == Append(q, line)
queue_get(q) == Tail(q)

(* The lines are written in turn, until a write fails (irc_send).          *)
Written(lines) ==
    IF transport = "null" THEN harm' = "null" /\ UNCHANGED <<sent, lost>>
    ELSE /\ sent' = IF broken THEN sent ELSE sent \o lines
         /\ lost' = IF broken THEN lost \cup {lines[1]} ELSE lost
         /\ UNCHANGED harm

irc_send(line) ==
    IF sock = "none"
    THEN outq' = queue_add(outq, line) /\ UNCHANGED <<sent, lost, harm>>
    ELSE Written(<<line>>) /\ UNCHANGED outq

(* mutant of irc_send: the queue is used whenever nothing can be written   *)
SendQueues(line) ==
    IF sock = "none" \/ transport = "null"
    THEN outq' = queue_add(outq, line) /\ UNCHANGED <<sent, lost, harm>>
    ELSE Written(<<line>>) /\ UNCHANGED outq

(* irc_send_raw and the commands like it.                                  *)
Command ==
    /\ Running /\ typed < MaxTyped
    /\ typed' = typed + 1
    /\ early' = IF sock = "none" THEN early \cup {typed + 1} ELSE early
    /\ irc_send(typed + 1)
    /\ UNCHANGED <<sock, transport, source, broken, since>>

(* irc_send_quit: nothing more is read from the connection.                *)
Quit ==
    /\ Running /\ typed < MaxTyped /\ source = "event"
    /\ typed' = typed + 1
    /\ irc_send(typed + 1)
    /\ source' = "none"
    /\ UNCHANGED <<sock, transport, broken, early, since>>

-----------------------------------------------------------------------------
(* irc_do_connect, irc_reconnect: a connection that is not there at once.  *)
Connect ==
    /\ Running /\ source = "none" /\ sock # "open"
    /\ source' = "connected"
    /\ UNCHANGED <<sock, transport, outq, broken, typed, early, sent, since, lost, harm>>

(* irc_connected.                                                          *)
Refused ==
    /\ Running /\ source = "connected"
    /\ source' = "none"
    /\ UNCHANGED <<sock, transport, outq, broken, typed, early, sent, since, lost, harm>>

(* The descriptor is kept although it has been closed.                     *)
SslFails ==
    /\ Running /\ source = "connected"
    /\ source' = "none" /\ sock' = "old"
    /\ UNCHANGED <<transport, outq, broken, typed, early, sent, since, lost, harm>>

(* mutant of Connected: the login comes before the descriptor              *)
LoginQueued ==
    /\ Running /\ source = "connected"
    /\ source' = "event" /\ sock' = "open" /\ transport' = "sock"
    /\ sent' = IF sock = "none" THEN <<>> ELSE Login
    /\ outq' = IF sock = "none" THEN outq \o Login ELSE outq
    /\ lost' = {} /\ since' = typed /\ broken' = FALSE
    /\ UNCHANGED <<typed, early, harm>>

(* The login (irc_send_login) is not queued: there is a descriptor.        *)
Connected ==
    /\ Running /\ source = "connected"
    /\ source' = "event" /\ sock' = "open" /\ transport' = "sock"
    /\ sent' = Login /\ lost' = {} /\ since' = typed /\ broken' = FALSE
    /\ UNCHANGED <<outq, typed, early, harm>>

(* The server is gone: writes fail, and what is read is an error.          *)
Breaks ==
    /\ Running /\ sock = "open" /\ ~broken
    /\ broken' = TRUE
    /\ UNCHANGED <<sock, transport, source, outq, typed, early, sent, since, lost, harm>>

(* irc_event when reading fails.  The descriptor stays.                    *)
Lost ==
    /\ Running /\ source = "event" /\ broken
    /\ source' = "none" /\ transport' = "null" /\ sock' = "old"
    /\ UNCHANGED <<outq, broken, typed, early, sent, since, lost, harm>>

(* irc_event when pork_io finds the source dead, as it may while it looks  *)
(* for another's: irc_flush_outq writes until the queue is empty, and puts *)
(* back what could not be written.                                         *)
Dead ==
    /\ Running /\ source = "event" /\ broken
    /\ IF outq = <<>> THEN source' = "none" /\ UNCHANGED harm
       ELSE harm' = "spins" /\ UNCHANGED source
    /\ UNCHANGED <<sock, transport, outq, broken, typed, early, sent, since, lost>>

(* irc_connect_abort.                                                      *)
Abort ==
    /\ Running /\ source = "connected"
    /\ source' = "none" /\ sock' = IF sock = "none" THEN "none" ELSE "old"
    /\ UNCHANGED <<transport, outq, broken, typed, early, sent, since, lost, harm>>

Init ==
    /\ sock = "none" /\ transport = "null" /\ source = "none" /\ outq = <<>>
    /\ broken = FALSE /\ typed = 0 /\ early = {} /\ sent = <<>> /\ since = 0
    /\ lost = {} /\ harm = "none"

Next == \/ Command \/ Quit \/ Connect \/ Refused \/ SslFails \/ Connected
        \/ Breaks \/ Lost \/ Dead \/ Abort

Spec == Init /\ [][Next]_vars

-----------------------------------------------------------------------------
(* The server is sent the login and then what was typed on this            *)
(* connection, in that order and without gaps, until a write fails         *)
(* (irc_connected, irc_send).  What was typed before the session had a     *)
(* descriptor is what was typed first; it stays in the queue, in order and *)
(* unsent, for nothing empties it (irc_flush_outq).                        *)
(* The only ways out are a command while there is no connection but was    *)
(* one, and a queue that is not empty when the source is found dead.       *)
LinesInOrder ==
    /\ sent # <<>> => /\ sent = Login \o [i \in 1 .. Len(sent) - 2 |-> since + i]
                      /\ \A n \in since + 1 .. typed :
                            \/ \E i \in DOMAIN sent : sent[i] = n
                            \/ n \in lost \/ source # "event"
    /\ early = 1 .. Len(outq) /\ outq = [i \in 1 .. Len(outq) |-> i]
    /\ harm = "null" => sock # "none" /\ source # "event"
    /\ harm = "spins" => early # {}
=============================================================================
