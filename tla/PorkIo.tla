-------------------------------- MODULE PorkIo --------------------------------
(***************************************************************************)
(* The I/O multiplexer of pork, pork_io.c, and the way SIGWINCH reaches    *)
(* the screen through it (pork.c).                                         *)
(*                                                                         *)
(* io_list is a linked list of sources that is walked twice around         *)
(* select().  A walk saves the next node before it runs a callback, and    *)
(* callbacks add and delete sources: pork_io_del only marks a source, so   *)
(* that the saved pointer stays good, but pork_io_add frees the source it  *)
(* replaces, wherever the walk is.                                         *)
(*                                                                         *)
(* A key is the address of the object a source belongs to (an account's    *)
(* session, a transfer, an AIM connection): one that is freed may come     *)
(* back as the key of another object.  The addresses of list nodes come    *)
(* back as well, which is why nodes are named.                             *)
(***************************************************************************)
EXTENDS Integers, Sequences, FiniteSets, SequencesExt

CONSTANTS Keys,      \* addresses of the objects sources are added for
          Tty,       \* &globals, the key of the keyboard
          Nodes,     \* addresses of list nodes
          Null,      \* the NULL node
          Fds,       \* descriptors of sockets
          TtyFd,     \* descriptor 0
          Gone       \* a negative descriptor: -1 (dead) or -2 (deleted)

ASSUME KeysAssumption  == Tty \notin Keys
ASSUME NodesAssumption == Null \notin Nodes /\ Nodes # {}
ASSUME FdsAssumption   == Gone \notin Fds \cup {TtyFd} /\ TtyFd \notin Fds

VARIABLES list,     \* io_list, from its head: a sequence of Nodes
          io,       \* the struct io_source of every node in the list
          pc,       \* where the program is
          walk,     \* the walk it is in
          cur,      \* cur and next of that walk
          next,
          polled,   \* the descriptors given to select()
          ready,    \* those select() gave back
          lost,     \* not in the code: whether a node the walk still needs
                    \* has been replaced,
          reg,      \* the keys added and not deleted,
          forced,   \* and whether a script has used its freedom, or a
                    \* descriptor was closed under its source
          resized   \* whether the terminal's size is not the screen's

vars     == <<list, io, pc, walk, cur, next, polled, ready, lost, reg,
              forced, resized>>
walkVars == <<walk, cur, next, polled, ready>>

AllKeys == Keys \cup {Tty}
AllFds  == Fds \cup {TtyFd}

(* seen and fresh are not in the code: whether this walk has been at the   *)
(* source, and whether the source was added after the walk began.          *)
Source == [key: AllKeys, fd: AllFds \cup {Gone}, callback: BOOLEAN,
           cond: BOOLEAN, always: BOOLEAN, seen: BOOLEAN, fresh: BOOLEAN]

Listed    == Range(list)
At(k)     == {i \in 1 .. Len(list) : io[list[i]].key = k}
Has(k)    == At(k) # {}
NodeOf(k) == list[CHOOSE i \in At(k) : \A j \in At(k) : i <= j]

(* The list and the sources without node n.                                *)
Without(n) == RemoveAt(list, CHOOSE i \in 1 .. Len(list) : list[i] = n)
Kept(n)    == [m \in Listed \ {n} |-> io[m]]

NextOf(n) == IF \E i \in 1 .. Len(list) - 1 : list[i] = n
             THEN list[1 + CHOOSE i \in 1 .. Len(list) - 1 : list[i] = n]
             ELSE Null

HeadNode == IF list = <<>> THEN Null ELSE list[1]

-----------------------------------------------------------------------------
(* The functions of pork_io.h.                                             *)

NewSource(k, fd, cond) ==
    [key |-> k, fd |-> fd, callback |-> TRUE, cond |-> cond, always |-> FALSE,
     seen |-> FALSE, fresh |-> pc # "main"]

(* What the running walk will look at once the callback has returned.      *)
Needed == CASE pc # "callback" -> {}
            [] pc = "callback" /\ walk = "dispatch" -> {next}
            [] OTHER -> {cur, next}

Old(k) == IF Has(k) THEN {NodeOf(k)} ELSE {}

(* mutant of Add: the new source goes to the tail of the list              *)
AddTail(k, fd, cond) ==
    /\ \E n \in Nodes \ (Listed \ Old(k)) :
          /\ list' = (IF Has(k) THEN Without(NodeOf(k)) ELSE list) \o <<n>>
          /\ io' = [m \in (Listed \ Old(k)) \cup {n} |->
                       IF m = n THEN NewSource(k, fd, cond) ELSE io[m]]
    /\ lost' = (lost \/ Old(k) \cap Needed # {})
    /\ reg' = reg \cup {k}

(* The source that has the key is freed; the new one heads the list, and   *)
(* may well be given the address that was just freed.                      *)
Add(k, fd, cond) ==
    /\ \E n \in Nodes \ (Listed \ Old(k)) :
          /\ list' = <<n>> \o (IF Has(k) THEN Without(NodeOf(k)) ELSE list)
          /\ io' = [m \in (Listed \ Old(k)) \cup {n} |->
                       IF m = n THEN NewSource(k, fd, cond) ELSE io[m]]
    /\ lost' = (lost \/ Old(k) \cap Needed # {})
    /\ reg' = reg \cup {k}

(* mutant of Del: the callback is left                                     *)
DelKeepsCallback(k) ==
    /\ Has(k)
    /\ io' = [io EXCEPT ![NodeOf(k)].fd = Gone]
    /\ reg' = reg \ {k}
    /\ UNCHANGED <<list, lost>>

(* The source is marked, not unlinked: a walk may be at it or about to be. *)
Del(k) ==
    /\ Has(k)
    /\ io' = [io EXCEPT ![NodeOf(k)].fd = Gone, ![NodeOf(k)].callback = FALSE]
    /\ reg' = reg \ {k}
    /\ UNCHANGED <<list, lost>>

Dead(k) ==
    /\ Has(k)
    /\ io' = [io EXCEPT ![NodeOf(k)].fd = Gone]
    /\ UNCHANGED <<list, lost, reg>>

SetFlags(k, cond) ==
    /\ Has(k)
    /\ io' = [io EXCEPT ![NodeOf(k)].cond = cond]
    /\ UNCHANGED <<list, lost, reg>>

(* What the program does to its sources: any of these, for an object other *)
(* than the keyboard.  The caller gives a descriptor that no other source  *)
(* uses.                                                                   *)
FdsInUse == {io[n].fd : n \in Listed}

Change(k) ==
    \/ \E fd \in Fds \ FdsInUse, cond \in BOOLEAN : Add(k, fd, cond)
    \/ Del(k)
    \/ Dead(k)
    \/ \E cond \in BOOLEAN : SetFlags(k, cond)

-----------------------------------------------------------------------------
(* screen_init adds the keyboard.                                          *)
Init ==
    \E n \in Nodes :
       /\ pc = "main"
       /\ list = <<n>>
       /\ io = [m \in {n} |-> NewSource(Tty, TtyFd, TRUE)]
       /\ walk = "gather" /\ cur = Null /\ next = Null
       /\ polled = {} /\ ready = {} /\ lost = FALSE
       /\ reg = {Tty} /\ forced = FALSE
       /\ resized = FALSE

(* Timers, pork_acct_update and pork_acct_reconnect_all run between two    *)
(* calls of pork_io_run.                                                   *)
MainChange(k) ==
    /\ pc = "main"
    /\ Change(k)
    /\ UNCHANGED <<pc, walkVars, forced, resized>>

(* What the model notes of a walk is of that walk only.                    *)
NewWalk ==
    /\ io' = [n \in Listed |-> [io[n] EXCEPT !.seen = FALSE, !.fresh = FALSE]]
    /\ lost' = FALSE

Begin(w) ==
    /\ walk' = w
    /\ pc' = "walk"
    /\ cur' = HeadNode
    /\ next' = Null
    /\ NewWalk

Run ==
    /\ pc = "main"
    /\ Begin("gather")
    /\ polled' = {} /\ ready' = {}
    /\ UNCHANGED <<list, reg, forced, resized>>

(* A walk that goes on to a node that was freed does something undefined.  *)
Stray ==
    /\ pc = "walk"
    /\ cur \notin Listed \cup {Null}
    /\ pc' = "undefined"
    /\ UNCHANGED <<list, io, walkVars, lost, reg, forced, resized>>

(* The loop body at cur calls the source.  IO_ATTR_ALWAYS is passed to the *)
(* callback by value.                                                      *)
Call ==
    /\ pc' = IF io[cur].always THEN "resize" ELSE "callback"
    /\ next' = NextOf(cur)
    /\ io' = [io EXCEPT ![cur].seen = TRUE]
    /\ UNCHANGED <<list, cur, polled>>

(* The loop body ends without a call.                                      *)
Pass ==
    /\ cur' = NextOf(cur)
    /\ io' = [io EXCEPT ![cur].seen = TRUE]
    /\ UNCHANGED <<list, pc, next>>

Polls(n) == polled \cup (IF io[n].cond THEN {io[n].fd} ELSE {})

WalkAt(w) == pc = "walk" /\ walk = w /\ cur \in Listed

GatherAlive ==
    /\ WalkAt("gather")
    /\ io[cur].fd # Gone
    /\ \/ io[cur].always /\ io[cur].callback /\ Call
       \/ ~(io[cur].always /\ io[cur].callback) /\ polled' = Polls(cur) /\ Pass
    /\ UNCHANGED <<walk, ready, lost, reg, forced, resized>>

(* mutant of BodyDead: the next node is read after the source is removed   *)
BodyDeadLate ==
    \/ io[cur].callback /\ Call
    \/ /\ ~io[cur].callback
       /\ list' = Without(cur)
       /\ io' = Kept(cur)
       /\ cur' = Null
       /\ UNCHANGED <<pc, next, polled>>

(* The source at cur is dead or deleted: it is told, and then removed.     *)
BodyDead ==
    \/ io[cur].callback /\ Call
    \/ /\ ~io[cur].callback
       /\ list' = Without(cur)
       /\ io' = Kept(cur)
       /\ cur' = NextOf(cur)
       /\ UNCHANGED <<pc, next, polled>>

GatherDead ==
    /\ WalkAt("gather")
    /\ io[cur].fd = Gone
    /\ BodyDead
    /\ UNCHANGED <<walk, ready, lost, reg, forced, resized>>

(* select(): nothing to wait for, nothing ready in time or a signal; some  *)
(* descriptors ready; or one of them closed under its source (PorkAcct     *)
(* shows how), and the list is searched for it.                            *)
Select ==
    /\ pc = "walk" /\ walk = "gather" /\ cur = Null
    /\ \/ pc' = "main" /\ NewWalk /\ UNCHANGED <<walk, cur, next, ready, forced>>
       \/ \E R \in SUBSET polled \ {{}} : ready' = R /\ Begin("dispatch") /\ UNCHANGED forced
       \/ /\ polled \cap Fds # {} /\ Begin("find_dead") /\ UNCHANGED ready
          /\ forced' = TRUE
    /\ polled' = {}
    /\ UNCHANGED <<list, reg, resized>>

(* sock_is_error says nothing of a descriptor that is no socket.           *)
FindDead ==
    /\ WalkAt("find_dead")
    /\ \/ io[cur].fd # TtyFd /\ BodyDead
       \/ io[cur].fd # Gone /\ Pass /\ UNCHANGED polled
    /\ UNCHANGED <<walk, ready, lost, reg, forced, resized>>

Wanted(n) == io[n].fd \in ready /\ io[n].cond /\ io[n].callback

Dispatch ==
    /\ WalkAt("dispatch")
    /\ \/ Wanted(cur) /\ Call
       \/ ~Wanted(cur) /\ Pass /\ UNCHANGED polled
    /\ UNCHANGED <<walk, ready, lost, reg, forced, resized>>

WalkEnd ==
    /\ pc = "walk" /\ walk # "gather" /\ cur = Null
    /\ pc' = "main" /\ walk' = "gather" /\ ready' = {}
    /\ NewWalk
    /\ UNCHANGED <<list, cur, next, polled, reg, forced, resized>>

(* What a callback does to the sources.  One of the program itself adds    *)
(* one for an object that has none, or, when select() called it, the source *)
(* it was called for again (irc_connected, aim_connected, the transfers);  *)
(* a script that it runs may give any command, and so may the user at the  *)
(* keyboard.                                                               *)
Self == cur \in Listed /\ io[cur].key # Tty

Usual(k) == \/ ~Has(k)
            \/ Self /\ walk # "gather" /\ k = io[cur].key
            \/ cur \in Listed /\ io[cur].key = Tty

CallbackChange(k) ==
    /\ pc = "callback"
    /\ Change(k)
    /\ forced' = (forced \/ ~Usual(k))
    /\ UNCHANGED <<pc, walkVars, resized>>

(* It may end any connection.                                              *)
CallbackDrop(k) ==
    /\ pc = "callback"
    /\ Del(k) \/ Dead(k)
    /\ UNCHANGED <<pc, walkVars, forced, resized>>

(* keyboard_input called with IO_ATTR_ALWAYS: the flag is cleared first,   *)
(* then the size of the terminal is read.                                  *)
ClearAlways ==
    /\ pc = "resize"
    /\ io' = [io EXCEPT ![NodeOf(Tty)].always = FALSE]
    /\ pc' = "size"
    /\ UNCHANGED <<list, lost, reg, forced, walkVars, resized>>

ReadSize ==
    /\ pc = "size"
    /\ resized' = FALSE
    /\ pc' = "return"
    /\ UNCHANGED <<list, io, lost, reg, forced, walkVars>>

(* mutant of Resize: the size first, then the flag                         *)
ReadFirst ==
    /\ pc = "resize"
    /\ resized' = FALSE
    /\ pc' = "size"
    /\ UNCHANGED <<list, io, lost, reg, forced, walkVars>>

ClearLast ==
    /\ pc = "size"
    /\ io' = [io EXCEPT ![NodeOf(Tty)].always = FALSE]
    /\ pc' = "return"
    /\ UNCHANGED <<list, lost, reg, forced, walkVars, resized>>

ResizeLate == ReadFirst \/ ClearLast

Resize == ClearAlways \/ ReadSize

(* The callback returns and the loop body ends: a source that is alive is  *)
(* polled, one that is not is removed, whatever cur points at by now.      *)
Return ==
    /\ pc \in {"callback", "return"}
    /\ next' = Null
    /\ \/ /\ walk # "dispatch" /\ cur \notin Listed
          /\ pc' = "undefined"
          /\ UNCHANGED <<list, io, polled, cur, reg>>
       \/ /\ walk = "dispatch" \/ cur \in Listed
          /\ pc' = "walk" /\ cur' = next
          /\ \/ walk = "dispatch" /\ UNCHANGED <<list, io, polled, reg>>
             \/ /\ walk = "gather" /\ pc = "return"
                /\ polled' = Polls(cur)
                /\ UNCHANGED <<list, io, reg>>
             \/ /\ walk # "dispatch" /\ pc = "callback"
                /\ list' = Without(cur)
                /\ io' = Kept(cur)
                /\ reg' = reg \ {io[cur].key}
                /\ UNCHANGED polled
    /\ UNCHANGED <<walk, ready, lost, forced, resized>>

(* The terminal changes its size and the kernel interrupts the program.    *)
SigWinch ==
    /\ pc # "undefined"
    /\ resized' = TRUE
    /\ io' = [io EXCEPT ![NodeOf(Tty)].always = TRUE]
    /\ UNCHANGED <<list, pc, walkVars, lost, reg, forced>>

Step == \/ Run \/ Stray \/ GatherAlive \/ GatherDead \/ Select \/ FindDead
        \/ Dispatch \/ WalkEnd \/ Resize \/ Return

Next == \/ \E k \in Keys : MainChange(k) \/ CallbackChange(k) \/ CallbackDrop(k)
        \/ Step
        \/ SigWinch

Spec == Init /\ [][Next]_vars

(* The main loop never stops, every callback returns, and select() waits   *)
(* for 0.6 seconds at most.                                                *)
FairSpec == Spec /\ WF_vars(Step)

-----------------------------------------------------------------------------
TypeOK ==
    /\ list \in Seq(Nodes)
    /\ io \in [Listed -> Source]
    /\ pc \in {"main", "walk", "callback", "resize", "size", "return", "undefined"}
    /\ walk \in {"gather", "dispatch", "find_dead"}
    /\ cur \in Nodes \cup {Null} /\ next \in Nodes \cup {Null}
    /\ polled \cup ready \subseteq AllFds
    /\ lost \in BOOLEAN /\ forced \in BOOLEAN /\ reg \subseteq AllKeys
    /\ resized \in BOOLEAN

(* A walk touches freed memory only after a callback has added again the   *)
(* key of the source the walk was at or was to visit next: deleting is     *)
(* always safe (pork_io_del), replacing is not (pork_io_add).  That takes  *)
(* a script, or a descriptor that was closed under its source.  And no     *)
(* walk passes over a source that was there when it began: no ready        *)
(* connection waits for another round, no dead one is missed.              *)
WalkSafe ==
    /\ pc = "walk" /\ cur = Null => \A n \in Listed : io[n].seen \/ io[n].fresh
    /\ pc = "walk" /\ cur \notin Listed \cup {Null} => lost
    /\ pc = "undefined" => lost
    /\ lost => forced

(* An object has a source from the call of pork_io_add to that of          *)
(* pork_io_del, or until it is found dead, and it is one source: what was  *)
(* deleted is never called again.                                          *)
RegisteredExactly ==
    /\ \A i, j \in 1 .. Len(list) : io[list[i]].key = io[list[j]].key => i = j
    /\ \A k \in AllKeys : k \in reg <=> \E n \in Listed : io[n].key = k /\ io[n].callback

(* The set of sources survives what its callbacks do: both of these.       *)
IoSound == WalkSafe /\ RegisteredExactly

(* What select() said of a descriptor is not taken for news about a source *)
(* that has been added since, to which the same descriptor may belong.     *)
NoStaleCall ==
    [][pc = "walk" /\ walk = "dispatch" /\ pc' \in {"callback", "resize"}
          => ~io[cur].fresh \/ lost]_vars

(* When the terminal has changed its size the screen gets the size it     *)
(* has, however the signal falls between the steps of a walk (pork.c:108). *)
(* The exception is a walk that has lost a node it needs: node addresses   *)
(* that come back can keep it among new sources for ever.                  *)
SizeFollows == resized ~> (~resized \/ lost \/ pc = "undefined")
=============================================================================
