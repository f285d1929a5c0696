----------------------------- MODULE PorkEvents -----------------------------
(***************************************************************************)
(* The event handlers of an account, pork_events.c.                        *)
(*                                                                         *)
(* event_generate runs the handlers of an event one by one.  A handler is  *)
(* a Perl function: while it runs it may add and delete handlers and       *)
(* generate events, of the same type too.  So the list is read again from  *)
(* its head after every handler, and what has run is remembered in the     *)
(* entries themselves: has_run is shared by all the events of a type that  *)
(* are in progress.                                                        *)
(***************************************************************************)
EXTENDS Integers, Sequences, FiniteSets, SequencesExt

CONSTANTS Accts,      \* the accounts
          Types,      \* the types of event that occur, rows of the table
          Commands,   \* names of Perl functions
          Recursive,  \* the values RECURSIVE_EVENTS takes
          Quiet,      \* those of them that are only added as quiet handlers
          MaxRefnum,  \* the largest reference number: 2^32 - 1 in the code
          MaxDepth    \* bound on the events in progress at once

ASSUME TypesAssumption == Types \subseteq 0 .. 45
ASSUME BoundsAssumption == MaxRefnum \in Nat \ {0} /\ MaxDepth \in Nat
ASSUME OptionAssumption == Recursive \subseteq BOOLEAN /\ Recursive # {}

VARIABLES events,       \* acct->events: the lists of handlers
          next_refnum,
          inside,       \* events_info[type].inside, for all accounts
          quiet,        \* the flag of screen_set_quiet
          recursive,    \* the option RECURSIVE_EVENTS
          stack,        \* the calls of event_generate in progress
          hangs         \* event_del_type is in a loop without end

vars == <<events, next_refnum, inside, quiet, recursive, stack, hangs>>

(* name is not in the code: the name the handler was added under.          *)
Entry == [command: Commands, name: 0 .. 45, refnum: 0 .. MaxRefnum, quiet: BOOLEAN,
          has_run: BOOLEAN]

(* A call of event_generate: at says whether a handler is running; old is  *)
(* old_quiet.  first, ran and nested are not in the code: the handlers     *)
(* there were, those that ran for this event, and whether another event    *)
(* of the type was generated for the account meanwhile.                    *)
Frame == [acct: Accts, type: Types, at: {"loop", "handler"}, quiet: BOOLEAN,
          old: BOOLEAN, first: SUBSET (0 .. MaxRefnum),
          ran: SUBSET (0 .. MaxRefnum), nested: BOOLEAN]

-----------------------------------------------------------------------------
(* The table of event names.  A name stands here for its rank in the       *)
(* alphabetical order of the 46 names, in which the enum of pork_events.h  *)
(* lists the types (but for RECV_CHAT_MSG, 14, before RECV_CHAT_MODE); two *)
(* pairs of rows of the table are not in that order.                       *)
RECV_CHAT_MODE == 14
RECV_CHAT_MSG  == 15
SEND_LINE      == 38
SEND_NOTICE    == 39

EventName == [row \in 0 .. 45 |->
                CASE row = 14 -> RECV_CHAT_MSG
                  [] row = 15 -> RECV_CHAT_MODE
                  [] row = 38 -> SEND_NOTICE
                  [] row = 39 -> SEND_LINE
                  [] OTHER -> row]

(* The name a type has in pork_events.h.                                   *)
NameOfType == [t \in 0 .. 45 |-> CASE t = 14 -> RECV_CHAT_MSG
                                   [] t = 15 -> RECV_CHAT_MODE
                                   [] OTHER -> t]

(* event_find: bsearch of the C library, which halves the table.           *)
EventFind(name) ==
    LET mid(lo, hi) == (lo + hi) \div 2
        search[lo \in 0 .. 46, hi \in 0 .. 46] ==
            CASE lo >= hi -> -1
              [] lo < hi /\ name < EventName[mid(lo, hi)] -> search[lo, mid(lo, hi)]
              [] lo < hi /\ name > EventName[mid(lo, hi)] -> search[mid(lo, hi) + 1, hi]
              [] OTHER -> mid(lo, hi)
    IN  search[0, 46]

-----------------------------------------------------------------------------
Top == Last(stack)

(* A command is typed by the user, or given by the running handler.        *)
Commanding == ~hangs /\ (stack # <<>> => Top.at = "handler")

Init ==
    /\ events = [a \in Accts |-> [t \in Types |-> <<>>]]
    /\ next_refnum = 0
    /\ inside = [t \in Types |-> 0]
    /\ quiet = FALSE
    /\ recursive \in Recursive
    /\ stack = <<>> /\ hangs = FALSE

Refnums(list) == {list[i].refnum : i \in DOMAIN list}

(* Numbers are given out again after the largest; by then the handler that *)
(* had the number is gone.                                                 *)
NotInUse(refnum) == \A a \in Accts, t \in Types : refnum \notin Refnums(events[a][t])

Forgetting(refnum) ==
    [i \in DOMAIN stack |-> [stack[i] EXCEPT !.first = @ \ {refnum}, !.ran = @ \ {refnum}]]

(* event_add: a name that is not found is refused.                         *)
Add(a, name, cmd, q) ==
    /\ Commanding
    /\ NotInUse(next_refnum)
    /\ EventFind(name) \in Types
    /\ events' = [events EXCEPT ![a][EventFind(name)] =
                     Append(@, [command |-> cmd, name |-> name,
                                refnum |-> next_refnum, quiet |-> q,
                                has_run |-> FALSE])]
    /\ next_refnum' = IF next_refnum = MaxRefnum THEN 0 ELSE next_refnum + 1
    /\ stack' = Forgetting(next_refnum)
    /\ UNCHANGED <<inside, quiet, recursive, hangs>>

DelRefnum(a, refnum) ==
    /\ Commanding
    /\ \E t \in Types, i \in 1 .. MaxRefnum :
          /\ i <= Len(events[a][t]) /\ events[a][t][i].refnum = refnum
          /\ events' = [events EXCEPT ![a][t] = RemoveAt(@, i)]
    /\ UNCHANGED <<next_refnum, inside, quiet, recursive, stack, hangs>>

(* event_del_type without a command.                                       *)
DelType(a, name) ==
    /\ Commanding
    /\ EventFind(name) \in Types
    /\ events' = [events EXCEPT ![a][EventFind(name)] = <<>>]
    /\ UNCHANGED <<next_refnum, inside, quiet, recursive, stack, hangs>>

(* With one: the loop looks at the first handler and never at the next, so *)
(* that it has no end if the first has another command.                    *)
DelCommand(a, name, cmd) ==
    /\ Commanding
    /\ EventFind(name) \in Types
    /\ LET list == events[a][EventFind(name)] IN
       /\ list # <<>>
       /\ \/ /\ Head(list).command = cmd
             /\ events' = [events EXCEPT ![a][EventFind(name)] = Tail(@)]
             /\ hangs' = FALSE
          \/ /\ Head(list).command # cmd
             /\ hangs' = TRUE
             /\ UNCHANGED events
    /\ UNCHANGED <<next_refnum, inside, quiet, recursive, stack>>

Purge(a) ==
    /\ Commanding
    /\ events' = [events EXCEPT ![a] = [t \in Types |-> <<>>]]
    /\ UNCHANGED <<next_refnum, inside, quiet, recursive, stack, hangs>>

SetRecursive(b) ==
    /\ Commanding
    /\ recursive' = b
    /\ UNCHANGED <<events, next_refnum, inside, quiet, stack, hangs>>

-----------------------------------------------------------------------------
(* mutant of Unrun: the flags are left                                     *)
StillRun(list) == list

(* event_generate up to its second loop.                                   *)
Unrun(list) == [i \in DOMAIN list |-> [list[i] EXCEPT !.has_run = FALSE]]

Generate(a, t) ==
    /\ Commanding
    /\ Len(stack) < MaxDepth
    /\ events' = [events EXCEPT ![a][t] = Unrun(@)]
    /\ stack' = Append([i \in DOMAIN stack |->
                          IF stack[i].acct = a /\ stack[i].type = t
                          THEN [stack[i] EXCEPT !.nested = TRUE, !.first = {}] ELSE stack[i]],
                       [acct |-> a, type |-> t, at |-> "loop", quiet |-> FALSE,
                        old |-> FALSE, first |-> Refnums(events[a][t]),
                        ran |-> {}, nested |-> FALSE])
    /\ UNCHANGED <<next_refnum, inside, quiet, recursive, hangs>>

HandlersOfTop == events[Top.acct][Top.type]

(* mutant of Waiting: what has run is forgotten                            *)
WaitingAll == DOMAIN HandlersOfTop

Waiting == {i \in DOMAIN HandlersOfTop : ~HandlersOfTop[i].has_run}

Pending == {i \in Waiting : \A j \in Waiting : i <= j}

event_should_generate(t) == inside[t] = 0 \/ recursive

Entered(runs) == [inside EXCEPT ![Top.type] = IF runs THEN @ + 1 ELSE @]

(* The event on top while its handler h runs.                              *)
Calling(h) == [Top EXCEPT !.at = "handler", !.quiet = h.quiet, !.old = quiet /\ h.quiet,
                          !.ran = @ \cup {h.refnum}]

(* A handler that may not run is marked as run all the same.               *)
StartHandler ==
    /\ stack # <<>> /\ Top.at = "loop"
    /\ \E i \in Pending :
          LET h == HandlersOfTop[i]
              runs == event_should_generate(Top.type)
          IN
          /\ events' = [events EXCEPT ![Top.acct][Top.type][i].has_run = TRUE]
          /\ inside' = Entered(runs)
          /\ quiet' = (quiet \/ (runs /\ h.quiet))
          /\ stack' = IF runs THEN [stack EXCEPT ![Len(stack)] = Calling(h)] ELSE stack
    /\ UNCHANGED <<next_refnum, recursive, hangs>>

(* The quiet flag is put back before the result is looked at.              *)
PutBack(ret) == IF Top.quiet THEN Top.old ELSE quiet

(* mutant of Left: not when the handler took the event over                *)
LeftAtZero(ret) == IF ret = 0 THEN [inside EXCEPT ![Top.type] = @ - 1] ELSE inside

Left(ret) == [inside EXCEPT ![Top.type] = @ - 1]

(* The handler returns; any result but 0 ends the event.                   *)
HandlerReturns(ret) ==
    /\ ~hangs
    /\ stack # <<>> /\ Top.at = "handler"
    /\ quiet' = PutBack(ret)
    /\ inside' = Left(ret)
    /\ stack' = IF ret # 0 THEN Front(stack)
                ELSE [stack EXCEPT ![Len(stack)] =
                        [@ EXCEPT !.at = "loop", !.quiet = FALSE, !.old = FALSE]]
    /\ UNCHANGED <<events, next_refnum, recursive, hangs>>

Finish ==
    /\ stack # <<>> /\ Top.at = "loop"
    /\ Waiting = {}
    /\ stack' = Front(stack)
    /\ UNCHANGED <<events, next_refnum, inside, quiet, recursive, hangs>>

Command ==
    \E a \in Accts :
       \/ \E t \in Types, cmd \in Commands :
             \/ Add(a, NameOfType[t], cmd, cmd \in Quiet)
             \/ DelCommand(a, NameOfType[t], cmd)
       \/ \E t \in Types : Generate(a, t) \/ DelType(a, NameOfType[t])
       \/ \E r \in 0 .. MaxRefnum : DelRefnum(a, r)
       \/ Purge(a)

Step == StartHandler \/ Finish \/ \E ret \in {0, 1} : HandlerReturns(ret)

Next == Command \/ Step \/ \E b \in Recursive \ {recursive} : SetRecursive(b)

Spec == Init /\ [][Next]_vars

-----------------------------------------------------------------------------
TypeOK ==
    /\ \A a \in Accts, t \in Types : events[a][t] \in Seq(Entry)
    /\ next_refnum \in 0 .. MaxRefnum
    /\ inside \in [Types -> Nat]
    /\ quiet \in BOOLEAN /\ recursive \in Recursive
    /\ stack \in Seq(Frame)
    /\ hangs \in BOOLEAN

(* inside counts the handlers of a type that are running, however the      *)
(* events are nested and whoever ends them (event_generate).               *)
InsideExact ==
    \A t \in Types :
       inside[t] = Cardinality({i \in DOMAIN stack : stack[i].type = t
                                                     /\ stack[i].at = "handler"})

(* No handler runs twice for one event, whatever handlers do to the list,  *)
(* unless one of them generated the same event again (event_generate).     *)
OncePerEvent ==
    [][\A i \in DOMAIN stack' :
         i \in DOMAIN stack /\ stack[i].at = "loop" /\ stack'[i].at = "handler"
            => stack'[i].ran # stack[i].ran \/ stack[i].nested]_vars

(* An event that no handler took over has run every handler that was there *)
(* when it was generated and still is, with the same exception.            *)
Missed(f) == (f.first \cap Refnums(events[f.acct][f.type])) \ f.ran

EndsNow == stack # <<>> /\ Top.at = "loop" /\ stack' = Front(stack)

MissedOnlyIfNested ==
    [][EndsNow /\ inside[Top.type] = 0 /\ ~Top.nested => Missed(Top) = {}]_vars

(* Every handler runs for an event, and once: both of these                *)
(* (event_generate).                                                       *)
HandlersOnce == OncePerEvent /\ MissedOnlyIfNested

(* A handler of an event adds a handler, or generates an event again that  *)
(* is in progress.                                                         *)
Feeds ==
    /\ stack # <<>>
    /\ \/ next_refnum' # next_refnum
       \/ /\ Len(stack') > Len(stack)
          /\ \E i \in DOMAIN stack : /\ stack[i].acct = Last(stack').acct
                                     /\ stack[i].type = Last(stack').type

(* Handlers can keep an event going for ever, since event_generate starts  *)
(* again at the head after each of them, but only in two ways: by adding   *)
(* handlers for ever, or by generating the event again for ever, where one *)
(* that takes the inner event over leaves others marked as not yet run.    *)
(* Deleting handlers, in any order, and other events cannot.  But for that *)
(* and for the loop of event_del_type, every event ends.                   *)
EventsEnd == <>[]hangs \/ []<><<Feeds>>_vars \/ (stack # <<>> ~> stack = <<>>)
=============================================================================
