----------------------------- MODULE PorkTimer ------------------------------
(***************************************************************************)
(* Timers, pork_timer.c, and the main loop that runs them (pork.c).        *)
(*                                                                         *)
(* timer_run walks timer_list and runs the command of every timer that is  *)
(* due.  It saves the next node before, and uses the timer and that node   *)
(* after the command: a command that deletes a timer, or an account and    *)
(* with it its timers, frees what the walk still needs.                    *)
(*                                                                         *)
(* A timer is known by its reference number.  Numbers grow and a timer is   *)
(* added at the head, so the list is in falling order of them and the model *)
(* keeps it as a function of the numbers.                                   *)
(* Instead of the clock the model keeps how long ago each timer ran last.  *)
(***************************************************************************)
EXTENDS Integers

CONSTANTS Accts,       \* the accounts
          Commands,    \* what timers run
          Intervals,   \* numbers of seconds between two runs
          Times,       \* how often to run a command; 0 is without end
          MaxRefnum    \* bound on the timers ever added

VARIABLES timer_list,    \* the struct timer_entry of every timer, by refnum
          last_refnum,
          online,        \* the accounts that exist
          passed,        \* whether a second has passed since the timers ran
          pc,            \* where the program is
          cur, next,     \* the two pointers of timer_run
          lost,          \* not in the code: whether the command deleted a
                         \* timer that cur or next points to,
          ran            \* and how often the command of each timer was run
                         \* (no count goes further than one too many)

vars == <<timer_list, last_refnum, online, passed, pc, cur, next, lost, ran>>
walk == <<pc, cur, next>>

Refnums == 0 .. MaxRefnum - 1
None    == -1
Listed  == DOMAIN timer_list

(* Longer ago than the longest interval is as good as just that.           *)
Horizon == CHOOSE h \in Intervals : \A i \in Intervals : i <= h

(* all is not in the code: what times was at first.                        *)
Timer == [command: Commands, acct: Accts, since: Nat,
          interval: Intervals, times: Nat, all: Times]

(* The first node of those in R, a part of the list.                       *)
FirstOf(R) == IF R = {} THEN None ELSE CHOOSE r \in R : \A q \in R : q <= r

NextOf(r) == FirstOf({q \in Listed : q < r})

(* mutant of Kept: what follows the first of them is lost                  *)
KeptTorn(R) == timer_list' = [r \in {q \in Listed : q > FirstOf(R)} |-> timer_list[r]]

Kept(R) == timer_list' = [r \in Listed \ R |-> timer_list[r]]

Needed == IF pc = "command" THEN {cur, next} ELSE {}

-----------------------------------------------------------------------------
Init ==
    /\ timer_list = [r \in {} |-> 0] /\ last_refnum = 0
    /\ online = Accts
    /\ passed = FALSE
    /\ pc = "main" /\ cur = None /\ next = None
    /\ lost = FALSE
    /\ ran = [r \in Refnums |-> 0]

(* Commands come from the user, in the main loop, or from a timer.         *)
Commanding == pc \in {"main", "command"}

timer_add(cmd, a, interval, times) ==
    /\ Commanding
    /\ a \in online
    /\ last_refnum < MaxRefnum
    /\ timer_list' = [r \in Listed \cup {last_refnum} |->
                        IF r = last_refnum
                        THEN [command |-> cmd, acct |-> a, since |-> 0,
                              interval |-> interval, times |-> times, all |-> times]
                        ELSE timer_list[r]]
    /\ last_refnum' = last_refnum + 1
    /\ UNCHANGED <<online, passed, walk, lost, ran>>

Free(R) ==
    /\ Kept(R)
    /\ lost' = (lost \/ R \cap Needed # {})
    /\ UNCHANGED <<last_refnum, passed, walk, ran>>

(* The timer added last of those that run the command is deleted.          *)
FirstWith(cmd) == FirstOf({r \in Listed : timer_list[r].command = cmd})

timer_del(cmd) ==
    /\ Commanding
    /\ FirstWith(cmd) # None /\ Free({FirstWith(cmd)})
    /\ UNCHANGED online

timer_del_refnum(r) ==
    /\ Commanding
    /\ r \in Listed /\ Free({r})
    /\ UNCHANGED online

timer_destroy ==
    /\ Commanding
    /\ Free(Listed)
    /\ UNCHANGED online

OwnedBy(a) == {r \in Listed : timer_list[r].acct = a}

(* The account is deleted: timer_del_owner.                                *)
pork_acct_free(a) ==
    /\ Commanding
    /\ a \in online /\ online' = online \ {a}
    /\ Free(OwnedBy(a))

-----------------------------------------------------------------------------
(* A second passes, whatever the program is doing.                         *)
Tick ==
    /\ passed' = TRUE
    /\ timer_list' = [r \in Listed |-> [timer_list[r] EXCEPT
                        !.since = IF @ < Horizon THEN @ + 1 ELSE @]]
    /\ passed' # passed \/ timer_list' # timer_list
    /\ UNCHANGED <<last_refnum, online, walk, lost, ran>>

(* mutant of timer_run: the main loop compares the times the wrong way     *)
TimerRunBackwards ==
    /\ pc = "main" /\ ~passed
    /\ passed' = FALSE
    /\ pc' = "walk" /\ cur' = FirstOf(Listed)
    /\ next' = None /\ lost' = FALSE
    /\ UNCHANGED <<timer_list, last_refnum, online, ran>>

(* The main loop runs the timers at most once per second.                  *)
timer_run ==
    /\ pc = "main" /\ passed
    /\ passed' = FALSE
    /\ pc' = "walk" /\ cur' = FirstOf(Listed)
    /\ next' = None /\ lost' = FALSE
    /\ UNCHANGED <<timer_list, last_refnum, online, ran>>

Due(r) == timer_list[r].interval <= timer_list[r].since

Visit ==
    /\ pc = "walk" /\ cur \in Listed
    /\ \/ /\ Due(cur)
          /\ pc' = "command" /\ next' = NextOf(cur)
          /\ ran' = [ran EXCEPT ![cur] = IF @ <= timer_list[cur].all THEN @ + 1 ELSE @]
          /\ UNCHANGED cur
       \/ /\ ~Due(cur)
          /\ cur' = NextOf(cur)
          /\ UNCHANGED <<pc, next, ran>>
    /\ UNCHANGED <<timer_list, last_refnum, online, passed, lost>>

WalkEnd ==
    /\ pc = "walk" /\ cur = None
    /\ pc' = "main"
    /\ UNCHANGED <<timer_list, last_refnum, online, passed, cur, next, lost, ran>>

(* mutant of Again: the run is not counted                                *)
AgainUncounted(t) == [t EXCEPT !.since = 0]

Again(t) == [t EXCEPT !.since = 0, !.times = IF @ > 1 THEN @ - 1 ELSE @]

Over(r) == timer_list[r].times = 1

(* The command returns; the timer it was run for is used again.            *)
Return ==
    /\ pc = "command" /\ cur \in Listed
    /\ pc' = "walk" /\ cur' = next /\ next' = None
    /\ IF Over(cur) THEN Kept({cur})
                    ELSE timer_list' = [timer_list EXCEPT ![cur] = Again(@)]
    /\ UNCHANGED <<last_refnum, online, passed, lost, ran>>

(* What cur points to was freed.                                           *)
Stray ==
    /\ pc \in {"walk", "command"} /\ cur \notin Listed \cup {None}
    /\ pc' = "undefined"
    /\ UNCHANGED <<timer_list, last_refnum, online, passed, cur, next, lost, ran>>

Command ==
    \/ \E cmd \in Commands, a \in Accts, i \in Intervals, n \in Times :
          timer_add(cmd, a, i, n)
    \/ \E cmd \in Commands : timer_del(cmd)
    \/ \E r \in Refnums : timer_del_refnum(r)
    \/ timer_destroy
    \/ \E a \in Accts : pork_acct_free(a)

Step == timer_run \/ Visit \/ WalkEnd \/ Return \/ Stray

Next == Command \/ Step \/ Tick

Spec == Init /\ [][Next]_vars

(* Commands return, the main loop goes on, and time passes.                *)
FairSpec == Spec /\ WF_vars(Step) /\ WF_vars(Tick)

-----------------------------------------------------------------------------
TypeOK ==
    /\ Listed \subseteq Refnums /\ timer_list \in [Listed -> Timer]
    /\ last_refnum \in 0 .. MaxRefnum
    /\ online \subseteq Accts /\ passed \in BOOLEAN
    /\ pc \in {"main", "walk", "command", "undefined"}
    /\ cur \in Refnums \cup {None} /\ next \in Refnums \cup {None}
    /\ lost \in BOOLEAN /\ ran \in [Refnums -> Nat]

(* timer_run touches freed memory only after a command has deleted the     *)
(* timer it was run for, or the next one.                                  *)
StrayOnlyIfLost ==
    pc = "undefined" \/ (pc = "walk" /\ cur \notin Listed \cup {None}) => lost

(* No timer outlives its account: no command is run for one that is gone   *)
(* (timer_del_owner).                                                      *)
OwnersExist == \A r \in Listed : timer_list[r].acct \in online

(* A timer never runs its command more often than it was asked to, and     *)
(* when timer_run takes it off the list it has run it exactly so often.    *)
NeverTooOften == \A r \in Listed : timer_list[r].all > 0 => ran[r] <= timer_list[r].all

(* A timer that is to run a number of times is not on the list for ever    *)
(* (unless freed memory has been used, see StrayOnlyIfLost).               *)
FiniteTimersEnd ==
    \A r \in Refnums : (r \in Listed /\ timer_list[r].all > 0)
                         ~> (r \notin Listed \/ pc = "undefined")
=============================================================================
