------------------------------ MODULE Callbacks ------------------------------
(***************************************************************************)
(* The two lists of commands that others have left to be run: handlers of  *)
(* events (PorkEvents) and timers (PorkTimer).  Either is walked while     *)
(* what it runs may add to it and delete from it.  A behaviour is about    *)
(* one of the two, and the other stays as it began.                        *)
(***************************************************************************)
EXTENDS PorkEvents

CONSTANTS Programs,          \* what timers run
          Intervals, Times,  \* see PorkTimer
          MaxTimers          \* bound on the timers ever added

(* cmd_timer takes a negative interval, and no negative number of runs.    *)
ASSUME TimesAssumption == Intervals \subseteq Int /\ Times \subseteq Nat
ASSUME TimersAssumption == MaxTimers \in Nat

VARIABLES part, timer_list, last_refnum, online, passed, pc, cur, next, lost, ran

Timers == INSTANCE PorkTimer WITH Commands <- Programs, MaxRefnum <- MaxTimers

timerVars == <<timer_list, last_refnum, online, passed, pc, cur, next, lost, ran>>

OfEvents(A) == part = "events" /\ A /\ UNCHANGED <<part, timerVars>>
OfTimers(A) == part = "timers" /\ A /\ UNCHANGED <<part, vars>>

CallbacksInit ==
    /\ Init /\ Timers!Init
    /\ part = "timers" => ~recursive

(* Next of the one or of the other.                                        *)
CallbacksNext ==
    \/ \E a \in Accts :
          \/ \E t \in Types, cmd \in Commands :
                \/ OfEvents(Add(a, NameOfType[t], cmd, cmd \in Quiet))
                \/ OfEvents(DelCommand(a, NameOfType[t], cmd))
          \/ \E t \in Types : OfEvents(Generate(a, t)) \/ OfEvents(DelType(a, NameOfType[t]))
          \/ \E r \in 0 .. MaxRefnum : OfEvents(DelRefnum(a, r))
          \/ OfEvents(Purge(a))
    \/ OfEvents(StartHandler) \/ OfEvents(Finish)
    \/ \E ret \in {0, 1} : OfEvents(HandlerReturns(ret))
    \/ \E b \in Recursive \ {recursive} : OfEvents(SetRecursive(b))
    \/ \E cmd \in Programs, a \in Accts, i \in Intervals, n \in Times :
          OfTimers(Timers!timer_add(cmd, a, i, n))
    \/ \E cmd \in Programs : OfTimers(Timers!timer_del(cmd))
    \/ \E r \in Timers!Refnums : OfTimers(Timers!timer_del_refnum(r))
    \/ OfTimers(Timers!timer_destroy)
    \/ \E a \in Accts : OfTimers(Timers!pork_acct_free(a))
    \/ OfTimers(Timers!timer_run) \/ OfTimers(Timers!Visit) \/ OfTimers(Timers!WalkEnd)
    \/ OfTimers(Timers!Return) \/ OfTimers(Timers!Stray) \/ OfTimers(Timers!Tick)

allVars == <<part, vars, timerVars>>

(* event_generate goes on, and a Perl function that is called returns, if  *)
(* what it does itself ends; nobody has to give a command.                 *)
Returns(d) == Len(stack) = d /\ OfEvents(\E ret \in {0, 1} : HandlerReturns(ret))

EventsGoOn == /\ WF_allVars(OfEvents(Step))
              /\ \A d \in 1 .. MaxDepth : SF_allVars(Returns(d))

(* timer_run and its commands go on, and time passes.                      *)
TimersGoOn == WF_allVars(OfTimers(Timers!Step)) /\ WF_allVars(OfTimers(Timers!Tick))

EventsInit == part = "events" /\ CallbacksInit
TimersInit == part = "timers" /\ CallbacksInit

EventsSpec == EventsInit /\ [][CallbacksNext]_allVars /\ EventsGoOn
TimersSpec == TimersInit /\ [][CallbacksNext]_allVars /\ TimersGoOn

-----------------------------------------------------------------------------
(* timer_run touches freed memory only after a command has deleted the     *)
(* timer it was run for, or the next one (timer_run).                      *)
StrayOnlyIfLost == Timers!StrayOnlyIfLost

(* A timer never runs its command more often than it was asked to.         *)
NeverTooOften == Timers!NeverTooOften

(* A timer that is to run a number of times is not on the list for ever,   *)
(* unless freed memory has been used (timer_run).                          *)
FiniteTimersEnd == Timers!FiniteTimersEnd
=============================================================================
