---------------------------- MODULE AcctLifecycle ----------------------------
(***************************************************************************)
(* What an account promises the user about its connection, with no word    *)
(* about sockets: it connects, it is online, and when the connection is    *)
(* lost it tries again a limited number of times, then gives up and is     *)
(* gone.                                                                   *)
(***************************************************************************)
EXTENDS Integers

CONSTANT MaxTries    \* RECONNECT_TRIES

VARIABLES phase,    \* "gone", "connecting", "online", "retrying", "waiting"
          tries     \* attempts to reconnect since the connection was lost

vars == <<phase, tries>>

(* One attempt is made at once, whatever MaxTries.                         *)
Attempts == IF MaxTries = 0 THEN 1 ELSE MaxTries

Init == phase = "gone" /\ tries = 0

Connect == phase = "gone" /\ phase' = "connecting" /\ tries' = 0

Welcome ==
    /\ phase \in {"connecting", "retrying"}
    /\ phase' = "online" /\ tries' = 0

(* An attempt that fails at once leaves the account waiting.               *)
Retry ==
    /\ \/ phase = "online"
       \/ phase = "waiting" /\ tries < MaxTries
    /\ phase' \in {"retrying", "waiting"}
    /\ tries' = tries + 1
    /\ phase' = "waiting" => tries' < MaxTries

Fail ==
    /\ phase = "retrying" /\ tries < MaxTries
    /\ phase' = "waiting" /\ UNCHANGED tries

(* The user signs off, the first attempt fails, or the last one.           *)
Leave == phase # "gone" /\ phase' = "gone" /\ tries' = 0

Next == Connect \/ Welcome \/ Retry \/ Fail \/ Leave

Spec == Init /\ [][Next]_vars

TypeOK ==
    /\ phase \in {"gone", "connecting", "online", "retrying", "waiting"}
    /\ tries \in 0 .. Attempts

(* An account that is not online is working on it or counts its attempts.  *)
CountsAttempts ==
    /\ phase \in {"gone", "connecting", "online"} => tries = 0
    /\ phase = "waiting" => 0 < tries /\ tries < MaxTries
==============================================================================
