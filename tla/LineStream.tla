----------------------------- MODULE LineStream -----------------------------
(***************************************************************************)
(* What a connection to a text protocol is for its handlers: the lines     *)
(* that one side says are heard by the other, whole, once, and in order,   *)
(* however they are cut on the way.  A new connection starts afresh.       *)
(*                                                                         *)
(* Of a connection that has been spoiled nothing is promised any more; the *)
(* implementation says when that is.                                       *)
(***************************************************************************)
EXTENDS Sequences, SequencesExt

CONSTANT Line

VARIABLES said,    \* the lines said on this connection
          heard,   \* the lines that reached their handler
          whole    \* whether the promise holds for this connection

Init == said = <<>> /\ heard = <<>> /\ whole = TRUE

Say == /\ \E line \in Line : said' = Append(said, line)
       /\ UNCHANGED <<heard, whole>>

(* What was read may complete several lines.                               *)
Hear == /\ whole /\ IsPrefix(heard', said) /\ IsStrictPrefix(heard, heard')
        /\ UNCHANGED <<said, whole>>

Spoil == ~whole' /\ UNCHANGED said

Connect == said' = <<>> /\ heard' = <<>> /\ whole' \in BOOLEAN

Next == Say \/ Hear \/ Spoil \/ Connect

Spec == Init /\ [][Next]_<<said, heard, whole>>
=============================================================================
