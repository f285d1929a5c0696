------------------------------ MODULE LineEdit ------------------------------
(***************************************************************************)
(* What a line editor with a history promises: a line that a cursor cuts   *)
(* in two and the lines entered before, the newest first.  A step touches  *)
(* one side of the cursor, replaces the line by one that was entered, or   *)
(* empties it; what is entered becomes the newest line; lines are          *)
(* forgotten from the oldest on.                                           *)
(***************************************************************************)
EXTENDS Integers, Sequences, SequencesExt

VARIABLES left, right,
          mark,      \* how much of left was not completed
          lines

Line == left \o right
Trims(h) == {SubSeq(h, 1, n) : n \in 0 .. Len(h)}

Insert == /\ IsPrefix(left, left') /\ UNCHANGED <<right, lines>>
Rub    == /\ IsPrefix(left', left) /\ UNCHANGED <<right, lines>>
Kill   == /\ IsSuffix(right', right) /\ UNCHANGED <<left, lines>>
Move   == /\ left' \o right' = Line /\ UNCHANGED lines
Empty  == /\ left' = <<>> /\ right' = <<>> /\ lines' \in {lines, <<>>}
Forget == /\ lines' \in Trims(lines) /\ UNCHANGED <<left, right>>
Enter  == /\ Line # <<>> /\ left' = <<>> /\ right' = <<>>
          /\ lines' \in Trims(<<Line>> \o lines)
(* A line that was being typed is kept as the newest one.                  *)
Recall == /\ right' = <<>> /\ \E i \in DOMAIN lines : left' = lines[i]
          /\ lines' \in {lines} \cup Trims(<<Line>> \o lines)
(* What was completed before is replaced, what was typed is not.           *)
Complete == IsPrefix(SubSeq(left, 1, mark), left') /\ UNCHANGED <<right, lines>>

Init == left = <<>> /\ right = <<>> /\ lines = <<>> /\ mark = 0
Next == \/ Insert \/ Rub \/ Kill \/ Move \/ Empty \/ Forget \/ Enter \/ Recall
        \/ Complete
Spec == Init /\ [][Next]_<<left, right, lines>>
=============================================================================
