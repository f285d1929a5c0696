------------------------------ MODULE IrcInput ------------------------------
(***************************************************************************)
(* From bytes to lines: irc_input_dispatch of pork_irc_input.c and         *)
(* sock_read of pork_inet.c.                                               *)
(*                                                                         *)
(* TCP hands the lines over in pieces of any size.  input_buf keeps what   *)
(* has no newline yet; input_offset is its length.  A byte is the number   *)
(* of the line it belongs to, NL its newline, Space a space at the         *)
(* beginning of a line: what irc_tokenize refuses is a line that has       *)
(* nothing before its first space.                                         *)
(***************************************************************************)
EXTENDS Integers, SequencesExt, FiniteSetsExt

CONSTANTS Lengths,       \* lengths of lines, without the newline
          Blanks,        \* whether the server sends lines that are refused
          Drops,         \* whether the connection is lost and made again
          MaxLines,      \* lines said on one connection
          MaxStream,     \* bytes under way
          BufLen         \* IRC_IN_BUFLEN

ASSUME NumbersAssumption == MaxLines \in Nat /\ MaxStream \in Nat /\ BufLen \in Nat \ {0}
ASSUME LengthsAssumption == Lengths \subseteq Nat \ {0}

VARIABLES said,         \* lines said by the server, but for those to be refused
          stream,       \* bytes said and not read
          input_buf,    \* bytes read and not handled, up to the '\0'
          handled,      \* lines that irc_callback_run was given
          closed,       \* the client has given the connection up
          spoiled       \* not in the code: a line was refused on this
                        \* connection, or it began with something in the buffer

vars == <<said, stream, input_buf, handled, closed, spoiled>>

NL    == 0
Space == -1

Bytes == {NL, Space} \cup 1 .. MaxLines

(* Line number k.                                                          *)
Text(k, len) == [i \in 1 .. len |-> k]

(* Lines that are refused: none, or a space and more.                      *)
Blank == {<<>>, <<Space>>}

-----------------------------------------------------------------------------
(* irc_tokenize.                                                           *)
Valid(line) == line # <<>> /\ line[1] # Space

Newlines(b) == {i \in DOMAIN b : b[i] = NL}

(* The line that ends at newline i of b.                                   *)
Begin(b, i) == Max({0} \cup {j \in Newlines(b) : j < i}) + 1

LineAt(b, i) == SubSeq(b, Begin(b, i), i - 1)

(* The newlines that the loop gets to: a line that is refused ends it, its *)
(* newline has already become the end of the string.                       *)
Refused(b) == {i \in Newlines(b) : ~Valid(LineAt(b, i))}

(* mutant of Reached: one line of what was read                            *)
ReachedOnce(b) == {i \in Newlines(b) \ Refused(b) : \A j \in Newlines(b) : i <= j}

Reached(b) == {i \in Newlines(b) : \A j \in Refused(b) : i < j}

(* They are handled in turn.                                               *)
Nth(S, n) == CHOOSE i \in S : Cardinality({j \in S : j <= i}) = n

Handled(b) == [n \in 1 .. Cardinality(Reached(b)) |-> LineAt(b, Nth(Reached(b), n))]

(* mutant of Leftover: it is dropped when there was a line *)
LeftoverDropped(b) == IF Newlines(b) = {} THEN b ELSE <<>>

(* What is moved to the front of the buffer.                               *)
Leftover(b) ==
    IF Refused(b) # {}
    THEN LineAt(b, Min(Refused(b)))
    ELSE SubSeq(b, Begin(b, Len(b) + 1), Len(b))


(* sock_read leaves room for the '\0'.                                     *)
Room == BufLen - Len(input_buf) - 1

-----------------------------------------------------------------------------
Init ==
    /\ said = <<>> /\ stream = <<>> /\ input_buf = <<>> /\ handled = <<>>
    /\ closed = FALSE /\ spoiled = FALSE

Sends(line) ==
    /\ stream' = stream \o line \o <<NL>> /\ Len(stream') <= MaxStream
    /\ UNCHANGED <<input_buf, handled, closed, spoiled>>

(* The server says a line.                                                 *)
Say ==
    /\ ~closed /\ Len(said) < MaxLines
    /\ \E len \in Lengths :
          /\ said' = Append(said, Text(Len(said) + 1, len))
          /\ Sends(Text(Len(said) + 1, len))

SayBlank ==
    /\ Blanks /\ ~closed
    /\ \E line \in Blank : Sends(line)
    /\ UNCHANGED said

(* select() reports bytes, and there is room for n of them.                *)
Dispatch ==
    /\ ~closed /\ stream # <<>>
    /\ \E n \in 1 .. Len(stream) :
          /\ n <= Room
          /\ LET b == input_buf \o SubSeq(stream, 1, n) IN
             /\ handled' = handled \o Handled(b)
             /\ input_buf' = Leftover(b)
             /\ spoiled' = (spoiled \/ Refused(b) # {})
          /\ stream' = SubSeq(stream, n + 1, Len(stream))
    /\ UNCHANGED <<said, closed>>

(* There is no room: read() returns 0, which is taken for the end of the   *)
(* connection.                                                             *)
Full ==
    /\ ~closed /\ stream # <<>> /\ Room < 1
    /\ closed' = TRUE
    /\ UNCHANGED <<said, stream, input_buf, handled, spoiled>>

(* The connection is lost and made again (PorkAcct).  The buffer stays.    *)
Reconnect ==
    /\ Drops \/ closed
    /\ said' = <<>> /\ stream' = <<>> /\ handled' = <<>> /\ closed' = FALSE
    /\ spoiled' = (input_buf # <<>>)
    /\ UNCHANGED input_buf

Next == Say \/ SayBlank \/ Dispatch \/ Full \/ Reconnect

Spec == Init /\ [][Next]_vars

(* select() goes on reporting what can be read.                            *)
FairSpec == Spec /\ WF_vars(Dispatch) /\ WF_vars(Full)

-----------------------------------------------------------------------------
TypeOK ==
    /\ said \in Seq(Seq(Bytes)) /\ stream \in Seq(Bytes)
    /\ handled \in Seq(Seq(Bytes \ {NL}))
    /\ input_buf \in Seq(Bytes \ {NL}) /\ Len(input_buf) < BufLen

(* Every line that is said is heard.                                       *)
EveryLineHeard == \A k \in 1 .. MaxLines :
    Len(said) >= k ~> Len(handled) >= k \/ Len(said) < k \/ closed \/ spoiled

Promise == INSTANCE LineStream WITH
               Line <- {Text(k, len) : k \in 1 .. MaxLines, len \in Lengths},
               heard <- handled, whole <- ~spoiled

(* The handlers are given the lines as they were said (irc_input_dispatch). *)
ImplementsLineStream == Promise!Spec
=============================================================================
