--------------------------- MODULE IrcLines_proofs ----------------------------
(***************************************************************************)
(* Theorems of IrcOutput and IrcInput, for lines of any length, any number *)
(* of them, and buffers of any size.                                       *)
(***************************************************************************)
EXTENDS IrcLines, SequenceTheorems, FiniteSetTheorems, WellFoundedInduction, TLAPS

-----------------------------------------------------------------------------
(* What is written.  The lines sent on a connection that has begun are the *)
(* login and those that follow the number since.                           *)
SentInOrder ==
    /\ sent \in Seq(Int) /\ since \in Nat /\ typed \in Nat
    /\ sent # <<>> => /\ Len(sent) >= 2 /\ sent[1] = -2 /\ sent[2] = -1
                      /\ \A i \in 3 .. Len(sent) : sent[i] = since + i - 2

(* All of them, until a write fails; then they are lost.                   *)
SentOrLost ==
    sent # <<>> =>
       /\ since <= typed
       /\ ~broken => Len(sent) = typed - since + 2
       /\ source = "event" =>
             \A n \in since + 1 .. typed : n <= since + Len(sent) - 2 \/ n \in lost

(* The queue holds what was typed before there was a descriptor.           *)
QueueIsEarly ==
    /\ outq \in Seq(Int) /\ early = 1 .. Len(outq)
    /\ \A i \in 1 .. Len(outq) : outq[i] = i
    /\ sock = "none" => typed = Len(outq) /\ transport = "null" /\ sent = <<>>

(* A session that reads has a transport to write to; one that is lost has  *)
(* a connection whose writes fail.                                         *)
Attached ==
    /\ transport \in {"null", "sock"}
    /\ source = "event" => sock # "none" /\ transport = "sock"
    /\ transport = "sock" => sent # <<>>
    /\ transport = "null" /\ sent # <<>> => broken

HarmHasCause ==
    /\ harm = "null" => sock # "none" /\ source # "event"
    /\ harm = "spins" => outq # <<>>

OutInv == SentInOrder /\ SentOrLost /\ QueueIsEarly /\ Attached /\ HarmHasCause

LEMMA AppendIs ==
    ASSUME NEW S, NEW s \in Seq(S), NEW x \in S
    PROVE  /\ Append(s, x) \in Seq(S) /\ Append(s, x) # <<>>
           /\ s \o <<x>> = Append(s, x)
           /\ Len(Append(s, x)) = Len(s) + 1 /\ Len(s) \in Nat
           /\ Append(s, x)[Len(s) + 1] = x
           /\ \A i \in 1 .. Len(s) : Append(s, x)[i] = s[i]
OBVIOUS

LEMMA ConcatInt ==
    ASSUME NEW s \in Seq(Int), NEW t \in Seq(Int)
    PROVE  /\ s \o t \in Seq(Int) /\ Len(s \o t) = Len(s) + Len(t)
           /\ \A i \in 1 .. Len(s) : (s \o t)[i] = s[i]
           /\ \A i \in 1 .. Len(t) : (s \o t)[Len(s) + i] = t[i]
<1>1. Len(s) \in Nat /\ Len(t) \in Nat
  BY LenProperties
<1>2. /\ s \o t \in Seq(Int) /\ Len(s \o t) = Len(s) + Len(t)
      /\ \A i \in 1 .. Len(s) + Len(t) :
            (s \o t)[i] = IF i <= Len(s) THEN s[i] ELSE t[i - Len(s)]
  BY ConcatProperties, Zenon
<1>3. ASSUME NEW i \in 1 .. Len(s) PROVE (s \o t)[i] = s[i]
  <2>1. i \in 1 .. Len(s) + Len(t) /\ i <= Len(s)
    BY <1>1
  <2> QED BY <1>2, <2>1, Zenon
<1>4. ASSUME NEW i \in 1 .. Len(t) PROVE (s \o t)[Len(s) + i] = t[i]
  <2> DEFINE j == Len(s) + i
  <2>1. j \in 1 .. Len(s) + Len(t) /\ ~(j <= Len(s)) /\ j - Len(s) = i
    BY <1>1
  <2> HIDE DEF j
  <2>2. (s \o t)[j] = t[j - Len(s)]
    BY <1>2, <2>1, Zenon
  <2> QED BY <2>1, <2>2, Zenon DEF j
<1> QED BY <1>2, <1>3, <1>4

LEMMA TwoThen ==
    ASSUME NEW s \in Seq(Int), NEW a \in Int, NEW b \in Int, NEW r \in Seq(Int),
           Len(s) = Len(r) + 2, s[1] = a, s[2] = b,
           \A i \in 1 .. Len(r) : s[i + 2] = r[i]
    PROVE  s = <<a, b>> \o r
<1> DEFINE l == <<a, b>>
<1>1. l \in Seq(Int) /\ Len(l) = 2 /\ l[1] = a /\ l[2] = b
  OBVIOUS
<1> HIDE DEF l
<1> DEFINE t == l \o r
<1>2. Len(r) \in Nat
  BY LenProperties
<1>7. /\ t \in Seq(Int) /\ Len(t) = Len(l) + Len(r)
      /\ \A i \in 1 .. Len(l) : t[i] = l[i]
      /\ \A i \in 1 .. Len(r) : t[Len(l) + i] = r[i]
  BY <1>1, ConcatInt
<1> HIDE DEF t
<1>3. t \in Seq(Int) /\ Len(t) = Len(r) + 2 /\ t[1] = a /\ t[2] = b
  BY <1>1, <1>2, <1>7
<1>4. \A i \in 1 .. Len(r) : t[i + 2] = r[i]
  BY <1>1, <1>2, <1>7
<1>5. ASSUME NEW i \in 1 .. Len(s) PROVE s[i] = t[i]
  <2>1. CASE i = 1 \/ i = 2
    BY <1>3, <2>1
  <2>2. CASE i # 1 /\ i # 2
    <3>1. i - 2 \in 1 .. Len(r) /\ (i - 2) + 2 = i
      BY <1>2, <2>2
    <3> QED BY <1>4, <3>1
  <2> QED BY <2>1, <2>2
<1>6. s = t
  BY <1>2, <1>3, <1>5, SeqEqual
<1> QED BY <1>6 DEF t, l

LEMMA LoginThen ==
    ASSUME NEW s \in Seq(Int), NEW k \in Nat, Len(s) >= 2, s[1] = -2, s[2] = -1,
           \A i \in 3 .. Len(s) : s[i] = k + i - 2
    PROVE  s = <<-2, -1>> \o [i \in 1 .. Len(s) - 2 |-> k + i]
<1> DEFINE n == Len(s) - 2
           r == [i \in 1 .. n |-> k + i]
<1>1. Len(s) \in Nat /\ n \in Nat
  BY LenProperties
<1> HIDE DEF n
<1>2. r \in Seq(Int) /\ Len(r) = n /\ \A i \in 1 .. n : r[i] = k + i
  BY <1>1
<1> HIDE DEF r
<1>3. ASSUME NEW i \in 1 .. n PROVE s[i + 2] = r[i]
  <2>1. i + 2 \in 3 .. Len(s)
    BY <1>1 DEF n
  <2>2. s[i + 2] = k + (i + 2) - 2
    BY <2>1
  <2> QED BY <1>2, <2>2
<1>4. Len(s) = Len(r) + 2
  BY <1>1, <1>2 DEF n
<1>5. \A i \in 1 .. Len(r) : s[i + 2] = r[i]
  BY <1>2, <1>3
<1> DEFINE a == -2
           b == -1
<1>6. a \in Int /\ b \in Int /\ s[1] = a /\ s[2] = b
  OBVIOUS
<1> HIDE DEF a, b, n
<1>7. s = <<a, b>> \o r
  BY <1>2, <1>4, <1>5, <1>6, TwoThen
<1> QED BY <1>7 DEF r, n, a, b

LEMMA OutInit == Out!Init => OutInv
BY DEF Out!Init, OutInv, SentInOrder, SentOrLost, QueueIsEarly, Attached, HarmHasCause

(* A line that is typed: queued, written, lost, or written through NULL.   *)
LEMMA SendKeeps ==
    ASSUME OutInv, Out!Running, typed' = typed + 1,
           early' = (IF sock = "none" THEN early \cup {typed + 1} ELSE early),
           Out!irc_send(typed + 1), sock' = sock, transport' = transport, broken' = broken,
           since' = since, source' = source \/ source' = "none"
    PROVE  OutInv'
<1>1. typed \in Nat /\ since \in Nat /\ sent \in Seq(Int) /\ outq \in Seq(Int)
      /\ Len(sent) \in Nat /\ Len(outq) \in Nat
  BY LenProperties DEF OutInv, SentInOrder, QueueIsEarly
<1>2. CASE sock = "none"
  <2>1. outq' = Append(outq, typed + 1) /\ sent' = sent /\ lost' = lost /\ harm' = harm
    BY <1>2 DEF Out!irc_send, Out!queue_add
  <2>2. typed = Len(outq) /\ transport = "null" /\ sent = <<>>
    BY <1>2 DEF OutInv, QueueIsEarly
  <2>3. /\ outq' \in Seq(Int) /\ outq' # <<>> /\ Len(outq') = Len(outq) + 1
        /\ outq'[Len(outq) + 1] = typed + 1 /\ \A i \in 1 .. Len(outq) : outq'[i] = outq[i]
    <3> DEFINE l == typed + 1
    <3>1. l \in Int /\ outq' = Append(outq, l)
      BY <1>1, <2>1
    <3> HIDE DEF l
    <3>2. /\ outq' \in Seq(Int) /\ outq' # <<>> /\ Len(outq') = Len(outq) + 1
          /\ outq'[Len(outq) + 1] = l /\ \A i \in 1 .. Len(outq) : outq'[i] = outq[i]
      BY <1>1, <3>1, AppendIs
    <3> QED BY <3>2 DEF l
  <2>4. QueueIsEarly'
    <3>1. early' = 1 .. Len(outq')
      BY <1>1, <1>2, <2>2, <2>3 DEF OutInv, QueueIsEarly
    <3>2. \A i \in 1 .. Len(outq') : outq'[i] = i
      BY <1>1, <2>2, <2>3 DEF OutInv, QueueIsEarly
    <3> QED BY <2>1, <2>2, <2>3, <3>1, <3>2 DEF QueueIsEarly
  <2> QED BY <1>1, <1>2, <2>1, <2>2, <2>3, <2>4
          DEF OutInv, SentInOrder, SentOrLost, Attached, HarmHasCause
<1>3. CASE sock # "none" /\ transport = "null"
  <2>1. outq' = outq /\ sent' = sent /\ lost' = lost /\ harm' = "null" /\ early' = early
    BY <1>3 DEF Out!irc_send, Out!Written
  <2>2. source # "event" /\ (sent # <<>> => broken)
    BY <1>3 DEF OutInv, Attached
  <2> QED BY <1>1, <1>3, <2>1, <2>2
          DEF OutInv, SentInOrder, SentOrLost, QueueIsEarly, Attached, HarmHasCause
<1>4. CASE sock # "none" /\ transport # "null" /\ broken
  <2>1. /\ outq' = outq /\ sent' = sent /\ lost' = lost \cup {typed + 1} /\ harm' = harm
        /\ early' = early
    BY <1>4 DEF Out!irc_send, Out!Written
  <2> QED BY <1>1, <1>4, <2>1
          DEF OutInv, SentInOrder, SentOrLost, QueueIsEarly, Attached, HarmHasCause, Out!Running
<1>5. CASE sock # "none" /\ transport # "null" /\ ~broken
  <2>1. /\ outq' = outq /\ sent' = sent \o <<typed + 1>> /\ lost' = lost /\ harm' = harm
        /\ early' = early
    BY <1>5 DEF Out!irc_send, Out!Written
  <2>2. sent # <<>> /\ Len(sent) >= 2 /\ Len(sent) = typed - since + 2 /\ since <= typed
    BY <1>5 DEF OutInv, SentInOrder, SentOrLost, Attached
  <2>3. /\ sent' \in Seq(Int) /\ sent' # <<>> /\ Len(sent') = Len(sent) + 1
        /\ sent'[Len(sent) + 1] = typed + 1 /\ \A i \in 1 .. Len(sent) : sent'[i] = sent[i]
    BY <1>1, <2>1, AppendIs
  <2>4. SentInOrder'
    <3>3. sent[1] = -2 /\ sent[2] = -1 /\ 1 \in 1 .. Len(sent) /\ 2 \in 1 .. Len(sent)
      BY <1>1, <2>2 DEF OutInv, SentInOrder
    <3>4. sent'[1] = sent[1] /\ sent'[2] = sent[2]
      BY <2>3, <3>3
    <3>1. /\ sent'[1] = -2 /\ sent'[2] = -1 /\ Len(sent') >= 2 /\ since' = since
          /\ typed' \in Nat
      BY <1>1, <2>2, <2>3, <3>3, <3>4
    <3>2. ASSUME NEW i \in 3 .. Len(sent') PROVE sent'[i] = since + i - 2
      <4>1. CASE i = Len(sent) + 1
        BY <1>1, <2>2, <2>3, <4>1
      <4>2. CASE i # Len(sent) + 1
        <5>1. i \in 3 .. Len(sent) /\ i \in 1 .. Len(sent)
          BY <1>1, <2>3, <4>2
        <5> QED BY <2>2, <2>3, <5>1 DEF OutInv, SentInOrder
      <4> QED BY <4>1, <4>2
    <3> QED BY <1>1, <2>3, <3>1, <3>2 DEF SentInOrder
  <2>5. SentOrLost'
    <3>1. since' <= typed' /\ Len(sent') = typed' - since' + 2
      BY <1>1, <2>2, <2>3
    <3>2. \A n \in since' + 1 .. typed' : n <= since' + Len(sent') - 2
      BY <1>1, <2>2, <3>1
    <3> QED BY <3>1, <3>2 DEF SentOrLost
  <2>6. QueueIsEarly' /\ Attached' /\ HarmHasCause'
    BY <1>5, <2>1, <2>2, <2>3 DEF OutInv, QueueIsEarly, Attached, HarmHasCause, Out!Running
  <2> QED BY <2>4, <2>5, <2>6 DEF OutInv
<1> QED BY <1>2, <1>3, <1>4, <1>5

LEMMA OutStep == OutInv /\ [Out!Next]_(Out!vars) => OutInv'
<1> SUFFICES ASSUME OutInv, [Out!Next]_(Out!vars) PROVE OutInv'
  OBVIOUS
<1> USE DEF OutInv, SentInOrder, SentOrLost, QueueIsEarly, Attached, HarmHasCause
<1>1. CASE Out!Command
  BY <1>1, SendKeeps DEF Out!Command
<1>2. CASE Out!Quit
  <2>1. Out!irc_send(typed + 1) /\ Out!Running /\ typed' = typed + 1 /\ source = "event"
        /\ sock' = sock /\ transport' = transport /\ broken' = broken /\ since' = since
        /\ early' = early /\ source' = "none"
    BY <1>2 DEF Out!Quit
  <2>2. sock # "none"
    BY <2>1
  <2> QED BY <2>1, <2>2, SendKeeps
<1>3. CASE Out!Connect
  BY <1>3 DEF Out!Connect
<1>4. CASE Out!Refused
  BY <1>4 DEF Out!Refused
<1>5. CASE Out!SslFails
  BY <1>5 DEF Out!SslFails
<1>6. CASE Out!Connected
  <2>1. /\ source' = "event" /\ sock' = "open" /\ transport' = "sock"
        /\ sent' = <<-2, -1>> /\ lost' = {} /\ since' = typed /\ broken' = FALSE
        /\ outq' = outq /\ typed' = typed /\ early' = early /\ harm' = harm /\ harm = "none"
    BY <1>6 DEF Out!Connected, Out!Login, Out!Running
  <2>2. sent' \in Seq(Int) /\ sent' # <<>> /\ Len(sent') = 2 /\ sent'[1] = -2 /\ sent'[2] = -1
    BY <2>1
  <2> QED BY <2>1, <2>2
<1>7. CASE Out!Breaks
  BY <1>7 DEF Out!Breaks
<1>8. CASE Out!Lost
  BY <1>8 DEF Out!Lost, Out!Running
<1>9. CASE Out!Dead
  BY <1>9 DEF Out!Dead, Out!Running
<1>10. CASE Out!Abort
  BY <1>10 DEF Out!Abort
<1>11. CASE UNCHANGED Out!vars
  BY <1>11 DEF Out!vars
<1> QED BY <1>1, <1>2, <1>3, <1>4, <1>5, <1>6, <1>7, <1>8, <1>9, <1>10, <1>11 DEF Out!Next

LEMMA OutSound == OutInv => Out!LinesInOrder
<1> SUFFICES ASSUME OutInv PROVE Out!LinesInOrder
  OBVIOUS
<1>1. typed \in Nat /\ since \in Nat /\ sent \in Seq(Int) /\ outq \in Seq(Int)
      /\ Len(sent) \in Nat /\ Len(outq) \in Nat
  BY LenProperties DEF OutInv, SentInOrder, QueueIsEarly
<1>2. ASSUME sent # <<>>
      PROVE  /\ sent = Out!Login \o [i \in 1 .. Len(sent) - 2 |-> since + i]
             /\ \A n \in since + 1 .. typed :
                   (\E i \in DOMAIN sent : sent[i] = n) \/ n \in lost \/ source # "event"
  <2>1. /\ Len(sent) >= 2 /\ sent[1] = -2 /\ sent[2] = -1
        /\ \A i \in 3 .. Len(sent) : sent[i] = since + i - 2
    BY <1>2 DEF OutInv, SentInOrder
  <2>6. sent = <<-2, -1>> \o [i \in 1 .. Len(sent) - 2 |-> since + i]
    BY <1>1, <2>1, LoginThen
  <2>7. ASSUME NEW n \in since + 1 .. typed, n \notin lost, source = "event"
        PROVE  \E i \in DOMAIN sent : sent[i] = n
    <3>1. n <= since + Len(sent) - 2
      BY <1>2, <2>7 DEF OutInv, SentOrLost
    <3>2. n - since + 2 \in 3 .. Len(sent)
      BY <1>1, <3>1
    <3> DEFINE i == n - since + 2
    <3>3. since + i - 2 = n
      BY <1>1
    <3>4. i \in 3 .. Len(sent)
      BY <3>2
    <3> HIDE DEF i
    <3>5. sent[i] = n
      BY <2>1, <3>3, <3>4
    <3>6. i \in DOMAIN sent
      BY <1>1, <3>4, LenProperties
    <3> QED BY <3>5, <3>6
  <2> QED BY <2>6, <2>7 DEF Out!Login
<1>3. outq = [i \in 1 .. Len(outq) |-> i]
  <2>1. outq \in [1 .. Len(outq) -> Int] /\ \A i \in 1 .. Len(outq) : outq[i] = i
    BY <1>1, LenProperties DEF OutInv, QueueIsEarly
  <2> QED BY <2>1
<1>4. harm = "spins" => early # {}
  <2>1. outq # <<>> => Len(outq) \in Nat \ {0}
    BY <1>1, EmptySeq
  <2>2. outq # <<>> => 1 \in 1 .. Len(outq)
    BY <2>1
  <2> QED BY <2>2 DEF OutInv, QueueIsEarly, HarmHasCause
<1> QED BY <1>2, <1>3, <1>4 DEF Out!LinesInOrder, OutInv, QueueIsEarly, HarmHasCause

(* However many lines are typed, and however often the connection is lost  *)
(* and made again: a server that has been told anything has been told the  *)
(* login, and then every line typed since, in order and without gaps,      *)
(* until a write failed; and what was typed before there was a descriptor  *)
(* stays in the queue (pork_irc_output.c, irc_connected).                  *)
THEOREM WrittenInOrder == BothSpec => []LinesInOrder
<1>1. BothInit => OutInv
  BY OutInit DEF BothInit
<1>2. OutInv /\ [BothNext]_<<part, vars, outVars>> => OutInv'
  <2> SUFFICES ASSUME OutInv, [BothNext]_<<part, vars, outVars>> PROVE OutInv'
    OBVIOUS
  <2>1. Out!Next \/ UNCHANGED outVars
    BY DEF BothNext, I, O, Out!Next
  <2>2. [Out!Next]_(Out!vars)
    BY <2>1 DEF outVars, Out!vars
  <2> QED BY <2>2, OutStep
<1>3. OutInv => LinesInOrder
  BY OutSound DEF LinesInOrder
<1> QED BY <1>1, <1>2, <1>3, PTL DEF BothSpec

-----------------------------------------------------------------------------
(* What is read.  The least and the greatest of a set of numbers.          *)
LEMMA LeastIs ==
    ASSUME NEW T, T \subseteq Nat, T # {}
    PROVE  \E x \in T : \A y \in T : x <= y
<1> DEFINE R == OpToRel(<, Nat)
<1>1. IsWellFoundedOn(R, Nat)
  BY NatLessThanWellFounded
<1>2. \A x, y \in Nat : y < x => <<y, x>> \in R
  BY DEF OpToRel
<1> HIDE DEF R
<1>3. PICK x \in T : \A y \in T : ~ (<<y, x>> \in R)
  BY <1>1, WFMin
<1>4. ASSUME NEW y \in T PROVE x <= y
  <2>1. x \in Nat /\ y \in Nat /\ ~ (<<y, x>> \in R)
    BY <1>3
  <2>2. ~(y < x)
    BY <1>2, <2>1
  <2> QED BY <2>1, <2>2
<1> QED BY <1>4

LEMMA MinIs ==
    ASSUME NEW T, T \subseteq Nat, T # {}
    PROVE  Min(T) \in T /\ \A y \in T : Min(T) <= y
BY LeastIs DEF Min

LEMMA MaxIs ==
    ASSUME NEW n \in Nat, NEW T, T \subseteq 0 .. n, T # {}
    PROVE  Max(T) \in T /\ \A y \in T : y <= Max(T)
<1> DEFINE U == {n - y : y \in T}
<1>1. U \subseteq Nat /\ U # {}
  OBVIOUS
<1>2. PICK u \in U : \A y \in U : u <= y
  BY <1>1, LeastIs
<1>3. PICK x \in T : u = n - x
  BY <1>2
<1>4. ASSUME NEW y \in T PROVE y <= x
  <2>1. n - y \in U
    OBVIOUS
  <2>2. u <= n - y
    BY <1>2, <2>1
  <2>3. x \in 0 .. n /\ y \in 0 .. n
    OBVIOUS
  <2> HIDE DEF U
  <2> QED BY <1>3, <2>2, <2>3
<1>5. \E z \in T : \A y \in T : z >= y
  BY <1>3, <1>4
<1> QED BY <1>5 DEF Max

-----------------------------------------------------------------------------
(* Where a line begins, and what it is.                                    *)
Frees == Bytes \ {NL}

Starts(b, i, p) == /\ p \in 0 .. i - 1 /\ (p = 0 \/ p \in Newlines(b))
                   /\ \A j \in Newlines(b) : j < i => j <= p

LEMMA BytesAre == NL \in Bytes /\ Space \in Frees
BY DEF Bytes, Frees, NL, Space

LEMMA NewlinesAre ==
    ASSUME NEW b \in Seq(Bytes)
    PROVE  Newlines(b) = {i \in 1 .. Len(b) : b[i] = NL} /\ Len(b) \in Nat
BY LenProperties DEF Newlines

LEMMA BeginIs ==
    ASSUME NEW b \in Seq(Bytes), NEW i \in Nat \ {0}
    PROVE  /\ Starts(b, i, Begin(b, i) - 1)
           /\ \A p : Starts(b, i, p) => Begin(b, i) = p + 1
<1> DEFINE T == {0} \cup {j \in Newlines(b) : j < i}
<1>1. Newlines(b) \subseteq Nat
  BY NewlinesAre
<1>2. T \subseteq 0 .. i /\ T # {}
  BY <1>1
<1> HIDE DEF T
<1>3. Max(T) \in T /\ \A y \in T : y <= Max(T)
  BY <1>2, MaxIs
<1>4. Begin(b, i) = Max(T) + 1
  BY DEF Begin, T
<1> DEFINE m == Max(T)
<1>5. m \in T /\ (\A y \in T : y <= m) /\ Begin(b, i) = m + 1
  BY <1>3, <1>4
<1> HIDE DEF m
<1>6. m \in Nat
  BY <1>1, <1>5 DEF T
<1>7. Starts(b, i, m)
  BY <1>1, <1>5, <1>6 DEF Starts, T
<1>8. ASSUME NEW p, Starts(b, i, p) PROVE p = m
  <2>1. p \in T /\ p \in Nat
    BY <1>1, <1>8 DEF Starts, T
  <2>2. p <= m
    BY <1>5, <2>1
  <2>3. m <= p
    BY <1>1, <1>5, <1>6, <1>8, <2>1 DEF Starts, T
  <2> QED BY <1>6, <2>1, <2>2, <2>3
<1>9. Begin(b, i) - 1 = m
  BY <1>5, <1>6
<1> QED BY <1>5, <1>7, <1>8, <1>9

LEMMA LineIs ==
    ASSUME NEW b \in Seq(Bytes), NEW i \in 1 .. Len(b) + 1, NEW p, Starts(b, i, p)
    PROVE  /\ LineAt(b, i) \in Seq(Frees) /\ Len(LineAt(b, i)) = i - 1 - p
           /\ \A k \in 1 .. i - 1 - p : LineAt(b, i)[k] = b[p + k]
<1>1. Len(b) \in Nat /\ i \in Nat \ {0}
  BY NewlinesAre
<1>2. Begin(b, i) = p + 1
  BY <1>1, BeginIs
<1>3. p \in 0 .. i - 1 /\ p + 1 \in Int /\ i - 1 \in Int
  BY <1>1 DEF Starts
<1>4. \A k \in p + 1 .. i - 1 : b[k] \in Frees
  <2> TAKE k \in p + 1 .. i - 1
  <2>1. k \in 1 .. Len(b)
    BY <1>1, <1>3
  <2>2. b[k] \in Bytes
    BY <2>1, ElementOfSeq
  <2>3. k \notin Newlines(b)
    BY <1>1, <1>3 DEF Starts
  <2>4. b[k] # NL
    BY <2>1, <2>3, NewlinesAre
  <2> QED BY <2>2, <2>4 DEF Frees
<1> DEFINE l == SubSeq(b, p + 1, i - 1)
           first == p + 1
           last == i - 1
<1>5. /\ l \in Seq(Frees)
      /\ Len(l) = IF p + 1 <= i - 1 THEN i - 1 - (p + 1) + 1 ELSE 0
      /\ \A k \in 1 .. i - 1 - (p + 1) + 1 : l[k] = b[p + 1 + k - 1]
  <2>1. first \in Int /\ last \in Int /\ \A k \in first .. last : b[k] \in Frees
    BY <1>3, <1>4
  <2> HIDE DEF first, last
  <2>2. /\ SubSeq(b, first, last) \in Seq(Frees)
        /\ Len(SubSeq(b, first, last)) = IF first <= last THEN last - first + 1 ELSE 0
        /\ \A k \in 1 .. last - first + 1 : SubSeq(b, first, last)[k] = b[first + k - 1]
    BY <2>1, SubSeqProperties
  <2> QED BY <2>2 DEF first, last
<1>6. LineAt(b, i) = l
  BY <1>2 DEF LineAt
<1> HIDE DEF l
<1>7. Len(l) = i - 1 - p
  BY <1>1, <1>3, <1>5
<1>8. \A k \in 1 .. i - 1 - p : l[k] = b[p + k]
  BY <1>1, <1>3, <1>5
<1> QED BY <1>5, <1>6, <1>7, <1>8

-----------------------------------------------------------------------------
(* Bytes that follow, and bytes that are gone, change nothing of a line.   *)
Prefix(b, c) == Len(b) <= Len(c) /\ \A k \in 1 .. Len(b) : c[k] = b[k]

LEMMA SameLine ==
    ASSUME NEW b \in Seq(Bytes), NEW c \in Seq(Bytes),
           NEW i \in 1 .. Len(b) + 1, NEW j \in 1 .. Len(c) + 1, NEW p, NEW q,
           Starts(b, i, p), Starts(c, j, q), i - p = j - q,
           \A k \in 1 .. i - 1 - p : b[p + k] = c[q + k]
    PROVE  LineAt(b, i) = LineAt(c, j)
<1>1. Len(b) \in Nat /\ Len(c) \in Nat /\ p \in Nat /\ q \in Nat /\ i \in Nat /\ j \in Nat
  BY NewlinesAre DEF Starts
<1>2. i - 1 - p = j - 1 - q
  BY <1>1
<1>3. /\ LineAt(b, i) \in Seq(Frees) /\ Len(LineAt(b, i)) = i - 1 - p
      /\ \A k \in 1 .. i - 1 - p : LineAt(b, i)[k] = b[p + k]
  BY LineIs
<1>4. /\ LineAt(c, j) \in Seq(Frees) /\ Len(LineAt(c, j)) = i - 1 - p
      /\ \A k \in 1 .. i - 1 - p : LineAt(c, j)[k] = c[q + k]
  <2>1. /\ LineAt(c, j) \in Seq(Frees) /\ Len(LineAt(c, j)) = j - 1 - q
        /\ \A k \in 1 .. j - 1 - q : LineAt(c, j)[k] = c[q + k]
    BY LineIs
  <2> QED BY <1>2, <2>1
<1> DEFINE l == LineAt(b, i)
           m == LineAt(c, j)
<1>5. l \in Seq(Frees) /\ m \in Seq(Frees) /\ Len(l) = Len(m)
  BY <1>3, <1>4
<1>6. \A k \in 1 .. Len(l) : l[k] = m[k]
  BY <1>3, <1>4
<1> HIDE DEF l, m
<1>7. l = m
  BY <1>5, <1>6, SeqEqual
<1> QED BY <1>7 DEF l, m

LEMMA PrefixKeeps ==
    ASSUME NEW b \in Seq(Bytes), NEW c \in Seq(Bytes), Prefix(b, c)
    PROVE  /\ Newlines(b) = {i \in Newlines(c) : i <= Len(b)}
           /\ \A i \in 1 .. Len(b) + 1 : \A p : Starts(b, i, p) <=> Starts(c, i, p)
           /\ \A i \in 1 .. Len(b) : LineAt(b, i) = LineAt(c, i)
<1>1. /\ Newlines(b) = {i \in 1 .. Len(b) : b[i] = NL} /\ Len(b) \in Nat
      /\ Newlines(c) = {i \in 1 .. Len(c) : c[i] = NL} /\ Len(c) \in Nat
  BY NewlinesAre
<1>2. Newlines(b) = {i \in Newlines(c) : i <= Len(b)}
  BY <1>1 DEF Prefix
<1>3. ASSUME NEW i \in 1 .. Len(b) + 1, NEW p
      PROVE  Starts(b, i, p) <=> Starts(c, i, p)
  <2>1. \A j \in Nat : j < i => (j \in Newlines(b) <=> j \in Newlines(c))
    BY <1>1, <1>2
  <2>2. Newlines(b) \subseteq Nat /\ Newlines(c) \subseteq Nat
    BY <1>1
  <2>3. p \in 0 .. i - 1 => p \in Nat /\ p < i
    BY <1>1
  <2> QED BY <2>1, <2>2, <2>3 DEF Starts
<1>4. ASSUME NEW i \in 1 .. Len(b) PROVE LineAt(b, i) = LineAt(c, i)
  <2> DEFINE p == Begin(b, i) - 1
  <2>1. i \in Nat \ {0} /\ i \in 1 .. Len(b) + 1 /\ i \in 1 .. Len(c) + 1
    BY <1>1 DEF Prefix
  <2>2. Starts(b, i, p)
    BY <2>1, BeginIs
  <2>3. Starts(c, i, p)
    BY <1>3, <2>1, <2>2
  <2>4. p \in 0 .. i - 1
    BY <2>2 DEF Starts
  <2> HIDE DEF p
  <2>5. \A k \in 1 .. i - 1 - p : b[p + k] = c[p + k]
    <3> TAKE k \in 1 .. i - 1 - p
    <3>1. p + k \in 1 .. Len(b)
      BY <1>1, <2>4
    <3> QED BY <3>1 DEF Prefix
  <2> QED BY <2>1, <2>2, <2>3, <2>5, SameLine
<1> QED BY <1>2, <1>3, <1>4

(* r is what is left of c when d bytes are gone, up to a newline.          *)
Suffix(r, c, d) ==
    /\ d = 0 \/ d \in Newlines(c)
    /\ Len(c) = d + Len(r) /\ \A k \in 1 .. Len(r) : r[k] = c[d + k]

LEMMA SuffixKeeps ==
    ASSUME NEW r \in Seq(Bytes), NEW c \in Seq(Bytes), NEW d \in Nat, Suffix(r, c, d)
    PROVE  /\ Newlines(r) = {i \in 1 .. Len(r) : d + i \in Newlines(c)}
           /\ \A i \in 1 .. Len(r) : LineAt(r, i) = LineAt(c, d + i)
<1>1. /\ Newlines(r) = {i \in 1 .. Len(r) : r[i] = NL} /\ Len(r) \in Nat
      /\ Newlines(c) = {i \in 1 .. Len(c) : c[i] = NL} /\ Len(c) \in Nat
  BY NewlinesAre
<1>2. \A i \in 1 .. Len(r) : d + i \in 1 .. Len(c)
  BY <1>1 DEF Suffix
<1>3. Newlines(r) = {i \in 1 .. Len(r) : d + i \in Newlines(c)}
  BY <1>1, <1>2 DEF Suffix
<1>4. ASSUME NEW i \in 1 .. Len(r) PROVE LineAt(r, i) = LineAt(c, d + i)
  <2> DEFINE p == Begin(r, i) - 1
  <2>1. i \in Nat \ {0} /\ i \in 1 .. Len(r) + 1 /\ d + i \in 1 .. Len(c) + 1
    BY <1>1, <1>2
  <2>2. Starts(r, i, p)
    BY <2>1, BeginIs
  <2> HIDE DEF p
  <2>3. p \in 0 .. i - 1 /\ (p = 0 \/ p \in Newlines(r)) /\ \A j \in Newlines(r) : j < i => j <= p
    BY <2>2 DEF Starts
  <2>4. Starts(c, d + i, d + p)
    <3>1. d + p \in 0 .. d + i - 1
      BY <2>1, <2>3
    <3>2. d + p = 0 \/ d + p \in Newlines(c)
      BY <1>3, <2>3 DEF Suffix
    <3>3. ASSUME NEW j \in Newlines(c), j < d + i PROVE j <= d + p
      <4>1. j \in Nat
        BY <1>1
      <4>2. CASE j <= d
        BY <2>1, <2>3, <4>1, <4>2
      <4>3. CASE j > d
        <5>1. j - d \in 1 .. Len(r) /\ d + (j - d) = j /\ j - d < i
          BY <1>1, <2>1, <3>3, <4>1, <4>3
        <5>2. j - d \in Newlines(r)
          BY <1>3, <5>1
        <5>3. j - d <= p
          BY <2>3, <5>1, <5>2
        <5> QED BY <2>1, <2>3, <4>1, <5>3
      <4> QED BY <4>1, <4>2, <4>3
    <3> QED BY <3>1, <3>2, <3>3 DEF Starts
  <2>5. \A k \in 1 .. i - 1 - p : r[p + k] = c[d + p + k]
    <3> TAKE k \in 1 .. i - 1 - p
    <3>1. p + k \in 1 .. Len(r) /\ d + (p + k) = d + p + k
      BY <1>1, <2>1, <2>3
    <3> QED BY <3>1 DEF Suffix
  <2>6. i - p = (d + i) - (d + p)
    BY <2>1, <2>3
  <2> QED BY <2>1, <2>2, <2>4, <2>5, <2>6, SameLine
<1> QED BY <1>3, <1>4

-----------------------------------------------------------------------------
(* Places that rise.                                                       *)
Rising(f, m) == f \in [1 .. m -> Nat] /\ \A j, k \in 1 .. m : j < k => f[j] < f[k]

LEMMA RisingCut ==
    ASSUME NEW m \in Nat, NEW f, Rising(f, m), NEW max \in Nat
    PROVE  \E n \in 0 .. m : \A j \in 1 .. m : f[j] <= max <=> j <= n
<1> DEFINE T == {0} \cup {j \in 1 .. m : f[j] <= max}
<1>1. T \subseteq 0 .. m /\ T # {}
  OBVIOUS
<1> DEFINE n == Max(T)
<1>2. n \in T /\ \A y \in T : y <= n
  BY <1>1, MaxIs
<1>3. n \in 0 .. m
  BY <1>1, <1>2
<1> HIDE DEF n
<1>4. ASSUME NEW j \in 1 .. m, j <= n PROVE f[j] <= max
  <2>1. n \in 1 .. m /\ f[n] <= max
    BY <1>2, <1>3, <1>4
  <2>2. j = n \/ f[j] < f[n]
    BY <1>4, <2>1 DEF Rising
  <2>3. f[j] \in Nat /\ f[n] \in Nat
    BY <2>1 DEF Rising
  <2> QED BY <2>1, <2>2, <2>3
<1>5. ASSUME NEW j \in 1 .. m, f[j] <= max PROVE j <= n
  BY <1>2, <1>5
<1> QED BY <1>3, <1>4, <1>5

LEMMA RisingCount ==
    ASSUME NEW m \in Nat, NEW f, Rising(f, m), NEW n \in 0 .. m
    PROVE  Cardinality({f[j] : j \in 1 .. n}) = n
<1> DEFINE S == {f[j] : j \in 1 .. n}
           g == [j \in 1 .. n |-> f[j]]
<1>1. \A j \in 1 .. n : j \in 1 .. m /\ f[j] \in Nat
  BY DEF Rising
<1>2. \A j, k \in 1 .. n : f[j] = f[k] => j = k
  <2> SUFFICES ASSUME NEW j \in 1 .. n, NEW k \in 1 .. n, f[j] = f[k] PROVE j = k
    OBVIOUS
  <2>1. ~(f[j] < f[k]) /\ ~(f[k] < f[j])
    BY <1>1
  <2>2. ~(j < k) /\ ~(k < j)
    BY <1>1, <2>1 DEF Rising
  <2> QED BY <2>2
<1>3. g \in [1 .. n -> S] /\ \A j \in 1 .. n : g[j] = f[j]
  OBVIOUS
<1>4. \A x \in S : \E j \in 1 .. n : g[j] = x
  OBVIOUS
<1> HIDE DEF S, g
<1>5. g \in Bijection(1 .. n, S)
  BY <1>2, <1>3, <1>4 DEF Bijection, Injection, Surjection, IsInjective
<1>6. ExistsBijection(1 .. n, S) /\ n \in Nat
  BY <1>5 DEF ExistsBijection
<1> QED BY <1>6, FS_CountingElements DEF S

LEMMA RisingNth ==
    ASSUME NEW m \in Nat, NEW f, Rising(f, m), NEW n \in 0 .. m, NEW k \in 1 .. n
    PROVE  Nth({f[j] : j \in 1 .. n}, k) = f[k]
<1> DEFINE S == {f[j] : j \in 1 .. n}
           Upto(i) == {x \in S : x <= i}
<1>1. \A j \in 1 .. n : j \in 1 .. m /\ f[j] \in Nat
  BY DEF Rising
<1>2. ASSUME NEW i \in 1 .. n PROVE Cardinality(Upto(f[i])) = i
  <2>1. ASSUME NEW j \in 1 .. n PROVE f[j] <= f[i] <=> j <= i
    <3>1. j < i => f[j] < f[i]
      BY <1>1 DEF Rising
    <3>2. i < j => f[i] < f[j]
      BY <1>1 DEF Rising
    <3>3. f[i] \in Nat /\ f[j] \in Nat
      BY <1>1
    <3> QED BY <3>1, <3>2, <3>3
  <2>2. Upto(f[i]) = {f[j] : j \in 1 .. i}
    BY <2>1
  <2>3. i \in 0 .. m
    OBVIOUS
  <2>4. Cardinality({f[j] : j \in 1 .. i}) = i
    BY <2>3, RisingCount
  <2> QED BY <2>2, <2>4
<1>3. f[k] \in S /\ Cardinality(Upto(f[k])) = k
  BY <1>2
<1>4. ASSUME NEW x \in S, Cardinality(Upto(x)) = k PROVE x = f[k]
  <2>1. PICK i \in 1 .. n : x = f[i]
    OBVIOUS
  <2>2. i = k
    BY <1>2, <1>4, <2>1
  <2> QED BY <2>1, <2>2
<1> HIDE DEF S
<1>5. Nth(S, k) = f[k]
  BY <1>3, <1>4 DEF Nth
<1> QED BY <1>5 DEF S

-----------------------------------------------------------------------------
(* The promise, for bytes under way: off says where each line that was     *)
(* said and not handled ends in b, and nothing else that is valid is in b. *)
Good(b) == {i \in Newlines(b) : Valid(LineAt(b, i))}

Ended(b) == Len(b) = 0 \/ Len(b) \in Newlines(b)

Delivers(off, b, h, s) ==
    /\ Prefix(h, s)
    /\ Rising(off, Len(s) - Len(h))
    /\ Good(b) = {off[j] : j \in 1 .. Len(s) - Len(h)}
    /\ \A j \in 1 .. Len(s) - Len(h) : LineAt(b, off[j]) = s[Len(h) + j]
    /\ Ended(b)

(* Bytes b are followed by line l and its newline.                         *)
Follows(b, l, c) ==
    /\ Len(c) = Len(b) + Len(l) + 1 /\ Prefix(b, c) /\ c[Len(c)] = NL
    /\ \A k \in 1 .. Len(l) : c[Len(b) + k] = l[k]

LEMMA FollowingLine ==
    ASSUME NEW b \in Seq(Bytes), NEW c \in Seq(Bytes), NEW l \in Seq(Frees),
           Follows(b, l, c), Ended(b)
    PROVE  /\ Newlines(c) = Newlines(b) \cup {Len(c)} /\ LineAt(c, Len(c)) = l
           /\ \A i \in Newlines(b) : i < Len(c) /\ LineAt(c, i) = LineAt(b, i)
           /\ Len(c) \in Nat \ {0} /\ Ended(c)
<1>1. /\ Newlines(b) = {i \in 1 .. Len(b) : b[i] = NL} /\ Len(b) \in Nat
      /\ Newlines(c) = {i \in 1 .. Len(c) : c[i] = NL} /\ Len(c) \in Nat
      /\ Len(l) \in Nat
  BY NewlinesAre, LenProperties
<1>2. Newlines(b) = {i \in Newlines(c) : i <= Len(b)}
  BY PrefixKeeps DEF Follows
<1>3. \A k \in 1 .. Len(l) : l[k] # NL
  BY ElementOfSeq DEF Frees
<1>4. ASSUME NEW i \in Newlines(c), i > Len(b) PROVE i = Len(c)
  <2>1. CASE i < Len(c)
    <3>1. i - Len(b) \in 1 .. Len(l) /\ Len(b) + (i - Len(b)) = i
      BY <1>1, <1>4, <2>1 DEF Follows
    <3>2. c[i] = l[i - Len(b)]
      BY <3>1 DEF Follows
    <3> QED BY <1>1, <1>3, <3>1, <3>2
  <2> QED BY <1>1, <2>1
<1>5. Len(c) \in Newlines(c) /\ Len(c) \in Nat \ {0} /\ Len(b) < Len(c)
  BY <1>1 DEF Follows
<1>6. Newlines(c) = Newlines(b) \cup {Len(c)}
  <2>1. \A i \in Newlines(c) : i <= Len(b) \/ i > Len(b)
    BY <1>1
  <2> QED BY <1>2, <1>4, <1>5, <2>1
<1>7. Starts(c, Len(c), Len(b))
  <2>1. Len(b) \in 0 .. Len(c) - 1
    BY <1>1, <1>5
  <2>2. Len(b) = 0 \/ Len(b) \in Newlines(c)
    BY <1>6 DEF Ended
  <2>3. ASSUME NEW j \in Newlines(c), j < Len(c) PROVE j <= Len(b)
    BY <1>1, <1>4, <2>3
  <2> QED BY <2>1, <2>2, <2>3 DEF Starts
<1>8. LineAt(c, Len(c)) = l
  <2> DEFINE m == LineAt(c, Len(c))
  <2>1. Len(c) \in 1 .. Len(c) + 1
    BY <1>5
  <2>2. /\ m \in Seq(Frees) /\ Len(m) = Len(c) - 1 - Len(b)
        /\ \A k \in 1 .. Len(c) - 1 - Len(b) : m[k] = c[Len(b) + k]
    BY <1>7, <2>1, LineIs
  <2> HIDE DEF m
  <2>3. Len(m) = Len(l) /\ Len(c) - 1 - Len(b) = Len(l)
    BY <1>1, <2>2 DEF Follows
  <2>4. \A k \in 1 .. Len(m) : m[k] = l[k]
    BY <2>2, <2>3 DEF Follows
  <2>5. m = l
    BY <2>2, <2>3, <2>4, SeqEqual
  <2> QED BY <2>5 DEF m
<1>9. \A i \in Newlines(b) : i < Len(c) /\ LineAt(c, i) = LineAt(b, i)
  <2> TAKE i \in Newlines(b)
  <2>1. i \in 1 .. Len(b)
    BY <1>1
  <2>2. LineAt(b, i) = LineAt(c, i)
    BY <2>1, PrefixKeeps DEF Follows
  <2> QED BY <1>1, <1>5, <2>1, <2>2
<1> QED BY <1>5, <1>6, <1>8, <1>9 DEF Ended

(* A line is said.                                                         *)
LEMMA SayDelivers ==
    ASSUME NEW b \in Seq(Bytes), NEW c \in Seq(Bytes), NEW l \in Seq(Frees), Valid(l),
           Follows(b, l, c), NEW h \in Seq(Seq(Bytes)), NEW s \in Seq(Seq(Bytes)), NEW off,
           Delivers(off, b, h, s)
    PROVE  \E off2 : Delivers(off2, c, h, Append(s, l))
<1> DEFINE t == Append(s, l)
           m == Len(s) - Len(h)
           n == Len(c)
           off2 == [j \in 1 .. m + 1 |-> IF j = m + 1 THEN n ELSE off[j]]
<1>1. /\ Newlines(c) = Newlines(b) \cup {n} /\ LineAt(c, n) = l
      /\ \A i \in Newlines(b) : i < n /\ LineAt(c, i) = LineAt(b, i)
      /\ n \in Nat \ {0} /\ Ended(c)
  BY FollowingLine DEF Delivers
<1>2. Len(s) \in Nat /\ Len(h) \in Nat /\ Len(h) <= Len(s) /\ m \in Nat
  BY LenProperties DEF Delivers, Prefix
<1>3. Seq(Frees) \subseteq Seq(Bytes)
  BY SeqMonotonic DEF Frees
<1>4. /\ Len(t) = Len(s) + 1 /\ t[Len(s) + 1] = l
      /\ \A i \in 1 .. Len(s) : t[i] = s[i]
  <2>1. l \in Seq(Bytes)
    BY <1>3
  <2> QED BY <2>1, AppendIs
<1> HIDE DEF t, n
<1>5. /\ Rising(off, m) /\ Good(b) = {off[j] : j \in 1 .. m}
      /\ \A j \in 1 .. m : LineAt(b, off[j]) = s[Len(h) + j]
  BY DEF Delivers
<1>6. Len(t) - Len(h) = m + 1
  BY <1>2, <1>4
<1>7. \A j \in 1 .. m : off[j] \in Newlines(b) /\ off[j] \in Nat /\ off[j] < n
  BY <1>1, <1>5 DEF Good, Rising
<1> HIDE DEF m
<1>8. /\ off2[m + 1] = n /\ \A j \in 1 .. m : off2[j] = off[j]
      /\ off2 \in [1 .. m + 1 -> Nat]
  <2>1. m + 1 \in 1 .. m + 1 /\ \A j \in 1 .. m : j # m + 1 /\ j \in 1 .. m + 1
    BY <1>2
  <2>2. off2[m + 1] = n /\ \A j \in 1 .. m : off2[j] = off[j]
    BY <2>1
  <2>3. \A j \in 1 .. m + 1 : j = m + 1 \/ j \in 1 .. m
    BY <1>2
  <2>4. \A j \in 1 .. m + 1 : (IF j = m + 1 THEN n ELSE off[j]) \in Nat
    BY <1>1, <1>7, <2>3
  <2>5. off2 \in [1 .. m + 1 -> Nat]
    BY <2>4
  <2> QED BY <2>2, <2>5
<1> HIDE DEF off2
<1>9. Rising(off2, m + 1)
  <2> SUFFICES ASSUME NEW j \in 1 .. m + 1, NEW k \in 1 .. m + 1, j < k
               PROVE  off2[j] < off2[k]
    BY <1>8 DEF Rising
  <2>1. j \in 1 .. m
    BY <1>2
  <2>2. CASE k = m + 1
    BY <1>7, <1>8, <2>1, <2>2
  <2>3. CASE k # m + 1
    <3>1. k \in 1 .. m
      BY <1>2, <2>3
    <3>2. off[j] < off[k]
      BY <1>5, <2>1, <3>1 DEF Rising
    <3> QED BY <1>8, <2>1, <3>1, <3>2
  <2> QED BY <2>2, <2>3
<1>10. Good(c) = Good(b) \cup {n}
  BY <1>1 DEF Good
<1>11. {off2[j] : j \in 1 .. m + 1} = {off[j] : j \in 1 .. m} \cup {n}
  <2>1. 1 .. m + 1 = (1 .. m) \cup {m + 1}
    BY <1>2
  <2>2. {off2[j] : j \in 1 .. m} = {off[j] : j \in 1 .. m}
    BY <1>8
  <2>3. {off2[j] : j \in 1 .. m + 1} = {off2[j] : j \in 1 .. m} \cup {off2[m + 1]}
    BY <2>1, Zenon
  <2> QED BY <1>8, <2>2, <2>3
<1>12. ASSUME NEW j \in 1 .. m + 1 PROVE LineAt(c, off2[j]) = t[Len(h) + j]
  <2>1. CASE j = m + 1
    <3>1. Len(h) + j = Len(s) + 1
      BY <1>2, <2>1 DEF m
    <3> QED BY <1>1, <1>4, <1>8, <2>1, <3>1
  <2>2. CASE j # m + 1
    <3>1. j \in 1 .. m /\ Len(h) + j \in 1 .. Len(s)
      BY <1>2, <2>2 DEF m
    <3>2. LineAt(c, off[j]) = LineAt(b, off[j])
      BY <1>1, <1>7, <3>1
    <3> QED BY <1>4, <1>5, <1>8, <3>1, <3>2
  <2> QED BY <2>1, <2>2
<1>13. Prefix(h, t)
  <2>1. \A k \in 1 .. Len(h) : k \in 1 .. Len(s)
    BY <1>2
  <2>2. \A k \in 1 .. Len(h) : s[k] = h[k]
    BY DEF Delivers, Prefix
  <2>3. \A k \in 1 .. Len(h) : t[k] = h[k]
    BY <1>4, <2>1, <2>2
  <2>4. Len(h) <= Len(t)
    BY <1>2, <1>4
  <2> QED BY <2>3, <2>4 DEF Prefix
<1>14. Delivers(off2, c, h, t)
  BY <1>1, <1>5, <1>6, <1>9, <1>10, <1>11, <1>12, <1>13 DEF Delivers
<1> QED BY <1>14 DEF t

(* A line is sent that will be refused.                                    *)
LEMMA BlankDelivers ==
    ASSUME NEW b \in Seq(Bytes), NEW c \in Seq(Bytes), NEW l \in Seq(Frees), ~Valid(l),
           Follows(b, l, c), NEW h, NEW s, NEW off, Delivers(off, b, h, s)
    PROVE  Delivers(off, c, h, s)
<1>1. /\ Newlines(c) = Newlines(b) \cup {Len(c)} /\ LineAt(c, Len(c)) = l
      /\ \A i \in Newlines(b) : LineAt(c, i) = LineAt(b, i)
      /\ Ended(c)
  BY FollowingLine DEF Delivers
<1>2. Good(c) = Good(b)
  BY <1>1 DEF Good
<1>3. ASSUME NEW j \in 1 .. Len(s) - Len(h) PROVE LineAt(c, off[j]) = LineAt(b, off[j])
  <2>1. off[j] \in Newlines(b)
    BY DEF Delivers, Good
  <2> QED BY <1>1, <2>1
<1> QED BY <1>1, <1>2, <1>3 DEF Delivers

-----------------------------------------------------------------------------
(* What is read is handled: g is handled after h, and r is left of c.      *)
LEMMA AllReached ==
    ASSUME NEW b, Refused(b) = {}
    PROVE  Reached(b) = Newlines(b) /\ \A i \in Newlines(b) : Valid(LineAt(b, i))
BY DEF Reached, Refused

Places(f, n) == {f[j] : j \in 1 .. n}

LEMMA HandledIs ==
    ASSUME NEW b \in Seq(Bytes), Refused(b) = {}, NEW m \in Nat, NEW off, Rising(off, m),
           NEW n \in 0 .. m, Newlines(b) = Places(off, n)
    PROVE  /\ Handled(b) \in Seq(Seq(Frees)) /\ Len(Handled(b)) = n
           /\ \A k \in 1 .. n : Handled(b)[k] = LineAt(b, off[k])
<1> DEFINE S == {off[j] : j \in 1 .. n}
           g == [k \in 1 .. n |-> LineAt(b, off[k])]
<1>1. Reached(b) = S
  BY AllReached DEF Places
<1>2. Cardinality(S) = n /\ \A k \in 1 .. n : Nth(S, k) = off[k]
  BY RisingCount, RisingNth
<1> HIDE DEF S
<1>3. Handled(b) = g
  BY <1>1, <1>2 DEF Handled
<1>4. ASSUME NEW k \in 1 .. n PROVE LineAt(b, off[k]) \in Seq(Frees)
  <2> DEFINE i == off[k]
             p == Begin(b, i) - 1
  <2>1. i \in Newlines(b)
    BY DEF Places
  <2> HIDE DEF i
  <2>2. i \in 1 .. Len(b) + 1 /\ i \in Nat \ {0}
    BY <2>1, NewlinesAre
  <2>3. Starts(b, i, p)
    BY <2>2, BeginIs
  <2> HIDE DEF p
  <2>4. LineAt(b, i) \in Seq(Frees)
    BY <2>2, <2>3, LineIs
  <2> QED BY <2>4 DEF i
<1>5. n \in Nat
  OBVIOUS
<1>6. g \in [1 .. n -> Seq(Frees)] /\ \A k \in 1 .. n : g[k] = LineAt(b, off[k])
  BY <1>4
<1> HIDE DEF g
<1>7. g \in Seq(Seq(Frees)) /\ Len(g) = n
  BY <1>5, <1>6
<1> QED BY <1>3, <1>6, <1>7

LEMMA ConcatLines ==
    ASSUME NEW s \in Seq(Seq(Bytes)), NEW t \in Seq(Seq(Bytes))
    PROVE  /\ s \o t \in Seq(Seq(Bytes)) /\ Len(s \o t) = Len(s) + Len(t)
           /\ Len(s) \in Nat /\ Len(t) \in Nat
           /\ \A i \in 1 .. Len(s) : (s \o t)[i] = s[i]
           /\ \A i \in 1 .. Len(t) : (s \o t)[Len(s) + i] = t[i]
<1>1. Len(s) \in Nat /\ Len(t) \in Nat
  BY LenProperties
<1>2. /\ s \o t \in Seq(Seq(Bytes)) /\ Len(s \o t) = Len(s) + Len(t)
      /\ \A i \in 1 .. Len(s) + Len(t) :
            (s \o t)[i] = IF i <= Len(s) THEN s[i] ELSE t[i - Len(s)]
  BY ConcatProperties, Zenon
<1>3. ASSUME NEW i \in 1 .. Len(s) PROVE (s \o t)[i] = s[i]
  <2>1. i \in 1 .. Len(s) + Len(t) /\ i <= Len(s)
    BY <1>1
  <2> QED BY <1>2, <2>1, Zenon
<1>4. ASSUME NEW i \in 1 .. Len(t) PROVE (s \o t)[Len(s) + i] = t[i]
  <2> DEFINE j == Len(s) + i
  <2>1. j \in 1 .. Len(s) + Len(t) /\ ~(j <= Len(s)) /\ j - Len(s) = i
    BY <1>1
  <2> HIDE DEF j
  <2>2. (s \o t)[j] = t[j - Len(s)]
    BY <1>2, <2>1, Zenon
  <2> QED BY <2>1, <2>2, Zenon DEF j
<1> QED BY <1>1, <1>2, <1>3, <1>4

LEMMA HearDelivers ==
    ASSUME NEW c \in Seq(Bytes), NEW b \in Seq(Bytes), Prefix(b, c), Refused(b) = {},
           NEW r \in Seq(Bytes), NEW d \in Nat, d + 1 = Begin(b, Len(b) + 1), Suffix(r, c, d),
           NEW h \in Seq(Seq(Bytes)), NEW s \in Seq(Seq(Bytes)), NEW off,
           Delivers(off, c, h, s)
    PROVE  /\ \E off2 : Delivers(off2, r, h \o Handled(b), s)
           /\ Handled(b) \in Seq(Seq(Frees))
<1> DEFINE m == Len(s) - Len(h)
           g == Handled(b)
           h2 == h \o g
<1>1. /\ Len(s) \in Nat /\ Len(h) \in Nat /\ Len(h) <= Len(s) /\ m \in Nat
      /\ Len(c) \in Nat /\ Len(b) \in Nat /\ Len(r) \in Nat
  BY LenProperties, NewlinesAre DEF Delivers, Prefix
<1>2. /\ Rising(off, m) /\ Good(c) = {off[j] : j \in 1 .. m} /\ Ended(c)
      /\ \A j \in 1 .. m : LineAt(c, off[j]) = s[Len(h) + j]
  BY DEF Delivers
<1> HIDE DEF m
<1>3. PICK n \in 0 .. m : \A j \in 1 .. m : off[j] <= Len(b) <=> j <= n
  <2>1. m \in Nat /\ Len(b) \in Nat /\ Rising(off, m)
    BY <1>1, <1>2
  <2> DEFINE max == Len(b)
  <2>2. max \in Nat
    BY <2>1
  <2> HIDE DEF max
  <2>3. \E n \in 0 .. m : \A j \in 1 .. m : off[j] <= max <=> j <= n
    BY <2>1, <2>2, RisingCut
  <2> QED BY <2>3 DEF max
<1>4. /\ Newlines(b) = {i \in Newlines(c) : i <= Len(b)}
      /\ \A i \in 1 .. Len(b) : LineAt(b, i) = LineAt(c, i)
      /\ Newlines(b) \subseteq 1 .. Len(b) /\ Newlines(c) \subseteq 1 .. Len(c)
  BY PrefixKeeps, NewlinesAre
<1>5. Newlines(b) = {off[j] : j \in 1 .. n}
  <2>1. ASSUME NEW i \in Newlines(b) PROVE \E j \in 1 .. n : off[j] = i
    <3>1. Valid(LineAt(b, i)) /\ i \in 1 .. Len(b) /\ i \in Newlines(c)
      BY <1>4, AllReached
    <3>2. i \in Good(c)
      BY <1>4, <3>1 DEF Good
    <3>3. PICK j \in 1 .. m : off[j] = i
      BY <1>2, <3>2
    <3> QED BY <1>3, <3>1, <3>3
  <2>2. ASSUME NEW j \in 1 .. n PROVE off[j] \in Newlines(b)
    <3>1. j \in 1 .. m /\ off[j] <= Len(b)
      BY <1>1, <1>3
    <3>2. off[j] \in Newlines(c)
      BY <1>2, <3>1 DEF Good
    <3> QED BY <1>4, <3>1, <3>2
  <2> QED BY <2>1, <2>2
<1>6. /\ g \in Seq(Seq(Frees)) /\ Len(g) = n
      /\ \A k \in 1 .. n : g[k] = LineAt(b, off[k])
  <2>1. m \in Nat /\ Rising(off, m)
    BY <1>1, <1>2
  <2>2. n \in 0 .. m
    BY <1>3
  <2>3. Newlines(b) = Places(off, n)
    BY <1>5 DEF Places
  <2>4. Refused(b) = {}
    OBVIOUS
  <2>5. /\ Handled(b) \in Seq(Seq(Frees)) /\ Len(Handled(b)) = n
        /\ \A k \in 1 .. n : Handled(b)[k] = LineAt(b, off[k])
    <3>1. \A f : Rising(f, m) => \A k \in 0 .. m : Newlines(b) = Places(f, k) =>
            /\ Handled(b) \in Seq(Seq(Frees)) /\ Len(Handled(b)) = k
            /\ \A j \in 1 .. k : Handled(b)[j] = LineAt(b, f[j])
      BY <2>1, <2>4, HandledIs
    <3> QED BY <2>1, <2>2, <2>3, <3>1
  <2> QED BY <2>5
<1> HIDE DEF g
<1>7. g \in Seq(Seq(Bytes))
  <2>1. Seq(Frees) \subseteq Seq(Bytes)
    BY SeqMonotonic DEF Frees
  <2> QED BY <1>6, <2>1, SeqMonotonic
<1>8. /\ h2 \in Seq(Seq(Bytes)) /\ Len(h2) = Len(h) + n
      /\ \A i \in 1 .. Len(h) : h2[i] = h[i]
      /\ \A i \in 1 .. n : h2[Len(h) + i] = g[i]
  BY <1>6, <1>7, ConcatLines
<1> HIDE DEF h2
<1>9. ASSUME NEW i \in 1 .. n PROVE g[i] = s[Len(h) + i]
  <2>1. i \in 1 .. m /\ off[i] \in 1 .. Len(b)
    BY <1>1, <1>3, <1>4, <1>5
  <2> QED BY <1>2, <1>4, <1>6, <2>1
<1>10. Prefix(h2, s)
  <2>1. ASSUME NEW k \in 1 .. Len(h2) PROVE s[k] = h2[k]
    <3>1. CASE k \in 1 .. Len(h)
      BY <1>8, <3>1 DEF Delivers, Prefix
    <3>2. CASE k \notin 1 .. Len(h)
      <4>1. k - Len(h) \in 1 .. n /\ Len(h) + (k - Len(h)) = k
        BY <1>1, <1>8, <3>2
      <4> QED BY <1>8, <1>9, <4>1
    <3> QED BY <3>1, <3>2
  <2>2. Len(h2) <= Len(s)
    BY <1>1, <1>3, <1>8 DEF m
  <2> QED BY <2>1, <2>2 DEF Prefix
(* d is the last newline of b.                                             *)
<1>11. Starts(b, Len(b) + 1, d)
  <2>1. Len(b) + 1 \in Nat \ {0}
    BY <1>1
  <2>2. Starts(b, Len(b) + 1, Begin(b, Len(b) + 1) - 1)
    BY <2>1, BeginIs
  <2> QED BY <2>2
<1>12. d \in 0 .. Len(b) /\ (d = 0 \/ d \in Newlines(b)) /\ \A i \in Newlines(b) : i <= d
  BY <1>1, <1>4, <1>11 DEF Starts
<1>13. \A i \in Newlines(c) : i > d <=> i > Len(b)
  <2> TAKE i \in Newlines(c)
  <2>1. i \in Nat
    BY <1>4
  <2>2. i <= Len(b) => i <= d
    BY <1>4, <1>12
  <2> QED BY <1>1, <1>12, <2>1, <2>2
<1>14. \A j \in 1 .. m : off[j] \in Newlines(c) /\ off[j] \in Nat
  BY <1>2 DEF Good, Rising
<1>15. \A j \in 1 .. m : off[j] > d <=> j > n
  <2> TAKE j \in 1 .. m
  <2>1. off[j] > d <=> off[j] > Len(b)
    BY <1>13, <1>14
  <2>2. off[j] <= Len(b) <=> j <= n
    BY <1>3
  <2> QED BY <1>1, <1>3, <1>14, <2>1, <2>2
<1> DEFINE o == [j \in 1 .. m - n |-> off[n + j] - d]
<1>16. \A j \in 1 .. m - n : n + j \in 1 .. m /\ n + j > n
  BY <1>1, <1>3
<1>17. ASSUME NEW j \in 1 .. m - n PROVE o[j] \in Nat /\ d + o[j] = off[n + j] /\ o[j] > 0
  <2>1. n + j \in 1 .. m /\ n + j > n
    BY <1>16
  <2> DEFINE v == off[n + j]
             w == o[j]
  <2>2. v > d /\ v \in Nat
    BY <1>14, <1>15, <2>1
  <2>3. w = v - d
    OBVIOUS
  <2> HIDE DEF v, w
  <2>4. w \in Nat /\ d + w = v /\ w > 0
    BY <2>2, <2>3
  <2> QED BY <2>4 DEF v, w
<1>18. o \in [1 .. m - n -> Nat]
  BY <1>17
<1> HIDE DEF o
<1>19. Len(s) - Len(h2) = m - n
  BY <1>1, <1>3, <1>8 DEF m
<1>20. Rising(o, m - n)
  <2> SUFFICES ASSUME NEW j \in 1 .. m - n, NEW k \in 1 .. m - n, j < k PROVE o[j] < o[k]
    BY <1>18 DEF Rising
  <2>1. n + j < n + k /\ n + j \in 1 .. m /\ n + k \in 1 .. m
    BY <1>3, <1>16
  <2> DEFINE x == n + j
             y == n + k
  <2>2. x \in 1 .. m /\ y \in 1 .. m /\ x < y
    BY <2>1
  <2>3. d + o[j] = off[x] /\ d + o[k] = off[y] /\ o[j] \in Nat /\ o[k] \in Nat
    BY <1>17
  <2> HIDE DEF x, y
  <2> DEFINE v == off[x]
             w == off[y]
             p == o[j]
             q == o[k]
  <2>4. v < w
    BY <1>2, <2>2 DEF Rising
  <2>5. d + p = v /\ d + q = w /\ p \in Nat /\ q \in Nat
    BY <2>3
  <2> HIDE DEF v, w, p, q
  <2>6. p < q
    BY <2>4, <2>5
  <2> QED BY <2>6 DEF p, q
<1>21. /\ Newlines(r) = {i \in 1 .. Len(r) : d + i \in Newlines(c)}
       /\ \A i \in 1 .. Len(r) : LineAt(r, i) = LineAt(c, d + i)
  BY SuffixKeeps
<1>22. ASSUME NEW j \in 1 .. m - n
       PROVE  /\ o[j] \in Good(r) /\ LineAt(r, o[j]) = s[Len(h2) + j]
  <2>1. d + o[j] = off[n + j] /\ n + j \in 1 .. m /\ o[j] \in Nat /\ o[j] > 0
    BY <1>16, <1>17
  <2>2. off[n + j] \in Newlines(c) /\ off[n + j] \in Good(c)
    BY <1>2, <1>14, <2>1
  <2>3. o[j] \in 1 .. Len(r)
    <3>1. d + o[j] \in 1 .. Len(c)
      BY <1>4, <2>1, <2>2
    <3>2. Len(c) = d + Len(r)
      BY DEF Suffix
    <3> DEFINE x == o[j]
    <3>3. d + x \in 1 .. Len(c) /\ x \in Nat /\ x > 0
      BY <2>1, <3>1
    <3> HIDE DEF x
    <3>4. x \in 1 .. Len(r)
      BY <1>1, <3>2, <3>3
    <3> QED BY <3>4 DEF x
  <2>4. LineAt(r, o[j]) = LineAt(c, off[n + j])
    BY <1>21, <2>1, <2>3
  <2>5. Len(h2) + j = Len(h) + (n + j)
    BY <1>1, <1>3, <1>8
  <2>6. o[j] \in Newlines(r)
    BY <1>21, <2>1, <2>2, <2>3
  <2> QED BY <1>2, <2>1, <2>2, <2>4, <2>5, <2>6 DEF Good
<1>23. Good(r) = {o[j] : j \in 1 .. m - n}
  <2>1. ASSUME NEW i \in Good(r) PROVE \E j \in 1 .. m - n : o[j] = i
    <3>1. i \in 1 .. Len(r) /\ d + i \in Newlines(c) /\ Valid(LineAt(c, d + i))
      BY <1>21 DEF Good
    <3>2. d + i \in Good(c)
      BY <3>1 DEF Good
    <3>3. PICK k \in 1 .. m : off[k] = d + i
      BY <1>2, <3>2
    <3>4. k > n
      BY <1>15, <3>1, <3>3
    <3>5. k - n \in 1 .. m - n /\ n + (k - n) = k
      BY <1>1, <1>3, <3>4
    <3> DEFINE j == k - n
    <3>6. j \in 1 .. m - n /\ n + j = k
      BY <3>5
    <3> HIDE DEF j
    <3>7. d + o[j] = d + i /\ o[j] \in Nat
      BY <1>17, <3>3, <3>6
    <3>8. o[j] = i
      BY <1>1, <3>1, <3>7
    <3> QED BY <3>6, <3>8
  <2> QED BY <1>22, <2>1
<1>24. Ended(r)
  <2>1. CASE Len(r) = 0
    BY <2>1 DEF Ended
  <2>2. CASE Len(r) # 0
    <3>1. Len(r) \in 1 .. Len(r) /\ d + Len(r) = Len(c) /\ Len(c) # 0
      BY <1>1, <2>2 DEF Suffix
    <3>2. Len(c) \in Newlines(c)
      BY <1>2, <3>1 DEF Ended
    <3> QED BY <1>21, <3>1, <3>2 DEF Ended
  <2> QED BY <2>1, <2>2
<1>25. Delivers(o, r, h2, s)
  BY <1>10, <1>19, <1>20, <1>22, <1>23, <1>24 DEF Delivers
<1> QED BY <1>6, <1>25 DEF h2, g

-----------------------------------------------------------------------------
(* The buffer and what is under way.                                       *)
LEMMA ConcatBytes ==
    ASSUME NEW s \in Seq(Bytes), NEW t \in Seq(Bytes)
    PROVE  /\ s \o t \in Seq(Bytes) /\ Len(s \o t) = Len(s) + Len(t)
           /\ Len(s) \in Nat /\ Len(t) \in Nat
           /\ \A i \in 1 .. Len(s) : (s \o t)[i] = s[i]
           /\ \A i \in 1 .. Len(s) + Len(t) : i > Len(s) => (s \o t)[i] = t[i - Len(s)]
<1>1. Len(s) \in Nat /\ Len(t) \in Nat
  BY LenProperties
<1>2. /\ s \o t \in Seq(Bytes) /\ Len(s \o t) = Len(s) + Len(t)
      /\ \A i \in 1 .. Len(s) + Len(t) :
            (s \o t)[i] = IF i <= Len(s) THEN s[i] ELSE t[i - Len(s)]
  BY ConcatProperties, Zenon
<1>3. ASSUME NEW i \in 1 .. Len(s) PROVE (s \o t)[i] = s[i]
  <2>1. i \in 1 .. Len(s) + Len(t) /\ i <= Len(s)
    BY <1>1
  <2> QED BY <1>2, <2>1, Zenon
<1>4. ASSUME NEW i \in 1 .. Len(s) + Len(t), i > Len(s) PROVE (s \o t)[i] = t[i - Len(s)]
  <2>1. ~(i <= Len(s))
    BY <1>1, <1>4
  <2> QED BY <1>2, <2>1, Zenon
<1> QED BY <1>1, <1>2, <1>3, <1>4

LEMMA SubBytes ==
    ASSUME NEW s \in Seq(Bytes), NEW n \in 0 .. Len(s)
    PROVE  /\ SubSeq(s, 1, n) \in Seq(Bytes) /\ Len(SubSeq(s, 1, n)) = n
           /\ \A i \in 1 .. n : SubSeq(s, 1, n)[i] = s[i]
           /\ SubSeq(s, n + 1, Len(s)) \in Seq(Bytes)
           /\ Len(SubSeq(s, n + 1, Len(s))) = Len(s) - n
           /\ \A i \in 1 .. Len(s) - n : SubSeq(s, n + 1, Len(s))[i] = s[n + i]
<1>1. Len(s) \in Nat /\ \A i \in 1 .. Len(s) : s[i] \in Bytes
  BY LenProperties, ElementOfSeq
<1>2. n \in Int /\ 1 \in Int /\ n + 1 \in Int /\ Len(s) \in Int
  BY <1>1
<1>3. (\A i \in 1 .. n : s[i] \in Bytes) /\ (\A i \in n + 1 .. Len(s) : s[i] \in Bytes)
  BY <1>1
<1>4. /\ SubSeq(s, 1, n) \in Seq(Bytes)
      /\ Len(SubSeq(s, 1, n)) = IF 1 <= n THEN n - 1 + 1 ELSE 0
      /\ \A i \in 1 .. n - 1 + 1 : SubSeq(s, 1, n)[i] = s[1 + i - 1]
  BY <1>2, <1>3, SubSeqProperties
<1>5. /\ SubSeq(s, n + 1, Len(s)) \in Seq(Bytes)
      /\ Len(SubSeq(s, n + 1, Len(s))) = IF n + 1 <= Len(s) THEN Len(s) - (n + 1) + 1 ELSE 0
      /\ \A i \in 1 .. Len(s) - (n + 1) + 1 :
            SubSeq(s, n + 1, Len(s))[i] = s[n + 1 + i - 1]
  BY <1>2, <1>3, SubSeqProperties
<1> DEFINE u == SubSeq(s, 1, n)
           v == SubSeq(s, n + 1, Len(s))
<1>6. n - 1 + 1 = n /\ Len(s) - (n + 1) + 1 = Len(s) - n /\ Len(s) - n >= 0 /\ n >= 0
  BY <1>1
<1>7. \A i \in 1 .. n : 1 + i - 1 = i
  BY <1>1
<1>8. \A i \in 1 .. Len(s) - n : n + 1 + i - 1 = n + i
  BY <1>1
<1>9. Len(u) = n /\ Len(v) = Len(s) - n
  <2>1. (IF 1 <= n THEN n - 1 + 1 ELSE 0) = n
    BY <1>1
  <2>2. (IF n + 1 <= Len(s) THEN Len(s) - (n + 1) + 1 ELSE 0) = Len(s) - n
    BY <1>1
  <2> QED BY <1>4, <1>5, <2>1, <2>2
<1>10. /\ \A i \in 1 .. n : u[i] = s[i]
       /\ \A i \in 1 .. Len(s) - n : v[i] = s[n + i]
  BY <1>4, <1>5, <1>6, <1>7, <1>8
<1> QED BY <1>4, <1>5, <1>9, <1>10

LEMMA FreesAre ==
    /\ Seq(Frees) \subseteq Seq(Bytes)
    /\ \A b \in Seq(Frees) : Newlines(b) = {}
<1>1. Seq(Frees) \subseteq Seq(Bytes)
  BY SeqMonotonic DEF Frees
<1>2. ASSUME NEW b \in Seq(Frees) PROVE Newlines(b) = {}
  <2>1. \A i \in 1 .. Len(b) : b[i] \in Frees
    BY ElementOfSeq
  <2>2. Newlines(b) = {i \in 1 .. Len(b) : b[i] = NL}
    BY <1>1, NewlinesAre
  <2> QED BY <2>1, <2>2 DEF Frees
<1> QED BY <1>1, <1>2

LEMMA TextIs ==
    ASSUME NEW k \in 1 .. MaxLines, NEW len \in Nat \ {0}
    PROVE  Text(k, len) \in Seq(Frees) /\ Valid(Text(k, len))
<1> DEFINE w == Text(k, len)
<1>1. w \in [1 .. len -> Frees] /\ w[1] = k
  <2>1. k \in Frees
    BY NumbersAssumption DEF Frees, Bytes, NL
  <2> QED BY <2>1 DEF Text
<1>2. k # Space /\ len \in Nat /\ len # 0
  BY NumbersAssumption DEF Space
<1> HIDE DEF w
<1>3. w \in Seq(Frees) /\ Len(w) = len
  BY <1>1, <1>2
<1>4. w # <<>>
  BY <1>2, <1>3
<1>5. Valid(w)
  BY <1>1, <1>2, <1>4 DEF Valid
<1> QED BY <1>3, <1>5 DEF w

LEMMA AddedFollows ==
    ASSUME NEW a \in Seq(Bytes), NEW s \in Seq(Bytes), NEW l \in Seq(Frees)
    PROVE  /\ s \o l \o <<NL>> \in Seq(Bytes)
           /\ a \o (s \o l \o <<NL>>) \in Seq(Bytes)
           /\ Follows(a \o s, l, a \o (s \o l \o <<NL>>))
<1> DEFINE e == <<NL>>
           t == s \o l
           u == t \o e
           b == a \o s
           c == a \o u
<1>1. l \in Seq(Bytes) /\ e \in Seq(Bytes) /\ Len(e) = 1 /\ e[1] = NL
  BY FreesAre, BytesAre
<1> HIDE DEF e
<1>2. /\ t \in Seq(Bytes) /\ Len(t) = Len(s) + Len(l)
      /\ Len(s) \in Nat /\ Len(l) \in Nat
      /\ \A i \in 1 .. Len(s) : t[i] = s[i]
      /\ \A i \in 1 .. Len(s) + Len(l) : i > Len(s) => t[i] = l[i - Len(s)]
  BY <1>1, ConcatBytes
<1> HIDE DEF t
<1>3. /\ u \in Seq(Bytes) /\ Len(u) = Len(t) + 1
      /\ \A i \in 1 .. Len(t) : u[i] = t[i]
      /\ \A i \in 1 .. Len(t) + 1 : i > Len(t) => u[i] = e[i - Len(t)]
  <2>1. t \in Seq(Bytes) /\ e \in Seq(Bytes) /\ Len(e) = 1
    BY <1>1, <1>2
  <2>2. /\ u \in Seq(Bytes) /\ Len(u) = Len(t) + Len(e)
        /\ \A i \in 1 .. Len(t) : u[i] = t[i]
        /\ \A i \in 1 .. Len(t) + Len(e) : i > Len(t) => u[i] = e[i - Len(t)]
    BY <2>1, ConcatBytes
  <2> QED BY <2>1, <2>2
<1> HIDE DEF u
<1>4. /\ b \in Seq(Bytes) /\ Len(b) = Len(a) + Len(s) /\ Len(a) \in Nat
      /\ \A i \in 1 .. Len(a) : b[i] = a[i]
      /\ \A i \in 1 .. Len(a) + Len(s) : i > Len(a) => b[i] = s[i - Len(a)]
  BY ConcatBytes
<1> HIDE DEF b
<1>5. /\ c \in Seq(Bytes) /\ Len(c) = Len(a) + Len(u)
      /\ \A i \in 1 .. Len(a) : c[i] = a[i]
      /\ \A i \in 1 .. Len(a) + Len(u) : i > Len(a) => c[i] = u[i - Len(a)]
  BY <1>3, ConcatBytes
<1> HIDE DEF c
<1>6. ASSUME NEW k \in 1 .. Len(b) PROVE c[k] = b[k]
  <2>1. CASE k <= Len(a)
    <3>1. k \in 1 .. Len(a)
      BY <1>4, <2>1
    <3> QED BY <1>4, <1>5, <3>1
  <2>2. CASE k > Len(a)
    <3>1. /\ k \in 1 .. Len(a) + Len(s) /\ k \in 1 .. Len(a) + Len(u)
          /\ k - Len(a) \in 1 .. Len(s) /\ k - Len(a) \in 1 .. Len(t)
      BY <1>2, <1>3, <1>4, <2>2
    <3> DEFINE i == k - Len(a)
    <3>2. c[k] = u[i] /\ b[k] = s[i]
      BY <1>4, <1>5, <2>2, <3>1
    <3> HIDE DEF i
    <3>3. u[i] = t[i] /\ t[i] = s[i]
      BY <1>2, <1>3, <3>1 DEF i
    <3> QED BY <3>2, <3>3
  <2> QED BY <1>4, <2>1, <2>2
<1>7. ASSUME NEW k \in 1 .. Len(l) PROVE c[Len(b) + k] = l[k]
  <2> DEFINE i == Len(b) + k
             j == Len(s) + k
  <2>1. i \in 1 .. Len(a) + Len(u) /\ i > Len(a) /\ i - Len(a) = j
    BY <1>2, <1>3, <1>4
  <2>2. j \in 1 .. Len(t) /\ j \in 1 .. Len(s) + Len(l) /\ j > Len(s) /\ j - Len(s) = k
    BY <1>2
  <2> HIDE DEF i, j
  <2>3. c[i] = l[k]
    BY <1>2, <1>3, <1>5, <2>1, <2>2
  <2> QED BY <2>3 DEF i
<1>8. c[Len(c)] = NL
  <2> DEFINE i == Len(c)
  <2>1. i \in 1 .. Len(a) + Len(u) /\ i > Len(a) /\ i - Len(a) = Len(t) + 1
    BY <1>2, <1>3, <1>4, <1>5
  <2>2. Len(t) + 1 \in 1 .. Len(t) + 1 /\ Len(t) + 1 > Len(t) /\ Len(t) + 1 - Len(t) = 1
    BY <1>2
  <2> HIDE DEF i
  <2>3. c[i] = u[Len(t) + 1]
    BY <1>5, <2>1
  <2> QED BY <1>1, <1>3, <2>2, <2>3 DEF i
<1>9. Len(b) <= Len(c) /\ Len(c) = Len(b) + Len(l) + 1
  BY <1>2, <1>3, <1>4, <1>5
<1>10. Follows(b, l, c)
  BY <1>6, <1>7, <1>8, <1>9 DEF Follows, Prefix
<1> QED BY <1>3, <1>5, <1>10 DEF b, c, u, t, e

-----------------------------------------------------------------------------
(* What Dispatch makes of a, the buffer, and s, the bytes under way, when  *)
(* it reads n of them.                                                     *)
LEMMA LeftoverIs ==
    ASSUME NEW b \in Seq(Bytes), b # <<>>
    PROVE  /\ Leftover(b) \in Seq(Frees) /\ Len(Leftover(b)) <= Len(b)
           /\ Refused(b) = {} =>
                 \E d \in 0 .. Len(b) :
                    /\ d + 1 = Begin(b, Len(b) + 1) /\ (d = 0 \/ d \in Newlines(b))
                    /\ Len(Leftover(b)) = Len(b) - d
                    /\ \A k \in 1 .. Len(b) - d : Leftover(b)[k] = b[d + k]
<1>1. /\ Newlines(b) = {i \in 1 .. Len(b) : b[i] = NL} /\ Len(b) \in Nat
  BY NewlinesAre
<1>2. CASE Refused(b) = {}
  <2> DEFINE d == Begin(b, Len(b) + 1) - 1
             e == Len(b) + 1
             w == LineAt(b, e)
  <2>1. e \in Nat \ {0} /\ e \in 1 .. Len(b) + 1 /\ e - 1 = Len(b)
    BY <1>1
  <2>2. Starts(b, e, Begin(b, e) - 1)
    BY <2>1, BeginIs
  <2>3. Starts(b, e, d)
    BY <2>2
  <2>4. Leftover(b) = w
    BY <1>2, <2>1 DEF Leftover, LineAt
  <2>6. Begin(b, e) = d + 1
    BY <2>1, <2>3, BeginIs
  <2> HIDE DEF d
  <2>7. w \in Seq(Frees) /\ Len(w) = e - 1 - d /\ \A k \in 1 .. e - 1 - d : w[k] = b[d + k]
    BY <2>1, <2>3, LineIs
  <2> HIDE DEF w
  <2>8. d \in 0 .. Len(b) /\ (d = 0 \/ d \in Newlines(b))
    BY <2>1, <2>3 DEF Starts
  <2>9. Len(w) = Len(b) - d /\ \A k \in 1 .. Len(b) - d : w[k] = b[d + k]
    BY <2>1, <2>7
  <2>10. Len(w) <= Len(b)
    BY <1>1, <2>8, <2>9
  <2> QED BY <2>4, <2>6, <2>7, <2>8, <2>9, <2>10
<1>3. CASE Refused(b) # {}
  <2> DEFINE i == Min(Refused(b))
             p == Begin(b, i) - 1
             w == LineAt(b, i)
  <2>1. i \in Refused(b)
    <3>1. Refused(b) \subseteq Nat
      BY <1>1 DEF Refused
    <3> QED BY <1>3, <3>1, MinIs
  <2>2. Leftover(b) = w
    BY <1>3 DEF Leftover
  <2> HIDE DEF i
  <2>3. i \in 1 .. Len(b) + 1 /\ i \in Nat \ {0} /\ i <= Len(b)
    BY <1>1, <2>1 DEF Refused
  <2>4. Starts(b, i, p)
    BY <2>3, BeginIs
  <2> HIDE DEF p
  <2>5. w \in Seq(Frees) /\ Len(w) = i - 1 - p
    BY <2>3, <2>4, LineIs
  <2>6. p \in 0 .. i - 1
    BY <2>4 DEF Starts
  <2> HIDE DEF w
  <2>7. Len(w) <= Len(b)
    BY <1>1, <2>3, <2>5, <2>6
  <2> QED BY <1>3, <2>2, <2>5, <2>7
<1> QED BY <1>2, <1>3

LEMMA ReadIs ==
    ASSUME NEW a \in Seq(Bytes), NEW s \in Seq(Bytes), NEW n \in 1 .. Len(s)
    PROVE  /\ a \o SubSeq(s, 1, n) \in Seq(Bytes) /\ a \o SubSeq(s, 1, n) # <<>>
           /\ Len(a \o SubSeq(s, 1, n)) = Len(a) + n
           /\ a \o s \in Seq(Bytes)
           /\ Prefix(a \o SubSeq(s, 1, n), a \o s)
<1> DEFINE u == SubSeq(s, 1, n)
           b == a \o u
           c == a \o s
<1>0. Len(a) \in Nat /\ Len(s) \in Nat /\ n \in 0 .. Len(s) /\ n > 0
  BY LenProperties
<1>1. u \in Seq(Bytes) /\ Len(u) = n /\ \A i \in 1 .. n : u[i] = s[i]
  BY <1>0, SubBytes
<1> HIDE DEF u
<1>2. /\ b \in Seq(Bytes) /\ Len(b) = Len(a) + n
      /\ \A i \in 1 .. Len(a) : b[i] = a[i]
      /\ \A i \in 1 .. Len(a) + n : i > Len(a) => b[i] = u[i - Len(a)]
  BY <1>1, ConcatBytes
<1>3. /\ c \in Seq(Bytes) /\ Len(c) = Len(a) + Len(s)
      /\ \A i \in 1 .. Len(a) : c[i] = a[i]
      /\ \A i \in 1 .. Len(a) + Len(s) : i > Len(a) => c[i] = s[i - Len(a)]
  BY ConcatBytes
<1> HIDE DEF b, c
<1>4. b # <<>> /\ Len(b) <= Len(c)
  BY <1>0, <1>2, <1>3
<1>5. ASSUME NEW k \in 1 .. Len(b) PROVE c[k] = b[k]
  <2>1. CASE k <= Len(a)
    <3>1. k \in 1 .. Len(a)
      BY <1>0, <2>1
    <3> QED BY <1>2, <1>3, <3>1
  <2>2. CASE k > Len(a)
    <3>1. /\ k \in 1 .. Len(a) + n /\ k \in 1 .. Len(a) + Len(s) /\ k - Len(a) \in 1 .. n
      BY <1>0, <1>2, <2>2
    <3> QED BY <1>1, <1>2, <1>3, <2>2, <3>1
  <2> QED BY <1>0, <2>1, <2>2
<1> QED BY <1>2, <1>3, <1>4, <1>5 DEF Prefix, b, c, u

LEMMA LeftIs ==
    ASSUME NEW a \in Seq(Bytes), NEW s \in Seq(Bytes), NEW n \in 1 .. Len(s),
           NEW b \in Seq(Bytes), NEW c \in Seq(Bytes), NEW w \in Seq(Bytes),
           b = a \o SubSeq(s, 1, n), c = a \o s,
           NEW d \in 0 .. Len(b), d = 0 \/ d \in Newlines(b),
           Len(w) = Len(b) - d, \A k \in 1 .. Len(b) - d : w[k] = b[d + k]
    PROVE  /\ w \o SubSeq(s, n + 1, Len(s)) \in Seq(Bytes)
           /\ Suffix(w \o SubSeq(s, n + 1, Len(s)), c, d)
<1> DEFINE v == SubSeq(s, n + 1, Len(s))
           r == w \o v
<1>1. /\ Len(a) \in Nat /\ Len(s) \in Nat /\ n \in 0 .. Len(s) /\ n > 0 /\ Len(b) = Len(a) + n
  <2>1. Len(b) = Len(a) + n
    BY ReadIs
  <2> QED BY <2>1, LenProperties
<1>2. v \in Seq(Bytes) /\ Len(v) = Len(s) - n /\ \A i \in 1 .. Len(s) - n : v[i] = s[n + i]
  BY <1>1, SubBytes
<1> HIDE DEF v
<1>3. /\ r \in Seq(Bytes) /\ Len(r) = Len(w) + Len(v)
      /\ \A i \in 1 .. Len(w) : r[i] = w[i]
      /\ \A i \in 1 .. Len(w) + Len(v) : i > Len(w) => r[i] = v[i - Len(w)]
  BY <1>2, ConcatBytes
<1> HIDE DEF r
<1>4. /\ Len(c) = Len(a) + Len(s)
      /\ \A i \in 1 .. Len(a) + Len(s) : i > Len(a) => c[i] = s[i - Len(a)]
  BY ConcatBytes
<1>5. Prefix(b, c)
  BY ReadIs
<1>6. d = 0 \/ d \in Newlines(c)
  <2>1. Newlines(b) = {i \in Newlines(c) : i <= Len(b)}
    BY <1>5, PrefixKeeps
  <2> QED BY <2>1
<1>7. d \in Nat /\ Len(c) = d + Len(r)
  BY <1>1, <1>2, <1>3, <1>4
<1>8. ASSUME NEW k \in 1 .. Len(r) PROVE r[k] = c[d + k]
  <2>1. CASE k <= Len(w)
    <3>1. k \in 1 .. Len(w) /\ k \in 1 .. Len(b) - d /\ d + k \in 1 .. Len(b)
      BY <1>1, <1>7, <2>1
    <3>2. c[d + k] = b[d + k]
      BY <1>5, <3>1 DEF Prefix
    <3> QED BY <1>3, <3>1, <3>2
  <2>2. CASE k > Len(w)
    <3> DEFINE i == k - Len(w)
               j == d + k
               m == n + i
    <3>1. i \in 1 .. Len(s) - n /\ k \in 1 .. Len(w) + Len(v)
      <4>1. Len(w) \in Nat /\ Len(v) = Len(s) - n /\ Len(r) = Len(w) + Len(v)
        BY <1>1, <1>2, <1>3, LenProperties
      <4> QED BY <1>1, <2>2, <4>1
    <3>2. j \in 1 .. Len(a) + Len(s) /\ j > Len(a) /\ j - Len(a) = m
      <4>1. Len(w) = Len(a) + n - d /\ k <= Len(w) + (Len(s) - n)
        BY <1>1, <1>2, <1>3
      <4> QED BY <1>1, <1>7, <2>2, <4>1
    <3>3. r[k] = v[i]
      BY <1>3, <2>2, <3>1
    <3>4. v[i] = s[m]
      BY <1>2, <3>1
    <3> HIDE DEF i, j, m
    <3>5. c[j] = s[m]
      BY <1>4, <3>2
    <3> QED BY <3>3, <3>4, <3>5 DEF j
  <2>3. k <= Len(w) \/ k > Len(w)
    <3>1. Len(w) \in Nat /\ Len(r) \in Nat /\ k \in Nat
      BY <1>3, LenProperties
    <3> QED BY <3>1
  <2> QED BY <2>1, <2>2, <2>3
<1> QED BY <1>3, <1>6, <1>7, <1>8 DEF Suffix, r, v

-----------------------------------------------------------------------------
(* The inductive invariant.  Unless the connection is spoiled, the buffer  *)
(* and the bytes under way are the lines that were said and not handled.   *)
Types ==
    /\ said \in Seq(Seq(Bytes)) /\ Len(said) <= MaxLines /\ stream \in Seq(Bytes)
    /\ input_buf \in Seq(Frees) /\ Len(input_buf) < BufLen /\ spoiled \in BOOLEAN

Whole ==
    ~spoiled => /\ handled \in Seq(Seq(Bytes))
                /\ \E off : Delivers(off, input_buf \o stream, handled, said)

InInv == Types /\ Whole

LEMMA NothingDelivers ==
    ASSUME NEW b, b = <<>>
    PROVE  \E off : Delivers(off, b, <<>>, <<>>)
<1> DEFINE off == [j \in 1 .. 0 |-> 0]
<1>1. Newlines(b) = {}
  BY DEF Newlines
<1>2. Good(b) = {} /\ Ended(b)
  BY <1>1 DEF Good, Ended
<1>3. Prefix(<<>>, <<>>) /\ Rising(off, 0)
  BY DEF Prefix, Rising
<1>4. Len(<<>>) - Len(<<>>) = 0
  OBVIOUS
<1>5. Delivers(off, b, <<>>, <<>>)
  BY <1>2, <1>3, <1>4 DEF Delivers
<1> QED BY <1>5

LEMMA InInit == Init => InInv
<1> SUFFICES ASSUME Init PROVE InInv
  OBVIOUS
<1>1. <<>> \in Seq(Seq(Bytes)) /\ <<>> \in Seq(Bytes) /\ <<>> \in Seq(Frees) /\ Len(<<>>) = 0
  OBVIOUS
<1>2. Types
  <2>1. said = <<>> /\ stream = <<>> /\ input_buf = <<>> /\ spoiled = FALSE
    BY DEF Init
  <2>2. 0 <= MaxLines /\ 0 < BufLen
    BY NumbersAssumption
  <2> QED BY <1>1, <2>1, <2>2 DEF Types
<1>3. input_buf \o stream = <<>>
  BY DEF Init
<1>4. \E off : Delivers(off, input_buf \o stream, <<>>, <<>>)
  BY <1>3, NothingDelivers
<1>5. handled = <<>> /\ said = <<>>
  BY DEF Init
<1>6. Whole
  BY <1>1, <1>4, <1>5 DEF Whole
<1> QED BY <1>2, <1>6 DEF InInv

LEMMA SayKeeps == InInv /\ Say => InInv'
<1> SUFFICES ASSUME InInv, Say PROVE InInv'
  OBVIOUS
<1> USE DEF InInv
<1>1. PICK len \in Lengths : /\ said' = Append(said, Text(Len(said) + 1, len))
                             /\ Sends(Text(Len(said) + 1, len))
  BY DEF Say
<1> DEFINE l == Text(Len(said) + 1, len)
<1>2. Len(said) \in Nat /\ Len(said) + 1 \in 1 .. MaxLines
  BY NumbersAssumption DEF Types, Say
<1>3. l \in Seq(Frees) /\ Valid(l) /\ l \in Seq(Bytes)
  BY <1>2, LengthsAssumption, TextIs, FreesAre
<1>4. said' = Append(said, l)
  BY <1>1
<1>5. /\ stream' = stream \o l \o <<NL>>
      /\ input_buf' = input_buf /\ handled' = handled /\ spoiled' = spoiled
  BY <1>1 DEF Sends
<1> HIDE DEF l
<1>6. said' \in Seq(Seq(Bytes)) /\ Len(said') = Len(said) + 1
  BY <1>3, <1>4, AppendIs DEF Types
<1>7. input_buf \in Seq(Bytes) /\ stream \in Seq(Bytes)
  BY FreesAre DEF Types
<1>8. /\ stream \o l \o <<NL>> \in Seq(Bytes)
      /\ input_buf \o (stream \o l \o <<NL>>) \in Seq(Bytes)
      /\ Follows(input_buf \o stream, l, input_buf \o (stream \o l \o <<NL>>))
      /\ input_buf \o stream \in Seq(Bytes)
  BY <1>3, <1>7, AddedFollows, ConcatBytes
<1>9. Types'
  BY <1>2, <1>5, <1>6, <1>8, NumbersAssumption DEF Types
<1>10. ASSUME ~spoiled PROVE \E off : Delivers(off, (input_buf \o stream)', handled', said')
  <2> DEFINE b == input_buf \o stream
             c == input_buf \o (stream \o l \o <<NL>>)
  <2>1. PICK off : Delivers(off, b, handled, said)
    BY <1>10 DEF Whole
  <2>2. b \in Seq(Bytes) /\ c \in Seq(Bytes) /\ Follows(b, l, c)
    BY <1>8
  <2>3. handled \in Seq(Seq(Bytes)) /\ said \in Seq(Seq(Bytes))
    BY <1>10 DEF Types, Whole
  <2>4. (input_buf \o stream)' = c
    BY <1>5
  <2> HIDE DEF b, c
  <2>5. \E off2 : Delivers(off2, c, handled, Append(said, l))
    BY <1>3, <2>1, <2>2, <2>3, SayDelivers
  <2> QED BY <1>4, <1>5, <2>4, <2>5
<1>11. Whole'
  BY <1>5, <1>10 DEF Whole
<1> QED BY <1>9, <1>11

LEMMA BlankKeeps == InInv /\ SayBlank => InInv'
<1> SUFFICES ASSUME InInv, SayBlank PROVE InInv'
  OBVIOUS
<1> USE DEF InInv
<1>1. PICK l \in Blank : Sends(l) /\ said' = said
  BY DEF SayBlank
<1>2. l \in Seq(Frees) /\ ~Valid(l)
  <2>1. CASE l = <<>>
    BY <2>1 DEF Valid
  <2>2. CASE l = <<Space>>
    <3>1. Space \in Frees
      BY BytesAre
    <3>2. <<Space>> \in Seq(Frees) /\ <<Space>>[1] = Space
      BY <3>1
    <3> QED BY <2>2, <3>2 DEF Valid
  <2> QED BY <2>1, <2>2 DEF Blank
<1>3. /\ stream' = stream \o l \o <<NL>>
      /\ input_buf' = input_buf /\ handled' = handled /\ spoiled' = spoiled
  BY <1>1 DEF Sends
<1>4. input_buf \in Seq(Bytes) /\ stream \in Seq(Bytes)
  BY FreesAre DEF Types
<1>5. /\ stream \o l \o <<NL>> \in Seq(Bytes)
      /\ input_buf \o (stream \o l \o <<NL>>) \in Seq(Bytes)
      /\ Follows(input_buf \o stream, l, input_buf \o (stream \o l \o <<NL>>))
      /\ input_buf \o stream \in Seq(Bytes)
  BY <1>2, <1>4, AddedFollows, ConcatBytes
<1>6. Types'
  BY <1>1, <1>3, <1>5 DEF Types
<1>7. ASSUME ~spoiled PROVE \E off : Delivers(off, (input_buf \o stream)', handled', said')
  <2> DEFINE b == input_buf \o stream
             c == input_buf \o (stream \o l \o <<NL>>)
  <2>1. PICK off : Delivers(off, b, handled, said)
    BY <1>7 DEF Whole
  <2>2. b \in Seq(Bytes) /\ c \in Seq(Bytes) /\ Follows(b, l, c)
    BY <1>5
  <2>3. (input_buf \o stream)' = c
    BY <1>3
  <2> HIDE DEF b, c
  <2>4. Delivers(off, c, handled, said)
    BY <1>2, <2>1, <2>2, BlankDelivers
  <2> QED BY <1>1, <1>3, <2>3, <2>4
<1>8. Whole'
  BY <1>3, <1>7 DEF Whole
<1> QED BY <1>6, <1>8

LEMMA DispatchKeeps ==
    InInv /\ Dispatch => InInv' /\ (~spoiled' => Len(handled) <= Len(handled'))
<1> SUFFICES ASSUME InInv, Dispatch
             PROVE  InInv' /\ (~spoiled' => Len(handled) <= Len(handled'))
  OBVIOUS
<1> USE DEF InInv
<1>1. PICK n \in 1 .. Len(stream) :
         /\ n <= Room
         /\ handled' = handled \o Handled(input_buf \o SubSeq(stream, 1, n))
         /\ input_buf' = Leftover(input_buf \o SubSeq(stream, 1, n))
         /\ spoiled' = (spoiled \/ Refused(input_buf \o SubSeq(stream, 1, n)) # {})
         /\ stream' = SubSeq(stream, n + 1, Len(stream))
  BY DEF Dispatch
<1> DEFINE b == input_buf \o SubSeq(stream, 1, n)
           c == input_buf \o stream
           w == Leftover(b)
           v == SubSeq(stream, n + 1, Len(stream))
<1>2. input_buf \in Seq(Bytes) /\ stream \in Seq(Bytes) /\ Len(stream) \in Nat
  BY FreesAre, LenProperties DEF Types
<1>3. /\ b \in Seq(Bytes) /\ b # <<>> /\ Len(b) = Len(input_buf) + n
      /\ c \in Seq(Bytes) /\ Prefix(b, c)
  BY <1>2, ReadIs
<1>4. v \in Seq(Bytes)
  <2>1. n \in 0 .. Len(stream)
    BY <1>2
  <2> QED BY <1>2, <2>1, SubBytes
<1>5. handled' = handled \o Handled(b)
  BY <1>1
<1>6. input_buf' = w /\ stream' = v
  BY <1>1
<1>7. spoiled' = (spoiled \/ Refused(b) # {}) /\ said' = said
  BY <1>1 DEF Dispatch
<1>8. b = input_buf \o SubSeq(stream, 1, n) /\ c = input_buf \o stream
  OBVIOUS
<1> HIDE DEF b, c
<1>9. /\ w \in Seq(Frees) /\ Len(w) <= Len(b)
      /\ Refused(b) = {} =>
            \E d \in 0 .. Len(b) :
               /\ d + 1 = Begin(b, Len(b) + 1) /\ (d = 0 \/ d \in Newlines(b))
               /\ Len(w) = Len(b) - d /\ \A k \in 1 .. Len(b) - d : w[k] = b[d + k]
  BY <1>3, LeftoverIs
<1>10. w \in Seq(Bytes) /\ Len(w) \in Nat /\ Len(b) \in Nat
  <2>1. w \in Seq(Bytes)
    BY <1>9, FreesAre
  <2> QED BY <1>3, <2>1, LenProperties
<1> HIDE DEF w
<1>11. Len(w) < BufLen
  <2>1. n <= BufLen - Len(input_buf) - 1
    BY <1>1 DEF Room
  <2>2. Len(input_buf) \in Nat /\ n \in Nat
    BY <1>2, LenProperties
  <2> QED BY <1>3, <1>9, <1>10, <2>1, <2>2, NumbersAssumption
<1>12. Types'
  <2>1. spoiled' \in BOOLEAN
    BY <1>7 DEF Types
  <2> HIDE DEF v
  <2> QED BY <1>4, <1>6, <1>7, <1>9, <1>11, <2>1 DEF Types
<1>13. ASSUME ~spoiled'
       PROVE  /\ handled' \in Seq(Seq(Bytes)) /\ Len(handled) <= Len(handled')
              /\ \E off : Delivers(off, (input_buf \o stream)', handled', said')
  <2>1. ~spoiled /\ Refused(b) = {}
    BY <1>7, <1>13 DEF Types
  <2>2. PICK off : Delivers(off, c, handled, said)
    BY <1>8, <2>1 DEF Whole
  <2>3. handled \in Seq(Seq(Bytes)) /\ said \in Seq(Seq(Bytes))
    BY <2>1 DEF Types, Whole
  <2>4. PICK d \in 0 .. Len(b) :
           /\ d + 1 = Begin(b, Len(b) + 1) /\ (d = 0 \/ d \in Newlines(b))
           /\ Len(w) = Len(b) - d /\ \A k \in 1 .. Len(b) - d : w[k] = b[d + k]
    BY <1>9, <2>1
  <2> DEFINE r == w \o v
             s == said
             h == handled
             g == Handled(b)
  <2>5. r \in Seq(Bytes) /\ Suffix(r, c, d)
    BY <1>2, <1>3, <1>8, <1>10, <2>4, LeftIs
  <2>6. d \in Nat
    BY <1>10
  <2>7. s \in Seq(Seq(Bytes)) /\ h \in Seq(Seq(Bytes)) /\ Delivers(off, c, h, s)
    BY <2>2, <2>3
  <2>8. (input_buf \o stream)' = r
    BY <1>6
  <2> HIDE DEF r, s, h
  <2>9. (\E off2 : Delivers(off2, r, h \o Handled(b), s)) /\ Handled(b) \in Seq(Seq(Frees))
    BY <1>3, <2>1, <2>4, <2>5, <2>6, <2>7, HearDelivers
  <2>10. g \in Seq(Seq(Bytes))
    <3>1. Seq(Seq(Frees)) \subseteq Seq(Seq(Bytes))
      BY FreesAre, SeqMonotonic
    <3> QED BY <2>9, <3>1
  <2> HIDE DEF g
  <2>11. h \o g \in Seq(Seq(Bytes)) /\ Len(h) <= Len(h \o g)
    <3>1. /\ h \o g \in Seq(Seq(Bytes)) /\ Len(h \o g) = Len(h) + Len(g)
          /\ Len(h) \in Nat /\ Len(g) \in Nat
      BY <2>7, <2>10, ConcatLines
    <3> QED BY <3>1
  <2> QED BY <1>5, <1>7, <2>8, <2>9, <2>11 DEF g, h, s
<1>14. Whole'
  BY <1>13 DEF Whole
<1> QED BY <1>12, <1>13, <1>14

LEMMA ReconnectKeeps == InInv /\ Reconnect => InInv'
<1> SUFFICES ASSUME InInv, Reconnect PROVE InInv'
  OBVIOUS
<1> USE DEF InInv
<1>1. /\ said' = <<>> /\ stream' = <<>> /\ handled' = <<>>
      /\ spoiled' = (input_buf # <<>>) /\ input_buf' = input_buf
  BY DEF Reconnect
<1>2. <<>> \in Seq(Seq(Bytes)) /\ <<>> \in Seq(Bytes) /\ Len(<<>>) = 0 /\ 0 <= MaxLines
  BY NumbersAssumption
<1>3. Types'
  BY <1>1, <1>2 DEF Types
<1>4. ASSUME ~spoiled' PROVE \E off : Delivers(off, (input_buf \o stream)', <<>>, <<>>)
  <2>1. input_buf' = <<>> /\ stream' = <<>>
    BY <1>1, <1>4
  <2>2. (input_buf \o stream)' = <<>>
    BY <2>1
  <2> QED BY <2>2, NothingDelivers
<1>5. Whole'
  BY <1>1, <1>2, <1>4 DEF Whole
<1> QED BY <1>3, <1>5

LEMMA InStep == InInv /\ [Next]_vars => InInv'
<1> SUFFICES ASSUME InInv, [Next]_vars PROVE InInv'
  OBVIOUS
<1>1. CASE Full
  BY <1>1 DEF Full, InInv, Types, Whole
<1>2. CASE UNCHANGED vars
  BY <1>2 DEF vars, InInv, Types, Whole
<1> QED BY <1>1, <1>2, SayKeeps, BlankKeeps, DispatchKeeps, ReconnectKeeps DEF Next

LEMMA InAlways == Spec => []InInv
<1> QED BY InInit, InStep, PTL DEF Spec

-----------------------------------------------------------------------------
(* The steps of IrcInput are steps of LineStream, or none.                 *)
LEMMA PrefixIs ==
    ASSUME NEW h \in Seq(Seq(Bytes)), NEW s \in Seq(Seq(Bytes)), Prefix(h, s)
    PROVE  IsPrefix(h, s)
<1> DEFINE n == Len(h)
           x == SubSeq(h, 1, n)
           y == SubSeq(s, 1, n)
<1>1. n \in Nat /\ Len(s) \in Nat /\ n <= Len(s)
  BY LenProperties DEF Prefix
<1>2. \A i \in 1 .. n : h[i] \in Seq(Bytes) /\ s[i] \in Seq(Bytes) /\ s[i] = h[i]
  BY <1>1, ElementOfSeq DEF Prefix
<1> HIDE DEF n
<1>3. /\ x \in Seq(Seq(Bytes)) /\ Len(x) = IF 1 <= n THEN n - 1 + 1 ELSE 0
      /\ \A i \in 1 .. n - 1 + 1 : x[i] = h[1 + i - 1]
  BY <1>1, <1>2, SubSeqProperties
<1>4. /\ y \in Seq(Seq(Bytes)) /\ Len(y) = IF 1 <= n THEN n - 1 + 1 ELSE 0
      /\ \A i \in 1 .. n - 1 + 1 : y[i] = s[1 + i - 1]
  BY <1>1, <1>2, SubSeqProperties
<1> HIDE DEF x, y
<1>5. n - 1 + 1 = n /\ \A i \in 1 .. n : 1 + i - 1 = i
  BY <1>1
<1>6. Len(x) = n /\ Len(y) = n
  BY <1>1, <1>3, <1>4
<1>7. \A i \in 1 .. Len(x) : x[i] = y[i]
  BY <1>2, <1>3, <1>4, <1>5, <1>6
<1>8. x = y
  BY <1>3, <1>4, <1>6, <1>7, SeqEqual
<1> QED BY <1>1, <1>8 DEF IsPrefix, n, x, y

LEMMA StepImplements == InInv /\ InInv' /\ [Next]_vars => [Promise!Next]_<<said, handled, ~spoiled>>
<1> SUFFICES ASSUME InInv, InInv', [Next]_vars
             PROVE  [Promise!Next]_<<said, handled, ~spoiled>>
  OBVIOUS
<1>1. CASE Say
  <2>1. PICK len \in Lengths : said' = Append(said, Text(Len(said) + 1, len))
                               /\ handled' = handled /\ spoiled' = spoiled
    BY <1>1 DEF Say, Sends
  <2>2. Len(said) + 1 \in 1 .. MaxLines
    BY <1>1, NumbersAssumption DEF Say, InInv, Types
  <2>3. \E line \in {Text(k, m) : k \in 1 .. MaxLines, m \in Lengths} :
           said' = Append(said, line)
    BY <2>1, <2>2
  <2> QED BY <2>1, <2>3 DEF Promise!Next, Promise!Say
<1>2. CASE SayBlank
  BY <1>2 DEF SayBlank, Sends
<1>3. CASE Dispatch
  <2>1. said' = said
    BY <1>3 DEF Dispatch
  <2>2. CASE spoiled'
    BY <2>1, <2>2 DEF Promise!Next, Promise!Spoil
  <2>3. CASE ~spoiled'
    <3>1. ~spoiled
      BY <1>3, <2>3 DEF Dispatch
    <3>2. /\ handled' \in Seq(Seq(Bytes)) /\ handled \in Seq(Seq(Bytes))
          /\ said \in Seq(Seq(Bytes)) /\ Prefix(handled', said)
      BY <2>1, <2>3, <3>1 DEF InInv, Types, Whole, Delivers
    <3>3. IsPrefix(handled', said)
      BY <3>2, PrefixIs
    <3>4. IsPrefix(handled, handled')
      <4>1. Prefix(handled, said)
        BY <3>1 DEF InInv, Whole, Delivers
      <4>2. Len(handled) <= Len(handled')
        BY <1>3, <2>3, DispatchKeeps
      <4>3. Len(handled') <= Len(said)
        BY <3>2 DEF Prefix
      <4>4. Len(handled) \in Nat /\ Len(handled') \in Nat
        BY <3>2, LenProperties
      <4>5. ASSUME NEW k \in 1 .. Len(handled) PROVE handled'[k] = handled[k]
        <5>1. k \in 1 .. Len(handled')
          BY <4>2, <4>4
        <5> QED BY <3>2, <4>1, <5>1 DEF Prefix
      <4>6. Prefix(handled, handled')
        BY <4>2, <4>5 DEF Prefix
      <4> QED BY <3>2, <4>6, PrefixIs
    <3>5. CASE handled' = handled
      BY <2>1, <2>3, <3>1, <3>5 DEF InInv, Types
    <3>6. CASE handled' # handled
      <4>1. spoiled = FALSE /\ spoiled' = FALSE
        BY <2>3, <3>1 DEF InInv, Types
      <4>2. Promise!IsPrefix(handled', said) /\ Promise!IsPrefix(handled, handled')
        BY <3>3, <3>4 DEF IsPrefix, Promise!IsPrefix
      <4>3. Promise!IsStrictPrefix(handled, handled')
        BY <3>6, <4>2 DEF Promise!IsStrictPrefix
      <4>4. Promise!Hear
        BY <2>1, <4>1, <4>2, <4>3 DEF Promise!Hear
      <4> QED BY <4>4 DEF Promise!Next
    <3> QED BY <3>5, <3>6
  <2> QED BY <2>2, <2>3
<1>4. CASE Full
  BY <1>4 DEF Full
<1>5. CASE Reconnect
  BY <1>5 DEF Reconnect, Promise!Next, Promise!Connect
<1>6. CASE UNCHANGED vars
  BY <1>6 DEF vars
<1> QED BY <1>1, <1>2, <1>3, <1>4, <1>5, <1>6 DEF Next

(* The handlers are given the lines of a connection whole, once and in the *)
(* order they were said, however TCP cuts them and whatever the size of    *)
(* the buffer: every step of irc_input_dispatch hears some of the lines    *)
(* that come next, or none (pork_irc_input.c).                             *)
THEOREM LinesAsTheyWereSaid == Spec => ImplementsLineStream
<1>1. Init => Promise!Init
  BY DEF Init, Promise!Init
<1>2. InInv /\ InInv' /\ [Next]_vars => [Promise!Next]_<<said, handled, ~spoiled>>
  BY StepImplements
<1> QED BY <1>1, <1>2, InAlways, PTL DEF Spec, ImplementsLineStream, Promise!Spec

(* What was read and not handled always leaves room for the '\0', for a    *)
(* buffer of any size (sock_read of pork_inet.c).                          *)
THEOREM BufferFits == Spec => [](input_buf \in Seq(Frees) /\ Len(input_buf) < BufLen)
<1>1. InInv => input_buf \in Seq(Frees) /\ Len(input_buf) < BufLen
  BY DEF InInv, Types
<1> QED BY <1>1, InAlways, PTL
=============================================================================
