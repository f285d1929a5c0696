--------------------------- MODULE PorkAcct_proofs ---------------------------
(***************************************************************************)
(* Theorems of PorkAcct, for any number of descriptors, any settings of    *)
(* the account and any way it is used.                                     *)
(***************************************************************************)
EXTENDS PorkAcct, TLAPS

Uses3 == {"closed", "ours", "other"}

St == [a : Acct, open : [Fds -> Uses3], harm : SUBSET {"pointer", "descriptor"}]

(* The seconds to wait are between none and MaxInterval.                   *)
LEMMA WaitBounds ==
    ASSUME NEW a \in Acct
    PROVE  /\ Wait(a) \in 0 .. MaxInterval
           /\ Wait(a) = Lower(a.tries * Interval, MaxInterval)
<1>1. a.tries \in Nat /\ Interval \in Nat /\ MaxInterval \in Nat
  BY NumbersAssumption DEF Acct
<1>2. a.tries * Interval \in Nat
  BY <1>1
<1> QED BY <1>1, <1>2 DEF Wait, Lower

LEMMA WithAcct ==
    ASSUME NEW s \in St, NEW v \in Acct
    PROVE  LET r == [s EXCEPT !.a = v] IN
           r \in St /\ r.a = v /\ r.open = s.open /\ r.harm = s.harm
BY DEF St

LEMMA GoneTyped == Gone \in Acct
BY NumbersAssumption DEF Gone, Acct, None

(* What each operator changes of a state.                                  *)
LEMMA SendEffect ==
    ASSUME NEW s \in St
    PROVE  /\ Send(s) \in St /\ Send(s).a = s.a /\ Send(s).open = s.open
           /\ "descriptor" \in Send(s).harm <=> "descriptor" \in s.harm
           /\ s.a.transport \in {"clear", "ssl"} => Send(s).harm = s.harm
BY DEF Send, Harm, St

LEMMA FreeSslEffect ==
    ASSUME NEW s \in St
    PROVE  /\ FreeSsl(s) \in St /\ FreeSsl(s).open = s.open
           /\ FreeSsl(s).a = [s.a EXCEPT !.transport = IF s.a.ssl THEN "freed" ELSE @]
           /\ "descriptor" \in FreeSsl(s).harm <=> "descriptor" \in s.harm
           /\ ~s.a.ssl => FreeSsl(s).harm = s.harm
BY DEF FreeSsl, Harm, St, Acct

LEMMA CloseEffect ==
    ASSUME NEW s \in St, NEW fd \in Fds \cup {None}
    PROVE  /\ Close(s, fd) \in St /\ Close(s, fd).a = s.a
           /\ \A f \in Fds : Close(s, fd).open[f] = IF f = fd THEN "closed" ELSE s.open[f]
           /\ "pointer" \in Close(s, fd).harm <=> "pointer" \in s.harm
           /\ "descriptor" \in Close(s, fd).harm
                 <=> "descriptor" \in s.harm \/ (fd \in Fds /\ s.open[fd] = "other")
           /\ fd = None \/ s.open[fd] # "other" => Close(s, fd).harm = s.harm
BY FdsAssumption DEF Close, Harm, St, Uses3

LEMMA DelEffect ==
    ASSUME NEW s \in St
    PROVE  /\ Del(s) \in St /\ Del(s).a = Gone /\ Del(s).open = s.open
           /\ "descriptor" \in Del(s).harm <=> "descriptor" \in s.harm
           /\ /\ s.a.connected => s.a.transport \in {"clear", "ssl"}
              /\ ~s.a.chats /\ ~s.a.ssl
              => Del(s).harm = s.harm
<1> DEFINE quit  == IF s.a.connected THEN Send(s) ELSE s
           leave == IF s.a.chats THEN Send(quit) ELSE quit
<1>1. /\ quit \in St /\ quit.a = s.a /\ quit.open = s.open
      /\ "descriptor" \in quit.harm <=> "descriptor" \in s.harm
      /\ (s.a.connected => s.a.transport \in {"clear", "ssl"}) => quit.harm = s.harm
  BY SendEffect
<1>2. /\ leave \in St /\ leave.a = s.a /\ leave.open = s.open
      /\ "descriptor" \in leave.harm <=> "descriptor" \in s.harm
      /\ (s.a.connected => s.a.transport \in {"clear", "ssl"}) /\ ~s.a.chats => leave.harm = s.harm
  <2> HIDE DEF quit
  <2> QED BY <1>1, SendEffect
<1>3. Del(s) = [FreeSsl(leave) EXCEPT !.a = Gone]
  BY DEF Del, Free
<1>4. /\ FreeSsl(leave) \in St /\ FreeSsl(leave).open = leave.open
      /\ "descriptor" \in FreeSsl(leave).harm <=> "descriptor" \in leave.harm
      /\ ~leave.a.ssl => FreeSsl(leave).harm = leave.harm
  <2> HIDE DEF leave
  <2> QED BY <1>2, FreeSslEffect
<1>5. /\ Del(s) \in St /\ Del(s).a = Gone /\ Del(s).open = FreeSsl(leave).open
      /\ Del(s).harm = FreeSsl(leave).harm
  <2> HIDE DEF leave
  <2> QED BY <1>3, <1>4, GoneTyped DEF St
<1> HIDE DEF leave, quit
<1> QED BY <1>2, <1>4, <1>5

-----------------------------------------------------------------------------
(* An account about which nothing is under way, after its source was taken *)
(* out of io_list or before it is put there.                               *)
Idle(s) == s \in St /\ s.a.src = "none" /\ s.a.fd = None /\ s.a.on

(* What an attempt leaves alone.                                           *)
SameFlags(b, a) ==
    /\ b.on = a.on /\ b.connected = a.connected /\ b.disconnected = a.disconnected
    /\ b.reconnecting = a.reconnecting /\ b.successful = a.successful
    /\ b.tries = a.tries /\ b.next_try = a.next_try /\ b.chats = a.chats
    /\ b.attempts = a.attempts /\ b.aborts = a.aborts /\ b.waited = a.waited

(* No other's descriptor is closed, and nothing written that is not there. *)
SameHarm(r, s) ==
    /\ "descriptor" \in r.harm <=> "descriptor" \in s.harm
    /\ ~s.a.chats /\ ~s.a.ssl => r.harm = s.harm

(* An attempt that failed: the account is gone or waits for the next.      *)
Waits(r, s) ==
    /\ s.a.tries < MaxTries
    /\ r.a.on = s.a.on /\ ~r.a.connected /\ r.a.disconnected /\ ~r.a.reconnecting
    /\ r.a.successful = s.a.successful /\ r.a.tries = s.a.tries
    /\ r.a.next_try = Wait(s.a) /\ r.a.waited = 0
    /\ r.a.chats = s.a.chats /\ r.a.src = s.a.src /\ r.a.fd = s.a.fd
    /\ r.a.sock = s.a.sock /\ r.a.ssl = s.a.ssl /\ r.a.attempts = s.a.attempts
    /\ r.a.aborts = s.a.aborts

Fails(r, s) == r \in St /\ r.open = s.open /\ SameHarm(r, s) /\ (r.a = Gone \/ Waits(r, s))

LEMMA ConnectFailEffect ==
    ASSUME NEW s \in St
    PROVE  Fails(ConnectFail(s), s)
<1> DEFINE t == [s EXCEPT !.a.connected = FALSE, !.a.reconnecting = FALSE,
                          !.a.disconnected = TRUE]
           w == [t EXCEPT !.a.next_try = Wait(t.a), !.a.waited = 0]
<1>1. /\ t \in St /\ t.open = s.open /\ t.harm = s.harm
      /\ ~t.a.connected /\ ~t.a.reconnecting /\ t.a.disconnected
      /\ t.a.on = s.a.on /\ t.a.successful = s.a.successful /\ t.a.tries = s.a.tries
      /\ t.a.chats = s.a.chats /\ t.a.src = s.a.src /\ t.a.fd = s.a.fd
      /\ t.a.sock = s.a.sock /\ t.a.ssl = s.a.ssl /\ t.a.attempts = s.a.attempts
      /\ t.a.aborts = s.a.aborts
  BY DEF St, Acct
<1>2. ConnectFail(s) = IF GivesUp(t.a) THEN Del(t) ELSE w
  BY DEF ConnectFail
<1> HIDE DEF t
<1>3. CASE GivesUp(t.a)
  BY <1>1, <1>2, <1>3, DelEffect DEF Fails, SameHarm
<1>4. CASE ~GivesUp(t.a)
  <2>1. s.a.tries < MaxTries
    BY <1>1, <1>4, NumbersAssumption DEF GivesUp, St, Acct
  <2>2. Wait(t.a) \in 0 .. MaxInterval /\ Wait(t.a) = Wait(s.a)
    BY <1>1, WaitBounds DEF St, Wait
  <2>3. Wait(t.a) \in -(Timeout + 1) .. MaxInterval /\ 0 \in 0 .. MaxInterval
    BY <2>2, NumbersAssumption
  <2> DEFINE n == Wait(t.a)
  <2> HIDE DEF n
  <2>4. /\ w.a \in Acct /\ w \in St /\ w.open = t.open /\ w.harm = t.harm
        /\ w.a.next_try = n /\ w.a.waited = 0
    BY <1>1, <2>3 DEF n, St, Acct
  <2>5. /\ w.a.on = t.a.on /\ w.a.connected = t.a.connected
        /\ w.a.disconnected = t.a.disconnected /\ w.a.reconnecting = t.a.reconnecting
        /\ w.a.successful = t.a.successful /\ w.a.tries = t.a.tries
        /\ w.a.chats = t.a.chats /\ w.a.src = t.a.src /\ w.a.fd = t.a.fd
        /\ w.a.sock = t.a.sock /\ w.a.ssl = t.a.ssl /\ w.a.attempts = t.a.attempts
        /\ w.a.aborts = t.a.aborts
    BY <1>1 DEF St, Acct
  <2> HIDE DEF w
  <2> QED BY <1>1, <1>2, <1>4, <2>1, <2>2, <2>4, <2>5 DEF n, Fails, Waits, SameHarm
<1> QED BY <1>3, <1>4

(* pork_acct_disconnected of an account that was not connected.            *)
LEMMA LostAttemptEffect ==
    ASSUME NEW s \in St, ~s.a.connected, NEW r \in LostAttempt(s)
    PROVE  Fails(r, s) /\ (r.a = Gone \/ s.a.successful)
<1>1. CASE r = Del(s)
  BY <1>1, DelEffect DEF Fails, SameHarm
<1>2. CASE r = ConnectFail(s) /\ Keeps(s)
  BY <1>2, ConnectFailEffect DEF Keeps
<1> QED BY <1>1, <1>2 DEF LostAttempt, Given

-----------------------------------------------------------------------------
(* The connection is there: its descriptor is sock, and the account has a  *)
(* source and something to write through, unless SSL failed.               *)
Up(r, s, fd) ==
    /\ r \in St /\ SameFlags(r.a, s.a) /\ r.harm = s.harm /\ r.a.sock = fd
    /\ r.a.src = "event" /\ r.a.fd = fd /\ r.a.transport \in {"clear", "ssl"}
    /\ r.open = s.open

NoSsl(r, s, fd) ==
    /\ r \in St /\ SameFlags(r.a, s.a) /\ r.harm = s.harm /\ r.a.sock = fd
    /\ r.a.src = "none" /\ r.a.fd = None /\ r.a.ssl = s.a.ssl

LEMMA EstablishedEffect ==
    ASSUME NEW s \in St, NEW fd \in Fds, NEW ssl \in BOOLEAN, s.open[fd] = "ours",
           NEW r \in Established(s, fd, ssl)
    PROVE  \/ Up(r, s, fd) /\ (r.a.ssl => ssl)
           \/ ssl /\ NoSsl(r, s, fd)
<1> DEFINE t == [s EXCEPT !.a.src = "none", !.a.fd = None, !.a.sock = fd]
           w(kind, b) == [t EXCEPT !.a.src = "event", !.a.fd = fd,
                                   !.a.ssl = b, !.a.transport = kind]
           e(kind) == w(kind, kind = "ssl")
<1>1. /\ t \in St /\ t.open = s.open /\ t.harm = s.harm /\ SameFlags(t.a, s.a)
      /\ t.a.src = "none" /\ t.a.fd = None /\ t.a.sock = fd /\ t.a.ssl = s.a.ssl
  BY DEF St, Acct, SameFlags
<1>2. ASSUME NEW kind \in {"clear", "ssl"}
      PROVE  Up(Send(e(kind)), s, fd) /\ (Send(e(kind)).a.ssl => kind = "ssl")
  <2>1. /\ e(kind) \in St /\ e(kind).open = t.open /\ e(kind).harm = t.harm
        /\ SameFlags(e(kind).a, t.a) /\ e(kind).a.src = "event" /\ e(kind).a.fd = fd
        /\ e(kind).a.sock = fd /\ e(kind).a.ssl = (kind = "ssl") /\ e(kind).a.transport = kind
    <3> HIDE DEF t
    <3> DEFINE b == kind = "ssl"
    <3>1. b \in BOOLEAN
      OBVIOUS
    <3> HIDE DEF b
    <3>2. /\ w(kind, b) \in St /\ w(kind, b).open = t.open /\ w(kind, b).harm = t.harm
          /\ SameFlags(w(kind, b).a, t.a) /\ w(kind, b).a.src = "event"
          /\ w(kind, b).a.fd = fd /\ w(kind, b).a.sock = fd /\ w(kind, b).a.ssl = b
          /\ w(kind, b).a.transport = kind
      <4> DEFINE x == [t.a EXCEPT !.src = "event", !.fd = fd]
                 y == [x EXCEPT !.ssl = b, !.transport = kind]
      <4>1. /\ x \in Acct /\ SameFlags(x, t.a) /\ x.src = "event" /\ x.fd = fd
            /\ x.sock = t.a.sock
        <5>1. t.a \in Acct
          BY <1>1 DEF St
        <5>2. x \in Acct
          BY <5>1 DEF Acct
        <5> QED BY <5>1, <5>2 DEF Acct, SameFlags
      <4> HIDE DEF x
      <4>2. y \in Acct
        BY <3>1, <4>1 DEF Acct
      <4>3. y.src = "event" /\ y.fd = fd /\ y.sock = x.sock /\ y.ssl = b /\ y.transport = kind
        BY <4>1 DEF Acct
      <4>4. SameFlags(y, x)
        BY <4>1 DEF Acct, SameFlags
      <4>5. w(kind, b) = [t EXCEPT !.a = y]
        BY DEF x
      <4> HIDE DEF w, y
      <4>6. /\ w(kind, b) \in St /\ w(kind, b).a = y /\ w(kind, b).open = t.open
            /\ w(kind, b).harm = t.harm
        BY <1>1, <4>2, <4>5, WithAcct
      <4>7. SameFlags(y, t.a)
        BY <4>1, <4>4 DEF SameFlags
      <4> QED BY <1>1, <4>1, <4>3, <4>6, <4>7
    <3> HIDE DEF w
    <3> QED BY <3>2 DEF b
  <2> DEFINE x == e(kind)
  <2>2. /\ Send(x) \in St /\ Send(x).a = x.a /\ Send(x).open = x.open
        /\ Send(x).harm = x.harm
    <3> HIDE DEF e, w
    <3> QED BY <2>1, SendEffect
  <2> HIDE DEF e, w, t
  <2> QED BY <1>1, <2>1, <2>2 DEF Up, SameFlags
<1>3. NoSsl(Close(t, fd), s, fd)
  <2> HIDE DEF t
  <2>1. /\ Close(t, fd) \in St /\ Close(t, fd).a = t.a
        /\ Close(t, fd).harm = t.harm
    BY <1>1, CloseEffect
  <2> QED BY <1>1, <2>1 DEF NoSsl
<1>4. r \in IF ssl THEN {Send(e("ssl")), Close(t, fd)} ELSE {Send(e("clear"))}
  BY DEF Established
<1> HIDE DEF t, w, e
<1>5. CASE r = Close(t, fd) /\ ssl
  BY <1>3, <1>5
<1>6. CASE r = Send(e("ssl")) /\ ssl
  BY <1>2, <1>6
<1>7. CASE r = Send(e("clear")) /\ ~ssl
  BY <1>2, <1>7
<1> QED BY <1>4, <1>5, <1>6, <1>7

(* The connection was refused: its descriptor is closed, and the attempt   *)
(* has failed.                                                             *)
Refuses(r, s, fd) ==
    /\ r \in St /\ SameHarm(r, s)
    /\ \A f \in Fds : f # fd => r.open[f] = s.open[f]
    /\ \/ r.a = Gone
       \/ /\ s.a.successful /\ s.a.tries < MaxTries
          /\ r.a.on = s.a.on /\ ~r.a.connected /\ r.a.disconnected /\ ~r.a.reconnecting
          /\ r.a.successful /\ r.a.tries = s.a.tries
          /\ r.a.next_try = Wait(s.a) /\ r.a.waited = 0
          /\ r.a.chats = s.a.chats /\ r.a.src = "none" /\ r.a.fd = None
          /\ r.a.sock = s.a.sock /\ r.a.ssl = s.a.ssl /\ r.a.attempts = s.a.attempts
          /\ r.a.aborts = s.a.aborts

LEMMA RefusedEffect ==
    ASSUME NEW s \in St, ~s.a.connected, NEW fd \in Fds, s.open[fd] = "ours",
           NEW r \in Refused(s, fd)
    PROVE  Refuses(r, s, fd)
<1> DEFINE t == [s EXCEPT !.a.src = "none", !.a.fd = None]
           c == Close(t, fd)
<1>1. /\ t \in St /\ t.open = s.open /\ t.harm = s.harm /\ SameFlags(t.a, s.a)
      /\ t.a.src = "none" /\ t.a.fd = None /\ t.a.sock = s.a.sock /\ t.a.ssl = s.a.ssl
  BY DEF St, Acct, SameFlags
<1>2. /\ c \in St /\ c.a = t.a /\ c.harm = t.harm
      /\ \A f \in Fds : f # fd => c.open[f] = t.open[f]
  <2> HIDE DEF t
  <2> QED BY <1>1, CloseEffect
<1>3. r \in LostAttempt(c)
  BY DEF Refused
<1> HIDE DEF t, c
<1>4. ~c.a.connected
  BY <1>1, <1>2 DEF SameFlags
<1>5. Fails(r, c) /\ (r.a = Gone \/ c.a.successful)
  BY <1>2, <1>3, <1>4, LostAttemptEffect
<1>6. Wait(c.a) = Wait(s.a)
  BY <1>1, <1>2 DEF Wait, SameFlags
<1>7. SameHarm(r, s)
  BY <1>1, <1>2, <1>5 DEF Fails, SameHarm, SameFlags
<1>8. CASE r.a = Gone
  BY <1>1, <1>2, <1>5, <1>7, <1>8 DEF Fails, Refuses
<1>9. CASE Waits(r, c) /\ c.a.successful
  BY <1>1, <1>2, <1>5, <1>6, <1>7, <1>9 DEF Fails, Refuses, Waits, SameFlags
<1> QED BY <1>5, <1>8, <1>9 DEF Fails

-----------------------------------------------------------------------------
(* irc_connect: under way, there at once, or refused at once.              *)
Attempted(r, s, fd) ==
    /\ r \in St /\ SameHarm(r, s)
    /\ \A f \in Fds : f # fd => r.open[f] = s.open[f]
    /\ \/ /\ SameFlags(r.a, s.a) /\ r.open[fd] = "ours" /\ r.a.fd = fd
          /\ r.a.src = "connected" /\ r.a.sock = s.a.sock /\ r.a.ssl = s.a.ssl
       \/ /\ SameFlags(r.a, s.a) /\ r.open[fd] = "ours" /\ r.a.fd = fd
          /\ r.a.src = "event" /\ r.a.sock = fd /\ ~r.a.ssl
          /\ r.a.transport \in {"clear", "ssl"}
       \/ Refuses(r, s, fd)

LEMMA StartedEffect ==
    ASSUME NEW s \in St, ~s.a.connected, NEW r \in Started(s), r # s
    PROVE  \E fd \in Fds : s.open[fd] = "closed" /\ Attempted(r, s, fd)
<1> DEFINE T(fd) == [s EXCEPT !.open[fd] = "ours"]
           u(fd) == [T(fd) EXCEPT !.a.src = "connected", !.a.fd = fd]
<1>1. PICK fd \in Fds : /\ s.open[fd] = "closed"
                        /\ r \in {u(fd)} \cup Established(T(fd), fd, FALSE)
                                         \cup Refused(T(fd), fd)
  BY DEF Started
<1>2. /\ T(fd) \in St /\ T(fd).a = s.a /\ T(fd).harm = s.harm
      /\ T(fd).open[fd] = "ours" /\ \A f \in Fds : f # fd => T(fd).open[f] = s.open[f]
  BY DEF St, Uses3
<1> DEFINE t == T(fd)
<1>3. CASE r = u(fd)
  <2>1. u(fd) = [t EXCEPT !.a.src = "connected", !.a.fd = fd]
    OBVIOUS
  <2>2. t \in St
    BY <1>2
  <2> HIDE DEF T, u, t
  <2> DEFINE v == [t.a EXCEPT !.src = "connected", !.fd = fd]
  <2>6. t.a \in Acct /\ v \in Acct
    BY <1>1, <2>2 DEF St, Acct
  <2>7. /\ SameFlags(v, t.a) /\ v.src = "connected" /\ v.fd = fd
        /\ v.sock = t.a.sock /\ v.ssl = t.a.ssl
    BY <1>1, <2>6 DEF Acct, SameFlags
  <2>8. u(fd).a = v /\ u(fd).open = t.open /\ u(fd).harm = t.harm /\ u(fd) \in St
    BY <2>1, <2>2, <2>6 DEF St
  <2>3. /\ u(fd) \in St /\ u(fd).open = t.open /\ u(fd).harm = t.harm
        /\ SameFlags(u(fd).a, t.a) /\ u(fd).a.src = "connected" /\ u(fd).a.fd = fd
        /\ u(fd).a.sock = t.a.sock /\ u(fd).a.ssl = t.a.ssl
    BY <2>7, <2>8
  <2>4. /\ t.a = s.a /\ t.harm = s.harm /\ t.open[fd] = "ours"
        /\ \A f \in Fds : f # fd => t.open[f] = s.open[f]
    BY <1>2 DEF t
  <2>5. Attempted(u(fd), s, fd)
    BY <2>3, <2>4 DEF Attempted, SameHarm
  <2> QED BY <1>1, <1>3, <2>5
<1>4. CASE r \in Established(t, fd, FALSE)
  <2> HIDE DEF T
  <2>1. t \in St /\ t.open[fd] = "ours"
    BY <1>2
  <2> HIDE DEF t
  <2>2. Up(r, t, fd) /\ ~r.a.ssl
    BY <1>4, <2>1, EstablishedEffect
  <2>3. Attempted(r, s, fd)
    BY <1>2, <2>2 DEF t, Up, Attempted, SameHarm, SameFlags
  <2> QED BY <1>1, <2>3
<1>5. CASE r \in Refused(t, fd)
  <2> HIDE DEF T
  <2>1. t \in St /\ t.open[fd] = "ours" /\ ~t.a.connected
    BY <1>2
  <2> HIDE DEF t
  <2>2. Refuses(r, t, fd)
    BY <1>5, <2>1, RefusedEffect
  <2>3. Refuses(r, s, fd)
    BY <1>2, <2>2 DEF t, Refuses, SameHarm
  <2>4. Attempted(r, s, fd)
    BY <2>3 DEF Attempted, Refuses
  <2> QED BY <1>1, <2>4
<1> QED BY <1>1, <1>3, <1>4, <1>5

(* The account as pork_acct_reconnect marks it before it connects.         *)
Marked(s) == [s EXCEPT !.a.tries = @ + 1, !.a.reconnecting = TRUE,
                       !.a.attempts = @ + 1]

LEMMA MarkedEffect ==
    ASSUME NEW s \in St
    PROVE  /\ Marked(s) \in St /\ Marked(s).open = s.open /\ Marked(s).harm = s.harm
           /\ LET b == Marked(s).a  a == s.a IN
              /\ b.reconnecting /\ b.tries = a.tries + 1 /\ b.attempts = a.attempts + 1
              /\ b.on = a.on /\ b.connected = a.connected /\ b.disconnected = a.disconnected
              /\ b.successful = a.successful /\ b.next_try = a.next_try
              /\ b.chats = a.chats /\ b.aborts = a.aborts /\ b.waited = a.waited
              /\ b.src = a.src /\ b.fd = a.fd /\ b.sock = a.sock /\ b.ssl = a.ssl
              /\ b.transport = a.transport
<1> DEFINE m == s.a.tries + 1
           n == s.a.attempts + 1
<1>1. m \in Nat /\ n \in Nat
  BY DEF St, Acct
<1>2. Marked(s) = [s EXCEPT !.a.tries = m, !.a.reconnecting = TRUE, !.a.attempts = n]
  BY DEF Marked
<1> HIDE DEF m, n
<1> DEFINE v == [s.a EXCEPT !.tries = m, !.reconnecting = TRUE, !.attempts = n]
<1>3. s.a \in Acct /\ v \in Acct
  BY <1>1 DEF St, Acct
<1>4. /\ v.reconnecting /\ v.tries = m /\ v.attempts = n
      /\ v.on = s.a.on /\ v.connected = s.a.connected /\ v.disconnected = s.a.disconnected
      /\ v.successful = s.a.successful /\ v.next_try = s.a.next_try
      /\ v.chats = s.a.chats /\ v.aborts = s.a.aborts /\ v.waited = s.a.waited
      /\ v.src = s.a.src /\ v.fd = s.a.fd /\ v.sock = s.a.sock /\ v.ssl = s.a.ssl
      /\ v.transport = s.a.transport
  BY <1>3 DEF Acct
<1>5. /\ Marked(s).a = v /\ Marked(s).open = s.open /\ Marked(s).harm = s.harm
      /\ Marked(s) \in St
  BY <1>2, <1>3 DEF St
<1> HIDE DEF v
<1> QED BY <1>4, <1>5 DEF m, n

LEMMA ReconnectEffect ==
    ASSUME NEW s \in St, NEW r \in Reconnect(s),
           ~s.a.connected, s.a.disconnected, ~s.a.reconnecting
    PROVE  \/ r = Marked(s)
           \/ \E fd \in Fds : s.open[fd] = "closed" /\ Attempted(r, Marked(s), fd)
<1>1. r \in Started(Marked(s))
  BY DEF Reconnect, Marked
<1>2. Marked(s) \in St /\ ~Marked(s).a.connected /\ Marked(s).open = s.open
  BY MarkedEffect
<1> QED BY <1>1, <1>2, StartedEffect

(* The account as pork_acct_disconnected leaves it before it reconnects.   *)
Reset(s) == [s EXCEPT !.a.connected = FALSE, !.a.reconnecting = FALSE,
                      !.a.tries = 0, !.a.disconnected = TRUE,
                      !.a.next_try = 0, !.a.attempts = 0]

LEMMA ResetEffect ==
    ASSUME NEW s \in St
    PROVE  /\ Reset(s) \in St /\ Reset(s).open = s.open /\ Reset(s).harm = s.harm
           /\ LET b == Reset(s).a  a == s.a IN
              /\ ~b.reconnecting /\ b.tries = 0 /\ b.attempts = 0 /\ b.next_try = 0
              /\ b.on = a.on /\ ~b.connected /\ b.disconnected
              /\ b.successful = a.successful
              /\ b.chats = a.chats /\ b.aborts = a.aborts /\ b.waited = a.waited
              /\ b.src = a.src /\ b.fd = a.fd /\ b.sock = a.sock /\ b.ssl = a.ssl
              /\ b.transport = a.transport
<1> DEFINE x == [s.a EXCEPT !.connected = FALSE, !.reconnecting = FALSE, !.tries = 0]
           y == [x EXCEPT !.disconnected = TRUE, !.next_try = 0, !.attempts = 0]
<1>1. 0 \in -(Timeout + 1) .. MaxInterval
  BY NumbersAssumption
<1>2. s.a \in Acct
  BY DEF St
<1>3. /\ x \in Acct /\ ~x.reconnecting /\ x.tries = 0 /\ ~x.connected
      /\ LET a == s.a IN
         /\ x.on = a.on /\ x.successful = a.successful
         /\ x.chats = a.chats /\ x.aborts = a.aborts /\ x.waited = a.waited
         /\ x.src = a.src /\ x.fd = a.fd /\ x.sock = a.sock /\ x.ssl = a.ssl
         /\ x.transport = a.transport
  BY <1>2 DEF Acct
<1>4. Reset(s) = [s EXCEPT !.a = y]
  BY DEF Reset
<1> HIDE DEF x
<1>5. y \in Acct
  <2>1. ASSUME NEW k \in -(Timeout + 1) .. MaxInterval, NEW m \in Nat
        PROVE  [x EXCEPT !.disconnected = TRUE, !.next_try = k, !.attempts = m] \in Acct
    <3> DEFINE z == [x EXCEPT !.disconnected = TRUE]
    <3>1. x \in Acct
      BY <1>3
    <3>2. z \in Acct
      BY <3>1 DEF Acct
    <3> HIDE DEF z
    <3>3. [z EXCEPT !.next_try = k, !.attempts = m] \in Acct
      BY <3>2 DEF Acct
    <3> QED BY <3>3 DEF z
  <2>2. 0 \in Nat
    OBVIOUS
  <2> QED BY Zenon, <1>1, <2>1, <2>2
<1>6. /\ ~y.reconnecting /\ y.tries = 0 /\ y.attempts = 0 /\ y.next_try = 0
      /\ y.on = x.on /\ ~y.connected /\ y.disconnected /\ y.successful = x.successful
      /\ y.chats = x.chats /\ y.aborts = x.aborts /\ y.waited = x.waited
      /\ y.src = x.src /\ y.fd = x.fd /\ y.sock = x.sock /\ y.ssl = x.ssl
      /\ y.transport = x.transport
  BY <1>3 DEF Acct
<1> HIDE DEF y
<1>7. /\ Reset(s) \in St /\ Reset(s).a = y /\ Reset(s).open = s.open /\ Reset(s).harm = s.harm
  BY <1>4, <1>5, WithAcct
<1> QED BY <1>3, <1>6, <1>7

LEMMA LostEffect ==
    ASSUME NEW s \in St, NEW r \in Lost(s)
    PROVE  \/ r = Del(s) /\ ~(s.a.successful /\ AutoReconnect /\ ~Scripts)
           \/ /\ s.a.successful
              /\ \/ r = Marked(Reset(s))
                 \/ \E fd \in Fds : /\ s.open[fd] = "closed"
                                    /\ Attempted(r, Marked(Reset(s)), fd)
<1>1. \/ r = Del(s) /\ ~(Keeps(s) /\ ~Scripts)
      \/ Keeps(s) /\ r \in Reconnect(Reset(s))
  BY DEF Lost, Given, Reset
<1>2. CASE r = Del(s) /\ ~(Keeps(s) /\ ~Scripts)
  BY <1>2 DEF Keeps
<1>3. CASE Keeps(s) /\ r \in Reconnect(Reset(s))
  BY <1>3, ResetEffect, ReconnectEffect DEF Keeps
<1> QED BY <1>1, <1>2, <1>3

LEMMA DroppedEffect ==
    ASSUME NEW s \in St
    PROVE  /\ Dropped(s) \in St /\ Dropped(s).open = s.open /\ Dropped(s).harm = s.harm
           /\ SameFlags(Dropped(s).a, s.a) /\ Dropped(s).a.src = "none"
           /\ Dropped(s).a.fd = None /\ Dropped(s).a.sock = s.a.sock
           /\ ~Dropped(s).a.ssl /\ Dropped(s).a.transport = "null"
BY DEF Dropped, St, Acct, SameFlags

LEMMA AbortEffect ==
    ASSUME NEW s \in St
    PROVE  LET r == Abort(s) IN
           /\ r \in St
           /\ \A f \in Fds : r.open[f] = IF f = s.a.sock THEN "closed" ELSE s.open[f]
           /\ r.a.src = "none" /\ r.a.fd = None /\ r.a.sock = s.a.sock /\ r.a.ssl = s.a.ssl
           /\ r.a.aborts >= 1
           /\ r.a.on = s.a.on /\ r.a.connected = s.a.connected
           /\ r.a.disconnected = s.a.disconnected
           /\ r.a.reconnecting = s.a.reconnecting /\ r.a.successful = s.a.successful
           /\ r.a.tries = s.a.tries /\ r.a.next_try = s.a.next_try
           /\ r.a.chats = s.a.chats /\ r.a.attempts = s.a.attempts
           /\ ~s.a.ssl => ("pointer" \in r.harm <=> "pointer" \in s.harm)
           /\ "descriptor" \in r.harm
                 <=> "descriptor" \in s.harm
                     \/ (s.a.sock \in Fds /\ s.open[s.a.sock] = "other")
<1> DEFINE f == FreeSsl(s)
           c == Close(f, s.a.sock)
<1>1. /\ f \in St /\ f.open = s.open
      /\ f.a = [s.a EXCEPT !.transport = IF s.a.ssl THEN "freed" ELSE @]
      /\ "descriptor" \in f.harm <=> "descriptor" \in s.harm
      /\ ~s.a.ssl => f.harm = s.harm
  BY FreeSslEffect
<1>2. s.a.sock \in Fds \cup {None}
  BY DEF St, Acct
<1> HIDE DEF f
<1>3. /\ c \in St /\ c.a = f.a
      /\ \A g \in Fds : c.open[g] = IF g = s.a.sock THEN "closed" ELSE f.open[g]
      /\ "pointer" \in c.harm <=> "pointer" \in f.harm
      /\ "descriptor" \in c.harm
            <=> "descriptor" \in f.harm \/ (s.a.sock \in Fds /\ f.open[s.a.sock] = "other")
  BY <1>1, <1>2, CloseEffect
<1>30. s.a \in Acct
  BY DEF St
<1>4. /\ SameFlags(f.a, s.a) /\ f.a.sock = s.a.sock /\ f.a.ssl = s.a.ssl
  <2> DEFINE k == IF s.a.ssl THEN "freed" ELSE s.a.transport
  <2>1. f.a = [s.a EXCEPT !.transport = k]
    BY <1>1
  <2> HIDE DEF k
  <2> QED BY <1>30, <2>1 DEF Acct, SameFlags
<1>5. Abort(s) = [c EXCEPT !.a.src = "none", !.a.fd = None, !.a.aborts = Lower(@ + 1, 2)]
  BY DEF Abort, f
<1> HIDE DEF c
<1>6. /\ c.a \in Acct /\ c.a.aborts \in 0 .. 2
      /\ Lower(c.a.aborts + 1, 2) \in 0 .. 2 /\ Lower(c.a.aborts + 1, 2) >= 1
  BY <1>3 DEF St, Acct, Lower
<1> DEFINE n == Lower(c.a.aborts + 1, 2)
<1>7. Abort(s) = [c EXCEPT !.a.src = "none", !.a.fd = None, !.a.aborts = n]
  BY <1>3, <1>5, <1>6 DEF St, Acct
<1>9. n \in 0 .. 2
  BY <1>6
<1> HIDE DEF n
<1> DEFINE v == [c.a EXCEPT !.src = "none", !.fd = None, !.aborts = n]
<1>8. v \in Acct
  BY <1>6, <1>9 DEF Acct
<1>10. /\ v.src = "none" /\ v.fd = None /\ v.sock = c.a.sock /\ v.ssl = c.a.ssl
       /\ v.aborts = n
       /\ v.on = c.a.on /\ v.connected = c.a.connected /\ v.disconnected = c.a.disconnected
       /\ v.reconnecting = c.a.reconnecting /\ v.successful = c.a.successful
       /\ v.tries = c.a.tries /\ v.next_try = c.a.next_try
       /\ v.chats = c.a.chats /\ v.attempts = c.a.attempts
  BY <1>6 DEF Acct
<1>11. Abort(s).a = v /\ Abort(s).open = c.open /\ Abort(s).harm = c.harm /\ Abort(s) \in St
  BY <1>3, <1>7, <1>8 DEF St
<1> HIDE DEF v
<1> QED BY <1>1, <1>3, <1>4, <1>6, <1>8, <1>10, <1>11 DEF n, SameFlags

-----------------------------------------------------------------------------
(* The inductive invariant.  The flags of the account: an account that is  *)
(* online has its source, one that waits has none and an attempt left, and *)
(* what next_try lacks of the whole wait has passed.                       *)
Known(a) ==
    /\ ~a.on => a = Gone
    /\ a.connected => /\ a.src = "event" /\ ~a.disconnected /\ ~a.reconnecting
                      /\ a.successful
    /\ a.disconnected /\ ~a.reconnecting =>
          /\ a.src = "none" /\ a.tries < MaxTries
          /\ Wait(a) - a.next_try <= a.waited \/ a.waited = MaxInterval
    /\ a.reconnecting => a.disconnected
    /\ a.disconnected => a.successful
    /\ a.successful => a.connected \/ a.disconnected
    /\ ~a.disconnected => a.tries = 0

(* What sock is: the descriptor of the source when there is one, else the  *)
(* one that irc_event left open, if nothing has been aborted since.        *)
KeptOpen(s) ==
    ~Ssl /\ s.a.aborts = 0 /\ s.a.sock # None => s.open[s.a.sock] = "ours"

(* Without the ways to use it, and as long as an account that loses its    *)
(* connection is not deleted at once, nothing is written that is not there. *)
Bare == use = {} /\ AutoReconnect

Plain(s) == Bare => "pointer" \notin s.harm /\ ~s.a.ssl /\ ~s.a.chats

Owned(s) ==
    /\ s.a.src # "none" => s.a.fd \in Fds /\ s.open[s.a.fd] = "ours"
    /\ s.a.src = "event" => s.a.sock = s.a.fd /\ s.a.transport \in {"clear", "ssl"}
    /\ ~Ssl /\ s.a.aborts = 0 /\ s.a.src = "connected" => s.a.sock # s.a.fd

Good(s) == s \in St /\ Known(s.a) /\ KeptOpen(s) /\ Plain(s) /\ Owned(s)

(* An account that is connecting, for the first time or again.             *)
Trying(s) ==
    /\ s \in St /\ s.a.on /\ ~s.a.connected
    /\ s.a.disconnected = s.a.reconnecting /\ s.a.successful = s.a.reconnecting
    /\ ~s.a.disconnected => s.a.tries = 0
    /\ KeptOpen(s) /\ Plain(s)

LEMMA GoneGood ==
    ASSUME NEW r \in St, r.a = Gone, Bare => "pointer" \notin r.harm
    PROVE  Good(r)
BY DEF Good, Known, KeptOpen, Plain, Owned, Gone

LEMMA SslUse == Bare => ~Ssl /\ ~Scripts /\ AutoReconnect
BY DEF Ssl, Scripts, Bare

LEMMA PlainStays ==
    ASSUME NEW s, Plain(s), NEW r, SameHarm(r, s)
    PROVE  Bare => "pointer" \notin r.harm
BY DEF Plain, SameHarm

(* An attempt of which nothing is left but the time until the next.        *)
LEMMA WaitsGood ==
    ASSUME NEW s \in St, Trying(s), NEW r \in St, s.a.successful, s.a.tries < MaxTries,
           SameHarm(r, s), KeptOpen(r),
           r.a.on, ~r.a.connected, r.a.disconnected, ~r.a.reconnecting,
           r.a.successful, r.a.tries = s.a.tries, r.a.next_try = Wait(s.a),
           r.a.waited = 0, r.a.chats = s.a.chats, r.a.src = "none", r.a.ssl = s.a.ssl
    PROVE  Good(r)
<1>1. Wait(r.a) = Wait(s.a) /\ Wait(r.a) \in 0 .. MaxInterval
  BY WaitBounds DEF Wait, St
<1>2. Wait(r.a) - r.a.next_try <= r.a.waited
  BY <1>1
<1>3. Known(r.a)
  BY <1>2 DEF Known
<1>4. Plain(r)
  BY DEF Trying, Plain, SameHarm
<1>5. Owned(r)
  BY DEF Owned
<1> QED BY <1>3, <1>4, <1>5 DEF Good

LEMMA FailsGood ==
    ASSUME NEW s \in St, Trying(s), s.a.src = "none", NEW r, Fails(r, s),
           r.a = Gone \/ s.a.successful
    PROVE  Good(r)
<1>1. CASE r.a = Gone
  BY <1>1, PlainStays, GoneGood DEF Fails, Trying
<1>2. CASE Waits(r, s) /\ s.a.successful
  <2>1. KeptOpen(r)
    BY <1>2 DEF Fails, Waits, Trying, KeptOpen
  <2> QED BY <1>2, <2>1, WaitsGood DEF Fails, Waits, Trying
<1> QED BY <1>1, <1>2 DEF Fails

LEMMA RefusesGood ==
    ASSUME NEW s \in St, Trying(s), NEW fd \in Fds, NEW r, Refuses(r, s, fd),
           ~Ssl /\ s.a.aborts = 0 => s.a.sock # fd
    PROVE  Good(r)
<1>1. CASE r.a = Gone
  BY <1>1, PlainStays, GoneGood DEF Refuses, Trying
<1>2. CASE r.a # Gone
  <2>1. KeptOpen(r)
    <3> SUFFICES ASSUME ~Ssl, r.a.aborts = 0, r.a.sock # None
                 PROVE  r.open[r.a.sock] = "ours"
      BY DEF KeptOpen
    <3>1. r.a.sock = s.a.sock /\ s.a.sock \in Fds /\ s.a.sock # fd
      BY <1>2 DEF Refuses, St, Acct
    <3>2. s.open[s.a.sock] = "ours"
      BY <1>2, <3>1 DEF Trying, KeptOpen, Refuses
    <3> QED BY <3>1, <3>2 DEF Refuses
  <2> QED BY <1>2, <2>1, WaitsGood DEF Refuses, Trying
<1> QED BY <1>1, <1>2

LEMMA UpGood ==
    ASSUME NEW s \in St, Trying(s), NEW fd \in Fds, s.open[fd] = "ours", NEW r,
           \/ Up(r, s, fd) /\ (r.a.ssl => Ssl)
           \/ Ssl /\ NoSsl(r, s, fd)
    PROVE  Good(r)
<1>1. r \in St /\ SameFlags(r.a, s.a) /\ r.harm = s.harm /\ r.a.sock = fd
  BY DEF Up, NoSsl
<1>2. Known(r.a)
  BY <1>1 DEF Trying, Known, SameFlags
<1>3. Plain(r)
  BY <1>1, SslUse DEF Trying, Plain, SameFlags, Up, NoSsl
<1>4. KeptOpen(r) /\ Owned(r)
  BY <1>1 DEF KeptOpen, Owned, Up, NoSsl
<1> QED BY <1>1, <1>2, <1>3, <1>4 DEF Good

LEMMA AttemptedGood ==
    ASSUME NEW s \in St, Trying(s), NEW fd \in Fds, s.open[fd] = "closed",
           NEW r, Attempted(r, s, fd)
    PROVE  Good(r)
<1>1. ~Ssl /\ s.a.aborts = 0 => s.a.sock # fd
  BY FdsAssumption DEF Trying, KeptOpen
<1>2. CASE Refuses(r, s, fd)
  BY <1>1, <1>2, RefusesGood
<1>3. CASE ~Refuses(r, s, fd)
  <2>1. /\ r \in St /\ SameFlags(r.a, s.a) /\ SameHarm(r, s)
        /\ r.open[fd] = "ours" /\ r.a.fd = fd
        /\ \A f \in Fds : f # fd => r.open[f] = s.open[f]
        /\ \/ r.a.src = "connected" /\ r.a.sock = s.a.sock /\ r.a.ssl = s.a.ssl
           \/ /\ r.a.src = "event" /\ r.a.sock = fd /\ ~r.a.ssl
              /\ r.a.transport \in {"clear", "ssl"}
    BY <1>3 DEF Attempted
  <2>2. Known(r.a)
    BY <2>1 DEF Trying, Known, SameFlags
  <2>3. Plain(r)
    BY <2>1 DEF Trying, Plain, SameFlags, SameHarm
  <2>4. s.a.sock \in Fds \cup {None} /\ s.a.aborts = r.a.aborts
    BY <2>1 DEF St, Acct, SameFlags
  <2>5. KeptOpen(r)
    BY <1>1, <2>1, <2>4 DEF Trying, KeptOpen
  <2>6. Owned(r)
    BY <1>1, <2>1, <2>4 DEF Owned
  <2> QED BY <2>1, <2>2, <2>3, <2>5, <2>6 DEF Good
<1> QED BY <1>2, <1>3

(* The marked account is good before the connection is tried.              *)
LEMMA TryingGood ==
    ASSUME NEW s \in St, Trying(s), s.a.src = "none"
    PROVE  Good(s)
BY DEF Trying, Good, Known, Owned

-----------------------------------------------------------------------------
(* What an account looks like to its user, and the steps that AcctLifecycle *)
(* allows, as relations of two accounts.                                   *)
Phase(a) ==
    CASE ~a.on -> "gone"
      [] a.connected -> "online"
      [] a.reconnecting -> "retrying"
      [] a.disconnected /\ ~a.reconnecting -> "waiting"
      [] OTHER -> "connecting"

Lives(b, a) ==
    \/ Phase(b) = Phase(a) /\ b.tries = a.tries
    \/ Phase(a) = "gone" /\ Phase(b) = "connecting" /\ b.tries = 0
    \/ Phase(a) \in {"connecting", "retrying"} /\ Phase(b) = "online" /\ b.tries = 0
    \/ /\ Phase(a) = "online" \/ (Phase(a) = "waiting" /\ a.tries < MaxTries)
       /\ Phase(b) \in {"retrying", "waiting"} /\ b.tries = a.tries + 1
       /\ Phase(b) = "waiting" => b.tries < MaxTries
    \/ /\ Phase(a) = "retrying" /\ a.tries < MaxTries
       /\ Phase(b) = "waiting" /\ b.tries = a.tries
    \/ Phase(a) # "gone" /\ Phase(b) = "gone" /\ b.tries = 0

LEMMA PhaseIs ==
    ASSUME NEW a \in Acct, Known(a)
    PROVE  /\ Phase(a) = "gone" <=> ~a.on
           /\ Phase(a) = "online" <=> a.connected
           /\ Phase(a) = "retrying" <=> a.reconnecting
           /\ Phase(a) = "waiting" <=> a.disconnected /\ ~a.reconnecting
           /\ Phase(a) = "connecting" <=> a.on /\ ~a.connected /\ ~a.disconnected
           /\ ~a.on => a.tries = 0
<1>1. ~a.on => ~a.connected /\ ~a.reconnecting /\ ~a.disconnected /\ a.tries = 0
  BY DEF Known, Gone
<1>2. a.connected => ~a.reconnecting /\ ~a.disconnected
  BY DEF Known
<1>3. a.reconnecting => a.disconnected
  BY DEF Known
<1> QED BY <1>1, <1>2, <1>3 DEF Phase, Acct

(* A step of the account leads to a good state, closes no descriptor of    *)
(* another part unless an attempt was aborted before, waits before it      *)
(* tries again, and is one that AcctLifecycle allows.                      *)
Closes(r, s) ==
    ~Ssl /\ "descriptor" \in r.harm /\ "descriptor" \notin s.harm => s.a.aborts >= 1

InTime(r, s) ==
    s.a.disconnected /\ r.a.attempts = s.a.attempts + 1 => s.a.waited >= Wait(s.a)

Leads(r, s) == Good(r) /\ Closes(r, s) /\ InTime(r, s) /\ Lives(r.a, s.a)


LEMMA BecomesGood ==
    ASSUME NEW S, Becomes(S), \A r \in S : Leads(r, Now)
    PROVE  /\ Good(Now)' /\ use' = use
           /\ ~Ssl /\ "descriptor" \in harm' \ harm => acct.aborts >= 1
           /\ acct.disconnected /\ acct'.attempts = acct.attempts + 1
                 => acct.waited >= Wait(acct)
           /\ Lives(acct', acct)
<1>1. PICK r \in S :
         /\ acct' = r.a /\ harm' = r.harm /\ use' = use
         /\ open' = [f \in Fds |-> IF r.open[f] = "ours" /\ f \notin {r.a.sock, r.a.fd}
                                     THEN "closed" ELSE r.open[f]]
  BY DEF Becomes
<1>2. Leads(r, Now)
  BY <1>1
<1>3. r \in St /\ r.a.sock \in Fds \cup {None} /\ r.a.fd \in Fds \cup {None}
  BY <1>2 DEF Leads, Good, St, Acct
<1>4. /\ open' \in [Fds -> Uses3]
      /\ \A f \in Fds : r.open[f] = "ours" /\ f \in {r.a.sock, r.a.fd} => open'[f] = "ours"
  BY <1>1, <1>3 DEF St, Uses3
<1>5. /\ Now'.a = r.a /\ Now'.open = open' /\ Now'.harm = r.harm
      /\ Now.a = acct /\ Now.open = open /\ Now.harm = harm
  BY <1>1 DEF Now, State
<1>6. Now' \in St
  BY <1>1, <1>3, <1>4 DEF Now, State, St
<1>7. Ssl' = Ssl
  BY <1>1 DEF Ssl
<1>8. Known(Now.a)'
  BY <1>2, <1>5 DEF Leads, Good, Known, Wait
<1>9. KeptOpen(Now)'
  BY <1>2, <1>3, <1>4, <1>5, <1>7 DEF Leads, Good, KeptOpen
<1>10. Plain(Now)'
  BY <1>1, <1>2, <1>5 DEF Leads, Good, Plain, Bare
<1>11. Owned(Now)'
  BY <1>2, <1>3, <1>4, <1>5, <1>7 DEF Leads, Good, Owned
<1>12. Good(Now)'
  BY <1>6, <1>8, <1>9, <1>10, <1>11 DEF Good, St, Uses3
<1> QED BY <1>1, <1>2, <1>5, <1>12 DEF Leads, Closes, InTime

-----------------------------------------------------------------------------
(* Where each operation leads.                                             *)
LEMMA Goes ==
    ASSUME NEW s \in St, Good(s), s.a.on, NEW r, Good(r), r.a = Gone,
           "descriptor" \in r.harm => "descriptor" \in s.harm \/ Ssl \/ s.a.aborts >= 1
    PROVE  Leads(r, s)
<1>1. Gone.tries = 0 /\ Gone.attempts = 0 /\ ~Gone.on
  BY DEF Gone
<1>2. s.a \in Acct /\ r.a \in Acct /\ s.a.attempts \in Nat
  BY DEF Good, St, Acct
<1>3. Phase(r.a) = "gone" /\ Phase(s.a) # "gone"
  BY <1>1, <1>2, PhaseIs DEF Good
<1> QED BY <1>1, <1>2, <1>3 DEF Leads, Closes, InTime, Lives

LEMMA DelLeads ==
    ASSUME NEW s \in St, Good(s), s.a.on
    PROVE  Leads(Del(s), s)
<1>1. /\ Del(s) \in St /\ Del(s).a = Gone
      /\ "descriptor" \in Del(s).harm <=> "descriptor" \in s.harm
  BY DelEffect
<1>2. s.a.connected => s.a.transport \in {"clear", "ssl"}
  BY DEF Good, Known, Owned
<1>3. Bare => "pointer" \notin Del(s).harm
  BY <1>2, DelEffect DEF Good, Plain
<1>4. Good(Del(s))
  BY <1>1, <1>3, GoneGood
<1> QED BY <1>1, <1>4, Goes

(* An account with a source, or that tries again, is connecting unless it  *)
(* is online.                                                              *)
LEMMA BusyTries ==
    ASSUME NEW s \in St, Good(s), s.a.on, ~s.a.connected,
           s.a.src # "none" \/ s.a.reconnecting
    PROVE  Trying(s)
<1>1. s.a.disconnected \in BOOLEAN /\ s.a.reconnecting \in BOOLEAN
      /\ s.a.successful \in BOOLEAN
  BY DEF St, Acct
<1>2. s.a.disconnected = s.a.reconnecting /\ s.a.successful = s.a.reconnecting
  BY <1>1 DEF Good, Known
<1> QED BY <1>2 DEF Trying, Good, Known

(* An attempt that fails leads from trying to waiting.                     *)
LEMMA FailLeads ==
    ASSUME NEW s \in St, Good(s), Trying(s), NEW r, Good(r), r.a # Gone,
           s.a.successful, s.a.tries < MaxTries,
           r.a.on, ~r.a.connected, r.a.disconnected, ~r.a.reconnecting,
           r.a.tries = s.a.tries, r.a.attempts = s.a.attempts,
           "descriptor" \in r.harm => "descriptor" \in s.harm \/ Ssl \/ s.a.aborts >= 1
    PROVE  Leads(r, s)
<1>1. s.a \in Acct /\ r.a \in Acct /\ s.a.attempts \in Nat
  BY DEF Good, St, Acct
<1>2. s.a.reconnecting
  BY DEF Trying
<1>3. Phase(s.a) = "retrying" /\ Phase(r.a) = "waiting"
  BY <1>1, <1>2, PhaseIs DEF Good
<1> QED BY <1>1, <1>3 DEF Leads, Closes, InTime, Lives

(* An attempt that succeeds, or is under way, leads to trying.             *)
LEMMA SameLeads ==
    ASSUME NEW s \in St, Good(s), NEW r, Good(r), SameFlags(r.a, s.a),
           "descriptor" \in r.harm => "descriptor" \in s.harm
    PROVE  Leads(r, s)
<1>1. s.a \in Acct /\ r.a \in Acct /\ s.a.attempts \in Nat
  BY DEF Good, St, Acct
<1>2. Phase(r.a) = Phase(s.a) /\ r.a.tries = s.a.tries
  BY DEF Phase, SameFlags
<1> QED BY <1>1, <1>2 DEF Leads, Closes, InTime, Lives, SameFlags

LEMMA ConnectDoneLeads ==
    ASSUME NEW s \in St, Good(s), s.a.on, s.a.src = "connected",
           NEW r \in Established(s, s.a.fd, Ssl) \cup Refused(s, s.a.fd)
    PROVE  Leads(r, s)
<1>1. s.a.fd \in Fds /\ s.open[s.a.fd] = "ours"
  BY DEF Good, Owned
<1>2. ~s.a.connected
  BY DEF Good, Known
<1>3. Trying(s)
  BY <1>2, BusyTries
<1>4. Ssl \in BOOLEAN
  BY DEF Ssl
<1> DEFINE fd == s.a.fd
<1> HIDE DEF fd
<1>5. CASE r \in Established(s, fd, Ssl)
  <2>1. \/ Up(r, s, fd) /\ (r.a.ssl => Ssl)
        \/ Ssl /\ NoSsl(r, s, fd)
    BY <1>1, <1>4, <1>5, EstablishedEffect DEF fd
  <2>2. Good(r)
    BY <1>1, <1>3, <2>1, UpGood DEF fd
  <2>3. SameFlags(r.a, s.a) /\ r.harm = s.harm
    BY <2>1 DEF Up, NoSsl
  <2> QED BY <2>2, <2>3, SameLeads
<1>6. CASE r \in Refused(s, fd)
  <2>1. Refuses(r, s, fd)
    BY <1>1, <1>2, <1>6, RefusedEffect DEF fd
  <2>2. ~Ssl /\ s.a.aborts = 0 => s.a.sock # fd
    BY DEF Good, Owned, fd
  <2>3. Good(r)
    BY <1>1, <1>3, <2>1, <2>2, RefusesGood DEF fd
  <2>4. CASE r.a = Gone
    BY <2>1, <2>3, <2>4, Goes DEF Refuses, SameHarm
  <2>5. CASE r.a # Gone
    BY <1>3, <2>1, <2>3, <2>5, FailLeads DEF Refuses, SameHarm, Trying
  <2> QED BY <2>4, <2>5
<1> QED BY <1>5, <1>6 DEF fd

LEMMA TimedOutLeads ==
    ASSUME NEW s \in St, Good(s), s.a.on, s.a.reconnecting
    PROVE  Leads(ConnectFail(Abort(s)), s)
<1> DEFINE c == Abort(s)
           r == ConnectFail(c)
<1>1. ~s.a.connected
  BY DEF Good, Known
<1>2. Trying(s)
  BY <1>1, BusyTries
<1>3. /\ c \in St /\ c.a.src = "none" /\ c.a.aborts >= 1
      /\ c.a.on /\ ~c.a.connected /\ c.a.disconnected = s.a.disconnected
      /\ c.a.reconnecting = s.a.reconnecting /\ c.a.successful = s.a.successful
      /\ c.a.tries = s.a.tries /\ c.a.chats = s.a.chats /\ c.a.ssl = s.a.ssl
      /\ c.a.attempts = s.a.attempts
      /\ ~s.a.ssl => ("pointer" \in c.harm <=> "pointer" \in s.harm)
      /\ "descriptor" \in c.harm
            <=> "descriptor" \in s.harm \/ (s.a.sock \in Fds /\ s.open[s.a.sock] = "other")
  BY <1>1, AbortEffect
<1> HIDE DEF c
<1>4. KeptOpen(c)
  BY <1>3 DEF KeptOpen
<1>5. Plain(c)
  BY <1>2, <1>3 DEF Trying, Plain
<1>6. Trying(c) /\ c.a.successful
  BY <1>2, <1>3, <1>4, <1>5 DEF Trying
<1>7. Fails(r, c)
  BY <1>3, ConnectFailEffect
<1> HIDE DEF r
<1>8. Good(r)
  BY <1>3, <1>6, <1>7, FailsGood
<1>9. "descriptor" \in r.harm => "descriptor" \in s.harm \/ Ssl \/ s.a.aborts >= 1
  <2>1. "descriptor" \in r.harm => "descriptor" \in c.harm
    BY <1>7 DEF Fails, SameHarm
  <2>2. s.a.sock \in Fds /\ s.open[s.a.sock] = "other" => Ssl \/ s.a.aborts # 0
    BY FdsAssumption DEF Good, KeptOpen
  <2>3. s.a.aborts \in 0 .. 2
    BY DEF St, Acct
  <2> QED BY <1>3, <2>1, <2>2, <2>3
<1>10. CASE r.a = Gone
  BY <1>8, <1>9, <1>10, Goes DEF r, c
<1>11. CASE r.a # Gone
  <2>1. Waits(r, c)
    BY <1>7, <1>11 DEF Fails
  <2>2. Leads(r, s)
    BY <1>2, <1>3, <1>6, <1>8, <1>9, <1>11, <2>1, FailLeads DEF Waits
  <2> QED BY <2>2 DEF r, c
<1> QED BY <1>10, <1>11

(* One more attempt, of an account that was online or has waited.          *)
LEMMA AgainLeads ==
    ASSUME NEW s \in St, Good(s), s.a.on, s.a.connected \/ s.a.disconnected,
           ~s.a.reconnecting, s.a.disconnected => s.a.waited >= Wait(s.a),
           NEW m \in St, Trying(m), m.a.src = "none", m.a.reconnecting,
           m.a.tries = s.a.tries + 1, m.harm = s.harm,
           NEW r, r = m \/ \E fd \in Fds : m.open[fd] = "closed" /\ Attempted(r, m, fd)
    PROVE  Leads(r, s)
<1>1. Good(r)
  BY TryingGood, AttemptedGood
<1>2. s.a \in Acct /\ r.a \in Acct /\ s.a.tries \in Nat /\ s.a.attempts \in Nat
  BY <1>1 DEF Good, St, Acct
<1>3. Phase(s.a) = "online" \/ (Phase(s.a) = "waiting" /\ s.a.tries < MaxTries)
  <2>1. s.a.connected \/ (s.a.disconnected /\ ~s.a.reconnecting /\ s.a.tries < MaxTries)
    BY DEF Good, Known
  <2> QED BY <1>2, <2>1, PhaseIs DEF Good
<1>4. Phase(s.a) # "gone"
  BY <1>3
<1>5. "descriptor" \in r.harm => "descriptor" \in s.harm
  BY DEF Attempted, SameHarm
<1>6. Closes(r, s) /\ InTime(r, s)
  BY <1>5 DEF Closes, InTime
<1>7. CASE r.a = Gone
  BY <1>1, <1>5, <1>7, Goes
<1>8. CASE SameFlags(r.a, m.a)
  <2>1. Phase(r.a) = "retrying" /\ r.a.tries = s.a.tries + 1
    BY <1>1, <1>2, <1>8, PhaseIs DEF SameFlags, Good
  <2> QED BY <1>1, <1>3, <1>6, <2>1 DEF Leads, Lives
<1>9. CASE r.a.disconnected /\ ~r.a.reconnecting /\ r.a.tries = m.a.tries /\ m.a.tries < MaxTries
  <2>1. Phase(r.a) = "waiting"
    BY <1>1, <1>2, <1>9, PhaseIs DEF Good
  <2> QED BY <1>1, <1>3, <1>6, <1>9, <2>1 DEF Leads, Lives
<1>10. SameFlags(m.a, m.a)
  BY DEF SameFlags
<1> QED BY <1>7, <1>8, <1>9, <1>10 DEF Attempted, Refuses

LEMMA RetryLeads ==
    ASSUME NEW s \in St, Good(s), s.a.on, s.a.disconnected, ~s.a.reconnecting,
           s.a.next_try < 0, NEW r \in Reconnect(s)
    PROVE  Leads(r, s)
<1> DEFINE m == Marked(s)
<1>1. ~s.a.connected /\ s.a.src = "none" /\ s.a.successful
  BY DEF Good, Known
<1>2. r = m \/ \E fd \in Fds : m.open[fd] = "closed" /\ Attempted(r, m, fd)
  BY <1>1, ReconnectEffect, MarkedEffect
<1>3. /\ m \in St /\ m.open = s.open /\ m.harm = s.harm
      /\ m.a.on /\ ~m.a.connected /\ m.a.disconnected /\ m.a.reconnecting /\ m.a.successful
      /\ m.a.src = "none" /\ m.a.tries = s.a.tries + 1
      /\ m.a.chats = s.a.chats /\ m.a.ssl = s.a.ssl /\ m.a.sock = s.a.sock
      /\ m.a.aborts = s.a.aborts
  BY <1>1, MarkedEffect
<1> HIDE DEF m
<1>4. KeptOpen(m) /\ Plain(m)
  BY <1>3 DEF Good, KeptOpen, Plain
<1>5. Trying(m)
  BY <1>3, <1>4 DEF Trying
<1>6. s.a.waited >= Wait(s.a)
  <2>1. /\ s.a.waited \in 0 .. MaxInterval /\ s.a.next_try \in -(Timeout + 1) .. MaxInterval
        /\ Wait(s.a) \in 0 .. MaxInterval
    BY WaitBounds DEF St, Acct
  <2>2. Wait(s.a) - s.a.next_try <= s.a.waited \/ s.a.waited = MaxInterval
    BY DEF Good, Known
  <2> QED BY <2>1, <2>2, NumbersAssumption
<1> QED BY <1>2, <1>3, <1>5, <1>6, AgainLeads

LEMMA DropLeads ==
    ASSUME NEW s \in St, Good(s), s.a.on, s.a.src = "event",
           NEW r \in Disconnected(Dropped(s))
    PROVE  Leads(r, s)
<1> DEFINE d == Dropped(s)
<1>1. /\ d \in St /\ d.open = s.open /\ d.harm = s.harm /\ SameFlags(d.a, s.a)
      /\ d.a.src = "none" /\ d.a.sock = s.a.sock /\ ~d.a.ssl
  BY DroppedEffect
<1>2. r \in IF d.a.connected THEN Lost(d) ELSE LostAttempt(d)
  BY DEF Disconnected
<1>4. KeptOpen(d)
  BY <1>1 DEF Good, KeptOpen, SameFlags
<1>5. Plain(d)
  BY <1>1 DEF Good, Plain, SameFlags
<1> HIDE DEF d
<1>6. CASE ~s.a.connected
  <2>1. Trying(s)
    BY <1>6, BusyTries
  <2>2. Trying(d)
    BY <1>1, <1>4, <1>5, <2>1 DEF Trying, SameFlags
  <2>3. Fails(r, d) /\ (r.a = Gone \/ d.a.successful)
    BY <1>1, <1>2, <2>2, LostAttemptEffect DEF Trying
  <2>4. Good(r)
    BY <1>1, <2>2, <2>3, FailsGood
  <2>5. "descriptor" \in r.harm => "descriptor" \in s.harm
    BY <1>1, <2>3 DEF Fails, SameHarm
  <2>6. CASE r.a = Gone
    BY <2>4, <2>5, <2>6, Goes
  <2>7. CASE r.a # Gone
    <3>1. Waits(r, d) /\ d.a.successful
      BY <2>3, <2>7 DEF Fails
    <3> QED BY <1>1, <2>1, <2>2, <2>4, <2>5, <2>7, <3>1, FailLeads DEF Waits, SameFlags, Trying
  <2> QED BY <2>6, <2>7
<1>7. CASE s.a.connected
  <2>1. r \in Lost(d)
    BY <1>1, <1>2, <1>7 DEF SameFlags
  <2>2. ~s.a.disconnected /\ ~s.a.reconnecting /\ s.a.successful /\ s.a.tries = 0
    BY <1>7 DEF Good, Known
  <2>3. CASE r = Del(d) /\ ~(d.a.successful /\ AutoReconnect /\ ~Scripts)
    <3>1. /\ r \in St /\ r.a = Gone
          /\ "descriptor" \in r.harm <=> "descriptor" \in d.harm
      BY <1>1, <2>3, DelEffect
    <3>2. Bare => "pointer" \notin r.harm
      BY <1>1, <2>2, <2>3, SslUse DEF SameFlags
    <3>3. Good(r)
      BY <3>1, <3>2, GoneGood
    <3> QED BY <1>1, <3>1, <3>3, Goes
  <2>4. CASE \/ r = Marked(Reset(d))
             \/ \E fd \in Fds : d.open[fd] = "closed" /\ Attempted(r, Marked(Reset(d)), fd)
    <3> DEFINE m == Marked(Reset(d))
    <3>1. /\ m \in St /\ m.open = d.open /\ m.harm = d.harm
          /\ m.a.on = d.a.on /\ ~m.a.connected /\ m.a.disconnected /\ m.a.reconnecting
          /\ m.a.successful = d.a.successful
          /\ m.a.src = d.a.src /\ m.a.tries = 1
          /\ m.a.chats = d.a.chats /\ m.a.ssl = d.a.ssl /\ m.a.sock = d.a.sock
          /\ m.a.aborts = d.a.aborts
      <4>1. Reset(d) \in St
        BY <1>1, ResetEffect
      <4>2. Marked(Reset(d)).a.tries = 1
        BY <1>1, <4>1, ResetEffect, MarkedEffect
      <4> QED BY <1>1, <4>1, <4>2, ResetEffect, MarkedEffect
    <3>2. r = m \/ \E fd \in Fds : m.open[fd] = "closed" /\ Attempted(r, m, fd)
      BY <2>4, <3>1
    <3> HIDE DEF m
    <3>3. KeptOpen(m) /\ Plain(m)
      BY <1>4, <1>5, <3>1 DEF KeptOpen, Plain
    <3>4. Trying(m)
      BY <1>1, <2>2, <3>1, <3>3 DEF Trying, SameFlags
    <3> QED BY <1>1, <1>7, <2>2, <3>1, <3>2, <3>4, AgainLeads
  <2> QED BY <1>1, <2>1, <2>3, <2>4, LostEffect
<1> QED BY <1>6, <1>7

LEMMA ConnectLeads ==
    ASSUME Good(Now), ~acct.on,
           NEW r \in Started([Now EXCEPT !.a.on = TRUE]), r # [Now EXCEPT !.a.on = TRUE]
    PROVE  Leads(r, Now)
<1> DEFINE t == [Now EXCEPT !.a.on = TRUE]
<1>1. Now \in St /\ Now.a = acct /\ acct = Gone
  BY DEF Good, Known, Now, State
<1>2. /\ t \in St /\ t.open = Now.open /\ t.harm = Now.harm /\ t.a = [Gone EXCEPT !.on = TRUE]
  BY <1>1, GoneTyped DEF St, Acct
<1>3. /\ t.a.on /\ ~t.a.connected /\ ~t.a.disconnected /\ ~t.a.reconnecting
      /\ ~t.a.successful /\ t.a.tries = 0 /\ t.a.sock = None /\ ~t.a.ssl /\ ~t.a.chats
      /\ t.a.attempts = 0 /\ t.a.src = "none"
  BY <1>2 DEF Gone
<1> HIDE DEF t
<1>4. Plain(t) /\ KeptOpen(t)
  BY <1>2, <1>3 DEF Good, Plain, KeptOpen
<1>5. Trying(t)
  BY <1>2, <1>3, <1>4 DEF Trying, St, Acct
<1>6. PICK fd \in Fds : t.open[fd] = "closed" /\ Attempted(r, t, fd)
  BY <1>2, <1>3, StartedEffect DEF t
<1>7. Good(r)
  BY <1>2, <1>5, <1>6, AttemptedGood
<1>8. "descriptor" \in r.harm => "descriptor" \in Now.harm
  BY <1>2, <1>6 DEF Attempted, SameHarm
<1>9. ~Now.a.disconnected /\ ~Now.a.on /\ Now.a.tries = 0
  BY <1>1 DEF Gone
<1>10. Now.a \in Acct /\ r.a \in Acct /\ Known(Now.a) /\ Known(r.a)
  BY <1>1, <1>7 DEF Good, St
<1>11. Phase(Now.a) = "gone"
  BY <1>9, <1>10, PhaseIs
<1>12. CASE r.a = Gone
  BY <1>1, <1>7, <1>8, <1>9, <1>12 DEF Leads, Closes, InTime, Lives
<1>13. CASE SameFlags(r.a, t.a)
  <2>1. Phase(r.a) = "connecting" /\ r.a.tries = 0
    BY <1>3, <1>10, <1>13, PhaseIs DEF SameFlags
  <2> QED BY <1>7, <1>8, <1>9, <1>11, <2>1 DEF Leads, Closes, InTime, Lives
<1> QED BY <1>3, <1>6, <1>12, <1>13 DEF Attempted, Refuses

(* An account that is welcomed.                                            *)
Welcomed(a) == [a EXCEPT !.successful = TRUE, !.connected = TRUE,
                         !.disconnected = FALSE, !.reconnecting = FALSE,
                         !.tries = 0, !.attempts = 0, !.aborts = 0, !.waited = 0]

Online(v, a) ==
    /\ v \in Acct
    /\ v.successful /\ v.connected /\ ~v.disconnected /\ ~v.reconnecting
    /\ v.tries = 0 /\ v.attempts = 0 /\ v.on = a.on /\ v.chats = a.chats
    /\ v.src = a.src /\ v.fd = a.fd /\ v.sock = a.sock /\ v.ssl = a.ssl
    /\ v.transport = a.transport

LEMMA WelcomedIs ==
    ASSUME NEW a \in Acct
    PROVE  Online(Welcomed(a), a)
<1> DEFINE u == [a EXCEPT !.successful = TRUE, !.connected = TRUE,
                          !.disconnected = FALSE, !.reconnecting = FALSE]
           x == [u EXCEPT !.tries = 0, !.attempts = 0]
           v == [x EXCEPT !.aborts = 0, !.waited = 0]
<1>1. /\ u \in Acct /\ u.successful /\ u.connected /\ ~u.disconnected /\ ~u.reconnecting
      /\ u.on = a.on /\ u.chats = a.chats /\ u.src = a.src /\ u.fd = a.fd
      /\ u.sock = a.sock /\ u.ssl = a.ssl /\ u.transport = a.transport
  BY DEF Acct
<1>2. Welcomed(a) = v
  BY DEF Welcomed
<1> HIDE DEF u
<1>3. /\ x \in Acct /\ x.tries = 0 /\ x.attempts = 0
      /\ x.successful = u.successful /\ x.connected = u.connected
      /\ x.disconnected = u.disconnected /\ x.reconnecting = u.reconnecting
      /\ x.on = u.on /\ x.chats = u.chats /\ x.src = u.src /\ x.fd = u.fd
      /\ x.sock = u.sock /\ x.ssl = u.ssl /\ x.transport = u.transport
  BY <1>1 DEF Acct
<1> HIDE DEF x
<1>4. v \in Acct
  <2>1. ASSUME NEW k \in 0 .. 2, NEW m \in 0 .. MaxInterval
        PROVE  [x EXCEPT !.aborts = k, !.waited = m] \in Acct
    BY <1>3 DEF Acct
  <2>2. 0 \in 0 .. 2 /\ 0 \in 0 .. MaxInterval
    BY NumbersAssumption
  <2> QED BY Zenon, <2>1, <2>2
<1>5. /\ v.tries = x.tries /\ v.attempts = x.attempts
      /\ v.successful = x.successful /\ v.connected = x.connected
      /\ v.disconnected = x.disconnected /\ v.reconnecting = x.reconnecting
      /\ v.on = x.on /\ v.chats = x.chats /\ v.src = x.src /\ v.fd = x.fd
      /\ v.sock = x.sock /\ v.ssl = x.ssl /\ v.transport = x.transport
  BY <1>3 DEF Acct
<1> HIDE DEF v
<1> QED BY <1>1, <1>2, <1>3, <1>4, <1>5 DEF Online

LEMMA OnlineLeads ==
    ASSUME NEW s \in St, Good(s), s.a.on, s.a.src = "event",
           NEW r \in St, Online(r.a, s.a), r.open = s.open, r.harm = s.harm
    PROVE  Leads(r, s)
<1>1. /\ s.a.fd \in Fds /\ s.open[s.a.fd] = "ours" /\ s.a.sock = s.a.fd
      /\ s.a.transport \in {"clear", "ssl"}
  BY DEF Good, Owned
<1>2. s.a \in Acct /\ r.a \in Acct
  BY DEF St
<1>3. Known(r.a)
  BY DEF Known, Online
<1>4. KeptOpen(r) /\ Owned(r) /\ Plain(r)
  <2>1. KeptOpen(r)
    BY <1>1 DEF KeptOpen, Online
  <2>2. Owned(r)
    BY <1>1 DEF Owned, Online
  <2>3. Plain(r)
    BY DEF Plain, Good, Online
  <2> QED BY <2>1, <2>2, <2>3
<1>5. Good(r)
  BY <1>3, <1>4 DEF Good
<1>6. s.a.attempts \in Nat
  BY <1>2 DEF Acct
<1>7. ~(s.a.disconnected /\ ~s.a.reconnecting)
  BY DEF Good, Known
<1>8. Phase(r.a) = "online"
  BY <1>2, <1>3, PhaseIs DEF Online
<1>9. \/ Phase(s.a) \in {"connecting", "retrying"}
      \/ Phase(s.a) = "online" /\ s.a.tries = 0
  <2>1. s.a.connected => s.a.tries = 0
    BY DEF Good, Known
  <2>2. s.a.connected \in BOOLEAN /\ s.a.reconnecting \in BOOLEAN
        /\ s.a.disconnected \in BOOLEAN
    BY <1>2 DEF Acct
  <2>3. CASE s.a.connected
    BY <1>2, <2>1, <2>3, PhaseIs DEF Good
  <2>4. CASE s.a.reconnecting
    BY <1>2, <2>4, PhaseIs DEF Good
  <2>5. CASE ~s.a.connected /\ ~s.a.reconnecting
    BY <1>2, <1>7, <2>2, <2>5, PhaseIs DEF Good
  <2> QED BY <2>2, <2>3, <2>4, <2>5
<1>10. Closes(r, s) /\ InTime(r, s)
  <2>1. r.a.attempts # s.a.attempts + 1
    BY <1>6 DEF Online
  <2> QED BY <2>1 DEF Closes, InTime
<1>11. Lives(r.a, s.a)
  BY <1>8, <1>9 DEF Lives, Online
<1> QED BY <1>5, <1>10, <1>11 DEF Leads

LEMMA WelcomeLeads ==
    ASSUME NEW s \in St, Good(s), s.a.on, s.a.src = "event",
           NEW w, w = s \/ (s.a.chats /\ w = Send(s)),
           NEW r, r = [w EXCEPT !.a.successful = TRUE, !.a.connected = TRUE,
                                !.a.disconnected = FALSE, !.a.reconnecting = FALSE,
                                !.a.tries = 0, !.a.attempts = 0, !.a.aborts = 0,
                                !.a.waited = 0]
    PROVE  Leads(r, s)
<1>1. s.a.transport \in {"clear", "ssl"} /\ s.a \in Acct
  BY DEF Good, Owned, St
<1>2. w \in St /\ w.a = s.a /\ w.open = s.open /\ w.harm = s.harm
  BY <1>1, SendEffect
<1>3. r = [w EXCEPT !.a = Welcomed(s.a)]
  BY <1>2 DEF Welcomed
<1>4. Online(Welcomed(s.a), s.a)
  BY <1>1, WelcomedIs
<1> DEFINE v == Welcomed(s.a)
<1>5. v \in Acct
  BY <1>4 DEF Online
<1> HIDE DEF v
<1>6. LET x == [w EXCEPT !.a = v] IN
      x \in St /\ x.a = v /\ x.open = w.open /\ x.harm = w.harm
  BY <1>2, <1>5, WithAcct
<1>7. r \in St /\ r.a = v /\ r.open = w.open /\ r.harm = w.harm
  BY <1>3, <1>6 DEF v
<1> QED BY <1>2, <1>4, <1>7, OnlineLeads DEF v

LEMMA JoinLeads ==
    ASSUME NEW s \in St, Good(s), s.a.on, s.a.connected, "chats" \in use, NEW in \in BOOLEAN
    PROVE  Leads([Send(s) EXCEPT !.a.chats = in], s)
<1> DEFINE w == Send(s)
           v == [s.a EXCEPT !.chats = in]
           r == [w EXCEPT !.a.chats = in]
<1>1. w \in St /\ w.a = s.a /\ w.open = s.open
      /\ ("descriptor" \in w.harm <=> "descriptor" \in s.harm)
  BY SendEffect
<1> HIDE DEF w
<1>2. v \in Acct /\ s.a \in Acct /\ s.a.attempts \in Nat
  BY DEF St, Acct
<1>3. /\ v.successful = s.a.successful /\ v.connected = s.a.connected
      /\ v.disconnected = s.a.disconnected /\ v.reconnecting = s.a.reconnecting
      /\ v.tries = s.a.tries /\ v.attempts = s.a.attempts /\ v.on = s.a.on
      /\ v.src = s.a.src /\ v.fd = s.a.fd /\ v.sock = s.a.sock /\ v.aborts = s.a.aborts
      /\ v.transport = s.a.transport
  BY <1>2 DEF Acct
<1>4. r \in St /\ r.a = v /\ r.open = s.open /\ r.harm = w.harm
  BY <1>1, <1>2 DEF St
<1> HIDE DEF v, r
<1>5. Known(v)
  BY <1>2, <1>3 DEF Known, Good
<1>6. ~Bare
  BY DEF Bare
<1>7. KeptOpen(r) /\ Owned(r) /\ Plain(r)
  BY <1>3, <1>4, <1>6 DEF KeptOpen, Owned, Plain, Good
<1>8. Good(r)
  BY <1>4, <1>5, <1>7 DEF Good
<1>9. Phase(r.a) = Phase(s.a)
  BY <1>3, <1>4 DEF Phase
<1>10. Leads(r, s)
  BY <1>1, <1>2, <1>3, <1>4, <1>8, <1>9 DEF Leads, Closes, InTime, Lives
<1> QED BY <1>10 DEF r, w

LEMMA CommandLeads ==
    ASSUME NEW s \in St, Good(s), "typing" \in use
    PROVE  Leads(Send(s), s)
<1>1. Send(s) \in St /\ Send(s).a = s.a /\ Send(s).open = s.open
      /\ ("descriptor" \in Send(s).harm <=> "descriptor" \in s.harm)
  BY SendEffect
<1>2. ~Bare
  BY DEF Bare
<1>3. Good(Send(s))
  BY <1>1, <1>2 DEF Good, KeptOpen, Owned, Plain
<1> QED BY <1>1, <1>3, SameLeads DEF SameFlags

-----------------------------------------------------------------------------
(* What every step keeps.                                                  *)
Follows ==
    /\ Good(Now)' /\ use' = use
    /\ ~Ssl /\ "descriptor" \in harm' \ harm => acct.aborts >= 1
    /\ acct.disconnected /\ acct'.attempts = acct.attempts + 1 => acct.waited >= Wait(acct)
    /\ Lives(acct', acct)

LEMMA NowIs == Now.a = acct /\ Now.open = open /\ Now.harm = harm
BY DEF Now, State

LEMMA TickFollows ==
    ASSUME Good(Now), Tick
    PROVE  Follows
<1> DEFINE n == IF acct.next_try + Timeout < 0 THEN acct.next_try ELSE acct.next_try - 1
           m == Lower(acct.waited + 1, MaxInterval)
<1>1. /\ acct \in Acct /\ Known(acct) /\ acct.on /\ acct.disconnected
      /\ open' = open /\ use' = use /\ harm' = harm
  BY DEF Tick, Alive, Good, Now, State, St
<1>2. acct' = [acct EXCEPT !.next_try = n, !.waited = m]
  BY <1>1 DEF Tick, Acct
<1>3. /\ acct.next_try \in -(Timeout + 1) .. MaxInterval /\ acct.waited \in 0 .. MaxInterval
      /\ MaxInterval \in Nat /\ Timeout \in Nat /\ acct.attempts \in Nat
  BY <1>1, NumbersAssumption DEF Acct
<1>4. /\ n \in -(Timeout + 1) .. MaxInterval /\ m \in 0 .. MaxInterval
      /\ n >= acct.next_try - 1
      /\ \/ n = acct.next_try /\ (m >= acct.waited)
         \/ m = acct.waited + 1 \/ m = MaxInterval
  BY <1>3 DEF Lower
<1>5. m = acct.waited + 1 \/ m = MaxInterval
  BY <1>3 DEF Lower
<1> HIDE DEF n, m
<1>6. acct' \in Acct
  BY <1>1, <1>2, <1>4 DEF Acct
<1>7. /\ acct'.on = acct.on /\ acct'.connected = acct.connected
      /\ acct'.disconnected = acct.disconnected /\ acct'.reconnecting = acct.reconnecting
      /\ acct'.successful = acct.successful /\ acct'.tries = acct.tries
      /\ acct'.chats = acct.chats /\ acct'.src = acct.src /\ acct'.fd = acct.fd
      /\ acct'.sock = acct.sock /\ acct'.ssl = acct.ssl /\ acct'.transport = acct.transport
      /\ acct'.attempts = acct.attempts /\ acct'.aborts = acct.aborts
      /\ acct'.next_try = n /\ acct'.waited = m
  BY <1>1, <1>2 DEF Acct
<1>8. Wait(acct') = Wait(acct) /\ Wait(acct) \in 0 .. MaxInterval
  BY <1>1, <1>7, WaitBounds DEF Wait
<1>9. Wait(acct) - acct.next_try <= acct.waited \/ acct.waited = MaxInterval
         => Wait(acct') - acct'.next_try <= acct'.waited \/ acct'.waited = MaxInterval
  BY <1>3, <1>4, <1>5, <1>7, <1>8
<1>10. Known(acct')
  BY <1>1, <1>7, <1>9 DEF Known
<1>11. Now'.a = acct' /\ Now'.open = open /\ Now'.harm = harm
  BY <1>1 DEF Now, State
<1>12. Now \in St /\ Now' \in St
  BY <1>1, <1>6 DEF Good, Now, State, St
<1>13. KeptOpen(Now)' /\ Plain(Now)' /\ Owned(Now)'
  BY <1>1, <1>7, <1>11, NowIs DEF Good, KeptOpen, Plain, Owned, Ssl, Bare
<1>14. Good(Now)'
  BY <1>10, <1>11, <1>12, <1>13 DEF Good, St, Uses3, Known
<1>15. Lives(acct', acct)
  BY <1>7 DEF Lives, Phase
<1> QED BY <1>1, <1>3, <1>7, <1>14, <1>15 DEF Follows

(* What others do with descriptors that are not ours.                      *)
LEMMA OthersFollow ==
    ASSUME Good(Now), OtherOpens \/ OtherCloses
    PROVE  Follows
<1>1. /\ acct' = acct /\ use' = use /\ harm' = harm
      /\ \E f \in Fds : /\ open[f] \in {"closed", "other"}
                        /\ \/ open' = [open EXCEPT ![f] = "other"]
                           \/ open' = [open EXCEPT ![f] = "closed"]
  BY DEF OtherOpens, OtherCloses
<1>2. Now \in St
  BY DEF Good
<1>3. acct \in Acct /\ open \in [Fds -> Uses3] /\ acct.attempts \in Nat
  BY <1>2 DEF Now, State, St, Acct
<1>4. /\ open' \in [Fds -> Uses3]
      /\ \A f \in Fds : open[f] = "ours" => open'[f] = "ours"
  BY <1>1, <1>3 DEF Uses3
<1>5. Now'.a = acct /\ Now'.open = open' /\ Now'.harm = harm /\ Now' \in St
  BY <1>1, <1>2, <1>4 DEF Now, State, St
<1>6. acct.sock \in Fds \cup {None}
  BY <1>3 DEF Acct
<1>7. KeptOpen(Now)' /\ Plain(Now)' /\ Owned(Now)'
  BY <1>1, <1>4, <1>5, <1>6, NowIs DEF Good, KeptOpen, Plain, Owned, Ssl, Bare
<1>8. Known(Now.a)'
  BY <1>5, NowIs DEF Good, Known, Wait
<1>9. Good(Now)'
  BY <1>5, <1>7, <1>8 DEF Good, St, Uses3
<1> QED BY <1>1, <1>3, <1>9 DEF Follows, Lives

LEMMA NextFollows ==
    ASSUME Good(Now), Next
    PROVE  Follows
<1>1. Now \in St /\ Now.a = acct
  BY NowIs DEF Good
<1> USE DEF Follows, Alive
<1>2. CASE Connect
  BY <1>2, ConnectLeads, BecomesGood DEF Connect
<1>3. CASE ConnectDone
  BY <1>1, <1>3, ConnectDoneLeads, BecomesGood DEF ConnectDone
<1>4. CASE Welcome
  <2> DEFINE w == IF acct.reconnecting /\ acct.chats THEN Send(Now) ELSE Now
             r == [w EXCEPT !.a.successful = TRUE, !.a.connected = TRUE,
                            !.a.disconnected = FALSE, !.a.reconnecting = FALSE,
                            !.a.tries = 0, !.a.attempts = 0, !.a.aborts = 0,
                            !.a.waited = 0]
  <2>1. acct.on /\ acct.src = "event" /\ Becomes({r})
    BY <1>4 DEF Welcome
  <2>2. w = Now \/ (Now.a.chats /\ w = Send(Now))
    BY <1>1
  <2>3. Leads(r, Now)
    <3> HIDE DEF w
    <3> QED BY <1>1, <2>1, <2>2, WelcomeLeads
  <2> HIDE DEF w, r
  <2> QED BY <2>1, <2>3, BecomesGood
<1>5. CASE Drop
  BY <1>1, <1>5, DropLeads, BecomesGood DEF Drop
<1>6. CASE Retry
  BY <1>1, <1>6, RetryLeads, BecomesGood DEF Retry
<1>7. CASE TimedOut
  <2>1. Leads(ConnectFail(Abort(Now)), Now)
    BY <1>1, <1>7, TimedOutLeads DEF TimedOut
  <2> QED BY <1>7, <2>1, BecomesGood DEF TimedOut
<1>8. CASE Tick
  BY <1>8, TickFollows
<1>9. CASE Disconnect
  <2>1. Leads(Del(Now), Now)
    BY <1>1, <1>9, DelLeads DEF Disconnect
  <2> QED BY <1>9, <2>1, BecomesGood DEF Disconnect
<1>10. CASE Join
  <2>1. PICK in \in BOOLEAN : Becomes({[Send(Now) EXCEPT !.a.chats = in]})
    BY <1>10 DEF Join
  <2>2. Leads([Send(Now) EXCEPT !.a.chats = in], Now)
    BY <1>1, <1>10, JoinLeads DEF Join
  <2> QED BY <2>1, <2>2, BecomesGood
<1>11. CASE Command
  <2>1. Leads(Send(Now), Now)
    BY <1>1, <1>11, CommandLeads DEF Command
  <2> QED BY <1>11, <2>1, BecomesGood DEF Command
<1>12. CASE OtherOpens \/ OtherCloses
  BY <1>12, OthersFollow
<1> QED BY <1>2, <1>3, <1>4, <1>5, <1>6, <1>7, <1>8, <1>9, <1>10, <1>11, <1>12
        DEF Next, MainLoop

-----------------------------------------------------------------------------
(* The inductive invariant holds in every reachable state.                 *)
AcctInv == Good(Now) /\ use \in Uses

LEMMA InitInv == Init => AcctInv
<1> SUFFICES ASSUME Init PROVE AcctInv
  OBVIOUS
<1>1. Now.a = Gone /\ Now.open = [f \in Fds |-> "closed"] /\ Now.harm = {}
  BY NowIs DEF Init
<1>2. Now \in St
  BY <1>1, GoneTyped DEF Now, State, St, Uses3
<1> QED BY <1>1, <1>2, GoneGood DEF AcctInv, Init

LEMMA StepInv == AcctInv /\ [Next]_vars => AcctInv'
<1> SUFFICES ASSUME AcctInv, [Next]_vars PROVE AcctInv'
  OBVIOUS
<1>1. CASE Next
  BY <1>1, NextFollows DEF AcctInv, Follows
<1>2. CASE UNCHANGED vars
  <2>1. Now' = Now /\ use' = use
    BY <1>2 DEF vars, Now, State
  <2> QED BY <2>1 DEF AcctInv, Good, KeptOpen, Plain, Owned, Known, Ssl, Bare, St,
                      Uses3, Wait
<1> QED BY <1>1, <1>2

LEMMA AlwaysInv == Spec => []AcctInv
BY InitInv, StepInv, PTL DEF Spec

(* The account, its descriptors and the record of harm have their types,   *)
(* whatever the settings (struct pork_acct, struct irc_session).           *)
THEOREM AcctTypeOK == Spec => []TypeOK
<1>1. AcctInv => TypeOK
  BY NowIs DEF AcctInv, Good, St, Uses3, TypeOK
<1> QED BY <1>1, AlwaysInv, PTL

(* The flags of the account and of its session agree, for any number of    *)
(* descriptors and attempts (pork_acct.c, protocols/irc/pork_irc.c).       *)
THEOREM AcctSessionAgrees == Spec => []SessionAgrees
<1>1. AcctInv => SessionAgrees
  <2> SUFFICES ASSUME AcctInv PROVE SessionAgrees
    OBVIOUS
  <2>1. Known(acct) /\ Owned(Now) /\ Plain(Now)
    BY NowIs DEF AcctInv, Good
  <2>2. acct.connected => /\ acct.src = "event" /\ acct.sock = acct.fd
                          /\ acct.transport \in {"clear", "ssl"}
                          /\ ~acct.disconnected /\ ~acct.reconnecting
    BY <2>1, NowIs DEF Known, Owned
  <2>3. acct.disconnected /\ ~acct.reconnecting => acct.src = "none"
    BY <2>1 DEF Known
  <2>4. acct.reconnecting => acct.disconnected /\ acct.successful
    BY <2>1 DEF Known
  <2>5. acct.src = "event" => open[acct.sock] = "ours"
    BY <2>1, NowIs DEF Owned
  <2>6. use = {} /\ AutoReconnect => Running
    BY <2>1, NowIs DEF Plain, Running, Bare
  <2> QED BY <2>2, <2>3, <2>4, <2>5, <2>6 DEF SessionAgrees
<1> QED BY <1>1, AlwaysInv, PTL

(* An account tries again in its time, and closes another's descriptor     *)
(* only after an attempt was aborted, whatever the interval and the number *)
(* of attempts (pork_acct_reconnect_all, irc_connect_abort).               *)
THEOREM AcctAttemptsSound == Spec => AttemptsSound
<1>1. AcctInv /\ [Next]_vars
         => [acct.disconnected /\ acct'.attempts = acct.attempts + 1
                => acct.waited >= Lower(acct.tries * Interval, MaxInterval)]_vars
  BY NextFollows DEF AcctInv, Follows, Wait
<1>2. AcctInv /\ [Next]_vars
         => [~Ssl /\ "descriptor" \in harm' \ harm => acct.aborts >= 1]_vars
  BY NextFollows DEF AcctInv, Follows
<1>3. Spec => Paced
  BY <1>1, AlwaysInv, PTL DEF Spec, Paced
<1>4. Spec => ClosesOwnUnlessAborted
  BY <1>2, AlwaysInv, PTL DEF Spec, ClosesOwnUnlessAborted
<1> QED BY <1>3, <1>4 DEF AttemptsSound

(* Every step of the account, which may fail in a callback of a callback,  *)
(* is one that AcctLifecycle promises or cannot be seen by the user: no    *)
(* attempt too many, none from an account that is not waiting, and no      *)
(* return of one that is gone.                                             *)
THEOREM AcctImplementsLifecycle == Spec => ImplementsLifecycle
<1>1. Init => Promise!Init
  BY DEF Init, Promise!Init, Gone
<1>2. AcctInv /\ [Next]_vars => [Promise!Next]_(Promise!vars)
  <2> SUFFICES ASSUME AcctInv, [Next]_vars
               PROVE  Promise!Next \/ UNCHANGED Promise!vars
    OBVIOUS
  <2>1. CASE UNCHANGED vars
    BY <2>1 DEF vars, Promise!vars
  <2>2. CASE Next
    <3>1. Lives(acct', acct)
      BY <2>2, NextFollows DEF AcctInv, Follows
    <3> QED BY <3>1 DEF Lives, Phase, Promise!Next, Promise!vars, Promise!Connect,
                        Promise!Welcome, Promise!Retry, Promise!Fail, Promise!Leave
  <2> QED BY <2>1, <2>2
<1> QED BY <1>1, <1>2, AlwaysInv, PTL DEF Spec, ImplementsLifecycle, Promise!Spec
=============================================================================
