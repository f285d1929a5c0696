------------------------- MODULE AimSession_proofs --------------------------
(***************************************************************************)
(* Theorems of AimSession, for any number of connections, rooms, attempts  *)
(* and any play.                                                           *)
(***************************************************************************)
EXTENDS AimSession, SequenceTheorems, WellFoundedInduction, TLAPS

-----------------------------------------------------------------------------
(* The types.                                                              *)
Types == {"auth", "bos", "nav", "chat"}

Words == {"key", "login", "online", "versions", "rates", "rights", "list", "nav", "chat", "info",
          "created"}

Message == [m : Words, room : Rooms \cup {None}, kept : BOOLEAN]

Conn == [type : Types, status : {"new", "inprogress", "up", "closed"},
         chat : Chats \cup {None}, owes : Seq(Message)]

Chat == [room : Rooms, conn : Conns, data : BOOLEAN, win : BOOLEAN]

Account == [on : BOOLEAN, connected : BOOLEAN, disconnected : BOOLEAN, reconnecting : BOOLEAN,
            successful : BOOLEAN, tries : Nat, bos : Conns \cup {None}, nav : Conns \cup {None},
            pend : Seq(Rooms), dangling : BOOLEAN]

Typed(s) ==
    /\ s.acct \in Account
    /\ DOMAIN s.conns \subseteq Conns /\ \A c \in DOMAIN s.conns : s.conns[c] \in Conn
    /\ s.src \in [Conns -> {"none", "connected", "event", "dead"}]
    /\ s.list \in Seq(Chats)
    /\ DOMAIN s.chats \subseteq Chats /\ \A k \in DOMAIN s.chats : s.chats[k] \in Chat
    /\ s.wins \in [Rooms -> Chats \cup {Shut, None}]

Shape(s) ==
    s = [acct |-> s.acct, conns |-> s.conns, src |-> s.src, list |-> s.list,
         chats |-> s.chats, wins |-> s.wins, harm |-> s.harm, past |-> s.past]

-----------------------------------------------------------------------------
(* What the server is asked for.                                           *)
Clean(s) == s.past \cap {"lost", "twice", "kept"} = {}

Joins(q) == q.m \in {"created", "chat"}

MayOwe(type) ==
    IF type = "auth" THEN {"key", "login"}
    ELSE IF type = "bos"
    THEN {"online", "versions", "rates", "rights", "list", "nav", "chat"}
    ELSE IF type = "nav" THEN {"online", "versions", "rates", "info", "created"}
    ELSE {"online", "versions", "rates"}

Numbers(s, c) == 1 .. Len(s.conns[c].owes)

(* What a connection is owed depends on what it is for; bos_conn is set    *)
(* before the list is asked for, and only an account that is online asks   *)
(* for another server.                                                     *)
Proper(s, c, q) ==
    /\ q.m \in MayOwe(s.conns[c].type)
    /\ Joins(q) => q.room \in Rooms
    /\ s.src[c] # "none" /\ q.m = "list" => s.acct.bos = c
    /\ q.m \in {"nav", "chat"} => s.acct.connected

Owed(s) == \A c \in DOMAIN s.conns : \A i \in Numbers(s, c) : Proper(s, c, s.conns[c].owes[i])

(* A room is asked for once, and not if it is there.                       *)
Asks(s, c, i, r) == Joins(s.conns[c].owes[i]) /\ s.conns[c].owes[i].room = r

Idle(s, r) ==
    /\ \A i \in 1 .. Len(s.acct.pend) : s.acct.pend[i] # r
    /\ \A c \in DOMAIN s.conns : \A i \in Numbers(s, c) : ~Asks(s, c, i, r)

There(s, r) == \E k \in DOMAIN s.chats : s.chats[k].room = r

Once(s) ==
    Clean(s) =>
       /\ \A i, j \in 1 .. Len(s.acct.pend) : s.acct.pend[i] = s.acct.pend[j] => i = j
       /\ \A c, d \in DOMAIN s.conns : \A i \in Numbers(s, c), j \in Numbers(s, d) :
             Joins(s.conns[c].owes[i]) /\ Asks(s, d, j, s.conns[c].owes[i].room)
             => c = d /\ i = j
       /\ \A c \in DOMAIN s.conns : \A i \in Numbers(s, c), j \in 1 .. Len(s.acct.pend) :
             ~Asks(s, c, i, s.acct.pend[j])
       /\ \A k \in DOMAIN s.chats : Idle(s, s.chats[k].room)

-----------------------------------------------------------------------------
(* Sources, connections, rooms and windows.                                *)
Matched(s) ==
    \A c \in Conns : s.src[c] # "none" =>
       /\ c \in DOMAIN s.conns
       /\ s.src[c] = "connected" => s.conns[c].status = "inprogress"
       /\ s.src[c] = "event" => s.conns[c].status = "up"
       /\ s.src[c] = "dead" => s.conns[c].status = "closed"

(* One login at a time, and none while the account waits.                  *)
Logs(s, c) == s.conns[c].type \in {"auth", "bos"} /\ s.src[c] # "none"

NoLogin(s) == \A c \in DOMAIN s.conns : ~Logs(s, c)

OneLogin(s) ==
    /\ \A c, d \in DOMAIN s.conns : Logs(s, c) /\ Logs(s, d) => c = d
    /\ s.acct.disconnected /\ ~s.acct.reconnecting => NoLogin(s)

(* An account that is online has a connection to the basic service, and    *)
(* only such an account has others.                                        *)
Online(s) ==
    /\ s.acct.connected =>
          /\ ~s.acct.disconnected
          /\ s.acct.bos \in DOMAIN s.conns /\ s.conns[s.acct.bos].type = "bos"
          /\ s.src[s.acct.bos] \in {"event", "dead"}
    /\ \A c \in DOMAIN s.conns : s.conns[c].type \in {"nav", "chat"} => s.acct.connected

NavKnown(s) ==
    "lost" \notin s.past /\ s.acct.nav # None =>
       /\ s.acct.nav \in DOMAIN s.conns /\ s.conns[s.acct.nav].type = "nav"
       /\ s.conns[s.acct.nav].status # "inprogress"

GivenUp(s) == s.acct.dangling => "unjoined" \in s.past

Listed(s) ==
    /\ \A i, j \in 1 .. Len(s.list) : s.list[i] = s.list[j] => i = j
    /\ \A i \in 1 .. Len(s.list) : s.list[i] \in DOMAIN s.chats
    /\ \A k \in DOMAIN s.chats : \E i \in 1 .. Len(s.list) : s.list[i] = k

Paired(s) ==
    /\ \A k \in DOMAIN s.chats : s.chats[k].data =>
          /\ s.chats[k].conn \in DOMAIN s.conns
          /\ s.conns[s.chats[k].conn].type = "chat" /\ s.conns[s.chats[k].conn].chat = k
    /\ \A c \in DOMAIN s.conns : s.conns[c].type = "chat" =>
          /\ s.conns[c].chat \in DOMAIN s.chats
          /\ s.chats[s.conns[c].chat].data /\ s.chats[s.conns[c].chat].conn = c

Shown(s) ==
    \A r \in Rooms : s.wins[r] \in Chats =>
       s.wins[r] \in DOMAIN s.chats /\ s.chats[s.wins[r]].room = r

Kept(s) ==
    Clean(s) => \A k \in DOMAIN s.chats :
       s.chats[k].data /\ s.chats[k].win /\ s.wins[s.chats[k].room] = k

Awake(s, rejoin) ==
    Clean(s) => \A k \in DOMAIN s.chats : s.src[s.chats[k].conn] = "none" => rejoin

-----------------------------------------------------------------------------
Asked(s) == Owed(s) /\ Once(s)

Held(s) == Listed(s) /\ Paired(s) /\ Shown(s) /\ Kept(s)

Linked(s) == Matched(s) /\ OneLogin(s) /\ Online(s) /\ NavKnown(s) /\ GivenUp(s) /\ Held(s)

(* All but that the rooms have sources.                                    *)
Sound(s) == Typed(s) /\ Asked(s) /\ Linked(s)

Ways == {"lost", "unjoined", "twice", "kept", "late", "refused"}

Excused(s) == s.past \cap Ways # {}

(* The states that the operations lead from and to.                        *)
Good(s, rejoin) ==
    /\ Shape(s)
    /\ s.harm = {} => Sound(s) /\ Awake(s, rejoin)
    /\ s.harm # {} => Excused(s)

LeftOK == left \in [joins : Nat, ends : Nat, fails : Nat, minutes : Nat,
                    auto : BOOLEAN, rejoin : BOOLEAN]

SessInv == Good(Now, left.rejoin) /\ LeftOK

-----------------------------------------------------------------------------
(* Records.                                                                *)
Rec(a, b, c, d, e, f, g, h) ==
    [acct |-> a, conns |-> b, src |-> c, list |-> d, chats |-> e, wins |-> f,
     harm |-> g, past |-> h]

LEMMA FieldsAre ==
    ASSUME NEW s, Shape(s), NEW v
    PROVE  /\ [s EXCEPT !.acct = v] = Rec(v, s.conns, s.src, s.list, s.chats, s.wins, s.harm, s.past)
           /\ [s EXCEPT !.conns = v] = Rec(s.acct, v, s.src, s.list, s.chats, s.wins, s.harm, s.past)
           /\ [s EXCEPT !.src = v] = Rec(s.acct, s.conns, v, s.list, s.chats, s.wins, s.harm, s.past)
           /\ [s EXCEPT !.list = v] = Rec(s.acct, s.conns, s.src, v, s.chats, s.wins, s.harm, s.past)
           /\ [s EXCEPT !.chats = v] = Rec(s.acct, s.conns, s.src, s.list, v, s.wins, s.harm, s.past)
           /\ [s EXCEPT !.wins = v] = Rec(s.acct, s.conns, s.src, s.list, s.chats, v, s.harm, s.past)
           /\ [s EXCEPT !.harm = v] = Rec(s.acct, s.conns, s.src, s.list, s.chats, s.wins, v, s.past)
<1> DEFINE a == s.acct
           b == s.conns
           c == s.src
           d == s.list
           e == s.chats
           f == s.wins
           g == s.harm
           h == s.past
<1>1. s = Rec(a, b, c, d, e, f, g, h)
  BY DEF Shape, Rec
<1> HIDE DEF a, b, c, d, e, f, g, h
<1>2. /\ [s EXCEPT !.acct = v] = Rec(v, b, c, d, e, f, g, h)
      /\ [s EXCEPT !.conns = v] = Rec(a, v, c, d, e, f, g, h)
      /\ [s EXCEPT !.src = v] = Rec(a, b, v, d, e, f, g, h)
      /\ [s EXCEPT !.list = v] = Rec(a, b, c, v, e, f, g, h)
      /\ [s EXCEPT !.chats = v] = Rec(a, b, c, d, v, f, g, h)
      /\ [s EXCEPT !.wins = v] = Rec(a, b, c, d, e, v, g, h)
      /\ [s EXCEPT !.harm = v] = Rec(a, b, c, d, e, f, v, h)
  BY <1>1 DEF Rec
<1> QED BY <1>2 DEF a, b, c, d, e, f, g, h

LEMMA PastFieldIs ==
    ASSUME NEW s, Shape(s), NEW v
    PROVE  [s EXCEPT !.past = v]
             = Rec(s.acct, s.conns, s.src, s.list, s.chats, s.wins, s.harm, v)
<1> DEFINE a == s.acct
           b == s.conns
           c == s.src
           d == s.list
           e == s.chats
           f == s.wins
           g == s.harm
           h == s.past
<1>1. s = Rec(a, b, c, d, e, f, g, h)
  BY DEF Shape, Rec
<1> HIDE DEF a, b, c, d, e, f, g, h
<1>2. [s EXCEPT !.past = v] = Rec(a, b, c, d, e, f, g, v)
  BY <1>1 DEF Rec
<1> QED BY <1>2 DEF a, b, c, d, e, f, g

LEMMA RecIs ==
    ASSUME NEW a, NEW b, NEW c, NEW d, NEW e, NEW f, NEW g, NEW h
    PROVE  LET s == Rec(a, b, c, d, e, f, g, h)
           IN  /\ Shape(s) /\ s.acct = a /\ s.conns = b /\ s.src = c /\ s.list = d
               /\ s.chats = e /\ s.wins = f /\ s.harm = g /\ s.past = h
BY DEF Rec, Shape

(* Two states that differ in nothing but the fields of a set.              *)
Same(s, t, changed) ==
    /\ "acct" \in changed \/ t.acct = s.acct
    /\ "conns" \in changed \/ t.conns = s.conns
    /\ "src" \in changed \/ t.src = s.src
    /\ "list" \in changed \/ t.list = s.list
    /\ "chats" \in changed \/ t.chats = s.chats
    /\ "wins" \in changed \/ t.wins = s.wins
    /\ "harm" \in changed \/ t.harm = s.harm
    /\ "past" \in changed \/ t.past = s.past

LEMMA AcctField ==
    ASSUME NEW s, Shape(s), NEW v
    PROVE  LET t == [s EXCEPT !.acct = v] IN Shape(t) /\ t.acct = v /\ Same(s, t, {"acct"})
<1> DEFINE r == Rec(v, s.conns, s.src, s.list, s.chats, s.wins, s.harm, s.past)
<1>1. [s EXCEPT !.acct = v] = r
  BY FieldsAre
<1>2. /\ Shape(r) /\ r.acct = v /\ r.conns = s.conns /\ r.src = s.src /\ r.list = s.list
      /\ r.chats = s.chats /\ r.wins = s.wins /\ r.harm = s.harm /\ r.past = s.past
  BY RecIs
<1> HIDE DEF r, Shape
<1> QED BY <1>1, <1>2 DEF Same

LEMMA ConnsField ==
    ASSUME NEW s, Shape(s), NEW v
    PROVE  LET t == [s EXCEPT !.conns = v] IN Shape(t) /\ t.conns = v /\ Same(s, t, {"conns"})
<1> DEFINE r == Rec(s.acct, v, s.src, s.list, s.chats, s.wins, s.harm, s.past)
<1>1. [s EXCEPT !.conns = v] = r
  BY FieldsAre
<1>2. /\ Shape(r) /\ r.acct = s.acct /\ r.conns = v /\ r.src = s.src /\ r.list = s.list
      /\ r.chats = s.chats /\ r.wins = s.wins /\ r.harm = s.harm /\ r.past = s.past
  BY RecIs
<1> HIDE DEF r, Shape
<1> QED BY <1>1, <1>2 DEF Same

LEMMA SrcField ==
    ASSUME NEW s, Shape(s), NEW v
    PROVE  LET t == [s EXCEPT !.src = v] IN Shape(t) /\ t.src = v /\ Same(s, t, {"src"})
<1> DEFINE r == Rec(s.acct, s.conns, v, s.list, s.chats, s.wins, s.harm, s.past)
<1>1. [s EXCEPT !.src = v] = r
  BY FieldsAre
<1>2. /\ Shape(r) /\ r.acct = s.acct /\ r.conns = s.conns /\ r.src = v /\ r.list = s.list
      /\ r.chats = s.chats /\ r.wins = s.wins /\ r.harm = s.harm /\ r.past = s.past
  BY RecIs
<1> HIDE DEF r, Shape
<1> QED BY <1>1, <1>2 DEF Same

LEMMA ListField ==
    ASSUME NEW s, Shape(s), NEW v
    PROVE  LET t == [s EXCEPT !.list = v] IN Shape(t) /\ t.list = v /\ Same(s, t, {"list"})
<1> DEFINE r == Rec(s.acct, s.conns, s.src, v, s.chats, s.wins, s.harm, s.past)
<1>1. [s EXCEPT !.list = v] = r
  BY FieldsAre
<1>2. /\ Shape(r) /\ r.acct = s.acct /\ r.conns = s.conns /\ r.src = s.src /\ r.list = v
      /\ r.chats = s.chats /\ r.wins = s.wins /\ r.harm = s.harm /\ r.past = s.past
  BY RecIs
<1> HIDE DEF r, Shape
<1> QED BY <1>1, <1>2 DEF Same

LEMMA ChatsField ==
    ASSUME NEW s, Shape(s), NEW v
    PROVE  LET t == [s EXCEPT !.chats = v] IN Shape(t) /\ t.chats = v /\ Same(s, t, {"chats"})
<1> DEFINE r == Rec(s.acct, s.conns, s.src, s.list, v, s.wins, s.harm, s.past)
<1>1. [s EXCEPT !.chats = v] = r
  BY FieldsAre
<1>2. /\ Shape(r) /\ r.acct = s.acct /\ r.conns = s.conns /\ r.src = s.src /\ r.list = s.list
      /\ r.chats = v /\ r.wins = s.wins /\ r.harm = s.harm /\ r.past = s.past
  BY RecIs
<1> HIDE DEF r, Shape
<1> QED BY <1>1, <1>2 DEF Same

LEMMA WinsField ==
    ASSUME NEW s, Shape(s), NEW v
    PROVE  LET t == [s EXCEPT !.wins = v] IN Shape(t) /\ t.wins = v /\ Same(s, t, {"wins"})
<1> DEFINE r == Rec(s.acct, s.conns, s.src, s.list, s.chats, v, s.harm, s.past)
<1>1. [s EXCEPT !.wins = v] = r
  BY FieldsAre
<1>2. /\ Shape(r) /\ r.acct = s.acct /\ r.conns = s.conns /\ r.src = s.src /\ r.list = s.list
      /\ r.chats = s.chats /\ r.wins = v /\ r.harm = s.harm /\ r.past = s.past
  BY RecIs
<1> HIDE DEF r, Shape
<1> QED BY <1>1, <1>2 DEF Same

LEMMA HarmField ==
    ASSUME NEW s, Shape(s), NEW v
    PROVE  LET t == [s EXCEPT !.harm = v] IN Shape(t) /\ t.harm = v /\ Same(s, t, {"harm"})
<1> DEFINE r == Rec(s.acct, s.conns, s.src, s.list, s.chats, s.wins, v, s.past)
<1>1. [s EXCEPT !.harm = v] = r
  BY FieldsAre
<1>2. /\ Shape(r) /\ r.acct = s.acct /\ r.conns = s.conns /\ r.src = s.src /\ r.list = s.list
      /\ r.chats = s.chats /\ r.wins = s.wins /\ r.harm = v /\ r.past = s.past
  BY RecIs
<1> HIDE DEF r, Shape
<1> QED BY <1>1, <1>2 DEF Same

LEMMA PastField ==
    ASSUME NEW s, Shape(s), NEW v
    PROVE  LET t == [s EXCEPT !.past = v] IN Shape(t) /\ t.past = v /\ Same(s, t, {"past"})
<1> DEFINE r == Rec(s.acct, s.conns, s.src, s.list, s.chats, s.wins, s.harm, v)
<1>1. [s EXCEPT !.past = v] = r
  BY PastFieldIs
<1>2. /\ Shape(r) /\ r.acct = s.acct /\ r.conns = s.conns /\ r.src = s.src /\ r.list = s.list
      /\ r.chats = s.chats /\ r.wins = s.wins /\ r.harm = s.harm /\ r.past = v
  BY RecIs
<1> HIDE DEF r, Shape
<1> QED BY <1>1, <1>2 DEF Same

-----------------------------------------------------------------------------
(* What the server is asked for, when there is less of it or more.         *)

(* Every request of t is one of s, with the number that shift says.        *)
Fewer(s, t, shift) ==
    /\ s.past \subseteq t.past
    /\ t.acct.bos = s.acct.bos /\ (s.acct.connected => t.acct.connected)
    /\ Len(t.acct.pend) \in Nat /\ Len(t.acct.pend) <= Len(s.acct.pend)
    /\ \A i \in 1 .. Len(t.acct.pend) : t.acct.pend[i] = s.acct.pend[i]
    /\ \A k \in DOMAIN t.chats : k \in DOMAIN s.chats /\ t.chats[k].room = s.chats[k].room
    /\ \A c \in DOMAIN t.conns : \A i \in Numbers(t, c) :
          /\ c \in DOMAIN s.conns /\ t.conns[c].type = s.conns[c].type
          /\ t.src[c] # "none" => s.src[c] # "none"
          /\ shift[c] \in Nat /\ i + shift[c] \in Numbers(s, c)
          /\ t.conns[c].owes[i].m = s.conns[c].owes[i + shift[c]].m
          /\ t.conns[c].owes[i].room = s.conns[c].owes[i + shift[c]].room

LEMMA CleanBefore ==
    ASSUME NEW s, NEW t, s.past \subseteq t.past, Clean(t)
    PROVE  Clean(s)
BY DEF Clean

LEMMA AskedFewer ==
    ASSUME NEW s, NEW t, NEW shift, Asked(s), Len(s.acct.pend) \in Nat, Fewer(s, t, shift)
    PROVE  Asked(t)
<1>1. Owed(t)
  <2> SUFFICES ASSUME NEW c \in DOMAIN t.conns, NEW i \in Numbers(t, c)
               PROVE  Proper(t, c, t.conns[c].owes[i])
    BY DEF Owed
  <2>1. /\ c \in DOMAIN s.conns /\ t.conns[c].type = s.conns[c].type
        /\ t.src[c] # "none" => s.src[c] # "none"
        /\ i + shift[c] \in Numbers(s, c)
        /\ t.conns[c].owes[i].m = s.conns[c].owes[i + shift[c]].m
        /\ t.conns[c].owes[i].room = s.conns[c].owes[i + shift[c]].room
        /\ t.acct.bos = s.acct.bos /\ (s.acct.connected => t.acct.connected)
    BY DEF Fewer
  <2>2. Proper(s, c, s.conns[c].owes[i + shift[c]])
    BY <2>1 DEF Asked, Owed
  <2> QED BY <2>1, <2>2 DEF Proper, Joins
<1>2. ASSUME Clean(t) PROVE Once(t)
  <2>1. /\ \A i, j \in 1 .. Len(s.acct.pend) : s.acct.pend[i] = s.acct.pend[j] => i = j
        /\ \A c, d \in DOMAIN s.conns : \A i \in Numbers(s, c), j \in Numbers(s, d) :
              Joins(s.conns[c].owes[i]) /\ Asks(s, d, j, s.conns[c].owes[i].room)
              => c = d /\ i = j
        /\ \A c \in DOMAIN s.conns : \A i \in Numbers(s, c), j \in 1 .. Len(s.acct.pend) :
              ~Asks(s, c, i, s.acct.pend[j])
        /\ \A k \in DOMAIN s.chats : Idle(s, s.chats[k].room)
    <3>1. Clean(s)
      BY <1>2, CleanBefore DEF Fewer
    <3> QED BY <3>1 DEF Asked, Once
  <2>2. \A i \in 1 .. Len(t.acct.pend) : i \in 1 .. Len(s.acct.pend) /\ t.acct.pend[i] = s.acct.pend[i]
    BY DEF Fewer
  <2>3. \A c \in DOMAIN t.conns : \A i \in Numbers(t, c) :
           /\ c \in DOMAIN s.conns /\ shift[c] \in Nat /\ i + shift[c] \in Numbers(s, c)
           /\ \A r : Asks(t, c, i, r) <=> Asks(s, c, i + shift[c], r)
           /\ Joins(t.conns[c].owes[i]) <=> Joins(s.conns[c].owes[i + shift[c]])
           /\ t.conns[c].owes[i].room = s.conns[c].owes[i + shift[c]].room
    BY DEF Fewer, Asks, Joins
  <2>4. \A k \in DOMAIN t.chats : k \in DOMAIN s.chats /\ t.chats[k].room = s.chats[k].room
    BY DEF Fewer
  <2>5. \A i, j \in 1 .. Len(t.acct.pend) : t.acct.pend[i] = t.acct.pend[j] => i = j
    BY <2>1, <2>2
  <2>6. ASSUME NEW c \in DOMAIN t.conns, NEW d \in DOMAIN t.conns,
               NEW i \in Numbers(t, c), NEW j \in Numbers(t, d),
               Joins(t.conns[c].owes[i]), Asks(t, d, j, t.conns[c].owes[i].room)
        PROVE  c = d /\ i = j
    <3>1. /\ c \in DOMAIN s.conns /\ i + shift[c] \in Numbers(s, c) /\ shift[c] \in Nat
          /\ Joins(s.conns[c].owes[i + shift[c]])
          /\ t.conns[c].owes[i].room = s.conns[c].owes[i + shift[c]].room
      BY <2>3, <2>6
    <3>2. /\ d \in DOMAIN s.conns /\ j + shift[d] \in Numbers(s, d) /\ shift[d] \in Nat
          /\ Asks(s, d, j + shift[d], t.conns[c].owes[i].room)
      BY <2>3, <2>6
    <3>3. c = d /\ i + shift[c] = j + shift[d]
      BY <2>1, <3>1, <3>2
    <3>4. i \in Int /\ j \in Int
      BY DEF Numbers
    <3> QED BY <3>1, <3>2, <3>3, <3>4
  <2>7. ASSUME NEW c \in DOMAIN t.conns, NEW i \in Numbers(t, c), NEW j \in 1 .. Len(t.acct.pend)
        PROVE  ~Asks(t, c, i, t.acct.pend[j])
    BY <2>1, <2>2, <2>3
  <2>8. ASSUME NEW k \in DOMAIN t.chats PROVE Idle(t, t.chats[k].room)
    <3>1. Idle(s, t.chats[k].room)
      BY <2>1, <2>4
    <3> QED BY <2>2, <2>3, <3>1 DEF Idle
  <2> QED BY <2>5, <2>6, <2>7, <2>8 DEF Once
<1> QED BY <1>1, <1>2 DEF Asked, Once

(* One more request, which is for a room that nobody waits for or not for  *)
(* a room.                                                                 *)
More(s, t, c, q) ==
    /\ s.past \subseteq t.past
    /\ t.acct = s.acct /\ t.src = s.src
    /\ t.chats = s.chats
    /\ DOMAIN t.conns = DOMAIN s.conns /\ c \in DOMAIN s.conns
    /\ \A d \in DOMAIN s.conns : t.conns[d].type = s.conns[d].type
    /\ \A d \in DOMAIN s.conns : d # c => t.conns[d].owes = s.conns[d].owes
    /\ Len(s.conns[c].owes) \in Nat
    /\ Len(t.conns[c].owes) = Len(s.conns[c].owes) + 1
    /\ \A i \in Numbers(s, c) : t.conns[c].owes[i] = s.conns[c].owes[i]
    /\ t.conns[c].owes[Len(s.conns[c].owes) + 1] = q

LEMMA AskedMore ==
    ASSUME NEW s, NEW t, NEW c, NEW q, Asked(s), More(s, t, c, q), Proper(t, c, q),
           Joins(q) /\ Clean(t) => Idle(s, q.room) /\ ~There(s, q.room)
    PROVE  Asked(t)
<1> DEFINE n == Len(s.conns[c].owes) + 1
<1>1. n \in Nat /\ Numbers(t, c) = Numbers(s, c) \cup {n} /\ n \notin Numbers(s, c)
  BY DEF More, Numbers
<1>2. /\ DOMAIN t.conns = DOMAIN s.conns /\ c \in DOMAIN s.conns
      /\ \A d \in DOMAIN s.conns : d # c =>
            Numbers(t, d) = Numbers(s, d) /\ t.conns[d].owes = s.conns[d].owes
      /\ \A i \in Numbers(s, c) : t.conns[c].owes[i] = s.conns[c].owes[i]
      /\ t.conns[c].owes[n] = q
  BY DEF More, Numbers
<1> HIDE DEF n
<1>3. \A d \in DOMAIN s.conns : \A i \in Numbers(t, d) :
         \/ i \in Numbers(s, d) /\ t.conns[d].owes[i] = s.conns[d].owes[i]
         \/ d = c /\ i = n /\ t.conns[d].owes[i] = q
  BY <1>1, <1>2
<1>4. Owed(t)
  <2> SUFFICES ASSUME NEW d \in DOMAIN s.conns, NEW i \in Numbers(t, d)
               PROVE  Proper(t, d, t.conns[d].owes[i])
    BY <1>2 DEF Owed
  <2>1. CASE d = c /\ i = n /\ t.conns[d].owes[i] = q
    BY <2>1
  <2>2. CASE i \in Numbers(s, d) /\ t.conns[d].owes[i] = s.conns[d].owes[i]
    <3>1. Proper(s, d, s.conns[d].owes[i])
      BY <2>2 DEF Asked, Owed
    <3> QED BY <2>2, <3>1 DEF Proper, More
  <2> QED BY <1>3, <2>1, <2>2
<1>5. ASSUME Clean(t) PROVE Once(t)
  <2>1. /\ \A i, j \in 1 .. Len(s.acct.pend) : s.acct.pend[i] = s.acct.pend[j] => i = j
        /\ \A a, d \in DOMAIN s.conns : \A i \in Numbers(s, a), j \in Numbers(s, d) :
              Joins(s.conns[a].owes[i]) /\ Asks(s, d, j, s.conns[a].owes[i].room)
              => a = d /\ i = j
        /\ \A a \in DOMAIN s.conns : \A i \in Numbers(s, a), j \in 1 .. Len(s.acct.pend) :
              ~Asks(s, a, i, s.acct.pend[j])
        /\ \A k \in DOMAIN s.chats : Idle(s, s.chats[k].room)
    <3>1. Clean(s)
      BY <1>5, CleanBefore DEF More
    <3> QED BY <3>1 DEF Asked, Once
  <2>2. t.acct = s.acct /\ t.chats = s.chats
    BY DEF More
  <2>3. Joins(q) => Idle(s, q.room) /\ \A k \in DOMAIN s.chats : s.chats[k].room # q.room
    BY <1>5 DEF There
  <2>4. \A d \in DOMAIN s.conns : \A i \in Numbers(t, d) :
           \/ i \in Numbers(s, d) /\ t.conns[d].owes[i] = s.conns[d].owes[i]
              /\ \A r : Asks(t, d, i, r) <=> Asks(s, d, i, r)
           \/ d = c /\ i = n /\ t.conns[d].owes[i] = q
              /\ \A r : Asks(t, d, i, r) <=> Joins(q) /\ q.room = r
    BY <1>3 DEF Asks
  <2>5. ASSUME NEW a \in DOMAIN s.conns, NEW d \in DOMAIN s.conns,
               NEW i \in Numbers(t, a), NEW j \in Numbers(t, d),
               Joins(t.conns[a].owes[i]), Asks(t, d, j, t.conns[a].owes[i].room)
        PROVE  a = d /\ i = j
    <3>1. CASE /\ i \in Numbers(s, a) /\ t.conns[a].owes[i] = s.conns[a].owes[i]
               /\ j \in Numbers(s, d) /\ \A r : Asks(t, d, j, r) <=> Asks(s, d, j, r)
      BY <2>1, <2>5, <3>1
    <3>2. CASE /\ a = c /\ i = n /\ t.conns[a].owes[i] = q
               /\ j \in Numbers(s, d) /\ \A r : Asks(t, d, j, r) <=> Asks(s, d, j, r)
      BY <2>3, <2>5, <3>2 DEF Idle
    <3>3. CASE /\ i \in Numbers(s, a) /\ t.conns[a].owes[i] = s.conns[a].owes[i]
               /\ d = c /\ j = n /\ \A r : Asks(t, d, j, r) <=> Joins(q) /\ q.room = r
      <4>1. Joins(q) /\ q.room = s.conns[a].owes[i].room /\ Asks(s, a, i, q.room)
        BY <2>5, <3>3 DEF Asks
      <4> QED BY <2>3, <3>3, <4>1 DEF Idle
    <3>4. CASE a = c /\ i = n /\ d = c /\ j = n
      BY <3>4
    <3> QED BY <2>4, <3>1, <3>2, <3>3, <3>4
  <2>6. ASSUME NEW d \in DOMAIN s.conns, NEW i \in Numbers(t, d), NEW j \in 1 .. Len(s.acct.pend)
        PROVE  ~Asks(t, d, i, s.acct.pend[j])
    BY <2>1, <2>3, <2>4 DEF Idle
  <2>7. ASSUME NEW k \in DOMAIN s.chats PROVE Idle(t, s.chats[k].room)
    <3>1. Idle(s, s.chats[k].room)
      BY <2>1
    <3>2. ASSUME NEW d \in DOMAIN s.conns, NEW i \in Numbers(t, d)
          PROVE  ~Asks(t, d, i, s.chats[k].room)
      BY <2>3, <2>4, <3>1 DEF Idle
    <3> QED BY <1>2, <2>2, <3>1, <3>2 DEF Idle
  <2> QED BY <1>2, <2>1, <2>2, <2>5, <2>6, <2>7 DEF Once
<1> QED BY <1>4, <1>5 DEF Asked, Once

(* A room waits for the chatnav connection.                                *)
LEMMA AskedPend ==
    ASSUME NEW s, NEW t, NEW r, Asked(s), Len(s.acct.pend) \in Nat,
           s.past \subseteq t.past, t.conns = s.conns, t.src = s.src, t.chats = s.chats,
           t.acct.bos = s.acct.bos, t.acct.connected = s.acct.connected,
           Len(t.acct.pend) = Len(s.acct.pend) + 1, t.acct.pend[1] = r,
           \A i \in 1 .. Len(s.acct.pend) : t.acct.pend[i + 1] = s.acct.pend[i],
           Clean(t) => Idle(s, r) /\ ~There(s, r)
    PROVE  Asked(t)
<1>1. Owed(t)
  BY DEF Asked, Owed, Proper, Numbers
<1>2. ASSUME Clean(t) PROVE Once(t)
  <2>1. /\ \A i, j \in 1 .. Len(s.acct.pend) : s.acct.pend[i] = s.acct.pend[j] => i = j
        /\ \A c, d \in DOMAIN s.conns : \A i \in Numbers(s, c), j \in Numbers(s, d) :
              Joins(s.conns[c].owes[i]) /\ Asks(s, d, j, s.conns[c].owes[i].room)
              => c = d /\ i = j
        /\ \A c \in DOMAIN s.conns : \A i \in Numbers(s, c), j \in 1 .. Len(s.acct.pend) :
              ~Asks(s, c, i, s.acct.pend[j])
        /\ \A k \in DOMAIN s.chats : Idle(s, s.chats[k].room)
    <3>1. Clean(s)
      BY <1>2, CleanBefore
    <3> QED BY <3>1 DEF Asked, Once
  <2>2. /\ \A i \in 1 .. Len(s.acct.pend) : s.acct.pend[i] # r
        /\ \A c \in DOMAIN s.conns : \A i \in Numbers(s, c) : ~Asks(s, c, i, r)
        /\ \A k \in DOMAIN s.chats : s.chats[k].room # r
    BY <1>2 DEF Idle, There
  <2>3. \A i \in 1 .. Len(t.acct.pend) :
           \/ i = 1 /\ t.acct.pend[i] = r
           \/ i - 1 \in 1 .. Len(s.acct.pend) /\ t.acct.pend[i] = s.acct.pend[i - 1]
    <3> TAKE i \in 1 .. Len(t.acct.pend)
    <3>1. CASE i # 1
      <4>1. i - 1 \in 1 .. Len(s.acct.pend) /\ (i - 1) + 1 = i
        BY <3>1
      <4> QED BY <4>1
    <3> QED BY <3>1
  <2>4. /\ \A c : Numbers(t, c) = Numbers(s, c)
        /\ \A c, i, x : Asks(t, c, i, x) <=> Asks(s, c, i, x)
    BY DEF Numbers, Asks
  <2>5. ASSUME NEW i \in 1 .. Len(t.acct.pend), NEW j \in 1 .. Len(t.acct.pend),
               t.acct.pend[i] = t.acct.pend[j]
        PROVE  i = j
    <3>1. CASE i = 1 /\ t.acct.pend[i] = r
      BY <2>2, <2>3, <2>5, <3>1
    <3>2. CASE i - 1 \in 1 .. Len(s.acct.pend) /\ t.acct.pend[i] = s.acct.pend[i - 1]
      <4>1. j - 1 \in 1 .. Len(s.acct.pend) /\ t.acct.pend[j] = s.acct.pend[j - 1]
        BY <2>2, <2>3, <2>5, <3>2
      <4>2. i - 1 = j - 1
        BY <2>1, <2>5, <3>2, <4>1
      <4> QED BY <4>2
    <3> QED BY <2>3, <3>1, <3>2
  <2>6. ASSUME NEW c \in DOMAIN t.conns, NEW i \in Numbers(t, c), NEW j \in 1 .. Len(t.acct.pend)
        PROVE  ~Asks(t, c, i, t.acct.pend[j])
    BY <2>1, <2>2, <2>3, <2>4
  <2>7. ASSUME NEW k \in DOMAIN t.chats PROVE Idle(t, t.chats[k].room)
    <3>1. Idle(s, t.chats[k].room) /\ t.chats[k].room # r
      BY <2>1, <2>2
    <3>2. \A i \in 1 .. Len(t.acct.pend) : t.acct.pend[i] # t.chats[k].room
      BY <2>3, <3>1 DEF Idle
    <3> QED BY <2>4, <3>1, <3>2 DEF Idle
  <2>8. \A c, d \in DOMAIN t.conns : \A i \in Numbers(t, c), j \in Numbers(t, d) :
           Joins(t.conns[c].owes[i]) /\ Asks(t, d, j, t.conns[c].owes[i].room) => c = d /\ i = j
    BY <2>1, <2>4
  <2> QED BY <2>5, <2>6, <2>7, <2>8 DEF Once
<1> QED BY <1>1, <1>2 DEF Asked, Once

(* A room is there.                                                        *)
LEMMA AskedChat ==
    ASSUME NEW s, NEW t, NEW r, Asked(s), s.past \subseteq t.past, t.acct = s.acct,
           DOMAIN t.conns = DOMAIN s.conns,
           \A c \in DOMAIN s.conns : t.conns[c].type = s.conns[c].type
                                     /\ t.conns[c].owes = s.conns[c].owes,
           t.src = s.src,
           \A k \in DOMAIN t.chats : t.chats[k].room = r
                                     \/ (k \in DOMAIN s.chats /\ t.chats[k].room = s.chats[k].room),
           Clean(t) => Idle(s, r)
    PROVE  Asked(t)
<1>1. Owed(t)
  BY DEF Asked, Owed, Proper, Numbers
<1>2. ASSUME Clean(t) PROVE Once(t)
  <2>1. Clean(s)
    BY <1>2, CleanBefore
  <2>2. \A c \in DOMAIN s.conns :
           Numbers(t, c) = Numbers(s, c) /\ \A i, x : Asks(t, c, i, x) <=> Asks(s, c, i, x)
    BY DEF Numbers, Asks
  <2>3. \A x : Idle(t, x) <=> Idle(s, x)
    BY <2>2 DEF Idle
  <2>4. \A k \in DOMAIN t.chats : Idle(t, t.chats[k].room)
    BY <1>2, <2>1, <2>3 DEF Asked, Once
  <2>5. \A c, d \in DOMAIN t.conns : \A i \in Numbers(t, c), j \in Numbers(t, d) :
           Joins(t.conns[c].owes[i]) /\ Asks(t, d, j, t.conns[c].owes[i].room) => c = d /\ i = j
    BY <2>1, <2>2 DEF Asked, Once
  <2> QED BY <2>1, <2>2, <2>4, <2>5 DEF Asked, Once
<1> QED BY <1>1, <1>2 DEF Asked, Once

(* The rooms that waited are asked for, all of them.                       *)
All(s, t, c) ==
    /\ s.past \subseteq t.past
    /\ t.acct.bos = s.acct.bos /\ t.acct.connected = s.acct.connected /\ t.acct.pend = <<>>
    /\ t.src = s.src /\ t.chats = s.chats
    /\ DOMAIN t.conns = DOMAIN s.conns /\ c \in DOMAIN s.conns /\ s.conns[c].type = "nav"
    /\ \A d \in DOMAIN s.conns : t.conns[d].type = s.conns[d].type
    /\ \A d \in DOMAIN s.conns : d # c => t.conns[d].owes = s.conns[d].owes
    /\ Len(s.conns[c].owes) \in Nat /\ s.acct.pend \in Seq(Rooms)
    /\ Len(t.conns[c].owes) = Len(s.conns[c].owes) + Len(s.acct.pend)
    /\ \A i \in 1 .. Len(s.conns[c].owes) : t.conns[c].owes[i] = s.conns[c].owes[i]
    /\ \A i \in 1 .. Len(s.acct.pend) :
          /\ t.conns[c].owes[Len(s.conns[c].owes) + i].m = "created"
          /\ t.conns[c].owes[Len(s.conns[c].owes) + i].room = s.acct.pend[i]

LEMMA AskedAll ==
    ASSUME NEW s, NEW t, NEW c, Asked(s), All(s, t, c)
    PROVE  Asked(t)
<1> DEFINE n == Len(s.conns[c].owes)
           p == s.acct.pend
<1>1. n \in Nat /\ Len(p) \in Nat /\ p \in Seq(Rooms)
  BY LenProperties DEF All
<1>0. /\ DOMAIN t.conns = DOMAIN s.conns /\ c \in DOMAIN s.conns
      /\ \A d \in DOMAIN s.conns : d # c => Numbers(t, d) = Numbers(s, d)
                                            /\ t.conns[d].owes = s.conns[d].owes
      /\ Numbers(s, c) = 1 .. n /\ Numbers(t, c) = 1 .. (n + Len(p))
      /\ \A i \in 1 .. n : t.conns[c].owes[i] = s.conns[c].owes[i]
      /\ \A i \in 1 .. Len(p) : /\ t.conns[c].owes[n + i].m = "created"
                                /\ t.conns[c].owes[n + i].room = p[i]
  BY DEF All, Numbers
<1> HIDE DEF n, p
<1>2. \A d \in DOMAIN s.conns : \A i \in Numbers(t, d) :
         \/ i \in Numbers(s, d) /\ t.conns[d].owes[i] = s.conns[d].owes[i]
         \/ /\ d = c /\ i - n \in 1 .. Len(p) /\ t.conns[d].owes[i].m = "created"
            /\ t.conns[d].owes[i].room = p[i - n]
  <2> TAKE d \in DOMAIN s.conns
  <2> TAKE i \in Numbers(t, d)
  <2>1. CASE d # c
    BY <1>0, <2>1
  <2>2. CASE d = c /\ i <= n
    BY <1>0, <1>1, <2>2
  <2>3. CASE d = c /\ ~(i <= n)
    <3>1. i - n \in 1 .. Len(p) /\ n + (i - n) = i
      BY <1>0, <1>1, <2>3
    <3> QED BY <1>0, <2>3, <3>1
  <2> QED BY <2>1, <2>2, <2>3
<1>3. Owed(t)
  <2> SUFFICES ASSUME NEW d \in DOMAIN s.conns, NEW i \in Numbers(t, d)
               PROVE  Proper(t, d, t.conns[d].owes[i])
    BY <1>0 DEF Owed
  <2>1. CASE /\ d = c /\ i - n \in 1 .. Len(p) /\ t.conns[d].owes[i].m = "created"
             /\ t.conns[d].owes[i].room = p[i - n]
    <3>1. p[i - n] \in Rooms
      BY <1>1, <2>1
    <3> QED BY <2>1, <3>1 DEF Proper, MayOwe, Joins, All
  <2>2. CASE i \in Numbers(s, d) /\ t.conns[d].owes[i] = s.conns[d].owes[i]
    <3>1. Proper(s, d, s.conns[d].owes[i])
      BY <2>2 DEF Asked, Owed
    <3> QED BY <2>2, <3>1 DEF Proper, All
  <2> QED BY <1>2, <2>1, <2>2
<1>4. ASSUME Clean(t) PROVE Once(t)
  <2>1. /\ \A i, j \in 1 .. Len(p) : p[i] = p[j] => i = j
        /\ \A a, d \in DOMAIN s.conns : \A i \in Numbers(s, a), j \in Numbers(s, d) :
              Joins(s.conns[a].owes[i]) /\ Asks(s, d, j, s.conns[a].owes[i].room)
              => a = d /\ i = j
        /\ \A a \in DOMAIN s.conns : \A i \in Numbers(s, a), j \in 1 .. Len(p) :
              ~Asks(s, a, i, p[j])
        /\ \A k \in DOMAIN s.chats : Idle(s, s.chats[k].room)
    <3>1. Clean(s)
      BY <1>4, CleanBefore DEF All
    <3> QED BY <3>1 DEF Asked, Once, p
  <2>2. \A d \in DOMAIN s.conns : \A i \in Numbers(t, d) :
           \/ i \in Numbers(s, d) /\ t.conns[d].owes[i] = s.conns[d].owes[i]
              /\ \A r : Asks(t, d, i, r) <=> Asks(s, d, i, r)
           \/ d = c /\ i - n \in 1 .. Len(p) /\ t.conns[d].owes[i].room = p[i - n]
              /\ \A r : Asks(t, d, i, r) <=> p[i - n] = r
    BY <1>2 DEF Asks, Joins
  <2>3. ASSUME NEW a \in DOMAIN s.conns, NEW d \in DOMAIN s.conns,
               NEW i \in Numbers(t, a), NEW j \in Numbers(t, d),
               Joins(t.conns[a].owes[i]), Asks(t, d, j, t.conns[a].owes[i].room)
        PROVE  a = d /\ i = j
    <3>1. CASE /\ i \in Numbers(s, a) /\ t.conns[a].owes[i] = s.conns[a].owes[i]
               /\ j \in Numbers(s, d) /\ \A r : Asks(t, d, j, r) <=> Asks(s, d, j, r)
      BY <2>1, <2>3, <3>1
    <3>2. CASE /\ a = c /\ i - n \in 1 .. Len(p) /\ t.conns[a].owes[i].room = p[i - n]
               /\ j \in Numbers(s, d) /\ \A r : Asks(t, d, j, r) <=> Asks(s, d, j, r)
      BY <2>1, <2>3, <3>2
    <3>3. CASE /\ i \in Numbers(s, a) /\ t.conns[a].owes[i] = s.conns[a].owes[i]
               /\ d = c /\ j - n \in 1 .. Len(p) /\ \A r : Asks(t, d, j, r) <=> p[j - n] = r
      <4>1. Asks(s, a, i, p[j - n])
        BY <2>3, <3>3 DEF Asks
      <4> QED BY <2>1, <3>3, <4>1
    <3>4. CASE /\ a = c /\ i - n \in 1 .. Len(p) /\ t.conns[a].owes[i].room = p[i - n]
               /\ d = c /\ j - n \in 1 .. Len(p) /\ \A r : Asks(t, d, j, r) <=> p[j - n] = r
      <4>1. i - n = j - n
        BY <2>1, <2>3, <3>4
      <4>2. i \in Int /\ j \in Int
        BY DEF Numbers
      <4> QED BY <1>1, <3>4, <4>1, <4>2
    <3> QED BY <2>2, <3>1, <3>2, <3>3, <3>4
  <2>5. 1 .. Len(t.acct.pend) = {}
    <3>1. t.acct.pend = <<>>
      BY DEF All
    <3> QED BY <3>1
  <2>4. ASSUME NEW k \in DOMAIN t.chats PROVE Idle(t, t.chats[k].room)
    <3>1. Idle(s, t.chats[k].room)
      BY <2>1 DEF All
    <3>2. \A i \in 1 .. Len(p) : p[i] # t.chats[k].room
      BY <3>1 DEF Idle, p
    <3>3. ASSUME NEW d \in DOMAIN s.conns, NEW i \in Numbers(t, d)
          PROVE  ~Asks(t, d, i, t.chats[k].room)
      BY <2>2, <3>1, <3>2 DEF Idle
    <3>4. 1 .. Len(t.acct.pend) = {}
      BY <2>5
    <3> QED BY <1>0, <3>3, <3>4 DEF Idle
  <2>6. \A a \in DOMAIN t.conns : \A i \in Numbers(t, a), j \in 1 .. Len(t.acct.pend) :
           ~Asks(t, a, i, t.acct.pend[j])
    BY <2>5
  <2>7. \A i, j \in 1 .. Len(t.acct.pend) : t.acct.pend[i] = t.acct.pend[j] => i = j
    BY <2>5
  <2> QED BY <1>0, <2>3, <2>4, <2>6, <2>7 DEF Once
<1> QED BY <1>3, <1>4 DEF Asked, Once

-----------------------------------------------------------------------------
(* What only changes requests, the rooms that wait and the past leaves the *)
(* links as they are.                                                      *)
Unmoved(s, t) ==
    /\ s.past \subseteq t.past
    /\ t.src = s.src /\ t.list = s.list /\ t.chats = s.chats /\ t.wins = s.wins
    /\ DOMAIN t.conns = DOMAIN s.conns
    /\ \A c \in DOMAIN s.conns : /\ t.conns[c].type = s.conns[c].type
                                 /\ t.conns[c].status = s.conns[c].status
                                 /\ t.conns[c].chat = s.conns[c].chat
    /\ t.acct.connected = s.acct.connected /\ t.acct.disconnected = s.acct.disconnected
    /\ t.acct.reconnecting = s.acct.reconnecting
    /\ t.acct.bos = s.acct.bos /\ t.acct.nav = s.acct.nav
    /\ GivenUp(t)

(* The rooms know the connections as long as those of rooms stay.          *)
LEMMA PairedMoved ==
    ASSUME NEW s, NEW t, Paired(s), DOMAIN t.chats = DOMAIN s.chats,
           \A k \in DOMAIN s.chats : /\ t.chats[k].data = s.chats[k].data
                                     /\ t.chats[k].conn = s.chats[k].conn,
           \A c \in DOMAIN s.conns : s.conns[c].type = "chat" =>
              /\ c \in DOMAIN t.conns /\ t.conns[c].type = "chat"
              /\ t.conns[c].chat = s.conns[c].chat,
           \A c \in DOMAIN t.conns : t.conns[c].type = "chat" =>
              c \in DOMAIN s.conns /\ s.conns[c].type = "chat"
    PROVE  Paired(t)
<1>1. ASSUME NEW k \in DOMAIN t.chats, t.chats[k].data
      PROVE  /\ t.chats[k].conn \in DOMAIN t.conns
             /\ t.conns[t.chats[k].conn].type = "chat" /\ t.conns[t.chats[k].conn].chat = k
  <2>1. /\ s.chats[k].conn \in DOMAIN s.conns
        /\ s.conns[s.chats[k].conn].type = "chat" /\ s.conns[s.chats[k].conn].chat = k
    BY <1>1 DEF Paired
  <2> QED BY <1>1, <2>1
<1>2. ASSUME NEW c \in DOMAIN t.conns, t.conns[c].type = "chat"
      PROVE  /\ t.conns[c].chat \in DOMAIN t.chats
             /\ t.chats[t.conns[c].chat].data /\ t.chats[t.conns[c].chat].conn = c
  <2>1. /\ c \in DOMAIN s.conns /\ s.conns[c].type = "chat" /\ t.conns[c].chat = s.conns[c].chat
    BY <1>2
  <2>2. /\ s.conns[c].chat \in DOMAIN s.chats
        /\ s.chats[s.conns[c].chat].data /\ s.chats[s.conns[c].chat].conn = c
    BY <2>1 DEF Paired
  <2> QED BY <2>1, <2>2
<1> QED BY <1>1, <1>2 DEF Paired

LEMMA HeldSame ==
    ASSUME NEW s, NEW t, Held(s), s.past \subseteq t.past, t.conns = s.conns,
           t.list = s.list, t.chats = s.chats, t.wins = s.wins
    PROVE  Held(t)
<1>1. Listed(t)
  <2>1. Listed(s)
    BY DEF Held
  <2> QED BY <2>1 DEF Listed
<1>2. Paired(t)
  <2>1. Paired(s)
    BY DEF Held
  <2> QED BY <2>1, PairedMoved
<1>3. Shown(t)
  <2>1. Shown(s)
    BY DEF Held
  <2> QED BY <2>1 DEF Shown
<1>4. Kept(t)
  <2>1. Kept(s) /\ (Clean(t) => Clean(s))
    BY CleanBefore DEF Held
  <2> QED BY <2>1 DEF Kept
<1> QED BY <1>1, <1>2, <1>3, <1>4 DEF Held

LEMMA LinkedUnmoved ==
    ASSUME NEW s, NEW t, Linked(s), Unmoved(s, t)
    PROVE  Linked(t) /\ \A rejoin : Awake(s, rejoin) => Awake(t, rejoin)
<1>1. Clean(t) => Clean(s)
  BY CleanBefore DEF Unmoved
<1>2. Matched(t) /\ Online(t)
  BY DEF Linked, Unmoved, Matched, Online
<1>3. OneLogin(t)
  BY DEF Linked, Unmoved, OneLogin, NoLogin, Logs
<1>4. NavKnown(t)
  BY DEF Linked, Unmoved, NavKnown
<1>5. Listed(t) /\ Shown(t) /\ Kept(t)
  BY <1>1 DEF Linked, Unmoved, Held, Listed, Shown, Kept
<1>6. Paired(t)
  <2>1. Paired(s)
    BY DEF Linked, Held
  <2> QED BY <2>1, PairedMoved DEF Unmoved
<1>7. \A rejoin : Awake(s, rejoin) => Awake(t, rejoin)
  BY <1>1 DEF Unmoved, Awake
<1> QED BY <1>2, <1>3, <1>4, <1>5, <1>6, <1>7 DEF Linked, Unmoved, Held

-----------------------------------------------------------------------------
(* What the primitive operations do to the fields.                         *)
Worse(s, t) == Shape(t) /\ s.harm \subseteq t.harm /\ s.past \subseteq t.past

LEMMA StillExcused ==
    ASSUME NEW s, NEW t, NEW rejoin, Worse(s, t), Excused(s), s.harm # {}
    PROVE  Good(t, rejoin)
BY DEF Worse, Excused, Good

LEMMA WorseTwice ==
    ASSUME NEW s, NEW t, NEW u, Worse(s, t), Worse(t, u)
    PROVE  Worse(s, u)
BY DEF Worse

(* A connection of s is another in t.                                      *)
Put(s, c, v) == [s EXCEPT !.conns = [s.conns EXCEPT ![c] = v]]

LEMMA PutIs ==
    ASSUME NEW s, Shape(s), NEW c, NEW v
    PROVE  LET t == Put(s, c, v) IN
           /\ Shape(t) /\ Worse(s, t) /\ Same(s, t, {"conns"})
           /\ DOMAIN t.conns = DOMAIN s.conns
           /\ c \in DOMAIN s.conns => t.conns[c] = v
           /\ \A d \in DOMAIN s.conns : d # c => t.conns[d] = s.conns[d]
           /\ Typed(s) /\ (c \in DOMAIN s.conns => v \in Conn) => Typed(t)
<1> DEFINE f == [s.conns EXCEPT ![c] = v]
           t == Put(s, c, v)
<1>1. /\ DOMAIN f = DOMAIN s.conns /\ (c \in DOMAIN s.conns => f[c] = v)
      /\ \A d \in DOMAIN s.conns : d # c => f[d] = s.conns[d]
  OBVIOUS
<1>2. t = [s EXCEPT !.conns = f]
  BY DEF Put
<1> HIDE DEF f
<1>3. Shape(t) /\ t.conns = f /\ Same(s, t, {"conns"})
  <2> HIDE DEF t
  <2> QED BY <1>2, ConnsField
<1> HIDE DEF t
<1>4. Worse(s, t)
  BY <1>3 DEF Same, Worse
<1>5. ASSUME Typed(s), c \in DOMAIN s.conns => v \in Conn PROVE Typed(t)
  <2>1. \A d \in DOMAIN f : f[d] \in Conn
    BY <1>1, <1>5 DEF Typed
  <2> QED BY <1>1, <1>3, <1>5, <2>1 DEF Typed, Same
<1> QED BY <1>1, <1>3, <1>4, <1>5 DEF t

SetOwes(s, c, e) == [s EXCEPT !.conns[c].owes = e]

LEMMA OwesIs ==
    ASSUME NEW s, Shape(s), NEW c, NEW e
    PROVE  SetOwes(s, c, e) = Put(s, c, [s.conns[c] EXCEPT !.owes = e])
BY DEF Put, SetOwes

(* One connection is owed something else.                                  *)
Owing(s, t, c, e) ==
    /\ Shape(t) /\ Worse(s, t) /\ Same(s, t, {"conns"})
    /\ DOMAIN t.conns = DOMAIN s.conns
    /\ \A d \in DOMAIN s.conns : d # c => t.conns[d] = s.conns[d]
    /\ c \in DOMAIN s.conns /\ Typed(s) =>
         /\ t.conns[c].owes = e /\ t.conns[c].type = s.conns[c].type
         /\ t.conns[c].status = s.conns[c].status /\ t.conns[c].chat = s.conns[c].chat
         /\ e \in Seq(Message) => Typed(t)

LEMMA OwingIs ==
    ASSUME NEW s, Shape(s), NEW c, NEW e
    PROVE  Owing(s, SetOwes(s, c, e), c, e)
<1> DEFINE v == [s.conns[c] EXCEPT !.owes = e]
           t == Put(s, c, v)
<1>1. t = SetOwes(s, c, e)
  BY OwesIs
<1>2. ASSUME c \in DOMAIN s.conns, Typed(s)
      PROVE  /\ v.owes = e /\ v.type = s.conns[c].type
             /\ v.status = s.conns[c].status /\ v.chat = s.conns[c].chat
             /\ e \in Seq(Message) => v \in Conn
  <2>1. s.conns[c] \in Conn
    BY <1>2 DEF Typed
  <2> QED BY <2>1 DEF Conn
<1> HIDE DEF v
<1>3. /\ Shape(t) /\ Worse(s, t) /\ Same(s, t, {"conns"})
      /\ DOMAIN t.conns = DOMAIN s.conns
      /\ c \in DOMAIN s.conns => t.conns[c] = v
      /\ \A d \in DOMAIN s.conns : d # c => t.conns[d] = s.conns[d]
      /\ Typed(s) /\ (c \in DOMAIN s.conns => v \in Conn) => Typed(t)
  BY PutIs
<1> HIDE DEF t
<1>4. Owing(s, t, c, e)
  BY <1>2, <1>3 DEF Owing
<1> QED BY <1>1, <1>4

LEMMA SameIs ==
    ASSUME NEW s, NEW t, Shape(s), Shape(t), Same(s, t, {})
    PROVE  t = s
BY DEF Shape, Same

LEMMA HarmIs ==
    ASSUME NEW s, Shape(s), NEW w, NEW rejoin, Excused(s)
    PROVE  Worse(s, Harm(s, w)) /\ Good(Harm(s, w), rejoin)
<1> DEFINE t == Harm(s, w)
<1>1. Shape(t) /\ t.harm = s.harm \cup {w} /\ Same(s, t, {"harm"})
  BY HarmField DEF Harm
<1> HIDE DEF t
<1>2. t.past = s.past /\ w \in t.harm /\ s.harm \subseteq t.harm
  BY <1>1 DEF Same
<1>3. Worse(s, t) /\ Good(t, rejoin)
  BY <1>1, <1>2 DEF Worse, Good, Excused
<1> QED BY <1>3 DEF t

LEMMA AccountIs ==
    ASSUME NEW s, Shape(s), NEW a
    PROVE  LET t == [s EXCEPT !.acct = a] IN
           /\ Shape(t) /\ Worse(s, t) /\ t.acct = a /\ Same(s, t, {"acct"})
           /\ Typed(s) /\ a \in Account => Typed(t)
<1> DEFINE t == [s EXCEPT !.acct = a]
<1>1. Shape(t) /\ t.acct = a /\ Same(s, t, {"acct"})
  BY AcctField
<1> HIDE DEF t
<1>2. Worse(s, t) /\ (Typed(s) /\ a \in Account => Typed(t))
  BY <1>1 DEF Same, Worse, Typed
<1> QED BY <1>1, <1>2 DEF t

(* What is owed more or less on a connection leaves the rest as it is.     *)
LEMMA OwingLinked ==
    ASSUME NEW s, NEW t, NEW c \in DOMAIN s.conns, NEW e, Typed(s), Linked(s), Owing(s, t, c, e)
    PROVE  Unmoved(s, t) /\ Linked(t) /\ \A rejoin : Awake(s, rejoin) => Awake(t, rejoin)
<1>1. Unmoved(s, t)
  BY DEF Owing, Unmoved, Same, Linked, GivenUp
<1> QED BY <1>1, LinkedUnmoved

LEMMA SetOwesGood ==
    ASSUME NEW s, NEW rejoin, Good(s, rejoin), s.harm = {}, NEW c \in DOMAIN s.conns,
           NEW e \in Seq(Message), Asked(SetOwes(s, c, e))
    PROVE  Good(SetOwes(s, c, e), rejoin) /\ SetOwes(s, c, e).harm = {}
<1> DEFINE t == SetOwes(s, c, e)
<1>1. Shape(s) /\ Typed(s) /\ Linked(s) /\ Awake(s, rejoin) /\ Asked(t)
  BY DEF Good, Sound
<1>2. Owing(s, t, c, e)
  BY <1>1, OwingIs
<1> HIDE DEF t
<1>3. Linked(t) /\ Awake(t, rejoin)
  BY <1>1, <1>2, OwingLinked
<1>4. Typed(t) /\ Shape(t) /\ t.harm = {}
  BY <1>1, <1>2 DEF Owing, Same
<1>5. Good(t, rejoin)
  BY <1>1, <1>3, <1>4 DEF Good, Sound
<1> QED BY <1>4, <1>5 DEF t

LEMMA OwesTyped ==
    ASSUME NEW s, Typed(s), NEW c \in DOMAIN s.conns
    PROVE  /\ s.conns[c] \in Conn /\ c \in Conns /\ s.conns[c].owes \in Seq(Message)
           /\ Len(s.conns[c].owes) \in Nat /\ s.conns[c].type \in Types
           /\ s.acct.pend \in Seq(Rooms) /\ Len(s.acct.pend) \in Nat
<1>1. s.conns[c] \in Conn /\ c \in Conns /\ s.acct \in Account
  BY DEF Typed
<1>2. s.conns[c].owes \in Seq(Message) /\ s.conns[c].type \in Types /\ s.acct.pend \in Seq(Rooms)
  BY <1>1 DEF Conn, Account
<1> QED BY <1>1, <1>2, LenProperties

LEMMA AppendIs ==
    ASSUME NEW S, NEW s \in Seq(S), NEW q \in S
    PROVE  /\ Append(s, q) \in Seq(S) /\ Len(Append(s, q)) = Len(s) + 1 /\ Len(s) \in Nat
           /\ \A i \in 1 .. Len(s) : Append(s, q)[i] = s[i]
           /\ Append(s, q)[Len(s) + 1] = q
OBVIOUS

LEMMA AskGood ==
    ASSUME NEW s, NEW rejoin, Good(s, rejoin), NEW c, NEW type, NEW m \in Words,
           NEW room \in Rooms \cup {None},
           s.harm = {} /\ c # None /\ (c \in DOMAIN s.conns => s.conns[c].type # type) => Excused(s),
           s.harm = {} /\ c \in DOMAIN s.conns /\ s.conns[c].type = type /\ s.conns[c].status = "up"
           => LET q == [m |-> m, room |-> room, kept |-> TRUE]
              IN  /\ Proper(s, c, q)
                  /\ Joins(q) /\ Clean(s) => Idle(s, room) /\ ~There(s, room)
    PROVE  Good(Ask(s, c, type, m, room), rejoin) /\ Worse(s, Ask(s, c, type, m, room))
<1> DEFINE q == [m |-> m, room |-> room, kept |-> TRUE]
           e == Append(s.conns[c].owes, q)
           t == Ask(s, c, type, m, room)
<1>0. q \in Message /\ q.m = m /\ q.room = room
  BY DEF Message
<1>1. Shape(s) /\ Worse(s, s)
  BY DEF Good, Worse
<1>2. CASE t = s
  BY <1>1, <1>2
<1>3. CASE /\ t = Harm(s, "freed") \/ t = Harm(s, "astray")
           /\ c # None /\ (c \in DOMAIN s.conns => s.conns[c].type # type)
  <2>1. Excused(s)
    BY <1>3 DEF Good
  <2> QED BY <1>1, <1>3, <2>1, HarmIs
<1>4. CASE t = SetOwes(s, c, e) /\ c \in DOMAIN s.conns /\ s.conns[c].type = type
           /\ s.conns[c].status = "up"
  <2>1. CASE s.harm # {}
    <3>1. Worse(s, t)
      BY <1>1, <1>4, OwingIs DEF Owing
    <3>2. Excused(s)
      BY <2>1 DEF Good
    <3> QED BY <2>1, <3>1, <3>2, StillExcused
  <2>2. CASE s.harm = {}
    <3>1. Typed(s) /\ Asked(s)
      BY <2>2 DEF Good, Sound
    <3>2. s.conns[c].owes \in Seq(Message) /\ Len(s.conns[c].owes) \in Nat
      BY <1>4, <3>1, OwesTyped
    <3>3. /\ e \in Seq(Message) /\ Len(e) = Len(s.conns[c].owes) + 1
          /\ \A i \in 1 .. Len(s.conns[c].owes) : e[i] = s.conns[c].owes[i]
          /\ e[Len(s.conns[c].owes) + 1] = q
      <4> HIDE DEF q
      <4> QED BY SMTT(30), <1>0, <3>2, AppendIs
    <3>4. Proper(s, c, q) /\ (Joins(q) /\ Clean(s) => Idle(s, q.room) /\ ~There(s, q.room))
      BY <1>0, <1>4, <2>2
    <3> HIDE DEF q, e, t
    <3>5. Owing(s, t, c, e)
      BY <1>1, <1>4, OwingIs
    <3>6. More(s, t, c, q)
      BY <1>4, <3>1, <3>2, <3>3, <3>5 DEF More, Owing, Same, Numbers, Worse
    <3>7. Proper(t, c, q) /\ (Clean(t) => Clean(s))
      BY <1>4, <3>1, <3>4, <3>5 DEF Proper, Owing, Same, Clean
    <3>8. Asked(t)
      BY <3>1, <3>4, <3>6, <3>7, AskedMore
    <3>9. Good(t, rejoin)
      BY <1>4, <2>2, <3>3, <3>8, SetOwesGood
    <3> QED BY <3>5, <3>9 DEF Owing, t
  <2> QED BY <2>1, <2>2
<1>5. \/ t = s
      \/ /\ t = Harm(s, "freed") \/ t = Harm(s, "astray")
         /\ c # None /\ (c \in DOMAIN s.conns => s.conns[c].type # type)
      \/ /\ t = SetOwes(s, c, e) /\ c \in DOMAIN s.conns /\ s.conns[c].type = type
         /\ s.conns[c].status = "up"
  BY DEF Ask, SetOwes
<1> QED BY <1>2, <1>3, <1>4, <1>5

(* The answer to the oldest request.                                       *)
LEMMA HeardGood ==
    ASSUME NEW s, NEW rejoin, Good(s, rejoin), s.harm = {}, NEW c \in DOMAIN s.conns,
           s.conns[c].owes # <<>>
    PROVE  LET e == Tail(s.conns[c].owes)
               t == SetOwes(s, c, e)
               q == Head(s.conns[c].owes)
           IN  /\ Good(t, rejoin) /\ t.harm = {} /\ Owing(s, t, c, e) /\ Unmoved(s, t)
               /\ e \in Seq(Message) /\ q \in Message /\ Proper(s, c, q)
               /\ Joins(q) /\ Clean(t) => Idle(t, q.room) /\ ~There(t, q.room)
<1> DEFINE o == s.conns[c].owes
           e == Tail(s.conns[c].owes)
           t == SetOwes(s, c, e)
           q == Head(s.conns[c].owes)
           shift == [d \in Conns |-> IF d = c THEN 1 ELSE 0]
<1>1. Shape(s) /\ Typed(s) /\ Asked(s) /\ Linked(s)
  BY DEF Good, Sound
<1>2. /\ o \in Seq(Message) /\ Len(o) \in Nat /\ c \in Conns
      /\ s.acct.pend \in Seq(Rooms) /\ Len(s.acct.pend) \in Nat
  BY <1>1, OwesTyped
<1>3. /\ e \in Seq(Message) /\ Len(o) >= 1 /\ Len(e) = Len(o) - 1
      /\ q = o[1] /\ q \in Message
      /\ \A i \in 1 .. Len(e) : e[i] = o[i + 1]
  BY <1>2, HeadTailProperties, EmptySeq, ElementOfSeq
<1>4. 1 \in Numbers(s, c) /\ o[1] = q
  BY <1>2, <1>3 DEF Numbers
<1>5. Proper(s, c, q)
  BY <1>1, <1>4 DEF Asked, Owed
<1>6. \A d \in Conns : shift[d] = IF d = c THEN 1 ELSE 0
  OBVIOUS
<1> HIDE DEF e, t, q, shift
<1>7. Owing(s, t, c, e)
  BY <1>1, OwingIs DEF t
<1>8. Unmoved(s, t)
  BY <1>1, <1>7, OwingLinked
<1>9. /\ DOMAIN t.conns = DOMAIN s.conns
      /\ \A d \in DOMAIN s.conns : d # c => t.conns[d] = s.conns[d]
      /\ t.conns[c].owes = e /\ t.conns[c].type = s.conns[c].type
      /\ t.acct = s.acct /\ t.chats = s.chats /\ t.src = s.src /\ s.past \subseteq t.past
      /\ Clean(t) => Clean(s)
  BY <1>1, <1>7 DEF Owing, Same, Clean
<1> DEFINE shifted(d, i) == i + shift[d]
<1>10. ASSUME NEW d \in DOMAIN t.conns, NEW i \in Numbers(t, d)
       PROVE  /\ shift[d] \in Nat /\ i + shift[d] \in Numbers(s, d)
              /\ t.conns[d].owes[i] = s.conns[d].owes[i + shift[d]]
              /\ d = c => i + shift[d] # 1
  <2>1. d \in Conns
    BY <1>1, <1>9 DEF Typed
  <2>2. CASE d = c
    BY SMTT(30), <1>2, <1>3, <1>6, <1>9, <2>1, <2>2 DEF Numbers
  <2>3. CASE d # c
    BY <1>6, <1>9, <2>1, <2>3 DEF Numbers
  <2> QED BY <2>2, <2>3
<1>11. Fewer(s, t, shift)
  <2>1. \A d \in DOMAIN t.conns : d \in DOMAIN s.conns /\ t.conns[d].type = s.conns[d].type
    BY <1>9
  <2> QED BY <1>2, <1>9, <1>10, <2>1 DEF Fewer
<1>12. Asked(t)
  BY <1>1, <1>2, <1>11, AskedFewer
<1>13. Good(t, rejoin) /\ t.harm = {}
  BY <1>3, <1>12, SetOwesGood DEF t
<1>14. ASSUME Joins(q), Clean(t) PROVE Idle(t, q.room) /\ ~There(t, q.room)
  <2>1. Asks(s, c, 1, q.room) /\ Joins(o[1])
    BY <1>4, <1>14 DEF Asks
  <2>2. /\ \A a, d \in DOMAIN s.conns : \A i \in Numbers(s, a), j \in Numbers(s, d) :
              Joins(s.conns[a].owes[i]) /\ Asks(s, d, j, s.conns[a].owes[i].room)
              => a = d /\ i = j
        /\ \A a \in DOMAIN s.conns : \A i \in Numbers(s, a), j \in 1 .. Len(s.acct.pend) :
              ~Asks(s, a, i, s.acct.pend[j])
        /\ \A k \in DOMAIN s.chats : Idle(s, s.chats[k].room)
    BY <1>1, <1>9, <1>14 DEF Asked, Once
  <2>3. \A j \in 1 .. Len(s.acct.pend) : s.acct.pend[j] # q.room
    BY <1>4, <2>1, <2>2
  <2>4. \A k \in DOMAIN s.chats : s.chats[k].room # q.room
    BY <1>4, <2>1, <2>2 DEF Idle
  <2>5. ASSUME NEW d \in DOMAIN t.conns, NEW i \in Numbers(t, d) PROVE ~Asks(t, d, i, q.room)
    <3>1. /\ i + shift[d] \in Numbers(s, d) /\ d \in DOMAIN s.conns
          /\ t.conns[d].owes[i] = s.conns[d].owes[i + shift[d]]
          /\ d = c => i + shift[d] # 1
      BY <1>9, <1>10
    <3>2. ~Asks(s, d, i + shift[d], o[1].room)
      BY <1>4, <2>1, <2>2, <3>1
    <3> QED BY <1>4, <3>1, <3>2 DEF Asks
  <2> QED BY <1>9, <2>3, <2>4, <2>5 DEF Idle, There
<1> QED BY <1>3, <1>5, <1>7, <1>8, <1>13, <1>14 DEF t, e, q

(* Connections and rooms that are gone, and requests that are given up.    *)
LEMMA AskedSub ==
    ASSUME NEW s, NEW t, Typed(s), Asked(s), s.past \subseteq t.past,
           t.acct.bos = s.acct.bos, s.acct.connected => t.acct.connected,
           t.acct.pend = s.acct.pend \/ t.acct.pend = <<>>,
           \A k \in DOMAIN t.chats : k \in DOMAIN s.chats /\ t.chats[k].room = s.chats[k].room,
           \A c \in DOMAIN t.conns :
              \/ t.conns[c].owes = <<>>
              \/ /\ c \in DOMAIN s.conns /\ t.conns[c].type = s.conns[c].type
                 /\ t.conns[c].owes = s.conns[c].owes
                 /\ t.src[c] # "none" => s.src[c] # "none"
    PROVE  Asked(t)
<1> DEFINE shift == [c \in DOMAIN t.conns |-> 0]
<1>1. Len(s.acct.pend) \in Nat
  <2>1. s.acct.pend \in Seq(Rooms)
    BY DEF Typed, Account
  <2> QED BY <2>1, LenProperties
<1>2. \A c \in DOMAIN t.conns : shift[c] = 0
  OBVIOUS
<1> HIDE DEF shift
<1>3. Len(t.acct.pend) \in Nat /\ Len(t.acct.pend) <= Len(s.acct.pend)
      /\ \A i \in 1 .. Len(t.acct.pend) : t.acct.pend[i] = s.acct.pend[i]
  BY <1>1
<1>4. ASSUME NEW c \in DOMAIN t.conns, NEW i \in Numbers(t, c)
      PROVE  /\ c \in DOMAIN s.conns /\ t.conns[c].type = s.conns[c].type
             /\ t.src[c] # "none" => s.src[c] # "none"
             /\ shift[c] \in Nat /\ i + shift[c] \in Numbers(s, c)
             /\ t.conns[c].owes[i] = s.conns[c].owes[i + shift[c]]
  <2>1. t.conns[c].owes # <<>>
    BY DEF Numbers
  <2>2. /\ c \in DOMAIN s.conns /\ t.conns[c].type = s.conns[c].type
        /\ t.conns[c].owes = s.conns[c].owes
        /\ t.src[c] # "none" => s.src[c] # "none"
    BY <2>1
  <2>3. i + shift[c] = i /\ shift[c] \in Nat
    BY <1>2 DEF Numbers
  <2> QED BY <2>2, <2>3 DEF Numbers
<1>5. Fewer(s, t, shift)
  BY <1>3, <1>4 DEF Fewer
<1> QED BY <1>1, <1>5, AskedFewer

LEMMA PastIs ==
    ASSUME NEW s, Shape(s), NEW w, NEW really
    PROVE  LET t == Past(s, w, really) IN
           Shape(t) /\ Worse(s, t) /\ Same(s, t, {"past"}) /\ (really => w \in t.past)
<1> DEFINE x == [s EXCEPT !.past = s.past \cup {w}]
           t == Past(s, w, really)
<1>1. Shape(x) /\ x.past = s.past \cup {w} /\ Same(s, x, {"past"})
  BY PastField
<1>2. t = IF really THEN x ELSE s
  BY DEF Past
<1> HIDE DEF x, t
<1>3. CASE really
  BY <1>1, <1>2, <1>3 DEF Worse, Same, t
<1>4. CASE ~really
  BY <1>2, <1>4 DEF Worse, Same, t
<1> QED BY <1>3, <1>4

LEMMA PastGood ==
    ASSUME NEW s, NEW rejoin, Good(s, rejoin), NEW w, NEW really
    PROVE  LET t == Past(s, w, really) IN
           /\ Good(t, rejoin) /\ Worse(s, t) /\ Same(s, t, {"past"})
           /\ really => w \in t.past
<1> DEFINE t == [s EXCEPT !.past = s.past \cup {w}]
<1>0. Shape(s)
  BY DEF Good
<1>1. Shape(t) /\ t.past = s.past \cup {w} /\ Same(s, t, {"past"})
  BY <1>0, PastField
<1>2. Past(s, w, really) = IF really THEN t ELSE s
  BY DEF Past
<1> HIDE DEF t
<1>3. Worse(s, t) /\ Worse(s, s)
  BY <1>0, <1>1 DEF Same, Worse
<1>4. ASSUME s.harm = {} PROVE Good(t, rejoin)
  <2>1. Typed(s) /\ Asked(s) /\ Linked(s) /\ Awake(s, rejoin)
    BY <1>4 DEF Good, Sound
  <2>2. /\ t.acct = s.acct /\ t.conns = s.conns /\ t.src = s.src /\ t.list = s.list
        /\ t.chats = s.chats /\ t.wins = s.wins /\ t.harm = s.harm /\ s.past \subseteq t.past
    BY <1>1 DEF Same
  <2>3. Asked(t)
    BY <2>1, <2>2, AskedSub
  <2>4. Unmoved(s, t)
    BY <2>1, <2>2 DEF Unmoved, GivenUp, Linked
  <2>5. Linked(t) /\ Awake(t, rejoin)
    BY <2>1, <2>4, LinkedUnmoved
  <2>6. Typed(t)
    BY <2>1, <2>2 DEF Typed
  <2> QED BY <1>1, <1>4, <2>2, <2>3, <2>5, <2>6 DEF Good, Sound
<1>5. Good(t, rejoin)
  <2>1. CASE s.harm # {}
    BY <1>3, <2>1, StillExcused DEF Good
  <2> QED BY <1>4, <2>1
<1> QED BY <1>0, <1>1, <1>2, <1>3, <1>5 DEF Same

(* The rooms that wait are given up.                                       *)
Emptied(a, b) == [a EXCEPT !.pend = <<>>, !.dangling = b]

LEMMA EmptiedIs ==
    ASSUME NEW a \in Account, NEW b \in BOOLEAN
    PROVE  LET e == Emptied(a, b) IN
           /\ e \in Account /\ e.pend = <<>> /\ e.dangling = b
           /\ e.connected = a.connected /\ e.disconnected = a.disconnected
           /\ e.reconnecting = a.reconnecting /\ e.bos = a.bos /\ e.nav = a.nav
<1> DEFINE u == [a EXCEPT !.pend = <<>>]
           e == [u EXCEPT !.dangling = b]
<1>1. u \in Account /\ u.pend = <<>>
  <2>1. \A p \in Seq(Rooms) : [a EXCEPT !.pend = p] \in Account /\ [a EXCEPT !.pend = p].pend = p
    BY DEF Account
  <2>2. <<>> \in Seq(Rooms)
    OBVIOUS
  <2> QED BY <2>1, <2>2
<1>2. /\ u.connected = a.connected /\ u.disconnected = a.disconnected
      /\ u.reconnecting = a.reconnecting /\ u.bos = a.bos /\ u.nav = a.nav
  BY DEF Account
<1>3. e = Emptied(a, b)
  BY DEF Emptied
<1> HIDE DEF u
<1>4. e \in Account
  BY <1>1 DEF Account
<1>5. /\ e.dangling = b /\ e.pend = u.pend
      /\ e.connected = u.connected /\ e.disconnected = u.disconnected
      /\ e.reconnecting = u.reconnecting /\ e.bos = u.bos /\ e.nav = u.nav
  BY <1>1 DEF Account
<1> HIDE DEF e
<1> QED BY <1>1, <1>2, <1>3, <1>4, <1>5

LEMMA PendingIs ==
    ASSUME NEW s, Shape(s), ~s.acct.dangling
    PROVE  LET t == aim_kill_pending_chats(s) IN
           /\ Shape(t) /\ Worse(s, t) /\ Same(s, t, {"acct", "past"})
           /\ t.acct = Emptied(s.acct, s.acct.pend # <<>>)
           /\ s.acct.pend # <<>> => "unjoined" \in t.past
<1> DEFINE a == Emptied(s.acct, s.acct.pend # <<>>)
           u == [s EXCEPT !.acct = a]
           v == Past(u, "unjoined", s.acct.pend # <<>>)
<1>1. aim_kill_pending_chats(s) = v
  BY DEF aim_kill_pending_chats, Emptied
<1>2. Shape(u) /\ u.acct = a /\ Same(s, u, {"acct"}) /\ Worse(s, u)
  BY AccountIs
<1> HIDE DEF a, u
<1>3. /\ s.acct.pend = <<>> => v = u
      /\ s.acct.pend # <<>> => v = [u EXCEPT !.past = u.past \cup {"unjoined"}]
  BY DEF Past
<1> HIDE DEF v
<1>4. /\ Shape(v) /\ Worse(u, v) /\ Same(u, v, {"past"})
      /\ s.acct.pend # <<>> => "unjoined" \in v.past
  <2>1. CASE s.acct.pend = <<>>
    BY <1>2, <1>3, <2>1 DEF Worse, Same
  <2>2. CASE s.acct.pend # <<>>
    <3>1. v = [u EXCEPT !.past = u.past \cup {"unjoined"}]
      BY <1>3, <2>2
    <3>2. Shape(v) /\ v.past = u.past \cup {"unjoined"} /\ Same(u, v, {"past"})
      BY <1>2, <3>1, PastField
    <3> QED BY <3>2 DEF Worse, Same
  <2> QED BY <2>1, <2>2
<1>5. Worse(s, v)
  BY <1>2, <1>4, WorseTwice
<1>6. Same(s, v, {"acct", "past"}) /\ v.acct = a
  BY <1>2, <1>4 DEF Same
<1> QED BY <1>1, <1>4, <1>5, <1>6 DEF a

(* Of a state in the middle of an operation it may be known no more than   *)
(* that the rooms and windows are sound.                                   *)
Half(s) ==
    /\ Shape(s)
    /\ s.harm = {} => Typed(s) /\ Held(s) /\ GivenUp(s)
    /\ s.harm # {} => Excused(s)

LEMMA GoodHalf ==
    ASSUME NEW s, NEW rejoin, Good(s, rejoin)
    PROVE  Half(s)
BY DEF Good, Half, Sound, Linked

LEMMA PendingHalf ==
    ASSUME NEW s, Half(s)
    PROVE  LET t == aim_kill_pending_chats(s) IN
           /\ Half(t) /\ Worse(s, t)
           /\ t.harm = {} => /\ s.harm = {} /\ Same(s, t, {"acct", "past"}) /\ t.acct.pend = <<>>
                             /\ t.acct.connected = s.acct.connected
                             /\ t.acct.disconnected = s.acct.disconnected
                             /\ t.acct.reconnecting = s.acct.reconnecting
                             /\ t.acct.bos = s.acct.bos /\ t.acct.nav = s.acct.nav
<1> DEFINE t == aim_kill_pending_chats(s)
<1>0. Shape(s)
  BY DEF Half
<1>1. CASE s.acct.dangling
  <2>1. Excused(s)
    BY <1>1 DEF Half, GivenUp, Excused, Ways
  <2>2. t = Harm(s, "pending")
    BY <1>1 DEF aim_kill_pending_chats
  <2>3. Good(t, TRUE) /\ Worse(s, t)
    <3> HIDE DEF t
    <3> QED BY <1>0, <2>1, <2>2, HarmIs
  <2>4. t.harm # {}
    <3>1. t.harm = s.harm \cup {"pending"}
      BY <1>0, <2>2, HarmField DEF Harm
    <3> QED BY <3>1
  <2> QED BY <2>3, <2>4, GoodHalf
<1>2. CASE ~s.acct.dangling
  <2>1. /\ Shape(t) /\ Worse(s, t) /\ Same(s, t, {"acct", "past"})
        /\ t.acct = Emptied(s.acct, s.acct.pend # <<>>)
        /\ s.acct.pend # <<>> => "unjoined" \in t.past
    BY <1>0, <1>2, PendingIs
  <2> HIDE DEF t
  <2>2. CASE s.harm # {}
    BY <2>1, <2>2 DEF Half, Worse, Excused, t
  <2>3. CASE s.harm = {}
    <3>1. Typed(s) /\ Held(s) /\ GivenUp(s) /\ s.acct \in Account
      BY <2>3 DEF Half, Typed
    <3>2. /\ t.acct \in Account /\ t.acct.pend = <<>> /\ (t.acct.dangling <=> s.acct.pend # <<>>)
          /\ t.acct.connected = s.acct.connected /\ t.acct.disconnected = s.acct.disconnected
          /\ t.acct.reconnecting = s.acct.reconnecting /\ t.acct.bos = s.acct.bos
          /\ t.acct.nav = s.acct.nav
      <4>1. (s.acct.pend # <<>>) \in BOOLEAN
        OBVIOUS
      <4>2. \A b \in BOOLEAN : LET e == Emptied(s.acct, b) IN
               /\ e \in Account /\ e.pend = <<>> /\ e.dangling = b
               /\ e.connected = s.acct.connected /\ e.disconnected = s.acct.disconnected
               /\ e.reconnecting = s.acct.reconnecting /\ e.bos = s.acct.bos
               /\ e.nav = s.acct.nav
        BY <3>1, EmptiedIs
      <4> QED BY <2>1, <4>1, <4>2
    <3>3. Typed(t) /\ GivenUp(t)
      BY <2>1, <3>1, <3>2 DEF Typed, Same, GivenUp
    <3>4. /\ t.list = s.list /\ t.chats = s.chats /\ t.wins = s.wins /\ t.conns = s.conns
          /\ s.past \subseteq t.past
      BY <2>1 DEF Same, Worse
    <3>5. Held(t)
      BY <3>1, <3>4, HeldSame
    <3>6. t.harm = {}
      BY <2>1, <2>3 DEF Same
    <3> QED BY <2>1, <2>3, <3>2, <3>3, <3>5, <3>6 DEF Half, t
  <2> QED BY <2>2, <2>3
<1> QED BY <1>1, <1>2

LEMMA PendingGood ==
    ASSUME NEW s, NEW rejoin, Good(s, rejoin)
    PROVE  Good(aim_kill_pending_chats(s), rejoin)
<1> DEFINE t == aim_kill_pending_chats(s)
<1>1. /\ Half(t) /\ Worse(s, t)
      /\ t.harm = {} => /\ s.harm = {} /\ Same(s, t, {"acct", "past"}) /\ t.acct.pend = <<>>
                        /\ t.acct.connected = s.acct.connected
                        /\ t.acct.disconnected = s.acct.disconnected
                        /\ t.acct.reconnecting = s.acct.reconnecting
                        /\ t.acct.bos = s.acct.bos /\ t.acct.nav = s.acct.nav
  BY GoodHalf, PendingHalf
<1> HIDE DEF t
<1>2. ASSUME t.harm = {} PROVE Good(t, rejoin)
  <2>1. Typed(s) /\ Asked(s) /\ Linked(s) /\ Awake(s, rejoin)
    BY <1>1, <1>2 DEF Good, Sound
  <2>2. /\ t.conns = s.conns /\ t.src = s.src /\ t.list = s.list /\ t.chats = s.chats
        /\ t.wins = s.wins /\ s.past \subseteq t.past
    BY <1>1, <1>2 DEF Same, Worse
  <2>3. Asked(t)
    BY <1>1, <1>2, <2>1, <2>2, AskedSub
  <2>4. Unmoved(s, t)
    BY <1>1, <1>2, <2>2 DEF Unmoved, Half
  <2>5. Linked(t) /\ Awake(t, rejoin)
    BY <2>1, <2>4, LinkedUnmoved
  <2> QED BY <1>1, <1>2, <2>3, <2>5 DEF Good, Sound, Half
<1>3. ASSUME t.harm # {} PROVE Good(t, rejoin)
  BY <1>1, <1>3 DEF Half, Good
<1> QED BY <1>2, <1>3 DEF t

-----------------------------------------------------------------------------
(* Sources and connections that go.                                        *)
LEMMA DelIs ==
    ASSUME NEW s, Shape(s), NEW c
    PROVE  LET t == pork_io_del(s, c) IN
           /\ Shape(t) /\ Worse(s, t) /\ Same(s, t, {"src"})
           /\ Typed(s) => /\ Typed(t) /\ \A d \in Conns : d # c => t.src[d] = s.src[d]
                          /\ c \in Conns => t.src[c] = "none"
<1> DEFINE f == [s.src EXCEPT ![c] = "none"]
           t == pork_io_del(s, c)
<1>1. t = [s EXCEPT !.src = f]
  BY DEF pork_io_del
<1>2. s.src \in [Conns -> {"none", "connected", "event", "dead"}] =>
         /\ f \in [Conns -> {"none", "connected", "event", "dead"}]
         /\ \A d \in Conns : d # c => f[d] = s.src[d]
         /\ c \in Conns => f[c] = "none"
  OBVIOUS
<1> HIDE DEF f
<1>3. Shape(t) /\ t.src = f /\ Same(s, t, {"src"})
  <2> HIDE DEF t
  <2> QED BY <1>1, SrcField
<1> HIDE DEF t
<1>4. Worse(s, t)
  BY <1>3 DEF Same, Worse
<1>5. Typed(s) => /\ Typed(t) /\ \A d \in Conns : d # c => t.src[d] = s.src[d]
                  /\ c \in Conns => t.src[c] = "none"
  BY <1>2, <1>3 DEF Typed, Same
<1> QED BY <1>3, <1>4, <1>5 DEF t

(* Nothing but a room misses its source, unless it is what the account is  *)
(* online with.                                                            *)
LEMMA DelGood ==
    ASSUME NEW s, NEW rejoin, Good(s, rejoin), NEW c,
           s.harm = {} => /\ c \in DOMAIN s.conns /\ s.conns[c].type # "chat"
                          /\ s.acct.connected => s.acct.bos # c
    PROVE  LET t == pork_io_del(s, c) IN Good(t, rejoin) /\ Worse(s, t) /\ Same(s, t, {"src"})
<1> DEFINE t == pork_io_del(s, c)
<1>1. Shape(s)
  BY DEF Good
<1>2. /\ Shape(t) /\ Worse(s, t) /\ Same(s, t, {"src"})
      /\ Typed(s) => /\ Typed(t) /\ \A d \in Conns : d # c => t.src[d] = s.src[d]
                     /\ c \in Conns => t.src[c] = "none"
  BY <1>1, DelIs
<1> HIDE DEF t
<1>3. ASSUME s.harm # {} PROVE Good(t, rejoin)
  BY <1>2, <1>3, StillExcused DEF Good
<1>4. ASSUME s.harm = {} PROVE Good(t, rejoin)
  <2>1. Typed(s) /\ Asked(s) /\ Linked(s) /\ Awake(s, rejoin)
    BY <1>4 DEF Good, Sound
  <2>2. /\ t.acct = s.acct /\ t.conns = s.conns /\ t.list = s.list /\ t.chats = s.chats
        /\ t.wins = s.wins /\ t.harm = s.harm /\ t.past = s.past
    BY <1>2 DEF Same
  <2>3. /\ c \in DOMAIN s.conns /\ s.conns[c].type # "chat"
        /\ s.acct.connected => s.acct.bos # c
        /\ DOMAIN s.conns \subseteq Conns
    BY <1>4, <2>1 DEF Typed
  <2>4. /\ \A d \in Conns : t.src[d] # "none" => s.src[d] # "none" /\ t.src[d] = s.src[d]
        /\ \A d \in Conns : d # c => t.src[d] = s.src[d]
    BY <1>2, <2>1, <2>3
  <2>5. Asked(t)
    BY <2>1, <2>2, <2>3, <2>4, AskedSub
  <2>6. Matched(t)
    BY <2>1, <2>2, <2>4 DEF Linked, Matched
  <2>7. OneLogin(t)
    BY <2>1, <2>2, <2>3, <2>4 DEF Linked, OneLogin, NoLogin, Logs
  <2>8. Online(t)
    BY <2>1, <2>2, <2>3, <2>4 DEF Linked, Online
  <2>9. NavKnown(t) /\ GivenUp(t)
    BY <2>1, <2>2 DEF Linked, NavKnown, GivenUp
  <2>10. Held(t) /\ (Clean(t) <=> Clean(s))
    <3>1. Held(s) /\ s.past = t.past
      BY <2>1, <2>2 DEF Linked
    <3> QED BY <2>2, <3>1, HeldSame DEF Clean
  <2>11. Awake(t, rejoin)
    <3> SUFFICES ASSUME Clean(s), NEW k \in DOMAIN s.chats, t.src[s.chats[k].conn] = "none"
                 PROVE  rejoin
      BY <2>2, <2>10 DEF Awake
    <3>1. s.chats[k].conn \in DOMAIN s.conns /\ s.conns[s.chats[k].conn].type = "chat"
      BY <2>1 DEF Linked, Held, Kept, Paired
    <3>2. s.src[s.chats[k].conn] = "none"
      BY <2>3, <2>4, <3>1
    <3> QED BY <2>1, <3>2 DEF Awake
  <2>12. Linked(t) /\ Typed(t)
    BY <1>2, <2>1, <2>6, <2>7, <2>8, <2>9, <2>10 DEF Linked
  <2> QED BY <1>2, <1>4, <2>2, <2>5, <2>11, <2>12 DEF Good, Sound
<1> QED BY <1>2, <1>3, <1>4 DEF t

LEMMA DroppedIs ==
    ASSUME NEW s, Shape(s), NEW c
    PROVE  LET t == Dropped(s, c) IN
           /\ Shape(t) /\ Worse(s, t) /\ Same(s, t, {"conns"})
           /\ DOMAIN t.conns = DOMAIN s.conns \ {c}
           /\ \A d \in DOMAIN s.conns : d # c => t.conns[d] = s.conns[d]
           /\ Typed(s) => Typed(t)
<1> DEFINE f == [d \in DOMAIN s.conns \ {c} |-> s.conns[d]]
           t == Dropped(s, c)
<1>1. t = [s EXCEPT !.conns = f]
  BY DEF Dropped
<1>2. DOMAIN f = DOMAIN s.conns \ {c} /\ \A d \in DOMAIN s.conns : d # c => f[d] = s.conns[d]
  OBVIOUS
<1> HIDE DEF f
<1>3. Shape(t) /\ t.conns = f /\ Same(s, t, {"conns"})
  <2> HIDE DEF t
  <2> QED BY <1>1, ConnsField
<1> HIDE DEF t
<1>4. Worse(s, t)
  BY <1>3 DEF Same, Worse
<1>5. Typed(s) => Typed(t)
  BY <1>2, <1>3 DEF Typed, Same
<1> QED BY <1>2, <1>3, <1>4, <1>5 DEF t

LEMMA KillIs ==
    ASSUME NEW s, Shape(s), NEW c
    PROVE  LET t == Kill(s, c) IN
           /\ Shape(t) /\ Worse(s, t) /\ Same(s, t, {"conns", "src"})
           /\ DOMAIN t.conns = DOMAIN s.conns \ {c}
           /\ \A d \in DOMAIN s.conns : d # c => t.conns[d] = s.conns[d]
           /\ Typed(s) => /\ Typed(t) /\ \A d \in Conns : d # c => t.src[d] = s.src[d]
                          /\ c \in Conns => t.src[c] = "none"
<1> DEFINE u == Dropped(s, c)
           t == pork_io_del(u, c)
<1>1. Kill(s, c) = t
  BY DEF Kill
<1>2. /\ Shape(u) /\ Worse(s, u) /\ Same(s, u, {"conns"})
      /\ DOMAIN u.conns = DOMAIN s.conns \ {c}
      /\ \A d \in DOMAIN s.conns : d # c => u.conns[d] = s.conns[d]
      /\ Typed(s) => Typed(u)
  BY DroppedIs
<1> HIDE DEF u
<1>3. /\ Shape(t) /\ Worse(u, t) /\ Same(u, t, {"src"})
      /\ Typed(u) => /\ Typed(t) /\ \A d \in Conns : d # c => t.src[d] = u.src[d]
                     /\ c \in Conns => t.src[c] = "none"
  BY <1>2, DelIs
<1> HIDE DEF t
<1>4. Worse(s, t)
  BY <1>2, <1>3, WorseTwice
<1>5. Same(s, t, {"conns", "src"}) /\ t.conns = u.conns /\ u.src = s.src
  BY <1>2, <1>3 DEF Same
<1> QED BY <1>1, <1>2, <1>3, <1>4, <1>5

(* A connection goes that is no room's, nor what the account is online     *)
(* with, nor the one that chatnav_conn names.                              *)
LEMMA KillGood ==
    ASSUME NEW s, NEW rejoin, Good(s, rejoin), NEW c,
           s.harm = {} => /\ c \in DOMAIN s.conns /\ s.conns[c].type # "chat"
                          /\ s.acct.connected => s.acct.bos # c
                          /\ "lost" \notin s.past => s.acct.nav # c
    PROVE  LET t == Kill(s, c) IN Good(t, rejoin) /\ Worse(s, t)
<1> DEFINE t == Kill(s, c)
<1>1. Shape(s)
  BY DEF Good
<1>2. /\ Shape(t) /\ Worse(s, t) /\ Same(s, t, {"conns", "src"})
      /\ DOMAIN t.conns = DOMAIN s.conns \ {c}
      /\ \A d \in DOMAIN s.conns : d # c => t.conns[d] = s.conns[d]
      /\ Typed(s) => /\ Typed(t) /\ \A d \in Conns : d # c => t.src[d] = s.src[d]
                     /\ c \in Conns => t.src[c] = "none"
  BY <1>1, KillIs
<1> HIDE DEF t
<1>3. ASSUME s.harm # {} PROVE Good(t, rejoin)
  BY <1>2, <1>3, StillExcused DEF Good
<1>4. ASSUME s.harm = {} PROVE Good(t, rejoin)
  <2>1. Typed(s) /\ Asked(s) /\ Linked(s) /\ Awake(s, rejoin)
    BY <1>4 DEF Good, Sound
  <2>2. /\ t.acct = s.acct /\ t.list = s.list /\ t.chats = s.chats
        /\ t.wins = s.wins /\ t.harm = s.harm /\ t.past = s.past
    BY <1>2 DEF Same
  <2>3. /\ c \in DOMAIN s.conns /\ s.conns[c].type # "chat"
        /\ s.acct.connected => s.acct.bos # c
        /\ "lost" \notin s.past => s.acct.nav # c
        /\ DOMAIN s.conns \subseteq Conns
    BY <1>4, <2>1 DEF Typed
  <2>4. /\ \A d \in Conns : t.src[d] # "none" => d # c /\ s.src[d] # "none" /\ t.src[d] = s.src[d]
        /\ \A d \in Conns : d # c => t.src[d] = s.src[d]
        /\ \A d \in DOMAIN t.conns : d \in DOMAIN s.conns /\ d # c /\ t.conns[d] = s.conns[d]
    BY <1>2, <2>1, <2>3
  <2>5. Asked(t)
    BY <2>1, <2>2, <2>3, <2>4, AskedSub
  <2>6. Matched(t)
    BY <1>2, <2>1, <2>2, <2>4 DEF Linked, Matched
  <2>7. OneLogin(t)
    BY <2>1, <2>2, <2>3, <2>4 DEF Linked, OneLogin, NoLogin, Logs
  <2>8. Online(t)
    BY <1>2, <2>1, <2>2, <2>3, <2>4 DEF Linked, Online
  <2>9. NavKnown(t) /\ GivenUp(t)
    BY <1>2, <2>1, <2>2, <2>3 DEF Linked, NavKnown, GivenUp
  <2>10. Listed(t) /\ Shown(t) /\ Kept(t) /\ (Clean(t) <=> Clean(s))
    BY <2>1, <2>2 DEF Linked, Held, Listed, Shown, Kept, Clean
  <2>11. Paired(t)
    <3>1. Paired(s)
      BY <2>1 DEF Linked, Held
    <3>2. \A d \in DOMAIN s.conns : s.conns[d].type = "chat" => d \in DOMAIN t.conns
      BY <1>2, <2>1, <2>3
    <3> QED BY <2>2, <2>4, <3>1, <3>2, PairedMoved
  <2>12. Awake(t, rejoin)
    <3> SUFFICES ASSUME Clean(s), NEW k \in DOMAIN s.chats, t.src[s.chats[k].conn] = "none"
                 PROVE  rejoin
      BY <2>2, <2>10 DEF Awake
    <3>1. s.chats[k].conn \in DOMAIN s.conns /\ s.conns[s.chats[k].conn].type = "chat"
      BY <2>1 DEF Linked, Held, Kept, Paired
    <3>2. s.src[s.chats[k].conn] = "none"
      BY <2>3, <2>4, <3>1
    <3> QED BY <2>1, <3>2 DEF Awake
  <2>13. Linked(t) /\ Typed(t)
    BY <1>2, <2>1, <2>6, <2>7, <2>8, <2>9, <2>10, <2>11 DEF Linked, Held
  <2> QED BY <1>2, <1>4, <2>2, <2>5, <2>12, <2>13 DEF Good, Sound
<1> QED BY <1>2, <1>3, <1>4 DEF t

-----------------------------------------------------------------------------
(* The session is over: aim_kill_all_conn, aim_connect_abort and           *)
(* pork_acct_del.                                                          *)
NoConn(s) == DOMAIN s.conns = {} /\ \A c \in Conns : s.src[c] = "none"

LEMMA KillAllIs ==
    ASSUME NEW s, Shape(s), \A k \in DOMAIN s.chats : s.chats[k].data
    PROVE  LET t == KillAll(s) IN
           /\ Shape(t) /\ Worse(s, t) /\ Same(s, t, {"conns", "src", "chats"}) /\ NoConn(t)
           /\ DOMAIN t.chats = DOMAIN s.chats
           /\ Typed(s) => /\ Typed(t)
                          /\ \A k \in DOMAIN s.chats : ~t.chats[k].data
                                                       /\ t.chats[k].room = s.chats[k].room
<1> DEFINE f == [c \in {} |-> 0]
           g == [c \in Conns |-> "none"]
           h == [k \in DOMAIN s.chats |-> [s.chats[k] EXCEPT !.data = FALSE]]
           u == [s EXCEPT !.conns = f]
           v == [u EXCEPT !.src = g]
           t == [v EXCEPT !.chats = h]
<1>1. KillAll(s) = t
  <2>1. KillAll(s) = [s EXCEPT !.conns = f, !.src = g, !.chats = h]
    BY DEF KillAll
  <2> HIDE DEF f, g, h
  <2> QED BY <2>1 DEF Shape
<1>2. DOMAIN f = {} /\ g \in [Conns -> {"none", "connected", "event", "dead"}]
      /\ \A c \in Conns : g[c] = "none"
  OBVIOUS
<1>3. DOMAIN h = DOMAIN s.chats
  OBVIOUS
<1>4. ASSUME Typed(s), NEW k \in DOMAIN s.chats
      PROVE  h[k] \in Chat /\ ~h[k].data /\ h[k].room = s.chats[k].room
  <2>1. s.chats[k] \in Chat /\ h[k] = [s.chats[k] EXCEPT !.data = FALSE]
    BY <1>4 DEF Typed
  <2> HIDE DEF h
  <2> QED BY <2>1 DEF Chat
<1> HIDE DEF f, g, h
<1>5. Shape(u) /\ u.conns = f /\ Same(s, u, {"conns"})
  BY ConnsField
<1> HIDE DEF u
<1>6. Shape(v) /\ v.src = g /\ Same(u, v, {"src"})
  BY <1>5, SrcField
<1> HIDE DEF v
<1>7. Shape(t) /\ t.chats = h /\ Same(v, t, {"chats"})
  BY <1>6, ChatsField
<1> HIDE DEF t
<1>8. Same(s, t, {"conns", "src", "chats"}) /\ t.conns = f /\ t.src = g
  BY <1>5, <1>6, <1>7 DEF Same
<1>9. Worse(s, t) /\ NoConn(t)
  BY <1>2, <1>7, <1>8 DEF Same, Worse, NoConn
<1>10. Typed(s) => Typed(t)
  BY <1>2, <1>3, <1>4, <1>7, <1>8 DEF Typed, Same
<1> QED BY <1>1, <1>3, <1>4, <1>7, <1>8, <1>9, <1>10

(* Of a state that pork_acct_disconnected and pork_acct_connect_fail start *)
(* from: sound, but for what says that the account is online, and nothing  *)
(* logs in.                                                                *)
Parted(s, rejoin) ==
    /\ Shape(s)
    /\ s.harm = {} =>
          /\ Typed(s) /\ Asked(s) /\ Matched(s) /\ NoLogin(s) /\ NavKnown(s) /\ GivenUp(s)
          /\ Held(s) /\ Awake(s, rejoin)
          /\ \A c \in DOMAIN s.conns :
                /\ s.conns[c].type \notin {"nav", "chat"}
                /\ \A i \in Numbers(s, c) : s.conns[c].owes[i].m \notin {"nav", "chat"}
    /\ s.harm # {} => Excused(s)

LEMMA GoodParted ==
    ASSUME NEW s, NEW rejoin, Good(s, rejoin),
           s.harm = {} => NoLogin(s) /\ ~s.acct.connected
    PROVE  Parted(s, rejoin)
<1>1. ASSUME s.harm = {} PROVE Parted(s, rejoin)
  <2>1. /\ Typed(s) /\ Asked(s) /\ Matched(s) /\ NoLogin(s) /\ NavKnown(s) /\ GivenUp(s)
        /\ Held(s) /\ Awake(s, rejoin) /\ Online(s) /\ ~s.acct.connected
    BY <1>1 DEF Good, Sound, Linked
  <2>2. ASSUME NEW c \in DOMAIN s.conns
        PROVE  /\ s.conns[c].type \notin {"nav", "chat"}
               /\ \A i \in Numbers(s, c) : s.conns[c].owes[i].m \notin {"nav", "chat"}
    BY <2>1 DEF Online, Asked, Owed, Proper
  <2> QED BY <1>1, <2>1, <2>2 DEF Parted, Good
<1>2. ASSUME s.harm # {} PROVE Parted(s, rejoin)
  BY <1>2 DEF Parted, Good
<1> QED BY <1>1, <1>2

LEMMA AbortParted ==
    ASSUME NEW s, NEW rejoin, Half(s)
    PROVE  Parted(aim_connect_abort(s), rejoin)
<1> DEFINE u == aim_kill_pending_chats(s)
           v == KillAll(u)
           really == s.chats # <<>> \/ s.acct.nav # None
           t == Past(v, "lost", really)
<1>1. aim_connect_abort(s) = t
  BY DEF aim_connect_abort
<1>2. /\ Half(u) /\ Worse(s, u)
      /\ u.harm = {} => /\ s.harm = {} /\ Same(s, u, {"acct", "past"}) /\ u.acct.pend = <<>>
                        /\ u.acct.bos = s.acct.bos /\ u.acct.nav = s.acct.nav
  BY PendingHalf
<1> HIDE DEF u, t, really
<1>4. ASSUME \E k \in DOMAIN u.chats : ~u.chats[k].data PROVE Parted(t, rejoin)
  <2>1. v = Harm(u, "freed")
    BY <1>4 DEF KillAll
  <2>2. Excused(u)
    <3>1. CASE u.harm = {}
      BY <1>2, <1>4, <3>1 DEF Half, Held, Kept, Clean, Excused, Ways
    <3> QED BY <1>2, <3>1 DEF Half
  <2>3. v.harm # {}
    <3>1. v.harm = u.harm \cup {"freed"}
      BY <1>2, <2>1, HarmField DEF Harm, Half
    <3> QED BY <3>1
  <2> HIDE DEF v
  <2>4. Good(v, rejoin) /\ Shape(v)
    BY <1>2, <2>1, <2>2, HarmIs DEF Half, Good
  <2>5. Good(t, rejoin) /\ Worse(v, t)
    BY <2>4, PastGood DEF t
  <2>6. t.harm # {}
    BY <2>3, <2>5 DEF Worse
  <2> QED BY <2>5, <2>6 DEF Parted, Good
<1>5. ASSUME \A k \in DOMAIN u.chats : u.chats[k].data PROVE Parted(t, rejoin)
  <2>1. /\ Shape(v) /\ Worse(u, v) /\ Same(u, v, {"conns", "src", "chats"}) /\ NoConn(v)
        /\ DOMAIN v.chats = DOMAIN u.chats
        /\ Typed(u) => /\ Typed(v)
                       /\ \A k \in DOMAIN u.chats : ~v.chats[k].data
                                                    /\ v.chats[k].room = u.chats[k].room
    BY <1>2, <1>5, KillAllIs DEF Half
  <2> HIDE DEF v
  <2>3. /\ Shape(t) /\ Worse(v, t) /\ Same(v, t, {"past"}) /\ (really => "lost" \in t.past)
    BY <2>1, PastIs DEF t
  <2>4. Worse(u, t)
    BY <2>1, <2>3, WorseTwice
  <2>5. CASE u.harm # {}
    BY <1>2, <2>4, <2>5 DEF Half, Worse, Excused, Parted
  <2>6. CASE u.harm = {}
    <3>1. Typed(u) /\ Held(u) /\ GivenUp(u)
      BY <1>2, <2>6 DEF Half
    <3>2. /\ t.acct = u.acct /\ t.conns = v.conns /\ t.src = v.src /\ t.list = u.list
          /\ t.chats = v.chats /\ t.wins = u.wins /\ t.harm = {} /\ u.past \subseteq t.past
          /\ Typed(v)
      BY <2>1, <2>3, <2>4, <2>6, <3>1 DEF Same, Worse
    <3>3. NoConn(t) /\ Typed(t)
      BY <2>1, <2>3, <3>2 DEF NoConn, Typed, Same
    <3>4. /\ t.acct.pend = <<>> /\ u.chats = s.chats
          /\ u.chats # <<>> \/ u.acct.nav # None => "lost" \in t.past
      <4>1. u.chats = s.chats /\ u.acct.nav = s.acct.nav /\ u.acct.pend = <<>>
        BY <1>2, <2>6 DEF Same
      <4> QED BY <2>3, <3>2, <4>1 DEF really
    <3>5. Clean(t) => DOMAIN t.chats = {}
      <4>1. ASSUME Clean(t) PROVE DOMAIN t.chats = {}
        <5>1. u.chats = <<>>
          BY <3>4, <4>1 DEF Clean
        <5> QED BY <2>1, <3>2, <5>1
      <4> QED BY <4>1
    <3>6. Asked(t)
      BY <3>3, <3>4, <3>5 DEF Asked, Owed, Once, NoConn
    <3>7. Matched(t) /\ NoLogin(t) /\ NavKnown(t) /\ GivenUp(t)
      BY <3>1, <3>2, <3>3, <3>4 DEF NoConn, Matched, NoLogin, NavKnown, GivenUp
    <3>8. Listed(t)
      BY <2>1, <3>1, <3>2 DEF Held, Listed
    <3>9. Paired(t)
      BY <2>1, <3>1, <3>2, <3>3 DEF Paired, NoConn
    <3>10. Shown(t)
      BY <2>1, <3>1, <3>2 DEF Held, Shown
    <3>11. Kept(t) /\ Awake(t, rejoin)
      BY <3>5 DEF Kept, Awake
    <3> QED BY <2>3, <3>2, <3>3, <3>6, <3>7, <3>8, <3>9, <3>10, <3>11
            DEF Parted, Held, NoConn
  <2> QED BY <2>5, <2>6
<1> QED BY <1>1, <1>4, <1>5

-----------------------------------------------------------------------------
(* The account is given up, or tries again.                                *)
LEMMA OverGood ==
    ASSUME NEW s, NEW rejoin, Half(s)
    PROVE  Good(Del(s), rejoin) /\ Worse(s, Del(s))
<1>1. CASE s.acct.dangling \/ \E k \in DOMAIN s.chats : ~s.chats[k].data \/ ~s.chats[k].win
  <2>1. Del(s) = Harm(s, "freed")
    BY <1>1 DEF Del
  <2>2. Excused(s)
    <3>1. CASE s.harm = {}
      BY <1>1, <3>1 DEF Half, GivenUp, Held, Kept, Clean, Excused, Ways
    <3> QED BY <3>1 DEF Half
  <2> QED BY <2>1, <2>2, HarmIs DEF Half
<1>2. CASE ~(s.acct.dangling \/ \E k \in DOMAIN s.chats : ~s.chats[k].data \/ ~s.chats[k].win)
  <2> DEFINE u == KillAll(s)
             a == [u EXCEPT !.acct = Acct(FALSE)]
             b == [a EXCEPT !.list = <<>>]
             d == [b EXCEPT !.chats = <<>>]
             w == [r \in Rooms |-> Shut]
             t == [d EXCEPT !.wins = w]
  <2>1. /\ Shape(u) /\ Worse(s, u) /\ Same(s, u, {"conns", "src", "chats"}) /\ NoConn(u)
        /\ Typed(s) => Typed(u)
    BY <1>2, KillAllIs DEF Half
  <2>2. Del(s) = t
    <3>1. Del(s) = [u EXCEPT !.acct = Acct(FALSE), !.list = <<>>, !.chats = <<>>, !.wins = w]
      BY <1>2 DEF Del
    <3> HIDE DEF u, w
    <3> QED BY <2>1, <3>1 DEF Shape
  <2>3. w \in [Rooms -> Chats \cup {Shut, None}] /\ \A r \in Rooms : w[r] = Shut
    OBVIOUS
  <2> HIDE DEF u, w
  <2>4. Shape(a) /\ a.acct = Acct(FALSE) /\ Same(u, a, {"acct"})
    BY <2>1, AcctField
  <2> HIDE DEF a
  <2>5. Shape(b) /\ b.list = <<>> /\ Same(a, b, {"list"})
    BY <2>4, ListField
  <2> HIDE DEF b
  <2>6. Shape(d) /\ d.chats = <<>> /\ Same(b, d, {"chats"})
    BY <2>5, ChatsField
  <2> HIDE DEF d
  <2>7. Shape(t) /\ t.wins = w /\ Same(d, t, {"wins"})
    BY <2>6, WinsField
  <2> HIDE DEF t
  <2>8. /\ t.acct = Acct(FALSE) /\ t.conns = u.conns /\ t.src = u.src /\ t.list = <<>>
        /\ t.chats = <<>> /\ t.wins = w /\ t.harm = u.harm /\ t.past = u.past
    BY <2>4, <2>5, <2>6, <2>7 DEF Same
  <2>9. Worse(s, t) /\ t.harm = s.harm
    BY <2>1, <2>7, <2>8 DEF Worse, Same
  <2>10. CASE s.harm # {}
    BY <2>2, <2>9, <2>10, StillExcused DEF Half
  <2>11. CASE s.harm = {}
    <3>1. Typed(u) /\ NoConn(t) /\ DOMAIN t.chats = {}
      BY <2>1, <2>8, <2>11 DEF Half, NoConn
    <3>2. Acct(FALSE) \in Account
      BY DEF Acct, Account
    <3>3. /\ ~t.acct.connected /\ ~t.acct.disconnected /\ ~t.acct.dangling
          /\ t.acct.nav = None /\ t.acct.pend = <<>>
      BY <2>8 DEF Acct
    <3>4. Typed(t)
      <4>1. t.list \in Seq(Chats)
        BY <2>8
      <4>2. DOMAIN t.conns = {} /\ t.src = u.src /\ t.wins = w /\ t.acct \in Account
        BY <2>8, <3>1, <3>2 DEF NoConn
      <4> QED BY <2>3, <3>1, <4>1, <4>2 DEF Typed
    <3>5. Asked(t)
      BY <3>1, <3>3 DEF Asked, Owed, Once, NoConn
    <3>6. Matched(t) /\ OneLogin(t) /\ Online(t) /\ NavKnown(t) /\ GivenUp(t)
      BY <3>1, <3>3 DEF Matched, OneLogin, Online, NavKnown, GivenUp, NoConn
    <3>7. Listed(t) /\ Paired(t)
      BY <2>8, <3>1 DEF Listed, Paired, NoConn
    <3>8. Shown(t)
      <4>1. Shut \notin Chats
        BY ConnsAssumption DEF Shut
      <4> QED BY <2>3, <2>8, <4>1 DEF Shown
    <3>9. Kept(t) /\ Awake(t, rejoin)
      BY <3>1 DEF Kept, Awake
    <3>10. Good(t, rejoin)
      BY <2>7, <2>9, <2>11, <3>4, <3>5, <3>6, <3>7, <3>8, <3>9 DEF Good, Sound, Linked, Held
    <3> QED BY <2>2, <2>9, <3>10
  <2> QED BY <2>10, <2>11
<1> QED BY <1>1, <1>2

(* The flags of the account.                                               *)
Alike(a, b) == /\ b \in Account /\ b.pend = a.pend /\ b.dangling = a.dangling
               /\ b.bos = a.bos /\ b.nav = a.nav

SetConnected(a, x)    == [a EXCEPT !.connected = x]
SetReconnecting(a, x) == [a EXCEPT !.reconnecting = x]
SetDisconnected(a, x) == [a EXCEPT !.disconnected = x]
SetTries(a, n)        == [a EXCEPT !.tries = n]

OffAcct(a)  == SetConnected(a, FALSE)
FailAcct(a) == SetDisconnected(SetReconnecting(OffAcct(a), FALSE), TRUE)
TryAcct(a)  == SetReconnecting(SetTries(a, a.tries + 1), TRUE)
LostAcct(a) == SetTries(SetDisconnected(OffAcct(a), TRUE), 0)

LEMMA TriesIs ==
    ASSUME NEW a \in Account, NEW n \in Nat
    PROVE  Alike(a, SetTries(a, n)) /\ SetTries(a, n).connected = a.connected
BY DEF Alike, Account, SetTries

LEMMA FlagIs ==
    ASSUME NEW a \in Account, NEW x \in BOOLEAN, NEW n \in Nat
    PROVE  /\ Alike(a, SetConnected(a, x)) /\ SetConnected(a, x).connected = x
           /\ SetConnected(a, x).reconnecting = a.reconnecting
           /\ Alike(a, SetReconnecting(a, x)) /\ SetReconnecting(a, x).reconnecting = x
           /\ SetReconnecting(a, x).connected = a.connected
           /\ Alike(a, SetDisconnected(a, x)) /\ SetDisconnected(a, x).disconnected = x
           /\ SetDisconnected(a, x).connected = a.connected
           /\ Alike(a, SetTries(a, n)) /\ SetTries(a, n).connected = a.connected
<1>1. /\ Alike(a, SetConnected(a, x)) /\ SetConnected(a, x).connected = x
      /\ SetConnected(a, x).reconnecting = a.reconnecting
  BY DEF Alike, Account, SetConnected
<1>2. /\ Alike(a, SetReconnecting(a, x)) /\ SetReconnecting(a, x).reconnecting = x
      /\ SetReconnecting(a, x).connected = a.connected
  BY DEF Alike, Account, SetReconnecting
<1>3. /\ Alike(a, SetDisconnected(a, x)) /\ SetDisconnected(a, x).disconnected = x
      /\ SetDisconnected(a, x).connected = a.connected
  BY DEF Alike, Account, SetDisconnected
<1>4. Alike(a, SetTries(a, n)) /\ SetTries(a, n).connected = a.connected
  BY TriesIs
<1> QED BY <1>1, <1>2, <1>3, <1>4

LEMMA FlagsAre ==
    ASSUME NEW a \in Account
    PROVE  /\ Alike(a, OffAcct(a)) /\ ~OffAcct(a).connected
           /\ OffAcct(a).reconnecting = a.reconnecting
           /\ Alike(a, FailAcct(a)) /\ ~FailAcct(a).connected
           /\ Alike(a, TryAcct(a)) /\ TryAcct(a).reconnecting
           /\ Alike(a, LostAcct(a)) /\ ~LostAcct(a).connected
<1> DEFINE f == SetReconnecting(OffAcct(a), FALSE)
           y == SetTries(a, a.tries + 1)
           l == SetDisconnected(OffAcct(a), TRUE)
<1>1. a.tries + 1 \in Nat
  BY DEF Account
<1>2. /\ Alike(a, OffAcct(a)) /\ ~OffAcct(a).connected /\ OffAcct(a) \in Account
      /\ OffAcct(a).reconnecting = a.reconnecting
  BY FlagIs DEF OffAcct, Alike
<1>3. Alike(OffAcct(a), f) /\ ~f.connected /\ f \in Account
  BY <1>2, FlagIs DEF Alike
<1>4. Alike(OffAcct(a), l) /\ ~l.connected /\ l \in Account
  BY <1>2, FlagIs DEF Alike
<1>5. Alike(a, y) /\ y \in Account
  <2>1. \A n \in Nat : Alike(a, SetTries(a, n))
    BY TriesIs
  <2> QED BY <1>1, <2>1 DEF Alike
<1> HIDE DEF f, l, y
<1>6. Alike(f, SetDisconnected(f, TRUE)) /\ ~SetDisconnected(f, TRUE).connected
  BY <1>3, FlagIs
<1>7. Alike(l, SetTries(l, 0)) /\ ~SetTries(l, 0).connected
  <2>1. Alike(l, SetTries(l, 0)) /\ SetTries(l, 0).connected = l.connected
    BY <1>4, TriesIs
  <2> QED BY <1>4, <2>1
<1>8. Alike(y, SetReconnecting(y, TRUE)) /\ SetReconnecting(y, TRUE).reconnecting
  BY <1>5, FlagIs
<1>9. /\ FailAcct(a) = SetDisconnected(f, TRUE) /\ LostAcct(a) = SetTries(l, 0)
      /\ TryAcct(a) = SetReconnecting(y, TRUE)
  BY DEF FailAcct, LostAcct, TryAcct, f, l, y
<1> QED BY <1>2, <1>3, <1>4, <1>5, <1>6, <1>7, <1>8, <1>9 DEF Alike

LEMMA PartedAcct ==
    ASSUME NEW s, NEW rejoin, Parted(s, rejoin), NEW a,
           s.acct \in Account => Alike(s.acct, a)
    PROVE  LET t == [s EXCEPT !.acct = a] IN
           Parted(t, rejoin) /\ Worse(s, t) /\ t.acct = a /\ t.harm = s.harm
<1> DEFINE t == [s EXCEPT !.acct = a]
<1>1. Shape(t) /\ Worse(s, t) /\ t.acct = a /\ Same(s, t, {"acct"})
  BY AccountIs DEF Parted
<1> HIDE DEF t
<1>2. /\ t.conns = s.conns /\ t.src = s.src /\ t.list = s.list /\ t.chats = s.chats
      /\ t.wins = s.wins /\ t.harm = s.harm /\ t.past = s.past
  BY <1>1 DEF Same
<1>3. ASSUME s.harm # {} PROVE Parted(t, rejoin)
  BY <1>1, <1>2, <1>3 DEF Parted, Excused
<1>4. ASSUME s.harm = {} PROVE Parted(t, rejoin)
  <2>1. /\ Typed(s) /\ Asked(s) /\ Matched(s) /\ NoLogin(s) /\ NavKnown(s) /\ GivenUp(s)
        /\ Held(s) /\ Awake(s, rejoin)
        /\ \A c \in DOMAIN s.conns :
              /\ s.conns[c].type \notin {"nav", "chat"}
              /\ \A i \in Numbers(s, c) : s.conns[c].owes[i].m \notin {"nav", "chat"}
    BY <1>4 DEF Parted
  <2>2. /\ t.acct \in Account /\ t.acct.pend = s.acct.pend
        /\ t.acct.dangling = s.acct.dangling /\ t.acct.bos = s.acct.bos /\ t.acct.nav = s.acct.nav
    BY <1>1, <2>1 DEF Alike, Typed
  <2>3. /\ Typed(t) /\ Matched(t) /\ NoLogin(t) /\ NavKnown(t) /\ GivenUp(t) /\ Awake(t, rejoin)
        /\ \A c : Numbers(t, c) = Numbers(s, c)
    BY <1>2, <2>1, <2>2
       DEF Typed, Matched, NoLogin, Logs, NavKnown, GivenUp, Awake, Clean, Numbers
  <2>4. Owed(t)
    BY <1>2, <2>1, <2>2, <2>3 DEF Asked, Owed, Proper
  <2>5. Once(t)
    <3>1. /\ Clean(t) <=> Clean(s)
          /\ \A c, i, r : Asks(t, c, i, r) <=> Asks(s, c, i, r)
      BY <1>2 DEF Clean, Asks
    <3>2. \A r : Idle(s, r) => Idle(t, r)
      BY <1>2, <2>2, <2>3, <3>1 DEF Idle
    <3> QED BY <1>2, <2>1, <2>2, <2>3, <3>1, <3>2 DEF Asked, Once
  <2>6. Held(t)
    BY <1>2, <2>1, HeldSame
  <2> QED BY <1>1, <1>2, <1>4, <2>1, <2>3, <2>4, <2>5, <2>6 DEF Parted, Asked
<1> QED BY <1>1, <1>2, <1>3, <1>4 DEF t

LEMMA PartedGood ==
    ASSUME NEW s, NEW rejoin, Parted(s, rejoin), s.harm = {} => ~s.acct.connected
    PROVE  Good(s, rejoin) /\ (s.harm = {} => NoLogin(s))
<1>1. ASSUME s.harm = {} PROVE Good(s, rejoin) /\ NoLogin(s)
  <2>1. OneLogin(s) /\ Online(s)
    BY <1>1 DEF Parted, OneLogin, NoLogin, Online
  <2> QED BY <1>1, <2>1 DEF Parted, Good, Sound, Linked
<1>2. ASSUME s.harm # {} PROVE Good(s, rejoin)
  BY <1>2 DEF Parted, Good
<1> QED BY <1>1, <1>2

-----------------------------------------------------------------------------
(* Connections that are dialled.                                           *)
LEMMA AskWorse ==
    ASSUME NEW s, Shape(s), NEW c, NEW type, NEW m, NEW room
    PROVE  Worse(s, Ask(s, c, type, m, room))
<1> DEFINE e == Append(s.conns[c].owes, [m |-> m, room |-> room, kept |-> TRUE])
           t == Ask(s, c, type, m, room)
<1>1. t = s \/ t = Harm(s, "freed") \/ t = Harm(s, "astray") \/ t = SetOwes(s, c, e)
  BY DEF Ask, SetOwes
<1> HIDE DEF e, t
<1>2. Worse(s, s)
  BY DEF Worse
<1>3. Worse(s, SetOwes(s, c, e))
  BY OwingIs DEF Owing
<1>4. ASSUME NEW w PROVE Worse(s, Harm(s, w))
  <2>1. /\ Shape(Harm(s, w)) /\ Harm(s, w).harm = s.harm \cup {w}
        /\ Same(s, Harm(s, w), {"harm"})
    BY HarmField DEF Harm
  <2> QED BY <2>1 DEF Worse, Same
<1>5. Worse(s, t)
  BY <1>1, <1>2, <1>3, <1>4
<1> QED BY <1>5 DEF t

(* The state of a connection and its source.                               *)
Wire(s, c, status, source) ==
    [s EXCEPT !.conns[c].status = status, !.src[c] = source]

LEMMA WireIs ==
    ASSUME NEW s, Shape(s), NEW c, NEW status, NEW source
    PROVE  LET t == Wire(s, c, status, source) IN
           /\ Shape(t) /\ Worse(s, t) /\ Same(s, t, {"conns", "src"})
           /\ DOMAIN t.conns = DOMAIN s.conns
           /\ \A d \in DOMAIN s.conns : d # c => t.conns[d] = s.conns[d]
           /\ c \in DOMAIN s.conns /\ s.conns[c] \in Conn =>
                /\ t.conns[c].status = status /\ t.conns[c].type = s.conns[c].type
                /\ t.conns[c].chat = s.conns[c].chat /\ t.conns[c].owes = s.conns[c].owes
                /\ status \in {"new", "inprogress", "up", "closed"} => t.conns[c] \in Conn
           /\ Typed(s) /\ c \in Conns /\ source \in {"none", "connected", "event", "dead"} =>
                /\ t.src \in [Conns -> {"none", "connected", "event", "dead"}]
                /\ t.src[c] = source /\ \A d \in Conns : d # c => t.src[d] = s.src[d]
<1> DEFINE v == [s.conns[c] EXCEPT !.status = status]
           u == Put(s, c, v)
           f == [s.src EXCEPT ![c] = source]
           t == [u EXCEPT !.src = f]
<1>1. Wire(s, c, status, source) = t
  <2>1. Wire(s, c, status, source) = [s EXCEPT !.conns = [s.conns EXCEPT ![c] = v], !.src = f]
    BY DEF Wire, Shape
  <2> DEFINE g == [s.conns EXCEPT ![c] = v]
  <2>2. u = [s EXCEPT !.conns = g]
    BY DEF Put
  <2> HIDE DEF v, f, g, u
  <2>3. Wire(s, c, status, source) = [s EXCEPT !.conns = g, !.src = f]
    BY <2>1 DEF g
  <2> QED BY <2>2, <2>3 DEF Shape
<1>2. c \in DOMAIN s.conns /\ s.conns[c] \in Conn =>
         /\ v.status = status /\ v.type = s.conns[c].type
         /\ v.chat = s.conns[c].chat /\ v.owes = s.conns[c].owes
         /\ status \in {"new", "inprogress", "up", "closed"} => v \in Conn
  BY DEF Conn
<1>6. Typed(s) /\ c \in Conns /\ source \in {"none", "connected", "event", "dead"} =>
         /\ f \in [Conns -> {"none", "connected", "event", "dead"}]
         /\ f[c] = source /\ \A d \in Conns : d # c => f[d] = s.src[d]
  BY DEF Typed
<1> HIDE DEF v, f
<1>3. /\ Shape(u) /\ Worse(s, u) /\ Same(s, u, {"conns"})
      /\ DOMAIN u.conns = DOMAIN s.conns
      /\ c \in DOMAIN s.conns => u.conns[c] = v
      /\ \A d \in DOMAIN s.conns : d # c => u.conns[d] = s.conns[d]
  BY PutIs
<1> HIDE DEF u
<1>4. Shape(t) /\ t.src = f /\ Same(u, t, {"src"})
  BY <1>3, SrcField
<1> HIDE DEF t
<1>5. Same(s, t, {"conns", "src"}) /\ Worse(s, t) /\ t.conns = u.conns
  BY <1>3, <1>4 DEF Same, Worse
<1> QED BY <1>1, <1>2, <1>3, <1>4, <1>5, <1>6

LEMMA NewconnIs ==
    ASSUME NEW s, Shape(s), NEW c, NEW type
    PROVE  LET t == Newconn(s, c, type) IN
           /\ Shape(t) /\ Worse(s, t) /\ Same(s, t, {"conns"})
           /\ DOMAIN t.conns = DOMAIN s.conns \cup {c}
           /\ \A d \in DOMAIN s.conns : d # c => t.conns[d] = s.conns[d]
           /\ t.conns[c] = [type |-> type, status |-> "new", chat |-> None, owes |-> <<>>]
<1> DEFINE f == [d \in DOMAIN s.conns \cup {c} |->
                   IF d = c THEN [type |-> type, status |-> "new", chat |-> None, owes |-> <<>>]
                   ELSE s.conns[d]]
           t == Newconn(s, c, type)
<1>1. t = [s EXCEPT !.conns = f]
  BY DEF Newconn
<1>2. /\ DOMAIN f = DOMAIN s.conns \cup {c}
      /\ \A d \in DOMAIN s.conns : d # c => f[d] = s.conns[d]
      /\ f[c] = [type |-> type, status |-> "new", chat |-> None, owes |-> <<>>]
  OBVIOUS
<1> HIDE DEF f
<1>3. Shape(t) /\ t.conns = f /\ Same(s, t, {"conns"})
  <2> HIDE DEF t
  <2> QED BY <1>1, ConnsField
<1> HIDE DEF t
<1>4. Worse(s, t)
  BY <1>3 DEF Same, Worse
<1> QED BY <1>2, <1>3, <1>4 DEF t

LEMMA DialledWorse ==
    ASSUME NEW s, Shape(s), NEW c, NEW type, NEW t \in Dialled(s, c, type)
    PROVE  Worse(s, t)
<1> DEFINE u == Newconn(s, c, type)
           m == IF u.conns[c].type = "auth" THEN "key" ELSE "online"
<1>1. Shape(u) /\ Worse(s, u)
  BY NewconnIs
<1>2. \/ t = Ask(Wire(u, c, "up", "event"), c, u.conns[c].type, m, None)
      \/ t = Wire(u, c, "inprogress", "connected")
  BY DEF Dialled, Connected, Connecting, Wire
<1> HIDE DEF u, m
<1>3. /\ Worse(u, Wire(u, c, "inprogress", "connected"))
      /\ Worse(u, Wire(u, c, "up", "event")) /\ Shape(Wire(u, c, "up", "event"))
  BY <1>1, WireIs
<1>4. Worse(Wire(u, c, "up", "event"),
            Ask(Wire(u, c, "up", "event"), c, u.conns[c].type, m, None))
  BY <1>3, AskWorse
<1> QED BY <1>1, <1>2, <1>3, <1>4, WorseTwice

LEMMA DialledIs ==
    ASSUME NEW s, Shape(s), Typed(s), NEW c \in Conns, NEW type \in Types,
           NEW t \in Dialled(s, c, type)
    PROVE  /\ Shape(t) /\ Same(s, t, {"conns", "src"}) /\ Typed(t)
           /\ DOMAIN t.conns = DOMAIN s.conns \cup {c}
           /\ \A d \in DOMAIN s.conns : d # c => t.conns[d] = s.conns[d]
           /\ \A d \in Conns : d # c => t.src[d] = s.src[d]
           /\ t.conns[c].type = type /\ t.conns[c].chat = None
           /\ \/ /\ t.src[c] = "event" /\ t.conns[c].status = "up"
                 /\ \A i \in Numbers(t, c) :
                       t.conns[c].owes[i].m = IF type = "auth" THEN "key" ELSE "online"
              \/ /\ t.src[c] = "connected" /\ t.conns[c].status = "inprogress"
                 /\ Numbers(t, c) = {}
<1> DEFINE u == Newconn(s, c, type)
           m == IF type = "auth" THEN "key" ELSE "online"
           new == [type |-> type, status |-> "new", chat |-> None, owes |-> <<>>]
           a == Wire(u, c, "up", "event")
           b == Wire(u, c, "inprogress", "connected")
           q == [m |-> m, room |-> None, kept |-> TRUE]
           e == Append(a.conns[c].owes, q)
<1>1. /\ Shape(u) /\ Same(s, u, {"conns"})
      /\ DOMAIN u.conns = DOMAIN s.conns \cup {c}
      /\ \A d \in DOMAIN s.conns : d # c => u.conns[d] = s.conns[d]
      /\ u.conns[c] = new
  BY NewconnIs
<1>2. new \in Conn /\ new.type = type /\ new.chat = None /\ new.owes = <<>>
  BY DEF Conn
<1>3. \/ t = Ask(a, c, u.conns[c].type, m, None)
      \/ t = b
  <2>1. u.conns[c].type = type
    BY <1>1, <1>2
  <2> QED BY <2>1 DEF Dialled, Connected, Connecting, Wire
<1>4. u.conns[c] \in Conn /\ Typed(u) /\ u.conns[c].type = type /\ u.conns[c].chat = None
      /\ u.conns[c].owes = <<>> /\ u.src = s.src
  <2> HIDE DEF new, u
  <2>1. \A d \in DOMAIN u.conns : u.conns[d] \in Conn
    BY <1>1, <1>2 DEF Typed
  <2> QED BY <1>1, <1>2, <2>1 DEF Typed, Same
<1>5. q \in Message /\ q.m = m
  <2>1. m \in Words
    BY DEF Words
  <2> HIDE DEF m
  <2> QED BY <2>1 DEF Message
<1> HIDE DEF new, u, m, q
<1>6. ASSUME NEW w, NEW status \in {"inprogress", "up"}, NEW source \in {"connected", "event"},
             w = Wire(u, c, status, source)
      PROVE  /\ Shape(w) /\ Same(s, w, {"conns", "src"}) /\ Typed(w)
             /\ DOMAIN w.conns = DOMAIN s.conns \cup {c}
             /\ \A d \in DOMAIN s.conns : d # c => w.conns[d] = s.conns[d]
             /\ \A d \in Conns : d # c => w.src[d] = s.src[d]
             /\ w.conns[c].type = type /\ w.conns[c].chat = None /\ w.conns[c].owes = <<>>
             /\ w.src[c] = source /\ w.conns[c].status = status
  <2>1. /\ Shape(w) /\ Same(u, w, {"conns", "src"})
        /\ DOMAIN w.conns = DOMAIN u.conns
        /\ \A d \in DOMAIN u.conns : d # c => w.conns[d] = u.conns[d]
        /\ w.conns[c].status = status /\ w.conns[c].type = u.conns[c].type
        /\ w.conns[c].chat = u.conns[c].chat /\ w.conns[c].owes = u.conns[c].owes
        /\ w.conns[c] \in Conn
        /\ w.src \in [Conns -> {"none", "connected", "event", "dead"}]
        /\ w.src[c] = source /\ \A d \in Conns : d # c => w.src[d] = u.src[d]
    BY <1>1, <1>4, <1>6, WireIs
  <2>2. /\ w.src \in [Conns -> {"none", "connected", "event", "dead"}]
        /\ w.src[c] = source /\ \A d \in Conns : d # c => w.src[d] = s.src[d]
    BY <1>4, <2>1
  <2>3. \A d \in DOMAIN w.conns : w.conns[d] \in Conn
    BY <1>4, <2>1 DEF Typed
  <2>4. Same(s, w, {"conns", "src"})
    BY <1>1, <2>1 DEF Same
  <2>5. Typed(w)
    BY <1>1, <1>4, <2>1, <2>2, <2>3, <2>4 DEF Typed, Same
  <2> QED BY <1>1, <1>4, <2>1, <2>2, <2>4, <2>5
<1>7. /\ Shape(b) /\ Same(s, b, {"conns", "src"}) /\ Typed(b)
      /\ DOMAIN b.conns = DOMAIN s.conns \cup {c}
      /\ \A d \in DOMAIN s.conns : d # c => b.conns[d] = s.conns[d]
      /\ \A d \in Conns : d # c => b.src[d] = s.src[d]
      /\ b.conns[c].type = type /\ b.conns[c].chat = None /\ b.conns[c].owes = <<>>
      /\ b.src[c] = "connected" /\ b.conns[c].status = "inprogress"
  BY <1>6
<1>8. /\ Shape(a) /\ Same(s, a, {"conns", "src"}) /\ Typed(a)
      /\ DOMAIN a.conns = DOMAIN s.conns \cup {c}
      /\ \A d \in DOMAIN s.conns : d # c => a.conns[d] = s.conns[d]
      /\ \A d \in Conns : d # c => a.src[d] = s.src[d]
      /\ a.conns[c].type = type /\ a.conns[c].chat = None /\ a.conns[c].owes = <<>>
      /\ a.src[c] = "event" /\ a.conns[c].status = "up"
  BY <1>6
<1> HIDE DEF a, b
<1>9. CASE t = b
  <2>1. Numbers(b, c) = {}
    BY <1>7 DEF Numbers
  <2> QED BY <1>7, <1>9, <2>1
<1>10. CASE t = Ask(a, c, u.conns[c].type, m, None)
  <2>1. c # None
    BY ConnsAssumption DEF None
  <2>2. t = SetOwes(a, c, e)
    BY <1>4, <1>8, <1>10, <2>1 DEF Ask, SetOwes, q
  <2>3. e = <<q>> /\ e \in Seq(Message) /\ Len(e) = 1 /\ e[1] = q
    BY <1>5, <1>8
  <2> HIDE DEF e
  <2>4. Owing(a, t, c, e)
    BY <1>8, <2>2, OwingIs
  <2>5. \A i \in Numbers(t, c) : t.conns[c].owes[i].m = m
    <3>1. t.conns[c].owes = e
      BY <1>8, <2>4 DEF Owing
    <3>2. \A i \in Numbers(t, c) : i = 1
      BY <2>3, <3>1 DEF Numbers
    <3> QED BY <1>5, <2>3, <3>1, <3>2
  <2>6. Same(s, t, {"conns", "src"}) /\ t.src = a.src
    BY <1>8, <2>4 DEF Owing, Same
  <2>7. DOMAIN t.conns = DOMAIN s.conns \cup {c}
        /\ \A d \in DOMAIN s.conns : d # c => t.conns[d] = s.conns[d]
    BY <1>8, <2>4 DEF Owing
  <2> QED BY <1>8, <2>3, <2>4, <2>5, <2>6, <2>7 DEF Owing, m
<1> QED BY <1>3, <1>9, <1>10

(* A connection is new, and asks for no room.                              *)
LEMMA AskedNew ==
    ASSUME NEW s, NEW t, NEW c, Asked(s), s.past \subseteq t.past, t.acct = s.acct,
           t.chats = s.chats,
           \A d \in DOMAIN t.conns : d # c => /\ d \in DOMAIN s.conns /\ t.conns[d] = s.conns[d]
                                              /\ t.src[d] = s.src[d],
           \A i \in Numbers(t, c) : Proper(t, c, t.conns[c].owes[i]) /\ ~Joins(t.conns[c].owes[i])
    PROVE  Asked(t)
<1>1. Owed(t)
  <2> SUFFICES ASSUME NEW d \in DOMAIN t.conns, NEW i \in Numbers(t, d)
               PROVE  Proper(t, d, t.conns[d].owes[i])
    BY DEF Owed
  <2>1. CASE d = c
    BY <2>1
  <2>2. CASE d # c
    <3>1. Proper(s, d, s.conns[d].owes[i])
      BY <2>2 DEF Asked, Owed, Numbers
    <3> QED BY <2>2, <3>1 DEF Proper
  <2> QED BY <2>1, <2>2
<1>2. ASSUME NEW d \in DOMAIN t.conns, NEW i \in Numbers(t, d), Joins(t.conns[d].owes[i])
      PROVE  /\ d \in DOMAIN s.conns /\ i \in Numbers(s, d)
             /\ t.conns[d].owes[i] = s.conns[d].owes[i]
  <2>1. d # c
    BY <1>2
  <2> QED BY <2>1 DEF Numbers
<1>3. ASSUME Clean(t) PROVE Once(t)
  <2>1. Clean(s)
    BY <1>3, CleanBefore
  <2>2. \A d \in DOMAIN t.conns : \A i \in Numbers(t, d) : \A r :
           Asks(t, d, i, r) => /\ d \in DOMAIN s.conns /\ i \in Numbers(s, d)
                               /\ t.conns[d].owes[i] = s.conns[d].owes[i] /\ Asks(s, d, i, r)
    BY <1>2 DEF Asks
  <2>3. \A k \in DOMAIN t.chats : Idle(t, t.chats[k].room)
    BY <2>1, <2>2 DEF Asked, Once, Idle
  <2>4. \A a, d \in DOMAIN t.conns : \A i \in Numbers(t, a), j \in Numbers(t, d) :
           Joins(t.conns[a].owes[i]) /\ Asks(t, d, j, t.conns[a].owes[i].room) => a = d /\ i = j
    BY <1>2, <2>1, <2>2 DEF Asked, Once
  <2> QED BY <2>1, <2>2, <2>3, <2>4 DEF Asked, Once
<1> QED BY <1>1, <1>3 DEF Asked, Once

LEMMA DialledGood ==
    ASSUME NEW s, NEW rejoin, Good(s, rejoin), NEW c \in Conns, NEW type \in {"auth", "bos", "nav"},
           NEW t \in Dialled(s, c, type),
           s.harm = {} => /\ c \notin DOMAIN s.conns
                          /\ type = "nav" => s.acct.connected
                          /\ type # "nav" => /\ NoLogin(s) /\ ~s.acct.connected
                                             /\ ~(s.acct.disconnected /\ ~s.acct.reconnecting)
    PROVE  Good(t, rejoin)
<1>1. CASE s.harm # {}
  <2>1. Worse(s, t)
    BY DialledWorse DEF Good
  <2> QED BY <1>1, <2>1, StillExcused DEF Good
<1>2. CASE s.harm = {}
  <2>1. Shape(s) /\ Typed(s) /\ Asked(s) /\ Linked(s) /\ Awake(s, rejoin) /\ type \in Types
    BY <1>2 DEF Good, Sound, Types
  <2>2. /\ Shape(t) /\ Same(s, t, {"conns", "src"}) /\ Typed(t)
        /\ DOMAIN t.conns = DOMAIN s.conns \cup {c}
        /\ \A d \in DOMAIN s.conns : d # c => t.conns[d] = s.conns[d]
        /\ \A d \in Conns : d # c => t.src[d] = s.src[d]
        /\ t.conns[c].type = type /\ t.conns[c].chat = None
        /\ \/ /\ t.src[c] = "event" /\ t.conns[c].status = "up"
              /\ \A i \in Numbers(t, c) :
                    t.conns[c].owes[i].m = IF type = "auth" THEN "key" ELSE "online"
           \/ /\ t.src[c] = "connected" /\ t.conns[c].status = "inprogress"
              /\ Numbers(t, c) = {}
    BY <2>1, DialledIs
  <2>3. /\ t.acct = s.acct /\ t.list = s.list /\ t.chats = s.chats /\ t.wins = s.wins
        /\ t.harm = s.harm /\ t.past = s.past
    BY <2>2 DEF Same
  <2>4. /\ c \notin DOMAIN s.conns /\ DOMAIN s.conns \subseteq Conns
        /\ \A d \in DOMAIN s.conns : d # c /\ t.conns[d] = s.conns[d] /\ t.src[d] = s.src[d]
    BY <1>2, <2>1, <2>2 DEF Typed
  <2>5. Asked(t)
    <3>1. \A i \in Numbers(t, c) : Proper(t, c, t.conns[c].owes[i]) /\ ~Joins(t.conns[c].owes[i])
      BY <2>2 DEF Proper, Joins, MayOwe
    <3> QED BY <2>1, <2>2, <2>3, <2>4, <3>1, AskedNew
  <2>6. Matched(t)
    BY <2>1, <2>2, <2>4 DEF Linked, Matched
  <2>7. OneLogin(t)
    <3>1. CASE type = "nav"
      BY <2>1, <2>2, <2>3, <2>4, <3>1 DEF Linked, OneLogin, NoLogin, Logs
    <3>2. CASE type # "nav"
      BY <1>2, <2>1, <2>2, <2>3, <2>4, <3>2 DEF OneLogin, NoLogin, Logs
    <3> QED BY <3>1, <3>2
  <2>8. Online(t)
    BY <1>2, <2>1, <2>2, <2>3, <2>4 DEF Linked, Online
  <2>9. NavKnown(t) /\ GivenUp(t)
    BY <2>1, <2>2, <2>3, <2>4 DEF Linked, NavKnown, GivenUp
  <2>10. Listed(t) /\ Shown(t) /\ Kept(t) /\ (Clean(t) <=> Clean(s))
    BY <2>1, <2>3 DEF Linked, Held, Listed, Shown, Kept, Clean
  <2>11. Paired(t)
    <3>1. Paired(s)
      BY <2>1 DEF Linked, Held
    <3>2. t.conns[c].type # "chat"
      BY <2>2
    <3>3. DOMAIN t.conns = DOMAIN s.conns \cup {c}
      BY <2>2
    <3> QED BY <2>3, <2>4, <3>1, <3>2, <3>3, PairedMoved
  <2>12. Awake(t, rejoin)
    <3> SUFFICES ASSUME Clean(s), NEW k \in DOMAIN s.chats, t.src[s.chats[k].conn] = "none"
                 PROVE  rejoin
      BY <2>3, <2>10 DEF Awake
    <3>1. s.chats[k].conn \in DOMAIN s.conns
      BY <2>1 DEF Linked, Held, Kept, Paired
    <3>2. s.src[s.chats[k].conn] = "none"
      BY <2>4, <3>1
    <3> QED BY <2>1, <3>2 DEF Awake
  <2> QED BY <1>2, <2>2, <2>3, <2>5, <2>6, <2>7, <2>8, <2>9, <2>10, <2>11, <2>12
          DEF Good, Sound, Linked, Held
<1> QED BY <1>1, <1>2

LEMMA DialGood ==
    ASSUME NEW s, NEW rejoin, Good(s, rejoin), NEW type \in {"auth", "bos", "nav"},
           NEW t \in Dial(s, type),
           s.harm = {} => /\ type = "nav" => s.acct.connected
                          /\ type # "nav" => /\ NoLogin(s) /\ ~s.acct.connected
                                             /\ ~(s.acct.disconnected /\ ~s.acct.reconnecting)
    PROVE  Good(t, rejoin)
<1>1. PICK c \in Fresh(s) : t \in Dialled(s, c, type)
  BY DEF Dial
<1>2. c \in Conns /\ c \notin DOMAIN s.conns
  BY DEF Fresh, Free
<1> QED BY <1>1, <1>2, DialledGood

-----------------------------------------------------------------------------
(* The account tries again, or is told that the connection is lost.        *)
LEMMA PartedHalf ==
    ASSUME NEW s, NEW rejoin, Parted(s, rejoin)
    PROVE  Half(s)
BY DEF Parted, Half

LEMMA TryGood ==
    ASSUME NEW s, NEW rejoin, Parted(s, rejoin), NEW t \in pork_acct_reconnect(s)
    PROVE  Good(t, rejoin)
<1> DEFINE a == TryAcct(s.acct)
           u == [s EXCEPT !.acct = a]
           b == OffAcct(u.acct)
           v == [u EXCEPT !.acct = b]
<1>1. t \in Dial(v, "auth") \cup {v}
  <2>1. u = [s EXCEPT !.acct.tries = s.acct.tries + 1, !.acct.reconnecting = TRUE]
    BY DEF TryAcct, SetTries, SetReconnecting
  <2>2. v = [u EXCEPT !.acct.connected = FALSE]
    BY DEF OffAcct, SetConnected
  <2>3. pork_acct_reconnect(s) = aim_login(u)
    BY <2>1 DEF pork_acct_reconnect
  <2> HIDE DEF u
  <2>4. aim_login(u) = Dial(v, "auth") \cup {v}
    BY <2>2 DEF aim_login
  <2> QED BY <2>3, <2>4
<1>2. s.acct \in Account => Alike(s.acct, a) /\ a.reconnecting
  BY FlagsAre
<1> HIDE DEF a
<1>3. Parted(u, rejoin) /\ u.acct = a /\ u.harm = s.harm
  BY <1>2, PartedAcct
<1> HIDE DEF u
<1>4. u.acct \in Account => Alike(u.acct, b) /\ ~b.connected /\ b.reconnecting = u.acct.reconnecting
  BY FlagsAre
<1> HIDE DEF b
<1>5. Parted(v, rejoin) /\ v.acct = b /\ v.harm = u.harm
  BY <1>3, <1>4, PartedAcct
<1> HIDE DEF v
<1>6. v.harm = {} => ~v.acct.connected /\ v.acct.reconnecting
  <2>1. v.harm = {} => s.acct \in Account /\ u.acct \in Account
    BY <1>3, <1>5 DEF Parted, Typed
  <2> QED BY <1>2, <1>3, <1>4, <1>5, <2>1
<1>7. Good(v, rejoin) /\ (v.harm = {} => NoLogin(v))
  BY <1>5, <1>6, PartedGood
<1>8. CASE t \in Dial(v, "auth")
  BY <1>6, <1>7, <1>8, DialGood
<1> QED BY <1>1, <1>7, <1>8

LEMMA FailGood ==
    ASSUME NEW s, NEW rejoin, Parted(s, rejoin)
    PROVE  Good(pork_acct_connect_fail(s), rejoin)
<1> DEFINE a == FailAcct(s.acct)
           t == [s EXCEPT !.acct = a]
<1>1. pork_acct_connect_fail(s) \in {t, Del(t)}
  <2>1. t = [s EXCEPT !.acct.connected = FALSE, !.acct.reconnecting = FALSE,
                      !.acct.disconnected = TRUE]
    BY DEF FailAcct, OffAcct, SetConnected, SetReconnecting, SetDisconnected
  <2> QED BY <2>1 DEF pork_acct_connect_fail
<1>2. s.acct \in Account => Alike(s.acct, a) /\ ~a.connected
  BY FlagsAre
<1> HIDE DEF a
<1>3. Parted(t, rejoin) /\ t.acct = a /\ t.harm = s.harm
  BY <1>2, PartedAcct
<1> HIDE DEF t
<1>4. t.harm = {} => ~t.acct.connected
  BY <1>2, <1>3 DEF Parted, Typed
<1>5. Good(t, rejoin)
  BY <1>3, <1>4, PartedGood
<1>6. Good(Del(t), rejoin)
  BY <1>3, PartedHalf, OverGood
<1> QED BY <1>1, <1>5, <1>6

LEMMA LostGood ==
    ASSUME NEW s, NEW rejoin, Parted(s, rejoin), NEW t \in pork_acct_disconnected(s)
    PROVE  Good(t, rejoin)
<1> DEFINE a == LostAcct(s.acct)
           u == [s EXCEPT !.acct = a]
<1>1. t = Del(s) \/ t = pork_acct_connect_fail(s) \/ t \in pork_acct_reconnect(u)
  <2>1. u = [s EXCEPT !.acct.connected = FALSE, !.acct.disconnected = TRUE, !.acct.tries = 0]
    BY DEF LostAcct, OffAcct, SetConnected, SetDisconnected, SetTries
  <2> QED BY <2>1 DEF pork_acct_disconnected
<1>2. s.acct \in Account => Alike(s.acct, a)
  BY FlagsAre
<1> HIDE DEF a
<1>3. Parted(u, rejoin)
  BY <1>2, PartedAcct
<1> HIDE DEF u
<1>4. Good(Del(s), rejoin)
  BY PartedHalf, OverGood
<1> QED BY <1>1, <1>3, <1>4, FailGood, TryGood

(* What a handler leads to, when the session may be over.                  *)
Ends(s) == IF s.conns = <<>> THEN pork_acct_disconnected(s) ELSE {s}

LEMMA EndsGood ==
    ASSUME NEW s, NEW rejoin, Good(s, rejoin), NEW t \in Ends(s)
    PROVE  Good(t, rejoin)
<1>1. CASE s.conns = <<>>
  <2>1. s.harm = {} => NoLogin(s) /\ ~s.acct.connected
    BY <1>1 DEF NoLogin, Good, Sound, Linked, Online
  <2>2. Parted(s, rejoin)
    BY <2>1, GoodParted
  <2> QED BY <1>1, <2>2, LostGood DEF Ends
<1>2. CASE s.conns # <<>>
  BY <1>2 DEF Ends
<1> QED BY <1>1, <1>2

-----------------------------------------------------------------------------
(* Rooms.  The least of a set of numbers, and a sequence without one of    *)
(* its members.                                                            *)
LEMMA LeastIs ==
    ASSUME NEW T, T \subseteq Nat, T # {}
    PROVE  \E x \in T : \A y \in T : x <= y
<1> DEFINE R == OpToRel(<, Nat)
<1>1. IsWellFoundedOn(R, Nat)
  BY NatLessThanWellFounded
<1>2. \A x, y \in Nat : y < x => <<y, x>> \in R
  BY DEF OpToRel
<1> HIDE DEF R
<1>3. PICK x \in T : \A y \in T : ~ (<<y, x>> \in R)
  BY <1>1, WFMin
<1>4. ASSUME NEW y \in T PROVE x <= y
  <2>1. x \in Nat /\ y \in Nat /\ ~ (<<y, x>> \in R)
    BY <1>3
  <2>2. ~(y < x)
    BY <1>2, <2>1
  <2> QED BY <2>1, <2>2
<1> QED BY <1>4

LEMMA RemoveAtElements ==
    ASSUME NEW S, NEW s \in Seq(S), NEW i \in 1 .. Len(s)
    PROVE  /\ RemoveAt(s, i) \in Seq(S)
           /\ Len(RemoveAt(s, i)) = Len(s) - 1
           /\ \A j \in 1 .. Len(s) - 1 :
                 RemoveAt(s, i)[j] = IF j < i THEN s[j] ELSE s[j + 1]
<1> DEFINE front == SubSeq(s, 1, i - 1)
           back  == SubSeq(s, i + 1, Len(s))
<1>1. /\ front \in Seq(S) /\ Len(front) = i - 1
      /\ \A j \in 1 .. i - 1 : front[j] = s[j]
  BY SubSeqProperties
<1>2. /\ back \in Seq(S) /\ Len(back) = Len(s) - i
      /\ \A j \in 1 .. Len(s) - i : back[j] = s[j + i]
  BY SubSeqProperties
<1>3. /\ front \o back \in Seq(S) /\ Len(front \o back) = Len(s) - 1
      /\ \A j \in 1 .. Len(s) - 1 :
            (front \o back)[j] = IF j <= i - 1 THEN front[j] ELSE back[j - (i - 1)]
  <2> HIDE DEF front, back
  <2> QED BY <1>1, <1>2, ConcatProperties
<1>4. ASSUME NEW j \in 1 .. Len(s) - 1
      PROVE  (front \o back)[j] = IF j < i THEN s[j] ELSE s[j + 1]
  <2> HIDE DEF front, back
  <2>1. CASE j < i
    BY <2>1, <1>1, <1>3
  <2>2. CASE ~(j < i)
    <3>1. j - (i - 1) \in 1 .. Len(s) - i /\ (j - (i - 1)) + i = j + 1
      BY <2>2
    <3> QED BY <2>2, <3>1, <1>2, <1>3
  <2> QED BY <2>1, <2>2
<1> QED BY <1>3, <1>4 DEF RemoveAt

LEMMA NoAddress == None \notin Chats /\ Shut \notin Chats /\ None # Shut /\ None \notin Conns
BY ConnsAssumption DEF None, Shut

LEMMA FoundIs ==
    ASSUME NEW s, Typed(s), Held(s), NEW r
    PROVE  /\ Found(s, r) = None => ~There(s, r)
           /\ Found(s, r) # None => /\ Found(s, r) \in DOMAIN s.chats
                                    /\ s.chats[Found(s, r)].data => s.chats[Found(s, r)].room = r
<1> DEFINE R == Read(s, r)
           m == CHOOSE i \in R : \A j \in R : i <= j
<1>1. /\ s.list \in Seq(Chats) /\ Len(s.list) \in Nat /\ DOMAIN s.list = 1 .. Len(s.list)
      /\ Listed(s) /\ DOMAIN s.chats \subseteq Chats
  BY LenProperties DEF Typed, Held
<1>2. R = {i \in 1 .. Len(s.list) : s.chats[s.list[i]].room = r \/ ~s.chats[s.list[i]].data}
  BY <1>1 DEF Read
<1>3. Found(s, r) = IF R = {} THEN None ELSE s.list[m]
  BY DEF Found
<1> HIDE DEF R
<1>4. ASSUME R = {} PROVE ~There(s, r)
  BY <1>1, <1>2, <1>4 DEF There, Listed
<1>5. ASSUME R # {}
      PROVE  /\ s.list[m] \in DOMAIN s.chats /\ s.list[m] # None
             /\ s.chats[s.list[m]].data => s.chats[s.list[m]].room = r
  <2>1. R \subseteq Nat
    BY <1>2
  <2>2. \E i \in R : \A j \in R : i <= j
    BY <1>5, <2>1, LeastIs
  <2>3. m \in R
    BY <2>2
  <2> HIDE DEF m
  <2>4. m \in 1 .. Len(s.list) /\ (s.chats[s.list[m]].room = r \/ ~s.chats[s.list[m]].data)
    BY <1>2, <2>3
  <2> QED BY <1>1, <2>4, NoAddress DEF Listed
<1> QED BY <1>3, <1>4, <1>5

LEMMA ForgetIs ==
    ASSUME NEW s, Shape(s), Typed(s), Listed(s), NEW k \in DOMAIN s.chats
    PROVE  LET t == Forget(s, k) IN
           /\ Shape(t) /\ Same(s, t, {"list", "chats"}) /\ Typed(t) /\ Listed(t)
           /\ DOMAIN t.chats = DOMAIN s.chats \ {k}
           /\ \A j \in DOMAIN t.chats : t.chats[j] = s.chats[j]
<1> DEFINE n == CHOOSE i \in DOMAIN s.list : s.list[i] = k
           l == RemoveAt(s.list, n)
           h == [j \in DOMAIN s.chats \ {k} |-> s.chats[j]]
           u == [s EXCEPT !.list = l]
           t == [u EXCEPT !.chats = h]
<1>1. Forget(s, k) = t
  <2>1. Forget(s, k) = [s EXCEPT !.list = l, !.chats = h]
    BY DEF Forget
  <2> HIDE DEF l, h
  <2> QED BY <2>1 DEF Shape
<1>2. s.list \in Seq(Chats) /\ Len(s.list) \in Nat /\ DOMAIN s.list = 1 .. Len(s.list)
  BY LenProperties DEF Typed
<1>3. n \in 1 .. Len(s.list) /\ s.list[n] = k
  <2>1. \E i \in DOMAIN s.list : s.list[i] = k
    BY <1>2 DEF Listed
  <2> QED BY <1>2, <2>1
<1> HIDE DEF n
<1>4. /\ l \in Seq(Chats) /\ Len(l) = Len(s.list) - 1
      /\ \A j \in 1 .. Len(s.list) - 1 : l[j] = IF j < n THEN s.list[j] ELSE s.list[j + 1]
  BY <1>2, <1>3, RemoveAtElements
<1>5. DOMAIN h = DOMAIN s.chats \ {k} /\ \A j \in DOMAIN h : h[j] = s.chats[j]
  OBVIOUS
<1> HIDE DEF l, h
<1>6. Shape(u) /\ u.list = l /\ Same(s, u, {"list"})
  BY ListField
<1> HIDE DEF u
<1>7. Shape(t) /\ t.chats = h /\ Same(u, t, {"chats"})
  BY <1>6, ChatsField
<1> HIDE DEF t
<1>8. t.list = l /\ Same(s, t, {"list", "chats"})
  BY <1>6, <1>7 DEF Same
<1>9. Typed(t)
  BY <1>4, <1>5, <1>7, <1>8 DEF Typed, Same
<1> DEFINE up(j) == IF j < n THEN j ELSE j + 1
<1>10. \A j \in 1 .. Len(l) : up(j) \in 1 .. Len(s.list) /\ up(j) # n /\ l[j] = s.list[up(j)]
  BY <1>2, <1>3, <1>4
<1>11. \A i, j \in 1 .. Len(l) : up(i) = up(j) => i = j
  BY <1>2, <1>3, <1>4
<1>12. \A p \in 1 .. Len(s.list) : p # n => \E j \in 1 .. Len(l) : up(j) = p
  <2> TAKE p \in 1 .. Len(s.list)
  <2>1. CASE p < n
    <3>1. p \in 1 .. Len(l) /\ up(p) = p
      BY <1>2, <1>3, <1>4, <2>1
    <3> QED BY <3>1
  <2>2. CASE p > n
    <3>1. p - 1 \in 1 .. Len(l) /\ up(p - 1) = p
      BY <1>2, <1>3, <1>4, <2>2
    <3> QED BY <3>1
  <2> QED BY <1>2, <1>3, <2>1, <2>2
<1> HIDE DEF up
<1>13. Listed(t)
  <2>1. \A i, j \in 1 .. Len(l) : l[i] = l[j] => i = j
    <3> SUFFICES ASSUME NEW i \in 1 .. Len(l), NEW j \in 1 .. Len(l), l[i] = l[j]
                 PROVE  i = j
      OBVIOUS
    <3>1. /\ up(i) \in 1 .. Len(s.list) /\ up(j) \in 1 .. Len(s.list)
          /\ s.list[up(i)] = s.list[up(j)]
      BY <1>10
    <3>2. up(i) = up(j)
      BY <3>1 DEF Listed
    <3> QED BY <1>11, <3>2
  <2>2. ASSUME NEW i \in 1 .. Len(l) PROVE l[i] \in DOMAIN h
    <3>1. up(i) \in 1 .. Len(s.list) /\ up(i) # n /\ l[i] = s.list[up(i)]
      BY <1>10
    <3>2. s.list[up(i)] \in DOMAIN s.chats /\ s.list[up(i)] # s.list[n]
      BY <1>3, <3>1 DEF Listed
    <3> QED BY <1>3, <1>5, <3>1, <3>2
  <2>3. ASSUME NEW j \in DOMAIN h PROVE \E i \in 1 .. Len(l) : l[i] = j
    <3>1. j \in DOMAIN s.chats /\ j # k
      BY <1>5
    <3>2. PICK p \in 1 .. Len(s.list) : s.list[p] = j
      BY <3>1 DEF Listed
    <3>3. PICK i \in 1 .. Len(l) : up(i) = p
      BY <1>3, <1>12, <3>1, <3>2
    <3> QED BY <1>10, <3>2, <3>3
  <2> QED BY <1>7, <1>8, <2>1, <2>2, <2>3 DEF Listed
<1> QED BY <1>1, <1>5, <1>7, <1>8, <1>9, <1>13

(* The window of a room is another.                                        *)
SetWin(s, r, v) == [s EXCEPT !.wins[r] = v]

LEMMA WinIs ==
    ASSUME NEW s, Shape(s), NEW r, NEW v
    PROVE  LET t == SetWin(s, r, v) IN
           /\ Shape(t) /\ Worse(s, t) /\ Same(s, t, {"wins"})
           /\ Typed(s) => \A x \in Rooms : t.wins[x] = IF x = r THEN v ELSE s.wins[x]
           /\ Typed(s) /\ v \in Chats \cup {Shut, None} => Typed(t)
<1> DEFINE w == [s.wins EXCEPT ![r] = v]
           t == [s EXCEPT !.wins = w]
<1>1. SetWin(s, r, v) = t
  BY DEF SetWin
<1>2. ASSUME Typed(s)
      PROVE  /\ \A x \in Rooms : w[x] = IF x = r THEN v ELSE s.wins[x]
             /\ v \in Chats \cup {Shut, None} => w \in [Rooms -> Chats \cup {Shut, None}]
  BY <1>2 DEF Typed
<1> HIDE DEF w
<1>3. Shape(t) /\ t.wins = w /\ Same(s, t, {"wins"})
  BY WinsField
<1> HIDE DEF t
<1>4. Worse(s, t)
  BY <1>3 DEF Worse, Same
<1>5. Typed(s) /\ v \in Chats \cup {Shut, None} => Typed(t)
  BY <1>2, <1>3 DEF Typed, Same
<1> QED BY <1>1, <1>2, <1>3, <1>4, <1>5

LEMMA FreedIs ==
    ASSUME NEW s, Shape(s), Typed(s), Listed(s), NEW k \in DOMAIN s.chats, s.chats[k].win
    PROVE  LET t == chat_free(s, k)
               c == s.chats[k].conn
               r == s.chats[k].room
           IN  /\ Shape(t) /\ Worse(s, t) /\ Typed(t) /\ Listed(t)
               /\ Same(s, t, {"conns", "src", "list", "chats", "wins"})
               /\ DOMAIN t.conns = DOMAIN s.conns \ {c}
               /\ \A d \in DOMAIN t.conns : t.conns[d] = s.conns[d]
               /\ t.src[c] = "none" /\ \A d \in Conns : d # c => t.src[d] = s.src[d]
               /\ DOMAIN t.chats = DOMAIN s.chats \ {k}
               /\ \A j \in DOMAIN t.chats : t.chats[j] = s.chats[j]
               /\ \A x \in Rooms : t.wins[x] = IF x = r THEN None ELSE s.wins[x]
<1> DEFINE c == s.chats[k].conn
           r == s.chats[k].room
           u == SetWin(s, r, None)
           v == Kill(u, c)
           t == Forget(v, k)
<1>1. chat_free(s, k) = t
  BY DEF chat_free, SetWin
<1>2. c \in Conns
  BY DEF Typed, Chat
<1> HIDE DEF c, r
<1>3. /\ Shape(u) /\ Worse(s, u) /\ Same(s, u, {"wins"}) /\ Typed(u)
      /\ \A x \in Rooms : u.wins[x] = IF x = r THEN None ELSE s.wins[x]
  BY WinIs
<1> HIDE DEF u
<1>4. /\ Shape(v) /\ Worse(u, v) /\ Same(u, v, {"conns", "src"})
      /\ DOMAIN v.conns = DOMAIN u.conns \ {c}
      /\ \A d \in DOMAIN u.conns : d # c => v.conns[d] = u.conns[d]
      /\ Typed(v) /\ \A d \in Conns : d # c => v.src[d] = u.src[d]
      /\ v.src[c] = "none"
  BY <1>2, <1>3, KillIs
<1> HIDE DEF v
<1>5. v.list = s.list /\ v.chats = s.chats /\ v.wins = u.wins /\ u.conns = s.conns /\ u.src = s.src
  BY <1>3, <1>4 DEF Same
<1>6. Listed(v) /\ k \in DOMAIN v.chats
  BY SMTT(30), <1>5 DEF Listed
<1>7. /\ Shape(t) /\ Same(v, t, {"list", "chats"}) /\ Typed(t) /\ Listed(t)
      /\ DOMAIN t.chats = DOMAIN v.chats \ {k}
      /\ \A j \in DOMAIN t.chats : t.chats[j] = v.chats[j]
  BY <1>4, <1>6, ForgetIs
<1> HIDE DEF t
<1>8. Same(s, t, {"conns", "src", "list", "chats", "wins"})
  BY <1>3, <1>4, <1>7 DEF Same
<1>9. Worse(s, t)
  BY <1>7, <1>8 DEF Worse, Same
<1>10. t.conns = v.conns /\ t.src = v.src /\ t.wins = v.wins
  BY <1>7 DEF Same
<1>11. \A d \in DOMAIN t.conns : t.conns[d] = s.conns[d]
  BY <1>4, <1>5, <1>10
<1> QED BY <1>1, <1>3, <1>4, <1>5, <1>7, <1>8, <1>9, <1>10, <1>11 DEF c, r

(* A room is freed; the others have sources.                               *)
LEMMA FreeGood ==
    ASSUME NEW s, NEW rejoin, Shape(s), s.harm = {}, Sound(s), NEW k \in DOMAIN s.chats,
           s.chats[k].data,
           Clean(s) => \A j \in DOMAIN s.chats : j # k /\ s.src[s.chats[j].conn] = "none" => rejoin
    PROVE  LET t == chat_free(s, k) IN
           /\ Good(t, rejoin) /\ Worse(s, t)
           /\ t.harm = {} /\ Clean(t) => ~There(t, s.chats[k].room)
<1> DEFINE t == chat_free(s, k)
<1>0. Typed(s) /\ Asked(s) /\ Linked(s) /\ Held(s) /\ Listed(s) /\ Paired(s) /\ Shown(s) /\ Kept(s)
  BY DEF Sound, Linked, Held
<1>1. ASSUME ~s.chats[k].win PROVE Good(t, rejoin) /\ Worse(s, t) /\ t.harm # {}
  <2>1. t = Harm(s, "window")
    BY <1>1 DEF chat_free
  <2>2. Excused(s)
    BY <1>0, <1>1 DEF Kept, Clean, Excused, Ways
  <2>3. t.harm = s.harm \cup {"window"}
    BY <2>1, HarmField DEF Harm
  <2> QED BY <2>1, <2>2, <2>3, HarmIs
<1>2. ASSUME s.chats[k].win
      PROVE  Good(t, rejoin) /\ Worse(s, t) /\ (Clean(t) => ~There(t, s.chats[k].room))
  <2> DEFINE c == s.chats[k].conn
             r == s.chats[k].room
  <2>1. /\ Shape(t) /\ Worse(s, t) /\ Typed(t) /\ Listed(t)
        /\ Same(s, t, {"conns", "src", "list", "chats", "wins"})
        /\ DOMAIN t.conns = DOMAIN s.conns \ {c}
        /\ \A d \in DOMAIN t.conns : t.conns[d] = s.conns[d]
        /\ t.src[c] = "none" /\ \A d \in Conns : d # c => t.src[d] = s.src[d]
        /\ DOMAIN t.chats = DOMAIN s.chats \ {k}
        /\ \A j \in DOMAIN t.chats : t.chats[j] = s.chats[j]
        /\ \A x \in Rooms : t.wins[x] = IF x = r THEN None ELSE s.wins[x]
    BY <1>0, <1>2, FreedIs
  <2> HIDE DEF t
  <2>2. t.acct = s.acct /\ t.harm = s.harm /\ t.past = s.past /\ (Clean(t) <=> Clean(s))
    BY <2>1 DEF Same, Clean
  <2>3. /\ c \in DOMAIN s.conns /\ s.conns[c].type = "chat" /\ s.conns[c].chat = k
        /\ DOMAIN s.conns \subseteq Conns /\ c = s.chats[k].conn /\ r = s.chats[k].room /\ r \in Rooms
    BY <1>0 DEF Paired, Typed, Chat
  <2> HIDE DEF c, r
  <2>4. \A d \in DOMAIN t.conns : d # c /\ d \in DOMAIN s.conns /\ d \in Conns /\ t.src[d] = s.src[d]
    BY <2>1, <2>3
  <2>5. \A j \in DOMAIN t.chats : j # k /\ j \in DOMAIN s.chats /\ t.chats[j] = s.chats[j]
    BY <2>1
  <2>6. Asked(t)
    BY <1>0, <2>1, <2>2, <2>4, <2>5, AskedSub
  <2>7. Matched(t)
    <3>1. \A d \in Conns : t.src[d] # "none" => d # c /\ t.src[d] = s.src[d] /\ s.src[d] # "none"
      BY <2>1
    <3>2. \A d \in DOMAIN s.conns : d # c => d \in DOMAIN t.conns /\ t.conns[d] = s.conns[d]
      BY <2>1
    <3> QED BY <1>0, <3>1, <3>2 DEF Linked, Matched
  <2>8. OneLogin(t)
    BY <1>0, <2>1, <2>2, <2>4 DEF Linked, OneLogin, NoLogin, Logs
  <2>9. Online(t)
    BY <1>0, <2>1, <2>2, <2>3, <2>4 DEF Linked, Online
  <2>10. NavKnown(t) /\ GivenUp(t)
    BY <1>0, <2>1, <2>2, <2>3, <2>4 DEF Linked, NavKnown, GivenUp
  <2>11. Paired(t)
    <3>1. ASSUME NEW j \in DOMAIN t.chats, t.chats[j].data
          PROVE  /\ t.chats[j].conn \in DOMAIN t.conns
                 /\ t.conns[t.chats[j].conn].type = "chat" /\ t.conns[t.chats[j].conn].chat = j
      <4>1. j # k /\ j \in DOMAIN s.chats /\ t.chats[j] = s.chats[j]
        BY <2>5
      <4>2. /\ s.chats[j].conn \in DOMAIN s.conns
            /\ s.conns[s.chats[j].conn].type = "chat" /\ s.conns[s.chats[j].conn].chat = j
        BY <1>0, <3>1, <4>1 DEF Paired
      <4>3. s.chats[j].conn # c
        BY <2>3, <4>1, <4>2
      <4> QED BY <2>1, <4>1, <4>2, <4>3
    <3>2. ASSUME NEW d \in DOMAIN t.conns, t.conns[d].type = "chat"
          PROVE  /\ t.conns[d].chat \in DOMAIN t.chats
                 /\ t.chats[t.conns[d].chat].data /\ t.chats[t.conns[d].chat].conn = d
      <4>1. d # c /\ d \in DOMAIN s.conns /\ t.conns[d] = s.conns[d]
        BY <2>1, <2>4
      <4>2. /\ s.conns[d].chat \in DOMAIN s.chats
            /\ s.chats[s.conns[d].chat].data /\ s.chats[s.conns[d].chat].conn = d
        BY <1>0, <3>2, <4>1 DEF Paired
      <4>3. s.conns[d].chat # k
        BY <2>3, <4>1, <4>2
      <4> QED BY <2>1, <4>1, <4>2, <4>3
    <3> QED BY <3>1, <3>2 DEF Paired
  <2>12. Shown(t)
    BY <1>0, <2>1, <2>3, NoAddress DEF Shown
  <2>13. ASSUME Clean(s), NEW j \in DOMAIN t.chats
         PROVE  /\ t.chats[j].room # r /\ t.chats[j].data /\ t.chats[j].win
                /\ t.wins[t.chats[j].room] = j
    <3>1. /\ s.chats[j].data /\ s.chats[j].win /\ s.wins[s.chats[j].room] = j
          /\ s.wins[r] = k /\ s.chats[j].room \in Rooms
      BY <1>0, <2>3, <2>5, <2>13 DEF Kept, Typed, Chat
    <3> QED BY <2>1, <2>5, <3>1
  <2>14. Kept(t) /\ (Clean(t) => ~There(t, r))
    BY <2>2, <2>13 DEF Kept, There
  <2>15. Awake(t, rejoin)
    <3> SUFFICES ASSUME Clean(s), NEW j \in DOMAIN t.chats, t.src[t.chats[j].conn] = "none"
                 PROVE  rejoin
      BY <2>2 DEF Awake
    <3>1. t.chats[j].conn \in DOMAIN t.conns
      BY <2>11, <2>13 DEF Paired
    <3>2. s.src[s.chats[j].conn] = "none" /\ j # k /\ j \in DOMAIN s.chats
      BY <2>4, <2>5, <3>1
    <3> QED BY <3>2
  <2> QED BY <2>1, <2>2, <2>3, <2>6, <2>7, <2>8, <2>9, <2>10, <2>11, <2>12, <2>14, <2>15
          DEF Good, Sound, Linked, Held
<1> QED BY <1>1, <1>2

(* The user leaves a room.                                                 *)
LEMMA LeaveGood ==
    ASSUME NEW s, NEW rejoin, Good(s, rejoin), s.harm = {}, NEW r
    PROVE  LET t == Leave(s, r) IN
           Good(t, rejoin) /\ Worse(s, t) /\ (t.harm = {} /\ Clean(t) => ~There(t, r))
<1> DEFINE t == Leave(s, r)
           k == Found(s, r)
<1>1. Shape(s) /\ Sound(s) /\ Awake(s, rejoin) /\ Typed(s) /\ Held(s) /\ Kept(s)
  BY DEF Good, Sound, Linked, Held
<1>2. /\ k = None => ~There(s, r)
      /\ k # None => k \in DOMAIN s.chats /\ (s.chats[k].data => s.chats[k].room = r)
  BY <1>1, FoundIs
<1>3. t = IF k = None THEN s ELSE IF k # None /\ ~s.chats[k].data THEN Harm(s, "freed")
          ELSE chat_free(s, k)
  BY DEF Leave, FindsFreed
<1> HIDE DEF t, k
<1>4. CASE k = None
  <2>1. t = s /\ Worse(s, s)
    BY <1>1, <1>3, <1>4 DEF Worse
  <2> QED BY <1>2, <1>4, <2>1 DEF t
<1>5. CASE k # None /\ ~s.chats[k].data
  <2>1. Excused(s)
    BY <1>1, <1>2, <1>5 DEF Kept, Clean, Excused, Ways
  <2>2. t = Harm(s, "freed")
    BY <1>3, <1>5
  <2>3. t.harm = s.harm \cup {"freed"}
    BY <1>1, <2>2, HarmField DEF Harm
  <2> QED BY <1>1, <2>1, <2>2, <2>3, HarmIs DEF t
<1>6. CASE k # None /\ s.chats[k].data
  <2>1. t = chat_free(s, k) /\ k \in DOMAIN s.chats /\ s.chats[k].data /\ s.chats[k].room = r
    BY <1>2, <1>3, <1>6
  <2>2. Clean(s) => \A j \in DOMAIN s.chats : j # k /\ s.src[s.chats[j].conn] = "none" => rejoin
    BY <1>1 DEF Awake
  <2> QED BY <1>1, <2>1, <2>2, FreeGood DEF t
<1> QED BY <1>4, <1>5, <1>6 DEF t

(* The server makes the user leave it, or its connection is lost.          *)
LEMMA ForcedGood ==
    ASSUME NEW s, Shape(s), s.harm = {}, Sound(s), NEW r,
           Clean(s) => \A j \in DOMAIN s.chats :
              s.chats[j].room # r /\ s.src[s.chats[j].conn] = "none" => left.rejoin
    PROVE  Good(ForcedLeave(s, r), left.rejoin)
<1> DEFINE t == ForcedLeave(s, r)
           k == Found(s, r)
<1>1. Typed(s) /\ Held(s) /\ Kept(s)
  BY DEF Sound, Linked, Held
<1>2. /\ k = None => ~There(s, r)
      /\ k # None => k \in DOMAIN s.chats /\ (s.chats[k].data => s.chats[k].room = r)
  BY <1>1, FoundIs
<1>3. t = IF k = None THEN s
          ELSE IF (k # None /\ ~s.chats[k].data) \/ ~s.chats[k].win THEN Harm(s, "freed")
          ELSE IF left.rejoin THEN s ELSE chat_free(s, k)
  BY DEF ForcedLeave, FindsFreed
<1> HIDE DEF t, k
<1>4. CASE k = None
  <2>1. Awake(s, left.rejoin)
    BY <1>2, <1>4 DEF Awake, There
  <2> QED BY <1>3, <1>4, <2>1 DEF Good, t
<1>5. CASE k # None /\ (~s.chats[k].data \/ ~s.chats[k].win)
  <2>1. Excused(s)
    BY <1>1, <1>2, <1>5 DEF Kept, Clean, Excused, Ways
  <2>2. t = Harm(s, "freed")
    BY <1>3, <1>5
  <2> QED BY <2>1, <2>2, HarmIs DEF t
<1>6. CASE k # None /\ s.chats[k].data /\ s.chats[k].win
  <2>1. k \in DOMAIN s.chats /\ s.chats[k].data /\ s.chats[k].room = r
    BY <1>2, <1>6
  <2>2. CASE left.rejoin
    BY <1>3, <1>6, <2>2 DEF Good, Awake, t
  <2>3. CASE ~left.rejoin
    <3>1. t = chat_free(s, k)
      BY <1>3, <1>6, <2>3
    <3>2. Clean(s) => \A j \in DOMAIN s.chats :
             j # k /\ s.src[s.chats[j].conn] = "none" => left.rejoin
      BY <1>1, <2>1 DEF Kept
    <3> QED BY <2>1, <3>1, <3>2, FreeGood DEF t
  <2> QED BY <2>2, <2>3
<1> QED BY <1>4, <1>5, <1>6 DEF t

(* A window is closed, and what was said to its room is said to nobody.    *)
LEMMA DestroyIs ==
    ASSUME NEW s, Shape(s), NEW r
    PROVE  LET t == Destroy(s, r) IN
           /\ Shape(t) /\ Worse(s, t) /\ Same(s, t, {"wins", "chats"})
           /\ DOMAIN t.chats = DOMAIN s.chats
           /\ \A k \in DOMAIN s.chats : s.chats[k].room # r => t.chats[k] = s.chats[k]
           /\ Typed(s) =>
                 /\ Typed(t)
                 /\ \A k \in DOMAIN s.chats :
                       /\ t.chats[k].room = s.chats[k].room /\ t.chats[k].conn = s.chats[k].conn
                       /\ t.chats[k].data = s.chats[k].data
                 /\ \A x \in Rooms : t.wins[x] = IF x = r THEN Shut ELSE s.wins[x]
<1> DEFINE w == [s.wins EXCEPT ![r] = Shut]
           gone(q) == [q EXCEPT !.win = FALSE]
           h == [k \in DOMAIN s.chats |->
                    IF s.chats[k].room = r THEN gone(s.chats[k]) ELSE s.chats[k]]
           u == [s EXCEPT !.wins = w]
           t == [u EXCEPT !.chats = h]
<1>1. Destroy(s, r) = t
  <2>1. Destroy(s, r) = [s EXCEPT !.wins = w, !.chats = h]
    BY DEF Destroy
  <2> HIDE DEF w, h
  <2> QED BY <2>1 DEF Shape
<1>2. ASSUME Typed(s)
      PROVE  /\ w \in [Rooms -> Chats \cup {Shut, None}]
             /\ \A x \in Rooms : w[x] = IF x = r THEN Shut ELSE s.wins[x]
  BY <1>2 DEF Typed
<1>3. \A q \in Chat : /\ gone(q) \in Chat /\ gone(q).room = q.room
                      /\ gone(q).conn = q.conn /\ gone(q).data = q.data
  BY DEF Chat
<1> HIDE DEF gone
<1>4. /\ DOMAIN h = DOMAIN s.chats
      /\ \A k \in DOMAIN s.chats : h[k] = IF s.chats[k].room = r THEN gone(s.chats[k])
                                          ELSE s.chats[k]
  OBVIOUS
<1> HIDE DEF w, h
<1>5. Shape(u) /\ u.wins = w /\ Same(s, u, {"wins"})
  BY WinsField
<1> HIDE DEF u
<1>6. Shape(t) /\ t.chats = h /\ Same(u, t, {"chats"})
  BY <1>5, ChatsField
<1> HIDE DEF t
<1>7. Same(s, t, {"wins", "chats"}) /\ Worse(s, t) /\ t.wins = w
  BY <1>5, <1>6 DEF Same, Worse
<1>8. ASSUME Typed(s)
      PROVE  /\ Typed(t)
             /\ \A k \in DOMAIN s.chats :
                   /\ t.chats[k].room = s.chats[k].room /\ t.chats[k].conn = s.chats[k].conn
                   /\ t.chats[k].data = s.chats[k].data
  <2>1. \A k \in DOMAIN s.chats : s.chats[k] \in Chat
    BY <1>8 DEF Typed
  <2>2. \A k \in DOMAIN s.chats :
           /\ t.chats[k] \in Chat
           /\ t.chats[k].room = s.chats[k].room /\ t.chats[k].conn = s.chats[k].conn
           /\ t.chats[k].data = s.chats[k].data
    BY <1>3, <1>4, <1>6, <2>1
  <2>3. t.wins \in [Rooms -> Chats \cup {Shut, None}]
    BY <1>2, <1>7, <1>8
  <2>4. Typed(t)
    BY <1>4, <1>6, <1>7, <1>8, <2>2, <2>3 DEF Typed, Same
  <2> QED BY <2>2, <2>4
<1> QED BY <1>1, <1>2, <1>4, <1>6, <1>7, <1>8

LEMMA DestroyGood ==
    ASSUME NEW s, NEW rejoin, Good(s, rejoin), NEW r, s.harm = {} /\ Clean(s) => ~There(s, r)
    PROVE  Good(Destroy(s, r), rejoin)
<1> DEFINE t == Destroy(s, r)
<1>1. /\ Shape(t) /\ Worse(s, t) /\ Same(s, t, {"wins", "chats"})
      /\ DOMAIN t.chats = DOMAIN s.chats
      /\ \A k \in DOMAIN s.chats : s.chats[k].room # r => t.chats[k] = s.chats[k]
      /\ Typed(s) =>
            /\ Typed(t)
            /\ \A k \in DOMAIN s.chats :
                  /\ t.chats[k].room = s.chats[k].room /\ t.chats[k].conn = s.chats[k].conn
                  /\ t.chats[k].data = s.chats[k].data
            /\ \A x \in Rooms : t.wins[x] = IF x = r THEN Shut ELSE s.wins[x]
  BY DestroyIs DEF Good
<1> HIDE DEF t
<1>2. ASSUME s.harm # {} PROVE Good(t, rejoin)
  BY <1>1, <1>2, StillExcused DEF Good
<1>3. ASSUME s.harm = {} PROVE Good(t, rejoin)
  <2>1. Typed(s) /\ Asked(s) /\ Linked(s) /\ Held(s) /\ Awake(s, rejoin) /\ Typed(t)
    BY <1>1, <1>3 DEF Good, Sound, Linked
  <2>2. /\ t.acct = s.acct /\ t.conns = s.conns /\ t.src = s.src /\ t.list = s.list
        /\ t.harm = {} /\ t.past = s.past /\ (Clean(t) <=> Clean(s))
    BY <1>1, <1>3 DEF Same, Clean
  <2>3. \A k \in DOMAIN s.chats :
           /\ t.chats[k].room = s.chats[k].room /\ t.chats[k].conn = s.chats[k].conn
           /\ t.chats[k].data = s.chats[k].data
    BY <1>1, <2>1
  <2>4. Asked(t)
    BY <1>1, <2>1, <2>2, <2>3, AskedSub
  <2>5. Matched(t) /\ OneLogin(t) /\ Online(t) /\ NavKnown(t) /\ GivenUp(t)
    BY <2>1, <2>2 DEF Linked, Matched, OneLogin, NoLogin, Logs, Online, NavKnown, GivenUp
  <2>6. Listed(t)
    BY <1>1, <2>1, <2>2 DEF Held, Listed
  <2>7. Paired(t)
    <3>1. Paired(s)
      BY <2>1 DEF Held
    <3> QED BY <1>1, <2>2, <2>3, <3>1, PairedMoved
  <2>8. Shown(t)
    <3>1. Shown(s) /\ \A x \in Rooms : t.wins[x] = IF x = r THEN Shut ELSE s.wins[x]
      BY <1>1, <2>1 DEF Held
    <3> QED BY <1>1, <2>3, <3>1, NoAddress DEF Shown
  <2>9. ASSUME Clean(s), NEW k \in DOMAIN t.chats
        PROVE  t.chats[k].data /\ t.chats[k].win /\ t.wins[t.chats[k].room] = k
    <3>1. k \in DOMAIN s.chats /\ s.chats[k].room # r /\ s.chats[k].room \in Rooms
      BY <1>1, <1>3, <2>1, <2>9 DEF There, Typed, Chat
    <3>2. s.chats[k].data /\ s.chats[k].win /\ s.wins[s.chats[k].room] = k
      BY <2>1, <2>9, <3>1 DEF Held, Kept
    <3> QED BY <1>1, <2>1, <3>1, <3>2
  <2>10. Kept(t)
    BY <2>2, <2>9 DEF Kept
  <2>11. Awake(t, rejoin)
    BY <1>1, <2>1, <2>2, <2>3 DEF Awake
  <2> QED BY <1>1, <2>1, <2>2, <2>4, <2>5, <2>6, <2>7, <2>8, <2>10, <2>11
          DEF Good, Sound, Linked, Held
<1> QED BY <1>2, <1>3 DEF t

(* A room is made: chat_new and its connection.                            *)
LEMMA ChatNewIs ==
    ASSUME NEW s, Shape(s), Typed(s), NEW c \in DOMAIN s.conns, NEW r \in Rooms, NEW k \in Chats
    PROVE  LET t == chat_new(s, c, r, k) IN
           /\ Shape(t) /\ Same(s, t, {"conns", "list", "chats", "wins"}) /\ Typed(t)
           /\ DOMAIN t.conns = DOMAIN s.conns
           /\ \A d \in DOMAIN s.conns : d # c => t.conns[d] = s.conns[d]
           /\ t.conns[c].type = s.conns[c].type /\ t.conns[c].status = s.conns[c].status
           /\ t.conns[c].owes = s.conns[c].owes /\ t.conns[c].chat = k
           /\ Len(t.list) = Len(s.list) + 1 /\ Len(s.list) \in Nat /\ t.list[1] = k
           /\ \A i \in 1 .. Len(s.list) : t.list[i + 1] = s.list[i]
           /\ DOMAIN t.chats = DOMAIN s.chats \cup {k}
           /\ t.chats[k].room = r /\ t.chats[k].conn = c /\ t.chats[k].data /\ t.chats[k].win
           /\ \A j \in DOMAIN s.chats : j # k => t.chats[j] = s.chats[j]
           /\ \A x \in Rooms : t.wins[x] = IF x = r THEN k ELSE s.wins[x]
<1> DEFINE l == <<k>> \o s.list
           new == [room |-> r, conn |-> c, data |-> TRUE, win |-> TRUE]
           h == [j \in DOMAIN s.chats \cup {k} |-> IF j = k THEN new ELSE s.chats[j]]
           w == [s.wins EXCEPT ![r] = k]
           v == [s.conns[c] EXCEPT !.chat = k]
           n == [s.conns EXCEPT ![c] = v]
           a == [s EXCEPT !.list = l]
           b == [a EXCEPT !.chats = h]
           d == [b EXCEPT !.wins = w]
           t == [d EXCEPT !.conns = n]
<1>1. chat_new(s, c, r, k) = t
  <2>1. chat_new(s, c, r, k) = [s EXCEPT !.list = l, !.chats = h, !.wins = w, !.conns = n]
    BY DEF chat_new, Shape
  <2> HIDE DEF l, h, w, n
  <2> QED BY <2>1 DEF Shape
<1>2. /\ l \in Seq(Chats) /\ Len(l) = Len(s.list) + 1 /\ Len(s.list) \in Nat /\ l[1] = k
      /\ \A i \in 1 .. Len(s.list) : l[i + 1] = s.list[i]
  BY DEF Typed
<1>3. c \in Conns
  BY DEF Typed
<1>4. new \in Chat /\ new.room = r /\ new.conn = c /\ new.data /\ new.win
  BY <1>3 DEF Chat
<1> HIDE DEF new
<1>5. /\ DOMAIN h = DOMAIN s.chats \cup {k} /\ h[k] = new
      /\ \A j \in DOMAIN s.chats : j # k => h[j] = s.chats[j]
      /\ DOMAIN h \subseteq Chats /\ \A j \in DOMAIN h : h[j] \in Chat
  BY <1>4 DEF Typed
<1>6. /\ w \in [Rooms -> Chats \cup {Shut, None}]
      /\ \A x \in Rooms : w[x] = IF x = r THEN k ELSE s.wins[x]
  BY DEF Typed
<1>7. /\ v \in Conn /\ v.type = s.conns[c].type /\ v.status = s.conns[c].status
      /\ v.owes = s.conns[c].owes /\ v.chat = k
  <2>1. s.conns[c] \in Conn
    BY DEF Typed
  <2> QED BY <2>1 DEF Conn
<1> HIDE DEF v
<1>8. /\ DOMAIN n = DOMAIN s.conns /\ n[c] = v
      /\ \A e \in DOMAIN s.conns : e # c => n[e] = s.conns[e]
      /\ DOMAIN n \subseteq Conns /\ \A e \in DOMAIN n : n[e] \in Conn
  BY <1>7 DEF Typed
<1> HIDE DEF l, h, w, n
<1>9. Shape(a) /\ a.list = l /\ Same(s, a, {"list"})
  BY ListField
<1> HIDE DEF a
<1>10. Shape(b) /\ b.chats = h /\ Same(a, b, {"chats"})
  BY <1>9, ChatsField
<1> HIDE DEF b
<1>11. Shape(d) /\ d.wins = w /\ Same(b, d, {"wins"})
  BY <1>10, WinsField
<1> HIDE DEF d
<1>12. Shape(t) /\ t.conns = n /\ Same(d, t, {"conns"})
  BY <1>11, ConnsField
<1> HIDE DEF t
<1>13. /\ Same(s, t, {"conns", "list", "chats", "wins"}) /\ t.acct = s.acct /\ t.src = s.src
       /\ t.list = l /\ t.chats = h /\ t.wins = w
  BY <1>9, <1>10, <1>11, <1>12 DEF Same
<1>14. Typed(t)
  BY <1>2, <1>5, <1>6, <1>8, <1>12, <1>13 DEF Typed
<1> QED BY <1>1, <1>2, <1>4, <1>5, <1>6, <1>7, <1>8, <1>12, <1>13, <1>14

(* aim_recv_redirect to a room that was asked for.                         *)
LEMMA RoomGood ==
    ASSUME NEW s, NEW rejoin, Good(s, rejoin), s.harm = {}, NEW d \in Conns, d \notin DOMAIN s.conns,
           NEW u \in Dialled(s, d, "chat"), NEW r \in Rooms, NEW k \in Chats, k \notin DOMAIN s.chats,
           s.acct.connected, Clean(s) => Idle(s, r) /\ ~There(s, r)
    PROVE  Good(chat_new(u, d, r, k), rejoin)
<1> DEFINE t == chat_new(u, d, r, k)
<1>1. Shape(s) /\ Typed(s) /\ Asked(s) /\ Linked(s) /\ Held(s) /\ Awake(s, rejoin) /\ "chat" \in Types
  BY DEF Good, Sound, Linked, Types
<1>2. /\ Shape(u) /\ Same(s, u, {"conns", "src"}) /\ Typed(u)
      /\ DOMAIN u.conns = DOMAIN s.conns \cup {d}
      /\ \A e \in DOMAIN s.conns : e # d => u.conns[e] = s.conns[e]
      /\ \A e \in Conns : e # d => u.src[e] = s.src[e]
      /\ u.conns[d].type = "chat"
      /\ \/ /\ u.src[d] = "event" /\ u.conns[d].status = "up"
            /\ \A i \in Numbers(u, d) : u.conns[d].owes[i].m = "online"
         \/ /\ u.src[d] = "connected" /\ u.conns[d].status = "inprogress"
            /\ Numbers(u, d) = {}
  BY <1>1, DialledIs
<1>3. /\ Shape(t) /\ Same(u, t, {"conns", "list", "chats", "wins"}) /\ Typed(t)
      /\ DOMAIN t.conns = DOMAIN u.conns
      /\ \A e \in DOMAIN u.conns : e # d => t.conns[e] = u.conns[e]
      /\ t.conns[d].type = u.conns[d].type /\ t.conns[d].status = u.conns[d].status
      /\ t.conns[d].owes = u.conns[d].owes /\ t.conns[d].chat = k
      /\ Len(t.list) = Len(u.list) + 1 /\ Len(u.list) \in Nat /\ t.list[1] = k
      /\ \A i \in 1 .. Len(u.list) : t.list[i + 1] = u.list[i]
      /\ DOMAIN t.chats = DOMAIN u.chats \cup {k}
      /\ t.chats[k].room = r /\ t.chats[k].conn = d /\ t.chats[k].data /\ t.chats[k].win
      /\ \A j \in DOMAIN u.chats : j # k => t.chats[j] = u.chats[j]
      /\ \A x \in Rooms : t.wins[x] = IF x = r THEN k ELSE u.wins[x]
  BY <1>2, ChatNewIs
<1> HIDE DEF t
<1>4. /\ u.acct = s.acct /\ u.list = s.list /\ u.chats = s.chats /\ u.wins = s.wins
      /\ u.harm = {} /\ u.past = s.past
      /\ t.acct = s.acct /\ t.src = u.src /\ t.harm = {} /\ t.past = s.past
      /\ (Clean(t) <=> Clean(s)) /\ (Clean(u) <=> Clean(s))
  BY <1>2, <1>3 DEF Same, Clean
<1>5. \A e \in DOMAIN s.conns : /\ e # d /\ e \in Conns /\ u.conns[e] = s.conns[e]
                                /\ t.conns[e] = s.conns[e] /\ t.src[e] = s.src[e]
  BY <1>1, <1>2, <1>3, <1>4 DEF Typed
<1>6. \A j \in DOMAIN s.chats : j # k /\ t.chats[j] = s.chats[j]
  BY <1>3, <1>4
<1>7. \A e \in DOMAIN t.conns : e \in DOMAIN s.conns \/ e = d
  BY <1>2, <1>3
<1>8. \A j \in DOMAIN t.chats : j \in DOMAIN s.chats \/ j = k
  BY <1>3, <1>4
<1>9. \A i \in Numbers(u, d) : /\ Proper(u, d, u.conns[d].owes[i]) /\ ~Joins(u.conns[d].owes[i])
  BY <1>2 DEF Proper, Joins, MayOwe
<1>10. Asked(u)
  BY <1>1, <1>2, <1>4, <1>5, <1>9, AskedNew
<1>11. Asked(t)
  <2>1. ASSUME Clean(s) PROVE Idle(u, r)
    <3>1. Idle(s, r)
      BY <2>1
    <3>2. ASSUME NEW e \in DOMAIN u.conns, NEW i \in Numbers(u, e) PROVE ~Asks(u, e, i, r)
      <4>1. CASE e = d
        BY <1>9, <4>1 DEF Asks
      <4>2. CASE e # d
        BY <1>2, <1>5, <3>1, <4>2 DEF Idle, Asks, Numbers
      <4> QED BY <4>1, <4>2
    <3> QED BY <1>4, <3>1, <3>2 DEF Idle
  <2>2. \A e \in DOMAIN u.conns : t.conns[e].type = u.conns[e].type
                                  /\ t.conns[e].owes = u.conns[e].owes
    BY <1>3
  <2>3. \A j \in DOMAIN t.chats : t.chats[j].room = r
                                  \/ (j \in DOMAIN u.chats /\ t.chats[j].room = u.chats[j].room)
    BY <1>3, <1>4, <1>6, <1>8
  <2>4. /\ u.past \subseteq t.past /\ t.acct = u.acct /\ t.src = u.src
        /\ DOMAIN t.conns = DOMAIN u.conns
    BY <1>3, <1>4
  <2>5. Clean(t) => Idle(u, r)
    BY <1>4, <2>1
  <2> QED BY <1>10, <2>2, <2>3, <2>4, <2>5, AskedChat
<1>12. Matched(t)
  <2>1. Matched(s)
    BY <1>1 DEF Linked
  <2>2. \A e \in DOMAIN s.conns : e \in DOMAIN t.conns
    BY <1>2, <1>3
  <2>3. \A e \in Conns : e # d => t.src[e] = s.src[e]
    BY <1>2, <1>4
  <2>4. d \in DOMAIN t.conns
    BY <1>2, <1>3
  <2> QED BY <1>2, <1>3, <1>4, <1>5, <2>1, <2>2, <2>3, <2>4 DEF Matched
<1>13. OneLogin(t)
  <2>1. OneLogin(s)
    BY <1>1 DEF Linked
  <2>2. ~Logs(t, d)
    BY <1>2, <1>3 DEF Logs
  <2>3. \A e \in DOMAIN s.conns : Logs(t, e) <=> Logs(s, e)
    BY <1>5 DEF Logs
  <2> QED BY <1>4, <1>7, <2>1, <2>2, <2>3 DEF OneLogin, NoLogin
<1>14. Online(t)
  <2>1. Online(s)
    BY <1>1 DEF Linked
  <2> QED BY <1>2, <1>3, <1>4, <1>5, <2>1 DEF Online
<1>15. NavKnown(t) /\ GivenUp(t)
  <2>1. NavKnown(s) /\ GivenUp(s)
    BY <1>1 DEF Linked
  <2> QED BY <1>2, <1>3, <1>4, <1>5, <2>1 DEF NavKnown, GivenUp
<1>16. Listed(t)
  <2>1. Listed(s) /\ Len(s.list) \in Nat
    BY <1>1, <1>3, <1>4 DEF Held
  <2>2. \A i \in 1 .. Len(t.list) : i = 1 \/ i - 1 \in 1 .. Len(s.list)
    BY <1>3, <1>4
  <2>3. \A i \in 1 .. Len(t.list) : i # 1 => i - 1 \in 1 .. Len(s.list) /\ t.list[i] = s.list[i - 1]
    <3> TAKE i \in 1 .. Len(t.list)
    <3> HAVE i # 1
    <3>1. i - 1 \in 1 .. Len(s.list) /\ (i - 1) + 1 = i
      BY <2>2
    <3>2. t.list[(i - 1) + 1] = s.list[i - 1]
      BY <1>3, <1>4, <3>1
    <3> QED BY <3>1, <3>2
  <2>4. \A i \in 1 .. Len(t.list) : i # 1 => t.list[i] \in DOMAIN s.chats /\ t.list[i] # k
    BY <2>1, <2>3 DEF Listed
  <2>5. ASSUME NEW i \in 1 .. Len(t.list), NEW j \in 1 .. Len(t.list), t.list[i] = t.list[j]
        PROVE  i = j
    <3>1. CASE i = 1 \/ j = 1
      BY <1>3, <2>4, <2>5, <3>1
    <3>2. CASE i # 1 /\ j # 1
      <4>1. /\ i - 1 \in 1 .. Len(s.list) /\ j - 1 \in 1 .. Len(s.list)
            /\ s.list[i - 1] = s.list[j - 1]
        BY <2>3, <2>5, <3>2
      <4>2. i - 1 = j - 1
        BY <2>1, <4>1 DEF Listed
      <4> QED BY <4>2
    <3> QED BY <3>1, <3>2
  <2>6. \A i \in 1 .. Len(t.list) : t.list[i] \in DOMAIN t.chats
    BY <1>3, <1>4, <2>4
  <2>7. ASSUME NEW j \in DOMAIN t.chats PROVE \E i \in 1 .. Len(t.list) : t.list[i] = j
    <3>1. CASE j = k
      BY <1>3, <1>4, <2>1, <3>1
    <3>2. CASE j # k
      <4>1. PICK i \in 1 .. Len(s.list) : s.list[i] = j
        BY <1>8, <2>1, <3>2 DEF Listed
      <4>2. t.list[i + 1] = j /\ i + 1 \in 1 .. Len(t.list)
        BY <1>3, <1>4, <2>1, <4>1
      <4> QED BY <4>2
    <3> QED BY <3>1, <3>2
  <2> QED BY <2>5, <2>6, <2>7 DEF Listed
<1>17. Paired(t)
  <2>1. Paired(s)
    BY <1>1 DEF Held
  <2>2. ASSUME NEW j \in DOMAIN t.chats, t.chats[j].data
        PROVE  /\ t.chats[j].conn \in DOMAIN t.conns
               /\ t.conns[t.chats[j].conn].type = "chat" /\ t.conns[t.chats[j].conn].chat = j
    <3>1. CASE j = k
      BY <1>2, <1>3, <3>1
    <3>2. CASE j # k
      <4>1. j \in DOMAIN s.chats /\ t.chats[j] = s.chats[j]
        BY <1>6, <1>8, <3>2
      <4>2. /\ s.chats[j].conn \in DOMAIN s.conns
            /\ s.conns[s.chats[j].conn].type = "chat" /\ s.conns[s.chats[j].conn].chat = j
        BY <2>1, <2>2, <4>1 DEF Paired
      <4> QED BY <1>2, <1>3, <1>5, <4>1, <4>2
    <3> QED BY <3>1, <3>2
  <2>3. ASSUME NEW e \in DOMAIN t.conns, t.conns[e].type = "chat"
        PROVE  /\ t.conns[e].chat \in DOMAIN t.chats
               /\ t.chats[t.conns[e].chat].data /\ t.chats[t.conns[e].chat].conn = e
    <3>1. CASE e = d
      BY <1>3, <3>1
    <3>2. CASE e # d
      <4>1. e \in DOMAIN s.conns /\ t.conns[e] = s.conns[e]
        BY <1>5, <1>7, <3>2
      <4>2. /\ s.conns[e].chat \in DOMAIN s.chats
            /\ s.chats[s.conns[e].chat].data /\ s.chats[s.conns[e].chat].conn = e
        BY <2>1, <2>3, <4>1 DEF Paired
      <4> QED BY <1>3, <1>4, <1>6, <4>1, <4>2
    <3> QED BY <3>1, <3>2
  <2> QED BY <2>2, <2>3 DEF Paired
<1>18. Shown(t)
  <2>1. Shown(s)
    BY <1>1 DEF Held
  <2> QED BY <1>3, <1>4, <1>6, <2>1 DEF Shown
<1>19. ASSUME Clean(s), NEW j \in DOMAIN t.chats
       PROVE  /\ t.chats[j].data /\ t.chats[j].win /\ t.wins[t.chats[j].room] = j
              /\ t.src[t.chats[j].conn] = "none" => rejoin
  <2>1. CASE j = k
    BY <1>2, <1>3, <1>4, <2>1
  <2>2. CASE j # k
    <3>1. j \in DOMAIN s.chats /\ t.chats[j] = s.chats[j]
      BY <1>6, <1>8, <2>2
    <3>2. /\ s.chats[j].data /\ s.chats[j].win /\ s.wins[s.chats[j].room] = j
          /\ s.src[s.chats[j].conn] = "none" => rejoin
      BY <1>1, <1>19, <3>1 DEF Held, Kept, Awake
    <3>3. s.chats[j].room # r /\ s.chats[j].room \in Rooms
      BY <1>1, <1>19, <3>1 DEF There, Typed, Chat
    <3>4. s.chats[j].conn \in DOMAIN s.conns
      BY <1>1, <3>1, <3>2 DEF Held, Paired
    <3> QED BY <1>3, <1>4, <1>5, <3>1, <3>2, <3>3, <3>4
  <2> QED BY <2>1, <2>2
<1>20. Kept(t) /\ Awake(t, rejoin)
  BY <1>4, <1>19 DEF Kept, Awake
<1> QED BY <1>3, <1>4, <1>11, <1>12, <1>13, <1>14, <1>15, <1>16, <1>17, <1>18, <1>20
        DEF Good, Sound, Linked, Held, t

-----------------------------------------------------------------------------
(* Only the account changes, and not the rooms that wait.                  *)
LEMMA AccountGood ==
    ASSUME NEW s, NEW rejoin, Good(s, rejoin), NEW a, NEW t, t = [s EXCEPT !.acct = a],
           s.harm = {} => /\ a \in Account /\ a.pend = s.acct.pend
                          /\ Owed(t) /\ OneLogin(t) /\ Online(t) /\ NavKnown(t) /\ GivenUp(t)
    PROVE  Good(t, rejoin) /\ Worse(s, t) /\ t.acct = a /\ Same(s, t, {"acct"})
<1>1. /\ Shape(t) /\ Worse(s, t) /\ t.acct = a /\ Same(s, t, {"acct"})
      /\ Typed(s) /\ a \in Account => Typed(t)
  BY AccountIs DEF Good
<1>2. /\ t.conns = s.conns /\ t.src = s.src /\ t.list = s.list /\ t.chats = s.chats
      /\ t.wins = s.wins /\ t.harm = s.harm /\ t.past = s.past
  BY <1>1 DEF Same
<1>3. ASSUME s.harm # {} PROVE Good(t, rejoin)
  BY <1>1, <1>3, StillExcused DEF Good
<1>4. ASSUME s.harm = {} PROVE Good(t, rejoin)
  <2>1. Typed(s) /\ Asked(s) /\ Linked(s) /\ Held(s) /\ Awake(s, rejoin) /\ Typed(t)
    BY <1>1, <1>4 DEF Good, Sound, Linked
  <2>2. t.acct.pend = s.acct.pend /\ \A c : Numbers(t, c) = Numbers(s, c)
    BY <1>1, <1>2, <1>4 DEF Numbers
  <2>3. Once(t)
    <3>1. /\ Clean(t) <=> Clean(s)
          /\ \A c, i, r : Asks(t, c, i, r) <=> Asks(s, c, i, r)
      BY <1>2 DEF Clean, Asks
    <3>2. \A r : Idle(s, r) => Idle(t, r)
      BY <1>2, <2>2, <3>1 DEF Idle
    <3> QED BY <1>2, <2>1, <2>2, <3>1, <3>2 DEF Asked, Once
  <2>4. Matched(t)
    BY <1>2, <2>1 DEF Linked, Matched
  <2>5. Held(t)
    BY <1>2, <2>1, HeldSame
  <2>6. Awake(t, rejoin)
    BY <1>2, <2>1 DEF Awake, Clean
  <2> QED BY <1>1, <1>2, <1>4, <2>1, <2>3, <2>4, <2>5, <2>6
          DEF Good, Sound, Asked, Linked, Held
<1> QED BY <1>1, <1>3, <1>4

(* chatnav_conn and bos_conn.                                              *)
SetNav(s, v) == [s EXCEPT !.acct.nav = v]
SetBos(s, v) == [s EXCEPT !.acct.bos = v]

NavAcct(a, v) == [a EXCEPT !.nav = v]
BosAcct(a, v) == [a EXCEPT !.bos = v]

LEMMA NavIs ==
    ASSUME NEW a \in Account, NEW v \in Conns \cup {None}
    PROVE  LET b == NavAcct(a, v) IN
           /\ b \in Account /\ b.nav = v /\ b.bos = a.bos /\ b.pend = a.pend
           /\ b.dangling = a.dangling /\ b.connected = a.connected
           /\ b.disconnected = a.disconnected /\ b.reconnecting = a.reconnecting
BY DEF Account, NavAcct

LEMMA BosIs ==
    ASSUME NEW a \in Account, NEW v \in Conns \cup {None}
    PROVE  LET b == BosAcct(a, v) IN
           /\ b \in Account /\ b.bos = v /\ b.nav = a.nav /\ b.pend = a.pend
           /\ b.dangling = a.dangling /\ b.connected = a.connected
           /\ b.disconnected = a.disconnected /\ b.reconnecting = a.reconnecting
BY DEF Account, BosAcct

LEMMA NavGood ==
    ASSUME NEW s, NEW rejoin, Good(s, rejoin), NEW v \in Conns \cup {None},
           s.harm = {} /\ v # None => /\ v \in DOMAIN s.conns /\ s.conns[v].type = "nav"
                                      /\ s.conns[v].status # "inprogress"
    PROVE  LET t == SetNav(s, v) IN
           /\ Good(t, rejoin) /\ Worse(s, t) /\ Same(s, t, {"acct"})
           /\ s.harm = {} => /\ t.acct.nav = v /\ t.acct.bos = s.acct.bos
                             /\ t.acct.connected = s.acct.connected
<1> DEFINE a == NavAcct(s.acct, v)
           t == [s EXCEPT !.acct = a]
<1>1. SetNav(s, v) = t
  BY DEF SetNav, NavAcct
<1>2. s.acct \in Account =>
         /\ a \in Account /\ a.nav = v /\ a.bos = s.acct.bos /\ a.pend = s.acct.pend
         /\ a.dangling = s.acct.dangling /\ a.connected = s.acct.connected
         /\ a.disconnected = s.acct.disconnected /\ a.reconnecting = s.acct.reconnecting
  BY NavIs
<1> HIDE DEF a
<1>3. Shape(t) /\ t.acct = a /\ Same(s, t, {"acct"})
  BY AccountIs DEF Good
<1> HIDE DEF t
<1>4. /\ t.conns = s.conns /\ t.src = s.src /\ t.past = s.past
  BY <1>3 DEF Same
<1>5. ASSUME s.harm = {}
      PROVE  /\ s.acct \in Account /\ Owed(t) /\ OneLogin(t) /\ Online(t) /\ NavKnown(t) /\ GivenUp(t)
  <2>1. s.acct \in Account /\ Asked(s) /\ Linked(s)
    BY <1>5 DEF Good, Sound, Typed
  <2>2. Owed(t)
    BY <1>2, <1>3, <1>4, <2>1 DEF Asked, Owed, Proper, Numbers
  <2>3. OneLogin(t) /\ Online(t)
    BY <1>2, <1>3, <1>4, <2>1 DEF Linked, OneLogin, NoLogin, Logs, Online
  <2>4. NavKnown(t) /\ GivenUp(t)
    BY <1>2, <1>3, <1>4, <1>5, <2>1 DEF Linked, NavKnown, GivenUp
  <2> QED BY <2>1, <2>2, <2>3, <2>4
<1>6. Good(t, rejoin) /\ Worse(s, t)
  BY <1>2, <1>5, AccountGood DEF t
<1> QED BY <1>1, <1>2, <1>3, <1>5, <1>6

LEMMA BosGood ==
    ASSUME NEW s, NEW rejoin, Good(s, rejoin), s.harm = {}, NEW c \in DOMAIN s.conns,
           s.conns[c].type = "bos", s.src[c] # "none"
    PROVE  LET t == SetBos(s, c) IN
           Good(t, rejoin) /\ Worse(s, t) /\ Same(s, t, {"acct"}) /\ t.acct.bos = c
<1> DEFINE a == BosAcct(s.acct, c)
           t == [s EXCEPT !.acct = a]
<1>1. SetBos(s, c) = t
  BY DEF SetBos, BosAcct
<1>2. /\ s.acct \in Account /\ c \in Conns /\ Asked(s) /\ Linked(s)
  BY DEF Good, Sound, Typed
<1>3. /\ a \in Account /\ a.bos = c /\ a.nav = s.acct.nav /\ a.pend = s.acct.pend
      /\ a.dangling = s.acct.dangling /\ a.connected = s.acct.connected
      /\ a.disconnected = s.acct.disconnected /\ a.reconnecting = s.acct.reconnecting
  BY <1>2, BosIs
<1> HIDE DEF a
<1>4. Shape(t) /\ t.acct = a /\ Same(s, t, {"acct"})
  BY AccountIs DEF Good
<1> HIDE DEF t
<1>5. /\ t.conns = s.conns /\ t.src = s.src /\ t.past = s.past
  BY <1>4 DEF Same
<1>6. \A d \in DOMAIN s.conns : s.conns[d].type = "bos" /\ s.src[d] # "none" => d = c
  BY <1>2 DEF Linked, OneLogin, Logs
<1>7. s.acct.connected => s.acct.bos = c
  BY <1>2, <1>6 DEF Linked, Online
<1>8. Owed(t)
  <2> SUFFICES ASSUME NEW d \in DOMAIN s.conns, NEW i \in Numbers(s, d)
               PROVE  Proper(t, d, s.conns[d].owes[i])
    BY <1>5 DEF Owed, Numbers
  <2>1. Proper(s, d, s.conns[d].owes[i])
    BY <1>2 DEF Asked, Owed
  <2>2. s.conns[d].owes[i].m = "list" => s.conns[d].type = "bos"
    BY <2>1 DEF Proper, MayOwe
  <2> QED BY <1>3, <1>4, <1>5, <1>6, <2>1, <2>2 DEF Proper
<1>9. OneLogin(t)
  BY <1>2, <1>3, <1>4, <1>5 DEF Linked, OneLogin, NoLogin, Logs
<1>10. Online(t)
  BY <1>2, <1>3, <1>4, <1>5, <1>7 DEF Linked, Online
<1>11. NavKnown(t) /\ GivenUp(t)
  BY <1>2, <1>3, <1>4, <1>5 DEF Linked, NavKnown, GivenUp
<1>12. Good(t, rejoin) /\ Worse(s, t)
  BY <1>3, <1>8, <1>9, <1>10, <1>11, AccountGood DEF t
<1> QED BY <1>1, <1>3, <1>4, <1>12

(* pork_acct_connected.                                                    *)
UpAcct(a) == [a EXCEPT !.connected = TRUE, !.successful = TRUE, !.tries = 0,
                       !.disconnected = FALSE, !.reconnecting = FALSE]

LEMMA UpIs ==
    ASSUME NEW a \in Account
    PROVE  LET b == UpAcct(a) IN
           /\ b \in Account /\ b.connected /\ ~b.disconnected /\ b.bos = a.bos /\ b.nav = a.nav
           /\ b.pend = a.pend /\ b.dangling = a.dangling
BY DEF Account, UpAcct

LEMMA UpGood ==
    ASSUME NEW s, NEW rejoin, Good(s, rejoin), s.harm = {}, s.acct.bos \in DOMAIN s.conns,
           s.conns[s.acct.bos].type = "bos", s.src[s.acct.bos] = "event"
    PROVE  Good(pork_acct_connected(s), rejoin)
<1> DEFINE a == UpAcct(s.acct)
           t == [s EXCEPT !.acct = a]
<1>1. pork_acct_connected(s) = t
  BY DEF pork_acct_connected, UpAcct
<1>2. s.acct \in Account /\ Asked(s) /\ Linked(s)
  BY DEF Good, Sound, Typed
<1>3. /\ a \in Account /\ a.connected /\ ~a.disconnected /\ a.bos = s.acct.bos
      /\ a.nav = s.acct.nav /\ a.pend = s.acct.pend /\ a.dangling = s.acct.dangling
  BY <1>2, UpIs
<1> HIDE DEF a
<1>4. Shape(t) /\ t.acct = a /\ Same(s, t, {"acct"})
  BY AccountIs DEF Good
<1> HIDE DEF t
<1>5. /\ t.conns = s.conns /\ t.src = s.src /\ t.past = s.past
  BY <1>4 DEF Same
<1>6. Owed(t)
  BY <1>2, <1>3, <1>4, <1>5 DEF Asked, Owed, Proper, Numbers
<1>7. OneLogin(t) /\ Online(t)
  BY <1>2, <1>3, <1>4, <1>5 DEF Linked, OneLogin, Logs, Online
<1>8. NavKnown(t) /\ GivenUp(t)
  BY <1>2, <1>3, <1>4, <1>5 DEF Linked, NavKnown, GivenUp
<1>9. Good(t, rejoin)
  BY <1>3, <1>6, <1>7, <1>8, AccountGood DEF t
<1> QED BY <1>1, <1>9

(* A connection is there, or its end has been seen.                        *)
LEMMA WireGood ==
    ASSUME NEW s, NEW rejoin, Good(s, rejoin), s.harm = {}, NEW c \in DOMAIN s.conns,
           s.src[c] # "none", NEW status, NEW source,
           <<status, source>> \in {<<"up", "event">>, <<"closed", "dead">>}
    PROVE  LET t == Wire(s, c, status, source) IN
           /\ Good(t, rejoin) /\ Same(s, t, {"conns", "src"})
           /\ DOMAIN t.conns = DOMAIN s.conns
           /\ t.conns[c].type = s.conns[c].type /\ t.conns[c].owes = s.conns[c].owes
<1> DEFINE t == Wire(s, c, status, source)
<1>0. /\ status \in {"new", "inprogress", "up", "closed"} /\ status # "inprogress"
      /\ source \in {"none", "connected", "event", "dead"} /\ source \in {"event", "dead"}
      /\ source = "event" => status = "up"
      /\ source = "dead" => status = "closed"
  OBVIOUS
<1>1. /\ Shape(s) /\ Typed(s) /\ Asked(s) /\ Linked(s) /\ Held(s) /\ Awake(s, rejoin)
      /\ c \in Conns /\ s.conns[c] \in Conn
  BY DEF Good, Sound, Linked, Typed
<1>2. /\ Shape(t) /\ Worse(s, t) /\ Same(s, t, {"conns", "src"})
      /\ DOMAIN t.conns = DOMAIN s.conns
      /\ \A d \in DOMAIN s.conns : d # c => t.conns[d] = s.conns[d]
      /\ t.conns[c].status = status /\ t.conns[c].type = s.conns[c].type
      /\ t.conns[c].chat = s.conns[c].chat /\ t.conns[c].owes = s.conns[c].owes
      /\ t.conns[c] \in Conn
      /\ t.src \in [Conns -> {"none", "connected", "event", "dead"}]
      /\ t.src[c] = source /\ \A d \in Conns : d # c => t.src[d] = s.src[d]
  BY <1>0, <1>1, WireIs
<1> HIDE DEF t
<1>3. /\ t.acct = s.acct /\ t.list = s.list /\ t.chats = s.chats /\ t.wins = s.wins
      /\ t.harm = {} /\ t.past = s.past
  BY <1>2 DEF Same
<1>4. /\ \A d \in DOMAIN s.conns : /\ t.conns[d].type = s.conns[d].type
                                   /\ t.conns[d].owes = s.conns[d].owes
                                   /\ t.conns[d].chat = s.conns[d].chat
                                   /\ t.conns[d].status = s.conns[d].status
                                      \/ t.conns[d].status # "inprogress"
      /\ \A d \in Conns : t.src[d] = "none" <=> s.src[d] = "none"
  BY <1>0, <1>2
<1>5. Typed(t)
  <2>1. \A d \in DOMAIN t.conns : t.conns[d] \in Conn
    BY <1>1, <1>2 DEF Typed
  <2> QED BY <1>1, <1>2, <1>3, <2>1 DEF Typed
<1>6. DOMAIN s.conns \subseteq Conns
  BY <1>1 DEF Typed
<1>7. Asked(t)
  BY <1>1, <1>2, <1>3, <1>4, <1>6, AskedSub
<1>8. Matched(t)
  <2>1. Matched(s)
    BY <1>1 DEF Linked
  <2> QED BY <1>0, <1>2, <2>1 DEF Matched
<1>9. OneLogin(t)
  <2>1. OneLogin(s)
    BY <1>1 DEF Linked
  <2>2. \A d \in DOMAIN s.conns : Logs(t, d) <=> Logs(s, d)
    BY <1>4, <1>6 DEF Logs
  <2> QED BY <1>2, <1>3, <2>1, <2>2 DEF OneLogin, NoLogin
<1>10. Online(t)
  <2>1. Online(s)
    BY <1>1 DEF Linked
  <2> QED BY <1>0, <1>2, <1>3, <1>4, <1>6, <2>1 DEF Online
<1>11. NavKnown(t) /\ GivenUp(t)
  <2>1. NavKnown(s) /\ GivenUp(s)
    BY <1>1 DEF Linked
  <2> QED BY <1>0, <1>2, <1>3, <1>4, <2>1 DEF NavKnown, GivenUp
<1>12. Listed(t) /\ Shown(t)
  BY <1>1, <1>3 DEF Held, Listed, Shown
<1>13. Kept(t)
  BY <1>1, <1>3 DEF Held, Kept, Clean
<1>14. Paired(t)
  <2>1. Paired(s)
    BY <1>1 DEF Held
  <2> QED BY <1>2, <1>3, <1>4, <2>1, PairedMoved
<1>15. Awake(t, rejoin)
  <2>1. \A k \in DOMAIN s.chats : s.chats[k].conn \in Conns
    BY <1>1 DEF Typed, Chat
  <2> QED BY <1>1, <1>3, <1>4, <2>1 DEF Awake, Clean
<1> QED BY <1>2, <1>3, <1>5, <1>7, <1>8, <1>9, <1>10, <1>11, <1>12, <1>13, <1>14, <1>15
        DEF Good, Sound, Linked, Held, t

(* The connection of a room loses its source.                              *)
LEMMA DelChat ==
    ASSUME NEW s, NEW rejoin, Good(s, rejoin), s.harm = {}, NEW c \in DOMAIN s.conns,
           s.conns[c].type = "chat"
    PROVE  LET t == pork_io_del(s, c) IN
           /\ Shape(t) /\ t.harm = {} /\ Sound(t) /\ Same(s, t, {"src"})
           /\ Clean(t) => \A k \in DOMAIN t.chats :
                             /\ t.chats[k].room # t.chats[t.conns[c].chat].room
                             /\ t.src[t.chats[k].conn] = "none"
                             => rejoin
<1> DEFINE t == pork_io_del(s, c)
<1>1. /\ Shape(s) /\ Typed(s) /\ Asked(s) /\ Linked(s) /\ Held(s) /\ Awake(s, rejoin) /\ c \in Conns
  BY DEF Good, Sound, Linked, Typed
<1>2. /\ Shape(t) /\ Worse(s, t) /\ Same(s, t, {"src"})
      /\ Typed(t) /\ \A d \in Conns : d # c => t.src[d] = s.src[d]
      /\ t.src[c] = "none"
  BY <1>1, DelIs
<1> HIDE DEF t
<1>3. /\ t.acct = s.acct /\ t.conns = s.conns /\ t.list = s.list /\ t.chats = s.chats
      /\ t.wins = s.wins /\ t.harm = {} /\ t.past = s.past
  BY <1>2 DEF Same
<1>4. /\ \A d \in Conns : t.src[d] # "none" => t.src[d] = s.src[d]
      /\ \A d \in DOMAIN s.conns : s.conns[d].type # "chat" => t.src[d] = s.src[d]
      /\ DOMAIN s.conns \subseteq Conns
  BY <1>1, <1>2 DEF Typed
<1>5. Asked(t)
  BY <1>1, <1>3, <1>4, AskedSub
<1>6. Matched(t)
  BY <1>1, <1>3, <1>4 DEF Linked, Matched
<1>7. OneLogin(t)
  <2>1. \A d \in DOMAIN s.conns : Logs(t, d) <=> Logs(s, d)
    BY <1>3, <1>4 DEF Logs
  <2> QED BY <1>1, <1>3, <2>1 DEF Linked, OneLogin, NoLogin
<1>8. Online(t)
  BY <1>1, <1>3, <1>4 DEF Linked, Online
<1>9. NavKnown(t) /\ GivenUp(t)
  BY <1>1, <1>3 DEF Linked, NavKnown, GivenUp
<1>10. Listed(t) /\ Shown(t)
  <2>1. Listed(s) /\ Shown(s)
    BY <1>1 DEF Held
  <2>2. Listed(t)
    BY <1>3, <2>1 DEF Listed
  <2> QED BY <1>3, <2>1, <2>2 DEF Shown
<1>11. Kept(t) /\ Paired(t)
  BY <1>1, <1>3, HeldSame DEF Held
<1>12. ASSUME Clean(t), NEW k \in DOMAIN t.chats,
              t.chats[k].room # t.chats[t.conns[c].chat].room, t.src[t.chats[k].conn] = "none"
       PROVE  rejoin
  <2>1. s.chats[k].data /\ s.conns[c].chat # k
    BY <1>1, <1>3, <1>12 DEF Held, Kept, Clean
  <2>2. s.chats[k].conn \in DOMAIN s.conns /\ s.conns[s.chats[k].conn].chat = k
    BY <1>1, <1>3, <1>12, <2>1 DEF Held, Paired
  <2>3. s.src[s.chats[k].conn] = "none"
    BY <1>2, <1>3, <1>4, <1>12, <2>1, <2>2
  <2> QED BY <1>1, <1>3, <1>12, <2>3 DEF Awake, Clean
<1> QED BY <1>2, <1>3, <1>5, <1>6, <1>7, <1>8, <1>9, <1>10, <1>11, <1>12
        DEF Sound, Linked, Held, t

-----------------------------------------------------------------------------
(* The steps.                                                              *)
LEMMA NowIs ==
    /\ Now.acct = acct /\ Now.conns = conns /\ Now.src = src /\ Now.list = chat_list
    /\ Now.chats = chats /\ Now.wins = wins /\ Now.harm = harm /\ Now.past = past
    /\ Shape(Now)
BY DEF Now, Shape

LEMMA BecomesGood ==
    ASSUME NEW S, Becomes(S), harm = {} => \A s \in S : Good(s, left.rejoin),
           LeftOK', left'.rejoin = left.rejoin
    PROVE  SessInv'
<1>1. PICK s \in S : /\ acct' = s.acct /\ conns' = s.conns /\ src' = s.src
                     /\ chat_list' = s.list /\ chats' = s.chats /\ wins' = s.wins
                     /\ harm' = s.harm /\ past' = s.past
  BY DEF Becomes
<1>2. Good(s, left.rejoin)
  BY DEF Becomes
<1>3. Now' = s
  BY <1>1, <1>2 DEF Now, Good, Shape
<1> QED BY <1>2, <1>3 DEF SessInv

LEMMA DispatchedGood ==
    ASSUME NEW S, Dispatched(S), harm = {} => \A s \in S : Good(s, left.rejoin),
           LeftOK', left'.rejoin = left.rejoin
    PROVE  SessInv'
<1> DEFINE T == UNION {Ends(s) : s \in S}
<1>1. Becomes(T)
  BY DEF Dispatched, Ends
<1>2. ASSUME harm = {}, NEW t \in T PROVE Good(t, left.rejoin)
  <2>1. PICK s \in S : t \in Ends(s)
    OBVIOUS
  <2> QED BY <1>2, <2>1, EndsGood
<1> HIDE DEF T
<1> QED BY <1>1, <1>2, BecomesGood

LEMMA LeftStays ==
    ASSUME LeftOK, UNCHANGED left \/ Fails \/ Quits
    PROVE  LeftOK' /\ left'.rejoin = left.rejoin
<1>1. CASE UNCHANGED left
  BY <1>1 DEF LeftOK
<1>2. CASE Fails
  BY <1>2 DEF LeftOK, Fails
<1>3. CASE Quits
  BY <1>3 DEF LeftOK, Quits
<1> QED BY <1>1, <1>2, <1>3

(* What is known when an answer has been read.                             *)
Read1(c, m) ==
    LET s == Heard(c)
        q == Answer(c)
    IN  /\ Good(s, left.rejoin) /\ s.harm = {} /\ Same(Now, s, {"conns"}) /\ Shape(s)
        /\ DOMAIN s.conns = DOMAIN conns /\ \A d \in DOMAIN conns : s.conns[d].type = conns[d].type
        /\ s.conns[c].status = "up" /\ s.src[c] = "event" /\ c \in Conns
        /\ q \in Message /\ q.m = m /\ q.m \in MayOwe(conns[c].type)
        /\ Joins(q) => q.room \in Rooms
        /\ m = "list" => acct.bos = c
        /\ m \in {"nav", "chat"} => acct.connected
        /\ Joins(q) /\ Clean(s) => Idle(s, q.room) /\ ~There(s, q.room)

LEMMA HearsIs ==
    ASSUME SessInv, harm = {}, NEW c \in DOMAIN conns, NEW m, Hears(c, m)
    PROVE  Read1(c, m)
<1> DEFINE e == Tail(conns[c].owes)
           s == Heard(c)
           q == Answer(c)
<1>1. /\ Good(Now, left.rejoin) /\ Now.harm = {} /\ c \in DOMAIN Now.conns
      /\ Now.conns[c].owes # <<>> /\ Now.conns = conns /\ Now.acct = acct /\ Now.src = src
      /\ Shape(Now) /\ src[c] = "event" /\ q.m = m
  BY NowIs DEF SessInv, Hears, Answer
<1>2. s = SetOwes(Now, c, e) /\ q = Head(Now.conns[c].owes) /\ e = Tail(Now.conns[c].owes)
  BY NowIs DEF Heard, SetOwes, Answer
<1> HIDE DEF s, q, e
<1>3. /\ Good(s, left.rejoin) /\ s.harm = {} /\ Owing(Now, s, c, e) /\ Unmoved(Now, s)
      /\ e \in Seq(Message) /\ q \in Message /\ Proper(Now, c, q)
      /\ Joins(q) /\ Clean(s) => Idle(s, q.room) /\ ~There(s, q.room)
  BY <1>1, <1>2, HeardGood
<1>4. /\ Same(Now, s, {"conns"}) /\ Shape(s) /\ DOMAIN s.conns = DOMAIN conns
      /\ \A d \in DOMAIN conns : /\ s.conns[d].type = conns[d].type
                                 /\ s.conns[d].status = conns[d].status
      /\ s.src = src
  BY <1>1, <1>3 DEF Owing, Unmoved
<1>5. c \in Conns /\ conns[c].status = "up"
  BY <1>1 DEF Good, Sound, Linked, Matched, Typed
<1> QED BY <1>1, <1>3, <1>4, <1>5 DEF Read1, Proper, s, q

LEMMA HeardFields ==
    ASSUME NEW c, NEW m, Read1(c, m)
    PROVE  LET s == Heard(c) IN
           /\ s.acct = acct /\ s.src = src /\ s.list = chat_list /\ s.chats = chats
           /\ s.wins = wins /\ s.past = past
<1>1. Same(Now, Heard(c), {"conns"})
  BY DEF Read1
<1> HIDE DEF Heard
<1> QED BY <1>1, NowIs DEF Same

(* The hand-shake.                                                         *)
LEMMA Next1Good ==
    ASSUME SessInv, NEW c \in DOMAIN conns, NEW m, NEW next \in Words, Next1(c, m, next),
           m \in MayOwe(conns[c].type) =>
              next \in MayOwe(conns[c].type) \ {"list", "nav", "chat", "created"}
    PROVE  SessInv'
<1> DEFINE s == Heard(c)
           type == conns[c].type
           t == Ask(s, c, type, next, None)
           q == [m |-> next, room |-> None, kept |-> TRUE]
<1>1. ASSUME harm = {} PROVE Good(t, left.rejoin)
  <2>1. Read1(c, m)
    BY <1>1, HearsIs DEF Next1
  <2>2. /\ Good(s, left.rejoin) /\ s.harm = {} /\ c \in DOMAIN s.conns /\ s.conns[c].type = type
        /\ next \in MayOwe(type) /\ next \notin {"list", "nav", "chat", "created"}
    BY <2>1 DEF Read1
  <2> HIDE DEF s, type
  <2>3. Proper(s, c, q) /\ ~Joins(q)
    BY <2>2 DEF Proper, Joins
  <2> QED BY <2>2, <2>3, AskGood
<1>2. Dispatched({t}) /\ UNCHANGED left
  BY DEF Next1
<1> HIDE DEF t
<1>3. LeftOK' /\ left'.rejoin = left.rejoin
  BY <1>2, LeftStays DEF SessInv
<1> QED BY <1>1, <1>2, <1>3, DispatchedGood

LEMMA HandShakeStep ==
    ASSUME SessInv, NEW c \in DOMAIN conns,
           \/ aim_parse_login(c) \/ hostonline(c) \/ hostversions(c)
           \/ aim_recv_conn_complete(c)
    PROVE  SessInv'
<1>1. CASE aim_parse_login(c)
  <2>1. Next1(c, "key", "login") /\ "login" \in Words
    BY <1>1 DEF aim_parse_login, Words
  <2>2. "key" \in MayOwe(conns[c].type) =>
           "login" \in MayOwe(conns[c].type) \ {"list", "nav", "chat", "created"}
    BY DEF MayOwe
  <2> QED BY <2>1, <2>2, Next1Good
<1>2. CASE hostonline(c)
  <2>1. Next1(c, "online", "versions") /\ "versions" \in Words
    BY <1>2 DEF hostonline, Words
  <2>2. "online" \in MayOwe(conns[c].type) =>
           "versions" \in MayOwe(conns[c].type) \ {"list", "nav", "chat", "created"}
    BY DEF MayOwe
  <2> QED BY <2>1, <2>2, Next1Good
<1>3. CASE hostversions(c)
  <2>1. Next1(c, "versions", "rates") /\ "rates" \in Words
    BY <1>3 DEF hostversions, Words
  <2>2. "versions" \in MayOwe(conns[c].type) =>
           "rates" \in MayOwe(conns[c].type) \ {"list", "nav", "chat", "created"}
    BY DEF MayOwe
  <2> QED BY <2>1, <2>2, Next1Good
<1>4. CASE aim_recv_conn_complete(c)
  <2>1. Next1(c, "rates", "rights") /\ "rights" \in Words /\ conns[c].type = "bos"
    BY <1>4 DEF aim_recv_conn_complete, Words
  <2>2. "rates" \in MayOwe(conns[c].type) =>
           "rights" \in MayOwe(conns[c].type) \ {"list", "nav", "chat", "created"}
    BY <2>1 DEF MayOwe
  <2> QED BY <2>1, <2>2, Next1Good
<1> QED BY <1>1, <1>2, <1>3, <1>4

LEMMA NavStep ==
    ASSUME SessInv, NEW c \in DOMAIN conns, recv_chatnav_conn(c)
    PROVE  SessInv'
<1> DEFINE s == Heard(c)
           u == Ask(s, c, "nav", "info", None)
           t == SetNav(u, c)
           q == [m |-> "info", room |-> None, kept |-> TRUE]
<1>1. Dispatched({t}) /\ UNCHANGED left /\ Hears(c, "rates") /\ conns[c].type = "nav"
  BY DEF recv_chatnav_conn, SetNav
<1>2. ASSUME harm = {} PROVE Good(t, left.rejoin)
  <2>1. Read1(c, "rates")
    BY <1>1, <1>2, HearsIs
  <2>2. /\ Good(s, left.rejoin) /\ s.harm = {} /\ c \in DOMAIN s.conns /\ s.conns[c].type = "nav"
        /\ c \in Conns /\ s.conns[c].status = "up" /\ Typed(s) /\ Shape(s)
    BY <1>1, <2>1 DEF Read1, Good, Sound
  <2> HIDE DEF s
  <2>3. Proper(s, c, q) /\ ~Joins(q) /\ "info" \in Words
    BY <2>2 DEF Proper, Joins, MayOwe, Words
  <2>4. Good(u, left.rejoin)
    BY <2>2, <2>3, AskGood
  <2>5. /\ c \in DOMAIN u.conns /\ u.conns[c].type = "nav" /\ u.conns[c].status = "up"
    <3> DEFINE e == Append(s.conns[c].owes, q)
    <3>1. u = SetOwes(s, c, e)
      BY <2>2, NoAddress DEF Ask, SetOwes
    <3> HIDE DEF u, e
    <3>2. Owing(s, u, c, e)
      BY <2>2, <3>1, OwingIs
    <3> QED BY <2>2, <3>2 DEF Owing
  <2> HIDE DEF u
  <2> QED BY <2>2, <2>4, <2>5, NavGood
<1> HIDE DEF t
<1>3. LeftOK' /\ left'.rejoin = left.rejoin
  BY <1>1, LeftStays DEF SessInv
<1> QED BY <1>1, <1>2, <1>3, DispatchedGood

LEMMA ChatStep ==
    ASSUME SessInv, NEW c \in DOMAIN conns, recv_chat_conn(c)
    PROVE  SessInv'
<1> DEFINE s == Heard(c)
<1>1. Dispatched({s}) /\ UNCHANGED left /\ Hears(c, "rates")
  BY DEF recv_chat_conn
<1>2. ASSUME harm = {} PROVE Good(s, left.rejoin)
  BY <1>1, <1>2, HearsIs DEF Read1
<1> HIDE DEF s
<1>3. LeftOK' /\ left'.rejoin = left.rejoin
  BY <1>1, LeftStays DEF SessInv
<1> QED BY <1>1, <1>2, <1>3, DispatchedGood

(* The authorizer's answer: its connection goes, and the next is dialled.  *)
LEMMA AuthIs ==
    ASSUME SessInv, harm = {}, NEW c \in DOMAIN conns, Hears(c, "login")
    PROVE  LET t == Kill(Heard(c), c) IN
           /\ Good(t, left.rejoin) /\ t.harm = {} /\ NoLogin(t) /\ ~t.acct.connected
           /\ ~(t.acct.disconnected /\ ~t.acct.reconnecting)
<1> DEFINE s == Heard(c)
           t == Kill(s, c)
<1>1. Read1(c, "login")
  BY HearsIs
<1>2. /\ Good(s, left.rejoin) /\ s.harm = {} /\ Shape(s) /\ c \in DOMAIN s.conns /\ c \in Conns
      /\ s.conns[c].type = conns[c].type /\ s.src[c] = "event" /\ "login" \in MayOwe(conns[c].type)
  BY <1>1 DEF Read1
<1> HIDE DEF s
<1>3. s.conns[c].type = "auth"
  BY <1>2 DEF MayOwe
<1>4. Typed(s) /\ Linked(s)
  BY <1>2 DEF Good, Sound
<1>5. \A d \in DOMAIN s.conns : Logs(s, d) => d = c
  BY <1>2, <1>3, <1>4 DEF Linked, OneLogin, Logs
<1>6. ~s.acct.connected
  BY <1>3, <1>4, <1>5 DEF Linked, Online, Logs
<1>7. ~(s.acct.disconnected /\ ~s.acct.reconnecting)
  BY <1>2, <1>3, <1>4 DEF Linked, OneLogin, NoLogin, Logs
<1>8. "lost" \notin s.past => s.acct.nav # c
  BY <1>2, <1>3, <1>4, NoAddress DEF Linked, NavKnown
<1>9. Good(t, left.rejoin)
  BY <1>2, <1>3, <1>6, <1>8, KillGood
<1>10. /\ Same(s, t, {"conns", "src"})
       /\ DOMAIN t.conns = DOMAIN s.conns \ {c}
       /\ \A d \in DOMAIN s.conns : d # c => t.conns[d] = s.conns[d]
       /\ Typed(s) => \A d \in Conns : d # c => t.src[d] = s.src[d]
  BY <1>2, KillIs
<1> HIDE DEF t
<1>11. t.acct = s.acct /\ t.harm = {}
  BY <1>2, <1>10 DEF Same
<1>12. NoLogin(t)
  BY <1>4, <1>5, <1>10 DEF NoLogin, Logs, Typed
<1> QED BY <1>6, <1>7, <1>9, <1>11, <1>12 DEF s, t

LEMMA AuthStep ==
    ASSUME SessInv, NEW c \in DOMAIN conns, aim_parse_authresp(c)
    PROVE  SessInv'
<1> DEFINE s == Kill(Heard(c), c)
<1>1. Dispatched(Dial(s, "bos")) /\ UNCHANGED left /\ Hears(c, "login")
  BY DEF aim_parse_authresp
<1>2. ASSUME harm = {}, NEW t \in Dial(s, "bos") PROVE Good(t, left.rejoin)
  <2>1. /\ Good(s, left.rejoin) /\ s.harm = {} /\ NoLogin(s) /\ ~s.acct.connected
        /\ ~(s.acct.disconnected /\ ~s.acct.reconnecting)
    BY <1>1, <1>2, AuthIs
  <2> HIDE DEF s
  <2> QED BY <1>2, <2>1, DialGood
<1> HIDE DEF s
<1>3. LeftOK' /\ left'.rejoin = left.rejoin
  BY <1>1, LeftStays DEF SessInv
<1> QED BY <1>1, <1>2, <1>3, DispatchedGood

LEMMA AuthErrorStep ==
    ASSUME SessInv, NEW c \in DOMAIN conns, aim_parse_authresp_error(c)
    PROVE  SessInv'
<1> DEFINE s == Kill(Heard(c), c)
           p == Past(s, "refused", TRUE)
           t == Harm(p, "freed")
<1>1. Dispatched({s, t}) /\ Fails /\ Hears(c, "login")
  BY DEF aim_parse_authresp_error
<1>2. ASSUME harm = {} PROVE Good(s, left.rejoin) /\ Good(t, left.rejoin)
  <2>1. Good(s, left.rejoin)
    BY <1>1, <1>2, AuthIs
  <2> HIDE DEF s
  <2>2. Good(p, left.rejoin) /\ "refused" \in p.past
    BY <2>1, PastGood
  <2> HIDE DEF p
  <2>3. Shape(p) /\ Excused(p)
    BY <2>2 DEF Good, Excused, Ways
  <2> QED BY <2>1, <2>3, HarmIs
<1> HIDE DEF s, t
<1>3. LeftOK' /\ left'.rejoin = left.rejoin
  BY <1>1, LeftStays DEF SessInv
<1> QED BY <1>1, <1>2, <1>3, DispatchedGood

(* The account and a connection that change, in either order.              *)
LEMMA Commute ==
    ASSUME NEW s, Shape(s), NEW a, NEW n
    PROVE  [[s EXCEPT !.conns = n] EXCEPT !.acct = a] = [[s EXCEPT !.acct = a] EXCEPT !.conns = n]
<1> DEFINE u == [s EXCEPT !.conns = n]
           v == [s EXCEPT !.acct = a]
           t == [u EXCEPT !.acct = a]
           w == [v EXCEPT !.conns = n]
<1>1. Shape(u) /\ u.conns = n /\ Same(s, u, {"conns"})
  BY ConnsField
<1>2. Shape(v) /\ v.acct = a /\ Same(s, v, {"acct"})
  BY AcctField
<1> HIDE DEF u, v
<1>3. Shape(t) /\ t.acct = a /\ Same(u, t, {"acct"})
  BY <1>1, AcctField
<1>4. Shape(w) /\ w.conns = n /\ Same(v, w, {"conns"})
  BY <1>2, ConnsField
<1> HIDE DEF t, w
<1>5. Same(t, w, {})
  BY <1>1, <1>2, <1>3, <1>4 DEF Same
<1>6. t = w
  BY <1>3, <1>4, <1>5, SameIs
<1> QED BY <1>6 DEF t, w, u, v

LEMMA BosCommutes ==
    ASSUME NEW s, Shape(s), NEW c, NEW e
    PROVE  SetBos(SetOwes(s, c, e), c) = SetOwes(SetBos(s, c), c, e)
<1> DEFINE v == [s.conns[c] EXCEPT !.owes = e]
           n == [s.conns EXCEPT ![c] = v]
           a == BosAcct(s.acct, c)
           u == [s EXCEPT !.conns = n]
           w == [s EXCEPT !.acct = a]
<1>1. SetOwes(s, c, e) = u
  BY OwesIs DEF Put
<1>2. SetBos(s, c) = w
  BY DEF SetBos, BosAcct
<1>3. Shape(u) /\ u.acct = s.acct
  <2> HIDE DEF n
  <2>1. Shape(u) /\ Same(s, u, {"conns"})
    BY ConnsField
  <2> HIDE DEF u
  <2> QED BY <2>1 DEF Same
<1>4. Shape(w) /\ w.conns = s.conns
  <2> HIDE DEF a
  <2>1. Shape(w) /\ Same(s, w, {"acct"})
    BY AcctField
  <2> HIDE DEF w
  <2> QED BY <2>1 DEF Same
<1>5. SetBos(u, c) = [u EXCEPT !.acct = a]
  <2>1. SetBos(u, c) = [u EXCEPT !.acct = BosAcct(u.acct, c)]
    <3> HIDE DEF u
    <3> QED BY DEF SetBos, BosAcct
  <2> QED BY <1>3, <2>1
<1>6. SetOwes(w, c, e) = [w EXCEPT !.conns = n]
  <2>1. SetOwes(w, c, e) = [w EXCEPT !.conns = [w.conns EXCEPT ![c] = [w.conns[c] EXCEPT !.owes = e]]]
    <3> HIDE DEF w
    <3> QED BY <1>4, OwesIs DEF Put
  <2> QED BY <1>4, <2>1
<1>7. [u EXCEPT !.acct = a] = [w EXCEPT !.conns = n]
  <2> HIDE DEF n, a
  <2> QED BY Commute
<1> QED BY <1>1, <1>2, <1>5, <1>6, <1>7

(* The rights of the basic service: bos_conn is known, and the list is     *)
(* asked for.                                                              *)
LEMMA RightsStep ==
    ASSUME SessInv, NEW c \in DOMAIN conns, aim_recv_bos_rights(c)
    PROVE  SessInv'
<1> DEFINE s == Heard(c)
           t == SetBos(Ask(s, c, "bos", "list", None), c)
           b == SetBos(s, c)
           q == [m |-> "list", room |-> None, kept |-> TRUE]
           e == Append(s.conns[c].owes, q)
<1>1. Dispatched({t}) /\ UNCHANGED left /\ Hears(c, "rights")
  BY DEF aim_recv_bos_rights, SetBos
<1>2. ASSUME harm = {} PROVE Good(t, left.rejoin)
  <2>1. Read1(c, "rights")
    BY <1>1, <1>2, HearsIs
  <2>2. /\ Good(s, left.rejoin) /\ s.harm = {} /\ Shape(s) /\ c \in DOMAIN s.conns /\ c \in Conns
        /\ s.conns[c].type = conns[c].type /\ s.src[c] = "event" /\ s.conns[c].status = "up"
        /\ "rights" \in MayOwe(conns[c].type)
    BY <2>1 DEF Read1
  <2> HIDE DEF s
  <2>3. s.conns[c].type = "bos"
    BY <2>2 DEF MayOwe
  <2>4. /\ Good(b, left.rejoin) /\ Same(s, b, {"acct"}) /\ b.acct.bos = c
    BY <2>2, <2>3, BosGood
  <2>5. Ask(s, c, "bos", "list", None) = SetOwes(s, c, e)
    BY <2>2, <2>3, NoAddress DEF Ask, SetOwes
  <2>6. t = SetOwes(b, c, e)
    BY <2>2, <2>5, BosCommutes
  <2> HIDE DEF b, t
  <2>7. b.conns = s.conns /\ b.src = s.src /\ b.harm = s.harm
    BY <2>4 DEF Same
  <2>8. t = Ask(b, c, "bos", "list", None)
    BY <2>2, <2>3, <2>6, <2>7, NoAddress DEF Ask, SetOwes
  <2>9. Proper(b, c, q) /\ ~Joins(q) /\ "list" \in Words
    BY <2>3, <2>4, <2>7 DEF Proper, Joins, MayOwe, Words
  <2> QED BY <2>2, <2>3, <2>4, <2>7, <2>8, <2>9, AskGood
<1> HIDE DEF t
<1>3. LeftOK' /\ left'.rejoin = left.rejoin
  BY <1>1, LeftStays DEF SessInv
<1> QED BY <1>1, <1>2, <1>3, DispatchedGood

LEMMA ListStep ==
    ASSUME SessInv, NEW c \in DOMAIN conns, aim_ssi_recv_list(c)
    PROVE  SessInv'
<1> DEFINE s == Heard(c)
           t == IF acct.connected THEN s ELSE pork_acct_connected(s)
<1>1. Dispatched({t}) /\ UNCHANGED left /\ Hears(c, "list")
  BY DEF aim_ssi_recv_list
<1>2. ASSUME harm = {} PROVE Good(t, left.rejoin)
  <2>1. Read1(c, "list")
    BY <1>1, <1>2, HearsIs
  <2>2. /\ Good(s, left.rejoin) /\ s.harm = {} /\ c \in DOMAIN s.conns
        /\ s.conns[c].type = conns[c].type /\ s.src[c] = "event" /\ acct.bos = c
        /\ "list" \in MayOwe(conns[c].type)
    BY <2>1 DEF Read1
  <2>3. s.acct = acct
    BY <2>1, HeardFields
  <2> HIDE DEF s
  <2>4. s.conns[c].type = "bos"
    BY <2>2 DEF MayOwe
  <2>5. Good(pork_acct_connected(s), left.rejoin)
    BY <2>2, <2>3, <2>4, UpGood
  <2> QED BY <2>2, <2>5
<1> HIDE DEF t
<1>3. LeftOK' /\ left'.rejoin = left.rejoin
  BY <1>1, LeftStays DEF SessInv
<1> QED BY <1>1, <1>2, <1>3, DispatchedGood

(* A room has been made, and its server is asked for.                      *)
LEMMA JoinedStep ==
    ASSUME SessInv, NEW c \in DOMAIN conns, aim_chat_join(c)
    PROVE  SessInv'
<1> DEFINE s == Heard(c)
           r == Answer(c).room
           u == Ask(s, acct.bos, "bos", "chat", r)
           t == IF Answer(c).kept THEN u ELSE s
           q == [m |-> "chat", room |-> r, kept |-> TRUE]
<1>1. Dispatched({t}) /\ UNCHANGED left /\ Hears(c, "created")
  BY DEF aim_chat_join
<1>2. ASSUME harm = {} PROVE Good(t, left.rejoin)
  <2>1. Read1(c, "created")
    BY <1>1, <1>2, HearsIs
  <2>2. /\ Good(s, left.rejoin) /\ s.harm = {} /\ c \in DOMAIN s.conns
        /\ s.conns[c].type = conns[c].type /\ "created" \in MayOwe(conns[c].type)
        /\ r \in Rooms /\ (Clean(s) => Idle(s, r) /\ ~There(s, r))
    BY <2>1 DEF Read1, Joins
  <2>3. s.acct = acct
    BY <2>1, HeardFields
  <2> HIDE DEF s, r
  <2>4. s.conns[c].type = "nav"
    BY <2>2 DEF MayOwe
  <2>5. acct.connected /\ acct.bos \in DOMAIN s.conns /\ s.conns[acct.bos].type = "bos"
    BY <2>2, <2>3, <2>4 DEF Good, Sound, Linked, Online
  <2>6. Proper(s, acct.bos, q) /\ "chat" \in Words
    BY <2>2, <2>3, <2>5 DEF Proper, Joins, MayOwe, Words
  <2>7. Good(u, left.rejoin)
    BY <2>2, <2>5, <2>6, AskGood
  <2> QED BY <2>2, <2>7
<1> HIDE DEF t
<1>3. LeftOK' /\ left'.rejoin = left.rejoin
  BY <1>1, LeftStays DEF SessInv
<1> QED BY <1>1, <1>2, <1>3, DispatchedGood

(* Another server.                                                         *)
LEMMA RedirectChatnavStep ==
    ASSUME SessInv, NEW c \in DOMAIN conns, RedirectChatnav(c)
    PROVE  SessInv'
<1> DEFINE s == Heard(c)
<1>1. Dispatched(Dial(s, "nav")) /\ UNCHANGED left /\ Hears(c, "nav")
  BY DEF RedirectChatnav
<1>2. ASSUME harm = {}, NEW t \in Dial(s, "nav") PROVE Good(t, left.rejoin)
  <2>1. Read1(c, "nav")
    BY <1>1, <1>2, HearsIs
  <2>2. Good(s, left.rejoin) /\ acct.connected
    BY <2>1 DEF Read1
  <2>3. s.acct = acct
    BY <2>1, HeardFields
  <2> HIDE DEF s
  <2> QED BY <1>2, <2>2, <2>3, DialGood
<1> HIDE DEF s
<1>3. LeftOK' /\ left'.rejoin = left.rejoin
  BY <1>1, LeftStays DEF SessInv
<1> QED BY <1>1, <1>2, <1>3, DispatchedGood

LEMMA RedirectChatStep ==
    ASSUME SessInv, NEW c \in DOMAIN conns, RedirectChat(c)
    PROVE  SessInv'
<1> DEFINE s == Heard(c)
           r == Answer(c).room
           p == Past(s, "late", TRUE)
           news == {k \in Chats \ DOMAIN chats : \A j \in Chats \ DOMAIN chats : k <= j}
           made(d, k) == {chat_new(u, d, r, k) : u \in Dialled(s, d, "chat")}
           S == IF ~Answer(c).kept THEN {Harm(p, "null")}
                ELSE IF wins[r] = Shut THEN {s}
                ELSE UNION {made(d, k) : d \in Fresh(Now), k \in news}
<1>1. Dispatched(S) /\ UNCHANGED left /\ Hears(c, "chat")
  BY DEF RedirectChat
<1>2. /\ \A t \in S : \/ t = Harm(p, "null") \/ t = s
                      \/ \E d \in Fresh(Now), k \in news : \E u \in Dialled(s, d, "chat") :
                            t = chat_new(u, d, r, k)
      /\ \A k \in news : k \in Chats /\ k \notin DOMAIN chats
  <2>1. \A k \in news : k \in Chats /\ k \notin DOMAIN chats
    OBVIOUS
  <2> HIDE DEF news, p, s, r
  <2>2. \A d, k : \A x \in made(d, k) : \E u \in Dialled(s, d, "chat") : x = chat_new(u, d, r, k)
    OBVIOUS
  <2> HIDE DEF made
  <2>3. ASSUME NEW t \in UNION {made(d, k) : d \in Fresh(Now), k \in news}
        PROVE  \E d \in Fresh(Now), k \in news : \E u \in Dialled(s, d, "chat") :
                  t = chat_new(u, d, r, k)
    BY <2>2
  <2> QED BY <2>1, <2>3
<1> HIDE DEF S, news
<1>3. ASSUME harm = {}, NEW t \in S PROVE Good(t, left.rejoin)
  <2>1. Read1(c, "chat")
    BY <1>1, <1>3, HearsIs
  <2>2. /\ Good(s, left.rejoin) /\ s.harm = {} /\ acct.connected /\ r \in Rooms
        /\ (Clean(s) => Idle(s, r) /\ ~There(s, r)) /\ DOMAIN s.conns = DOMAIN conns
    BY <2>1 DEF Read1, Joins
  <2>3. s.acct = acct /\ s.chats = chats
    BY <2>1, HeardFields
  <2> HIDE DEF s, r
  <2>4. Good(Harm(p, "null"), left.rejoin)
    <3>1. Good(p, left.rejoin) /\ "late" \in p.past
      BY <2>2, PastGood
    <3> HIDE DEF p
    <3>2. Shape(p) /\ Excused(p)
      BY <3>1 DEF Good, Excused, Ways
    <3> QED BY <3>2, HarmIs
  <2>5. ASSUME NEW d \in Fresh(Now), NEW k \in news, NEW u \in Dialled(s, d, "chat")
        PROVE  Good(chat_new(u, d, r, k), left.rejoin)
    <3>1. d \in Conns /\ d \notin DOMAIN s.conns /\ k \in Chats /\ k \notin DOMAIN s.chats
      BY <1>2, <2>2, <2>3, NowIs DEF Fresh, Free
    <3> QED BY <2>2, <2>3, <2>5, <3>1, RoomGood
  <2> HIDE DEF p
  <2> QED BY <1>2, <1>3, <2>2, <2>4, <2>5
<1>4. LeftOK' /\ left'.rejoin = left.rejoin
  BY <1>1, LeftStays DEF SessInv
<1> QED BY <1>1, <1>3, <1>4, DispatchedGood

LEMMA RedirectFailsStep ==
    ASSUME SessInv, NEW c \in DOMAIN conns, RedirectFails(c)
    PROVE  SessInv'
<1> DEFINE s == Heard(c)
           t == Past(s, "unjoined", Answer(c).m = "nav")
<1>1. Dispatched({t}) /\ Fails /\ (Hears(c, "nav") \/ Hears(c, "chat"))
  BY DEF RedirectFails
<1>2. ASSUME harm = {} PROVE Good(t, left.rejoin)
  <2>1. Good(s, left.rejoin)
    BY <1>1, <1>2, HearsIs DEF Read1
  <2> HIDE DEF s
  <2> QED BY <2>1, PastGood
<1> HIDE DEF t
<1>3. LeftOK' /\ left'.rejoin = left.rejoin
  BY <1>1, LeftStays DEF SessInv
<1> QED BY <1>1, <1>2, <1>3, DispatchedGood

(* The rooms that wait are others.                                         *)
PendAcct(a, v) == [a EXCEPT !.pend = v]

LEMMA PendIs ==
    ASSUME NEW a \in Account, NEW v \in Seq(Rooms)
    PROVE  LET b == PendAcct(a, v) IN
           /\ b \in Account /\ b.pend = v /\ b.nav = a.nav /\ b.bos = a.bos
           /\ b.dangling = a.dangling /\ b.connected = a.connected
           /\ b.disconnected = a.disconnected /\ b.reconnecting = a.reconnecting
BY DEF Account, PendAcct

LEMMA CreatedIs ==
    ASSUME NEW old \in Seq(Message), NEW rooms \in Seq(Rooms)
    PROVE  LET new == [i \in DOMAIN rooms |-> [m |-> "created", room |-> rooms[i], kept |-> TRUE]]
               e == old \o new
           IN  /\ e \in Seq(Message) /\ Len(e) = Len(old) + Len(rooms)
               /\ \A i \in 1 .. Len(old) : e[i] = old[i]
               /\ \A i \in 1 .. Len(rooms) : e[Len(old) + i].m = "created"
                                             /\ e[Len(old) + i].room = rooms[i]
<1> DEFINE new == [i \in DOMAIN rooms |-> [m |-> "created", room |-> rooms[i], kept |-> TRUE]]
           e == old \o new
<1>1. /\ Len(rooms) \in Nat /\ DOMAIN rooms = 1 .. Len(rooms)
      /\ \A i \in 1 .. Len(rooms) : rooms[i] \in Rooms
  BY LenProperties, ElementOfSeq
<1>2. "created" \in Words
  BY DEF Words
<1>3. \A i \in 1 .. Len(rooms) : new[i] \in Message /\ new[i].m = "created" /\ new[i].room = rooms[i]
  BY <1>1, <1>2 DEF Message
<1>4. new \in [1 .. Len(rooms) -> Message]
  BY <1>1, <1>2 DEF Message
<1> HIDE DEF new
<1>5. new \in Seq(Message) /\ Len(new) = Len(rooms)
  BY <1>1, <1>4
<1>6. /\ e \in Seq(Message) /\ Len(e) = Len(old) + Len(rooms)
      /\ \A i \in 1 .. Len(old) + Len(rooms) :
            e[i] = IF i <= Len(old) THEN old[i] ELSE new[i - Len(old)]
  <2>1. /\ e \in Seq(Message) /\ Len(e) = Len(old) + Len(new)
        /\ \A i \in 1 .. Len(old) + Len(new) :
              e[i] = IF i <= Len(old) THEN old[i] ELSE new[i - Len(old)]
    BY <1>5, ConcatProperties
  <2> HIDE DEF e
  <2> QED BY <1>5, <2>1
<1> HIDE DEF e
<1>7. Len(old) \in Nat
  BY LenProperties
<1>8. \A i \in 1 .. Len(old) : e[i] = old[i]
  BY <1>1, <1>6, <1>7
<1>9. ASSUME NEW i \in 1 .. Len(rooms) PROVE e[Len(old) + i] = new[i]
  <2>1. /\ Len(old) + i \in 1 .. Len(old) + Len(rooms) /\ ~(Len(old) + i <= Len(old))
        /\ (Len(old) + i) - Len(old) = i
    BY <1>1, <1>7
  <2> QED BY <1>6, <2>1
<1> QED BY <1>3, <1>6, <1>8, <1>9 DEF e, new

(* All the rooms that wait are asked for.                                  *)
LEMMA CreatedGood ==
    ASSUME NEW s, NEW rejoin, Good(s, rejoin), s.harm = {}, NEW c \in DOMAIN s.conns,
           s.conns[c].type = "nav", ~s.acct.dangling
    PROVE  Good([Created(s, c, s.acct.pend) EXCEPT !.acct.pend = <<>>], rejoin)
<1> DEFINE rooms == s.acct.pend
           new == [i \in DOMAIN rooms |-> [m |-> "created", room |-> rooms[i], kept |-> TRUE]]
           e == s.conns[c].owes \o new
           u == SetOwes(s, c, e)
           none == <<>>
           a == PendAcct(u.acct, none)
           t == [u EXCEPT !.acct = a]
<1>1. [Created(s, c, s.acct.pend) EXCEPT !.acct.pend = <<>>] = t
  <2>1. Created(s, c, s.acct.pend) = u
    BY DEF Created, SetOwes
  <2> HIDE DEF u
  <2> QED BY <2>1 DEF PendAcct
<1>2. /\ Shape(s) /\ Typed(s) /\ Asked(s) /\ Linked(s) /\ Awake(s, rejoin) /\ s.acct \in Account
  BY DEF Good, Sound, Typed
<1>3. /\ s.conns[c].owes \in Seq(Message) /\ Len(s.conns[c].owes) \in Nat /\ rooms \in Seq(Rooms)
  BY <1>2, OwesTyped
<1>4. /\ e \in Seq(Message) /\ Len(e) = Len(s.conns[c].owes) + Len(rooms)
      /\ \A i \in 1 .. Len(s.conns[c].owes) : e[i] = s.conns[c].owes[i]
      /\ \A i \in 1 .. Len(rooms) : e[Len(s.conns[c].owes) + i].m = "created"
                                    /\ e[Len(s.conns[c].owes) + i].room = rooms[i]
  BY <1>3, CreatedIs
<1> HIDE DEF e
<1>5. Owing(s, u, c, e)
  BY <1>2, OwingIs
<1> HIDE DEF u
<1>6. /\ Shape(u) /\ Same(s, u, {"conns"}) /\ DOMAIN u.conns = DOMAIN s.conns
      /\ \A d \in DOMAIN s.conns : d # c => u.conns[d] = s.conns[d]
      /\ u.conns[c].owes = e /\ u.conns[c].type = s.conns[c].type
      /\ u.conns[c].status = s.conns[c].status /\ u.conns[c].chat = s.conns[c].chat
      /\ Typed(u)
  BY <1>2, <1>4, <1>5 DEF Owing
<1>7. u.acct = s.acct
  BY <1>6 DEF Same
<1>8. none \in Seq(Rooms)
  OBVIOUS
<1>9. /\ a \in Account /\ a.pend = none /\ a.nav = s.acct.nav /\ a.bos = s.acct.bos
      /\ a.dangling = s.acct.dangling /\ a.connected = s.acct.connected
      /\ a.disconnected = s.acct.disconnected /\ a.reconnecting = s.acct.reconnecting
  <2> HIDE DEF none
  <2> QED BY <1>2, <1>7, <1>8, PendIs
<1> HIDE DEF a
<1>10. Shape(t) /\ t.acct = a /\ Same(u, t, {"acct"}) /\ Typed(t)
  BY <1>6, <1>9, AccountIs
<1> HIDE DEF t
<1>11. /\ t.conns = u.conns /\ t.src = s.src /\ t.list = s.list /\ t.chats = s.chats
       /\ t.wins = s.wins /\ t.harm = {} /\ t.past = s.past
  BY <1>6, <1>10 DEF Same
<1>12. All(s, t, c)
  <2>1. /\ t.acct.bos = s.acct.bos /\ t.acct.connected = s.acct.connected /\ t.acct.pend = <<>>
    BY <1>9, <1>10
  <2>2. /\ t.conns[c].owes = e /\ DOMAIN t.conns = DOMAIN s.conns
        /\ \A d \in DOMAIN s.conns : t.conns[d].type = s.conns[d].type
        /\ \A d \in DOMAIN s.conns : d # c => t.conns[d].owes = s.conns[d].owes
    BY <1>6, <1>11
  <2> HIDE DEF none
  <2> QED BY <1>3, <1>4, <1>11, <2>1, <2>2 DEF All
<1>13. Asked(t)
  BY <1>2, <1>12, AskedAll
<1>14. GivenUp(t)
  BY <1>9, <1>10 DEF GivenUp
<1>15. Unmoved(s, t)
  BY <1>6, <1>9, <1>10, <1>11, <1>14 DEF Unmoved
<1>16. Linked(t) /\ Awake(t, rejoin)
  BY <1>2, <1>15, LinkedUnmoved
<1> QED BY <1>1, <1>10, <1>11, <1>13, <1>16 DEF Good, Sound

LEMMA InfoStep ==
    ASSUME SessInv, NEW c \in DOMAIN conns, aim_recv_chatnav_info(c)
    PROVE  SessInv'
<1> DEFINE s == Heard(c)
           o == [Created(s, c, acct.pend) EXCEPT !.acct.pend = <<>>]
           p == Past(s, "unjoined", acct.pend # <<>>)
           h == Harm(s, "pending")
           t == IF ~Answer(c).kept THEN p ELSE IF acct.dangling THEN h ELSE o
<1>1. Dispatched({t}) /\ UNCHANGED left /\ Hears(c, "info")
  BY DEF aim_recv_chatnav_info
<1>2. ASSUME harm = {} PROVE Good(t, left.rejoin)
  <2>1. Read1(c, "info")
    BY <1>1, <1>2, HearsIs
  <2>2. /\ Good(s, left.rejoin) /\ s.harm = {} /\ c \in DOMAIN s.conns /\ Shape(s)
        /\ s.conns[c].type = conns[c].type /\ "info" \in MayOwe(conns[c].type)
    BY <2>1 DEF Read1
  <2>3. s.acct = acct
    BY <2>1, HeardFields
  <2> HIDE DEF s
  <2>4. s.conns[c].type = "nav"
    BY <2>2 DEF MayOwe
  <2>5. Good(p, left.rejoin)
    BY <2>2, PastGood
  <2>6. acct.dangling => Good(h, left.rejoin)
    <3>1. acct.dangling => Excused(s)
      BY <2>2, <2>3 DEF Good, Sound, Linked, GivenUp, Excused, Ways
    <3> QED BY <2>2, <3>1, HarmIs
  <2>7. ~acct.dangling => Good(o, left.rejoin)
    <3>1. ~s.acct.dangling =>
             Good([Created(s, c, s.acct.pend) EXCEPT !.acct.pend = <<>>], left.rejoin)
      BY <2>2, <2>4, CreatedGood
    <3> QED BY <2>3, <3>1
  <2> HIDE DEF p, h, o
  <2> QED BY <2>5, <2>6, <2>7
<1> HIDE DEF t
<1>3. LeftOK' /\ left'.rejoin = left.rejoin
  BY <1>1, LeftStays DEF SessInv
<1> QED BY <1>1, <1>2, <1>3, DispatchedGood

LEMMA ChatLeaveStep ==
    ASSUME SessInv, NEW c \in DOMAIN conns, aim_recv_chat_leave(c)
    PROVE  SessInv'
<1> DEFINE t == ForcedLeave(Now, chats[conns[c].chat].room)
<1>1. Dispatched({t}) /\ Fails
  BY DEF aim_recv_chat_leave
<1>2. ASSUME harm = {} PROVE Good(t, left.rejoin)
  <2>1. Shape(Now) /\ Now.harm = {} /\ Sound(Now) /\ Awake(Now, left.rejoin)
    BY <1>2, NowIs DEF SessInv, Good
  <2>2. Clean(Now) => \A j \in DOMAIN Now.chats : Now.src[Now.chats[j].conn] = "none" => left.rejoin
    BY <2>1 DEF Awake
  <2> QED BY <2>1, <2>2, ForcedGood
<1> HIDE DEF t
<1>3. LeftOK' /\ left'.rejoin = left.rejoin
  BY <1>1, LeftStays DEF SessInv
<1> QED BY <1>1, <1>2, <1>3, DispatchedGood

(* A connection is there.                                                  *)
LEMMA ConnectOkStep ==
    ASSUME SessInv, NEW c \in DOMAIN conns, ConnectOk(c)
    PROVE  SessInv'
<1> DEFINE w == Wire(Now, c, "up", "event")
           type == conns[c].type
           m == IF type = "auth" THEN "key" ELSE "online"
           t == Ask(w, c, type, m, None)
           q == [m |-> m, room |-> None, kept |-> TRUE]
<1>1. Becomes({t}) /\ UNCHANGED left /\ src[c] = "connected"
  BY NowIs DEF ConnectOk, Connected, Wire
<1>2. ASSUME harm = {} PROVE Good(t, left.rejoin)
  <2>1. /\ Good(Now, left.rejoin) /\ Now.harm = {} /\ c \in DOMAIN Now.conns
        /\ Now.src[c] # "none" /\ Now.conns[c].type = type
    BY <1>1, <1>2, NowIs DEF SessInv
  <2>2. <<"up", "event">> \in {<<"up", "event">>, <<"closed", "dead">>}
    OBVIOUS
  <2>3. /\ Good(w, left.rejoin) /\ Same(Now, w, {"conns", "src"}) /\ DOMAIN w.conns = DOMAIN Now.conns
        /\ w.conns[c].type = Now.conns[c].type
    BY <2>1, <2>2, WireGood
  <2> HIDE DEF w, type
  <2>4. w.harm = {}
    BY <2>1, <2>3 DEF Same
  <2>5. Proper(w, c, q) /\ ~Joins(q) /\ m \in Words
    <3>1. type \in Types
      BY <2>1, OwesTyped DEF Good, Sound
    <3> QED BY <2>1, <2>3, <3>1 DEF Proper, Joins, MayOwe, Words, Types
  <2> HIDE DEF m
  <2> QED BY <2>1, <2>3, <2>4, <2>5, AskGood
<1> HIDE DEF t
<1>3. LeftOK' /\ left'.rejoin = left.rejoin
  BY <1>1, LeftStays DEF SessInv
<1> QED BY <1>1, <1>2, <1>3, BecomesGood

(* A connection is closed by the other side.                               *)
LEMMA HangUpStep ==
    ASSUME SessInv, NEW c \in DOMAIN conns, HangUp(c)
    PROVE  SessInv'
<1> DEFINE p == Past(Now, "hung", conns[c].type = "auth")
           u == SetOwes(p, c, <<>>)
           t == Wire(u, c, "closed", "dead")
           r == [p EXCEPT !.conns[c].status = "closed", !.conns[c].owes = <<>>, !.src[c] = "dead"]
<1>1. Becomes({r}) /\ Fails /\ src[c] = "event"
  BY DEF HangUp
<1>2. ASSUME harm = {} PROVE Good(r, left.rejoin)
  <2>1. /\ Good(Now, left.rejoin) /\ Now.harm = {} /\ c \in DOMAIN Now.conns
        /\ Now.src[c] = "event"
    BY <1>1, <1>2, NowIs DEF SessInv
  <2>2. Good(p, left.rejoin) /\ Same(Now, p, {"past"})
    BY <2>1, PastGood
  <2>3. /\ p.harm = {} /\ c \in DOMAIN p.conns /\ p.src[c] = "event" /\ Shape(p) /\ Typed(p) /\ Asked(p)
    BY <2>1, <2>2 DEF Same, Good, Sound
  <2> HIDE DEF p
  <2>4. r = t
    <3> DEFINE k == p.conns[c]
               n == [p.conns EXCEPT ![c] = [[k EXCEPT !.status = "closed"] EXCEPT !.owes = <<>>]]
               o == [p.conns EXCEPT ![c] = [[k EXCEPT !.owes = <<>>] EXCEPT !.status = "closed"]]
               f == [p.src EXCEPT ![c] = "dead"]
    <3>1. n = o
      <4>1. k \in Conn
        BY <2>3 DEF Typed
      <4>2. [[k EXCEPT !.status = "closed"] EXCEPT !.owes = <<>>]
            = [[k EXCEPT !.owes = <<>>] EXCEPT !.status = "closed"]
        BY <4>1 DEF Conn
      <4> QED BY <4>2
    <3>2. r = [p EXCEPT !.conns = n, !.src = f]
      BY <2>3 DEF Shape
    <3>3. t = [p EXCEPT !.conns = o, !.src = f]
      BY <2>3 DEF Wire, SetOwes, Shape
    <3> HIDE DEF n, o, f, r, t
    <3> QED BY <3>1, <3>2, <3>3
  <2> HIDE DEF r
  <2>5. Owing(p, u, c, <<>>)
    BY <2>3, OwingIs
  <2>6. <<>> \in Seq(Message)
    OBVIOUS
  <2>7. Asked(u)
    <3>1. u.conns[c].owes = <<>> /\ DOMAIN u.conns = DOMAIN p.conns
          /\ (\A d \in DOMAIN p.conns : d # c => u.conns[d] = p.conns[d])
          /\ u.acct = p.acct /\ u.chats = p.chats /\ u.src = p.src /\ p.past \subseteq u.past
      <4> HIDE DEF u
      <4> QED BY <2>3, <2>5 DEF Owing, Same, Worse
    <3> HIDE DEF u
    <3> QED BY <2>3, <3>1, AskedSub
  <2>8. Good(u, left.rejoin) /\ u.harm = {}
    BY <2>2, <2>3, <2>6, <2>7, SetOwesGood
  <2>9. u.src[c] # "none" /\ c \in DOMAIN u.conns
    <3> HIDE DEF u
    <3> QED BY <2>3, <2>5 DEF Owing, Same
  <2>10. <<"closed", "dead">> \in {<<"up", "event">>, <<"closed", "dead">>}
    OBVIOUS
  <2> HIDE DEF u
  <2>11. Good(t, left.rejoin)
    BY <2>8, <2>9, <2>10, WireGood
  <2> QED BY <2>4, <2>11
<1> HIDE DEF r
<1>3. LeftOK' /\ left'.rejoin = left.rejoin
  BY <1>1, LeftStays DEF SessInv
<1> QED BY <1>1, <1>2, <1>3, BecomesGood

(* Killing a connection does not look at the account.                      *)
Without(f, c) == [d \in DOMAIN f \ {c} |-> f[d]]
Silent(f, c)  == [f EXCEPT ![c] = "none"]

LEMMA KillValue ==
    ASSUME NEW s, Shape(s), NEW c
    PROVE  Kill(s, c).conns = Without(s.conns, c) /\ Kill(s, c).src = Silent(s.src, c)
<1> DEFINE f == Without(s.conns, c)
           u == [s EXCEPT !.conns = f]
           g == Silent(u.src, c)
           t == [u EXCEPT !.src = g]
<1>1. Kill(s, c) = t
  BY DEF Kill, pork_io_del, Dropped, Without, Silent
<1>2. Shape(u) /\ u.conns = f /\ u.src = s.src
  <2> HIDE DEF f
  <2>1. Shape(u) /\ u.conns = f /\ Same(s, u, {"conns"})
    BY ConnsField
  <2> HIDE DEF u
  <2> QED BY <2>1 DEF Same
<1> HIDE DEF u, f
<1>3. t.src = g /\ t.conns = u.conns
  <2> HIDE DEF g
  <2>1. Shape(u)
    BY <1>2
  <2>2. Shape(t) /\ t.src = g /\ Same(u, t, {"src"})
    BY <2>1, SrcField
  <2> HIDE DEF t
  <2> QED BY <2>2 DEF Same
<1> HIDE DEF t
<1> QED BY <1>1, <1>2, <1>3 DEF f

LEMMA NavCommutes ==
    ASSUME NEW s, Shape(s), NEW c
    PROVE  SetNav(Kill(s, c), None) = Kill(SetNav(s, None), c)
<1> DEFINE a == NavAcct(s.acct, None)
           u == Kill(s, c)
           t == [u EXCEPT !.acct = a]
           v == [s EXCEPT !.acct = a]
           w == Kill(v, c)
<1>1. SetNav(s, None) = v
  BY DEF SetNav, NavAcct
<1>2. Shape(u) /\ Same(s, u, {"conns", "src"})
  BY KillIs
<1>3. SetNav(u, None) = t
  <2> HIDE DEF u
  <2>1. u.acct = s.acct
    BY <1>2 DEF Same
  <2> QED BY <2>1 DEF SetNav, NavAcct
<1> HIDE DEF a
<1>4. Shape(t) /\ t.acct = a /\ Same(u, t, {"acct"})
  <2> HIDE DEF u
  <2> QED BY <1>2, AcctField
<1>5. Shape(v) /\ v.acct = a /\ Same(s, v, {"acct"})
  BY AcctField
<1> HIDE DEF t, v
<1>6. Shape(w) /\ Same(v, w, {"conns", "src"})
  BY <1>5, KillIs
<1>7. u.conns = w.conns /\ u.src = w.src
  <2>1. v.conns = s.conns /\ v.src = s.src
    BY <1>5 DEF Same
  <2>2. u.conns = Without(s.conns, c) /\ u.src = Silent(s.src, c)
    BY KillValue
  <2>3. w.conns = Without(v.conns, c) /\ w.src = Silent(v.src, c)
    BY <1>5, KillValue
  <2> QED BY <2>1, <2>2, <2>3
<1> HIDE DEF u, w
<1>8. Same(t, w, {})
  BY <1>2, <1>4, <1>5, <1>6, <1>7 DEF Same
<1>9. t = w
  BY <1>4, <1>6, <1>8, SameIs
<1> QED BY <1>1, <1>3, <1>9 DEF u, w

-----------------------------------------------------------------------------
(* A connection is lost, or could not be made.                             *)
LEMMA ChatLost ==
    ASSUME NEW s, Good(s, left.rejoin), s.harm = {}, NEW c \in DOMAIN s.conns,
           s.conns[c].type = "chat"
    PROVE  Good(ForcedLeave(pork_io_del(s, c), s.chats[s.conns[c].chat].room), left.rejoin)
<1> DEFINE t == pork_io_del(s, c)
           r == s.chats[s.conns[c].chat].room
<1>1. /\ Shape(t) /\ t.harm = {} /\ Sound(t) /\ Same(s, t, {"src"})
      /\ Clean(t) => \A k \in DOMAIN t.chats :
                        /\ t.chats[k].room # t.chats[t.conns[c].chat].room
                        /\ t.src[t.chats[k].conn] = "none"
                        => left.rejoin
  BY DelChat
<1> HIDE DEF t
<1>2. t.chats = s.chats /\ t.conns = s.conns
  BY <1>1 DEF Same
<1>3. Clean(t) => \A k \in DOMAIN t.chats :
                     t.chats[k].room # r /\ t.src[t.chats[k].conn] = "none" => left.rejoin
  BY <1>1, <1>2
<1> HIDE DEF r
<1>4. Good(ForcedLeave(t, r), left.rejoin)
  BY <1>1, <1>3, ForcedGood
<1> QED BY <1>4 DEF t, r

(* A chatnav connection: no room waits any more.                           *)
LEMMA NavPending ==
    ASSUME NEW s, NEW rejoin, Good(s, rejoin), s.harm = {}, NEW c \in DOMAIN s.conns,
           s.conns[c].type = "nav"
    PROVE  LET t == aim_kill_pending_chats(pork_io_del(s, c)) IN
           /\ Good(t, rejoin) /\ s.past \subseteq t.past
           /\ t.harm = {} => /\ c \in DOMAIN t.conns /\ t.conns[c].type = "nav"
                             /\ t.acct.connected => t.acct.bos # c
                             /\ t.acct.nav = s.acct.nav
<1> DEFINE u == pork_io_del(s, c)
           t == aim_kill_pending_chats(u)
<1>1. s.acct.connected => s.acct.bos # c
  BY DEF Good, Sound, Linked, Online
<1>2. Good(u, rejoin) /\ Worse(s, u) /\ Same(s, u, {"src"})
  BY <1>1, DelGood
<1> HIDE DEF u
<1>3. Good(t, rejoin)
  BY <1>2, PendingGood
<1>4. Half(u)
  BY <1>2, GoodHalf
<1>5. /\ Worse(u, t)
      /\ t.harm = {} => /\ Same(u, t, {"acct", "past"})
                        /\ t.acct.connected = u.acct.connected
                        /\ t.acct.bos = u.acct.bos /\ t.acct.nav = u.acct.nav
  BY <1>4, PendingHalf
<1> HIDE DEF t
<1>6. s.past \subseteq t.past
  BY <1>2, <1>5 DEF Worse
<1>7. u.acct = s.acct /\ u.conns = s.conns
  BY <1>2 DEF Same
<1>8. t.harm = {} => t.conns = s.conns
  BY <1>5, <1>7 DEF Same
<1> QED BY <1>1, <1>3, <1>5, <1>6, <1>7, <1>8 DEF t, u

LEMMA ConnectFailsStep ==
    ASSUME SessInv, NEW c \in DOMAIN conns, ConnectFails(c)
    PROVE  SessInv'
<1> DEFINE s == pork_io_del(Now, c)
           type == conns[c].type
           n == Kill(aim_kill_pending_chats(s), c)
           f == ForcedLeave(s, chats[conns[c].chat].room)
           S == IF type = "nav" THEN {n}
                ELSE IF type = "chat" THEN {f}
                ELSE pork_acct_disconnected(s)
<1>1. Becomes(S) /\ Fails /\ src[c] = "connected"
  BY DEF ConnectFails
<1>2. ASSUME harm = {}, NEW t \in S PROVE Good(t, left.rejoin)
  <2>1. /\ Good(Now, left.rejoin) /\ Now.harm = {} /\ c \in DOMAIN Now.conns
        /\ Now.src[c] = "connected" /\ Now.conns[c].type = type
    BY <1>1, <1>2, NowIs DEF SessInv
  <2>2. /\ type \in Types /\ Matched(Now) /\ OneLogin(Now) /\ Online(Now) /\ NavKnown(Now)
        /\ c \in Conns
    BY <2>1, OwesTyped DEF Good, Sound, Linked
  <2>3. Now.conns[c].status = "inprogress"
    BY <2>1, <2>2 DEF Matched
  <2> HIDE DEF type
  <2>4. type = "nav" => Good(n, left.rejoin)
    <3> SUFFICES ASSUME type = "nav" PROVE Good(n, left.rejoin)
      OBVIOUS
    <3> DEFINE u == aim_kill_pending_chats(s)
    <3>1. /\ Good(u, left.rejoin) /\ Now.past \subseteq u.past
          /\ u.harm = {} => /\ c \in DOMAIN u.conns /\ u.conns[c].type = "nav"
                            /\ u.acct.connected => u.acct.bos # c
                            /\ u.acct.nav = Now.acct.nav
      BY <2>1, NavPending
    <3> HIDE DEF u
    <3>2. c # None
      BY <2>2, NoAddress
    <3>3. "lost" \notin Now.past => Now.acct.nav # c
      BY <2>2, <2>3, <3>2 DEF NavKnown
    <3>4. u.harm = {} /\ "lost" \notin u.past => u.acct.nav # c
      BY <3>1, <3>3
    <3>5. Good(Kill(u, c), left.rejoin)
      BY <3>1, <3>4, KillGood
    <3> QED BY <3>5 DEF u
  <2>5. type = "chat" => Good(f, left.rejoin)
    <3>1. type = "chat" =>
             Good(ForcedLeave(pork_io_del(Now, c), Now.chats[Now.conns[c].chat].room), left.rejoin)
      BY <2>1, ChatLost
    <3> QED BY <3>1, NowIs
  <2>6. ASSUME type \in {"auth", "bos"}, NEW u \in pork_acct_disconnected(s)
        PROVE  Good(u, left.rejoin)
    <3>1. Now.acct.connected => Now.acct.bos # c
      BY <2>1, <2>2 DEF Online
    <3>2. Good(s, left.rejoin) /\ Same(Now, s, {"src"})
      BY <2>1, <2>6, <3>1, DelGood
    <3>3. Typed(Now) /\ Shape(Now)
      BY <2>1 DEF Good, Sound
    <3>4. s.src[c] = "none" /\ \A d \in Conns : d # c => s.src[d] = Now.src[d]
      BY <2>2, <3>3, DelIs
    <3> HIDE DEF s
    <3>5. s.acct = Now.acct /\ s.conns = Now.conns
      BY <3>2 DEF Same
    <3>6. Logs(Now, c)
      BY <2>1, <2>6 DEF Logs
    <3>7. DOMAIN Now.conns \subseteq Conns
      BY <3>3 DEF Typed
    <3>8. NoLogin(s)
      <4> SUFFICES ASSUME NEW d \in DOMAIN s.conns, Logs(s, d) PROVE FALSE
        BY DEF NoLogin
      <4>1. d # c
        BY <3>4 DEF Logs
      <4>2. Logs(Now, d)
        BY <3>4, <3>5, <3>7, <4>1 DEF Logs
      <4> QED BY <2>1, <2>2, <3>5, <3>6, <4>1, <4>2 DEF OneLogin
    <3>9. ~s.acct.connected
      <4> SUFFICES ASSUME Now.acct.connected PROVE FALSE
        BY <3>5
      <4>1. Now.acct.bos \in DOMAIN Now.conns /\ Logs(Now, Now.acct.bos)
        BY <2>2 DEF Online, Logs
      <4> QED BY <2>1, <2>2, <3>1, <3>6, <4>1 DEF OneLogin
    <3>10. Parted(s, left.rejoin)
      BY <3>2, <3>8, <3>9, GoodParted
    <3> QED BY <2>6, <3>10, LostGood
  <2> HIDE DEF n, f, s
  <2> QED BY <1>2, <2>2, <2>4, <2>5, <2>6 DEF Types
<1> HIDE DEF S
<1>3. LeftOK' /\ left'.rejoin = left.rejoin
  BY <1>1, LeftStays DEF SessInv
<1> QED BY <1>1, <1>2, <1>3, BecomesGood

LEMMA DeadStep ==
    ASSUME SessInv, NEW c \in DOMAIN conns, Dead(c)
    PROVE  SessInv'
<1> DEFINE s == pork_io_del(Now, c)
           type == conns[c].type
           n == [Kill(aim_kill_pending_chats(s), c) EXCEPT !.acct.nav = None]
           f == ForcedLeave(s, chats[conns[c].chat].room)
           b == aim_connect_abort(s)
           S == IF type = "bos" THEN pork_acct_disconnected(b)
                ELSE IF type = "chat" THEN {f}
                ELSE IF type = "nav" THEN {n} ELSE {s}
<1>1. Becomes(S) /\ UNCHANGED left /\ src[c] = "dead"
  BY DEF Dead
<1>2. ASSUME harm = {}, NEW t \in S PROVE Good(t, left.rejoin)
  <2>1. /\ Good(Now, left.rejoin) /\ Now.harm = {} /\ c \in DOMAIN Now.conns
        /\ Now.src[c] = "dead" /\ Now.conns[c].type = type
    BY <1>1, <1>2, NowIs DEF SessInv
  <2>2. /\ type \in Types /\ Online(Now) /\ c \in Conns /\ Shape(Now) /\ Typed(Now) /\ Held(Now)
        /\ GivenUp(Now)
    BY <2>1, OwesTyped DEF Good, Sound, Linked
  <2> HIDE DEF type
  <2>3. ASSUME type = "bos", NEW u \in pork_acct_disconnected(b)
        PROVE  Good(u, left.rejoin)
    <3>1. Shape(s) /\ Same(Now, s, {"src"}) /\ Typed(s)
      BY <2>2, DelIs
    <3> HIDE DEF s
    <3>2. Half(s)
      <4>1. /\ s.harm = {} /\ s.list = Now.list /\ s.chats = Now.chats /\ s.conns = Now.conns
            /\ s.wins = Now.wins /\ s.past = Now.past /\ s.acct = Now.acct
        BY <2>1, <3>1 DEF Same
      <4>2. Held(s)
        BY <2>2, <4>1, HeldSame
      <4>3. GivenUp(s)
        BY <2>2, <4>1 DEF GivenUp
      <4> QED BY <3>1, <4>1, <4>2, <4>3 DEF Half
    <3>3. Parted(b, left.rejoin)
      BY <3>2, AbortParted
    <3> HIDE DEF b
    <3> QED BY <2>3, <3>3, LostGood
  <2>4. type = "chat" => Good(f, left.rejoin)
    <3>1. type = "chat" =>
             Good(ForcedLeave(pork_io_del(Now, c), Now.chats[Now.conns[c].chat].room), left.rejoin)
      BY <2>1, ChatLost
    <3> QED BY <3>1, NowIs
  <2>5. type = "nav" => Good(n, left.rejoin)
    <3> SUFFICES ASSUME type = "nav" PROVE Good(n, left.rejoin)
      OBVIOUS
    <3> DEFINE u == aim_kill_pending_chats(s)
               v == SetNav(u, None)
    <3>1. /\ Good(u, left.rejoin)
          /\ u.harm = {} => /\ c \in DOMAIN u.conns /\ u.conns[c].type = "nav"
                            /\ u.acct.connected => u.acct.bos # c
      BY <2>1, NavPending
    <3>2. n = SetNav(Kill(u, c), None)
      BY DEF SetNav
    <3> HIDE DEF u, n
    <3>3. n = Kill(v, c)
      BY <3>1, <3>2, NavCommutes DEF Good
    <3>4. /\ Good(v, left.rejoin) /\ Worse(u, v) /\ Same(u, v, {"acct"})
          /\ u.harm = {} => /\ v.acct.nav = None /\ v.acct.bos = u.acct.bos
                            /\ v.acct.connected = u.acct.connected
      BY <3>1, NavGood
    <3> HIDE DEF v
    <3>5. c # None
      BY <2>2, NoAddress
    <3>6. v.harm = u.harm /\ v.conns = u.conns
      BY <3>4 DEF Same
    <3>7. v.harm = {} => /\ c \in DOMAIN v.conns /\ v.conns[c].type # "chat"
                         /\ v.acct.connected => v.acct.bos # c
                         /\ v.acct.nav # c
      BY <3>1, <3>4, <3>5, <3>6
    <3> QED BY <3>3, <3>4, <3>7, KillGood
  <2>6. type = "auth" => Good(s, left.rejoin)
    <3>1. type = "auth" /\ Now.acct.connected => Now.acct.bos # c
      BY <2>1, <2>2 DEF Online
    <3> QED BY <2>1, <3>1, DelGood
  <2> HIDE DEF n, f, s, b
  <2> QED BY <1>2, <2>2, <2>3, <2>4, <2>5, <2>6 DEF Types
<1> HIDE DEF S
<1>3. LeftOK' /\ left'.rejoin = left.rejoin
  BY <1>1, LeftStays DEF SessInv
<1> QED BY <1>1, <1>2, <1>3, BecomesGood

-----------------------------------------------------------------------------
(* The user leaves a room, closes a window, and signs off.                 *)
LEMMA LeaveRoomStep ==
    ASSUME SessInv, NEW r \in Rooms, LeaveRoom(r)
    PROVE  SessInv'
<1> DEFINE s == Leave(Now, r)
           t == Destroy(s, r)
<1>1. Becomes({t}) /\ Quits
  BY DEF LeaveRoom
<1>2. ASSUME harm = {} PROVE Good(t, left.rejoin)
  <2>1. Good(Now, left.rejoin) /\ Now.harm = {}
    BY <1>2, NowIs DEF SessInv
  <2>2. Good(s, left.rejoin) /\ (s.harm = {} /\ Clean(s) => ~There(s, r))
    BY <2>1, LeaveGood
  <2> HIDE DEF s
  <2> QED BY <2>2, DestroyGood
<1> HIDE DEF t
<1>3. LeftOK' /\ left'.rejoin = left.rejoin
  BY <1>1, LeftStays DEF SessInv
<1> QED BY <1>1, <1>2, <1>3, BecomesGood

LEMMA CloseWindowStep ==
    ASSUME SessInv, NEW r \in Rooms, CloseWindow(r)
    PROVE  SessInv'
<1> DEFINE a == Destroy(Now, r)
           h == Harm(Now, "window")
           s == Leave(Now, r)
           b == Destroy(s, r)
           p == Past(Now, "kept", TRUE)
           d == Destroy(p, r)
           S == IF wins[r] = None THEN {a} ELSE IF wins[r] \notin DOMAIN chats THEN {h} ELSE {b, d}
<1>1. Becomes(S) /\ Quits /\ wins[r] # Shut
  BY DEF CloseWindow
<1>2. ASSUME harm = {}, NEW t \in S PROVE Good(t, left.rejoin)
  <2>1. Good(Now, left.rejoin) /\ Now.harm = {}
    BY <1>2, NowIs DEF SessInv
  <2>2. /\ Typed(Now) /\ Shown(Now) /\ Kept(Now)
        /\ Now.wins = wins /\ Now.chats = chats
    BY <2>1, NowIs DEF Good, Sound, Linked, Held
  <2>3. wins[r] = None => Good(a, left.rejoin)
    <3>1. wins[r] = None /\ Clean(Now) => ~There(Now, r)
      <4> SUFFICES ASSUME wins[r] = None, Clean(Now), NEW k \in DOMAIN chats, chats[k].room = r
                   PROVE  FALSE
        BY <2>2 DEF There
      <4>1. wins[r] = k /\ k \in Chats
        BY <2>2 DEF Kept, Typed
      <4> QED BY <4>1, NoAddress
    <3> QED BY <2>1, <3>1, DestroyGood
  <2>4. wins[r] # None => wins[r] \in DOMAIN chats
    <3>1. wins[r] # None => wins[r] \in Chats
      BY <1>1, <2>2 DEF Typed
    <3> QED BY <2>2, <3>1 DEF Shown
  <2>5. Good(b, left.rejoin)
    <3>1. Good(s, left.rejoin) /\ (s.harm = {} /\ Clean(s) => ~There(s, r))
      BY <2>1, LeaveGood
    <3> HIDE DEF s
    <3> QED BY <3>1, DestroyGood
  <2>6. Good(d, left.rejoin)
    <3>1. Good(p, left.rejoin) /\ "kept" \in p.past
      BY <2>1, PastGood
    <3> HIDE DEF p
    <3>2. ~Clean(p)
      BY <3>1 DEF Clean
    <3> QED BY <3>1, <3>2, DestroyGood
  <2> HIDE DEF a, h, b, d
  <2> QED BY <1>2, <2>3, <2>4, <2>5, <2>6
<1> HIDE DEF S
<1>3. LeftOK' /\ left'.rejoin = left.rejoin
  BY <1>1, LeftStays DEF SessInv
<1> QED BY <1>1, <1>2, <1>3, BecomesGood

LEMMA SignOffStep ==
    ASSUME SessInv, SignOff
    PROVE  SessInv'
<1> DEFINE t == Del(Now)
<1>1. Becomes({t}) /\ Quits
  BY DEF SignOff
<1>2. ASSUME harm = {} PROVE Good(t, left.rejoin)
  <2>1. Half(Now)
    BY GoodHalf DEF SessInv
  <2> QED BY <2>1, OverGood
<1> HIDE DEF t
<1>3. LeftOK' /\ left'.rejoin = left.rejoin
  BY <1>1, LeftStays DEF SessInv
<1> QED BY <1>1, <1>2, <1>3, BecomesGood

(* The clock.                                                              *)
LEMMA ReconnectStep ==
    ASSUME SessInv, Reconnect
    PROVE  SessInv'
<1> DEFINE S == pork_acct_reconnect(Now)
<1>1. Becomes(S) /\ UNCHANGED left /\ acct.disconnected /\ ~acct.reconnecting
  BY DEF Reconnect
<1>2. ASSUME harm = {}, NEW t \in S PROVE Good(t, left.rejoin)
  <2>1. Good(Now, left.rejoin) /\ Now.harm = {} /\ Now.acct = acct
    BY <1>2, NowIs DEF SessInv
  <2>2. NoLogin(Now) /\ ~Now.acct.connected
    BY <1>1, <2>1 DEF Good, Sound, Linked, OneLogin, Online
  <2>3. Parted(Now, left.rejoin)
    BY <2>1, <2>2, GoodParted
  <2> QED BY <1>2, <2>3, TryGood
<1> HIDE DEF S
<1>3. LeftOK' /\ left'.rejoin = left.rejoin
  BY <1>1, LeftStays DEF SessInv
<1> QED BY <1>1, <1>2, <1>3, BecomesGood

LEMMA TimeoutStep ==
    ASSUME SessInv, Timeout
    PROVE  SessInv'
<1> DEFINE s == aim_connect_abort(Now)
           t == pork_acct_connect_fail(s)
<1>1. Becomes({t}) /\ UNCHANGED left
  BY DEF Timeout
<1>2. ASSUME harm = {} PROVE Good(t, left.rejoin)
  <2>1. Half(Now)
    BY GoodHalf DEF SessInv
  <2>2. Parted(s, left.rejoin)
    BY <2>1, AbortParted
  <2> HIDE DEF s
  <2> QED BY <2>2, FailGood
<1> HIDE DEF t
<1>3. LeftOK' /\ left'.rejoin = left.rejoin
  BY <1>1, LeftStays DEF SessInv
<1> QED BY <1>1, <1>2, <1>3, BecomesGood

(* A minute goes by: a request whose SNAC is forgotten is still a request. *)
LEMMA AgedIs ==
    ASSUME NEW o \in Seq(Message), NEW n \in Nat
    PROVE  /\ Aged(o, n) \in Seq(Message) /\ Len(Aged(o, n)) = Len(o)
           /\ \A i \in 1 .. Len(o) : /\ Aged(o, n)[i].m = o[i].m
                                     /\ Aged(o, n)[i].room = o[i].room
<1> DEFINE old(q, b) == [q EXCEPT !.kept = @ /\ b]
<1>1. Len(o) \in Nat /\ DOMAIN o = 1 .. Len(o) /\ \A i \in 1 .. Len(o) : o[i] \in Message
  BY LenProperties, ElementOfSeq
<1>2. ASSUME NEW q \in Message, NEW b \in BOOLEAN
      PROVE  old(q, b) \in Message /\ old(q, b).m = q.m /\ old(q, b).room = q.room
  <2>1. (q.kept /\ b) \in BOOLEAN
    OBVIOUS
  <2> DEFINE v == q.kept /\ b
  <2> HIDE DEF v
  <2>2. LET x == [q EXCEPT !.kept = v] IN
        (v \in BOOLEAN => x \in Message) /\ x.m = q.m /\ x.room = q.room
    BY DEF Message
  <2> QED BY <2>1, <2>2 DEF v
<1> HIDE DEF old
<1>3. \A i \in 1 .. Len(o) : /\ old(o[i], i > n) \in Message
                             /\ old(o[i], i > n).m = o[i].m /\ old(o[i], i > n).room = o[i].room
  <2> TAKE i \in 1 .. Len(o)
  <2>1. (i > n) \in BOOLEAN
    OBVIOUS
  <2> QED BY <1>1, <1>2, <2>1
<1>4. Aged(o, n) = [i \in 1 .. Len(o) |-> old(o[i], i > n)]
  BY <1>1 DEF Aged, old
<1>5. Aged(o, n) \in [1 .. Len(o) -> Message]
  BY <1>3, <1>4
<1>6. Aged(o, n) \in Seq(Message) /\ Len(Aged(o, n)) = Len(o)
  <2> HIDE DEF Aged
  <2> QED BY <1>1, <1>5
<1> QED BY <1>3, <1>4, <1>6

LEMMA UpdateStep ==
    ASSUME SessInv, NEW c \in DOMAIN conns, NEW n \in 1 .. 2, aim_acct_update(c, n)
    PROVE  SessInv'
<1> DEFINE e == Aged(conns[c].owes, n)
           t == SetOwes(Now, c, e)
           shift == [d \in Conns |-> 0]
<1>1. Becomes({t}) /\ left.minutes > 0 /\ left' = [left EXCEPT !.minutes = @ - 1]
  BY NowIs DEF aim_acct_update, SetOwes
<1>2. ASSUME harm = {} PROVE Good(t, left.rejoin)
  <2>1. /\ Good(Now, left.rejoin) /\ Now.harm = {} /\ c \in DOMAIN Now.conns /\ Now.conns = conns
    BY <1>2, NowIs DEF SessInv
  <2>2. /\ Shape(Now) /\ Typed(Now) /\ Asked(Now)
        /\ conns[c].owes \in Seq(Message) /\ Len(Now.acct.pend) \in Nat
    BY <2>1, OwesTyped DEF Good, Sound
  <2>3. /\ e \in Seq(Message) /\ Len(e) = Len(conns[c].owes)
        /\ \A i \in 1 .. Len(conns[c].owes) : /\ e[i].m = conns[c].owes[i].m
                                              /\ e[i].room = conns[c].owes[i].room
    BY <2>2, AgedIs
  <2> HIDE DEF e
  <2>4. Owing(Now, t, c, e)
    BY <2>2, OwingIs
  <2> HIDE DEF t
  <2>5. /\ t.acct = Now.acct /\ t.src = Now.src /\ t.chats = Now.chats /\ Now.past \subseteq t.past
        /\ DOMAIN t.conns = DOMAIN conns /\ t.conns[c].owes = e
        /\ t.conns[c].type = conns[c].type
        /\ \A d \in DOMAIN conns : d # c => t.conns[d] = conns[d]
    <3>1. /\ Same(Now, t, {"conns"}) /\ Now.past \subseteq t.past
          /\ DOMAIN t.conns = DOMAIN Now.conns /\ t.conns[c].owes = e
          /\ t.conns[c].type = Now.conns[c].type
          /\ \A d \in DOMAIN Now.conns : d # c => t.conns[d] = Now.conns[d]
      BY <2>1, <2>2, <2>4 DEF Owing, Worse
    <3> QED BY <2>1, <3>1 DEF Same
  <2>6. DOMAIN conns \subseteq Conns
    BY <2>1, <2>2 DEF Typed
  <2>7. Fewer(Now, t, shift)
    <3>1. \A d \in DOMAIN t.conns : \A i \in Numbers(t, d) :
             /\ d \in DOMAIN Now.conns /\ t.conns[d].type = Now.conns[d].type
             /\ t.src[d] # "none" => Now.src[d] # "none"
             /\ shift[d] \in Nat /\ i + shift[d] \in Numbers(Now, d)
             /\ t.conns[d].owes[i].m = Now.conns[d].owes[i + shift[d]].m
             /\ t.conns[d].owes[i].room = Now.conns[d].owes[i + shift[d]].room
      <4> TAKE d \in DOMAIN t.conns
      <4> TAKE i \in Numbers(t, d)
      <4>1. d \in Conns /\ shift[d] = 0
        BY <2>5, <2>6
      <4> HIDE DEF shift
      <4>2. i \in Nat /\ i + 0 = i
        <5>1. \A x : x \in 1 .. Len(t.conns[d].owes) => x \in Nat /\ x + 0 = x
          OBVIOUS
        <5> QED BY <5>1 DEF Numbers
      <4>3. i \in Numbers(Now, d)
        BY <2>1, <2>3, <2>5 DEF Numbers
      <4> QED BY <2>1, <2>3, <2>5, <4>1, <4>2, <4>3 DEF Numbers
    <3> QED BY <2>2, <2>5, <3>1 DEF Fewer
  <2>8. Asked(t)
    BY <2>2, <2>7, AskedFewer
  <2> QED BY <2>1, <2>3, <2>8, SetOwesGood DEF t
<1> HIDE DEF t
<1>3. LeftOK' /\ left'.rejoin = left.rejoin
  BY <1>1 DEF SessInv, LeftOK
<1> QED BY <1>1, <1>2, <1>3, BecomesGood

-----------------------------------------------------------------------------
(* The user asks for a room.                                               *)
LEMMA OpenedGood ==
    ASSUME NEW s, NEW rejoin, Good(s, rejoin), s.harm = {}, NEW r \in Rooms
    PROVE  LET t == SetWin(s, r, IF s.wins[r] = Shut THEN None ELSE s.wins[r]) IN
           Good(t, rejoin) /\ Same(s, t, {"wins"})
<1> DEFINE v == IF s.wins[r] = Shut THEN None ELSE s.wins[r]
           t == SetWin(s, r, v)
<1>1. Shape(s) /\ Typed(s) /\ Asked(s) /\ Linked(s) /\ Awake(s, rejoin) /\ Shown(s) /\ Kept(s)
  BY DEF Good, Sound, Linked, Held
<1>2. v \in Chats \cup {Shut, None} /\ (v \in Chats => v = s.wins[r])
      /\ (s.wins[r] \in Chats => v = s.wins[r])
  <2>1. s.wins[r] \in Chats \cup {Shut, None}
    BY <1>1 DEF Typed
  <2> QED BY <2>1, NoAddress
<1> HIDE DEF v
<1>3. /\ Shape(t) /\ Same(s, t, {"wins"}) /\ Typed(t)
      /\ \A x \in Rooms : t.wins[x] = IF x = r THEN v ELSE s.wins[x]
  BY <1>1, <1>2, WinIs
<1> HIDE DEF t
<1>4. /\ t.acct = s.acct /\ t.conns = s.conns /\ t.src = s.src /\ t.list = s.list
      /\ t.chats = s.chats /\ t.harm = {} /\ t.past = s.past
  BY <1>3 DEF Same
<1>5. Asked(t)
  BY <1>1, <1>3, <1>4, AskedSub
<1>6. Matched(t) /\ OneLogin(t) /\ Online(t) /\ NavKnown(t) /\ GivenUp(t)
  <2>1. Matched(t) /\ OneLogin(t)
    BY <1>1, <1>4 DEF Linked, Matched, OneLogin, NoLogin, Logs
  <2>2. Online(t) /\ NavKnown(t) /\ GivenUp(t)
    BY <1>1, <1>4 DEF Linked, Online, NavKnown, GivenUp
  <2> QED BY <2>1, <2>2
<1>7. Listed(t) /\ Paired(t) /\ Awake(t, rejoin)
  <2>1. Listed(s) /\ Paired(s)
    BY <1>1 DEF Linked, Held
  <2>2. Listed(t)
    BY <1>4, <2>1 DEF Listed
  <2>3. Paired(t)
    BY <1>4, <2>1, PairedMoved
  <2> QED BY <1>1, <1>4, <2>2, <2>3 DEF Awake, Clean
<1>8. Shown(t)
  <2> SUFFICES ASSUME NEW x \in Rooms, t.wins[x] \in Chats
               PROVE  t.wins[x] \in DOMAIN t.chats /\ t.chats[t.wins[x]].room = x
    BY DEF Shown
  <2>1. t.wins[x] = s.wins[x]
    BY <1>2, <1>3
  <2> QED BY <1>1, <1>4, <2>1 DEF Shown
<1>9. Kept(t)
  <2> SUFFICES ASSUME Clean(t), NEW k \in DOMAIN t.chats
               PROVE  t.chats[k].data /\ t.chats[k].win /\ t.wins[t.chats[k].room] = k
    BY DEF Kept
  <2>1. s.chats[k].data /\ s.chats[k].win /\ s.wins[s.chats[k].room] = k
    BY <1>1, <1>4 DEF Kept, Clean
  <2>2. k \in Chats /\ s.chats[k].room \in Rooms
    BY <1>1, <1>4 DEF Typed, Chat
  <2>3. t.wins[s.chats[k].room] = s.wins[s.chats[k].room]
    BY <1>2, <1>3, <2>1, <2>2
  <2> QED BY <1>4, <2>1, <2>3
<1> QED BY <1>3, <1>4, <1>5, <1>6, <1>7, <1>8, <1>9 DEF Good, Sound, Linked, Held, t, v

LEMMA JoinedGood ==
    ASSUME NEW s, NEW rejoin, Good(s, rejoin), s.harm = {}, s.acct.connected, NEW r \in Rooms,
           Clean(s) => Idle(s, r)
    PROVE  Good(Joined(s, r), rejoin)
<1> DEFINE h == Harm(s, "freed")
           l == <<r>> \o s.acct.pend
           a == PendAcct(s.acct, l)
           t == [s EXCEPT !.acct = a]
           x == Ask(t, s.acct.bos, "bos", "nav", None)
           y == Ask(s, s.acct.nav, "nav", "created", r)
           old == IF FindsFreed(s, r) THEN h ELSE s
           new == IF s.acct.nav = None THEN x ELSE y
<1>1. Joined(s, r) = IF Found(s, r) # None THEN old ELSE new
  BY DEF Joined, PendAcct
<1>2. /\ Shape(s) /\ Typed(s) /\ Asked(s) /\ Linked(s) /\ Awake(s, rejoin) /\ s.acct \in Account
      /\ Online(s) /\ NavKnown(s) /\ GivenUp(s) /\ Held(s) /\ Kept(s)
  BY DEF Good, Sound, Typed, Linked, Held
<1>3. ~Clean(s) => Excused(s)
  BY DEF Clean, Excused, Ways
<1>4. /\ Found(s, r) = None => ~There(s, r)
      /\ Found(s, r) # None => Found(s, r) \in DOMAIN s.chats
  BY <1>2, FoundIs
<1>5. Found(s, r) # None => Good(old, rejoin)
  <2>1. Found(s, r) # None /\ FindsFreed(s, r) => Excused(s)
    BY <1>2, <1>3, <1>4 DEF Kept, FindsFreed
  <2>2. Excused(s) => Good(h, rejoin)
    BY <1>2, HarmIs
  <2> HIDE DEF h
  <2> QED BY <2>1, <2>2
<1>6. Found(s, r) = None /\ s.acct.nav # None => Good(y, rejoin)
  <2> SUFFICES ASSUME Found(s, r) = None, s.acct.nav # None PROVE Good(y, rejoin)
    OBVIOUS
  <2> DEFINE c == s.acct.nav
             q == [m |-> "created", room |-> r, kept |-> TRUE]
  <2>1. (c \in DOMAIN s.conns => s.conns[c].type # "nav") => Excused(s)
    BY <1>2 DEF NavKnown, Excused, Ways
  <2>2. s.conns[c].type = "nav" => Proper(s, c, q)
    BY DEF Proper, MayOwe
  <2>3. Clean(s) => Idle(s, r) /\ ~There(s, r)
    BY <1>4
  <2>4. "created" \in Words
    BY DEF Words
  <2> HIDE DEF c
  <2>5. Good(Ask(s, c, "nav", "created", r), rejoin)
    BY <2>1, <2>2, <2>3, <2>4, AskGood
  <2> QED BY <2>5 DEF c
<1>7. Found(s, r) = None => Good(x, rejoin)
  <2> SUFFICES ASSUME Found(s, r) = None PROVE Good(x, rejoin)
    OBVIOUS
  <2>1. /\ s.acct.pend \in Seq(Rooms) /\ Len(s.acct.pend) \in Nat
    BY <1>2, LenProperties DEF Account
  <2>2. /\ l \in Seq(Rooms) /\ Len(l) = Len(s.acct.pend) + 1 /\ l[1] = r
        /\ \A i \in 1 .. Len(s.acct.pend) : l[i + 1] = s.acct.pend[i]
    BY <2>1
  <2> HIDE DEF l
  <2>3. /\ a \in Account /\ a.pend = l /\ a.nav = s.acct.nav /\ a.bos = s.acct.bos
        /\ a.dangling = s.acct.dangling /\ a.connected = s.acct.connected
        /\ a.disconnected = s.acct.disconnected /\ a.reconnecting = s.acct.reconnecting
    BY <1>2, <2>2, PendIs
  <2> HIDE DEF a
  <2>4. Shape(t) /\ t.acct = a /\ Same(s, t, {"acct"}) /\ Typed(t)
    BY <1>2, <2>3, AccountIs
  <2> HIDE DEF t
  <2>5. /\ t.conns = s.conns /\ t.src = s.src /\ t.list = s.list /\ t.chats = s.chats
        /\ t.wins = s.wins /\ t.harm = {} /\ t.past = s.past
    BY <2>4 DEF Same
  <2>6. Asked(t)
    <3>1. Clean(t) => Idle(s, r) /\ ~There(s, r)
      BY <1>4, <2>5 DEF Clean
    <3>2. /\ Len(t.acct.pend) = Len(s.acct.pend) + 1 /\ t.acct.pend[1] = r
          /\ \A i \in 1 .. Len(s.acct.pend) : t.acct.pend[i + 1] = s.acct.pend[i]
          /\ t.acct.bos = s.acct.bos /\ t.acct.connected = s.acct.connected
          /\ s.past \subseteq t.past
      BY <2>2, <2>3, <2>4, <2>5
    <3> QED BY <1>2, <2>1, <2>5, <3>1, <3>2, AskedPend
  <2>7. GivenUp(t)
    BY <1>2, <2>3, <2>4, <2>5 DEF GivenUp
  <2>8. Unmoved(s, t)
    BY <2>3, <2>4, <2>5, <2>7 DEF Unmoved
  <2>9. Linked(t) /\ Awake(t, rejoin)
    BY <1>2, <2>8, LinkedUnmoved
  <2>10. Good(t, rejoin)
    BY <2>4, <2>5, <2>6, <2>9 DEF Good, Sound
  <2> DEFINE c == s.acct.bos
             q == [m |-> "nav", room |-> None, kept |-> TRUE]
  <2>11. c \in DOMAIN t.conns /\ t.conns[c].type = "bos"
    BY <1>2, <2>3, <2>4, <2>5 DEF Online
  <2>12. Proper(t, c, q) /\ ~Joins(q)
    BY <2>3, <2>4, <1>2, <2>11 DEF Proper, MayOwe, Joins
  <2>13. "nav" \in Words
    BY DEF Words
  <2> HIDE DEF c
  <2>14. Good(Ask(t, c, "bos", "nav", None), rejoin)
    BY <2>5, <2>10, <2>11, <2>12, <2>13, AskGood
  <2> QED BY <2>14 DEF c
<1> HIDE DEF x, y, old
<1> QED BY <1>1, <1>5, <1>6, <1>7

LEMMA JoinStep ==
    ASSUME SessInv, NEW r \in Rooms, Join(r)
    PROVE  SessInv'
<1> DEFINE p == Past(Now, "twice", Requested(r))
           u == SetWin(p, r, IF p.wins[r] = Shut THEN None ELSE p.wins[r])
           t == Joined(u, r)
<1>1. /\ Becomes({t}) /\ acct.connected
      /\ left.joins > 0 /\ left' = [left EXCEPT !.joins = @ - 1]
  BY DEF Join, SetWin
<1>2. ASSUME harm = {} PROVE Good(t, left.rejoin)
  <2>1. Good(Now, left.rejoin) /\ Now.harm = {} /\ Now.acct = acct /\ Now.conns = conns
    BY <1>2, NowIs DEF SessInv
  <2>2. /\ Good(p, left.rejoin) /\ Same(Now, p, {"past"})
        /\ Requested(r) => "twice" \in p.past
    BY <2>1, PastGood
  <2> HIDE DEF p
  <2>3. p.harm = {} /\ p.acct = acct /\ p.conns = conns
    BY <2>1, <2>2 DEF Same
  <2>4. Good(u, left.rejoin) /\ Same(p, u, {"wins"})
    BY <2>2, <2>3, OpenedGood
  <2> HIDE DEF u
  <2>5. u.harm = {} /\ u.acct = acct /\ u.conns = conns /\ u.past = p.past
    BY <2>3, <2>4 DEF Same
  <2>6. ~Requested(r) => Idle(u, r)
    <3> SUFFICES ASSUME ~Requested(r) PROVE Idle(u, r)
      OBVIOUS
    <3>1. Typed(Now)
      BY <2>1 DEF Good, Sound
    <3>2. ASSUME NEW i \in 1 .. Len(acct.pend) PROVE acct.pend[i] # r
      <4>1. acct.pend \in Seq(Rooms)
        BY <2>1, <3>1 DEF Typed, Account
      <4>2. i \in DOMAIN acct.pend
        BY <4>1
      <4> QED BY <4>2 DEF Requested, Range
    <3>3. ASSUME NEW c \in DOMAIN conns, NEW i \in Numbers(u, c) PROVE ~Asks(u, c, i, r)
      <4>1. conns[c].owes \in Seq(Message)
        BY <2>1, <3>1, OwesTyped
      <4>2. i \in DOMAIN conns[c].owes
        BY <2>5, <4>1 DEF Numbers
      <4> QED BY <2>5, <4>2 DEF Requested, Asks
    <3> QED BY <2>5, <3>2, <3>3 DEF Idle
  <2>7. Clean(u) => Idle(u, r)
    BY <2>2, <2>5, <2>6 DEF Clean
  <2> QED BY <1>1, <2>4, <2>5, <2>7, JoinedGood
<1> HIDE DEF t
<1>3. LeftOK' /\ left'.rejoin = left.rejoin
  BY <1>1 DEF SessInv, LeftOK
<1> QED BY <1>1, <1>2, <1>3, BecomesGood

-----------------------------------------------------------------------------
(* Every step leads from a good state to a good state.                     *)
LEMMA StepInv ==
    ASSUME SessInv, [Next]_vars
    PROVE  SessInv'
<1>1. ASSUME NEW c \in DOMAIN conns, Serve(c) PROVE SessInv'
  <2>1. CASE aim_parse_login(c) \/ hostonline(c) \/ hostversions(c) \/ aim_recv_conn_complete(c)
    BY <2>1, HandShakeStep
  <2>2. CASE aim_parse_authresp(c)
    BY <2>2, AuthStep
  <2>3. CASE aim_parse_authresp_error(c)
    BY <2>3, AuthErrorStep
  <2>4. CASE recv_chatnav_conn(c)
    BY <2>4, NavStep
  <2>5. CASE recv_chat_conn(c)
    BY <2>5, ChatStep
  <2>6. CASE aim_recv_bos_rights(c)
    BY <2>6, RightsStep
  <2>7. CASE aim_ssi_recv_list(c)
    BY <2>7, ListStep
  <2>8. CASE aim_recv_chatnav_info(c)
    BY <2>8, InfoStep
  <2>9. CASE aim_chat_join(c)
    BY <2>9, JoinedStep
  <2>10. CASE RedirectChatnav(c)
    BY <2>10, RedirectChatnavStep
  <2>11. CASE RedirectChat(c)
    BY <2>11, RedirectChatStep
  <2>12. CASE RedirectFails(c)
    BY <2>12, RedirectFailsStep
  <2> QED BY <1>1, <2>1, <2>2, <2>3, <2>4, <2>5, <2>6, <2>7, <2>8, <2>9, <2>10, <2>11, <2>12
          DEF Serve
<1>2. ASSUME NEW c \in DOMAIN conns, Network(c) PROVE SessInv'
  BY <1>2, ConnectOkStep, ConnectFailsStep, HangUpStep, ChatLeaveStep DEF Network
<1>3. ASSUME User PROVE SessInv'
  BY <1>3, JoinStep, LeaveRoomStep, CloseWindowStep, SignOffStep DEF User
<1>4. ASSUME Clock PROVE SessInv'
  BY <1>4, ReconnectStep, TimeoutStep, UpdateStep DEF Clock
<1>5. ASSUME UNCHANGED vars PROVE SessInv'
  <2>1. Now' = Now /\ left' = left
    BY <1>5 DEF vars, Now
  <2> QED BY <2>1 DEF SessInv, LeftOK
<1> QED BY <1>1, <1>2, <1>3, <1>4, <1>5, DeadStep DEF Next

(* The first connection is dialled by an account that has nothing.         *)
LEMMA InitInv ==
    ASSUME Init
    PROVE  SessInv
<1> DEFINE none == <<>>
           f == [c \in Conns |-> "none"]
           s == [acct |-> acct, conns |-> none, src |-> f, list |-> chat_list, chats |-> chats,
                 wins |-> wins, harm |-> harm, past |-> past]
<1>1. /\ acct = Acct(TRUE) /\ chat_list = none /\ chats = none /\ harm = {} /\ past = {}
      /\ wins = [r \in Rooms |-> Shut] /\ left \in Plays
  BY DEF Init
<1>2. PICK t \in Dial(s, "auth") : conns = t.conns /\ src = t.src
  BY DEF Init
<1>3. DOMAIN none = {} /\ Len(none) = 0 /\ none \in Seq(Rooms) /\ none \in Seq(Chats)
  OBVIOUS
<1>4. f \in [Conns -> {"none", "connected", "event", "dead"}]
  OBVIOUS
<1>5. /\ acct \in Account /\ ~acct.connected /\ ~acct.disconnected /\ ~acct.dangling
      /\ acct.nav = None /\ acct.pend = none
  BY <1>1, <1>3 DEF Acct, Account
<1>6. wins \in [Rooms -> Chats \cup {Shut, None}] /\ \A r \in Rooms : wins[r] = Shut
  BY <1>1
<1>7. \A c \in Conns : f[c] = "none"
  OBVIOUS
<1> HIDE DEF none, f
<1>8. /\ Shape(s) /\ s.acct = acct /\ s.conns = none /\ s.src = f /\ s.list = chat_list
      /\ s.chats = chats /\ s.wins = wins /\ s.harm = harm /\ s.past = past
  BY DEF Shape
<1> HIDE DEF s
<1>9. Typed(s)
  BY <1>1, <1>3, <1>4, <1>5, <1>6, <1>8 DEF Typed
<1>10. Asked(s)
  <2>1. DOMAIN s.conns = {} /\ DOMAIN s.chats = {} /\ 1 .. Len(s.acct.pend) = {}
    <3>1. Len(s.acct.pend) = 0
      BY <1>3, <1>5, <1>8
    <3>2. 1 .. Len(s.acct.pend) = {}
      BY <3>1
    <3>3. DOMAIN s.conns = DOMAIN none /\ DOMAIN s.chats = DOMAIN none
      BY <1>1, <1>8
    <3> QED BY <1>3, <3>2, <3>3
  <2>2. Owed(s)
    BY <2>1 DEF Owed
  <2>3. Once(s)
    BY <2>1 DEF Once
  <2> QED BY <2>2, <2>3 DEF Asked
<1>11. Matched(s) /\ NoLogin(s) /\ OneLogin(s) /\ Online(s) /\ NavKnown(s) /\ GivenUp(s)
  BY <1>3, <1>5, <1>7, <1>8 DEF Matched, NoLogin, OneLogin, Online, NavKnown, GivenUp
<1>12. Held(s) /\ Awake(s, left.rejoin)
  <2>1. Shown(s)
    BY <1>6, <1>8, NoAddress DEF Shown
  <2>2. Listed(s) /\ Paired(s) /\ Kept(s) /\ Awake(s, left.rejoin)
    BY <1>1, <1>3, <1>8 DEF Listed, Paired, Kept, Awake
  <2> QED BY <2>1, <2>2 DEF Held
<1>13. Good(s, left.rejoin)
  BY <1>1, <1>8, <1>9, <1>10, <1>11, <1>12 DEF Good, Sound, Linked
<1>14. Good(t, left.rejoin)
  BY <1>2, <1>5, <1>8, <1>11, <1>13, DialGood
<1>15. Same(s, t, {"conns", "src"})
  <2>1. PICK c \in Fresh(s) : t \in Dialled(s, c, "auth")
    BY <1>2 DEF Dial
  <2>2. c \in Conns
    BY DEF Fresh, Free
  <2> QED BY <1>8, <1>9, <2>1, <2>2, DialledIs DEF Types
<1>16. Now = t
  <2>1. /\ t.acct = acct /\ t.list = chat_list /\ t.chats = chats /\ t.wins = wins
        /\ t.harm = harm /\ t.past = past
    BY <1>8, <1>15 DEF Same
  <2> QED BY <1>2, <1>14, <2>1 DEF Now, Good, Shape
<1> QED BY <1>1, <1>14, <1>16, PlaysAssumption DEF SessInv, LeftOK

(* What the property asks for.                                             *)
LEMMA InvSound ==
    ASSUME SessInv
    PROVE  LinksSound
<1>1. KnownWays
  BY NowIs DEF SessInv, Good, Excused, Ways, KnownWays
<1>2. ASSUME harm = {}
      PROVE  SourcesAgree /\ (past \cap {"lost", "twice", "kept"} = {} => RoomsLive)
  <2>1. /\ Typed(Now) /\ Matched(Now) /\ OneLogin(Now) /\ Online(Now) /\ Paired(Now)
        /\ Shown(Now) /\ Kept(Now) /\ Awake(Now, left.rejoin)
    BY <1>2, NowIs DEF SessInv, Good, Sound, Linked, Held
  <2>2. ASSUME NEW c \in Conns, src[c] # "none"
        PROVE  c \in DOMAIN conns /\ conns[c].status = Kinds[src[c]]
    <3>1. src[c] \in {"connected", "event", "dead"}
      BY <2>1, <2>2, NowIs DEF Typed
    <3>2. /\ Kinds["connected"] = "inprogress" /\ Kinds["event"] = "up"
          /\ Kinds["dead"] = "closed"
      BY DEF Kinds
    <3> QED BY <2>1, <2>2, <3>1, <3>2, NowIs DEF Matched
  <2>3. ASSUME acct.connected
        PROVE  {c \in DOMAIN conns : conns[c].type = "bos" /\ src[c] # "none"} = {acct.bos}
    <3>1. /\ acct.bos \in DOMAIN conns /\ conns[acct.bos].type = "bos"
          /\ src[acct.bos] # "none"
      BY <2>1, <2>3, NowIs DEF Online
    <3>2. ASSUME NEW c \in DOMAIN conns, conns[c].type = "bos", src[c] # "none"
          PROVE  c = acct.bos
      BY <2>1, <3>1, <3>2, NowIs DEF OneLogin, Logs
    <3> QED BY <3>1, <3>2
  <2>4. ASSUME past \cap {"lost", "twice", "kept"} = {}
        PROVE  RoomsLive
    <3>1. Clean(Now)
      BY <2>4, NowIs DEF Clean
    <3>2. ASSUME NEW k \in DOMAIN chats
          PROVE  /\ chats[k].conn \in DOMAIN conns /\ conns[chats[k].conn].chat = k
                 /\ wins[chats[k].room] = k
                 /\ src[chats[k].conn] = "none" => left.rejoin
      BY <2>1, <3>1, NowIs DEF Paired, Kept, Awake
    <3>3. ASSUME NEW r \in Rooms
          PROVE  wins[r] \in {Shut, None} \cup DOMAIN chats
      BY <2>1, NowIs DEF Typed, Shown
    <3>4. ASSUME NEW c \in DOMAIN conns, conns[c].type = "chat"
          PROVE  conns[c].chat \in DOMAIN chats
      BY <2>1, <3>4, NowIs DEF Paired
    <3> QED BY <3>2, <3>3, <3>4 DEF RoomsLive
  <2> QED BY <2>2, <2>3, <2>4 DEF SourcesAgree
<1> QED BY <1>1, <1>2 DEF LinksSound, SessionSound

-----------------------------------------------------------------------------
(* In every state that is reached, either nothing is undefined and the     *)
(* connections, sources, requests, rooms and windows refer to each other   *)
(* as SessInv says, or what makes it undefined is one of the known ways.   *)
(* This is about every path through pork_aim.c, pork_aim_proto.c and       *)
(* libfaim that dials, hears, loses or frees a connection.                 *)
THEOREM SessionInvariant == Spec => []SessInv
<1>1. Init => SessInv
  BY InitInv
<1>2. SessInv /\ [Next]_vars => SessInv'
  BY StepInv
<1> QED BY <1>1, <1>2, PTL DEF Spec

(* The sources of io_list, priv->bos_conn, the rooms and their windows are *)
(* sound, and freed memory or NULL is used in the known ways only, for any *)
(* number of connections and rooms and any RECONNECT_TRIES.                *)
THEOREM SessionLinks == Spec => []LinksSound
<1>1. SessInv => LinksSound
  BY InvSound
<1> QED BY <1>1, SessionInvariant, PTL
=============================================================================
