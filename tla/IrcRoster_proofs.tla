-------------------------- MODULE IrcRoster_proofs ---------------------------
(***************************************************************************)
(* Theorems of IrcRoster, for any number of nicks and streams of any       *)
(* length: what was left stays left, and the list of users is the server's *)
(* when nothing is under way.  Then a theorem of Conversations, for any    *)
(* delay, spellings and options: what is said reaches whom it should.      *)
(***************************************************************************)
EXTENDS IrcRoster, Conversations, SequenceTheorems, FiniteSetTheorems, WellFoundedInduction, TLAPS

-----------------------------------------------------------------------------
(* Sequences.                                                              *)
LEMMA MinIs ==
    ASSUME NEW T, T \subseteq Nat, T # {}
    PROVE  Min(T) \in T /\ \A y \in T : Min(T) <= y
<1>1. PICK x \in T : \A y \in T : ~(<<y, x>> \in OpToRel(<, Nat))
  BY NatLessThanWellFounded, WFMin
<1>2. ASSUME NEW y \in T PROVE x <= y
  <2>1. ~(y < x)
    BY <1>1 DEF OpToRel
  <2> QED BY <2>1
<1> QED BY <1>2 DEF Min

LEMMA RemoveAtElements ==
    ASSUME NEW S, NEW s \in Seq(S), NEW i \in 1 .. Len(s)
    PROVE  /\ RemoveAt(s, i) \in Seq(S)
           /\ Len(RemoveAt(s, i)) = Len(s) - 1
           /\ \A j \in 1 .. Len(s) - 1 :
                 RemoveAt(s, i)[j] = IF j < i THEN s[j] ELSE s[j + 1]
<1> DEFINE front == SubSeq(s, 1, i - 1)
           rest  == SubSeq(s, i + 1, Len(s))
<1>1. /\ front \in Seq(S) /\ Len(front) = i - 1
      /\ \A j \in 1 .. i - 1 : front[j] = s[j]
  BY SubSeqProperties
<1>2. /\ rest \in Seq(S) /\ Len(rest) = Len(s) - i
      /\ \A j \in 1 .. Len(s) - i : rest[j] = s[j + i]
  BY SubSeqProperties
<1>3. /\ front \o rest \in Seq(S) /\ Len(front \o rest) = Len(s) - 1
      /\ \A j \in 1 .. Len(s) - 1 :
            (front \o rest)[j] = IF j <= i - 1 THEN front[j] ELSE rest[j - (i - 1)]
  <2> HIDE DEF front, rest
  <2>1. /\ front \o rest \in Seq(S) /\ Len(front \o rest) = Len(front) + Len(rest)
        /\ \A j \in 1 .. Len(front) + Len(rest) :
              (front \o rest)[j] = IF j <= Len(front) THEN front[j] ELSE rest[j - Len(front)]
    BY <1>1, <1>2, ConcatProperties
  <2>2. Len(front) = i - 1 /\ Len(front) + Len(rest) = Len(s) - 1
    BY <1>1, <1>2, LenProperties
  <2> QED BY <2>1, <2>2
<1>4. ASSUME NEW j \in 1 .. Len(s) - 1
      PROVE  (front \o rest)[j] = IF j < i THEN s[j] ELSE s[j + 1]
  <2> HIDE DEF front, rest
  <2>1. CASE j < i
    BY <2>1, <1>1, <1>3
  <2>2. CASE ~(j < i)
    <3>1. j - (i - 1) \in 1 .. Len(s) - i /\ (j - (i - 1)) + i = j + 1
      BY <2>2
    <3> QED BY <2>2, <3>1, <1>2, <1>3
  <2> QED BY <2>1, <2>2
<1> QED BY <1>3, <1>4 DEF RemoveAt

(* A sequence behind one element.                                          *)
LEMMA Pushed ==
    ASSUME NEW S, NEW s \in Seq(S), NEW x \in S
    PROVE  /\ <<x>> \o s \in Seq(S) /\ Len(<<x>> \o s) = Len(s) + 1 /\ Len(s) \in Nat
           /\ (<<x>> \o s)[1] = x
           /\ \A i \in 1 .. Len(s) : (<<x>> \o s)[i + 1] = s[i]
<1>1. <<x>> \in Seq(S) /\ Len(<<x>>) = 1 /\ <<x>>[1] = x /\ Len(s) \in Nat
  BY LenProperties
<1>2. /\ <<x>> \o s \in Seq(S) /\ Len(<<x>> \o s) = Len(s) + 1
      /\ \A i \in 1 .. 1 + Len(s) : (<<x>> \o s)[i] = IF i <= 1 THEN <<x>>[i] ELSE s[i - 1]
  BY <1>1, ConcatProperties
<1> QED BY <1>1, <1>2

-----------------------------------------------------------------------------
(* Members with one more, one less, or one of another name.                *)
Plus(ops, n, op) == [m \in DOMAIN ops \cup {n} |-> IF m = n THEN op ELSE ops[m]]

Minus(ops, n) == [m \in DOMAIN ops \ {n} |-> ops[m]]

Renamed(ops, old, new) ==
    [m \in (DOMAIN ops \ {old}) \cup {new} |-> IF m = new THEN ops[old] ELSE ops[m]]

Ops(ops) == DOMAIN ops \subseteq Nicks /\ ops \in [DOMAIN ops -> BOOLEAN]

(* A list of users has the members, each once, with their status.          *)
Agrees(list, ops) ==
    /\ list \in Seq(User)
    /\ \A i, j \in 1 .. Len(list) : list[i].name = list[j].name => i = j
    /\ \A i \in 1 .. Len(list) : /\ list[i].name \in DOMAIN ops
                                 /\ list[i].op = ops[list[i].name]
    /\ \A n \in DOMAIN ops : \E i \in 1 .. Len(list) : list[i].name = n

LEMMA NodeIs ==
    ASSUME NEW list \in Seq(User), NEW n
    PROVE  /\ Node(list, n) \in 0 .. Len(list)
           /\ Node(list, n) # 0 => list[Node(list, n)].name = n
           /\ Node(list, n) = 0 => \A i \in 1 .. Len(list) : list[i].name # n
<1> DEFINE T == {i \in 1 .. Len(list) : list[i].name = n}
<1>1. Node(list, n) = IF T # {} THEN Min(T) ELSE 0
  BY DEF Node, SelectInSeq
<1>2. T \subseteq Nat /\ Len(list) \in Nat
  BY LenProperties
<1>3. CASE T = {}
  BY <1>1, <1>2, <1>3
<1>4. CASE T # {}
  <2>1. Min(T) \in T
    BY <1>2, <1>4, MinIs
  <2> QED BY <1>1, <1>2, <1>4, <2>1
<1> QED BY <1>3, <1>4

LEMMA EntryIs == ASSUME NEW n \in Names, NEW op \in BOOLEAN
                 PROVE  Entry(n, op) \in User /\ Entry(n, op).name = n /\ Entry(n, op).op = op
BY DEF Entry, User

LEMMA NicksAreNames == Nicks \subseteq Names
BY DEF Names

(* The node of a nick in a list that agrees with the members.              *)
LEMMA NodeOfMember ==
    ASSUME NEW list, NEW ops, Agrees(list, ops), NEW n
    PROVE  /\ chat_find_user(list, n) <=> n \in DOMAIN ops
           /\ n \in DOMAIN ops => /\ Node(list, n) \in 1 .. Len(list)
                                  /\ list[Node(list, n)].name = n
<1>1. Len(list) \in Nat /\ list \in Seq(User)
  BY LenProperties DEF Agrees
<1>2. /\ Node(list, n) \in 0 .. Len(list)
      /\ Node(list, n) # 0 => list[Node(list, n)].name = n
      /\ Node(list, n) = 0 => \A i \in 1 .. Len(list) : list[i].name # n
  BY <1>1, NodeIs
<1>3. CASE Node(list, n) = 0
  BY <1>2, <1>3 DEF chat_find_user, Agrees
<1>4. CASE Node(list, n) # 0
  BY <1>1, <1>2, <1>4 DEF chat_find_user, Agrees
<1> QED BY <1>3, <1>4

LEMMA JoinedAgrees ==
    ASSUME NEW list, NEW ops, Agrees(list, ops), NEW n \in Nicks, n \notin DOMAIN ops
    PROVE  Agrees(chat_user_joined(list, n), Plus(ops, n, FALSE))
<1> DEFINE e == Entry(n, FALSE)
           l == <<e>> \o list
           o == Plus(ops, n, FALSE)
<1>1. chat_user_joined(list, n) = l
  BY NodeOfMember DEF chat_user_joined
<1>2. e \in User /\ e.name = n /\ e.op = FALSE /\ list \in Seq(User)
  BY EntryIs, NicksAreNames DEF Agrees
<1> HIDE DEF e
<1>3. /\ l \in Seq(User) /\ Len(l) = Len(list) + 1 /\ Len(list) \in Nat
      /\ l[1] = e /\ \A i \in 1 .. Len(list) : l[i + 1] = list[i]
  BY <1>2, Pushed
<1> HIDE DEF l
<1>4. \A i \in 2 .. Len(l) : i - 1 \in 1 .. Len(list) /\ l[i] = list[i - 1]
  <2> TAKE i \in 2 .. Len(l)
  <2>1. i - 1 \in 1 .. Len(list) /\ (i - 1) + 1 = i
    BY <1>3
  <2> QED BY <1>3, <2>1
<1>5. /\ DOMAIN o = DOMAIN ops \cup {n} /\ o[n] = FALSE
      /\ \A m \in DOMAIN ops : o[m] = ops[m]
  BY DEF Plus
<1> HIDE DEF o
<1>6. \A i \in 2 .. Len(l) : l[i].name \in DOMAIN ops /\ l[i].op = ops[l[i].name]
  BY <1>4 DEF Agrees
<1>7. ASSUME NEW i \in 1 .. Len(l), NEW j \in 1 .. Len(l), l[i].name = l[j].name
      PROVE  i = j
  <2>1. CASE i = 1 \/ j = 1
    BY <1>2, <1>3, <1>6, <1>7, <2>1
  <2>2. CASE i # 1 /\ j # 1
    <3>1. i \in 2 .. Len(l) /\ j \in 2 .. Len(l)
      BY <1>3, <2>2
    <3>2. /\ i - 1 \in 1 .. Len(list) /\ j - 1 \in 1 .. Len(list)
          /\ list[i - 1].name = list[j - 1].name
      BY <1>4, <1>7, <3>1
    <3>3. i - 1 = j - 1
      BY <3>2, Zenon DEF Agrees
    <3> QED BY <1>3, <3>1, <3>3
  <2> QED BY <2>1, <2>2
<1>8. ASSUME NEW i \in 1 .. Len(l) PROVE l[i].name \in DOMAIN o /\ l[i].op = o[l[i].name]
  <2>1. CASE i = 1
    BY <1>2, <1>3, <1>5, <2>1
  <2>2. CASE i # 1
    <3>1. i \in 2 .. Len(l)
      BY <1>3, <2>2
    <3> QED BY <1>5, <1>6, <3>1
  <2> QED BY <2>1, <2>2
<1>9. ASSUME NEW m \in DOMAIN o PROVE \E i \in 1 .. Len(l) : l[i].name = m
  <2>1. CASE m = n
    BY <1>2, <1>3, <2>1
  <2>2. CASE m # n
    <3>1. PICK i \in 1 .. Len(list) : list[i].name = m
      BY <1>5, <2>2 DEF Agrees
    <3>2. i + 1 \in 1 .. Len(l) /\ l[i + 1].name = m
      BY <1>3, <3>1
    <3> QED BY <3>2
  <2> QED BY <2>1, <2>2
<1>10. Agrees(l, o)
  BY <1>3, <1>7, <1>8, <1>9 DEF Agrees
<1> QED BY <1>1, <1>10 DEF o, l, e

LEMMA UnlistedAgrees ==
    ASSUME NEW list, NEW ops, Agrees(list, ops), NEW n \in DOMAIN ops
    PROVE  Agrees(Unlisted(list, n), Minus(ops, n)) /\ ~chat_find_user(Unlisted(list, n), n)
<1> DEFINE k == Node(list, n)
           l == RemoveAt(list, k)
           o == Minus(ops, n)
<1>1. k \in 1 .. Len(list) /\ list[k].name = n /\ Unlisted(list, n) = l
  BY NodeOfMember DEF Unlisted
<1>2. list \in Seq(User) /\ Len(list) \in Nat
  BY LenProperties DEF Agrees
<1> HIDE DEF k
<1>3. /\ l \in Seq(User) /\ Len(l) = Len(list) - 1
      /\ \A j \in 1 .. Len(list) - 1 : l[j] = IF j < k THEN list[j] ELSE list[j + 1]
  BY <1>1, <1>2, RemoveAtElements
<1> HIDE DEF l
<1> DEFINE Old(j) == IF j < k THEN j ELSE j + 1
<1>4. \A j \in 1 .. Len(l) : Old(j) \in 1 .. Len(list) /\ Old(j) # k /\ l[j] = list[Old(j)]
  BY <1>1, <1>2, <1>3
<1>5. \A i \in 1 .. Len(list) : i # k => \E j \in 1 .. Len(l) : Old(j) = i
  <2> TAKE i \in 1 .. Len(list)
  <2>1. CASE i < k
    <3>1. i \in 1 .. Len(l) /\ Old(i) = i
      BY <1>1, <1>2, <1>3, <2>1
    <3> QED BY <3>1
  <2>2. CASE i > k
    <3>1. i - 1 \in 1 .. Len(l) /\ Old(i - 1) = i
      BY <1>1, <1>2, <1>3, <2>2
    <3> QED BY <3>1
  <2> QED BY <1>1, <1>2, <2>1, <2>2
<1>6. \A i, j \in 1 .. Len(l) : Old(i) = Old(j) => i = j
  BY <1>1, <1>2, <1>3
<1> HIDE DEF Old
<1>7. DOMAIN o = DOMAIN ops \ {n} /\ \A m \in DOMAIN o : o[m] = ops[m]
  BY DEF Minus
<1> HIDE DEF o
<1>8. ASSUME NEW i \in 1 .. Len(l), NEW j \in 1 .. Len(l), l[i].name = l[j].name
      PROVE  i = j
  <2>1. /\ Old(i) \in 1 .. Len(list) /\ Old(j) \in 1 .. Len(list)
        /\ list[Old(i)].name = list[Old(j)].name
    BY <1>4, <1>8
  <2>2. Old(i) = Old(j)
    BY <2>1, Zenon DEF Agrees
  <2> QED BY <1>6, <2>2
<1>9. ASSUME NEW i \in 1 .. Len(l) PROVE l[i].name \in DOMAIN o /\ l[i].op = o[l[i].name]
  <2>1. Old(i) \in 1 .. Len(list) /\ Old(i) # k /\ l[i] = list[Old(i)]
    BY <1>4
  <2>2. list[Old(i)].name \in DOMAIN ops /\ list[Old(i)].op = ops[list[Old(i)].name]
    BY <2>1, Zenon DEF Agrees
  <2>3. list[Old(i)].name # n
    BY <1>1, <2>1, Zenon DEF Agrees
  <2> QED BY <1>7, <2>1, <2>2, <2>3
<1>10. ASSUME NEW m \in DOMAIN o PROVE \E i \in 1 .. Len(l) : l[i].name = m
  <2>1. PICK i \in 1 .. Len(list) : list[i].name = m
    BY <1>7 DEF Agrees
  <2>2. i # k
    BY <1>1, <1>7, <2>1
  <2> QED BY <1>4, <1>5, <2>1, <2>2
<1>11. Agrees(l, o)
  BY <1>3, <1>8, <1>9, <1>10 DEF Agrees
<1>12. n \notin DOMAIN o
  BY <1>7
<1>13. ~chat_find_user(l, n)
  BY <1>11, <1>12, NodeOfMember
<1> QED BY <1>1, <1>11, <1>13 DEF o, k, l

LEMMA RenamedAgrees ==
    ASSUME NEW list, NEW ops, Agrees(list, ops), NEW old \in DOMAIN ops,
           NEW new \in Nicks, new \notin DOMAIN ops
    PROVE  Agrees(chat_nick_change(list, old, new), Renamed(ops, old, new))
<1> DEFINE k == Node(list, old)
           l == [list EXCEPT ![k].name = new]
           o == Renamed(ops, old, new)
<1>1. k \in 1 .. Len(list) /\ list[k].name = old /\ chat_nick_change(list, old, new) = l
  BY NodeOfMember DEF chat_nick_change
<1>2. list \in Seq(User) /\ Len(list) \in Nat
  BY LenProperties DEF Agrees
<1> HIDE DEF k
<1>3. /\ l \in Seq(User) /\ Len(l) = Len(list)
      /\ \A i \in 1 .. Len(list) : i # k => l[i] = list[i]
      /\ l[k].name = new /\ l[k].op = list[k].op
  <2>1. list[k] \in User /\ new \in Names
    BY <1>1, <1>2, NicksAreNames, ElementOfSeq
  <2>2. /\ [list[k] EXCEPT !.name = new] \in User
        /\ [list[k] EXCEPT !.name = new].name = new
        /\ [list[k] EXCEPT !.name = new].op = list[k].op
    BY <2>1 DEF User
  <2> DEFINE u == [list[k] EXCEPT !.name = new]
  <2>3. l = [list EXCEPT ![k] = u]
    OBVIOUS
  <2> HIDE DEF u, l
  <2>4. l \in Seq(User) /\ Len(l) = Len(list) /\ l[k] = u /\ \A i \in 1 .. Len(list) : i # k => l[i] = list[i]
    BY <1>1, <1>2, <2>2, <2>3, ExceptSeq DEF u
  <2> QED BY <2>2, <2>4 DEF u
<1> HIDE DEF l
<1>4. /\ DOMAIN o = (DOMAIN ops \ {old}) \cup {new} /\ o[new] = ops[old]
      /\ \A m \in DOMAIN ops : m # old => o[m] = ops[m]
  BY DEF Renamed
<1> HIDE DEF o
<1>5. \A i \in 1 .. Len(list) : i # k => l[i].name \in DOMAIN ops /\ l[i].name # old
                                         /\ l[i].op = ops[l[i].name]
  <2> SUFFICES ASSUME NEW i \in 1 .. Len(list), i # k
               PROVE  l[i].name \in DOMAIN ops /\ l[i].name # old
                      /\ l[i].op = ops[l[i].name]
    OBVIOUS
  <2>1. l[i] = list[i]
    BY <1>3
  <2>2. list[i].name \in DOMAIN ops /\ list[i].op = ops[list[i].name]
    BY Zenon DEF Agrees
  <2>3. list[i].name # list[k].name
    BY <1>1, Zenon DEF Agrees
  <2> QED BY <1>1, <2>1, <2>2, <2>3
<1>6. list[k].op = ops[old]
  BY <1>1 DEF Agrees
<1>7. ASSUME NEW i \in 1 .. Len(l), NEW j \in 1 .. Len(l), l[i].name = l[j].name
      PROVE  i = j
  <2>1. CASE i = k \/ j = k
    BY <1>3, <1>5, <1>7, <2>1
  <2>2. CASE i # k /\ j # k
    <3>1. i \in 1 .. Len(list) /\ j \in 1 .. Len(list) /\ list[i].name = list[j].name
      BY <1>3, <1>7, <2>2
    <3> QED BY <3>1, Zenon DEF Agrees
  <2> QED BY <2>1, <2>2
<1>8. ASSUME NEW i \in 1 .. Len(l) PROVE l[i].name \in DOMAIN o /\ l[i].op = o[l[i].name]
  <2>1. CASE i = k
    BY <1>3, <1>4, <1>6, <2>1
  <2>2. CASE i # k
    <3>1. l[i].name \in DOMAIN ops /\ l[i].name # old /\ l[i].op = ops[l[i].name]
      BY <1>3, <1>5, <2>2
    <3> QED BY <1>4, <3>1
  <2> QED BY <2>1, <2>2
<1>9. ASSUME NEW m \in DOMAIN o PROVE \E i \in 1 .. Len(l) : l[i].name = m
  <2>1. CASE m = new
    BY <1>1, <1>3, <2>1
  <2>2. CASE m # new
    <3>1. m \in DOMAIN ops /\ m # old
      BY <1>4, <2>2
    <3>2. PICK i \in 1 .. Len(list) : list[i].name = m
      BY <3>1 DEF Agrees
    <3>3. i # k
      BY <1>1, <3>1, <3>2
    <3> QED BY <1>3, <3>2, <3>3
  <2> QED BY <2>1, <2>2
<1>10. Agrees(l, o)
  BY <1>3, <1>7, <1>8, <1>9 DEF Agrees
<1> QED BY <1>1, <1>10 DEF o, l, k

LEMMA ModeAgrees ==
    ASSUME NEW list, NEW ops, Agrees(list, ops), NEW n \in DOMAIN ops, NEW op \in BOOLEAN
    PROVE  Agrees(WithMode(list, n, op), Plus(ops, n, op))
<1> DEFINE k == Node(list, n)
           l == [list EXCEPT ![k].op = op]
           o == Plus(ops, n, op)
<1>1. k \in 1 .. Len(list) /\ list[k].name = n /\ WithMode(list, n, op) = l
  BY NodeOfMember DEF WithMode
<1>2. list \in Seq(User) /\ Len(list) \in Nat
  BY LenProperties DEF Agrees
<1> HIDE DEF k
<1>3. /\ l \in Seq(User) /\ Len(l) = Len(list)
      /\ \A i \in 1 .. Len(list) : l[i].name = list[i].name
      /\ \A i \in 1 .. Len(list) : i # k => l[i].op = list[i].op
      /\ l[k].op = op
  <2>1. list[k] \in User
    BY <1>1, <1>2, ElementOfSeq
  <2>2. /\ [list[k] EXCEPT !.op = op] \in User
        /\ [list[k] EXCEPT !.op = op].op = op
        /\ [list[k] EXCEPT !.op = op].name = list[k].name
    BY <2>1 DEF User
  <2> DEFINE u == [list[k] EXCEPT !.op = op]
  <2>3. l = [list EXCEPT ![k] = u]
    OBVIOUS
  <2> HIDE DEF u, l
  <2>4. l \in Seq(User) /\ Len(l) = Len(list) /\ l[k] = u /\ \A i \in 1 .. Len(list) : i # k => l[i] = list[i]
    BY <1>1, <1>2, <2>2, <2>3, ExceptSeq DEF u
  <2> QED BY <2>2, <2>4 DEF u
<1> HIDE DEF l
<1>4. /\ DOMAIN o = DOMAIN ops /\ o[n] = op
      /\ \A m \in DOMAIN ops : m # n => o[m] = ops[m]
  BY DEF Plus
<1> HIDE DEF o
<1>5. ASSUME NEW i \in 1 .. Len(l), NEW j \in 1 .. Len(l), l[i].name = l[j].name
      PROVE  i = j
  <2>1. i \in 1 .. Len(list) /\ j \in 1 .. Len(list) /\ list[i].name = list[j].name
    BY <1>3, <1>5
  <2> QED BY <2>1, Zenon DEF Agrees
<1>6. ASSUME NEW i \in 1 .. Len(l) PROVE l[i].name \in DOMAIN o /\ l[i].op = o[l[i].name]
  <2>1. i \in 1 .. Len(list) /\ l[i].name = list[i].name
    BY <1>3
  <2>2. list[i].name \in DOMAIN ops /\ list[i].op = ops[list[i].name]
    BY <2>1, Zenon DEF Agrees
  <2>3. CASE i = k
    BY <1>1, <1>3, <1>4, <2>1, <2>2, <2>3
  <2>4. CASE i # k
    <3>1. list[i].name # n
      BY <1>1, <2>1, <2>4, Zenon DEF Agrees
    <3> QED BY <1>3, <1>4, <2>1, <2>2, <2>4, <3>1
  <2> QED BY <2>3, <2>4
<1>7. ASSUME NEW m \in DOMAIN o PROVE \E i \in 1 .. Len(l) : l[i].name = m
  <2>1. PICK i \in 1 .. Len(list) : list[i].name = m
    BY <1>4 DEF Agrees
  <2> QED BY <1>3, <2>1
<1>8. Agrees(l, o)
  BY <1>3, <1>5, <1>6, <1>7 DEF Agrees
<1> QED BY <1>1, <1>8 DEF o, l, k

(* Whatever is done to a list, it stays one.                               *)
LEMMA UserLists ==
    ASSUME NEW list \in Seq(User), NEW n \in Names, NEW new \in Names, NEW op \in BOOLEAN
    PROVE  /\ chat_user_joined(list, n) \in Seq(User)
           /\ Unlisted(list, n) \in Seq(User)
           /\ chat_nick_change(list, n, new) \in Seq(User)
           /\ WithMode(list, n, op) \in Seq(User)
<1> DEFINE e == Entry(n, FALSE)
           k == Node(list, n)
<1>1. k \in 0 .. Len(list) /\ Len(list) \in Nat
  BY NodeIs, LenProperties
<1>2. e \in User
  BY EntryIs
<1> HIDE DEF e, k
<1>3. <<e>> \o list \in Seq(User)
  BY <1>2, Pushed
<1>4. chat_user_joined(list, n) \in Seq(User)
  BY <1>3 DEF chat_user_joined, e
<1>5. CASE k = 0
  BY <1>4, <1>5 DEF Unlisted, chat_nick_change, WithMode, chat_find_user, k
<1>6. CASE k # 0
  <2>1. k \in 1 .. Len(list)
    BY <1>1, <1>6
  <2>2. list[k] \in User
    BY <2>1, ElementOfSeq
  <2>3. [list[k] EXCEPT !.name = new] \in User /\ [list[k] EXCEPT !.op = op] \in User
    BY <2>2 DEF User
  <2>4. [list EXCEPT ![k] = [list[k] EXCEPT !.name = new]] \in Seq(User)
    BY <2>1, <2>3, ExceptSeq
  <2>5. [list EXCEPT ![k] = [list[k] EXCEPT !.op = op]] \in Seq(User)
    BY <2>1, <2>3, ExceptSeq
  <2>6. chat_nick_change(list, n, new) \in Seq(User)
    BY <1>6, <2>4 DEF chat_nick_change, chat_find_user, k
  <2>7. WithMode(list, n, op) \in Seq(User)
    BY <1>6, <2>5 DEF WithMode, chat_find_user, k
  <2>8. RemoveAt(list, k) \in Seq(User)
    BY <2>1, RemoveAtElements
  <2>9. Unlisted(list, n) \in Seq(User)
    BY <1>6, <2>8 DEF Unlisted, chat_find_user, k
  <2> QED BY <1>4, <2>6, <2>7, <2>9
<1> QED BY <1>5, <1>6

-----------------------------------------------------------------------------
(* The names that the server lists.  Letters: no nick begins with anything *)
(* that irc_handler_353 would take for a status.                           *)
Letters == \A n \in Nicks : Plain[n] = n

Item == [name : Nicks, op : BOOLEAN]

LEMMA LineIs ==
    ASSUME NEW ops, Ops(ops), NEW line \in Lines(ops)
    PROVE  /\ line \in Seq(Item) /\ Len(line) \in Nat /\ DOMAIN line = 1 .. Len(line)
           /\ \A i \in 1 .. Len(line) : /\ line[i].name \in DOMAIN ops
                                        /\ line[i].op = ops[line[i].name]
           /\ \A i, j \in 1 .. Len(line) : line[i].name = line[j].name => i = j
           /\ \A n \in DOMAIN ops : \E i \in 1 .. Len(line) : line[i].name = n
<1> DEFINE S == DOMAIN ops
           c == Cardinality(S)
<1>1. IsFiniteSet(S) /\ c \in Nat
  BY NicksAssumption, FS_Subset, FS_CardinalityType DEF Ops
<1>2. PICK s \in SetToSeqs(S) : line = [i \in DOMAIN s |-> Entry(s[i], ops[s[i]])]
  BY DEF Lines
<1>3. /\ s \in [1 .. c -> S] /\ DOMAIN s = 1 .. c
      /\ \A i, j \in 1 .. c : s[i] = s[j] => i = j
  BY DEF SetToSeqs
<1>4. \A n \in S : \E i \in 1 .. c : s[i] = n
  <2>1. s \in Injection(1 .. c, S)
    BY <1>3 DEF Injection, IsInjective
  <2>2. Cardinality(1 .. c) = c
    BY <1>1, FS_Interval
  <2>3. s \in Surjection(1 .. c, S)
    BY <1>1, <2>1, <2>2, FS_Injection
  <2> QED BY <2>3 DEF Surjection
<1>5. \A i \in 1 .. c : /\ line[i] = Entry(s[i], ops[s[i]]) /\ line[i] \in Item
                        /\ line[i].name = s[i] /\ line[i].op = ops[s[i]] /\ s[i] \in S
  <2> TAKE i \in 1 .. c
  <2>1. s[i] \in S /\ s[i] \in Nicks /\ ops[s[i]] \in BOOLEAN
    BY <1>3 DEF Ops
  <2>2. line[i] = Entry(s[i], ops[s[i]])
    BY <1>2, <1>3
  <2> QED BY <2>1, <2>2 DEF Entry, Item
<1>6. line \in [1 .. c -> Item]
  BY <1>2, <1>3, <1>5
<1> HIDE DEF c, S
<1>7. line \in Seq(Item) /\ Len(line) = c /\ DOMAIN line = 1 .. c
  BY <1>1, <1>6, SeqDef
<1> QED BY <1>1, <1>3, <1>4, <1>5, <1>7 DEF S

LEMMA AddedIs ==
    ASSUME NEW line \in Seq(Item), NEW n \in 0 .. Len(line)
    PROVE  /\ Added(line, n) \in Seq(User) /\ Len(Added(line, n)) = n
           /\ \A i \in 1 .. n : /\ Added(line, n)[i].name = Plain[line[n + 1 - i].name]
                                /\ Added(line, n)[i].op = line[n + 1 - i].op
<1> DEFINE At(i) == Entry(Plain[line[n + 1 - i].name], line[n + 1 - i].op)
           a == [i \in 1 .. n |-> At(i)]
<1>1. Len(line) \in Nat /\ n \in Nat
  BY LenProperties
<1>2. \A i \in 1 .. n : /\ At(i) \in User /\ At(i).name = Plain[line[n + 1 - i].name]
                        /\ At(i).op = line[n + 1 - i].op
  <2> TAKE i \in 1 .. n
  <2>1. n + 1 - i \in 1 .. Len(line)
    BY <1>1
  <2>2. line[n + 1 - i] \in Item
    BY <2>1, ElementOfSeq
  <2>3. Plain[line[n + 1 - i].name] \in Names /\ line[n + 1 - i].op \in BOOLEAN
    BY <2>2, PlainAssumption DEF Item, Names, Range
  <2> HIDE DEF Names
  <2> QED BY <2>3, EntryIs
<1> HIDE DEF At
<1>3. a \in [1 .. n -> User] /\ \A i \in 1 .. n : a[i] = At(i)
  BY <1>2
<1>4. Added(line, n) = a
  BY DEF Added, At
<1> HIDE DEF a
<1>5. a \in Seq(User) /\ Len(a) = n
  BY <1>1, <1>3, SeqDef
<1> QED BY <1>2, <1>3, <1>4, <1>5

(* A list that is empty becomes the one that the server sent.              *)
LEMMA NamesFill ==
    ASSUME Letters, NEW ops, Ops(ops), NEW line \in Lines(ops)
    PROVE  Agrees(ReadNames(<<>>, line), ops)
<1>1. /\ line \in Seq(Item) /\ Len(line) \in Nat /\ DOMAIN line = 1 .. Len(line)
      /\ \A i \in 1 .. Len(line) : /\ line[i].name \in DOMAIN ops
                                   /\ line[i].op = ops[line[i].name]
      /\ \A i, j \in 1 .. Len(line) : line[i].name = line[j].name => i = j
      /\ \A n \in DOMAIN ops : \E i \in 1 .. Len(line) : line[i].name = n
  BY LineIs
<1>2. \A n \in DOMAIN ops : Plain[n] = n
  BY DEF Letters, Ops
<1>3. \A n : ~chat_find_user(<<>>, n)
  <2> TAKE n
  <2>1. <<>> \in Seq(User) /\ Len(<<>>) = 0
    OBVIOUS
  <2>2. Node(<<>>, n) \in 0 .. Len(<<>>)
    BY <2>1, NodeIs
  <2> QED BY <2>1, <2>2 DEF chat_find_user
<1>4. \A i \in 1 .. Len(line) : ~Known(<<>>, line, i)
  BY <1>1, <1>2, <1>3 DEF Known
<1> DEFINE a == Added(line, Len(line))
           N == Len(line)
<1>5. /\ a \in Seq(User) /\ Len(a) = N
      /\ \A i \in 1 .. N : /\ a[i].name = line[N + 1 - i].name
                           /\ a[i].op = line[N + 1 - i].op
                           /\ N + 1 - i \in 1 .. N
  <2>1. Len(line) \in 0 .. Len(line)
    BY <1>1
  <2>2. /\ a \in Seq(User) /\ Len(a) = N
        /\ \A i \in 1 .. N : /\ a[i].name = Plain[line[N + 1 - i].name]
                             /\ a[i].op = line[N + 1 - i].op
    <3> HIDE DEF N
    <3>1. \A k \in 0 .. Len(line) :
             /\ Added(line, k) \in Seq(User) /\ Len(Added(line, k)) = k
             /\ \A i \in 1 .. k : /\ Added(line, k)[i].name = Plain[line[k + 1 - i].name]
                                  /\ Added(line, k)[i].op = line[k + 1 - i].op
      BY <1>1, AddedIs
    <3> QED BY <2>1, <3>1, Zenon DEF N
  <2>3. \A i \in 1 .. N : N + 1 - i \in 1 .. N
    BY <1>1
  <2> HIDE DEF a, N
  <2>4. \A i \in 1 .. N : a[i].name = line[N + 1 - i].name
    <3> TAKE i \in 1 .. N
    <3>1. line[N + 1 - i].name \in DOMAIN ops
      BY <1>1, <2>3 DEF N
    <3> QED BY <1>2, <2>2, <3>1
  <2> QED BY <2>2, <2>3, <2>4
<1>6. ReadNames(<<>>, line) = a
  <2>1. {i \in DOMAIN line : Known(<<>>, line, i)} = {}
    BY <1>1, <1>4
  <2>2. a \o <<>> = a
    BY <1>5
  <2> QED BY <2>1, <2>2 DEF ReadNames
<1> HIDE DEF a
<1>7. ASSUME NEW i \in 1 .. N, NEW j \in 1 .. N, a[i].name = a[j].name
      PROVE  i = j
  <2>1. \A k, l \in 1 .. N : line[k].name = line[l].name => k = l
    BY <1>1
  <2> HIDE DEF N
  <2> DEFINE Turned(k) == N + 1 - k
  <2>2. \A k \in 1 .. N : a[k].name = line[Turned(k)].name /\ Turned(k) \in 1 .. N
    BY <1>5
  <2> HIDE DEF Turned
  <2>3. Turned(i) = Turned(j)
    BY <1>7, <2>1, <2>2
  <2> QED BY <1>1, <2>3 DEF N, Turned
<1>8. ASSUME NEW n \in DOMAIN ops PROVE \E i \in 1 .. N : a[i].name = n
  <2>1. PICK k \in 1 .. N : line[k].name = n
    BY <1>1
  <2>2. N + 1 - k \in 1 .. N /\ N + 1 - (N + 1 - k) = k
    BY <1>1
  <2>3. a[N + 1 - k].name = n
    BY <1>5, <2>1, <2>2
  <2> QED BY <2>2, <2>3
<1>9. ASSUME NEW i \in 1 .. N PROVE a[i].name \in DOMAIN ops /\ a[i].op = ops[a[i].name]
  <2>1. \A k \in 1 .. N : line[k].name \in DOMAIN ops /\ line[k].op = ops[line[k].name]
    BY <1>1
  <2> HIDE DEF N
  <2>2. /\ a[i].name = line[N + 1 - i].name /\ a[i].op = line[N + 1 - i].op
        /\ N + 1 - i \in 1 .. N
    BY <1>5
  <2> QED BY <2>1, <2>2
<1> QED BY <1>5, <1>6, <1>7, <1>8, <1>9 DEF Agrees

(* One that agrees with it stays as it is.                                 *)
LEMMA NamesKeep ==
    ASSUME Letters, NEW ops, Ops(ops), NEW line \in Lines(ops), NEW list, Agrees(list, ops)
    PROVE  Agrees(ReadNames(list, line), ops)
<1>1. /\ line \in Seq(Item) /\ Len(line) \in Nat /\ DOMAIN line = 1 .. Len(line)
      /\ \A i \in 1 .. Len(line) : /\ line[i].name \in DOMAIN ops
                                   /\ line[i].op = ops[line[i].name]
  BY LineIs
<1>2. list \in Seq(User)
  BY DEF Agrees
<1> DEFINE K == {i \in DOMAIN line : Known(list, line, i)}
<1>3. Added(line, 0) \o list = list
  <2>1. Added(line, 0) = <<>>
    <3>1. Added(line, 0) \in Seq(User) /\ Len(Added(line, 0)) = 0
      BY <1>1, AddedIs
    <3> QED BY <3>1, EmptySeq
  <2> QED BY <1>2, <2>1
<1>4. CASE Len(line) = 0
  <2>1. K = {}
    BY <1>1, <1>4
  <2>2. ReadNames(list, line) = list
    BY <1>3, <1>4, <2>1 DEF ReadNames
  <2> QED BY <2>2
<1>5. CASE Len(line) # 0
  <2> DEFINE n == line[1].name
  <2>1. 1 \in 1 .. Len(line) /\ n \in DOMAIN ops /\ line[1].op = ops[n]
    BY <1>1, <1>5
  <2>2. Plain[n] = n /\ chat_find_user(list, n) /\ ops[n] \in BOOLEAN
    BY <2>1, NodeOfMember DEF Letters, Ops
  <2>3. 1 \in K
    BY <1>1, <2>1, <2>2 DEF Known
  <2>4. Min(K) = 1
    <3>1. K \subseteq Nat /\ K # {}
      BY <1>1, <2>3
    <3>2. Min(K) \in K /\ Min(K) <= 1
      BY <2>3, <3>1, MinIs
    <3>3. K \subseteq 1 .. Len(line)
      BY <1>1
    <3>4. Min(K) \in 1 .. Len(line)
      BY <3>2, <3>3
    <3> DEFINE m == Min(K)
    <3>5. m \in 1 .. Len(line) /\ m <= 1
      BY <3>2, <3>4
    <3> HIDE DEF m
    <3>6. m = 1
      BY <1>1, <3>5
    <3> QED BY <3>6 DEF m
  <2>5. ReadNames(list, line) = WithMode(list, n, ops[n])
    <3>1. ReadNames(list, line)
            = WithMode(Added(line, 0) \o list, Plain[line[1].name], line[1].op)
      BY <2>3, <2>4 DEF ReadNames
    <3> QED BY <1>3, <2>1, <2>2, <3>1
  <2>6. Plus(ops, n, ops[n]) = ops
    BY <2>1 DEF Plus, Ops
  <2>7. Agrees(WithMode(list, n, ops[n]), Plus(ops, n, ops[n]))
    BY <2>1, <2>2, ModeAgrees
  <2> QED BY <2>5, <2>6, <2>7
<1> QED BY <1>1, <1>4, <1>5

LEMMA NamesType ==
    ASSUME NEW list \in Seq(User), NEW line \in Seq(Item)
    PROVE  ReadNames(list, line) \in Seq(User)
<1> DEFINE K == {i \in DOMAIN line : Known(list, line, i)}
           f == Min(K)
<1>1. Len(line) \in Nat /\ DOMAIN line = 1 .. Len(line)
  BY LenProperties
<1>2. \A n \in 0 .. Len(line) : Added(line, n) \o list \in Seq(User)
  <2> TAKE n \in 0 .. Len(line)
  <2>1. Added(line, n) \in Seq(User)
    BY AddedIs
  <2> QED BY <2>1, ConcatProperties
<1>3. CASE K = {}
  BY <1>1, <1>2, <1>3 DEF ReadNames
<1>4. CASE K # {}
  <2>1. f \in 1 .. Len(line)
    <3>1. K \subseteq Nat /\ K \subseteq 1 .. Len(line)
      BY <1>1
    <3> HIDE DEF K
    <3>2. Min(K) \in K
      BY <1>4, <3>1, MinIs
    <3> QED BY <3>1, <3>2
  <2>2. ReadNames(list, line) = WithMode(Added(line, f - 1) \o list, Plain[line[f].name], line[f].op)
    BY <1>4 DEF ReadNames
  <2> HIDE DEF f, K
  <2>3. line[f] \in Item
    BY <2>1, ElementOfSeq
  <2>4. Plain[line[f].name] \in Names /\ line[f].op \in BOOLEAN
    BY <2>3, PlainAssumption DEF Item, Names, Range
  <2>5. f - 1 \in 0 .. Len(line)
    BY <1>1, <2>1
  <2>6. Added(line, f - 1) \o list \in Seq(User)
    BY <1>2, <2>5
  <2> HIDE DEF Names
  <2> QED BY <2>2, <2>4, <2>6, UserLists
<1> QED BY <1>3, <1>4

-----------------------------------------------------------------------------
(* What the client has still to hear of: h[i] is the channel after the     *)
(* first i of the messages under way, with the client's nick there.  It is *)
(* fresh between the answer to a JOIN and the names that follow.           *)
Snap ==
    {s \in [nick : Nicks, in : BOOLEAN, fresh : BOOLEAN,
            ops : UNION {[M -> BOOLEAN] : M \in SUBSET Nicks}] :
        (s.in => s.nick \in DOMAIN s.ops) /\ (s.fresh => s.in)}

Server == [nick |-> us, in |-> In, fresh |-> FALSE, ops |-> members]

Texts == Nicks \cup {"answer", "news"} \cup BOOLEAN \cup Seq(Item)

Kinds == {"JOIN", "PART", "KICK", "QUIT", "NICK", "MODE", "353"}

Msg == [kind : Kinds, nick : Nicks, rest : Texts]

Command == {"JOIN", "PART", "NAMES"}

Answer(m) == m.kind = "JOIN" /\ m.rest = "answer"

Calm(s, t) == ~s.fresh /\ ~t.fresh

(* What a message says that made t of s.                                   *)
Answered(m, s, t) ==
    Answer(m) /\ m.nick = s.nick /\ t.nick = s.nick /\ ~s.in /\ t.in /\ t.fresh

Listed(m, s, t) ==
    /\ m.kind = "353" /\ m.rest \in Seq(Item)
    /\ t.nick = s.nick /\ t.in = s.in /\ ~t.fresh
    /\ s.in => t.ops = s.ops /\ m.rest \in Lines(s.ops)

Arrived(m, s, t) ==
    /\ m.kind = "JOIN" /\ m.rest = "news" /\ Calm(s, t) /\ t.nick = s.nick
    /\ m.nick # s.nick /\ s.in /\ t.in
    /\ m.nick \notin DOMAIN s.ops /\ t.ops = Plus(s.ops, m.nick, FALSE)

Departed(m, s, t) ==
    /\ m.kind \in {"PART", "KICK", "QUIT"} /\ Calm(s, t) /\ t.nick = s.nick
    /\ m.nick # s.nick /\ s.in /\ t.in
    /\ m.nick \in DOMAIN s.ops /\ t.ops = Minus(s.ops, m.nick)

Removed(m, s, t) ==
    /\ m.kind \in {"PART", "KICK"} /\ Calm(s, t) /\ t.nick = s.nick
    /\ m.nick = s.nick /\ s.in /\ ~t.in

NewNick(m, s, t) ==
    /\ m.kind = "NICK" /\ m.rest \in Nicks /\ Calm(s, t) /\ t.in = s.in
    /\ t.nick = IF m.nick = s.nick THEN m.rest ELSE s.nick
    /\ IF s.in THEN /\ m.nick \in DOMAIN s.ops /\ m.rest \notin DOMAIN s.ops
                    /\ t.ops = Renamed(s.ops, m.nick, m.rest)
       ELSE m.nick = s.nick

Changed(m, s, t) ==
    /\ m.kind = "MODE" /\ m.rest \in BOOLEAN /\ Calm(s, t) /\ t.nick = s.nick
    /\ s.in /\ t.in
    /\ m.nick \in DOMAIN s.ops /\ t.ops = Plus(s.ops, m.nick, m.rest)

News(m, s, t) ==
    \/ Answered(m, s, t) \/ Listed(m, s, t) \/ Arrived(m, s, t) \/ Departed(m, s, t)
    \/ Removed(m, s, t) \/ NewNick(m, s, t) \/ Changed(m, s, t)

(* The messages w lead to the channel s.                                   *)
History(w, h, s) ==
    /\ h \in [Nat -> Snap] /\ h[Len(w)] = s
    /\ \A i \in 1 .. Len(w) : News(w[i], h[i - 1], h[i])

(* A command is under way, or an answer to a JOIN, or the client's own     *)
(* PART, or the news that the client is not in the channel.                *)
Asks(b, c) == \E i \in 1 .. Len(b) : b[i] = c
Answers(w) == \E i \in 1 .. Len(w) : Answer(w[i])
Waiting(w, b) == Asks(b, "JOIN") \/ Answers(w)
OwnPart(m, t) == m.kind = "PART" /\ ~t.in
Parts(w, h) == \E i \in 1 .. Len(w) : OwnPart(w[i], h[i])
Outs(w, h) == \E i \in 1 .. Len(w) : ~h[i].in

(* At most one JOIN is unanswered, and no PART comes after it.             *)
Commands(b) ==
    \A i, j \in 1 .. Len(b) : b[i] = "JOIN" /\ b[j] \in {"JOIN", "PART"} => j <= i

Replies(w, h) ==
    \A i, j \in 1 .. Len(w) : Answer(w[i]) /\ (Answer(w[j]) \/ OwnPart(w[j], h[j])) => j <= i

Streams(w, b, h) ==
    /\ Commands(b) /\ Replies(w, h)
    /\ Answers(w) => ~Asks(b, "JOIN") /\ ~Asks(b, "PART")

Basics ==
    /\ wire \in Seq(Msg) /\ back \in Seq(Command)
    /\ us \in Nicks /\ username \in Nicks /\ Ops(members) /\ user_list \in Seq(User)
    /\ {online, window, chat, joined, left, stale, hurried} \subseteq BOOLEAN
    /\ ~chat => user_list = <<>> /\ ~joined /\ ~stale
    /\ ~online => wire = <<>> /\ back = <<>> /\ ~In

(* A chat follows the channel unless something kept the news from it; if   *)
(* there is none, the channel is or will be left, or is not joined.        *)
Follows(h) ==
    chat /\ ~stale =>
       /\ h[0].in /\ joined
       /\ Letters => IF h[0].fresh THEN user_list = <<>> ELSE Agrees(user_list, h[0].ops)

Client(w, b, h) ==
    /\ chat => ~Asks(b, "PART") /\ ~Parts(w, h) /\ window /\ ~left
    /\ Waiting(w, b) => window /\ ~left /\ (chat => stale /\ ~h[0].in)
    /\ ~chat /\ h[0].in => Asks(b, "PART") \/ Outs(w, h)
    /\ Follows(h)

Sound(h) ==
    /\ History(wire, h, Server) /\ username = h[0].nick
    /\ ~hurried => Streams(wire, back, h) /\ Client(wire, back, h)

IInv == Basics /\ \E h : Sound(h)

-----------------------------------------------------------------------------
(* Streams.                                                                *)
Later(h) == [i \in Nat |-> h[i + 1]]

LEMMA Behind ==
    ASSUME NEW S, NEW s \in Seq(S), NEW x \in S
    PROVE  /\ s \o <<x>> \in Seq(S) /\ Len(s \o <<x>>) = Len(s) + 1 /\ Len(s) \in Nat
           /\ (s \o <<x>>)[Len(s) + 1] = x
           /\ \A i \in 1 .. Len(s) : (s \o <<x>>)[i] = s[i]
<1>1. <<x>> \in Seq(S) /\ Len(<<x>>) = 1 /\ <<x>>[1] = x /\ Len(s) \in Nat
  BY LenProperties
<1>2. /\ s \o <<x>> \in Seq(S) /\ Len(s \o <<x>>) = Len(s) + 1
      /\ \A i \in 1 .. Len(s) + 1 : (s \o <<x>>)[i] = IF i <= Len(s) THEN s[i] ELSE <<x>>[i - Len(s)]
  BY <1>1, ConcatProperties
<1> QED BY <1>1, <1>2

LEMMA PairIs ==
    ASSUME NEW S, NEW x \in S, NEW y \in S
    PROVE  <<x>> \in Seq(S) /\ <<y>> \in Seq(S) /\ <<x>> \o <<y>> = <<x, y>>
<1>1. <<x>> \in Seq(S) /\ <<y>> \in Seq(S) /\ Len(<<x>>) = 1 /\ <<x>>[1] = x
  OBVIOUS
<1>2. /\ <<x>> \o <<y>> \in Seq(S) /\ Len(<<x>> \o <<y>>) = 2
      /\ (<<x>> \o <<y>>)[2] = y /\ (<<x>> \o <<y>>)[1] = x
  BY <1>1, Behind
<1>3. <<x, y>> \in Seq(S) /\ Len(<<x, y>>) = 2 /\ <<x, y>>[1] = x /\ <<x, y>>[2] = y
  OBVIOUS
<1> DEFINE p == <<x>> \o <<y>>
           q == <<x, y>>
<1> HIDE DEF p, q
<1>4. \A i \in 1 .. 2 : p[i] = q[i]
  BY <1>2, <1>3 DEF p, q
<1>5. p = q
  BY <1>2, <1>3, <1>4, SeqEqual DEF p, q
<1> QED BY <1>1, <1>5 DEF p, q

(* A command is sent.                                                      *)
LEMMA Sent ==
    ASSUME NEW b \in Seq(Command), NEW c \in Command, NEW w, NEW h, Streams(w, b, h),
           Waiting(w, b) => c = "NAMES"
    PROVE  /\ Streams(w, b \o <<c>>, h)
           /\ \A d : Asks(b \o <<c>>, d) <=> Asks(b, d) \/ d = c
<1> DEFINE b2 == b \o <<c>>
           n == Len(b)
<1>1. /\ Len(b2) = n + 1 /\ n \in Nat /\ b2[n + 1] = c
      /\ \A i \in 1 .. n : b2[i] = b[i]
  BY Behind
<1> HIDE DEF b2, n
<1>2. \A i \in 1 .. Len(b2) : i \in 1 .. n \/ i = n + 1
  BY <1>1
<1>3. \A i \in 1 .. n : i \in 1 .. Len(b2) /\ i <= n + 1
  BY <1>1
<1>4. n + 1 \in 1 .. Len(b2)
  BY <1>1
<1>5. ASSUME NEW d PROVE Asks(b2, d) <=> Asks(b, d) \/ d = c
  BY <1>1, <1>2, <1>3, <1>4 DEF Asks, n
<1>6. ASSUME NEW i \in 1 .. Len(b2), NEW j \in 1 .. Len(b2),
             b2[i] = "JOIN", b2[j] \in {"JOIN", "PART"}
      PROVE  j <= i
  <2>1. CASE i \in 1 .. n /\ j \in 1 .. n
    BY <1>1, <1>6, <2>1 DEF Streams, Commands, n
  <2>2. CASE j = n + 1 /\ i \in 1 .. n
    <3>1. Waiting(w, b)
      BY <1>1, <1>6, <2>2 DEF Waiting, Asks, n
    <3> QED BY <1>1, <1>6, <2>2, <3>1
  <2>3. CASE i = n + 1 /\ j \in 1 .. n + 1
    BY <1>1, <2>3
  <2> QED BY <1>1, <1>2, <2>1, <2>2, <2>3
<1>7. Commands(b2)
  BY <1>6, Zenon DEF Commands
<1>8. Answers(w) => ~Asks(b2, "JOIN") /\ ~Asks(b2, "PART")
  BY <1>5 DEF Streams, Waiting
<1> QED BY <1>5, <1>7, <1>8 DEF Streams, b2

(* The server takes a command.                                             *)
LEMMA Taken ==
    ASSUME NEW b \in Seq(Command), b # <<>>, NEW w, NEW h
    PROVE  /\ Tail(b) \in Seq(Command) /\ Head(b) \in Command /\ Asks(b, Head(b))
           /\ \A d : Asks(Tail(b), d) => Asks(b, d)
           /\ \A d : Asks(b, d) => Asks(Tail(b), d) \/ d = Head(b)
           /\ Streams(w, b, h) => Streams(w, Tail(b), h)
           /\ Streams(w, b, h) /\ Head(b) = "JOIN" => ~Asks(Tail(b), "JOIN") /\ ~Asks(Tail(b), "PART")
<1> DEFINE t == Tail(b)
           n == Len(b)
<1>1. /\ Head(b) \in Command /\ t \in Seq(Command) /\ Len(t) = n - 1
      /\ \A i \in 1 .. Len(t) : t[i] = b[i + 1]
  BY HeadTailProperties
<1>2. n \in Nat /\ n # 0 /\ Head(b) = b[1]
  BY LenProperties, EmptySeq
<1> HIDE DEF t, n
<1>3. 1 \in 1 .. n /\ \A i \in 1 .. Len(t) : i + 1 \in 1 .. n /\ i + 1 # 1
  BY <1>1, <1>2
<1>4. \A i \in 1 .. n : i = 1 \/ \E j \in 1 .. Len(t) : i = j + 1
  <2> TAKE i \in 1 .. n
  <2>1. CASE i # 1
    <3>1. i - 1 \in 1 .. Len(t) /\ i = (i - 1) + 1
      BY <1>1, <1>2, <2>1
    <3> QED BY <3>1
  <2> QED BY <2>1
<1>5. Asks(b, Head(b))
  BY <1>2, <1>3 DEF Asks, n
<1>6. ASSUME NEW d PROVE Asks(t, d) => Asks(b, d)
  BY <1>1, <1>3 DEF Asks, n
<1>7. ASSUME NEW d PROVE Asks(b, d) => Asks(t, d) \/ d = Head(b)
  <2> SUFFICES ASSUME NEW i \in 1 .. n, b[i] = d PROVE Asks(t, d) \/ d = Head(b)
    BY DEF Asks, n
  <2>1. CASE i = 1
    BY <1>2, <2>1
  <2>2. CASE i # 1
    <3>1. PICK j \in 1 .. Len(t) : i = j + 1
      BY <1>4, <2>2
    <3> QED BY <1>1, <3>1 DEF Asks
  <2> QED BY <2>1, <2>2
<1>8. ASSUME Commands(b) PROVE Commands(t)
  <2> SUFFICES ASSUME NEW i \in 1 .. Len(t), NEW j \in 1 .. Len(t),
                      t[i] = "JOIN", t[j] \in {"JOIN", "PART"}
               PROVE  j <= i
    BY DEF Commands
  <2>1. b[i + 1] = "JOIN" /\ b[j + 1] \in {"JOIN", "PART"}
    BY <1>1
  <2>2. j + 1 <= i + 1
    BY <1>3, <1>8, <2>1 DEF Commands, n
  <2> QED BY <2>2
<1>9. ASSUME Commands(b), Head(b) = "JOIN", NEW d \in {"JOIN", "PART"} PROVE ~Asks(t, d)
  <2> SUFFICES ASSUME NEW i \in 1 .. Len(t), t[i] = d PROVE FALSE
    BY DEF Asks
  <2>1. b[i + 1] = d /\ b[1] = "JOIN"
    BY <1>1, <1>2, <1>9
  <2>2. i + 1 <= 1
    BY <1>3, <1>9, <2>1 DEF Commands, n
  <2> QED BY <2>2
<1>10. Streams(w, b, h) => Streams(w, t, h)
  BY <1>6, <1>8 DEF Streams
<1>11. Streams(w, b, h) /\ Head(b) = "JOIN" => ~Asks(t, "JOIN") /\ ~Asks(t, "PART")
  BY <1>9 DEF Streams
<1> QED BY <1>1, <1>5, <1>6, <1>7, <1>10, <1>11 DEF t

(* The client hears of a message.                                          *)
LEMMA Heard ==
    ASSUME NEW w \in Seq(Msg), w # <<>>, NEW b, NEW h, NEW s, History(w, h, s)
    PROVE  /\ Tail(w) \in Seq(Msg) /\ Head(w) \in Msg /\ News(Head(w), h[0], h[1])
           /\ History(Tail(w), Later(h), s) /\ Later(h)[0] = h[1]
           /\ Waiting(Tail(w), b) => Waiting(w, b)
           /\ Parts(Tail(w), Later(h)) => Parts(w, h)
           /\ Outs(w, h) /\ h[1].in => Outs(Tail(w), Later(h))
           /\ OwnPart(Head(w), h[1]) => Parts(w, h)
           /\ Answer(Head(w)) => Waiting(w, b)
           /\ Streams(w, b, h) => Streams(Tail(w), b, Later(h))
           /\ Streams(w, b, h) /\ Answer(Head(w)) =>
                 ~Waiting(Tail(w), b) /\ ~Asks(b, "PART") /\ ~Parts(Tail(w), Later(h))
<1> DEFINE t == Tail(w)
           n == Len(w)
           g == Later(h)
<1>1. /\ Head(w) \in Msg /\ t \in Seq(Msg) /\ Len(t) = n - 1
      /\ \A i \in 1 .. Len(t) : t[i] = w[i + 1]
  BY HeadTailProperties
<1>2. n \in Nat /\ n # 0 /\ Head(w) = w[1]
  BY LenProperties, EmptySeq
<1>3. g \in [Nat -> Snap] /\ \A i \in Nat : g[i] = h[i + 1]
  BY DEF History, Later
<1> HIDE DEF t, n, g
<1>4. 1 \in 1 .. n /\ \A i \in 1 .. Len(t) : i + 1 \in 1 .. n /\ i + 1 # 1 /\ i \in Nat
                                             /\ (i - 1) + 1 = i /\ (i + 1) - 1 = i /\ i - 1 \in Nat
  BY <1>1, <1>2
<1>5. \A i \in 1 .. n : i = 1 \/ \E j \in 1 .. Len(t) : i = j + 1
  <2> TAKE i \in 1 .. n
  <2>1. CASE i # 1
    <3>1. i - 1 \in 1 .. Len(t) /\ i = (i - 1) + 1
      BY <1>1, <1>2, <2>1
    <3> QED BY <3>1
  <2> QED BY <2>1
<1>6. News(Head(w), h[0], h[1])
  <2>1. News(w[1], h[1 - 1], h[1])
    BY <1>4 DEF History, n
  <2> QED BY <1>2, <2>1
<1>7. \A i \in 1 .. Len(t) : t[i] = w[i + 1] /\ g[i] = h[i + 1] /\ g[i - 1] = h[i]
  BY <1>1, <1>3, <1>4
<1>8. History(t, g, s)
  <2>1. g[Len(t)] = s
    <3>1. Len(t) \in Nat /\ Len(t) + 1 = n
      BY <1>1, <1>2
    <3>2. g[Len(t)] = h[n]
      BY <1>3, <3>1
    <3> QED BY <3>2 DEF History, n
  <2>2. ASSUME NEW i \in 1 .. Len(t) PROVE News(t[i], g[i - 1], g[i])
    <3>1. News(w[i + 1], h[(i + 1) - 1], h[i + 1])
      BY <1>4 DEF History, n
    <3>2. (i + 1) - 1 = i
      BY <1>4
    <3> QED BY <1>7, <3>1, <3>2
  <2> QED BY <1>3, <2>1, <2>2 DEF History
<1>9. g[0] = h[1]
  BY <1>3
<1>10. Answers(t) => Answers(w)
  BY <1>4, <1>7 DEF Answers, n
<1>11. Parts(t, g) => Parts(w, h)
  BY <1>4, <1>7 DEF Parts, n
<1>12. ASSUME Outs(w, h), h[1].in PROVE Outs(t, g)
  <2>1. PICK i \in 1 .. n : ~h[i].in
    BY <1>12 DEF Outs, n
  <2>2. PICK j \in 1 .. Len(t) : i = j + 1
    BY <1>5, <1>12, <2>1
  <2> QED BY <1>7, <2>1, <2>2 DEF Outs
<1>13. /\ OwnPart(Head(w), h[1]) => Parts(w, h)
       /\ Answer(Head(w)) => Answers(w)
  BY <1>2, <1>4 DEF Parts, Answers, n
<1>14. ASSUME Replies(w, h) PROVE Replies(t, g)
  <2> SUFFICES ASSUME NEW i \in 1 .. Len(t), NEW j \in 1 .. Len(t),
                      Answer(t[i]), Answer(t[j]) \/ OwnPart(t[j], g[j])
               PROVE  j <= i
    BY DEF Replies
  <2>1. Answer(w[i + 1]) /\ (Answer(w[j + 1]) \/ OwnPart(w[j + 1], h[j + 1]))
    BY <1>7
  <2>2. j + 1 <= i + 1
    BY <1>4, <1>14, <2>1 DEF Replies, n
  <2> QED BY <2>2
<1>15. ASSUME Replies(w, h), Answer(Head(w)) PROVE ~Answers(t) /\ ~Parts(t, g)
  <2> SUFFICES ASSUME NEW j \in 1 .. Len(t), Answer(t[j]) \/ OwnPart(t[j], g[j])
               PROVE  FALSE
    BY DEF Answers, Parts
  <2>1. Answer(w[1]) /\ (Answer(w[j + 1]) \/ OwnPart(w[j + 1], h[j + 1]))
    BY <1>2, <1>7, <1>15
  <2>2. j + 1 <= 1
    BY <1>4, <1>15, <2>1 DEF Replies, n
  <2> QED BY <2>2
<1>16. Streams(w, b, h) => Streams(t, b, g)
  BY <1>10, <1>14 DEF Streams
<1>17. Streams(w, b, h) /\ Answer(Head(w)) => ~Waiting(t, b) /\ ~Asks(b, "PART") /\ ~Parts(t, g)
  BY <1>13, <1>15 DEF Streams, Waiting
<1> QED BY <1>1, <1>6, <1>8, <1>9, <1>10, <1>11, <1>12, <1>13, <1>16, <1>17 DEF Waiting, t, g

(* The server tells of what it did.                                        *)
LEMMA Told ==
    ASSUME NEW w \in Seq(Msg), NEW b, NEW h, NEW s, History(w, h, s),
           NEW m \in Msg, NEW t \in Snap, News(m, s, t)
    PROVE  \E g : /\ History(w \o <<m>>, g, t) /\ g[0] = h[0]
                  /\ Answers(w \o <<m>>) <=> Answers(w) \/ Answer(m)
                  /\ Parts(w \o <<m>>, g) <=> Parts(w, h) \/ OwnPart(m, t)
                  /\ Outs(w \o <<m>>, g) <=> Outs(w, h) \/ ~t.in
                  /\ /\ Streams(w, b, h)
                     /\ Answer(m) => ~Waiting(w, b) /\ ~Asks(b, "PART")
                     /\ OwnPart(m, t) => ~Answers(w)
                     => Streams(w \o <<m>>, b, g)
<1> DEFINE w2 == w \o <<m>>
           n == Len(w)
           g == [h EXCEPT ![n + 1] = t]
<1>1. /\ w2 \in Seq(Msg) /\ Len(w2) = n + 1 /\ n \in Nat /\ w2[n + 1] = m
      /\ \A i \in 1 .. n : w2[i] = w[i]
  BY Behind
<1>2. /\ g \in [Nat -> Snap] /\ g[n + 1] = t
      /\ \A i \in Nat : i <= n => g[i] = h[i]
  BY <1>1 DEF History
<1> HIDE DEF w2, n, g
<1>3. \A i \in 1 .. Len(w2) : i \in 1 .. n \/ i = n + 1
  BY <1>1
<1>4. /\ \A i \in 1 .. n : i \in 1 .. Len(w2) /\ i <= n + 1 /\ i \in Nat /\ i <= n
                           /\ i - 1 \in Nat /\ i - 1 <= n
      /\ n + 1 \in 1 .. Len(w2) /\ (n + 1) - 1 = n /\ n <= n /\ 0 <= n
  BY <1>1
<1>5. \A i \in 1 .. n : w2[i] = w[i] /\ g[i] = h[i] /\ g[i - 1] = h[i - 1]
  BY <1>1, <1>2, <1>4
<1>6. History(w2, g, t)
  <2>1. ASSUME NEW i \in 1 .. Len(w2) PROVE News(w2[i], g[i - 1], g[i])
    <3>1. CASE i \in 1 .. n
      BY <1>5, <3>1 DEF History, n
    <3>2. CASE i = n + 1
      <4>1. g[i - 1] = h[n]
        BY <1>1, <1>2, <1>4, <3>2
      <4>2. g[i - 1] = s
        BY <4>1 DEF History, n
      <4> QED BY <1>1, <1>2, <3>2, <4>2
    <3> QED BY <1>3, <3>1, <3>2
  <2>2. g[Len(w2)] = t
    BY <1>1, <1>2
  <2> QED BY <1>2, <2>1, <2>2 DEF History
<1>7. g[0] = h[0]
  BY <1>1, <1>2
<1>8. Answers(w2) <=> Answers(w) \/ Answer(m)
  BY <1>1, <1>3, <1>4 DEF Answers, n
<1>9. Parts(w2, g) <=> Parts(w, h) \/ OwnPart(m, t)
  BY <1>1, <1>2, <1>3, <1>4, <1>5 DEF Parts, n
<1>10. Outs(w2, g) <=> Outs(w, h) \/ ~t.in
  BY <1>1, <1>2, <1>3, <1>4, <1>5 DEF Outs, n
<1>11. ASSUME Streams(w, b, h), Answer(m) => ~Waiting(w, b) /\ ~Asks(b, "PART"),
              OwnPart(m, t) => ~Answers(w)
       PROVE  Streams(w2, b, g)
  <2>1. ASSUME NEW i \in 1 .. Len(w2), NEW j \in 1 .. Len(w2),
               Answer(w2[i]), Answer(w2[j]) \/ OwnPart(w2[j], g[j])
        PROVE  j <= i
    <3>1. CASE i \in 1 .. n /\ j \in 1 .. n
      <4>1. Answer(w[i]) /\ (Answer(w[j]) \/ OwnPart(w[j], h[j]))
        BY <1>5, <2>1, <3>1
      <4> QED BY <1>11, <3>1, <4>1 DEF Streams, Replies, n
    <3>2. CASE i \in 1 .. n /\ j = n + 1
      <4>1. Answers(w)
        BY <1>5, <2>1, <3>2 DEF Answers, n
      <4>2. Answer(m) \/ OwnPart(m, t)
        BY <1>1, <1>2, <2>1, <3>2
      <4> QED BY <1>11, <4>1, <4>2 DEF Waiting
    <3>3. CASE i = n + 1
      BY <1>1, <3>3
    <3> QED BY <1>3, <3>1, <3>2, <3>3
  <2>2. Replies(w2, g)
    BY <2>1, Zenon DEF Replies
  <2>3. Answers(w2) => ~Asks(b, "JOIN") /\ ~Asks(b, "PART")
    BY <1>8, <1>11 DEF Streams, Waiting
  <2> QED BY <1>11, <2>2, <2>3 DEF Streams
<1> QED BY <1>6, <1>7, <1>8, <1>9, <1>10, <1>11 DEF w2

(* The server does what it tells nobody of.                                *)
LEMMA Untold ==
    ASSUME NEW w \in Seq(Msg), NEW h, NEW s, History(w, h, s), ~s.in,
           NEW t \in Snap, ~t.in, t.nick = s.nick, t.fresh = s.fresh
    PROVE  \E g : /\ History(w, g, t) /\ g[0].in = h[0].in /\ g[0].nick = h[0].nick
                  /\ h[0].in => g[0] = h[0]
                  /\ Parts(w, g) <=> Parts(w, h)
                  /\ Outs(w, g) <=> Outs(w, h)
                  /\ \A b : Streams(w, b, h) => Streams(w, b, g)
<1> DEFINE n == Len(w)
           g == [h EXCEPT ![n] = t]
<1>1. n \in Nat
  BY LenProperties
<1>2. g \in [Nat -> Snap] /\ g[n] = t /\ h[n] = s /\ \A i \in Nat : i # n => g[i] = h[i]
  BY <1>1 DEF History
<1>3. \A u \in Snap : u.in \in BOOLEAN
  BY DEF Snap
<1>4. h \in [Nat -> Snap] /\ s \in Snap
  BY <1>1 DEF History
<1> HIDE DEF n, g
<1>5. \A i \in Nat : g[i].in = h[i].in /\ g[i].nick = h[i].nick /\ g[i].fresh = h[i].fresh
                     /\ (h[i].in => g[i] = h[i])
  <2> TAKE i \in Nat
  <2>1. CASE i = n
    BY <1>2, <1>3, <1>4, <2>1
  <2>2. CASE i # n
    BY <1>2, <2>2
  <2> QED BY <2>1, <2>2
<1>6. ASSUME NEW m, NEW p, NEW q, NEW p2, NEW q2, News(m, p, q),
             p2.in = p.in, p2.nick = p.nick, p2.fresh = p.fresh, p.in => p2 = p,
             q2.in = q.in, q2.nick = q.nick, q2.fresh = q.fresh, q.in => q2 = q
      PROVE  News(m, p2, q2)
  <2>1. CASE Answered(m, p, q)
    BY <1>6, <2>1 DEF News, Answered
  <2>2. CASE Listed(m, p, q)
    BY <1>6, <2>2 DEF News, Listed
  <2>3. CASE Arrived(m, p, q) \/ Departed(m, p, q) \/ Changed(m, p, q)
    BY <1>6, <2>3 DEF News, Arrived, Departed, Changed, Calm
  <2>4. CASE Removed(m, p, q)
    BY <1>6, <2>4 DEF News, Removed, Calm
  <2>5. CASE NewNick(m, p, q)
    BY <1>6, <2>5 DEF News, NewNick, Calm
  <2> QED BY <1>6, <2>1, <2>2, <2>3, <2>4, <2>5 DEF News
<1>7. \A i \in 1 .. n : i \in Nat /\ i - 1 \in Nat
  BY <1>1
<1>8. ASSUME NEW i \in 1 .. n PROVE News(w[i], g[i - 1], g[i])
  <2>1. News(w[i], h[i - 1], h[i])
    BY DEF History, n
  <2> QED BY <1>5, <1>6, <1>7, <2>1
<1>9. History(w, g, t)
  BY <1>2, <1>8 DEF History, n
<1>10. /\ Parts(w, g) <=> Parts(w, h)
       /\ Outs(w, g) <=> Outs(w, h)
       /\ Replies(w, h) => Replies(w, g)
  BY <1>5, <1>7 DEF Parts, Outs, Replies, OwnPart, n
<1>11. \A b : Streams(w, b, h) => Streams(w, b, g)
  BY <1>10 DEF Streams
<1>12. 0 \in Nat
  OBVIOUS
<1> QED BY <1>5, <1>9, <1>10, <1>11, <1>12

(* A channel that the client is not in: it will hear so.                   *)
LEMMA OutsNow ==
    ASSUME NEW w \in Seq(Msg), NEW h, NEW s, History(w, h, s), ~s.in
    PROVE  Outs(w, h) \/ ~h[0].in
<1>1. Len(w) \in Nat /\ h[Len(w)] = s
  BY LenProperties DEF History
<1>2. CASE Len(w) = 0
  BY <1>1, <1>2
<1>3. CASE Len(w) # 0
  <2>1. Len(w) \in 1 .. Len(w)
    BY <1>1, <1>3
  <2> QED BY <1>1, <2>1 DEF Outs
<1> QED BY <1>2, <1>3

LEMMA SnapIs ==
    ASSUME NEW n \in Nicks, NEW in \in BOOLEAN, NEW ops, Ops(ops), in => n \in DOMAIN ops
    PROVE  [nick |-> n, in |-> in, fresh |-> FALSE, ops |-> ops] \in Snap
<1>1. ops \in UNION {[M -> BOOLEAN] : M \in SUBSET Nicks}
  BY DEF Ops
<1> QED BY <1>1 DEF Snap

LEMMA OpsRenamed ==
    ASSUME NEW ops, Ops(ops), NEW old \in DOMAIN ops, NEW new \in Nicks
    PROVE  /\ Ops(Renamed(ops, old, new))
           /\ DOMAIN Renamed(ops, old, new) = (DOMAIN ops \ {old}) \cup {new}
BY DEF Ops, Renamed

LEMMA OpsPlus ==
    ASSUME NEW ops, Ops(ops), NEW n \in Nicks, NEW op \in BOOLEAN
    PROVE  Ops(Plus(ops, n, op)) /\ DOMAIN Plus(ops, n, op) = DOMAIN ops \cup {n}
BY DEF Ops, Plus

LEMMA OpsMinus ==
    ASSUME NEW ops, Ops(ops), NEW n
    PROVE  Ops(Minus(ops, n)) /\ DOMAIN Minus(ops, n) = DOMAIN ops \ {n}
BY DEF Ops, Minus

LEMMA EmptyList ==
    ASSUME NEW n
    PROVE  /\ ~chat_find_user(<<>>, n)
           /\ Unlisted(<<>>, n) = <<>>
           /\ \A new : chat_nick_change(<<>>, n, new) = <<>>
           /\ \A op : WithMode(<<>>, n, op) = <<>>
<1>1. <<>> \in Seq(User) /\ Len(<<>>) = 0
  OBVIOUS
<1>2. Node(<<>>, n) \in 0 .. Len(<<>>)
  BY <1>1, NodeIs
<1>3. ~chat_find_user(<<>>, n)
  BY <1>1, <1>2 DEF chat_find_user
<1> QED BY <1>3 DEF Unlisted, chat_nick_change, WithMode

LEMMA JoiningIs ==
    ASSUME wire \in Seq(Msg), back \in Seq(Command)
    PROVE  Joining <=> Waiting(wire, back)
<1>1. DOMAIN wire = 1 .. Len(wire) /\ DOMAIN back = 1 .. Len(back)
  BY LenProperties
<1>2. "JOIN" \in Range(back) <=> Asks(back, "JOIN")
  BY <1>1 DEF Range, Asks
<1>3. (\E m \in Range(wire) : m.kind = "JOIN" /\ m.rest = "answer") <=> Answers(wire)
  BY <1>1 DEF Range, Answers, Answer
<1> QED BY <1>2, <1>3 DEF Joining, Waiting

-----------------------------------------------------------------------------
(* The server.                                                             *)
LEMMA ServerTells ==
    ASSUME IInv, online, UNCHANGED client, us' \in Nicks, Ops(members'),
           NEW m \in Msg, wire' = wire \o <<m>>, News(m, Server, Server'), ~Answer(m),
           \/ back' = back /\ ~OwnPart(m, Server')
           \/ /\ back # <<>> /\ back' = Tail(back)
              /\ Head(back) = "PART" => ~In'
              /\ OwnPart(m, Server') => Head(back) = "PART"
    PROVE  IInv'
<1>1. PICK h : Sound(h)
  BY DEF IInv
<1>2. Basics
  BY DEF IInv
<1>3. /\ wire \in Seq(Msg) /\ back \in Seq(Command)
      /\ UNCHANGED <<online, world, window, chat, joined, user_list, username, left, stale, hurried>>
  BY <1>2 DEF Basics, client, room, marks
<1>4. Server' \in Snap /\ Server'.in = In'
  <2>1. In' \in BOOLEAN /\ (In' => us' \in DOMAIN members')
    BY DEF In
  <2> HIDE DEF In
  <2>2. [nick |-> us', in |-> In', fresh |-> FALSE, ops |-> members'] \in Snap
    BY <2>1, SnapIs
  <2> QED BY <2>2 DEF Server
<1>5. /\ back' \in Seq(Command)
      /\ \A d : Asks(back', d) => Asks(back, d)
      /\ Asks(back, "PART") => Asks(back', "PART") \/ ~In'
      /\ \A w, f : Streams(w, back, f) => Streams(w, back', f)
      /\ OwnPart(m, Server') => Asks(back, "PART")
  <2>1. CASE back' = back /\ ~OwnPart(m, Server')
    BY <1>3, <2>1
  <2>2. CASE back # <<>> /\ back' = Tail(back) /\ (Head(back) = "PART" => ~In')
             /\ (OwnPart(m, Server') => Head(back) = "PART")
    <3>1. /\ back' \in Seq(Command) /\ Asks(back, Head(back))
          /\ \A d : Asks(back', d) => Asks(back, d)
          /\ \A d : Asks(back, d) => Asks(back', d) \/ d = Head(back)
      BY <1>3, <2>2, Taken
    <3>2. \A w, f : Streams(w, back, f) => Streams(w, back', f)
      BY <1>3, <2>2, Taken
    <3> QED BY <2>2, <3>1, <3>2
  <2> QED BY <2>1, <2>2
<1>6. Basics'
  <2>1. wire' \in Seq(Msg)
    BY <1>3, Behind
  <2> QED BY <1>2, <1>3, <1>5, <2>1 DEF Basics
<1>7. History(wire, h, Server)
  BY <1>1 DEF Sound
<1>8. PICK g : /\ History(wire', g, Server') /\ g[0] = h[0]
               /\ Answers(wire') <=> Answers(wire) \/ Answer(m)
               /\ Parts(wire', g) <=> Parts(wire, h) \/ OwnPart(m, Server')
               /\ Outs(wire', g) <=> Outs(wire, h) \/ ~Server'.in
               /\ /\ Streams(wire, back', h)
                  /\ Answer(m) => ~Waiting(wire, back') /\ ~Asks(back', "PART")
                  /\ OwnPart(m, Server') => ~Answers(wire)
                  => Streams(wire', back', g)
  <2> HIDE DEF Server
  <2>1. PICK t, w, b, s : t = Server' /\ w = wire' /\ b = back' /\ s = Server
    OBVIOUS
  <2>2. PICK v : v = wire
    OBVIOUS
  <2>3. v \in Seq(Msg) /\ t \in Snap /\ History(v, h, s) /\ News(m, s, t)
    BY <1>3, <1>4, <1>7, <2>1, <2>2
  <2>4. w = v \o <<m>>
    BY <2>1, <2>2
  <2>5. \E g : /\ History(v \o <<m>>, g, t) /\ g[0] = h[0]
               /\ Answers(v \o <<m>>) <=> Answers(v) \/ Answer(m)
               /\ Parts(v \o <<m>>, g) <=> Parts(v, h) \/ OwnPart(m, t)
               /\ Outs(v \o <<m>>, g) <=> Outs(v, h) \/ ~t.in
               /\ /\ Streams(v, b, h)
                  /\ Answer(m) => ~Waiting(v, b) /\ ~Asks(b, "PART")
                  /\ OwnPart(m, t) => ~Answers(v)
                  => Streams(v \o <<m>>, b, g)
    BY <2>3, Told
  <2> QED BY <2>1, <2>2, <2>4, <2>5
<1>9. username' = g[0].nick
  BY <1>1, <1>3, <1>8 DEF Sound
<1>10. ASSUME ~hurried PROVE Streams(wire', back', g) /\ Client(wire, back, g)'
  <2>1. Streams(wire, back, h) /\ Client(wire, back, h)
    BY <1>1, <1>10 DEF Sound
  <2>2. OwnPart(m, Server') => ~Answers(wire)
    BY <1>5, <2>1 DEF Streams
  <2>3. Streams(wire', back', g)
    BY <1>5, <1>8, <2>1, <2>2
  <2>4. Waiting(wire', back') => Waiting(wire, back)
    BY <1>5, <1>8 DEF Waiting
  <2>5. /\ Asks(back', "PART") => Asks(back, "PART")
        /\ Parts(wire', g) => Parts(wire, h) \/ Asks(back, "PART")
        /\ Asks(back, "PART") \/ Outs(wire, h) => Asks(back', "PART") \/ Outs(wire', g)
    BY <1>4, <1>5, <1>8
  <2>6. Follows(g)'
    BY <1>3, <1>8, <2>1 DEF Client, Follows
  <2>7. Client(wire, back, g)'
    BY <1>3, <1>8, <2>1, <2>4, <2>5, <2>6 DEF Client
  <2> QED BY <2>3, <2>7
<1>11. Sound(g)'
  BY <1>3, <1>8, <1>9, <1>10 DEF Sound
<1> QED BY <1>6, <1>11 DEF IInv

LEMMA ServerSilent ==
    ASSUME IInv, UNCHANGED client, us' = us, Ops(members'), wire' = wire, back' = back, ~In, ~In'
    PROVE  IInv'
<1>1. PICK h : Sound(h)
  BY DEF IInv
<1>2. Basics
  BY DEF IInv
<1>3. /\ wire \in Seq(Msg) /\ us \in Nicks
      /\ UNCHANGED <<online, world, window, chat, joined, user_list, username, left, stale, hurried>>
  BY <1>2 DEF Basics, client, room, marks
<1>4. Server' \in Snap /\ Server'.in = In' /\ Server.in = In
      /\ Server'.nick = Server.nick /\ Server'.fresh = Server.fresh
  <2>1. In' \in BOOLEAN /\ (In' => us' \in DOMAIN members')
    BY DEF In
  <2> HIDE DEF In
  <2>2. [nick |-> us', in |-> In', fresh |-> FALSE, ops |-> members'] \in Snap
    BY <1>3, <2>1, SnapIs
  <2> QED BY <2>2 DEF Server
<1>5. Basics'
  BY <1>2, <1>3 DEF Basics
<1>6. History(wire, h, Server)
  BY <1>1 DEF Sound
<1>7. PICK g : /\ History(wire, g, Server') /\ g[0].in = h[0].in /\ g[0].nick = h[0].nick
               /\ h[0].in => g[0] = h[0]
               /\ Parts(wire, g) <=> Parts(wire, h)
               /\ Outs(wire, g) <=> Outs(wire, h)
               /\ \A b : Streams(wire, b, h) => Streams(wire, b, g)
  <2> HIDE DEF Server
  <2> QED BY <1>3, <1>4, <1>6, Untold
<1>8. username' = g[0].nick
  BY <1>1, <1>3, <1>7 DEF Sound
<1>9. ASSUME ~hurried PROVE Streams(wire, back, g) /\ Client(wire, back, g)'
  <2>1. Streams(wire, back, h) /\ Client(wire, back, h)
    BY <1>1, <1>9 DEF Sound
  <2>2. Follows(g)'
    BY <1>3, <1>7, <2>1 DEF Client, Follows
  <2>3. Client(wire, back, g)'
    BY <1>3, <1>7, <2>1, <2>2 DEF Client
  <2> QED BY <1>7, <2>1, <2>3
<1>10. Sound(g)'
  BY <1>3, <1>7, <1>8, <1>9 DEF Sound
<1> QED BY <1>5, <1>10 DEF IInv

(* A command that changes nothing.                                         *)
LEMMA Refused ==
    ASSUME IInv, UNCHANGED client, UNCHANGED server, wire' = wire,
           back # <<>>, back' = Tail(back), Head(back) = "PART" => ~In
    PROVE  IInv'
<1>1. PICK h : Sound(h)
  BY DEF IInv
<1>2. Basics
  BY DEF IInv
<1>3. /\ wire \in Seq(Msg) /\ back \in Seq(Command) /\ us' = us /\ members' = members
      /\ UNCHANGED <<online, world, window, chat, joined, user_list, username, left, stale, hurried>>
  BY <1>2 DEF Basics, client, server, room, marks
<1>4. /\ back' \in Seq(Command)
      /\ \A d : Asks(back', d) => Asks(back, d)
      /\ \A d : Asks(back, d) => Asks(back', d) \/ d = Head(back)
      /\ Streams(wire, back, h) => Streams(wire, back', h)
  BY <1>3, Taken
<1>5. Basics' /\ Server' = Server
  BY <1>2, <1>3, <1>4 DEF Basics, In, Server
<1>6. History(wire, h, Server) /\ username = h[0].nick
  BY <1>1 DEF Sound
<1>7. ASSUME ~hurried PROVE Streams(wire, back', h) /\ Client(wire, back, h)'
  <2>1. Streams(wire, back, h) /\ Client(wire, back, h)
    BY <1>1, <1>7 DEF Sound
  <2>2. Head(back) = "PART" => Outs(wire, h) \/ ~h[0].in
    BY <1>3, <1>6, OutsNow DEF Server
  <2>3. Waiting(wire, back') => Waiting(wire, back)
    BY <1>4 DEF Waiting
  <2>4. Follows(h)'
    BY <1>3, <2>1 DEF Client, Follows
  <2>5. Client(wire, back, h)'
    BY <1>3, <1>4, <2>1, <2>2, <2>3, <2>4 DEF Client
  <2> QED BY <1>4, <2>1, <2>5
<1>8. Sound(h)'
  BY <1>3, <1>5, <1>6, <1>7 DEF Sound
<1> QED BY <1>5, <1>8 DEF IInv

LEMMA TellsIfIs ==
    ASSUME Basics, NEW told \in BOOLEAN, NEW m, TellsIf(told, m)
    PROVE  /\ told /\ online => wire' = wire \o <<m>>
           /\ ~told \/ ~online => wire' = wire
<1>1. wire \in Seq(Msg) /\ wire \o <<>> = wire
  BY ConcatEmptySeq DEF Basics
<1> QED BY <1>1 DEF TellsIf, Tells

LEMMA MsgIs == ASSUME NEW k \in Kinds, NEW n \in Nicks, NEW r \in Texts
               PROVE  /\ Message(k, n, r) \in Msg /\ Message(k, n, r).kind = k
                      /\ Message(k, n, r).nick = n /\ Message(k, n, r).rest = r
BY DEF Message, Msg

(* What the others do, told of if the client is in the channel.            *)
LEMMA OthersAct ==
    ASSUME IInv, UNCHANGED client, us' = us, Ops(members'), back' = back, In' = In,
           NEW m \in Msg, TellsIf(In, m), In => News(m, Server, Server'), ~Answer(m)
    PROVE  IInv'
<1>1. Basics /\ In \in BOOLEAN
  BY DEF IInv, In
<1>2. us' \in Nicks /\ (In => online)
  BY <1>1 DEF Basics
<1>3. CASE In
  <2>1. wire' = wire \o <<m>> /\ online
    BY <1>1, <1>2, <1>3, TellsIfIs
  <2>2. ~OwnPart(m, Server')
    BY <1>3 DEF OwnPart, Server
  <2> QED BY <1>2, <1>3, <2>1, <2>2, ServerTells
<1>4. CASE ~In
  <2>1. wire' = wire
    BY <1>1, <1>4, TellsIfIs
  <2> QED BY <1>4, <2>1, ServerSilent
<1> QED BY <1>3, <1>4

LEMMA ArriveInv == ASSUME IInv, NEW n \in Nicks, Arrive(n) PROVE IInv'
<1> DEFINE m == Message("JOIN", n, "news")
<1>1. Basics /\ UNCHANGED client /\ us' = us /\ back' = back /\ TellsIf(In, m)
  BY DEF IInv, Arrive
<1>2. n # us /\ n \notin DOMAIN members /\ members' = Plus(members, n, FALSE)
  BY DEF Arrive, Others, With, Plus
<1>3. Ops(members') /\ DOMAIN members' = DOMAIN members \cup {n}
  BY <1>1, <1>2, OpsPlus DEF Basics
<1>4. In' = In
  <2>1. In' <=> In
    BY <1>1, <1>2, <1>3 DEF In
  <2> QED BY <2>1 DEF In
<1>5. m \in Msg /\ m.kind = "JOIN" /\ m.nick = n /\ m.rest = "news"
  <2>1. "news" \in Texts
    BY DEF Texts
  <2> QED BY <2>1, MsgIs DEF Kinds
<1> HIDE DEF m
<1>6. Arrived(m, Server, Server') \/ ~In
  BY <1>1, <1>2, <1>4, <1>5 DEF Arrived, Server, Calm
<1> QED BY <1>1, <1>3, <1>4, <1>5, <1>6, OthersAct DEF News, Answer

LEMMA DepartInv == ASSUME IInv, NEW n \in Nicks, Depart(n) PROVE IInv'
<1>1. PICK kind \in {"PART", "KICK", "QUIT"} : TellsIf(In, Message(kind, n, "news"))
  BY DEF Depart
<1> DEFINE m == Message(kind, n, "news")
<1>2. Basics /\ UNCHANGED client /\ us' = us /\ back' = back /\ TellsIf(In, m)
  BY <1>1 DEF IInv, Depart
<1>3. n # us /\ n \in DOMAIN members /\ members' = Minus(members, n)
  BY DEF Depart, Others, Without, Minus
<1>4. Ops(members') /\ DOMAIN members' = DOMAIN members \ {n}
  BY <1>2, <1>3, OpsMinus DEF Basics
<1>5. In' = In
  <2>1. In' <=> In
    BY <1>2, <1>3, <1>4 DEF In
  <2> QED BY <2>1 DEF In
<1>6. m \in Msg /\ m.kind \in {"PART", "KICK", "QUIT"} /\ m.nick = n /\ m.rest = "news"
  <2>1. "news" \in Texts
    BY DEF Texts
  <2> QED BY <2>1, MsgIs DEF Kinds
<1> HIDE DEF m
<1>7. Departed(m, Server, Server') \/ ~In
  BY <1>2, <1>3, <1>5, <1>6 DEF Departed, Server, Calm
<1> QED BY <1>2, <1>4, <1>5, <1>6, <1>7, OthersAct DEF News, Answer

LEMMA SetModeInv == ASSUME IInv, NEW n \in Nicks, SetMode(n) PROVE IInv'
<1> DEFINE op == ~members[n]
           m  == Message("MODE", n, op)
<1>1. Basics /\ UNCHANGED client /\ us' = us /\ back' = back /\ TellsIf(In, m)
  BY DEF IInv, SetMode
<1>2. n \in DOMAIN members /\ members' = Plus(members, n, op) /\ op \in BOOLEAN
  BY DEF SetMode, With, Plus
<1> HIDE DEF op
<1>3. Ops(members') /\ DOMAIN members' = DOMAIN members \cup {n}
  BY <1>1, <1>2, OpsPlus DEF Basics
<1>4. In' = In
  <2>1. In' <=> In
    BY <1>1, <1>2, <1>3 DEF In
  <2> QED BY <2>1 DEF In
<1>5. m \in Msg /\ m.kind = "MODE" /\ m.nick = n /\ m.rest = op
  <2>1. op \in Texts
    BY <1>2 DEF Texts
  <2> QED BY <2>1, MsgIs DEF Kinds
<1> HIDE DEF m
<1>6. Changed(m, Server, Server') \/ ~In
  BY <1>1, <1>2, <1>4, <1>5 DEF Changed, Server, Calm
<1> QED BY <1>1, <1>3, <1>4, <1>5, <1>6, OthersAct DEF News, Answer

LEMMA KickInv == ASSUME IInv, Kick PROVE IInv'
<1> DEFINE m == Message("KICK", us, "news")
<1>1. /\ Basics /\ UNCHANGED client /\ us' = us /\ back' = back /\ In /\ online
      /\ wire' = wire \o <<m>>
  BY DEF IInv, Kick, Tells
<1>2. members' = Minus(members, us) /\ us \in Nicks
  BY <1>1 DEF Kick, Without, Minus, Basics
<1>3. Ops(members') /\ DOMAIN members' = DOMAIN members \ {us}
  BY <1>1, <1>2, OpsMinus DEF Basics
<1>4. ~In'
  BY <1>1, <1>3 DEF In
<1>5. m \in Msg /\ m.kind = "KICK" /\ m.nick = us
  <2>1. "news" \in Texts
    BY DEF Texts
  <2> QED BY <1>2, <2>1, MsgIs DEF Kinds
<1> HIDE DEF m
<1>6. Removed(m, Server, Server')
  BY <1>1, <1>4, <1>5 DEF Removed, Server, Calm
<1>7. ~Answer(m) /\ ~OwnPart(m, Server')
  BY <1>5 DEF Answer, OwnPart
<1> QED BY <1>1, <1>2, <1>3, <1>5, <1>6, <1>7, ServerTells DEF News

LEMMA RenameInv == ASSUME IInv, NEW n \in Nicks, NEW new \in Nicks, Rename(n, new) PROVE IInv'
<1> DEFINE m == Message("NICK", n, new)
<1>1. Basics /\ UNCHANGED client /\ back' = back /\ TellsIf(In \/ n = us, m)
  BY DEF IInv, Rename
<1>2. new # us /\ new \notin DOMAIN members /\ n \in DOMAIN members \cup {us} /\ (online \/ n # us)
  BY DEF Rename, Others
<1>3. us' = (IF n = us THEN new ELSE us) /\ us' \in Nicks
  BY <1>1 DEF Rename, Basics
<1>4. /\ n \in DOMAIN members => members' = Renamed(members, n, new)
      /\ n \notin DOMAIN members => members' = members
  BY <1>2 DEF Rename, Renamed
<1>5. /\ Ops(members')
      /\ n \in DOMAIN members => DOMAIN members' = (DOMAIN members \ {n}) \cup {new}
  <2>1. Ops(members)
    BY <1>1 DEF Basics
  <2>2. CASE n \in DOMAIN members
    BY <1>4, <2>1, <2>2, OpsRenamed
  <2>3. CASE n \notin DOMAIN members
    BY <1>4, <2>1, <2>3
  <2> QED BY <2>2, <2>3
<1>6. In' = In
  <2>1. CASE n \in DOMAIN members
    BY <1>2, <1>3, <1>5, <2>1 DEF In
  <2>2. CASE n \notin DOMAIN members
    <3>1. In' <=> In
      BY <1>2, <1>3, <1>4, <2>2 DEF In
    <3> QED BY <3>1 DEF In
  <2> QED BY <2>1, <2>2
<1>7. m \in Msg /\ m.kind = "NICK" /\ m.nick = n /\ m.rest = new
  <2>1. new \in Texts
    BY DEF Texts
  <2> QED BY <2>1, MsgIs DEF Kinds
<1> HIDE DEF m
<1>8. ASSUME In \/ n = us PROVE NewNick(m, Server, Server')
  <2>1. /\ In => n \in DOMAIN members
        /\ ~In => n = us
    BY <1>2, <1>8 DEF In
  <2> QED BY <1>2, <1>3, <1>4, <1>6, <1>7, <2>1 DEF NewNick, Server, Calm
<1>9. CASE In \/ n = us
  <2>1. online
    BY <1>1, <1>2, <1>9 DEF Basics
  <2>2. wire' = wire \o <<m>>
    BY <1>1, <1>9, <2>1, TellsIfIs
  <2>3. ~Answer(m) /\ ~OwnPart(m, Server')
    BY <1>7 DEF Answer, OwnPart
  <2> QED BY <1>1, <1>3, <1>5, <1>7, <1>8, <1>9, <2>1, <2>2, <2>3, ServerTells DEF News
<1>10. CASE ~(In \/ n = us)
  <2>1. wire' = wire
    BY <1>1, <1>10, TellsIfIs DEF In
  <2> QED BY <1>1, <1>3, <1>5, <1>6, <1>10, <2>1, ServerSilent
<1> QED BY <1>9, <1>10

LEMMA NamesTold ==
    ASSUME Basics, NEW line \in Lines(members)
    PROVE  Message("353", us, line) \in Msg /\ line \in Seq(Item)
<1>1. line \in Seq(Item) /\ us \in Nicks
  BY LineIs DEF Basics
<1>2. line \in Texts
  BY <1>1 DEF Texts
<1> QED BY <1>1, <1>2, MsgIs DEF Kinds

(* A JOIN is granted: the answer, and the names.                           *)
LEMMA GrantedInv ==
    ASSUME IInv, UNCHANGED client, us' = us, back # <<>>, back' = Tail(back),
           Head(back) = "JOIN", ~In, members' = With(us, members = <<>>),
           NEW line \in Lines(members'),
           Tells(<<Message("JOIN", us, "answer"), Message("353", us, line)>>)
    PROVE  IInv'
<1> DEFINE m1 == Message("JOIN", us, "answer")
           m2 == Message("353", us, line)
           t  == [nick |-> us, in |-> TRUE, fresh |-> TRUE, ops |-> members']
<1>1. PICK h : Sound(h)
  BY DEF IInv
<1>2. Basics /\ online
  BY DEF IInv, Basics
<1>3. /\ wire \in Seq(Msg) /\ back \in Seq(Command) /\ us \in Nicks
      /\ UNCHANGED <<online, world, window, chat, joined, user_list, username, left, stale, hurried>>
  BY <1>2 DEF Basics, client, room, marks
<1>4. /\ back' \in Seq(Command) /\ Asks(back, "JOIN")
      /\ \A d : Asks(back', d) => Asks(back, d)
      /\ \A d : Asks(back, d) => Asks(back', d) \/ d = "JOIN"
      /\ Streams(wire, back, h) =>
            Streams(wire, back', h) /\ ~Asks(back', "JOIN") /\ ~Asks(back', "PART")
  BY <1>3, Taken
<1>5. PICK op \in BOOLEAN : members' = Plus(members, us, op)
  <2>1. CASE members = <<>>
    <3>1. members' = Plus(members, us, TRUE)
      BY <2>1 DEF With, Plus
    <3> QED BY <3>1
  <2>2. CASE members # <<>>
    <3>1. members' = Plus(members, us, FALSE)
      BY <2>2 DEF With, Plus
    <3> QED BY <3>1
  <2> QED BY <2>1, <2>2
<1>6. Ops(members') /\ DOMAIN members' = DOMAIN members \cup {us}
  <2>1. Ops(members)
    BY <1>2 DEF Basics
  <2>2. us \in Nicks
    BY <1>3
  <2>3. /\ Ops(Plus(members, us, op))
        /\ DOMAIN Plus(members, us, op) = DOMAIN members \cup {us}
    BY <2>1, <2>2, OpsPlus
  <2> QED BY <1>5, <2>3
<1>7. In' /\ Server.in = In
  BY <1>6 DEF In, Server
<1>8. /\ t \in Snap /\ Server' \in Snap /\ Server'.fresh = FALSE
      /\ Server'.nick = t.nick /\ Server'.in = t.in /\ Server'.ops = t.ops
  <2>1. us \in DOMAIN members' /\ us' = us
    BY <1>6
  <2>2. [nick |-> us, in |-> TRUE, fresh |-> FALSE, ops |-> members'] \in Snap
    BY <1>3, <1>6, <2>1, SnapIs
  <2>3. t \in Snap
    BY <2>2 DEF Snap
  <2>4. In' = TRUE
    BY <1>7 DEF In
  <2> HIDE DEF In
  <2>5. Server' = [nick |-> us, in |-> TRUE, fresh |-> FALSE, ops |-> members']
    BY <2>1, <2>4 DEF Server
  <2> QED BY <2>2, <2>3, <2>5
<1>9. /\ m1 \in Msg /\ m1.kind = "JOIN" /\ m1.nick = us /\ m1.rest = "answer"
      /\ m2 \in Msg /\ m2.kind = "353" /\ m2.nick = us /\ m2.rest = line /\ line \in Seq(Item)
  <2>1. "answer" \in Texts
    BY DEF Texts
  <2>2. m1 \in Msg /\ m1.kind = "JOIN" /\ m1.nick = us /\ m1.rest = "answer"
    BY <1>3, <2>1, MsgIs DEF Kinds
  <2>3. line \in Seq(Item)
    BY <1>6, LineIs
  <2>4. line \in Texts
    BY <2>3 DEF Texts
  <2>5. m2 \in Msg /\ m2.kind = "353" /\ m2.nick = us /\ m2.rest = line
    BY <1>3, <2>4, MsgIs DEF Kinds
  <2> QED BY <2>2, <2>3, <2>5
<1>10. wire' = wire \o <<m1, m2>>
  BY <1>2 DEF Tells
<1> HIDE DEF m1, m2
<1> DEFINE w1 == wire \o <<m1>>
           w2 == w1 \o <<m2>>
<1>11. wire' = w2 /\ w1 \in Seq(Msg) /\ w2 \in Seq(Msg)
  <2>1. <<m1>> \in Seq(Msg) /\ <<m2>> \in Seq(Msg) /\ <<m1>> \o <<m2>> = <<m1, m2>>
    BY <1>9, PairIs
  <2>2. w1 \in Seq(Msg)
    BY <1>3, <1>9, Behind
  <2>3. w2 \in Seq(Msg)
    BY <1>9, <2>2, Behind
  <2>4. (wire \o <<m1>>) \o <<m2>> = wire \o (<<m1>> \o <<m2>>)
    BY <1>3, <2>1, ConcatAssociative
  <2> QED BY <1>10, <2>1, <2>2, <2>3, <2>4
<1>12. History(wire, h, Server)
  BY <1>1 DEF Sound
<1>13. News(m1, Server, t)
  BY <1>7, <1>9 DEF News, Answered, Answer, Server
<1>14. News(m2, t, Server')
  BY <1>8, <1>9 DEF News, Listed
<1>15. ~OwnPart(m1, t) /\ ~OwnPart(m2, Server') /\ Answer(m1) /\ ~Answer(m2) /\ t.in /\ Server'.in
  BY <1>8, <1>9 DEF OwnPart, Answer
<1> HIDE DEF t, w1, w2
<1>16. PICK f : /\ History(w1, f, t) /\ f[0] = h[0]
                /\ Answers(w1) <=> Answers(wire) \/ Answer(m1)
                /\ Parts(w1, f) <=> Parts(wire, h) \/ OwnPart(m1, t)
                /\ Outs(w1, f) <=> Outs(wire, h) \/ ~t.in
                /\ /\ Streams(wire, back', h)
                   /\ Answer(m1) => ~Waiting(wire, back') /\ ~Asks(back', "PART")
                   /\ OwnPart(m1, t) => ~Answers(wire)
                   => Streams(w1, back', f)
  <2> HIDE DEF Server
  <2> USE DEF w1
  <2>1. History(wire, h, Server) /\ t \in Snap /\ m1 \in Msg /\ wire \in Seq(Msg)
        /\ News(m1, Server, t)
    BY <1>3, <1>8, <1>9, <1>12, <1>13
  <2> QED BY <2>1, Told
<1>17. PICK g : /\ History(w2, g, Server') /\ g[0] = f[0]
                /\ Answers(w2) <=> Answers(w1) \/ Answer(m2)
                /\ Parts(w2, g) <=> Parts(w1, f) \/ OwnPart(m2, Server')
                /\ Outs(w2, g) <=> Outs(w1, f) \/ ~Server'.in
                /\ /\ Streams(w1, back', f)
                   /\ Answer(m2) => ~Waiting(w1, back') /\ ~Asks(back', "PART")
                   /\ OwnPart(m2, Server') => ~Answers(w1)
                   => Streams(w2, back', g)
  <2> HIDE DEF Server
  <2> USE DEF w2
  <2>1. History(w1, f, t) /\ Server' \in Snap /\ m2 \in Msg /\ w1 \in Seq(Msg)
        /\ News(m2, t, Server')
    BY <1>8, <1>9, <1>11, <1>14, <1>16
  <2> QED BY <2>1, Told
<1>18. Basics'
  BY <1>2, <1>3, <1>4, <1>6, <1>11 DEF Basics
<1>19. ASSUME ~hurried PROVE Streams(w2, back', g) /\ Client(wire, back, g)'
  <2>1. Streams(wire, back, h) /\ Client(wire, back, h)
    BY <1>1, <1>19 DEF Sound
  <2>2. ~Answers(wire)
    BY <1>4, <2>1 DEF Streams
  <2>3. Streams(w2, back', g)
    BY <1>4, <1>15, <1>16, <1>17, <2>1, <2>2 DEF Waiting
  <2>4. Waiting(wire, back)
    BY <1>4 DEF Waiting
  <2>5. g[0] = h[0] /\ (Parts(wire', g) => Parts(wire, h)) /\ (Outs(wire, h) => Outs(wire', g))
    BY <1>11, <1>15, <1>16, <1>17
  <2>6. Follows(g)'
    BY <1>3, <2>1, <2>5 DEF Client, Follows
  <2>7. Client(wire, back, g)'
    BY <1>3, <1>4, <2>1, <2>4, <2>5, <2>6 DEF Client
  <2> QED BY <2>3, <2>7
<1>20. username' = g[0].nick
  BY <1>1, <1>3, <1>16, <1>17 DEF Sound
<1>21. Sound(g)'
  BY <1>3, <1>11, <1>17, <1>19, <1>20 DEF Sound
<1> QED BY <1>18, <1>21 DEF IInv

LEMMA ObeyInv == ASSUME IInv, Obey PROVE IInv'
<1>1. /\ Basics /\ UNCHANGED client /\ us' = us /\ back # <<>> /\ back' = Tail(back)
      /\ back \in Seq(Command)
  BY DEF IInv, Obey, Basics
<1>2. online /\ us \in Nicks /\ us' \in Nicks /\ Ops(members) /\ wire \in Seq(Msg)
  BY <1>1 DEF Basics
<1>3. CASE Head(back) = "JOIN" /\ ~In /\ members' = With(us, members = <<>>)
           /\ \E line \in Lines(members') :
                 Tells(<<Message("JOIN", us, "answer"), Message("353", us, line)>>)
  BY <1>1, <1>3, GrantedInv
<1>4. CASE Head(back) = "JOIN" /\ UNCHANGED <<members, wire>>
  BY <1>1, <1>4, Refused DEF server
<1>5. CASE /\ Head(back) = "PART" /\ In /\ members' = Without(us)
           /\ Tells(<<Message("PART", us, "news")>>)
  <2> DEFINE m == Message("PART", us, "news")
  <2>1. wire' = wire \o <<m>>
    BY <1>2, <1>5 DEF Tells
  <2>2. members' = Minus(members, us)
    BY <1>5 DEF Without, Minus
  <2>3. Ops(members') /\ DOMAIN members' = DOMAIN members \ {us}
    BY <1>2, <2>2, OpsMinus
  <2>4. ~In'
    BY <1>1, <2>3 DEF In
  <2>5. m \in Msg /\ m.kind = "PART" /\ m.nick = us /\ m.rest = "news"
    <3>1. "news" \in Texts
      BY DEF Texts
    <3> QED BY <1>2, <3>1, MsgIs DEF Kinds
  <2> HIDE DEF m
  <2>6. Removed(m, Server, Server')
    BY <1>1, <1>5, <2>4, <2>5 DEF Removed, Server, Calm
  <2>7. News(m, Server, Server') /\ ~Answer(m)
    BY <2>5, <2>6 DEF News, Answer
  <2> QED BY <1>1, <1>2, <1>5, <2>1, <2>3, <2>4, <2>5, <2>7, ServerTells
<1>6. CASE Head(back) = "PART" /\ ~In /\ UNCHANGED <<members, wire>>
  BY <1>1, <1>6, Refused DEF server
<1>7. CASE /\ Head(back) = "NAMES" /\ UNCHANGED members
           /\ \E line \in Lines(members) : Tells(<<Message("353", us, line)>>)
  <2>1. PICK line \in Lines(members) : Tells(<<Message("353", us, line)>>)
    BY <1>7
  <2> DEFINE m == Message("353", us, line)
  <2>2. m \in Msg /\ line \in Seq(Item)
    BY <1>1, NamesTold
  <2>3. m.kind = "353" /\ m.nick = us /\ m.rest = line
    BY DEF Message
  <2>4. wire' = wire \o <<m>>
    BY <1>2, <2>1 DEF Tells
  <2> HIDE DEF m
  <2>5. Server' = Server
    BY <1>1, <1>7 DEF Server, In
  <2>6. Listed(m, Server, Server)
    BY <2>2, <2>3 DEF Listed, Server
  <2>7. News(m, Server, Server') /\ ~Answer(m) /\ ~OwnPart(m, Server')
    BY <2>3, <2>5, <2>6 DEF News, Answer, OwnPart
  <2>8. Ops(members')
    BY <1>2, <1>7
  <2> QED BY <1>1, <1>2, <1>7, <2>2, <2>4, <2>7, <2>8, ServerTells
<1> QED BY <1>3, <1>4, <1>5, <1>6, <1>7 DEF Obey

LEMMA DropInv == ASSUME IInv, Drop PROVE IInv'
<1>1. PICK h : Sound(h)
  BY DEF IInv
<1>2. /\ Basics /\ wire' = <<>> /\ back' = <<>> /\ us' = username /\ ~online' /\ stale' = chat
      /\ members' = Minus(members, us) /\ us' \notin DOMAIN members' /\ online' \in BOOLEAN
      /\ UNCHANGED <<window, chat, joined, user_list, username, left, hurried>>
  BY DEF IInv, Drop, Without, Minus, room
<1>3. Ops(members') /\ ~In'
  BY <1>2, OpsMinus DEF Basics, In
<1>4. Basics'
  BY <1>2, <1>3 DEF Basics
<1>5. Server' \in Snap /\ Server'.nick = us' /\ ~Server'.in
  <2>1. us' \in Nicks
    BY <1>2 DEF Basics
  <2>2. In' = FALSE
    BY <1>3 DEF In
  <2> HIDE DEF In
  <2>3. Server' = [nick |-> us', in |-> FALSE, fresh |-> FALSE, ops |-> members']
    BY <2>2 DEF Server
  <2>4. [nick |-> us', in |-> FALSE, fresh |-> FALSE, ops |-> members'] \in Snap
    BY <1>3, <2>1, SnapIs
  <2> QED BY <2>3, <2>4
<1>6. Len(<<>>) = 0 /\ \A i \in 1 .. 0 : FALSE
  OBVIOUS
<1>7. PICK g : g \in [Nat -> Snap] /\ g[0] = Server'
  <2> DEFINE s == Server'
  <2>1. s \in Snap
    BY <1>5
  <2> HIDE DEF s
  <2>2. [i \in Nat |-> s] \in [Nat -> Snap] /\ [i \in Nat |-> s][0] = s
    BY <2>1
  <2>3. \E f : f \in [Nat -> Snap] /\ f[0] = s
    BY <2>2
  <2> QED BY <2>3 DEF s
<1>8. History(<<>>, g, Server')
  BY <1>6, <1>7 DEF History
<1>9. /\ ~Waiting(<<>>, <<>>) /\ ~Asks(<<>>, "PART") /\ ~Parts(<<>>, g)
      /\ Streams(<<>>, <<>>, g)
  BY <1>6 DEF Waiting, Asks, Answers, Parts, Streams, Commands, Replies
<1>10. ASSUME ~hurried PROVE Client(wire, back, g)'
  <2>1. Client(wire, back, h)
    BY <1>1, <1>10 DEF Sound
  <2>2. ~g[0].in
    BY <1>5, <1>7
  <2>3. Follows(g)'
    BY <1>2 DEF Follows
  <2> QED BY <1>2, <1>9, <2>1, <2>2, <2>3 DEF Client
<1>11. Sound(g)'
  BY <1>2, <1>5, <1>7, <1>8, <1>9, <1>10 DEF Sound
<1> QED BY <1>4, <1>11 DEF IInv

LEMMA ReconnectedInv == ASSUME IInv, Reconnected PROVE IInv'
<1>1. PICK h : Sound(h)
  BY DEF IInv
<1>2. /\ Basics /\ ~online /\ online' /\ UNCHANGED <<us, members, wire>>
      /\ back' = (IF chat THEN <<"JOIN">> ELSE <<>>) /\ online' \in BOOLEAN
      /\ UNCHANGED <<window, chat, joined, user_list, username, left, stale, hurried>>
  BY DEF IInv, Reconnected, server, room, marks
<1>3. wire = <<>> /\ back = <<>> /\ ~In
  BY <1>2 DEF Basics
<1>4. Len(<<>>) = 0 /\ \A i \in 1 .. 0 : FALSE
  OBVIOUS
<1>5. Server' = Server
  BY <1>2 DEF Server, In
<1>6. History(wire, h, Server) /\ username = h[0].nick
  BY <1>1 DEF Sound
<1>7. ~h[0].in
  BY <1>3, <1>4, <1>6 DEF History, Server
<1>8. back' \in Seq(Command)
  <2>1. "JOIN" \in Command
    BY DEF Command
  <2>2. <<"JOIN">> \in Seq(Command) /\ <<>> \in Seq(Command)
    BY <2>1
  <2> QED BY <1>2, <2>2
<1>9. Basics'
  BY <1>2, <1>8 DEF Basics
<1>10. ~Answers(<<>>) /\ ~Parts(<<>>, h) /\ Replies(<<>>, h)
  BY <1>4 DEF Answers, Parts, Replies
<1>11. Commands(back') /\ ~Asks(back', "PART") /\ (Asks(back', "JOIN") => chat)
  <2>1. CASE chat
    <3>1. /\ Len(<<"JOIN">>) = 1 /\ <<"JOIN">>[1] = "JOIN"
          /\ \A i \in 1 .. 1 : i = 1
      OBVIOUS
    <3> QED BY <1>2, <2>1, <3>1 DEF Commands, Asks
  <2>2. CASE ~chat
    BY <1>2, <1>4, <2>2 DEF Commands, Asks
  <2> QED BY <2>1, <2>2
<1>12. Streams(wire', back', h)
  BY <1>2, <1>3, <1>10, <1>11 DEF Streams
<1>13. ASSUME ~hurried PROVE Client(wire, back, h)'
  <2>1. Client(wire, back, h)
    BY <1>1, <1>13 DEF Sound
  <2>2. chat => stale
    BY <1>7, <2>1 DEF Client, Follows
  <2>3. Follows(h)'
    BY <1>2, <2>2 DEF Follows
  <2> QED BY <1>2, <1>3, <1>7, <1>10, <1>11, <2>1, <2>2, <2>3 DEF Client, Waiting
<1>14. Sound(h)'
  BY <1>2, <1>5, <1>6, <1>12, <1>13 DEF Sound
<1> QED BY <1>9, <1>14 DEF IInv

-----------------------------------------------------------------------------
(* The user.                                                               *)
LEMMA JoinInv == ASSUME IInv, Join PROVE IInv'
<1>1. PICK h : Sound(h)
  BY DEF IInv
<1>2. /\ Basics /\ online /\ back' = back \o <<"JOIN">> /\ window' /\ window' \in BOOLEAN
      /\ ~left' /\ left' \in BOOLEAN
      /\ hurried' = (hurried \/ chat \/ Joining)
      /\ UNCHANGED <<us, members, online, wire, chat, joined, user_list, username, stale>>
  BY DEF IInv, Join, Sends, server
<1>3. wire \in Seq(Msg) /\ back \in Seq(Command) /\ "JOIN" \in Command
  BY <1>2 DEF Basics, Command
<1>4. hurried' \in BOOLEAN
  BY <1>2
<1>5. back' \in Seq(Command)
  BY <1>2, <1>3, Behind
<1>6. Basics' /\ Server' = Server
  BY <1>2, <1>4, <1>5 DEF Basics, In, Server
<1>7. ASSUME ~hurried' PROVE Streams(wire, back', h) /\ Client(wire, back, h)'
  <2>1. ~chat /\ ~Waiting(wire, back) /\ ~hurried
    BY <1>2, <1>3, <1>7, JoiningIs
  <2>2. Streams(wire, back, h) /\ Client(wire, back, h)
    BY <1>1, <2>1 DEF Sound
  <2>3. Streams(wire, back', h) /\ \A d : Asks(back', d) <=> Asks(back, d) \/ d = "JOIN"
    BY <1>2, <1>3, <2>1, <2>2, Sent
  <2>4. Follows(h)'
    BY <1>2, <2>1 DEF Follows
  <2> QED BY <1>2, <2>1, <2>2, <2>3, <2>4 DEF Client
<1>8. Sound(h)'
  BY <1>1, <1>2, <1>6, <1>7 DEF Sound
<1> QED BY <1>6, <1>8 DEF IInv

LEMMA LeaveInv == ASSUME IInv, Leave PROVE IInv'
<1>1. PICK h : Sound(h)
  BY DEF IInv
<1>2. /\ Basics /\ online /\ back' = back \o <<"PART">>
      /\ world.rough \/ ~Joining
      /\ hurried' = (hurried \/ Joining)
      /\ ~chat' /\ ~joined' /\ user_list' = <<>> /\ ~stale' /\ ~window'
      /\ {chat', joined', stale', window', left', hurried'} \subseteq BOOLEAN
      /\ UNCHANGED <<us, members, online, wire, username>>
  BY DEF IInv, Leave, Sends, server, Waits, NoChat, Basics
<1>3. wire \in Seq(Msg) /\ back \in Seq(Command) /\ "PART" \in Command
  BY <1>2 DEF Basics, Command
<1>4. back' \in Seq(Command)
  BY <1>2, <1>3, Behind
<1>5. Basics' /\ Server' = Server
  BY <1>2, <1>4 DEF Basics, In, Server
<1>6. ASSUME ~hurried' PROVE Streams(wire, back', h) /\ Client(wire, back, h)'
  <2>1. ~Waiting(wire, back) /\ ~hurried
    BY <1>2, <1>3, <1>6, JoiningIs
  <2>2. Streams(wire, back, h) /\ Client(wire, back, h)
    BY <1>1, <2>1 DEF Sound
  <2>3. Streams(wire, back', h) /\ \A d : Asks(back', d) <=> Asks(back, d) \/ d = "PART"
    BY <1>2, <1>3, <2>1, <2>2, Sent
  <2>4. ~Waiting(wire, back')
    BY <2>1, <2>3 DEF Waiting
  <2>5. Follows(h)'
    BY <1>2 DEF Follows
  <2> QED BY <1>2, <2>3, <2>4, <2>5 DEF Client
<1>7. Sound(h)'
  BY <1>1, <1>2, <1>5, <1>6 DEF Sound
<1> QED BY <1>5, <1>7 DEF IInv

LEMMA CloseWindowInv == ASSUME IInv, CloseWindow PROVE IInv'
<1>1. PICK h : Sound(h)
  BY DEF IInv
<1>2. /\ Basics /\ ~chat /\ ~window' /\ window' \in BOOLEAN
      /\ hurried' = (hurried \/ Joining) /\ hurried' \in BOOLEAN
      /\ UNCHANGED <<us, members, online, wire, back, chat, joined, user_list, username, left, stale>>
  BY DEF IInv, CloseWindow, server, Waits, Basics
<1>3. wire \in Seq(Msg) /\ back \in Seq(Command)
  BY <1>2 DEF Basics
<1>4. Basics' /\ Server' = Server
  BY <1>2 DEF Basics, In, Server
<1>5. ASSUME ~hurried' PROVE Streams(wire, back, h) /\ Client(wire, back, h)'
  <2>1. ~Waiting(wire, back) /\ ~hurried
    BY <1>2, <1>3, <1>5, JoiningIs
  <2>2. Streams(wire, back, h) /\ Client(wire, back, h)
    BY <1>1, <2>1 DEF Sound
  <2>3. Follows(h)'
    BY <1>2 DEF Follows
  <2> QED BY <1>2, <2>1, <2>2, <2>3 DEF Client
<1>6. Sound(h)'
  BY <1>1, <1>2, <1>4, <1>5 DEF Sound
<1> QED BY <1>4, <1>6 DEF IInv

LEMMA AskNamesInv == ASSUME IInv, AskNames PROVE IInv'
<1>1. PICK h : Sound(h)
  BY DEF IInv
<1>2. /\ Basics /\ online /\ back' = back \o <<"NAMES">>
      /\ UNCHANGED <<us, members, online, wire, window, chat, joined, user_list, username,
                     left, stale, hurried>>
  BY DEF IInv, AskNames, Sends, server, room, marks
<1>3. wire \in Seq(Msg) /\ back \in Seq(Command) /\ "NAMES" \in Command
  BY <1>2 DEF Basics, Command
<1>4. back' \in Seq(Command)
  BY <1>2, <1>3, Behind
<1>5. Basics' /\ Server' = Server
  BY <1>2, <1>4 DEF Basics, In, Server
<1>6. ASSUME ~hurried PROVE Streams(wire, back', h) /\ Client(wire, back, h)'
  <2>1. Streams(wire, back, h) /\ Client(wire, back, h)
    BY <1>1, <1>6 DEF Sound
  <2>2. Streams(wire, back', h) /\ \A d : Asks(back', d) <=> Asks(back, d) \/ d = "NAMES"
    BY <1>2, <1>3, <2>1, Sent
  <2>3. Follows(h)'
    BY <1>2, <2>1 DEF Client, Follows
  <2> QED BY <1>2, <2>1, <2>2, <2>3 DEF Client, Waiting
<1>7. Sound(h)'
  BY <1>1, <1>2, <1>5, <1>6 DEF Sound
<1> QED BY <1>5, <1>7 DEF IInv

-----------------------------------------------------------------------------
(* The client hears of what the server did.                                *)
LEMMA LeavesAre ==
    ASSUME NEW list \in Seq(User), NEW n \in Nicks, NEW l \in Leaves(list, n)
    PROVE  /\ l \in Seq(User) /\ (list = <<>> => l = <<>> /\ ~chat_find_user(l, n))
           /\ l = list \/ l = Unlisted(list, n)
<1>1. l = list \/ l = Unlisted(list, n)
  BY DEF Leaves
<1>2. Unlisted(list, n) \in Seq(User)
  BY NicksAreNames, UserLists
<1> QED BY <1>1, <1>2, EmptyList

(* The list of users after a message, if it was right before.              *)
LEMMA ListFollows ==
    ASSUME Letters, NEW m \in Msg, NEW s \in Snap, NEW t \in Snap, NEW list,
           IF s.fresh THEN list = <<>> ELSE Agrees(list, s.ops), s.in, NEW l,
           \/ Arrived(m, s, t) /\ l = chat_user_joined(list, m.nick)
           \/ Departed(m, s, t) /\ l = Unlisted(list, m.nick)
           \/ NewNick(m, s, t) /\ l = chat_nick_change(list, m.nick, m.rest)
           \/ Changed(m, s, t) /\ l = WithMode(list, m.nick, m.rest)
           \/ Listed(m, s, t) /\ l = ReadNames(list, m.rest)
    PROVE  t.in /\ ~t.fresh /\ Agrees(l, t.ops)
<1>1. m.nick \in Nicks /\ Ops(s.ops)
  BY DEF Msg, Snap, Ops
<1>2. CASE Arrived(m, s, t) /\ l = chat_user_joined(list, m.nick)
  <2>1. /\ t.in /\ ~t.fresh /\ Agrees(list, s.ops) /\ m.nick \notin DOMAIN s.ops
        /\ t.ops = Plus(s.ops, m.nick, FALSE)
    BY <1>2 DEF Arrived, Calm
  <2> QED BY <1>1, <1>2, <2>1, JoinedAgrees
<1>3. CASE Departed(m, s, t) /\ l = Unlisted(list, m.nick)
  <2>1. /\ t.in /\ ~t.fresh /\ Agrees(list, s.ops) /\ m.nick \in DOMAIN s.ops
        /\ t.ops = Minus(s.ops, m.nick)
    BY <1>3 DEF Departed, Calm
  <2> QED BY <1>1, <1>3, <2>1, UnlistedAgrees
<1>4. CASE NewNick(m, s, t) /\ l = chat_nick_change(list, m.nick, m.rest)
  <2>1. /\ t.in /\ ~t.fresh /\ Agrees(list, s.ops) /\ m.nick \in DOMAIN s.ops
        /\ m.rest \in Nicks /\ m.rest \notin DOMAIN s.ops
        /\ t.ops = Renamed(s.ops, m.nick, m.rest)
    BY <1>4 DEF NewNick, Calm
  <2> QED BY <1>1, <1>4, <2>1, RenamedAgrees
<1>5. CASE Changed(m, s, t) /\ l = WithMode(list, m.nick, m.rest)
  <2>1. /\ t.in /\ ~t.fresh /\ Agrees(list, s.ops) /\ m.nick \in DOMAIN s.ops
        /\ m.rest \in BOOLEAN /\ t.ops = Plus(s.ops, m.nick, m.rest)
    BY <1>5 DEF Changed, Calm
  <2> QED BY <1>1, <1>5, <2>1, ModeAgrees
<1>6. CASE Listed(m, s, t) /\ l = ReadNames(list, m.rest)
  <2>1. t.in /\ ~t.fresh /\ t.ops = s.ops /\ m.rest \in Lines(s.ops)
    BY <1>6 DEF Listed, Snap
  <2>2. CASE s.fresh
    BY <1>1, <1>6, <2>1, <2>2, NamesFill
  <2>3. CASE ~s.fresh
    BY <1>1, <1>6, <2>1, <2>3, NamesKeep
  <2> QED BY <2>2, <2>3
<1> QED BY <1>2, <1>3, <1>4, <1>5, <1>6

(* What is common to all messages but the answer to a JOIN.                *)
LEMMA HeardInv ==
    ASSUME Basics, NEW h, Sound(h), wire # <<>>, wire' = Tail(wire),
           UNCHANGED <<us, members, online, left, hurried, back, window, chat>>,
           ~Answer(Head(wire)), h[1].in => h[0].in,
           username' = h[1].nick, username' \in Nicks, user_list' \in Seq(User),
           joined' \in BOOLEAN, stale' \in BOOLEAN, stale => stale',
           ~chat => user_list' = <<>> /\ ~joined' /\ ~stale',
           ~hurried /\ chat /\ ~stale' => Follows(Later(h))'
    PROVE  IInv'
<1> DEFINE g == Later(h)
<1>1. wire \in Seq(Msg) /\ History(wire, h, Server)
  BY DEF Basics, Sound
<1>2. /\ Tail(wire) \in Seq(Msg) /\ History(Tail(wire), g, Server) /\ g[0] = h[1]
      /\ Waiting(Tail(wire), back) => Waiting(wire, back)
      /\ Parts(Tail(wire), g) => Parts(wire, h)
      /\ Outs(wire, h) /\ h[1].in => Outs(Tail(wire), g)
      /\ Streams(wire, back, h) => Streams(Tail(wire), back, g)
  BY <1>1, Heard
<1> HIDE DEF g
<1>3. Basics' /\ Server' = Server
  BY <1>2 DEF Basics, In, Server
<1>4. ASSUME ~hurried PROVE Streams(wire', back', g) /\ Client(wire, back, g)'
  <2>1. Streams(wire, back, h) /\ Client(wire, back, h)
    BY <1>4 DEF Sound
  <2>2. Follows(g)'
    <3>1. CASE chat /\ ~stale'
      BY <1>4, <3>1 DEF g
    <3>2. CASE ~(chat /\ ~stale')
      BY <3>2 DEF Follows
    <3> QED BY <3>1, <3>2
  <2>3. Client(wire, back, g)'
    BY <1>2, <2>1, <2>2 DEF Client
  <2> QED BY <1>2, <2>1, <2>3
<1>5. Sound(g)'
  BY <1>2, <1>3, <1>4 DEF Sound
<1> QED BY <1>3, <1>5 DEF IInv

LEMMA NewsFollows ==
    ASSUME NEW h, h[0] \in Snap, h[1] \in Snap, NEW m \in Msg, Follows(h),
           chat, ~stale', stale => stale', UNCHANGED <<chat, joined>>,
           \/ Arrived(m, h[0], h[1]) /\ user_list' = chat_user_joined(user_list, m.nick)
           \/ Departed(m, h[0], h[1]) /\ user_list' = Unlisted(user_list, m.nick)
           \/ NewNick(m, h[0], h[1]) /\ user_list' = chat_nick_change(user_list, m.nick, m.rest)
           \/ Changed(m, h[0], h[1]) /\ user_list' = WithMode(user_list, m.nick, m.rest)
           \/ Listed(m, h[0], h[1]) /\ user_list' = ReadNames(user_list, m.rest)
    PROVE  Follows(Later(h))'
<1>1. /\ h[0].in /\ joined
      /\ Letters => IF h[0].fresh THEN user_list = <<>> ELSE Agrees(user_list, h[0].ops)
  BY DEF Follows
<1>2. h[1].in
  BY <1>1 DEF Arrived, Departed, NewNick, Changed, Listed
<1>3. Letters => ~h[1].fresh /\ Agrees(user_list', h[1].ops)
  BY <1>1, ListFollows
<1>4. Later(h)[0] = h[1]
  BY DEF Later
<1> QED BY <1>1, <1>2, <1>3, <1>4 DEF Follows

LEMMA ReceiveInv == ASSUME IInv, Receive PROVE IInv'
<1> DEFINE m == Head(wire)
<1>1. PICK h : Sound(h)
  BY DEF IInv
<1> DEFINE s == h[0]
           t == h[1]
           g == Later(h)
<1>2. /\ Basics /\ wire # <<>> /\ wire' = Tail(wire) /\ Handler(m)
      /\ UNCHANGED <<us, members, online, left, hurried>>
  BY DEF IInv, Receive, server
<1>3. /\ wire \in Seq(Msg) /\ back \in Seq(Command) /\ online /\ user_list \in Seq(User)
      /\ username \in Nicks /\ History(wire, h, Server) /\ username = s.nick
      /\ ~chat => user_list = <<>> /\ ~joined /\ ~stale
      /\ {window, chat, joined, stale} \subseteq BOOLEAN
  BY <1>1, <1>2 DEF Basics, Sound
<1>4. /\ m \in Msg /\ News(m, s, t) /\ Tail(wire) \in Seq(Msg)
      /\ History(Tail(wire), g, Server) /\ g[0] = t
      /\ Waiting(Tail(wire), back) => Waiting(wire, back)
      /\ Parts(Tail(wire), g) => Parts(wire, h)
      /\ Outs(wire, h) /\ t.in => Outs(Tail(wire), g)
      /\ OwnPart(m, t) => Parts(wire, h)
      /\ Answer(m) => Waiting(wire, back)
      /\ Streams(wire, back, h) => Streams(Tail(wire), back, g)
      /\ Streams(wire, back, h) /\ Answer(m) =>
             ~Waiting(Tail(wire), back) /\ ~Asks(back, "PART") /\ ~Parts(Tail(wire), g)
  BY <1>2, <1>3, Heard
<1>5. s \in Snap /\ t \in Snap /\ t.nick \in Nicks /\ m.nick \in Nicks /\ m.nick \in Names
  <2>1. s \in Snap /\ t \in Snap
    BY <1>3 DEF History
  <2>2. m.nick \in Nicks
    BY <1>4 DEF Msg
  <2> QED BY <2>1, <2>2, NicksAreNames DEF Snap
<1>6. Server' = Server
  BY <1>2 DEF Server, In
<1>7. ~hurried => Streams(wire, back, h) /\ Client(wire, back, h) /\ Follows(h)
  BY <1>1 DEF Sound, Client
<1> HIDE DEF m, s, t, g
<1>8. CASE m.kind = "JOIN" /\ m.nick = username /\ OwnJoin
  <2>1. Answered(m, s, t) /\ Answer(m) /\ t.nick = username
    BY <1>3, <1>4, <1>8 DEF News, Answered, Listed, Arrived, Departed, Removed, NewNick, Changed
  <2>2. /\ window' /\ chat' /\ joined' /\ {window', chat', joined'} \subseteq BOOLEAN
        /\ UNCHANGED <<user_list, username, stale>>
        /\ window => back' = back
        /\ ~window => back' = back \o <<"JOIN">>
    BY <1>8 DEF OwnJoin, Sends
  <2>3. back' \in Seq(Command)
    <3>1. "JOIN" \in Command
      BY DEF Command
    <3>2. back \o <<"JOIN">> \in Seq(Command)
      BY <1>3, <3>1, Behind
    <3> QED BY <1>3, <2>2, <3>2
  <2>4. Basics'
    BY <1>2, <1>3, <1>4, <2>2, <2>3 DEF Basics, In
  <2>5. ASSUME ~hurried PROVE Streams(wire', back', g) /\ Client(wire, back, g)'
    <3>1. Streams(wire, back, h) /\ Client(wire, back, h) /\ Waiting(wire, back)
      BY <1>4, <1>7, <2>1, <2>5
    <3>2. window /\ ~left /\ (chat => stale)
      BY <3>1 DEF Client
    <3>3. back' = back /\ wire' = Tail(wire)
      BY <1>2, <2>2, <3>2
    <3>4. ~Waiting(wire', back') /\ ~Asks(back', "PART") /\ ~Parts(wire', g)
      BY <1>4, <2>1, <3>1, <3>3
    <3>5. ~stale' => user_list' = <<>>
      BY <1>3, <2>2, <3>2
    <3>6. g[0].in /\ g[0].fresh
      BY <1>4, <2>1 DEF Answered
    <3>7. Follows(g)'
      BY <2>2, <3>5, <3>6 DEF Follows
    <3>8. Client(wire, back, g)'
      BY <1>2, <2>2, <3>2, <3>4, <3>7 DEF Client
    <3> QED BY <1>4, <3>1, <3>3, <3>8
  <2>6. username' = g[0].nick
    BY <1>4, <2>1, <2>2
  <2>7. Sound(g)'
    BY <1>2, <1>4, <1>6, <2>5, <2>6 DEF Sound
  <2> QED BY <2>4, <2>7 DEF IInv
<1>9. CASE m.kind = "JOIN" /\ m.nick # username /\ OtherJoin(m.nick)
  <2>1. Arrived(m, s, t) /\ ~Answer(m) /\ t.nick = s.nick
    BY <1>3, <1>4, <1>9 DEF News, Answered, Listed, Arrived, Departed, Removed, NewNick, Changed, Answer
  <2>2. /\ UNCHANGED <<window, chat, joined, back, username, stale>>
        /\ chat => user_list' = chat_user_joined(user_list, m.nick)
        /\ ~chat => user_list' = user_list
    BY <1>9 DEF OtherJoin
  <2>3. user_list' \in Seq(User)
    BY <1>3, <1>5, <2>2, UserLists
  <2>4. ~hurried /\ chat /\ ~stale' => Follows(g)'
    BY <1>4, <1>5, <1>7, <2>1, <2>2, NewsFollows DEF s, t, g
  <2>5. t.in => s.in
    BY <2>1 DEF Arrived
  <2> QED BY <1>1, <1>2, <1>3, <1>5, <2>1, <2>2, <2>3, <2>4, <2>5, HeardInv DEF m, s, t, g
<1>10. CASE m.kind \in {"PART", "KICK", "QUIT"} /\ (m.kind # "QUIT" => m.nick # username)
            /\ OtherLeft(m.nick)
  <2>1. Departed(m, s, t) /\ ~Answer(m) /\ t.nick = s.nick /\ s.in
    BY <1>3, <1>4, <1>10 DEF News, Answered, Listed, Arrived, Departed, Removed, NewNick, Changed, Answer
  <2>2. /\ UNCHANGED <<window, chat, joined, back, username>>
        /\ user_list' \in Leaves(user_list, m.nick)
        /\ stale' = (stale \/ chat_find_user(user_list', m.nick))
    BY <1>10 DEF OtherLeft
  <2>3. user_list' \in Seq(User) /\ (user_list = <<>> => user_list' = <<>> /\ ~chat_find_user(user_list', m.nick))
        /\ (user_list' = user_list \/ user_list' = Unlisted(user_list, m.nick))
    BY <1>3, <1>5, <2>2, LeavesAre
  <2>4. stale' \in BOOLEAN /\ (stale => stale')
    BY <1>3, <2>2
  <2>5. ASSUME ~hurried, chat, ~stale' PROVE Follows(g)'
    <3>1. ~chat_find_user(user_list', m.nick) /\ Follows(h)
      BY <1>7, <2>2, <2>5
    <3>2. user_list' = Unlisted(user_list, m.nick)
      BY <2>3, <3>1 DEF Unlisted
    <3> QED BY <1>4, <1>5, <2>1, <2>2, <2>4, <2>5, <3>1, <3>2, NewsFollows DEF s, t, g
  <2>6. ~chat => user_list' = <<>> /\ ~joined' /\ ~stale'
    BY <1>3, <2>2, <2>3
  <2> QED BY <1>1, <1>2, <1>3, <1>5, <2>1, <2>2, <2>3, <2>4, <2>5, <2>6, HeardInv DEF m, s, t, g
<1>11. CASE m.kind = "PART" /\ m.nick = username /\ UNCHANGED <<room, back, username, stale>>
  <2>1. Removed(m, s, t) /\ ~Answer(m) /\ t.nick = s.nick /\ ~t.in /\ OwnPart(m, t)
    BY <1>3, <1>4, <1>11 DEF News, Answered, Listed, Arrived, Departed, Removed, NewNick, Changed, Answer, OwnPart
  <2>2. UNCHANGED <<window, chat, joined, user_list, back, username, stale>>
    BY <1>11 DEF room
  <2>3. ~hurried => ~chat
    BY <1>4, <1>7, <2>1 DEF Client
  <2> QED BY <1>1, <1>2, <1>3, <1>5, <2>1, <2>2, <2>3, HeardInv DEF m, s, t, g
<1>12. CASE m.kind = "KICK" /\ m.nick = username /\ ~chat /\ UNCHANGED <<room, back, username, stale>>
  <2>1. Removed(m, s, t) /\ ~Answer(m) /\ t.nick = s.nick /\ ~t.in
    BY <1>3, <1>4, <1>12 DEF News, Answered, Listed, Arrived, Departed, Removed, NewNick, Changed, Answer
  <2>2. UNCHANGED <<window, chat, joined, user_list, back, username, stale>>
    BY <1>12 DEF room
  <2> QED BY <1>1, <1>2, <1>3, <1>5, <1>12, <2>1, <2>2, HeardInv DEF m, s, t, g
<1>13. CASE m.kind = "NICK" /\ NickChange(m.nick, m.rest)
  <2>1. /\ NewNick(m, s, t) /\ ~Answer(m) /\ m.rest \in Nicks
        /\ t.nick = IF m.nick = s.nick THEN m.rest ELSE s.nick
    BY <1>4, <1>13 DEF News, Answered, Listed, Arrived, Departed, Removed, NewNick, Changed, Answer
  <2>2. /\ UNCHANGED <<window, chat, joined, back, stale>>
        /\ user_list' = chat_nick_change(user_list, m.nick, m.rest)
        /\ username' = IF username = m.nick THEN m.rest ELSE username
    BY <1>13 DEF NickChange
  <2>3. user_list' \in Seq(User) /\ (user_list = <<>> => user_list' = <<>>)
    BY <1>3, <1>5, <2>1, <2>2, UserLists, EmptyList, NicksAreNames
  <2>4. ~hurried /\ chat /\ ~stale' => Follows(g)'
    BY <1>4, <1>5, <1>7, <2>1, <2>2, NewsFollows DEF s, t, g
  <2>5. (t.in => s.in) /\ username' = t.nick /\ username' \in Nicks
    BY <1>3, <2>1, <2>2 DEF NewNick
  <2> QED BY <1>1, <1>2, <1>3, <1>5, <2>1, <2>2, <2>3, <2>4, <2>5, HeardInv DEF m, s, t, g
<1>14. CASE /\ m.kind = "MODE" /\ user_list' = WithMode(user_list, m.nick, m.rest)
            /\ UNCHANGED <<window, chat, joined, back, username, stale>>
  <2>1. /\ Changed(m, s, t) /\ ~Answer(m) /\ m.rest \in BOOLEAN /\ t.nick = s.nick
    BY <1>4, <1>14 DEF News, Answered, Listed, Arrived, Departed, Removed, NewNick, Changed, Answer
  <2>2. user_list' \in Seq(User) /\ (user_list = <<>> => user_list' = <<>>)
    BY <1>3, <1>5, <1>14, <2>1, UserLists, EmptyList
  <2>3. ~hurried /\ chat /\ ~stale' => Follows(g)'
    BY <1>4, <1>5, <1>7, <1>14, <2>1, NewsFollows DEF s, t, g
  <2>4. t.in => s.in
    BY <2>1 DEF Changed
  <2> QED BY <1>1, <1>2, <1>3, <1>5, <1>14, <2>1, <2>2, <2>3, <2>4, HeardInv DEF m, s, t, g
<1>15. CASE /\ m.kind = "353"
            /\ user_list' = IF chat THEN ReadNames(user_list, m.rest) ELSE user_list
            /\ UNCHANGED <<window, chat, joined, back, username, stale>>
  <2>1. /\ Listed(m, s, t) /\ ~Answer(m) /\ m.rest \in Seq(Item) /\ t.nick = s.nick
    BY <1>4, <1>15 DEF News, Answered, Listed, Arrived, Departed, Removed, NewNick, Changed, Answer
  <2>2. user_list' \in Seq(User) /\ (~chat => user_list' = <<>>)
    BY <1>3, <1>15, <2>1, NamesType
  <2>3. ASSUME ~hurried, chat, ~stale' PROVE Follows(g)'
    <3>1. user_list' = ReadNames(user_list, m.rest)
      BY <1>15, <2>3
    <3> QED BY <1>4, <1>5, <1>7, <1>15, <2>1, <2>3, <3>1, NewsFollows DEF s, t, g
  <2>4. t.in => s.in
    BY <2>1 DEF Listed
  <2> QED BY <1>1, <1>2, <1>3, <1>5, <1>15, <2>1, <2>2, <2>3, <2>4, HeardInv DEF m, s, t, g
<1>16. CASE m.kind = "KICK" /\ m.nick = username /\ chat /\ OwnKick
  <2>1. Removed(m, s, t) /\ ~Answer(m) /\ t.nick = s.nick /\ ~t.in /\ s.in
    BY <1>3, <1>4, <1>16 DEF News, Answered, Listed, Arrived, Departed, Removed, NewNick, Changed, Answer
  <2>2. CASE /\ Sends(<<"JOIN">>) /\ user_list' \in Leaves(user_list, username)
             /\ ~joined' /\ joined' \in BOOLEAN /\ stale' /\ stale' \in BOOLEAN
             /\ UNCHANGED <<chat, window, username>>
    <3>1. back' = back \o <<"JOIN">> /\ "JOIN" \in Command
      BY <2>2 DEF Sends, Command
    <3>2. back' \in Seq(Command) /\ user_list' \in Seq(User)
      BY <1>3, <2>2, <3>1, Behind, LeavesAre
    <3>3. Basics'
      BY <1>2, <1>3, <1>4, <1>16, <2>2, <3>2 DEF Basics, In
    <3>4. ASSUME ~hurried PROVE Streams(wire', back', g) /\ Client(wire, back, g)'
      <4>1. Streams(wire, back, h) /\ Client(wire, back, h)
        BY <1>7, <3>4
      <4>2. ~Waiting(wire, back)
        BY <1>16, <2>1, <4>1 DEF Client, s
      <4>3. Streams(wire', back, g) /\ ~Waiting(wire', back)
        BY <1>2, <1>4, <4>1, <4>2
      <4>4. /\ Streams(wire', back', g)
            /\ \A d : Asks(back', d) <=> Asks(back, d) \/ d = "JOIN"
        BY <1>3, <3>1, <4>3, Sent
      <4>5. Follows(g)'
        BY <2>2 DEF Follows
      <4>6. Parts(wire', g) => Parts(wire, h)
        BY <1>2, <1>4
      <4>7. ~g[0].in
        BY <1>4, <2>1
      <4>8. Client(wire, back, g)'
        BY <1>2, <1>16, <2>2, <4>1, <4>4, <4>5, <4>6, <4>7 DEF Client
      <4> QED BY <4>4, <4>8
    <3>5. username' = g[0].nick
      BY <1>3, <1>4, <2>1, <2>2
    <3>6. Sound(g)'
      BY <1>2, <1>4, <1>6, <3>4, <3>5 DEF Sound
    <3> QED BY <3>3, <3>6 DEF IInv
  <2>3. CASE NoChat /\ UNCHANGED <<back, window, username>>
    <3>1. /\ ~chat' /\ ~joined' /\ user_list' = <<>> /\ ~stale'
          /\ {chat', joined', stale'} \subseteq BOOLEAN
      BY <2>3 DEF NoChat
    <3>2. Basics'
      BY <1>2, <1>3, <1>4, <2>3, <3>1 DEF Basics, In
    <3>3. ASSUME ~hurried PROVE Streams(wire', back', g) /\ Client(wire, back, g)'
      <4>1. Streams(wire, back, h) /\ Client(wire, back, h)
        BY <1>7, <3>3
      <4>2. Follows(g)'
        BY <3>1 DEF Follows
      <4>3. ~g[0].in /\ (Waiting(wire', back') => Waiting(wire, back))
        BY <1>2, <1>4, <2>1, <2>3
      <4>4. Client(wire, back, g)'
        BY <1>2, <2>3, <3>1, <4>1, <4>2, <4>3 DEF Client
      <4> QED BY <1>2, <1>4, <2>3, <4>1, <4>4
    <3>4. username' = g[0].nick
      BY <1>3, <1>4, <2>1, <2>3
    <3>5. Sound(g)'
      BY <1>2, <1>4, <1>6, <3>3, <3>4 DEF Sound
    <3> QED BY <3>2, <3>5 DEF IInv
  <2> QED BY <1>16, <2>2, <2>3 DEF OwnKick
<1>17. Handler(m)
  BY <1>2
<1> QED
  BY <1>8, <1>9, <1>10, <1>11, <1>12, <1>13, <1>14, <1>15, <1>16, <1>17 DEF Handler

-----------------------------------------------------------------------------
LEMMA InitInv == Init => IInv
<1> SUFFICES ASSUME Init PROVE IInv
  OBVIOUS
<1>1. PICK M \in SUBSET (world.nicks \ {Me}) : members = [n \in M |-> TRUE]
  BY DEF Init
<1>2. /\ us = Me /\ username = Me /\ online = TRUE /\ wire = <<>> /\ back = <<>> /\ user_list = <<>>
      /\ window = FALSE /\ chat = FALSE /\ joined = FALSE /\ left = FALSE /\ stale = FALSE
      /\ hurried = FALSE /\ world \in Worlds
  BY DEF Init
<1>3. Ops(members) /\ Me \notin DOMAIN members /\ Me \in Nicks
  <2>1. M \subseteq Nicks /\ Me \notin M /\ Me \in Nicks
    BY <1>1, <1>2, NicksAssumption, WorldAssumption
  <2>2. DOMAIN members = M /\ members \in [M -> BOOLEAN]
    BY <1>1
  <2> QED BY <2>1, <2>2 DEF Ops
<1>4. ~In
  BY <1>2, <1>3 DEF In
<1>5. Basics
  <2>1. <<>> \in Seq(Msg) /\ <<>> \in Seq(Command) /\ <<>> \in Seq(User)
    OBVIOUS
  <2>2. {online, window, chat, joined, left, stale, hurried} \subseteq BOOLEAN
    BY <1>2
  <2> QED BY <1>2, <1>3, <2>1, <2>2 DEF Basics
<1>6. Server \in Snap /\ Server.nick = Me /\ ~Server.in
  <2>1. In = FALSE
    BY <1>4 DEF In
  <2> HIDE DEF In
  <2>2. Server = [nick |-> Me, in |-> FALSE, fresh |-> FALSE, ops |-> members]
    BY <1>2, <2>1 DEF Server
  <2> QED BY <1>3, <2>2, SnapIs
<1>7. PICK h : h \in [Nat -> Snap] /\ h[0] = Server
  <2> DEFINE s == Server
  <2>1. s \in Snap
    BY <1>6
  <2> HIDE DEF s
  <2>2. [i \in Nat |-> s] \in [Nat -> Snap] /\ [i \in Nat |-> s][0] = s
    BY <2>1
  <2>3. \E f : f \in [Nat -> Snap] /\ f[0] = s
    BY <2>2
  <2> QED BY <2>3 DEF s
<1>8. Len(<<>>) = 0 /\ \A i \in 1 .. 0 : FALSE
  OBVIOUS
<1>9. /\ History(wire, h, Server) /\ Streams(wire, back, h)
      /\ ~Waiting(wire, back) /\ ~h[0].in
  BY <1>2, <1>6, <1>7, <1>8
     DEF History, Streams, Commands, Replies, Answers, Waiting, Asks
<1>10. Client(wire, back, h)
  BY <1>2, <1>9 DEF Client, Follows
<1>11. Sound(h)
  BY <1>2, <1>6, <1>7, <1>9, <1>10 DEF Sound
<1> QED BY <1>5, <1>11 DEF IInv

LEMMA StutterInv == ASSUME IInv, UNCHANGED vars PROVE IInv'
<1>1. PICK h : Sound(h)
  BY DEF IInv
<1>2. UNCHANGED <<us, members, online, wire, back, window, chat, joined, user_list, username,
                  left, stale, hurried>>
  BY DEF vars, server, room, marks
<1>3. Basics' /\ Server' = Server
  BY <1>2 DEF IInv, Basics, Server, In
<1>4. Sound(h)'
  BY <1>1, <1>2, <1>3 DEF Sound, Client, Follows
<1> QED BY <1>3, <1>4 DEF IInv

LEMMA NextInv == IInv /\ [Next]_vars => IInv'
<1> SUFFICES ASSUME IInv, [Next]_vars PROVE IInv'
  OBVIOUS
<1>1. CASE Join
  BY <1>1, JoinInv
<1>2. CASE Leave
  BY <1>2, LeaveInv
<1>3. CASE CloseWindow
  BY <1>3, CloseWindowInv
<1>4. CASE AskNames
  BY <1>4, AskNamesInv
<1>5. CASE Receive
  BY <1>5, ReceiveInv
<1>6. CASE Obey
  BY <1>6, ObeyInv
<1>7. CASE Kick
  BY <1>7, KickInv
<1>8. CASE World
  BY <1>8, ArriveInv, DepartInv, SetModeInv, RenameInv DEF World
<1>9. CASE Drop
  BY <1>9, DropInv
<1>10. CASE Reconnected
  BY <1>10, ReconnectedInv
<1>11. CASE UNCHANGED vars
  BY <1>11, StutterInv
<1> QED
  BY <1>1, <1>2, <1>3, <1>4, <1>5, <1>6, <1>7, <1>8, <1>9, <1>10, <1>11 DEF Next

(* What is known of a client that waits for its answers: it has left what  *)
(* it left, and with nothing under way it knows who is in the channel.     *)
LEMMA StaysLeft == IInv => StaysOut
BY DEF IInv, Sound, Client, StaysOut

LEMMA Agreement == ASSUME Letters, IInv PROVE RosterAgrees
<1> SUFFICES ASSUME Quiet, ~stale, ~hurried
             PROVE  /\ chat /\ joined <=> In
                    /\ joined => /\ {u.name : u \in Range(user_list)} = DOMAIN members
                                 /\ \A u \in Range(user_list) : u.op = members[u.name]
                                 /\ Len(user_list) = Cardinality(DOMAIN members)
  BY DEF RosterAgrees
<1>1. PICK h : Sound(h)
  BY DEF IInv
<1>2. /\ Basics /\ Client(wire, back, h) /\ wire = <<>> /\ back = <<>>
      /\ h[Len(wire)] = Server
  BY <1>1 DEF IInv, Sound, Quiet, History
<1>3. Len(<<>>) = 0 /\ \A i \in 1 .. 0 : FALSE
  OBVIOUS
<1>4. h[0] = Server /\ ~Asks(back, "PART") /\ ~Outs(wire, h)
  BY <1>2, <1>3 DEF Asks, Outs
<1>5. h[0].in = In /\ ~h[0].fresh /\ h[0].ops = members
  BY <1>4 DEF Server
<1>6. chat <=> In
  BY <1>2, <1>4, <1>5 DEF Client, Follows
<1>7. chat => joined /\ Agrees(user_list, members)
  BY <1>2, <1>5 DEF Client, Follows
<1>8. joined => chat
  BY <1>2 DEF Basics
<1>9. ASSUME Agrees(user_list, members)
      PROVE  /\ {u.name : u \in Range(user_list)} = DOMAIN members
             /\ \A u \in Range(user_list) : u.op = members[u.name]
             /\ Len(user_list) = Cardinality(DOMAIN members)
  <2> DEFINE l == user_list
             n == Len(l)
             f == [i \in 1 .. n |-> l[i].name]
  <2>1. n \in Nat /\ DOMAIN l = 1 .. n /\ l \in Seq(User)
    BY <1>9, LenProperties DEF Agrees
  <2>2. /\ \A i, j \in 1 .. n : l[i].name = l[j].name => i = j
        /\ \A i \in 1 .. n : l[i].name \in DOMAIN members /\ l[i].op = members[l[i].name]
        /\ \A m \in DOMAIN members : \E i \in 1 .. n : l[i].name = m
    BY <1>9 DEF Agrees
  <2>3. Range(l) = {l[i] : i \in 1 .. n}
    BY <2>1 DEF Range
  <2> HIDE DEF n, l
  <2>4. {u.name : u \in Range(l)} = DOMAIN members
    <3>1. ASSUME NEW u \in Range(l) PROVE u.name \in DOMAIN members
      BY <2>2, <2>3
    <3>2. ASSUME NEW m \in DOMAIN members PROVE \E u \in Range(l) : u.name = m
      BY <2>2, <2>3
    <3> QED BY <3>1, <3>2
  <2>5. \A u \in Range(l) : u.op = members[u.name]
    BY <2>2, <2>3
  <2>6. f \in Bijection(1 .. n, DOMAIN members)
    <3>1. f \in [1 .. n -> DOMAIN members] /\ \A i \in 1 .. n : f[i] = l[i].name
      BY <2>2
    <3> HIDE DEF f
    <3>2. \A i, j \in 1 .. n : f[i] = f[j] => i = j
      BY <2>2, <3>1
    <3>3. \A m \in DOMAIN members : \E i \in 1 .. n : f[i] = m
      BY <2>2, <3>1
    <3> QED BY <3>1, <3>2, <3>3 DEF Bijection, Injection, Surjection, IsInjective
  <2>7. IsFiniteSet(1 .. n) /\ Cardinality(1 .. n) = n
    BY <2>1, FS_Interval
  <2>8. Cardinality(1 .. n) = Cardinality(DOMAIN members)
    <3> HIDE DEF f
    <3>1. ExistsBijection(1 .. n, DOMAIN members)
      BY <2>6 DEF ExistsBijection
    <3> QED BY <2>7, <3>1, FS_Bijection
  <2> QED BY <2>4, <2>5, <2>7, <2>8 DEF l, n
<1> QED BY <1>6, <1>7, <1>8, <1>9

(* A channel that the user has left stays left, whatever was under way     *)
(* when it was left, if the user waits for the answer to a JOIN before     *)
(* giving the next command (chat_leave, irc_handler_join).                 *)
THEOREM LeftStaysLeft == Spec => []StaysOut
<1>1. Spec => []IInv
  BY InitInv, NextInv, PTL DEF Spec
<1> QED BY <1>1, StaysLeft, PTL

(* When nothing is under way the chatroom is there exactly if the server   *)
(* has the client in the channel, and its users are the server's, each     *)
(* once and with the status the server has for them (irc_handler_353,      *)
(* chat_user_left, irc_handler_join, irc_handler_kick); and what was left  *)
(* stays left.  No nick begins with what is no letter: irc_handler_353     *)
(* takes that for a status.                                                *)
THEOREM ChatIsSound == ASSUME Letters PROVE Spec => []ChatSound
<1>1. Spec => []IInv
  BY InitInv, NextInv, PTL DEF Spec
<1>2. IInv => ChatSound
  BY StaysLeft, Agreement DEF ChatSound
<1> QED BY <1>1, <1>2, PTL

-----------------------------------------------------------------------------
(* Conversations.  The invariant, of a state in the middle of an operation *)
(* as well.                                                                *)
Whats ==
    {"msg", "action", "auto", "notice", "warn", "warn anon", "ctcp", "ctcp reply",
     "sent", "action sent", "notice sent", "warn sent",
     "chat msg", "chat notice", "chat action",
     "chat msg sent", "chat notice sent", "chat action sent",
     "joined", "left", "quit", "kicked", "topic", "mode", "invite", "invited", "ignoring",
     "chat_free", "chat_leave", "forced leave", "join", "kick", "set topic", "no chat"}
Events == {"opened", "query", "chat", "chatwin"}
Pasts == {"early", "cleared", "relogged"}
ShownLines == [what : Whats, right : BOOLEAN]
Words == {Back, "short", "long"}
Profiles == {None, "profile"}
Talks ==
    [query : {None, "first", "second"}, chat : {None, "there", "gone"}, chatwin : BOOLEAN,
     member : BOOLEAN, ignored : BOOLEAN, online : BOOLEAN, away : Words, server : Words,
     profile : Profiles, served : Profiles, idle : BOOLEAN, servedidle : BOOLEAN,
     hash : [Spellings -> Int], replied : [age : Int, sp : Spellings],
     shown : Seq(ShownLines), sent : Seq(Whats),
     meanwhile : SUBSET Events, harm : SUBSET Whats, past : SUBSET Pasts]

(* The last answer of this absence is in the hash.                         *)
Paced(s) ==
    /\ s.away # Back /\ s.replied.age \in 0 .. Delay - 1 => s.hash[s.replied.sp] = s.replied.age
    /\ "early" \notin s.past

Served(s) ==
    IF s.online
    THEN /\ s.away = "long" \/ s.server = s.away
         /\ ~manner.aim \/ "cleared" \in s.past \/ s.served = s.profile
         /\ "relogged" \in s.past \/ s.servedidle = s.idle
    ELSE ~s.servedidle

Unheard(s) ==
    s.ignored => s.member /\ \A i \in 1 .. Len(s.shown) : s.shown[i].what \notin SaidInChat

Placed(s) ==
    \A i \in 1 .. Len(s.shown) :
        \/ s.shown[i].right
        \/ "opened" \in s.meanwhile /\ s.shown[i].what \in {"msg", "notice", "notice sent"}

(* What looks for its window when the scripts have run.                    *)
Careful == {"action", "warn", "warn sent", "auto"}

Harmed(s) ==
    /\ manner.scripts \/ (s.harm \subseteq {"no chat"} /\ s.chat # "gone")
    /\ s.harm \cap Careful = {}

Fine(s) ==
    s \in Talks /\ Paced(s) /\ Served(s) /\ Unheard(s) /\ Placed(s) /\ Harmed(s)

(* What an operation leaves as it was.                                     *)
Account(s) == <<s.online, s.away, s.server, s.profile, s.served, s.idle, s.servedidle,
                s.hash, s.replied, s.past>>
Room(s)    == <<s.chat, s.chatwin, s.member, s.ignored>>
Output(s)  == <<s.shown, s.sent>>
Rest(s)  == <<s.query, s.meanwhile, s.harm>>

-----------------------------------------------------------------------------
(* Lines that are shown, and what is used that is gone.                    *)
LEMMA AppendedIs ==
    ASSUME NEW q \in Seq(ShownLines), NEW e \in ShownLines
    PROVE  /\ Append(q, e) \in Seq(ShownLines)
           /\ \A i \in 1 .. Len(Append(q, e)) :
                 (i \in 1 .. Len(q) /\ Append(q, e)[i] = q[i]) \/ Append(q, e)[i] = e
<1>1. Append(q, e) \in Seq(ShownLines) /\ Len(q) \in Nat /\ Len(Append(q, e)) = Len(q) + 1
  OBVIOUS
<1>2. ASSUME NEW i \in 1 .. Len(q) + 1
      PROVE  (i \in 1 .. Len(q) /\ Append(q, e)[i] = q[i]) \/ Append(q, e)[i] = e
  OBVIOUS
<1> QED BY <1>1, <1>2

LEMMA ShownFine ==
    ASSUME NEW s, Fine(s), NEW what \in Whats, NEW right \in BOOLEAN,
           right \/ ("opened" \in s.meanwhile /\ what \in {"msg", "notice", "notice sent"}),
           what \notin SaidInChat \/ ~s.ignored
    PROVE  LET t == [s EXCEPT !.shown = Append(@, Line(what, right))]
           IN  /\ Fine(t) /\ t.shown = Append(s.shown, Line(what, right)) /\ t.sent = s.sent
               /\ Account(t) = Account(s) /\ Room(t) = Room(s) /\ Rest(t) = Rest(s)
<1> DEFINE l == Line(what, right)
           t == [s EXCEPT !.shown = Append(s.shown, l)]
<1>0. s \in Talks /\ s.shown \in Seq(ShownLines)
  BY DEF Fine, Talks
<1>1. l \in ShownLines /\ l.what = what /\ l.right = right
  BY DEF Line, ShownLines
<1> HIDE DEF l
<1>2. /\ Append(s.shown, l) \in Seq(ShownLines)
      /\ \A i \in 1 .. Len(Append(s.shown, l)) :
            \/ i \in 1 .. Len(s.shown) /\ Append(s.shown, l)[i] = s.shown[i]
            \/ Append(s.shown, l)[i] = l
  BY <1>0, <1>1, AppendedIs
<1>3. t \in Talks
  BY <1>0, <1>2 DEF Talks
<1>4. /\ t.shown = Append(s.shown, l) /\ t.sent = s.sent
      /\ Account(t) = Account(s) /\ Room(t) = Room(s) /\ Rest(t) = Rest(s)
  BY <1>0 DEF Talks, Account, Room, Rest
<1> HIDE DEF t
<1>6. Unheard(t) /\ Placed(t)
  <2>1. ASSUME NEW i \in 1 .. Len(t.shown)
        PROVE  \/ i \in 1 .. Len(s.shown) /\ t.shown[i] = s.shown[i]
               \/ t.shown[i] = l
    BY <1>2, <1>4
  <2>2. Unheard(t)
    BY <2>1, <1>1, <1>4 DEF Unheard, Fine, Room
  <2>3. Placed(t)
    BY <2>1, <1>1, <1>4 DEF Placed, Fine, Rest
  <2> QED BY <2>2, <2>3
<1>7. Paced(t) /\ Served(t) /\ Harmed(t)
  BY <1>4 DEF Paced, Served, Harmed, Fine, Account, Room, Rest
<1> QED BY <1>3, <1>4, <1>6, <1>7 DEF Fine, t, l

LEMMA SendFine ==
    ASSUME NEW s, Fine(s), NEW what \in Whats
    PROVE  LET t == Send(s, what)
           IN  /\ Fine(t) /\ t.sent = Append(s.sent, what) /\ t.shown = s.shown
               /\ Account(t) = Account(s) /\ Room(t) = Room(s) /\ Rest(t) = Rest(s)
<1> DEFINE t == [s EXCEPT !.sent = Append(s.sent, what)]
<1>0. s \in Talks /\ Append(s.sent, what) \in Seq(Whats)
  BY DEF Fine, Talks
<1>1. t \in Talks
  BY <1>0 DEF Talks
<1>2. /\ t.sent = Append(s.sent, what) /\ t.shown = s.shown
      /\ Account(t) = Account(s) /\ Room(t) = Room(s) /\ Rest(t) = Rest(s)
  BY <1>0 DEF Talks, Account, Room, Rest
<1> HIDE DEF t
<1>3. Fine(t)
  BY <1>1, <1>2 DEF Paced, Served, Unheard, Placed, Harmed, Fine, Account, Room, Rest
<1> QED BY <1>2, <1>3 DEF Send, t

LEMMA HarmFine ==
    ASSUME NEW s, Fine(s), NEW what \in Whats, what \notin Careful,
           manner.scripts \/ what = "no chat"
    PROVE  LET t == Harm(s, what)
           IN  /\ Fine(t) /\ t.harm # {} /\ s.harm \subseteq t.harm /\ Output(t) = Output(s)
               /\ Account(t) = Account(s) /\ Room(t) = Room(s)
               /\ t.query = s.query /\ t.meanwhile = s.meanwhile
<1> DEFINE t == [s EXCEPT !.harm = s.harm \cup {what}]
<1>0. s \in Talks /\ s.harm \cup {what} \in SUBSET Whats
  BY DEF Fine, Talks
<1>1. t \in Talks
  BY <1>0 DEF Talks
<1>2. /\ t.harm = s.harm \cup {what} /\ Output(t) = Output(s)
      /\ Account(t) = Account(s) /\ Room(t) = Room(s)
      /\ t.query = s.query /\ t.meanwhile = s.meanwhile
  BY <1>0 DEF Talks, Account, Room, Output
<1> HIDE DEF t
<1>3. Paced(t) /\ Served(t) /\ Unheard(t) /\ Placed(t)
  BY <1>2 DEF Paced, Served, Unheard, Placed, Fine, Account, Room, Output
<1>4. Harmed(t)
  BY <1>2 DEF Harmed, Fine, Room, Careful
<1>5. Fine(t) /\ t.harm # {} /\ s.harm \subseteq t.harm
  BY <1>1, <1>2, <1>3, <1>4 DEF Fine
<1> QED BY <1>2, <1>5 DEF Harm, t

Queried(s, q, m) == [s EXCEPT !.query = q, !.meanwhile = m]
Emptied(s, win, m) ==
    [s EXCEPT !.chatwin = win, !.chat = None, !.member = FALSE, !.ignored = FALSE, !.meanwhile = m]
Rewindowed(s, place) == [ClosedChatWin(s) EXCEPT !.chat = place]

-----------------------------------------------------------------------------
(* What changes one part of the state.                                     *)
LEMMA QueryFine ==
    ASSUME NEW s, Fine(s), NEW q \in {None, "first", "second"}, NEW m \in SUBSET Events,
           s.meanwhile \subseteq m
    PROVE  LET t == Queried(s, q, m)
           IN  /\ Fine(t) /\ t.query = q /\ t.meanwhile = m /\ t.harm = s.harm
               /\ Output(t) = Output(s) /\ Account(t) = Account(s) /\ Room(t) = Room(s)
<1> DEFINE t == [s EXCEPT !.query = q, !.meanwhile = m]
<1>0. s \in Talks
  BY DEF Fine
<1>1. t \in Talks
  BY <1>0 DEF Talks
<1>2. /\ t.query = q /\ t.meanwhile = m /\ t.harm = s.harm
      /\ Output(t) = Output(s) /\ Account(t) = Account(s) /\ Room(t) = Room(s)
  BY <1>0 DEF Talks, Account, Room, Output
<1> HIDE DEF t
<1>3. Fine(t)
  BY <1>1, <1>2 DEF Paced, Served, Unheard, Placed, Harmed, Fine, Account, Room, Output
<1> QED BY <1>2, <1>3 DEF t, Queried

LEMMA MadeFine ==
    ASSUME NEW s, Fine(s)
    PROVE  LET t == [s EXCEPT !.query = Made(s)]
           IN  /\ Fine(t) /\ t.query # None /\ Output(t) = Output(s) /\ Account(t) = Account(s)
               /\ Room(t) = Room(s) /\ t.meanwhile = s.meanwhile /\ t.harm = s.harm
<1> DEFINE t == [s EXCEPT !.query = Made(s)]
<1>0. s \in Talks /\ Made(s) \in {"first", "second"}
  BY DEF Fine, Made
<1>1. t \in Talks
  BY <1>0 DEF Talks
<1>2. /\ t.query = Made(s) /\ t.meanwhile = s.meanwhile /\ t.harm = s.harm
      /\ Output(t) = Output(s) /\ Account(t) = Account(s) /\ Room(t) = Room(s)
  BY <1>0 DEF Talks, Account, Room, Output
<1> HIDE DEF t
<1>3. Fine(t)
  BY <1>1, <1>2 DEF Paced, Served, Unheard, Placed, Harmed, Fine, Account, Room, Output
<1> QED BY <1>0, <1>2, <1>3 DEF t, None

LEMMA QueryWindowIs ==
    ASSUME NEW s, Fine(s)
    PROVE  LET t == QueryWindow(s)
           IN  /\ Fine(t) /\ Output(t) = Output(s) /\ Account(t) = Account(s)
               /\ Room(t) = Room(s) /\ t.meanwhile = s.meanwhile /\ t.harm = s.harm
               /\ t.query # None \/ t = s
BY MadeFine DEF QueryWindow

LEMMA AccountFine ==
    ASSUME NEW s, Fine(s), NEW t \in Talks, Paced(t), Served(t),
           Room(t) = Room(s), Output(t) = Output(s), Rest(t) = Rest(s)
    PROVE  Fine(t)
BY DEF Unheard, Placed, Harmed, Fine, Room, Output, Rest

LEMMA RoomFine ==
    ASSUME NEW s, Fine(s), NEW t \in Talks, Account(t) = Account(s), Output(t) = Output(s),
           s.meanwhile \subseteq t.meanwhile, t.harm = s.harm,
           t.ignored => s.ignored /\ t.member, manner.scripts \/ t.chat # "gone"
    PROVE  Fine(t)
BY DEF Paced, Served, Unheard, Placed, Harmed, Fine, Account, Room, Output

-----------------------------------------------------------------------------
(* Away.                                                                   *)
LEMMA GoneFine ==
    ASSUME NEW s, Fine(s), NEW m \in {"short", "long"}
    PROVE  LET t == Gone(s, m)
           IN Fine(t) /\ Room(t) = Room(s) /\ Output(t) = Output(s) /\ Rest(t) = Rest(s)
<1> DEFINE u == [s EXCEPT !.away = m, !.hash = Fresh, !.replied.age = -1]
           t == Gone(s, m)
<1>0. s \in Talks /\ Fresh \in [Spellings -> Int]
  BY DEF Fine, Fresh
<1>1. u \in Talks
  <2> DEFINE rep == [s.replied EXCEPT !.age = -1]
  <2>1. s.replied \in [age : Int, sp : Spellings]
    BY <1>0 DEF Talks
  <2>2. rep \in [age : Int, sp : Spellings]
    BY <2>1
  <2>3. u = [s EXCEPT !.away = m, !.hash = Fresh, !.replied = rep]
    OBVIOUS
  <2> HIDE DEF rep
  <2>4. m \in Words
    BY DEF Words
  <2> QED BY <1>0, <2>2, <2>3, <2>4 DEF Talks
<1>2. /\ u.away = m /\ u.online = s.online /\ u.past = s.past /\ u.replied.age = -1
      /\ u.profile = s.profile /\ u.served = s.served /\ u.idle = s.idle
      /\ u.servedidle = s.servedidle /\ u.server = s.server
      /\ Room(u) = Room(s) /\ Output(u) = Output(s) /\ Rest(u) = Rest(s)
  BY <1>0 DEF Talks, Room, Output, Rest
<1>3. /\ t \in Talks /\ t.away = m /\ t.online = s.online /\ t.past = s.past /\ t.replied.age = -1
      /\ t.profile = s.profile /\ t.served = s.served /\ t.idle = s.idle
      /\ t.servedidle = s.servedidle
      /\ Room(t) = Room(s) /\ Output(t) = Output(s) /\ Rest(t) = Rest(s)
      /\ t.online /\ m # "long" => t.server = m
  <2> HIDE DEF u
  <2>1. CASE u.online /\ m # "long"
    <3>1. t = [u EXCEPT !.server = m]
      BY <2>1 DEF t, u, Gone, ToServer
    <3> QED BY <1>1, <1>2, <3>1 DEF Talks, Words, Room, Output, Rest
  <2>2. CASE ~(u.online /\ m # "long")
    <3>1. t = u
      BY <2>2 DEF t, u, Gone, ToServer
    <3> QED BY <1>1, <1>2, <2>2, <3>1
  <2> QED BY <2>1, <2>2
<1> HIDE DEF t, u
<1>4. Paced(t)
  BY <1>3, DelayAssumption DEF Paced, Fine
<1>5. Served(t)
  BY <1>3 DEF Served, Fine
<1> QED BY <1>3, <1>4, <1>5, AccountFine DEF t

LEMMA ReturnedFine ==
    ASSUME NEW s, Fine(s)
    PROVE  LET t == Returned(s)
           IN Fine(t) /\ Room(t) = Room(s) /\ Output(t) = Output(s) /\ Rest(t) = Rest(s)
<1> DEFINE h == IF manner.aim /\ ~s.online THEN s.hash ELSE Fresh
           u == [s EXCEPT !.away = Back, !.hash = h]
           t == ToServer(u, Back)
<1>0. s \in Talks /\ h \in [Spellings -> Int] /\ Back \in Words
  BY DEF Fine, Fresh, Talks, Words
<1> HIDE DEF h
<1>1. u \in Talks
  BY <1>0 DEF Talks
<1>2. /\ u.away = Back /\ u.online = s.online /\ u.past = s.past
      /\ u.profile = s.profile /\ u.served = s.served /\ u.idle = s.idle
      /\ u.servedidle = s.servedidle
      /\ Room(u) = Room(s) /\ Output(u) = Output(s) /\ Rest(u) = Rest(s)
  BY <1>0 DEF Talks, Room, Output, Rest
<1>3. /\ t \in Talks /\ t.away = Back /\ t.online = s.online /\ t.past = s.past
      /\ t.profile = s.profile /\ t.served = s.served /\ t.idle = s.idle
      /\ t.servedidle = s.servedidle
      /\ Room(t) = Room(s) /\ Output(t) = Output(s) /\ Rest(t) = Rest(s)
      /\ t.online => t.server = Back
  <2> HIDE DEF u
  <2>1. CASE u.online
    <3>1. t = [u EXCEPT !.server = Back]
      BY <2>1 DEF t, ToServer, Back
    <3> QED BY <1>0, <1>1, <1>2, <3>1 DEF Talks, Room, Output, Rest
  <2>2. CASE ~u.online
    <3>1. t = u
      BY <2>2 DEF t, ToServer
    <3> QED BY <1>1, <1>2, <2>2, <3>1
  <2> QED BY <2>1, <2>2
<1> HIDE DEF t, u
<1>4. Paced(t)
  BY <1>3 DEF Paced, Fine
<1>5. Served(t)
  BY <1>3 DEF Served, Fine
<1>6. Fine(t)
  BY <1>3, <1>4, <1>5, AccountFine
<1>7. Returned(s) = IF s.away = Back THEN s ELSE t
  BY DEF Returned, t, u, h
<1> QED BY <1>3, <1>6, <1>7

LEMMA AddsIdleFine ==
    ASSUME NEW s, Fine(s), NEW on \in BOOLEAN
    PROVE  LET t == ToldIdle(s, on)
           IN Fine(t) /\ Room(t) = Room(s) /\ Output(t) = Output(s) /\ Rest(t) = Rest(s)
<1> DEFINE p == s.past \ {"relogged"}
           t == [s EXCEPT !.idle = on, !.servedidle = on, !.past = p]
<1>0. s \in Talks /\ p \in SUBSET Pasts
  BY DEF Fine, Talks
<1>1. t \in Talks
  BY <1>0 DEF Talks
<1>2. /\ t.idle = on /\ t.servedidle = on /\ t.past = p /\ t.online = s.online /\ t.away = s.away
      /\ t.server = s.server /\ t.profile = s.profile /\ t.served = s.served
      /\ t.hash = s.hash /\ t.replied = s.replied
      /\ Room(t) = Room(s) /\ Output(t) = Output(s) /\ Rest(t) = Rest(s)
  BY <1>0 DEF Talks, Room, Output, Rest
<1> HIDE DEF t
<1>3. Paced(t)
  BY <1>2 DEF Paced, Fine
<1>4. s.online => Served(t)
  BY <1>2 DEF Served, Fine
<1>5. s.online => Fine(t)
  BY <1>1, <1>2, <1>3, <1>4, AccountFine
<1>6. ToldIdle(s, on) = IF ~s.online THEN s ELSE t
  BY DEF ToldIdle, t
<1> QED BY <1>2, <1>5, <1>6

LEMMA ProfileFine ==
    ASSUME NEW s, Fine(s), NEW p \in Profiles
    PROVE  LET t == ProfileServed([s EXCEPT !.profile = p], p)
           IN Fine(t) /\ Room(t) = Room(s) /\ Output(t) = Output(s) /\ Rest(t) = Rest(s)
<1> DEFINE q == IF p = None THEN s.past \cup {"cleared"} ELSE s.past \ {"cleared"}
           v == IF s.online /\ manner.aim /\ p # None THEN p ELSE s.served
           t == [s EXCEPT !.profile = p, !.served = v, !.past = q]
<1>0. s \in Talks /\ q \in SUBSET Pasts /\ v \in Profiles
  <2>1. s \in Talks /\ s.past \in SUBSET Pasts /\ v \in Profiles
    BY DEF Fine, Talks
  <2>2. s.past \cup {"cleared"} \in SUBSET Pasts /\ s.past \ {"cleared"} \in SUBSET Pasts
    BY <2>1 DEF Pasts
  <2>3. q \in SUBSET Pasts
    BY <2>2
  <2> QED BY <2>1, <2>3
<1>9. /\ "early" \in q => "early" \in s.past
      /\ "relogged" \in s.past => "relogged" \in q
      /\ p = None => "cleared" \in q
      /\ s.online /\ manner.aim /\ p # None => v = p
  <2>1. CASE p = None
    BY <2>1 DEF None
  <2>2. CASE p # None
    BY <2>2
  <2> QED BY <2>1, <2>2
<1>8. ProfileServed([s EXCEPT !.profile = p], p) = t
  BY <1>0 DEF ProfileServed, Talks
<1> HIDE DEF q, v
<1>1. t \in Talks
  BY <1>0 DEF Talks
<1>2. /\ t.idle = s.idle /\ t.servedidle = s.servedidle /\ t.past = q /\ t.online = s.online
      /\ t.away = s.away /\ t.server = s.server /\ t.profile = p /\ t.served = v
      /\ t.hash = s.hash /\ t.replied = s.replied
      /\ Room(t) = Room(s) /\ Output(t) = Output(s) /\ Rest(t) = Rest(s)
  BY <1>0 DEF Talks, Room, Output, Rest
<1> HIDE DEF t
<1>3. Paced(t)
  BY <1>2, <1>9 DEF Paced, Fine
<1>4. Served(t)
  BY <1>2, <1>9 DEF Served, Fine
<1>5. Fine(t)
  BY <1>1, <1>2, <1>3, <1>4, AccountFine
<1> QED BY <1>2, <1>5, <1>8

-----------------------------------------------------------------------------
(* The chat and its window.                                                *)
LEMMA NoChatFine ==
    ASSUME NEW s, Fine(s), NEW win \in BOOLEAN, NEW m \in SUBSET Events, s.meanwhile \subseteq m
    PROVE  LET t == Emptied(s, win, m)
           IN  /\ Fine(t) /\ Output(t) = Output(s) /\ Account(t) = Account(s)
               /\ t.query = s.query /\ t.meanwhile = m /\ t.harm = s.harm
<1> DEFINE t == [s EXCEPT !.chatwin = win, !.chat = None, !.member = FALSE,
                          !.ignored = FALSE, !.meanwhile = m]
<1>0. s \in Talks
  BY DEF Fine
<1>1. t \in Talks
  BY <1>0 DEF Talks
<1>2. /\ t.query = s.query /\ t.meanwhile = m /\ t.harm = s.harm
      /\ t.ignored = FALSE /\ t.chat = None
      /\ Output(t) = Output(s) /\ Account(t) = Account(s)
  BY <1>0 DEF Talks, Account, Output
<1> HIDE DEF t
<1>3. Fine(t)
  BY <1>1, <1>2, RoomFine DEF None
<1> QED BY <1>2, <1>3 DEF t, Emptied

LEMMA ChatWinFine ==
    ASSUME NEW s, Fine(s), NEW place \in {s.chat, "gone"}, manner.scripts \/ place = s.chat
    PROVE  LET t == Rewindowed(s, place)
           IN  /\ Fine(t) /\ Output(t) = Output(s) /\ Account(t) = Account(s)
               /\ t.query = s.query /\ s.meanwhile \subseteq t.meanwhile /\ t.harm = s.harm
               /\ place = s.chat => t = ClosedChatWin(s)
<1> DEFINE m == s.meanwhile \cup {"chatwin"}
           t == [s EXCEPT !.chatwin = FALSE, !.meanwhile = m, !.chat = place]
<1>0. s \in Talks /\ m \in SUBSET Events /\ place \in {None, "there", "gone"}
  <2>1. s \in Talks /\ s.meanwhile \in SUBSET Events /\ place \in {None, "there", "gone"}
    BY DEF Fine, Talks
  <2>2. m \in SUBSET Events
    BY <2>1 DEF Events
  <2> QED BY <2>1, <2>2
<1>1. t \in Talks
  BY <1>0 DEF Talks
<1>2. /\ t.query = s.query /\ t.meanwhile = m /\ t.harm = s.harm
      /\ t.ignored = s.ignored /\ t.chat = place /\ t.member = s.member
      /\ Output(t) = Output(s) /\ Account(t) = Account(s)
  BY <1>0 DEF Talks, Account, Output
<1>3. Rewindowed(s, place) = t
  BY <1>0 DEF Rewindowed, ClosedChatWin, Talks
<1>4. place = s.chat => t = ClosedChatWin(s)
  BY <1>0 DEF ClosedChatWin, Talks
<1> HIDE DEF t
<1>5. Fine(t)
  BY <1>1, <1>2, RoomFine DEF Fine, Harmed, Unheard
<1> QED BY <1>2, <1>3, <1>4, <1>5 DEF t

LEMMA LeftFine ==
    ASSUME NEW s, Fine(s), NEW close \in BOOLEAN, manner.scripts \/ "chat" \notin s.meanwhile
    PROVE  LET t == Left(s, close)
           IN  /\ Fine(t) /\ Output(t) = Output(s) /\ Account(t) = Account(s)
               /\ t.query = s.query /\ s.meanwhile \subseteq t.meanwhile
               /\ s.harm \subseteq t.harm
<1> DEFINE u == IF close THEN ClosedChatWin(s) ELSE s
           t == [u EXCEPT !.chat = None, !.member = FALSE, !.ignored = FALSE,
                          !.meanwhile = @ \cup {"chat"}]
           m == s.meanwhile \cup (IF close THEN {"chatwin", "chat"} ELSE {"chat"})
           win == IF close THEN FALSE ELSE s.chatwin
           v == Emptied(s, win, m)
<1>1. s \in Talks /\ s.meanwhile \in SUBSET Events /\ win \in BOOLEAN
  BY DEF Fine, Talks
<1>2. m \in SUBSET Events /\ s.meanwhile \subseteq m
  BY <1>1 DEF Events
<1>3. Fine(v) /\ Output(v) = Output(s) /\ Account(v) = Account(s) /\ v.query = s.query
      /\ v.meanwhile = m /\ v.harm = s.harm
  <2> HIDE DEF m, win
  <2> QED BY <1>1, <1>2, NoChatFine
<1>4. t = v
  <2>1. CASE close
    BY <1>1, <2>1 DEF ClosedChatWin, Emptied, Talks
  <2>2. CASE ~close
    BY <1>1, <2>2 DEF Emptied, Talks
  <2> QED BY <2>1, <2>2
<1>5. CASE "chat" \in s.meanwhile \/ s.chat = "gone"
  <2>1. Left(s, close) = Harm(s, "chat_leave")
    BY <1>5 DEF Left
  <2>2. manner.scripts /\ "chat_leave" \in Whats /\ "chat_leave" \notin Careful
    BY <1>5 DEF Fine, Harmed, Whats, Careful
  <2> QED BY <2>1, <2>2, HarmFine
<1>6. CASE ~("chat" \in s.meanwhile \/ s.chat = "gone")
  <2>1. Left(s, close) = t
    BY <1>6 DEF Left
  <2> QED BY <2>1, <1>2, <1>3, <1>4
<1> QED BY <1>5, <1>6

LEMMA CloseChatWinFine ==
    ASSUME NEW s, Fine(s), manner.scripts \/ "chat" \notin s.meanwhile, NEW t \in CloseChatWin(s)
    PROVE  /\ Fine(t) /\ Output(t) = Output(s) /\ Account(t) = Account(s)
           /\ t.query = s.query /\ s.meanwhile \subseteq t.meanwhile /\ s.harm \subseteq t.harm
<1>0. s \in Talks
  BY DEF Fine
<1>1. ASSUME NEW u, Fine(u)
      PROVE  /\ Fine(ClosedChatWin(u)) /\ Output(ClosedChatWin(u)) = Output(u)
             /\ Account(ClosedChatWin(u)) = Account(u) /\ ClosedChatWin(u).query = u.query
             /\ u.meanwhile \subseteq ClosedChatWin(u).meanwhile /\ ClosedChatWin(u).harm = u.harm
  BY <1>1, ChatWinFine
<1>2. CASE t = s
  BY <1>2
<1>3. CASE t = ClosedChatWin(s)
  BY <1>1, <1>3
<1>4. CASE t = ClosedChatWin(Left(s, FALSE))
  <2>1. LET u == Left(s, FALSE)
        IN  /\ Fine(u) /\ Output(u) = Output(s) /\ Account(u) = Account(s)
            /\ u.query = s.query /\ s.meanwhile \subseteq u.meanwhile
            /\ s.harm \subseteq u.harm
    BY LeftFine
  <2> QED BY <2>1, <1>1, <1>4
<1>5. CASE manner.scripts /\ t = [ClosedChatWin(s) EXCEPT !.chat = "gone"]
  BY <1>5, ChatWinFine DEF Rewindowed
<1> QED BY <1>2, <1>3, <1>4, <1>5 DEF CloseChatWin

-----------------------------------------------------------------------------
(* What scripts do.                                                        *)
Ran(s, t) ==
    /\ Fine(t) /\ Output(t) = Output(s) /\ s.meanwhile \subseteq t.meanwhile
    /\ s.harm \subseteq t.harm
    /\ s.query = None /\ t.query # None => "opened" \in t.meanwhile
    /\ ~manner.scripts => t = s

LEMMA OpenRan ==
    ASSUME NEW s, Fine(s), manner.scripts
    PROVE  Ran(s, Open(s)) /\ Ran(s, Close(s))
<1>1. s \in Talks /\ s.meanwhile \in SUBSET Events /\ Made(s) \in {None, "first", "second"}
  BY DEF Fine, Talks, Made
<1>2. s.meanwhile \cup {"opened"} \in SUBSET Events /\ s.meanwhile \cup {"query"} \in SUBSET Events
  BY <1>1 DEF Events
<1>3. Ran(s, s)
  BY DEF Ran
<1>4. ASSUME NEW q \in {None, "first", "second"}, NEW m \in SUBSET Events, s.meanwhile \subseteq m,
             s.query = None /\ q # None => "opened" \in m
      PROVE  Ran(s, Queried(s, q, m))
  <2> DEFINE t == Queried(s, q, m)
  <2>1. /\ Fine(t) /\ t.query = q /\ t.meanwhile = m /\ t.harm = s.harm
        /\ Output(t) = Output(s) /\ Account(t) = Account(s) /\ Room(t) = Room(s)
    BY <1>4, QueryFine
  <2> HIDE DEF t
  <2>2. Ran(s, t)
    BY <1>4, <2>1 DEF Ran
  <2> QED BY <2>2 DEF t
<1>5. Ran(s, [s EXCEPT !.query = Made(s), !.meanwhile = @ \cup {"opened"}])
  <2> DEFINE m == s.meanwhile \cup {"opened"}
  <2>1. "opened" \in m /\ s.meanwhile \subseteq m
    OBVIOUS
  <2> HIDE DEF m
  <2>2. Ran(s, Queried(s, Made(s), m))
    BY <1>1, <1>2, <1>4, <2>1 DEF m
  <2> QED BY <2>2 DEF m, Queried
<1>6. Ran(s, [s EXCEPT !.query = None, !.meanwhile = @ \cup {"query"}])
  <2> DEFINE m == s.meanwhile \cup {"query"}
  <2>1. s.meanwhile \subseteq m
    OBVIOUS
  <2> HIDE DEF m
  <2>2. Ran(s, Queried(s, None, m))
    BY <1>1, <1>2, <1>4, <2>1 DEF m
  <2> QED BY <2>2 DEF m, Queried
<1> QED BY <1>3, <1>5, <1>6 DEF Open, Close

LEMMA DidRan ==
    ASSUME NEW s, Fine(s), NEW t \in Did(s)
    PROVE  Ran(s, t)
<1>1. Ran(s, s)
  BY DEF Ran
<1>2. ASSUME manner.scripts, Fine(t), Room(t) = Room(s), Output(t) = Output(s), Rest(t) = Rest(s)
      PROVE  Ran(s, t)
  BY <1>2 DEF Ran, Rest
<1>3. ASSUME manner.scripts, Fine(t), Output(t) = Output(s), Account(t) = Account(s),
             t.query = s.query, s.meanwhile \subseteq t.meanwhile, s.harm \subseteq t.harm
      PROVE  Ran(s, t)
  BY <1>3 DEF Ran
<1>4. CASE t = s
  BY <1>1, <1>4
<1>5. CASE manner.scripts /\ t \in {Open(s), Close(s)}
  BY <1>5, OpenRan
<1>6. CASE manner.scripts /\ t = Gone(s, "short")
  BY <1>6, <1>2, GoneFine
<1>7. CASE manner.scripts /\ t = Returned(s)
  BY <1>7, <1>2, ReturnedFine
<1>8. CASE manner.scripts /\ t \in LeftByScript(s)
  <2>1. t = s \/ t = Left(s, TRUE)
    BY <1>8 DEF LeftByScript
  <2>2. CASE t = Left(s, TRUE)
    BY <1>8, <2>2, <1>3, LeftFine
  <2> QED BY <1>1, <2>1, <2>2
<1>9. CASE manner.scripts /\ t \in CloseChatWin(s)
  BY <1>9, <1>3, CloseChatWinFine
<1> QED BY <1>4, <1>5, <1>6, <1>7, <1>8, <1>9 DEF Did

LEMMA EventIs ==
    ASSUME NEW s, Fine(s), NEW r \in Event(s)
    PROVE  Ran(s, r.s) /\ (~manner.scripts => ~r.takes)
<1>1. r.s \in Did(s) /\ (~manner.scripts => ~r.takes)
  BY DEF Event
<1> QED BY <1>1, DidRan

-----------------------------------------------------------------------------
(* What was shown as sent and what was sent, of a state.                   *)
AsSent(shown, sent) ==
    LET what == [i \in DOMAIN shown |-> shown[i].what]
    IN  \E match \in [Places(what) -> Places(sent)] :
           /\ \A j \in Places(sent) : \E i \in Places(what) : match[i] = j
           /\ \A i \in Places(what) : sent[match[i]] = what[i]
           /\ \A i, j \in Places(what) : i < j => match[i] < match[j]

Agreed(s) == s.harm = {} => AsSent(s.shown, s.sent)

Done(s) == Fine(s) /\ Agreed(s)

(* Before anything is shown or sent.                                       *)
Still(s) ==
    /\ Fine(s) /\ s.shown = <<>> /\ s.sent = <<>>
    /\ manner.scripts \/ (s.meanwhile = {} /\ s.harm = {})

(* Something is shown, or what is gone is used.                            *)
Adds(s, t, what) ==
    /\ Fine(t) /\ t.sent = s.sent /\ Account(t) = Account(s) /\ Room(t) = Room(s)
    /\ t.query = s.query /\ t.meanwhile = s.meanwhile
    /\ \/ t.harm # {} /\ t.shown = s.shown
       \/ t.harm = s.harm /\ \E r \in BOOLEAN : t.shown = Append(s.shown, Line(what, r))

LEMMA NothingAgreed ==
    ASSUME NEW s, s.harm # {} \/ (s.shown = <<>> /\ s.sent = <<>>) PROVE Agreed(s)
<1>1. CASE s.harm # {}
  BY <1>1 DEF Agreed, AsSent
<1>2. CASE s.shown = <<>> /\ s.sent = <<>>
  <2> DEFINE what == [i \in DOMAIN s.shown |-> s.shown[i].what]
             match == [i \in {} |-> 0]
  <2>1. Places(what) = {} /\ Places(s.sent) = {}
    BY <1>2 DEF Places
  <2>2. match \in [Places(what) -> Places(s.sent)]
    BY <2>1
  <2> QED BY <2>1, <2>2 DEF Agreed, AsSent
<1> QED BY <1>1, <1>2

LEMMA OneAgreed ==
    ASSUME NEW s, NEW l, s.shown = <<l>>, l.what \notin Sendings,
           s.sent = <<>> \/ \E x : s.sent = <<x>> /\ x \notin Sendings
    PROVE  Agreed(s)
<1> DEFINE what == [i \in DOMAIN s.shown |-> s.shown[i].what]
           match == [i \in {} |-> 0]
<1>1. DOMAIN s.shown = {1} /\ s.shown[1] = l
  OBVIOUS
<1>2. Places(what) = {}
  BY <1>1 DEF Places
<1>3. Places(s.sent) = {}
  <2>1. CASE s.sent = <<>>
    BY <2>1 DEF Places
  <2>2. CASE \E x : s.sent = <<x>> /\ x \notin Sendings
    <3>1. PICK x : s.sent = <<x>> /\ x \notin Sendings
      BY <2>2
    <3>2. DOMAIN s.sent = {1} /\ s.sent[1] = x
      BY <3>1
    <3> QED BY <3>1, <3>2 DEF Places
  <2> QED BY <2>1, <2>2
<1>4. match \in [Places(what) -> Places(s.sent)]
  BY <1>2, <1>3
<1> QED BY <1>2, <1>3, <1>4 DEF Agreed, AsSent

LEMMA SentAgreed ==
    ASSUME NEW s, NEW l, s.shown = <<l>>, s.sent = <<l.what>>
    PROVE  Agreed(s)
<1> DEFINE what == [i \in DOMAIN s.shown |-> s.shown[i].what]
           match == [i \in Places(what) |-> i]
<1>1. DOMAIN s.shown = {1} /\ s.shown[1] = l /\ DOMAIN s.sent = {1} /\ s.sent[1] = l.what
  OBVIOUS
<1>2. DOMAIN what = {1} /\ what[1] = l.what
  BY <1>1
<1> HIDE DEF what
<1>3. Places(s.sent) = Places(what) /\ Places(what) \subseteq {1}
  BY <1>1, <1>2 DEF Places
<1>4. match \in [Places(what) -> Places(s.sent)]
  BY <1>3
<1>5. \A i \in Places(what) : match[i] = i /\ s.sent[i] = what[i]
  BY <1>1, <1>2, <1>3
<1> HIDE DEF match
<1>6. /\ \A j \in Places(s.sent) : \E i \in Places(what) : match[i] = j
      /\ \A i \in Places(what) : s.sent[match[i]] = what[i]
      /\ \A i, j \in Places(what) : i < j => match[i] < match[j]
  BY <1>3, <1>5
<1> QED BY <1>4, <1>6 DEF Agreed, AsSent, what

LEMMA AnswerAgreed ==
    ASSUME NEW s, NEW l, NEW m, DOMAIN s.shown = {1, 2}, s.shown[1] = l, s.shown[2] = m,
           s.sent = <<m.what>>, l.what \notin Sendings, m.what \in Sendings
    PROVE  Agreed(s)
<1> DEFINE what == [i \in DOMAIN s.shown |-> s.shown[i].what]
           match == [i \in {2} |-> 1]
<1>1. DOMAIN s.sent = {1} /\ s.sent[1] = m.what
  OBVIOUS
<1>2. DOMAIN what = {1, 2} /\ what[1] = l.what /\ what[2] = m.what
  OBVIOUS
<1> HIDE DEF what
<1>3. Places(s.sent) = {1} /\ Places(what) = {2}
  BY <1>1, <1>2 DEF Places
<1>4. match \in [Places(what) -> Places(s.sent)]
  BY <1>3
<1>5. match[2] = 1
  OBVIOUS
<1> HIDE DEF match
<1>6. /\ \A j \in Places(s.sent) : \E i \in Places(what) : match[i] = j
      /\ \A i \in Places(what) : s.sent[match[i]] = what[i]
      /\ \A i, j \in Places(what) : i < j => match[i] < match[j]
  BY <1>1, <1>2, <1>3, <1>5
<1> QED BY <1>4, <1>6 DEF Agreed, AsSent, what

-----------------------------------------------------------------------------
LEMMA HarmTold ==
    ASSUME NEW s, Fine(s), NEW what \in Whats, what \notin Careful, manner.scripts
    PROVE  Adds(s, Harm(s, what), what)
BY HarmFine DEF Adds, Output

Shows(s, what, right) == [s EXCEPT !.shown = Append(@, Line(what, right))]

LEMMA RightTold ==
    ASSUME NEW s, Fine(s), NEW what \in Whats, NEW right \in BOOLEAN,
           right \/ ("opened" \in s.meanwhile /\ what \in {"msg", "notice", "notice sent"}),
           what \notin SaidInChat \/ ~s.ignored
    PROVE  Adds(s, Shows(s, what, right), what)
<1> DEFINE t == [s EXCEPT !.shown = Append(@, Line(what, right))]
<1>1. /\ Fine(t) /\ t.shown = Append(s.shown, Line(what, right)) /\ t.sent = s.sent
      /\ Account(t) = Account(s) /\ Room(t) = Room(s) /\ Rest(t) = Rest(s)
  BY ShownFine
<1> HIDE DEF t
<1>2. Adds(s, t, what)
  BY <1>1 DEF Adds, Rest
<1> QED BY <1>2 DEF t, Shows

LEMMA ShowInTold ==
    ASSUME NEW s, Fine(s), NEW what \in Whats, what \notin SaidInChat, NEW w,
           w \in {"first", "second"} \ {s.query} => manner.scripts /\ what \notin Careful,
           \/ w = Home(s, what)
           \/ "opened" \in s.meanwhile /\ what \in {"msg", "notice", "notice sent"}
    PROVE  Adds(s, ShowIn(s, w, what), what)
<1>1. CASE w \in {"first", "second"} \ {s.query}
  BY <1>1, HarmTold DEF ShowIn
<1>2. CASE w \notin {"first", "second"} \ {s.query}
  <2> DEFINE right == w = Home(s, what)
  <2>1. right \in BOOLEAN
    OBVIOUS
  <2>2. ShowIn(s, w, what) = Shows(s, what, right)
    BY <1>2 DEF ShowIn, Shows
  <2>3. right \/ ("opened" \in s.meanwhile /\ what \in {"msg", "notice", "notice sent"})
    OBVIOUS
  <2> HIDE DEF right
  <2> QED BY <2>1, <2>2, <2>3, RightTold
<1> QED BY <1>1, <1>2

LEMMA OwnTold ==
    ASSUME NEW s, Fine(s), NEW what \in Whats, what \notin SaidInChat, NEW other,
           \/ other = "current" /\ what \in {"notice sent", "warn sent"}
           \/ other = "status" /\ what \notin {"notice", "notice sent", "warn sent"}
           \/ other = "status" /\ what = "notice"
    PROVE  Adds(s, ShowIn(s, FindOr(s, other), what), what)
<1>1. s.query \in {None, "first", "second"}
  BY DEF Fine, Talks
<1>2. FindOr(s, other) = Home(s, what)
  BY DEF FindOr, Home
<1>3. FindOr(s, other) \notin {"first", "second"} \ {s.query}
  BY <1>1 DEF FindOr
<1> QED BY <1>2, <1>3, ShowInTold

LEMMA ShowInChatTold ==
    ASSUME NEW s, Fine(s), NEW what \in Whats, what \notin Careful,
           manner.scripts \/ "chat" \notin s.meanwhile, what \notin SaidInChat \/ ~s.ignored
    PROVE  Adds(s, ShowInChat(s, what), what)
<1>1. CASE "chat" \in s.meanwhile \/ s.chat = "gone"
  <2>1. manner.scripts
    BY <1>1 DEF Fine, Harmed
  <2> QED BY <1>1, <2>1, HarmTold DEF ShowInChat
<1>2. CASE ~("chat" \in s.meanwhile \/ s.chat = "gone")
  <2>1. ShowInChat(s, what) = Shows(s, what, TRUE)
    BY <1>2 DEF ShowInChat, Shows
  <2> QED BY <2>1, RightTold
<1> QED BY <1>1, <1>2

LEMMA ElsewhereTold ==
    ASSUME NEW s, Fine(s), NEW what \in Whats, what \notin SaidInChat
    PROVE  Adds(s, Elsewhere(s, what), what)
BY RightTold DEF Elsewhere, Shows

-----------------------------------------------------------------------------
(* How operations end.                                                     *)
LEMMA EventStill ==
    ASSUME NEW s, Still(s), NEW r \in Event(s)
    PROVE  Still(r.s) /\ Ran(s, r.s) /\ (~manner.scripts => ~r.takes)
<1>1. Ran(s, r.s) /\ (~manner.scripts => ~r.takes)
  BY EventIs DEF Still
<1>2. Still(r.s)
  BY <1>1 DEF Still, Ran, Output
<1> QED BY <1>1, <1>2

LEMMA QuietDone ==
    ASSUME NEW s, Still(s), NEW t, Fine(t), Output(t) = Output(s)
    PROVE  Done(t)
BY NothingAgreed DEF Still, Done, Output

LEMMA StillDone ==
    ASSUME NEW s, Still(s) PROVE Done(s)
BY QuietDone DEF Still

LEMMA HarmDone ==
    ASSUME NEW s, Still(s), NEW what \in Whats, what \notin Careful,
           manner.scripts \/ what = "no chat"
    PROVE  Done(Harm(s, what))
BY HarmFine, NothingAgreed DEF Done, Still

LEMMA AddsDone ==
    ASSUME NEW s, Still(s), NEW t, NEW what, Adds(s, t, what), what \notin Sendings
    PROVE  Done(t)
<1>1. Fine(t) /\ t.sent = <<>>
  BY DEF Adds, Still
<1>2. CASE t.harm # {}
  BY <1>1, <1>2, NothingAgreed DEF Done
<1>3. CASE t.harm = {}
  <2>1. PICK r \in BOOLEAN : t.shown = Append(s.shown, Line(what, r))
    BY <1>3 DEF Adds
  <2> DEFINE l == Line(what, r)
  <2>2. l.what = what
    BY DEF Line
  <2> HIDE DEF l
  <2>3. t.shown = <<l>>
    BY <2>1 DEF Still, l
  <2> QED BY <1>1, <2>2, <2>3, OneAgreed DEF Done
<1> QED BY <1>2, <1>3

LEMMA SentDone ==
    ASSUME NEW s, s.shown = <<>>, NEW what, s.sent = <<what>>, NEW t, Adds(s, t, what)
    PROVE  Done(t)
<1>1. Fine(t) /\ t.sent = <<what>>
  BY DEF Adds
<1>2. CASE t.harm # {}
  BY <1>1, <1>2, NothingAgreed DEF Done
<1>3. CASE t.harm = {}
  <2>1. PICK r \in BOOLEAN : t.shown = Append(s.shown, Line(what, r))
    BY <1>3 DEF Adds
  <2> DEFINE l == Line(what, r)
  <2>2. l.what = what
    BY DEF Line
  <2> HIDE DEF l
  <2>3. t.shown = <<l>>
    BY <2>1 DEF l
  <2> QED BY <1>1, <2>2, <2>3, SentAgreed DEF Done
<1> QED BY <1>2, <1>3

(* The window was looked for before the scripts have run.                  *)
LEMMA EarlierTold ==
    ASSUME NEW s, Still(s), NEW r \in Event(s), NEW what, NEW other,
           \/ what \in {"msg", "notice"} /\ other = "status"
           \/ what = "notice sent" /\ other = "current"
    PROVE  Adds(r.s, ShowIn(r.s, FindOr(s, other), what), what)
<1>1. Still(r.s) /\ Ran(s, r.s)
  BY EventStill
<1>2. what \in Whats /\ what \notin SaidInChat /\ what \notin Careful
  BY DEF Whats, SaidInChat, Careful
<1>3. s.query \in {None, "first", "second"} /\ r.s.query \in {None, "first", "second"} /\ Fine(r.s)
  BY <1>1 DEF Still, Fine, Talks
<1> DEFINE w == FindOr(s, other)
<1>4. w \in {"first", "second"} \ {r.s.query} => manner.scripts
  BY <1>1, <1>3 DEF Ran, FindOr
<1>5. w \notin {"first", "second"} \ {r.s.query} =>
         \/ w = Home(r.s, what)
         \/ "opened" \in r.s.meanwhile
  BY <1>1, <1>3 DEF Ran, FindOr, Home, None
<1>6. CASE w \in {"first", "second"} \ {r.s.query}
  BY <1>2, <1>3, <1>4, <1>6, HarmTold DEF ShowIn
<1>7. CASE w \notin {"first", "second"} \ {r.s.query}
  <2>1. what \in {"msg", "notice", "notice sent"}
    OBVIOUS
  <2> HIDE DEF w
  <2>2. Adds(r.s, ShowIn(r.s, w, what), what)
    BY <1>2, <1>3, <1>5, <1>7, <2>1, ShowInTold
  <2> QED BY <2>2 DEF w
<1> QED BY <1>6, <1>7

-----------------------------------------------------------------------------
(* The account.                                                            *)
LEMMA AwayDone ==
    ASSUME NEW s, Still(s), NEW m \in {"short", "long"}, NEW t \in pork_set_away(s, m)
    PROVE  Done(t)
<1>1. PICK r \in Event(s) : t = IF r.takes THEN r.s ELSE Gone(r.s, m)
  BY DEF pork_set_away
<1>2. Still(r.s)
  BY EventStill
<1>3. Fine(Gone(r.s, m)) /\ Output(Gone(r.s, m)) = Output(r.s)
  BY <1>2, GoneFine DEF Still
<1> QED BY <1>1, <1>2, <1>3, StillDone, QuietDone

(* Back, as the user or as a message that is sent says.                    *)
LEMMA BackIs ==
    ASSUME NEW s, Fine(s), NEW t \in pork_set_back(s)
    PROVE  /\ Fine(t) /\ Output(t) = Output(s) /\ s.meanwhile \subseteq t.meanwhile
           /\ ~manner.scripts => t.meanwhile = s.meanwhile
<1>1. PICK r \in Event(s) : t = IF r.takes THEN r.s ELSE Returned(r.s)
  BY DEF pork_set_back
<1>2. Ran(s, r.s)
  BY EventIs
<1>3. /\ Fine(Returned(r.s)) /\ Output(Returned(r.s)) = Output(r.s)
      /\ Returned(r.s).meanwhile = r.s.meanwhile
  BY <1>2, ReturnedFine DEF Ran, Rest
<1> QED BY <1>1, <1>2, <1>3 DEF Ran

LEMMA ProfileDone ==
    ASSUME NEW s, Still(s), NEW p \in Profiles, NEW t \in pork_set_profile(s, p)
    PROVE  Done(t)
<1>1. PICK r \in Event(s) : t = IF r.takes THEN r.s ELSE ProfileServed([r.s EXCEPT !.profile = p], p)
  BY DEF pork_set_profile
<1>2. Still(r.s) /\ Fine(r.s)
  BY EventStill DEF Still
<1> DEFINE u == r.s
           v == ProfileServed([u EXCEPT !.profile = p], p)
<1>3. Fine(v) /\ Output(v) = Output(u)
  BY <1>2, ProfileFine
<1> HIDE DEF v
<1>4. Done(v) /\ Done(u)
  BY <1>2, <1>3, StillDone, QuietDone
<1> QED BY <1>1, <1>4 DEF v

LEMMA IdleDone ==
    ASSUME NEW s, Still(s), NEW on \in BOOLEAN, NEW t \in pork_set_idle(s, on) \cup {keyboard_input(s)}
    PROVE  Done(t)
<1>1. ASSUME NEW u, Still(u), NEW b \in BOOLEAN PROVE Done(ToldIdle(u, b))
  BY <1>1, AddsIdleFine, QuietDone DEF Still
<1>2. CASE t \in pork_set_idle(s, on)
  <2>1. PICK r \in Event(s) : t = IF r.takes THEN r.s ELSE ToldIdle(r.s, on)
    BY <1>2 DEF pork_set_idle
  <2>2. Still(r.s)
    BY EventStill
  <2> QED BY <2>1, <2>2, <1>1, StillDone
<1>3. CASE t = keyboard_input(s)
  BY <1>1, <1>3, StillDone DEF keyboard_input
<1> QED BY <1>2, <1>3

-----------------------------------------------------------------------------
(* Automatic answers.                                                      *)
LEMMA AutoreplyIs ==
    ASSUME NEW s, Fine(s)
    PROVE  LET t == pork_msg_autoreply(s)
           IN  \/ t = s
               \/ \E u : /\ u.shown = s.shown /\ u.sent = Append(s.sent, "auto") /\ u.harm = s.harm
                         /\ Adds(u, t, "auto")
<1>1. CASE ~manner.aim \/ ~s.online
  BY <1>1 DEF pork_msg_autoreply
<1>2. CASE ~(~manner.aim \/ ~s.online)
  <2> DEFINE v == Send(s, "auto")
             u == QueryWindow(v)
             t == ShowIn(u, Place(u), "auto")
  <2>1. "auto" \in Whats /\ "auto" \notin SaidInChat
    BY DEF Whats, SaidInChat
  <2>2. Fine(v) /\ v.sent = Append(s.sent, "auto") /\ v.shown = s.shown /\ v.harm = s.harm
    BY <2>1, SendFine DEF Rest
  <2> HIDE DEF v
  <2>3. Fine(u) /\ u.sent = Append(s.sent, "auto") /\ u.shown = s.shown /\ u.harm = s.harm
    BY <2>2, QueryWindowIs DEF Output
  <2> HIDE DEF u
  <2>4. Adds(u, t, "auto")
    BY <2>1, <2>3, OwnTold DEF Place
  <2>5. pork_msg_autoreply(s) = t
    BY <1>2 DEF pork_msg_autoreply, t, u, v
  <2> QED BY <2>3, <2>4, <2>5
<1> QED BY <1>1, <1>2

Answering(s, sp, past) ==
    [s EXCEPT !.hash[sp] = 0, !.replied = [age |-> 0, sp |-> sp], !.past = past]

LEMMA AnsweringFine ==
    ASSUME NEW s, Fine(s), NEW sp \in Spellings, NEW past, past = s.past
    PROVE  LET t == Answering(s, sp, past)
           IN Fine(t) /\ Room(t) = Room(s) /\ Output(t) = Output(s) /\ Rest(t) = Rest(s)
<1> DEFINE h == [s.hash EXCEPT ![sp] = 0]
           rep == [age |-> 0, sp |-> sp]
           t == [s EXCEPT !.hash = h, !.replied = rep, !.past = past]
<1>0. s \in Talks /\ s.hash \in [Spellings -> Int]
  BY DEF Fine, Talks
<1>1. h \in [Spellings -> Int] /\ h[sp] = 0 /\ rep \in [age : Int, sp : Spellings]
      /\ rep.sp = sp /\ rep.age = 0
  BY <1>0
<1>2. Answering(s, sp, past) = t
  BY DEF Answering
<1> HIDE DEF h, rep
<1>3. t \in Talks
  BY <1>0, <1>1 DEF Talks
<1>4. /\ t.online = s.online /\ t.away = s.away /\ t.server = s.server /\ t.profile = s.profile
      /\ t.served = s.served /\ t.idle = s.idle /\ t.servedidle = s.servedidle
      /\ t.hash = h /\ t.replied = rep /\ t.past = s.past
      /\ Room(t) = Room(s) /\ Output(t) = Output(s) /\ Rest(t) = Rest(s)
  BY <1>0 DEF Talks, Room, Output, Rest
<1> HIDE DEF t
<1>5. Paced(t)
  BY <1>1, <1>4 DEF Paced, Fine
<1>6. Served(t)
  BY <1>4 DEF Served, Fine
<1> QED BY <1>2, <1>3, <1>4, <1>5, <1>6, AccountFine

LEMMA SendAutoIs ==
    ASSUME NEW s, Fine(s), NEW sp \in Spellings, s.away # Back
    PROVE  LET t == pork_msg_send_auto(s, sp)
           IN  \/ Fine(t) /\ Output(t) = Output(s) /\ t.harm = s.harm
               \/ \E u : /\ u.shown = s.shown /\ u.sent = Append(s.sent, "auto") /\ u.harm = s.harm
                         /\ Adds(u, t, "auto")
<1>1. CASE ~manner.aim \/ s.hash[sp] \in 0 .. Delay - 1
  BY <1>1 DEF pork_msg_send_auto
<1>2. CASE ~(~manner.aim \/ s.hash[sp] \in 0 .. Delay - 1)
  <2>1. ~Early(s, sp)
    BY <1>2 DEF Early, Fine, Paced
  <2> DEFINE past == IF Early(s, sp) THEN s.past \cup {"early"} ELSE s.past
             u == Answering(s, sp, past)
  <2>2. past = s.past
    BY <2>1
  <2>3. pork_msg_send_auto(s, sp) = pork_msg_autoreply(u)
    BY <1>2 DEF pork_msg_send_auto, Answering
  <2> HIDE DEF past
  <2>4. Fine(u) /\ Output(u) = Output(s) /\ u.harm = s.harm
    BY <2>2, AnsweringFine DEF Rest
  <2> HIDE DEF u
  <2>5. \/ pork_msg_autoreply(u) = u
        \/ \E v : /\ v.shown = u.shown /\ v.sent = Append(u.sent, "auto") /\ v.harm = u.harm
                  /\ Adds(v, pork_msg_autoreply(u), "auto")
    BY <2>4, AutoreplyIs
  <2>6. u.shown = s.shown /\ u.sent = s.sent
    BY <2>4 DEF Output
  <2> QED BY <2>3, <2>4, <2>5, <2>6
<1> QED BY <1>1, <1>2

(* What is behind one line.                                                *)
LEMMA BehindOne ==
    ASSUME NEW S, NEW q \in Seq(S), NEW a, Len(q) = 1, q[1] = a, NEW b \in S
    PROVE  DOMAIN Append(q, b) = {1, 2} /\ Append(q, b)[1] = a /\ Append(q, b)[2] = b
<1>1. ASSUME NEW p \in Seq(S)
      PROVE  /\ Append(p, b) \in Seq(S) /\ Len(Append(p, b)) = Len(p) + 1
             /\ Append(p, b)[Len(p) + 1] = b
             /\ \A i \in 1 .. Len(p) : Append(p, b)[i] = p[i]
  OBVIOUS
<1>2. ASSUME NEW r \in Seq(S), Len(r) = 2 PROVE DOMAIN r = {1, 2}
  BY <1>2
<1>3. /\ Append(q, b) \in Seq(S) /\ Len(Append(q, b)) = Len(q) + 1
      /\ Append(q, b)[Len(q) + 1] = b
      /\ \A i \in 1 .. Len(q) : Append(q, b)[i] = q[i]
  BY <1>1, Zenon
<1>4. Len(q) + 1 = 2 /\ 1 \in 1 .. Len(q)
  OBVIOUS
<1>5. Append(q, b)[2] = b /\ Len(Append(q, b)) = 2
  BY <1>3, <1>4, Zenon
<1>6. Append(q, b)[1] = a
  BY <1>3, <1>4, Zenon
<1>7. DOMAIN Append(q, b) = {1, 2}
  BY <1>2, <1>3, <1>5, Zenon
<1> QED BY <1>5, <1>6, <1>7, Zenon

(* A line, and an answer to it.                                            *)
LEMMA AnswerDone ==
    ASSUME NEW s, Still(s), NEW t, NEW what, Adds(s, t, what), what \notin Sendings,
           NEW sp \in Spellings, t.away # Back
    PROVE  Done(pork_msg_send_auto(t, sp))
<1> DEFINE v == pork_msg_send_auto(t, sp)
<1>1. Fine(t) /\ t.sent = <<>> /\ Done(t)
  BY AddsDone DEF Adds, Still
<1>2. \/ Fine(v) /\ Output(v) = Output(t) /\ v.harm = t.harm
      \/ \E u : /\ u.shown = t.shown /\ u.sent = Append(t.sent, "auto") /\ u.harm = t.harm
                /\ Adds(u, v, "auto")
  BY <1>1, SendAutoIs
<1> SUFFICES Done(v)
  OBVIOUS
<1> HIDE DEF v
<1>3. CASE Fine(v) /\ Output(v) = Output(t) /\ v.harm = t.harm
  <2>1. v.shown = t.shown /\ v.sent = t.sent
    BY <1>3 DEF Output
  <2>2. Agreed(t)
    BY <1>1 DEF Done
  <2>3. Agreed(v)
    BY <1>3, <2>1, <2>2 DEF Agreed
  <2> QED BY <1>3, <2>3 DEF Done
<1>4. CASE \E u : /\ u.shown = t.shown /\ u.sent = Append(t.sent, "auto") /\ u.harm = t.harm
                  /\ Adds(u, v, "auto")
  <2>1. PICK u : /\ u.shown = t.shown /\ u.sent = Append(t.sent, "auto") /\ u.harm = t.harm
                 /\ Adds(u, v, "auto")
    BY <1>4
  <2>2. Fine(v) /\ v.sent = <<"auto">>
    BY <1>1, <2>1 DEF Adds
  <2>3. CASE v.harm # {}
    BY <2>2, <2>3, NothingAgreed DEF Done
  <2>4. CASE v.harm = {}
    <3>1. PICK q \in BOOLEAN : v.shown = Append(u.shown, Line("auto", q))
      BY <2>1, <2>4 DEF Adds
    <3>2. u.harm = {}
      BY <2>1, <2>4 DEF Adds
    <3>3. PICK r \in BOOLEAN : t.shown = Append(s.shown, Line(what, r))
      BY <2>1, <3>2 DEF Adds
    <3> DEFINE l == Line(what, r)
               m == Line("auto", q)
    <3>4. l.what = what /\ m.what = "auto" /\ "auto" \in Sendings
      BY DEF Line, Sendings
    <3> HIDE DEF l, m
    <3>5. DOMAIN v.shown = {1, 2} /\ v.shown[1] = l /\ v.shown[2] = m
      <4>1. t.shown = <<l>>
        BY <3>3 DEF Still, l
      <4>2. v.shown = Append(t.shown, m)
        BY <2>1, <3>1 DEF m
      <4>3. t.shown \in Seq(ShownLines) /\ m \in ShownLines
        BY <1>1 DEF Fine, Talks, m, Line, ShownLines, Whats
      <4>4. Len(t.shown) = 1 /\ t.shown[1] = l
        BY <4>1
      <4> QED BY <4>2, <4>3, <4>4, BehindOne
    <3> QED BY <2>2, <3>4, <3>5, AnswerAgreed DEF Done
  <2> QED BY <2>3, <2>4
<1> QED BY <1>2, <1>3, <1>4

-----------------------------------------------------------------------------
(* The correspondent.                                                      *)
LEMMA QueryWindowStill ==
    ASSUME NEW s, Still(s) PROVE Still(QueryWindow(s))
BY QueryWindowIs DEF Still, Output

LEMMA RecvMsgDone ==
    ASSUME NEW s, Still(s), NEW sp \in Spellings, NEW auto \in BOOLEAN,
           NEW t \in pork_recv_msg(s, sp, auto)
    PROVE  Done(t)
<1> DEFINE q == QueryWindow(s)
<1>1. Still(q)
  BY QueryWindowStill
<1>2. PICK r \in Event(q) :
         t = IF r.takes THEN r.s
             ELSE LET u == ShowIn(r.s, FindOr(q, "status"), "msg")
                  IN  IF u.away # Back /\ ~auto THEN pork_msg_send_auto(u, sp) ELSE u
  BY DEF pork_recv_msg, Place
<1> HIDE DEF q
<1> DEFINE u == ShowIn(r.s, FindOr(q, "status"), "msg")
<1>3. Still(r.s) /\ Adds(r.s, u, "msg")
  BY <1>1, EventStill, EarlierTold
<1>4. t \in {r.s, u} \/ (u.away # Back /\ t = pork_msg_send_auto(u, sp))
  BY <1>2
<1>5. "msg" \notin Sendings
  BY DEF Sendings
<1> HIDE DEF u
<1> QED BY <1>3, <1>4, <1>5, StillDone, AddsDone, AnswerDone

LEMMA RecvActionDone ==
    ASSUME NEW s, Still(s), NEW t \in pork_recv_action(s) PROVE Done(t)
<1>1. PICK r \in Event(s) : t = IF r.takes THEN r.s
                                ELSE LET u == QueryWindow(r.s) IN ShowIn(u, FindOr(u, "status"), "action")
  BY DEF pork_recv_action, Place
<1> DEFINE u == QueryWindow(r.s)
           v == ShowIn(u, FindOr(u, "status"), "action")
<1>2. Still(r.s) /\ Still(u)
  BY EventStill, QueryWindowStill
<1>3. t \in {r.s, v}
  BY <1>1
<1>4. "action" \in Whats /\ "action" \notin SaidInChat /\ "action" \notin Sendings
  BY DEF Whats, SaidInChat, Sendings
<1> HIDE DEF u
<1>5. Adds(u, v, "action")
  BY <1>2, <1>4, OwnTold DEF Still
<1> HIDE DEF v
<1> QED BY <1>2, <1>3, <1>4, <1>5, StillDone, AddsDone

LEMMA NoticeDone ==
    ASSUME NEW s, Still(s), NEW t \in pork_recv_notice(s) \cup pork_notice_send(s) PROVE Done(t)
<1>1. "notice" \notin Sendings /\ "notice sent" \notin Sendings
  BY DEF Sendings
<1>2. CASE t \in pork_recv_notice(s)
  <2>1. PICK r \in Event(s) : t = IF r.takes THEN r.s ELSE ShowIn(r.s, FindOr(s, "status"), "notice")
    BY <1>2 DEF pork_recv_notice
  <2>2. Still(r.s) /\ Adds(r.s, ShowIn(r.s, FindOr(s, "status"), "notice"), "notice")
    BY EventStill, EarlierTold
  <2> QED BY <1>1, <2>1, <2>2, StillDone, AddsDone
<1>3. CASE t \in pork_notice_send(s)
  <2>1. PICK r \in Event(s) :
           t = IF r.takes THEN r.s ELSE ShowIn(r.s, FindOr(s, "current"), "notice sent")
    BY <1>3 DEF pork_notice_send
  <2>2. Still(r.s) /\ Adds(r.s, ShowIn(r.s, FindOr(s, "current"), "notice sent"), "notice sent")
    BY EventStill, EarlierTold
  <2> QED BY <1>1, <2>1, <2>2, StillDone, AddsDone
<1> QED BY <1>2, <1>3

LEMMA SendIs ==
    ASSUME NEW s, Still(s), NEW what \in Whats
    PROVE  LET t == Send(s, what)
           IN  /\ Fine(t) /\ t.shown = <<>> /\ t.sent = <<what>>
               /\ t.query = s.query /\ t.meanwhile = s.meanwhile /\ Room(t) = Room(s)
<1> DEFINE t == Send(s, what)
<1>1. /\ Fine(t) /\ t.sent = Append(s.sent, what) /\ t.shown = s.shown
      /\ Room(t) = Room(s) /\ Rest(t) = Rest(s)
  BY SendFine DEF Still
<1> HIDE DEF t
<1>2. t.sent = <<what>> /\ t.shown = <<>>
  BY <1>1 DEF Still
<1> QED BY <1>1, <1>2 DEF Rest, t

LEMMA SaidDone ==
    ASSUME NEW s, Fine(s), NEW what \in {"sent", "action sent"}, s.shown = <<>>, s.sent = <<what>>,
           manner.scripts \/ s.meanwhile = {}, NEW typed \in BOOLEAN
    PROVE  Done(Said(s, typed, what))
<1>1. what \in Whats /\ what \notin SaidInChat /\ what \notin Careful
  BY DEF Whats, SaidInChat, Careful
<1>2. CASE Dangling(s, typed)
  <2>1. manner.scripts
    BY <1>2 DEF Dangling
  <2>2. Fine(Harm(s, what)) /\ Harm(s, what).harm # {}
    BY <1>1, <2>1, HarmFine
  <2> QED BY <1>2, <2>2, NothingAgreed DEF Said, Done
<1>3. CASE ~Dangling(s, typed)
  <2> DEFINE u == QueryWindow(s)
  <2>1. Fine(u) /\ u.shown = <<>> /\ u.sent = <<what>>
    BY QueryWindowIs DEF Output
  <2>2. Said(s, typed, what) = ShowIn(u, FindOr(u, "status"), what)
    BY <1>3 DEF Said, Place
  <2> HIDE DEF u
  <2>3. Adds(u, ShowIn(u, FindOr(u, "status"), what), what)
    BY <1>1, <2>1, OwnTold
  <2> QED BY <2>1, <2>2, <2>3, SentDone
<1> QED BY <1>2, <1>3

LEMMA MsgSendDone ==
    ASSUME NEW s, Still(s), NEW typed \in BOOLEAN, NEW t \in pork_msg_send(s, typed) PROVE Done(t)
<1>1. "sent" \in Whats /\ "sent" \notin Careful
  BY DEF Whats, Careful
<1>2. PICK r \in Event(s) :
         t \in IF r.takes THEN {r.s}
               ELSE IF Dangling(r.s, typed) THEN {Harm(r.s, "sent")}
               ELSE {r.s} \cup
                    {Said(v, typed, "sent") :
                        v \in IF r.s.away # Back /\ manner.back THEN pork_set_back(Send(r.s, "sent"))
                              ELSE {Send(r.s, "sent")}}
  BY DEF pork_msg_send
<1> DEFINE u == Send(r.s, "sent")
<1>3. Still(r.s)
  BY EventStill
<1>4. Fine(u) /\ u.shown = <<>> /\ u.sent = <<"sent">> /\ u.meanwhile = r.s.meanwhile
  BY <1>1, <1>3, SendIs
<1>5. \/ t = r.s
      \/ Dangling(r.s, typed) /\ t = Harm(r.s, "sent")
      \/ \E v \in pork_set_back(u) \cup {u} : t = Said(v, typed, "sent")
  BY <1>2
<1> HIDE DEF u
<1>6. ASSUME NEW v \in pork_set_back(u) \cup {u} PROVE Done(Said(v, typed, "sent"))
  <2>1. /\ Fine(v) /\ Output(v) = Output(u)
        /\ ~manner.scripts => v.meanwhile = u.meanwhile
    BY <1>4, BackIs
  <2>2. v.shown = <<>> /\ v.sent = <<"sent">>
    BY <1>4, <2>1 DEF Output
  <2>3. manner.scripts \/ v.meanwhile = {}
    BY <1>3, <1>4, <2>1 DEF Still
  <2> QED BY <2>1, <2>2, <2>3, SaidDone
<1>7. ASSUME Dangling(r.s, typed) PROVE Done(Harm(r.s, "sent"))
  BY <1>1, <1>3, <1>7, HarmDone DEF Dangling, Still
<1> QED BY <1>3, <1>5, <1>6, <1>7, StillDone

LEMMA ActionSendDone ==
    ASSUME NEW s, Still(s), NEW typed \in BOOLEAN, NEW t \in pork_action_send(s, typed) PROVE Done(t)
<1>1. "action sent" \in Whats /\ "action sent" \notin Careful
  BY DEF Whats, Careful
<1>2. PICK r \in Event(s) :
         t \in IF r.takes THEN {r.s}
               ELSE IF Dangling(r.s, typed) THEN {Harm(r.s, "action sent")}
               ELSE {r.s, Said(Send(r.s, "action sent"), typed, "action sent")}
  BY DEF pork_action_send
<1> DEFINE u == Send(r.s, "action sent")
<1>3. Still(r.s)
  BY EventStill
<1>4. Fine(u) /\ u.shown = <<>> /\ u.sent = <<"action sent">> /\ u.meanwhile = r.s.meanwhile
  BY <1>1, <1>3, SendIs
<1>5. \/ t = r.s
      \/ Dangling(r.s, typed) /\ t = Harm(r.s, "action sent")
      \/ t = Said(u, typed, "action sent")
  BY <1>2
<1> HIDE DEF u
<1>6. Done(Said(u, typed, "action sent"))
  BY <1>3, <1>4, SaidDone DEF Still
<1>7. ASSUME Dangling(r.s, typed) PROVE Done(Harm(r.s, "action sent"))
  BY <1>1, <1>3, <1>7, HarmDone DEF Dangling, Still
<1> QED BY <1>3, <1>5, <1>6, <1>7, StillDone

LEMMA WarnDone ==
    ASSUME NEW s, Still(s),
           NEW t \in pork_send_warn(s) \cup pork_recv_warn(s) \cup pork_recv_warn_anon(s)
    PROVE  Done(t)
<1>1. /\ {"warn sent", "warn", "warn anon"} \subseteq Whats
      /\ {"warn sent", "warn", "warn anon"} \cap SaidInChat = {}
      /\ "warn" \notin Sendings /\ "warn anon" \notin Sendings
  BY DEF Whats, SaidInChat, Sendings
<1>2. CASE t \in pork_send_warn(s)
  <2>1. PICK r \in Event(s) :
           t \in IF r.takes THEN {r.s}
                 ELSE {r.s, ShowIn(Send(r.s, "warn sent"), FindOr(r.s, "current"), "warn sent")}
    BY <1>2 DEF pork_send_warn
  <2> DEFINE u == Send(r.s, "warn sent")
  <2>2. Still(r.s)
    BY EventStill
  <2>3. Fine(u) /\ u.shown = <<>> /\ u.sent = <<"warn sent">> /\ u.query = r.s.query
    BY <1>1, <2>2, SendIs
  <2>4. t = r.s \/ t = ShowIn(u, FindOr(u, "current"), "warn sent")
    BY <2>1, <2>3 DEF FindOr
  <2> HIDE DEF u
  <2>5. Adds(u, ShowIn(u, FindOr(u, "current"), "warn sent"), "warn sent")
    BY <1>1, <2>3, OwnTold
  <2> QED BY <2>2, <2>3, <2>4, <2>5, StillDone, SentDone
<1>3. CASE t \in pork_recv_warn(s)
  <2>1. PICK r \in Event(s) : t = IF r.takes THEN r.s ELSE ShowIn(r.s, FindOr(r.s, "status"), "warn")
    BY <1>3 DEF pork_recv_warn
  <2>2. Still(r.s)
    BY EventStill
  <2>3. Adds(r.s, ShowIn(r.s, FindOr(r.s, "status"), "warn"), "warn")
    BY <1>1, <2>2, OwnTold DEF Still
  <2> QED BY <1>1, <2>1, <2>2, <2>3, StillDone, AddsDone
<1>4. CASE t \in pork_recv_warn_anon(s)
  <2>1. PICK r \in Event(s) : t = IF r.takes THEN r.s ELSE Elsewhere(r.s, "warn anon")
    BY <1>4 DEF pork_recv_warn_anon
  <2>2. Still(r.s)
    BY EventStill
  <2>3. Adds(r.s, Elsewhere(r.s, "warn anon"), "warn anon")
    BY <1>1, <2>2, ElsewhereTold DEF Still
  <2> QED BY <1>1, <2>1, <2>2, <2>3, StillDone, AddsDone
<1> QED BY <1>2, <1>3, <1>4

LEMMA AutoDone ==
    ASSUME NEW s, Still(s) PROVE Done(pork_msg_autoreply(s))
<1> DEFINE t == pork_msg_autoreply(s)
<1>1. \/ t = s
      \/ \E u : /\ u.shown = s.shown /\ u.sent = Append(s.sent, "auto") /\ u.harm = s.harm
                /\ Adds(u, t, "auto")
  BY AutoreplyIs DEF Still
<1> HIDE DEF t
<1>2. ASSUME NEW u, u.shown = s.shown, u.sent = Append(s.sent, "auto"), Adds(u, t, "auto")
      PROVE  Done(t)
  <2>1. u.shown = <<>> /\ u.sent = <<"auto">>
    BY <1>2 DEF Still
  <2> QED BY <1>2, <2>1, SentDone
<1>3. Done(t)
  BY <1>1, <1>2, StillDone
<1> QED BY <1>3 DEF t

(* A request, and the answer to it.                                        *)
LEMMA BesideDone ==
    ASSUME NEW s, s.shown = <<>>, s.sent = <<>> \/ \E x : s.sent = <<x>> /\ x \notin Sendings,
           NEW t, NEW what, Adds(s, t, what), what \notin Sendings
    PROVE  Done(t)
<1>1. Fine(t) /\ t.sent = s.sent
  BY DEF Adds
<1>2. CASE t.harm # {}
  BY <1>1, <1>2, NothingAgreed DEF Done
<1>3. CASE t.harm = {}
  <2>1. PICK r \in BOOLEAN : t.shown = Append(s.shown, Line(what, r))
    BY <1>3 DEF Adds
  <2> DEFINE l == Line(what, r)
  <2>2. l.what = what
    BY DEF Line
  <2> HIDE DEF l
  <2>3. t.shown = <<l>>
    BY <2>1 DEF l
  <2> QED BY <1>1, <2>2, <2>3, OneAgreed DEF Done
<1> QED BY <1>2, <1>3

LEMMA CtcpDone ==
    ASSUME NEW s, Still(s), NEW toMe \in BOOLEAN PROVE Done(Ctcp(s, toMe))
<1> DEFINE t == IF manner.leaks THEN Send(s, "ctcp reply") ELSE s
           u == QueryWindow(t)
<1>1. /\ {"ctcp reply", "ctcp"} \subseteq Whats /\ "ctcp" \notin SaidInChat
      /\ {"ctcp reply", "ctcp"} \cap (Sendings \cup Careful) = {}
  BY DEF Whats, SaidInChat, Sendings, Careful
<1>2. /\ Fine(t) /\ t.shown = <<>> /\ t.sent \in {<<>>, <<"ctcp reply">>}
      /\ t.meanwhile = s.meanwhile /\ t.chat = s.chat
  <2>1. CASE manner.leaks
    BY <1>1, <2>1, SendIs DEF Room
  <2>2. CASE ~manner.leaks
    BY <2>2 DEF Still
  <2> QED BY <2>1, <2>2
<1>3. Ctcp(s, toMe) = IF toMe THEN ShowIn(u, FindOr(u, "status"), "ctcp")
                      ELSE IF s.chat = None THEN Elsewhere(t, "ctcp")
                      ELSE ShowInChat(t, "ctcp")
  BY DEF Ctcp, Place
<1> HIDE DEF t
<1>4. Fine(u) /\ u.shown = <<>> /\ u.sent = t.sent
  BY <1>2, QueryWindowIs DEF Output
<1> HIDE DEF u
<1>5. Adds(u, ShowIn(u, FindOr(u, "status"), "ctcp"), "ctcp")
  BY <1>1, <1>4, OwnTold
<1>6. Adds(t, Elsewhere(t, "ctcp"), "ctcp") /\ Adds(t, ShowInChat(t, "ctcp"), "ctcp")
  BY <1>1, <1>2, ElsewhereTold, ShowInChatTold DEF Still
<1>7. \A x : Adds(u, x, "ctcp") \/ Adds(t, x, "ctcp") => Done(x)
  BY <1>1, <1>2, <1>4, BesideDone
<1> QED BY <1>3, <1>5, <1>6, <1>7

-----------------------------------------------------------------------------
(* The chat.                                                               *)
Seated(s, place, win, member, ignored) ==
    [s EXCEPT !.chat = place, !.chatwin = win, !.member = member, !.ignored = ignored]

LEMMA SeatedStill ==
    ASSUME NEW s, Still(s), NEW place \in {s.chat, "there"}, NEW win \in BOOLEAN,
           NEW member \in BOOLEAN, NEW ignored \in BOOLEAN, ignored => member
    PROVE  Still(Seated(s, place, win, member, ignored))
<1> DEFINE t == [s EXCEPT !.chat = place, !.chatwin = win, !.member = member, !.ignored = ignored]
<1>0. s \in Talks /\ Fine(s) /\ s.shown = <<>> /\ s.sent = <<>> /\ place \in {None, "there", "gone"}
  BY DEF Still, Fine, Talks
<1>1. t \in Talks
  BY <1>0 DEF Talks
<1>2. /\ Account(t) = Account(s) /\ Output(t) = Output(s) /\ Rest(t) = Rest(s)
      /\ t.chat = place /\ t.member = member /\ t.ignored = ignored
      /\ t.shown = <<>> /\ t.sent = <<>> /\ t.meanwhile = s.meanwhile
  BY <1>0 DEF Talks, Account, Output, Rest
<1> HIDE DEF t
<1>3. Paced(t) /\ Served(t)
  BY <1>0, <1>2 DEF Paced, Served, Fine, Account
<1>4. Unheard(t) /\ Placed(t)
  BY <1>2 DEF Unheard, Placed
<1>5. Harmed(t)
  BY <1>0, <1>2 DEF Harmed, Fine, Rest
<1>6. Fine(t) /\ t.harm = s.harm
  BY <1>1, <1>2, <1>3, <1>4, <1>5 DEF Fine, Rest
<1>7. Still(t)
  BY <1>2, <1>6 DEF Still
<1> QED BY <1>7 DEF t, Seated

LEMMA ChatToldDone ==
    ASSUME NEW s, Still(s), NEW what \in Whats, what \notin Careful, what \notin Sendings,
           what \notin SaidInChat \/ ~s.ignored
    PROVE  Done(ShowInChat(s, what)) /\ Adds(s, ShowInChat(s, what), what)
<1>1. manner.scripts \/ "chat" \notin s.meanwhile
  BY DEF Still
<1>2. Adds(s, ShowInChat(s, what), what)
  BY <1>1, ShowInChatTold DEF Still
<1> QED BY <1>2, AddsDone

LEMMA InChatDone ==
    ASSUME NEW s, Still(s), NEW what \in {"topic", "mode", "joined"}, NEW t \in InChat(s, what)
    PROVE  Done(t)
<1>1. PICK r \in Event(s) : t = IF r.takes THEN r.s ELSE ShowInChat(r.s, what)
  BY DEF InChat
<1>2. Still(r.s)
  BY EventStill
<1>3. what \in Whats /\ what \notin Careful /\ what \notin Sendings /\ what \notin SaidInChat
  BY DEF Whats, Careful, Sendings, SaidInChat
<1>4. Done(ShowInChat(r.s, what))
  BY <1>2, <1>3, ChatToldDone
<1> QED BY <1>1, <1>2, <1>4, StillDone

LEMMA ChatSendDone ==
    ASSUME NEW s, Still(s), NEW what \in {"chat msg sent", "chat notice sent", "chat action sent"},
           NEW t \in chat_send(s, what)
    PROVE  Done(t)
<1>1. PICK r \in Event(s) :
         t \in IF r.takes THEN {r.s}
               ELSE IF "chat" \in r.s.meanwhile THEN {Harm(r.s, what)}
               ELSE {r.s, ShowInChat(Send(r.s, what), what)}
  BY DEF chat_send
<1> DEFINE u == Send(r.s, what)
<1>2. Still(r.s)
  BY EventStill
<1>3. what \in Whats /\ what \notin Careful /\ what \notin SaidInChat
  BY DEF Whats, Careful, SaidInChat
<1>4. Fine(u) /\ u.shown = <<>> /\ u.sent = <<what>> /\ u.meanwhile = r.s.meanwhile
  BY <1>2, <1>3, SendIs
<1>5. \/ t = r.s
      \/ "chat" \in r.s.meanwhile /\ t = Harm(r.s, what)
      \/ "chat" \notin r.s.meanwhile /\ t = ShowInChat(u, what)
  BY <1>1
<1> HIDE DEF u
<1>6. ASSUME "chat" \notin r.s.meanwhile PROVE Done(ShowInChat(u, what))
  <2>1. Adds(u, ShowInChat(u, what), what)
    BY <1>3, <1>4, <1>6, ShowInChatTold
  <2> QED BY <1>4, <2>1, SentDone
<1>7. ASSUME "chat" \in r.s.meanwhile PROVE Done(Harm(r.s, what))
  BY <1>2, <1>3, <1>7, HarmDone DEF Still
<1> QED BY <1>2, <1>5, <1>6, <1>7, StillDone

LEMMA ChatRecvDone ==
    ASSUME NEW s, Still(s), NEW what \in SaidInChat, NEW t \in chat_recv(s, what)
    PROVE  Done(t)
<1>1. PICK r \in Event(s) :
         t = IF r.takes THEN r.s
             ELSE IF "chat" \in r.s.meanwhile THEN Harm(r.s, what)
             ELSE IF r.s.member /\ r.s.ignored THEN r.s
             ELSE ShowInChat(r.s, what)
  BY DEF chat_recv
<1>2. Still(r.s)
  BY EventStill
<1>3. what \in Whats /\ what \notin Careful /\ what \notin Sendings
  BY DEF Whats, Careful, SaidInChat, Sendings
<1>4. ASSUME "chat" \in r.s.meanwhile PROVE Done(Harm(r.s, what))
  BY <1>2, <1>3, <1>4, HarmDone DEF Still
<1>5. ASSUME ~(r.s.member /\ r.s.ignored) PROVE Done(ShowInChat(r.s, what))
  <2>1. ~r.s.ignored
    BY <1>2, <1>5 DEF Still, Fine, Unheard
  <2> QED BY <1>2, <1>3, <2>1, ChatToldDone
<1> QED BY <1>1, <1>2, <1>4, <1>5, StillDone

LEMMA IgnoreDone ==
    ASSUME NEW s, Still(s), NEW on \in BOOLEAN PROVE Done(chat_ignore(s, on))
<1>1. CASE ~s.member
  BY <1>1, StillDone DEF chat_ignore
<1>2. CASE s.member
  <2> DEFINE u == [s EXCEPT !.ignored = on]
  <2>1. s \in Talks
    BY DEF Still, Fine
  <2>5. s.chatwin \in BOOLEAN /\ s.chat \in {s.chat, "there"} /\ s.member = TRUE
    BY <1>2, <2>1 DEF Talks
  <2>2. u = Seated(s, s.chat, s.chatwin, TRUE, on)
    BY <1>2, <2>1, <2>5 DEF Seated, Talks
  <2>7. Still(Seated(s, s.chat, s.chatwin, TRUE, on))
    BY <2>5, SeatedStill
  <2>3. Still(u)
    BY <2>2, <2>7
  <2>4. chat_ignore(s, on) = ShowInChat(u, "ignoring")
    BY <1>2 DEF chat_ignore
  <2> HIDE DEF u
  <2>6. "ignoring" \in Whats /\ "ignoring" \notin Careful \cup Sendings \cup SaidInChat
    BY DEF Whats, Careful, Sendings, SaidInChat
  <2> QED BY <2>3, <2>4, <2>6, ChatToldDone
<1>3. s.member \in BOOLEAN
  BY DEF Still, Fine, Talks
<1> QED BY <1>1, <1>2

LEMMA JoinedDone ==
    ASSUME NEW s, Still(s), NEW t \in user_joined(s) PROVE Done(t)
<1>1. CASE s.member
  BY <1>1, StillDone DEF user_joined
<1>2. CASE ~s.member
  <2> DEFINE u == [s EXCEPT !.member = TRUE, !.ignored = FALSE]
  <2>1. s \in Talks
    BY DEF Still, Fine
  <2>5. s.chatwin \in BOOLEAN /\ s.chat \in {s.chat, "there"}
    BY <2>1 DEF Talks
  <2>2. u = Seated(s, s.chat, s.chatwin, TRUE, FALSE)
    BY <2>1 DEF Seated, Talks
  <2>7. Still(Seated(s, s.chat, s.chatwin, TRUE, FALSE))
    BY <2>5, SeatedStill
  <2>3. Still(u)
    BY <2>2, <2>7
  <2>4. t \in InChat(u, "joined")
    BY <1>2 DEF user_joined
  <2> HIDE DEF u
  <2> QED BY <2>3, <2>4, InChatDone
<1> QED BY <1>1, <1>2

(* What a member leaves.                                                   *)
Parted(s) == [s EXCEPT !.member = FALSE, !.ignored = FALSE]

LEMMA PartedDone ==
    ASSUME NEW s, Done(s) PROVE Done(Parted(s))
<1> DEFINE t == [s EXCEPT !.member = FALSE, !.ignored = FALSE]
<1>1. s \in Talks
  BY DEF Done, Fine
<1>2. t \in Talks
  BY <1>1 DEF Talks
<1>3. /\ Account(t) = Account(s) /\ Output(t) = Output(s) /\ t.meanwhile = s.meanwhile
      /\ t.harm = s.harm /\ ~t.ignored /\ t.chat = s.chat
  BY <1>1 DEF Talks, Account, Output
<1> HIDE DEF t
<1>4. Fine(t)
  BY <1>2, <1>3, RoomFine DEF Done, Fine, Harmed
<1>5. Agreed(t)
  BY <1>3 DEF Done, Agreed, Output
<1> QED BY <1>4, <1>5 DEF Done, Parted, t

LEMMA HarmAfter ==
    ASSUME NEW s, Fine(s), manner.scripts, NEW what \in Whats, what \notin Careful
    PROVE  Done(Harm(s, what))
BY HarmFine, NothingAgreed DEF Done

(* The end of chat_user_left.                                              *)
LEMMA GoesDone ==
    ASSUME NEW t, Done(t), manner.scripts \/ "chat" \notin t.meanwhile
    PROVE  Done(IF "chat" \in t.meanwhile THEN Harm(t, "left")
                ELSE [t EXCEPT !.member = FALSE, !.ignored = FALSE])
<1>1. "left" \in Whats /\ "left" \notin Careful
  BY DEF Whats, Careful
<1>2. CASE "chat" \in t.meanwhile
  BY <1>1, <1>2, HarmAfter DEF Done
<1>3. CASE "chat" \notin t.meanwhile
  BY <1>3, PartedDone DEF Parted
<1> QED BY <1>2, <1>3

LEMMA SilentDone ==
    ASSUME NEW s, Done(s), manner.scripts \/ "chat" \notin s.meanwhile, NEW t \in chat_user_left(s, TRUE)
    PROVE  Done(t)
<1>1. PICK r \in Event(s) : t = IF "chat" \in r.s.meanwhile THEN Harm(r.s, "left")
                                ELSE [r.s EXCEPT !.member = FALSE, !.ignored = FALSE]
  BY DEF chat_user_left
<1>2. Ran(s, r.s)
  BY EventIs DEF Done
<1>3. Done(r.s)
  <2>1. r.s.shown = s.shown /\ r.s.sent = s.sent /\ s.harm \subseteq r.s.harm
    BY <1>2 DEF Ran, Output
  <2>2. Agreed(s)
    BY DEF Done
  <2>3. Agreed(r.s)
    BY <2>1, <2>2 DEF Agreed
  <2> QED BY <1>2, <2>3 DEF Done, Ran
<1>4. manner.scripts \/ "chat" \notin r.s.meanwhile
  BY <1>2 DEF Ran
<1> QED BY <1>1, <1>3, <1>4, GoesDone

LEMMA GoneToldDone ==
    ASSUME NEW s, Still(s), NEW r \in Event(s), NEW what \in {"left", "quit", "kicked"},
           NEW t \in {r.s, ShowInChat(r.s, what)}
    PROVE  /\ Done(t) /\ (manner.scripts \/ "chat" \notin t.meanwhile)
           /\ t.shown = <<>> \/ \E l : t.shown = <<l>> /\ l.what = what
<1>1. Still(r.s)
  BY EventStill
<1>2. what \in Whats /\ what \notin Careful /\ what \notin Sendings /\ what \notin SaidInChat
  BY DEF Whats, Careful, Sendings, SaidInChat
<1>3. Done(r.s) /\ Done(ShowInChat(r.s, what)) /\ Adds(r.s, ShowInChat(r.s, what), what)
  BY <1>1, <1>2, StillDone, ChatToldDone
<1>4. t.meanwhile = r.s.meanwhile
  BY <1>3 DEF Adds
<1>5. t.shown = <<>> \/ \E l : t.shown = <<l>> /\ l.what = what
  <2>1. CASE t.shown = r.s.shown
    BY <1>1, <2>1 DEF Still
  <2>2. CASE \E b \in BOOLEAN : t.shown = Append(r.s.shown, Line(what, b))
    <3>1. PICK b \in BOOLEAN : t.shown = Append(r.s.shown, Line(what, b))
      BY <2>2
    <3> DEFINE l == Line(what, b)
    <3>2. l.what = what
      BY DEF Line
    <3> HIDE DEF l
    <3>3. t.shown = <<l>>
      BY <1>1, <3>1 DEF Still, l
    <3> QED BY <3>2, <3>3
  <2> QED BY <1>3, <2>1, <2>2 DEF Adds
<1>6. manner.scripts \/ "chat" \notin t.meanwhile
  BY <1>1, <1>4 DEF Still
<1>7. Done(t)
  BY <1>3
<1> QED BY <1>5, <1>6, <1>7

LEMMA LeftByDone ==
    ASSUME NEW s, Still(s), NEW t \in chat_user_left(s, FALSE) PROVE Done(t)
<1>1. PICK r \in Event(s) :
         t = LET u == IF r.takes THEN r.s ELSE ShowInChat(r.s, "left")
             IN  IF "chat" \in u.meanwhile THEN Harm(u, "left")
                 ELSE [u EXCEPT !.member = FALSE, !.ignored = FALSE]
  BY DEF chat_user_left
<1> DEFINE u == IF r.takes THEN r.s ELSE ShowInChat(r.s, "left")
<1>2. Done(u) /\ (manner.scripts \/ "chat" \notin u.meanwhile)
  BY GoneToldDone
<1>3. t = IF "chat" \in u.meanwhile THEN Harm(u, "left")
          ELSE [u EXCEPT !.member = FALSE, !.ignored = FALSE]
  BY <1>1
<1> HIDE DEF u
<1> QED BY <1>2, <1>3, GoesDone

LEMMA QuitDone ==
    ASSUME NEW s, Still(s), NEW t \in chat_user_quit(s) \cup chat_user_kicked(s) PROVE Done(t)
<1>1. ASSUME NEW what \in {"quit", "kicked"}, NEW r \in Event(s), NEW u \in {r.s, ShowInChat(r.s, what)},
             t \in IF "chat" \in u.meanwhile THEN {Harm(u, what)} ELSE chat_user_left(u, TRUE)
      PROVE  Done(t)
  <2>1. Done(u) /\ (manner.scripts \/ "chat" \notin u.meanwhile)
    BY GoneToldDone
  <2>2. what \in Whats /\ what \notin Careful
    BY DEF Whats, Careful
  <2>3. CASE "chat" \in u.meanwhile
    BY <1>1, <2>1, <2>2, <2>3, HarmAfter DEF Done
  <2>4. CASE "chat" \notin u.meanwhile
    BY <1>1, <2>1, <2>4, SilentDone
  <2> QED BY <2>3, <2>4
<1>2. CASE t \in chat_user_quit(s)
  <2>1. PICK r \in Event(s) :
           t \in LET u == IF r.takes THEN r.s ELSE ShowInChat(r.s, "quit")
                 IN  IF "chat" \in u.meanwhile THEN {Harm(u, "quit")} ELSE chat_user_left(u, TRUE)
    BY <1>2 DEF chat_user_quit
  <2> QED BY <1>1, <2>1
<1>3. CASE t \in chat_user_kicked(s)
  <2>1. PICK r \in Event(s) :
           t \in LET u == IF r.takes THEN r.s ELSE ShowInChat(r.s, "kicked")
                 IN  IF "chat" \in u.meanwhile THEN {Harm(u, "kicked")} ELSE chat_user_left(u, TRUE)
    BY <1>3 DEF chat_user_kicked
  <2> QED BY <1>1, <2>1
<1> QED BY <1>2, <1>3

(* chat_forced_leave: the last of its operations begins with nothing        *)
(* opened and nothing freed.                                               *)
Forgotten(s) == [s EXCEPT !.meanwhile = {}]

LEMMA ForgottenFine ==
    ASSUME NEW s, Fine(s), s.shown = <<>> \/ \E l : s.shown = <<l>> /\ l.what = "kicked"
    PROVE  LET t == Forgotten(s)
           IN  /\ Fine(t) /\ Output(t) = Output(s) /\ t.meanwhile = {} /\ t.harm = s.harm
               /\ t.chat = s.chat /\ t.chatwin \in BOOLEAN
<1> DEFINE t == [s EXCEPT !.meanwhile = {}]
<1>0. s \in Talks
  BY DEF Fine
<1>1. t \in Talks /\ t.chatwin \in BOOLEAN
  BY <1>0 DEF Talks
<1>2. /\ Account(t) = Account(s) /\ Room(t) = Room(s) /\ Output(t) = Output(s)
      /\ t.query = s.query /\ t.harm = s.harm /\ t.meanwhile = {} /\ t.chat = s.chat
  BY <1>0 DEF Talks, Account, Room, Output
<1> HIDE DEF t
<1>3. Paced(t) /\ Served(t) /\ Unheard(t) /\ Harmed(t)
  BY <1>2 DEF Paced, Served, Unheard, Harmed, Fine, Account, Room, Output
<1>4. Placed(t)
  <2>1. t.shown = s.shown
    BY <1>2 DEF Output
  <2>2. CASE s.shown = <<>>
    <3>1. Len(t.shown) = 0
      BY <2>1, <2>2
    <3>2. \A i \in 1 .. Len(t.shown) : FALSE
      BY <3>1
    <3> QED BY <3>2, Zenon DEF Placed
  <2>3. CASE \E l : s.shown = <<l>> /\ l.what = "kicked"
    <3>1. PICK l : s.shown = <<l>> /\ l.what = "kicked"
      BY <2>3
    <3>2. Len(s.shown) = 1 /\ s.shown[1] = l
      BY <3>1
    <3>3. 1 \in 1 .. Len(s.shown) /\ s.shown[1].what = "kicked"
      BY <3>1, <3>2
    <3>4. s.shown[1].right
      BY <3>3 DEF Fine, Placed
    <3>5. \A i \in 1 .. Len(t.shown) : t.shown[i].right
      BY <2>1, <3>2, <3>4
    <3> QED BY <3>5 DEF Placed
  <2> QED BY <2>2, <2>3
<1> QED BY <1>1, <1>2, <1>3, <1>4 DEF Fine, Forgotten, t

LEMMA FreedDone ==
    ASSUME NEW s, Done(s), s.shown = <<>> \/ \E l : s.shown = <<l>> /\ l.what = "kicked"
    PROVE  Done(chat_free([s EXCEPT !.meanwhile = {}]))
<1> DEFINE u == Forgotten(s)
           t == Emptied(u, u.chatwin, {"chat"})
<1>1. /\ Fine(u) /\ Output(u) = Output(s) /\ u.meanwhile = {} /\ u.harm = s.harm
      /\ u.chat = s.chat /\ u.chatwin \in BOOLEAN
  BY ForgottenFine DEF Done
<1>2. chat_free([s EXCEPT !.meanwhile = {}]) = IF u.chat = "gone" THEN Harm(u, "chat_free") ELSE
         [u EXCEPT !.chat = None, !.member = FALSE, !.ignored = FALSE,
                   !.meanwhile = @ \cup {"chat"}]
  BY DEF chat_free, Forgotten
<1> HIDE DEF u
<1>3. CASE u.chat = "gone"
  <2>1. manner.scripts
    BY <1>1, <1>3 DEF Fine, Harmed
  <2>2. "chat_free" \in Whats /\ "chat_free" \notin Careful
    BY DEF Whats, Careful
  <2> QED BY <1>1, <1>2, <1>3, <2>1, <2>2, HarmAfter
<1>4. CASE u.chat # "gone"
  <2>1. [u EXCEPT !.chat = None, !.member = FALSE, !.ignored = FALSE,
                  !.meanwhile = @ \cup {"chat"}] = t
    BY <1>1 DEF Emptied, Fine, Talks
  <2>2. {"chat"} \in SUBSET Events
    BY DEF Events
  <2>3. Fine(t) /\ Output(t) = Output(u) /\ t.harm = u.harm
    BY <1>1, <2>2, NoChatFine
  <2> HIDE DEF t
  <2>4. t.shown = s.shown /\ t.sent = s.sent /\ t.harm = s.harm
    BY <1>1, <2>3 DEF Output
  <2>5. Agreed(s)
    BY DEF Done
  <2>6. Agreed(t)
    BY <2>4, <2>5 DEF Agreed
  <2> QED BY <1>2, <1>4, <2>1, <2>3, <2>6 DEF Done
<1> QED BY <1>3, <1>4

LEMMA ForcedDone ==
    ASSUME NEW s, Still(s), NEW t \in chat_forced_leave(s) PROVE Done(t)
<1>1. PICK r \in Event(s) : \E w \in Event(IF r.takes THEN r.s ELSE ShowInChat(r.s, "kicked")) :
         t = IF "chat" \in w.s.meanwhile THEN Harm(w.s, "forced leave")
             ELSE chat_free([w.s EXCEPT !.meanwhile = {}])
  <2> DEFINE W(r) == Event(IF r.takes THEN r.s ELSE ShowInChat(r.s, "kicked"))
  <2>1. PICK x \in UNION {{w.s : w \in W(r)} : r \in Event(s)} :
           t = IF "chat" \in x.meanwhile THEN Harm(x, "forced leave")
               ELSE chat_free([x EXCEPT !.meanwhile = {}])
    BY DEF chat_forced_leave
  <2> HIDE DEF W
  <2>2. PICK r \in Event(s) : \E w \in W(r) : x = w.s
    OBVIOUS
  <2> QED BY <2>1, <2>2 DEF W
<1> DEFINE u == IF r.takes THEN r.s ELSE ShowInChat(r.s, "kicked")
<1>4. u \in {r.s, ShowInChat(r.s, "kicked")}
  OBVIOUS
<1>2. /\ Done(u) /\ (manner.scripts \/ "chat" \notin u.meanwhile)
      /\ u.shown = <<>> \/ \E l : u.shown = <<l>> /\ l.what = "kicked"
  <2> HIDE DEF u
  <2> QED BY <1>4, GoneToldDone
<1>3. PICK w \in Event(u) : t = IF "chat" \in w.s.meanwhile THEN Harm(w.s, "forced leave")
                                ELSE chat_free([w.s EXCEPT !.meanwhile = {}])
  BY <1>1
<1> HIDE DEF u
<1>9. Ran(u, w.s)
  BY <1>2, <1>3, EventIs DEF Done
<1>5. w.s.shown = u.shown /\ w.s.sent = u.sent /\ u.harm \subseteq w.s.harm /\ Fine(w.s)
  BY <1>9 DEF Ran, Output
<1>6. Done(w.s)
  <2>1. Agreed(u)
    BY <1>2 DEF Done
  <2>2. Agreed(w.s)
    BY <1>5, <2>1 DEF Agreed
  <2> QED BY <1>5, <2>2 DEF Done
<1>7. CASE "chat" \in w.s.meanwhile
  <2>1. manner.scripts
    BY <1>2, <1>9, <1>7 DEF Ran
  <2>2. "forced leave" \in Whats /\ "forced leave" \notin Careful
    BY DEF Whats, Careful
  <2> QED BY <1>3, <1>5, <1>7, <2>1, <2>2, HarmAfter
<1>8. CASE "chat" \notin w.s.meanwhile
  <2>1. Done(chat_free([w.s EXCEPT !.meanwhile = {}]))
    BY <1>2, <1>5, <1>6, FreedDone
  <2> QED BY <1>3, <1>8, <2>1
<1> QED BY <1>7, <1>8

LEMMA LeaveDone ==
    ASSUME NEW s, Still(s), NEW t \in chat_leave(s) PROVE Done(t)
<1>1. PICK r \in Event(s) : t \in IF r.takes THEN {r.s} ELSE {r.s, Left(r.s, TRUE)}
  BY DEF chat_leave
<1>2. Still(r.s)
  BY EventStill
<1>3. manner.scripts \/ "chat" \notin r.s.meanwhile
  BY <1>2 DEF Still
<1>4. Fine(Left(r.s, TRUE)) /\ Output(Left(r.s, TRUE)) = Output(r.s)
  BY <1>2, <1>3, LeftFine DEF Still
<1>5. Done(Left(r.s, TRUE))
  BY <1>2, <1>4, QuietDone
<1> QED BY <1>1, <1>2, <1>5, StillDone

LEMMA JoinDone ==
    ASSUME NEW s, Still(s) PROVE Done(chat_new(s)) /\ \A t \in chat_join(s) : Done(t)
<1>1. s \in Talks
  BY DEF Still, Fine
<1>2. /\ s.chatwin \in BOOLEAN /\ s.member \in BOOLEAN /\ s.ignored \in BOOLEAN
      /\ s.ignored => s.member
  BY <1>1 DEF Talks, Still, Fine, Unheard
<1>3. Done(chat_new(s))
  <2>1. chat_new(s) = Seated(s, "there", s.chatwin, s.member, s.ignored)
    BY <1>1 DEF chat_new, Seated, Talks
  <2>2. Still(Seated(s, "there", s.chatwin, s.member, s.ignored))
    BY <1>2, SeatedStill
  <2> QED BY <2>1, <2>2, StillDone
<1>4. ASSUME NEW t \in chat_join(s) PROVE Done(t)
  <2> DEFINE u == [s EXCEPT !.chatwin = TRUE]
  <2>1. u = Seated(s, s.chat, TRUE, s.member, s.ignored)
    BY <1>1 DEF Seated, Talks
  <2>2. Still(Seated(s, s.chat, TRUE, s.member, s.ignored))
    BY <1>2, SeatedStill
  <2>3. Still(u)
    BY <2>1, <2>2
  <2>4. PICK r \in Event(u) : t = IF "chatwin" \in r.s.meanwhile THEN Harm(r.s, "join") ELSE r.s
    BY DEF chat_join
  <2> HIDE DEF u
  <2>5. Still(r.s)
    BY <2>3, EventStill
  <2>6. "join" \in Whats /\ "join" \notin Careful
    BY DEF Whats, Careful
  <2>7. "chatwin" \in r.s.meanwhile => Done(Harm(r.s, "join"))
    BY <2>5, <2>6, HarmDone DEF Still
  <2> QED BY <2>4, <2>5, <2>7, StillDone
<1> QED BY <1>3, <1>4

LEMMA InviteDone ==
    ASSUME NEW s, Still(s), NEW t \in chat_invite(s) \cup chat_got_invite(s) PROVE Done(t)
<1>1. /\ {"invite", "invited"} \subseteq Whats
      /\ {"invite", "invited"} \cap (Careful \cup Sendings \cup SaidInChat) = {}
  BY DEF Whats, Careful, Sendings, SaidInChat
<1>2. CASE t \in chat_invite(s)
  <2>1. PICK r \in Event(s) :
           t \in IF r.takes THEN {r.s}
                 ELSE IF "chat" \in r.s.meanwhile THEN {Harm(r.s, "invite")}
                 ELSE {r.s, ShowInChat(r.s, "invite")}
    BY <1>2 DEF chat_invite
  <2>2. Still(r.s)
    BY EventStill
  <2>3. Done(ShowInChat(r.s, "invite"))
    BY <1>1, <2>2, ChatToldDone
  <2>4. "chat" \in r.s.meanwhile => Done(Harm(r.s, "invite"))
    BY <1>1, <2>2, HarmDone DEF Still
  <2> QED BY <2>1, <2>2, <2>3, <2>4, StillDone
<1>3. CASE t \in chat_got_invite(s)
  <2>1. PICK r \in Event(s) : t = IF r.takes THEN r.s ELSE Elsewhere(r.s, "invited")
    BY <1>3 DEF chat_got_invite
  <2>2. Still(r.s)
    BY EventStill
  <2>3. Adds(r.s, Elsewhere(r.s, "invited"), "invited")
    BY <1>1, <2>2, ElsewhereTold DEF Still
  <2> QED BY <1>1, <2>1, <2>2, <2>3, StillDone, AddsDone
<1> QED BY <1>2, <1>3

LEMMA KickDone ==
    ASSUME NEW s, Still(s), NEW t \in chat_kick(s) \cup chat_set_topic(s) PROVE Done(t)
<1>1. /\ {"kick", "set topic", "no chat"} \subseteq Whats
      /\ {"kick", "set topic", "no chat"} \cap Careful = {}
  BY DEF Whats, Careful
<1>2. ASSUME NEW r \in Event(s), NEW what \in {"kick", "set topic"},
             t = IF ~r.takes /\ "chat" \in r.s.meanwhile THEN Harm(r.s, what) ELSE r.s
      PROVE  Done(t)
  <2>1. Still(r.s)
    BY EventStill
  <2>2. "chat" \in r.s.meanwhile => Done(Harm(r.s, what))
    BY <1>1, <2>1, HarmDone DEF Still
  <2> QED BY <1>2, <2>1, <2>2, StillDone
<1>3. CASE t \in chat_kick(s)
  BY <1>2, <1>3 DEF chat_kick
<1>4. CASE t \in chat_set_topic(s)
  <2>1. Done(Harm(s, "no chat"))
    BY <1>1, HarmDone
  <2> QED BY <1>2, <1>4, <2>1 DEF chat_set_topic
<1> QED BY <1>3, <1>4

LEMMA WindowsDone ==
    ASSUME NEW s, Still(s)
    PROVE  /\ Done(Open(s)) /\ Done(Close(s))
           /\ \A t \in CloseChatWin(s) : Done(t)
           /\ Done(Harm(s, "no chat"))
<1>1. s \in Talks /\ Fine(s) /\ s.meanwhile \in SUBSET Events /\ Made(s) \in {None, "first", "second"}
  BY DEF Still, Fine, Talks, Made
<1>2. Done(Open(s))
  <2> DEFINE m == s.meanwhile \cup {"opened"}
  <2>1. m \in SUBSET Events /\ s.meanwhile \subseteq m
    BY <1>1 DEF Events
  <2>2. Open(s) = IF s.query # None THEN s ELSE Queried(s, Made(s), m)
    BY DEF Open, Queried
  <2> HIDE DEF m
  <2>3. Fine(Queried(s, Made(s), m)) /\ Output(Queried(s, Made(s), m)) = Output(s)
    BY <1>1, <2>1, QueryFine
  <2> QED BY <2>2, <2>3, StillDone, QuietDone
<1>3. Done(Close(s))
  <2> DEFINE m == s.meanwhile \cup {"query"}
  <2>1. m \in SUBSET Events /\ s.meanwhile \subseteq m
    BY <1>1 DEF Events
  <2>2. Close(s) = IF s.query = None THEN s ELSE Queried(s, None, m)
    BY DEF Close, Queried
  <2> HIDE DEF m
  <2>3. Fine(Queried(s, None, m)) /\ Output(Queried(s, None, m)) = Output(s)
    BY <1>1, <2>1, QueryFine
  <2> QED BY <2>2, <2>3, StillDone, QuietDone
<1>4. ASSUME NEW t \in CloseChatWin(s) PROVE Done(t)
  <2>1. Fine(t) /\ Output(t) = Output(s)
    BY <1>1, CloseChatWinFine DEF Still
  <2> QED BY <2>1, QuietDone
<1>5. Done(Harm(s, "no chat"))
  BY HarmDone DEF Whats, Careful
<1> QED BY <1>2, <1>3, <1>4, <1>5

-----------------------------------------------------------------------------
(* The connection, and time.                                               *)
LEMMA AccountDone ==
    ASSUME NEW s, Still(s), NEW t \in Talks, Paced(t), Served(t),
           Room(t) = Room(s), Output(t) = Output(s), Rest(t) = Rest(s)
    PROVE  Done(t)
BY AccountFine, QuietDone DEF Still

DroppedFrom(s) ==
    [s EXCEPT !.online = FALSE, !.server = Back, !.served = None, !.servedidle = FALSE]

LEMMA DroppedDone ==
    ASSUME NEW s, Still(s) PROVE Done(DroppedFrom(s))
<1> DEFINE t == [s EXCEPT !.online = FALSE, !.server = Back, !.served = None, !.servedidle = FALSE]
<1>1. s \in Talks /\ Paced(s) /\ Back \in Words /\ None \in Profiles
  BY DEF Still, Fine, Words, Profiles
<1>2. t \in Talks
  BY <1>1 DEF Talks
<1>3. /\ t.away = s.away /\ t.replied = s.replied /\ t.hash = s.hash /\ t.past = s.past
      /\ ~t.online /\ ~t.servedidle
      /\ Room(t) = Room(s) /\ Output(t) = Output(s) /\ Rest(t) = Rest(s)
  BY <1>1 DEF Talks, Room, Output, Rest
<1> HIDE DEF t
<1>4. Paced(t) /\ Served(t)
  BY <1>1, <1>3 DEF Paced, Served
<1>5. Done(t)
  BY <1>2, <1>3, <1>4, AccountDone
<1> QED BY <1>5 DEF t, DroppedFrom

LoginOf(s) == ToServer(Restored([s EXCEPT !.online = TRUE]), s.away)

LEMMA LoginDone ==
    ASSUME NEW s, Still(s), ~s.online PROVE Done(LoginOf(s))
<1> DEFINE v == IF manner.aim THEN s.profile ELSE s.served
           p == (s.past \ {"cleared"}) \cup (IF s.idle THEN {"relogged"} ELSE {})
           w == IF s.away # "long" THEN s.away ELSE s.server
           t == [s EXCEPT !.online = TRUE, !.served = v, !.past = p, !.server = w]
<1>1. /\ s \in Talks /\ Paced(s) /\ ~s.servedidle /\ v \in Profiles /\ w \in Words
      /\ s.past \in SUBSET Pasts /\ s.idle \in BOOLEAN
  BY DEF Still, Fine, Talks, Served
<1>2. /\ p \in SUBSET Pasts
      /\ "early" \in p => "early" \in s.past
      /\ s.idle => "relogged" \in p
  <2>1. CASE s.idle
    BY <1>1, <2>1 DEF Pasts
  <2>2. CASE ~s.idle
    BY <1>1, <2>2
  <2> QED BY <2>1, <2>2
<1>3. LoginOf(s) = t
  <2> DEFINE a == [s EXCEPT !.online = TRUE]
             b == [s EXCEPT !.online = TRUE, !.served = v, !.past = p]
  <2>1. a.profile = s.profile /\ a.served = s.served /\ a.past = s.past /\ a.idle = s.idle
    BY <1>1 DEF Talks
  <2>2. Restored(a) = [a EXCEPT !.served = v, !.past = p]
    <3> HIDE DEF a
    <3>1. Restored(a) = [a EXCEPT !.served = IF manner.aim THEN a.profile ELSE a.served,
                                  !.past = (a.past \ {"cleared"})
                                           \cup (IF a.idle THEN {"relogged"} ELSE {})]
      BY DEF Restored
    <3>2. v = (IF manner.aim THEN a.profile ELSE a.served)
      BY <2>1
    <3>3. p = (a.past \ {"cleared"}) \cup (IF a.idle THEN {"relogged"} ELSE {})
      BY <2>1
    <3> HIDE DEF v, p
    <3> QED BY <3>1, <3>2, <3>3
  <2>3. [a EXCEPT !.served = v, !.past = p] = b
    <3> HIDE DEF v, p
    <3> QED BY <1>1 DEF Talks
  <2>4. b.online = TRUE /\ b.server = s.server
    <3> HIDE DEF v, p
    <3> QED BY <1>1 DEF Talks
  <2>5. LoginOf(s) = IF s.away # "long" THEN [b EXCEPT !.server = s.away] ELSE b
    <3> HIDE DEF v, p
    <3> QED BY <2>2, <2>3, <2>4 DEF LoginOf, ToServer
  <2>6. t = IF s.away # "long" THEN [b EXCEPT !.server = s.away] ELSE b
    <3> HIDE DEF v, p
    <3>1. CASE s.away # "long"
      BY <1>1, <3>1 DEF Talks
    <3>2. CASE s.away = "long"
      BY <1>1, <3>2 DEF Talks
    <3> QED BY <3>1, <3>2
  <2> QED BY <2>5, <2>6
<1>9. manner.aim => v = s.profile
  OBVIOUS
<1>8. s.away = "long" \/ w = s.away
  OBVIOUS
<1> HIDE DEF v, p, w
<1>4. t \in Talks
  BY <1>1, <1>2 DEF Talks
<1>5. /\ t.away = s.away /\ t.replied = s.replied /\ t.hash = s.hash /\ t.past = p
      /\ t.online /\ t.servedidle = s.servedidle /\ t.idle = s.idle /\ t.server = w
      /\ t.served = v /\ t.profile = s.profile
      /\ Room(t) = Room(s) /\ Output(t) = Output(s) /\ Rest(t) = Rest(s)
  BY <1>1 DEF Talks, Room, Output, Rest
<1>7. s.servedidle \in BOOLEAN
  BY <1>1 DEF Talks
<1> HIDE DEF t
<1>6. Paced(t) /\ Served(t)
  <2>1. Paced(t)
    BY <1>1, <1>2, <1>5 DEF Paced
  <2>2. "relogged" \in t.past \/ t.servedidle = t.idle
    BY <1>1, <1>2, <1>5, <1>7
  <2>3. t.away = "long" \/ t.server = t.away
    BY <1>5, <1>8
  <2>4. ~manner.aim \/ "cleared" \in t.past \/ t.served = t.profile
    BY <1>5, <1>9
  <2> QED BY <1>5, <2>1, <2>2, <2>3, <2>4 DEF Served
<1> QED BY <1>3, <1>4, <1>5, <1>6, AccountDone

AgedOf(s) ==
    [s EXCEPT !.hash = [sp \in Spellings |-> Older(@[sp])], !.replied.age = Older(@)]

LEMMA TickDone ==
    ASSUME NEW s, Still(s) PROVE Done(AgedOf(s))
<1> DEFINE h == [sp \in Spellings |-> Older(s.hash[sp])]
           rep == [s.replied EXCEPT !.age = Older(s.replied.age)]
           t == [s EXCEPT !.hash = h, !.replied = rep]
<1>1. /\ s \in Talks /\ Paced(s) /\ Served(s) /\ s.hash \in [Spellings -> Int]
      /\ s.replied \in [age : Int, sp : Spellings]
  BY DEF Still, Fine, Talks
<1>2. \A a \in Int : Older(a) \in Int /\ (Older(a) \in 0 .. Delay - 1 => a \in 0 .. Delay - 1)
  BY DelayAssumption DEF Older
<1>3. /\ h \in [Spellings -> Int] /\ rep \in [age : Int, sp : Spellings]
      /\ rep.sp = s.replied.sp /\ rep.age = Older(s.replied.age)
      /\ \A sp \in Spellings : h[sp] = Older(s.hash[sp])
  BY <1>1, <1>2
<1>4. AgedOf(s) = t
  BY DEF AgedOf
<1> HIDE DEF h, rep
<1>5. t \in Talks
  BY <1>1, <1>3 DEF Talks
<1>6. /\ t.away = s.away /\ t.replied = rep /\ t.hash = h /\ t.past = s.past
      /\ t.online = s.online /\ t.servedidle = s.servedidle /\ t.idle = s.idle
      /\ t.server = s.server /\ t.served = s.served /\ t.profile = s.profile
      /\ Room(t) = Room(s) /\ Output(t) = Output(s) /\ Rest(t) = Rest(s)
  BY <1>1 DEF Talks, Room, Output, Rest
<1> HIDE DEF t
<1>7. Served(t)
  BY <1>1, <1>6 DEF Served
<1>8. Paced(t)
  <2>1. s.replied.age \in Int /\ s.replied.sp \in Spellings
    BY <1>1
  <2>2. ASSUME s.away # Back, rep.age \in 0 .. Delay - 1 PROVE h[rep.sp] = rep.age
    <3>1. s.replied.age \in 0 .. Delay - 1
      BY <1>2, <1>3, <2>1, <2>2
    <3>2. s.hash[s.replied.sp] = s.replied.age
      BY <1>1, <2>2, <3>1 DEF Paced
    <3> QED BY <1>3, <2>1, <3>2
  <2>3. "early" \notin s.past
    BY <1>1 DEF Paced
  <2> QED BY <1>6, <2>2, <2>3 DEF Paced
<1> QED BY <1>4, <1>5, <1>6, <1>7, <1>8, AccountDone

-----------------------------------------------------------------------------
(* The invariant.                                                          *)
TalkInv == manner \in Manners /\ Done(now)

LEMMA TalkInitially ==
    ASSUME TalkInit PROVE TalkInv
<1>1. manner \in Manners /\ now.shown = <<>> /\ now.sent = <<>> /\ now.harm = {}
  BY DEF TalkInit
<1>2. now \in Talks
  <2> DEFINE rep == [age |-> -1, sp |-> CHOOSE sp \in Spellings : TRUE]
  <2>1. rep \in [age : Int, sp : Spellings]
    BY SpellingsAssumption
  <2>2. Fresh \in [Spellings -> Int]
    BY DEF Fresh
  <2> HIDE DEF rep
  <2>3. now = [query |-> None, chat |-> None, chatwin |-> FALSE, member |-> FALSE,
              ignored |-> FALSE, online |-> TRUE, away |-> Back, server |-> Back,
              profile |-> None, served |-> None, idle |-> FALSE, servedidle |-> FALSE, hash |-> Fresh,
              replied |-> rep,
              shown |-> <<>>, sent |-> <<>>, meanwhile |-> {}, harm |-> {}, past |-> {}]
    BY DEF TalkInit, rep
  <2> QED BY <2>1, <2>2, <2>3 DEF Talks, Words, Profiles
<1>3. Paced(now) /\ Served(now)
  BY DEF TalkInit, Paced, Served
<1>4. Unheard(now)
  BY DEF TalkInit, Unheard
<1>5. Harmed(now)
  BY DEF TalkInit, Harmed, None
<1>6. Placed(now)
  <2>1. \A i \in 1 .. Len(now.shown) : FALSE
    BY <1>1
  <2> QED BY <2>1, Zenon DEF Placed
<1>7. Agreed(now)
  BY <1>1, NothingAgreed
<1> QED BY <1>1, <1>2, <1>3, <1>4, <1>5, <1>6, <1>7 DEF TalkInv, Done, Fine

LEMMA StartStill ==
    ASSUME TalkInv, now.harm = {} PROVE Still(Start)
<1> DEFINE q == IF now.query = None THEN None ELSE "first"
           t == [now EXCEPT !.query = q, !.meanwhile = {}, !.shown = <<>>, !.sent = <<>>]
<1>1. now \in Talks /\ Fine(now) /\ q \in {None, "first", "second"}
  BY DEF TalkInv, Done, Fine
<1>2. Start = t
  BY DEF Start
<1> HIDE DEF q
<1>3. t \in Talks
  <2> DEFINE nothing == <<>>
  <2>1. nothing \in Seq(ShownLines) /\ nothing \in Seq(Whats) /\ {} \in SUBSET Events
    OBVIOUS
  <2>2. t = [now EXCEPT !.query = q, !.meanwhile = {}, !.shown = nothing, !.sent = nothing]
    OBVIOUS
  <2> HIDE DEF nothing
  <2> QED BY <1>1, <2>1, <2>2 DEF Talks
<1>4. /\ Account(t) = Account(now) /\ Room(t) = Room(now)
      /\ t.shown = <<>> /\ t.sent = <<>> /\ t.meanwhile = {} /\ t.harm = {}
  BY <1>1 DEF Talks, Account, Room
<1> HIDE DEF t
<1>5. Paced(t) /\ Served(t)
  BY <1>1, <1>4 DEF Paced, Served, Fine, Account
<1>6. Unheard(t)
  <2>1. \A i \in 1 .. Len(t.shown) : FALSE
    BY <1>4
  <2>2. t.ignored = now.ignored /\ t.member = now.member
    BY <1>4 DEF Room
  <2>3. t.ignored => t.member
    BY <1>1, <2>2 DEF Unheard, Fine
  <2> QED BY <2>1, <2>3, Zenon DEF Unheard
<1>7. Placed(t)
  <2>1. \A i \in 1 .. Len(t.shown) : FALSE
    BY <1>4
  <2> QED BY <2>1, Zenon DEF Placed
<1>8. Harmed(t)
  BY <1>1, <1>4 DEF Harmed, Fine, Room
<1> QED BY <1>2, <1>3, <1>4, <1>5, <1>6, <1>7, <1>8 DEF Still, Fine

LEMMA TalkStep ==
    ASSUME TalkInv, TalkNext PROVE manner' = manner /\ Done(now')
<1>1. now.harm = {} => Still(Start)
  BY StartStill
<1>2. now.harm = {} /\ ~now.online => ~Start.online
  BY DEF TalkInv, Done, Fine, Talks, Start
<1>4. CASE irc_handler_privmsg
  <2>1. ASSUME Still(Start)
        PROVE  \A t \in UNION {pork_recv_msg(Start, sp, FALSE) : sp \in Spellings} : Done(t)
    BY <2>1, RecvMsgDone
  <2>2. ASSUME Still(Start) PROVE \A t \in {Ctcp(Start, Person)} : Done(t)
    BY <2>2, CtcpDone DEF Person
  <2>3. ASSUME Still(Start) PROVE \A t \in chat_recv(Start, "chat msg") : Done(t)
    BY <2>3, ChatRecvDone DEF SaidInChat
  <2> QED BY <1>1, <1>4, <2>1, <2>2, <2>3 DEF irc_handler_privmsg, Becomes
<1>5. CASE irc_handler_ctcp_action
  <2>1. ASSUME Still(Start) PROVE \A t \in pork_recv_action(Start) : Done(t)
    BY <2>1, RecvActionDone
  <2>2. ASSUME Still(Start) PROVE \A t \in chat_recv(Start, "chat action") : Done(t)
    BY <2>2, ChatRecvDone DEF SaidInChat
  <2> QED BY <1>1, <1>5, <2>1, <2>2 DEF irc_handler_ctcp_action, Becomes
<1>6. ASSUME NEW what \in {"ctcp reply", "topic"}, Still(Start)
      PROVE  Done(Elsewhere(Start, what)) /\ Done(ShowInChat(Start, what))
  <2>1. /\ what \in Whats /\ what \notin SaidInChat /\ what \notin Sendings /\ what \notin Careful
    BY DEF Whats, SaidInChat, Sendings, Careful
  <2>2. Adds(Start, Elsewhere(Start, what), what)
    BY <1>6, <2>1, ElsewhereTold DEF Still
  <2> QED BY <1>6, <2>1, <2>2, AddsDone, ChatToldDone
<1>7. CASE irc_handler_notice
  <2>1. ASSUME Still(Start)
        PROVE  \A t \in pork_recv_notice(Start) \cup {Elsewhere(Start, "ctcp reply")} : Done(t)
    BY <2>1, <1>6, NoticeDone
  <2>2. ASSUME Still(Start) PROVE \A t \in chat_recv(Start, "chat notice") : Done(t)
    BY <2>2, ChatRecvDone DEF SaidInChat
  <2> QED BY <1>1, <1>7, <2>1, <2>2 DEF irc_handler_notice, Becomes
<1>8. CASE irc_handler_topic
  <2>1. ASSUME Still(Start) PROVE \A t \in chat_got_topic(Start) : Done(t)
    BY <2>1, InChatDone DEF chat_got_topic
  <2> QED BY <1>1, <1>8, <2>1 DEF irc_handler_topic, Becomes
<1>9. CASE irc_handler_332
  <2>1. ASSUME Still(Start)
        PROVE  \A t \in {IF now.chat = None THEN Elsewhere(Start, "topic")
                         ELSE ShowInChat(Start, "topic")} : Done(t)
    BY <2>1, <1>6
  <2> QED BY <1>1, <1>9, <2>1 DEF irc_handler_332, Becomes
<1>10. ASSUME Still(Start) PROVE \A t \in chat_got_invite(Start) : Done(t)
  BY <1>10, InviteDone
<1>11. CASE irc_handler_invite \/ parse_im_chan2
  BY <1>1, <1>10, <1>11 DEF irc_handler_invite, parse_im_chan2, Becomes
<1>12. CASE parse_im_chan1
  <2>1. ASSUME Still(Start), NEW sp \in Spellings, NEW auto \in BOOLEAN
        PROVE  \A t \in pork_recv_msg(Start, sp, auto) : Done(t)
    BY <2>1, RecvMsgDone
  <2>2. ASSUME Still(Start) PROVE \A t \in pork_recv_action(Start) : Done(t)
    BY <2>2, RecvActionDone
  <2> QED BY <1>1, <1>12, <2>1, <2>2 DEF parse_im_chan1, Becomes
<1>13. CASE aim_recv_evil
  <2>1. ASSUME Still(Start)
        PROVE  \A t \in pork_recv_warn(Start) \cup pork_recv_warn_anon(Start) : Done(t)
    BY <2>1, WarnDone
  <2> QED BY <1>1, <1>13, <2>1 DEF aim_recv_evil, Becomes
<1>14. CASE ChatNews
  <2>1. ASSUME Still(Start) PROVE \A t \in user_joined(Start) : Done(t)
    BY <2>1, JoinedDone
  <2>2. ASSUME Still(Start) PROVE \A t \in chat_user_left(Start, FALSE) : Done(t)
    BY <2>2, LeftByDone
  <2>3. ASSUME Still(Start)
        PROVE  \A t \in chat_user_quit(Start) \cup chat_user_kicked(Start) : Done(t)
    BY <2>3, QuitDone
  <2>4. ASSUME Still(Start) PROVE \A t \in chat_forced_leave(Start) : Done(t)
    BY <2>4, ForcedDone
  <2>5. ASSUME Still(Start) PROVE \A t \in chat_got_mode(Start) : Done(t)
    BY <2>5, InChatDone DEF chat_got_mode
  <2> QED BY <1>1, <1>14, <2>1, <2>2, <2>3, <2>4, <2>5 DEF ChatNews, Becomes
<1>15. CASE Joined
  <2>1. ASSUME Still(Start) PROVE \A t \in {chat_new(Start)} : Done(t)
    BY <2>1, JoinDone
  <2> QED BY <1>1, <1>15, <2>1 DEF Joined, Becomes
<1>16. ASSUME Still(Start), NEW typed \in BOOLEAN
       PROVE  \A t \in pork_msg_send(Start, typed) : Done(t)
  BY <1>16, MsgSendDone
<1>17. ASSUME Still(Start), NEW what \in {"chat msg sent", "chat notice sent", "chat action sent"}
       PROVE  \A t \in chat_send(Start, what) : Done(t)
  BY <1>17, ChatSendDone
<1>18. CASE cmd_send \/ cmd_msg
  BY <1>1, <1>16, <1>17, <1>18 DEF cmd_send, cmd_msg, Becomes
<1>19. CASE cmd_me
  <2>1. ASSUME Still(Start) PROVE \A t \in pork_action_send(Start, TRUE) : Done(t)
    BY <2>1, ActionSendDone
  <2> QED BY <1>1, <1>17, <1>19, <2>1 DEF cmd_me, Becomes
<1>20. CASE cmd_notice
  <2>1. ASSUME Still(Start) PROVE \A t \in pork_notice_send(Start) : Done(t)
    BY <2>1, NoticeDone
  <2> QED BY <1>1, <1>17, <1>20, <2>1 DEF cmd_notice, Becomes
<1>21. CASE cmd_auto
  <2>1. ASSUME Still(Start) PROVE \A t \in {pork_msg_autoreply(Start)} : Done(t)
    BY <2>1, AutoDone
  <2> QED BY <1>1, <1>21, <2>1 DEF cmd_auto, Becomes
<1>22. CASE Warn
  <2>1. ASSUME Still(Start)
        PROVE  \A t \in pork_send_warn(Start) \cup pork_send_warn_anon(Start) : Done(t)
    BY <2>1, WarnDone DEF pork_send_warn_anon
  <2> QED BY <1>1, <1>22, <2>1 DEF Warn, Becomes
<1>23. CASE cmd_chat_ignore \/ cmd_chat_unignore
  <2>1. ASSUME Still(Start), NEW on \in BOOLEAN
        PROVE  \A t \in {chat_ignore(Start, on)} : Done(t)
    BY <2>1, IgnoreDone
  <2> QED BY <1>1, <1>23, <2>1 DEF cmd_chat_ignore, cmd_chat_unignore, Becomes
<1>24. CASE cmd_chat_invite
  <2>1. ASSUME Still(Start) PROVE \A t \in chat_invite(Start) : Done(t)
    BY <2>1, InviteDone
  <2> QED BY <1>1, <1>24, <2>1 DEF cmd_chat_invite, Becomes
<1>25. CASE cmd_chat_kick \/ cmd_chat_topic
  <2>1. ASSUME Still(Start) PROVE \A t \in chat_kick(Start) \cup chat_set_topic(Start) : Done(t)
    BY <2>1, KickDone
  <2> QED BY <1>1, <1>25, <2>1 DEF cmd_chat_kick, cmd_chat_topic, Becomes
<1>26. CASE cmd_chat_leave
  <2>1. ASSUME Still(Start) PROVE \A t \in chat_leave(Start) : Done(t)
    BY <2>1, LeaveDone
  <2> QED BY <1>1, <1>26, <2>1 DEF cmd_chat_leave, Becomes
<1>27. CASE cmd_chat_who
  <2>1. ASSUME Still(Start)
        PROVE  \A t \in {IF now.chat = None THEN Harm(Start, "no chat") ELSE Start} : Done(t)
    BY <2>1, WindowsDone, StillDone
  <2> QED BY <1>1, <1>27, <2>1 DEF cmd_chat_who, Becomes
<1>28. CASE cmd_chat_join
  <2>1. ASSUME Still(Start) PROVE \A t \in chat_join(Start) : Done(t)
    BY <2>1, JoinDone
  <2> QED BY <1>1, <1>28, <2>1 DEF cmd_chat_join, Becomes
<1>29. CASE cmd_away
  <2>1. ASSUME Still(Start)
        PROVE  \A t \in pork_set_back(Start)
                         \cup UNION {pork_set_away(Start, m) : m \in {"short", "long"}} : Done(t)
    <3>1. ASSUME Still(Start), NEW t \in pork_set_back(Start) PROVE Done(t)
      BY <3>1, BackIs, QuietDone DEF Still
    <3> QED BY <2>1, <3>1, AwayDone
  <2> QED BY <1>1, <1>29, <2>1 DEF cmd_away, Becomes
<1>30. CASE SetProfile
  <2>1. ASSUME Still(Start), NEW p \in Profiles
        PROVE  \A t \in pork_set_profile(Start, p) : Done(t)
    BY <2>1, ProfileDone
  <2> QED BY <1>1, <1>30, <2>1 DEF SetProfile, Profiles, Becomes
<1>31. CASE SetIdle
  <2>1. ASSUME Still(Start), NEW on \in BOOLEAN
        PROVE  \A t \in pork_set_idle(Start, on) : Done(t)
    BY <2>1, IdleDone
  <2>2. ASSUME Still(Start) PROVE \A t \in {keyboard_input(Start)} : Done(t)
    BY <2>2, IdleDone
  <2> QED BY <1>1, <1>31, <2>1, <2>2 DEF SetIdle, Becomes
<1>32. CASE Windows
  <2>1. ASSUME Still(Start)
        PROVE  \A t \in (IF Person THEN {Open(Start), Close(Start)}
                         ELSE CloseChatWin(Start)) : Done(t)
    BY <2>1, WindowsDone
  <2> QED BY <1>1, <1>32, <2>1 DEF Windows, Becomes
<1>33. CASE Dropped
  <2>1. ASSUME Still(Start) PROVE \A t \in {DroppedFrom(Start)} : Done(t)
    BY <2>1, DroppedDone
  <2> QED BY <1>1, <1>33, <2>1 DEF Dropped, DroppedFrom, Becomes
<1>34. CASE LoggedIn
  <2>1. ASSUME Still(Start), ~Start.online PROVE \A t \in {LoginOf(Start)} : Done(t)
    BY <2>1, LoginDone
  <2> QED BY <1>1, <1>2, <1>34, <2>1 DEF LoggedIn, LoginOf, Becomes
<1>35. CASE Tick
  <2>1. ASSUME Still(Start) PROVE \A t \in {AgedOf(Start)} : Done(t)
    BY <2>1, TickDone
  <2> QED BY <1>1, <1>35, <2>1 DEF Tick, AgedOf, Becomes
<1> QED
  BY <1>4, <1>5, <1>7, <1>8, <1>9, <1>11, <1>12, <1>13, <1>14, <1>15, <1>18, <1>19, <1>20,
     <1>21, <1>22, <1>23, <1>24, <1>25, <1>26, <1>27, <1>28, <1>29, <1>30, <1>31, <1>32, <1>33,
     <1>34, <1>35 DEF TalkNext

LEMMA TalkStays ==
    ASSUME TalkInv, [TalkNext]_talkVars PROVE TalkInv'
<1>1. manner' = manner /\ Done(now')
  BY TalkStep DEF TalkInv, talkVars
<1>2. Done(now)' <=> Done(now')
  BY <1>1 DEF Done, Fine, Paced, Served, Unheard, Placed, Harmed, Agreed, Talks
<1> QED BY <1>1, <1>2 DEF TalkInv

(* What is said reaches whom it should, once, and no one else              *)
(* (pork_msg.c, pork_chat.c).                                              *)
THEOREM WhatIsSaidIsSound == TalkSpec => []SaidSound
<1>1. TalkInit => TalkInv
  BY TalkInitially
<1>2. TalkInv /\ [TalkNext]_talkVars => TalkInv'
  BY TalkStays
<1>3. TalkInv => SaidSound
  <2> SUFFICES ASSUME TalkInv PROVE SaidSound
    OBVIOUS
  <2>1. Fine(now) /\ Agreed(now) /\ now.shown \in Seq(ShownLines)
    BY DEF TalkInv, Done, Fine, Talks
  <2>2. DOMAIN now.shown = 1 .. Len(now.shown)
    BY <2>1
  <2>3. InItsPlace /\ IgnoredUnheard
    BY <2>1, <2>2 DEF Fine, Placed, Unheard, InItsPlace, IgnoredUnheard
  <2>4. ShownIsSent
    BY <2>1 DEF Agreed, AsSent, ShownIsSent
  <2>5. RepliesPaced /\ OnlyScriptsHarm
    BY <2>1 DEF Fine, Paced, Harmed, Careful, RepliesPaced, OnlyScriptsHarm
  <2>6. ServerAgrees
    BY <2>1 DEF Fine, Served, ServerAgrees
  <2> QED BY <2>3, <2>4, <2>5, <2>6 DEF SaidSound
<1> QED BY <1>1, <1>2, <1>3, PTL DEF TalkSpec

============================================================================
