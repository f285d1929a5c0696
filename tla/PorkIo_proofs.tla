---------------------------- MODULE PorkIo_proofs ----------------------------
(***************************************************************************)
(* Theorems of PorkIo, for any number of objects, descriptors and node     *)
(* addresses.                                                              *)
(***************************************************************************)
EXTENDS PorkIo, SequenceTheorems, TLAPS

(* io_list as a sequence: no node is in it twice, and n comes before m.    *)
Pure(l) == l \in Seq(Nodes) /\ \A i, j \in 1 .. Len(l) : l[i] = l[j] => i = j

Leq(l, n, m) == \E i, j \in 1 .. Len(l) : i <= j /\ l[i] = n /\ l[j] = m

LEMMA RangeIs ==
    ASSUME NEW l \in Seq(Nodes)
    PROVE  /\ Range(l) \subseteq Nodes
           /\ \A n : n \in Range(l) <=> \E i \in 1 .. Len(l) : l[i] = n
BY LenProperties DEF Range

LEMMA LeqOrders ==
    ASSUME NEW l, Pure(l)
    PROVE  /\ \A n \in Range(l) : Leq(l, n, n)
           /\ \A n, m \in Range(l) : Leq(l, n, m) \/ Leq(l, m, n)
           /\ \A n, m \in Range(l) : Leq(l, n, m) /\ Leq(l, m, n) => n = m
           /\ \A n, m, k \in Range(l) : Leq(l, n, m) /\ Leq(l, m, k) => Leq(l, n, k)
<1>1. l \in Seq(Nodes) /\ \A i, j \in 1 .. Len(l) : l[i] = l[j] => i = j
  BY DEF Pure
<1>2. \A n \in Range(l) : \E i \in 1 .. Len(l) : l[i] = n
  BY <1>1, RangeIs
<1>3. Len(l) \in Nat
  BY <1>1, LenProperties
<1>4. \A n \in Range(l) : Leq(l, n, n)
  BY <1>2, <1>3 DEF Leq
<1>5. ASSUME NEW n \in Range(l), NEW m \in Range(l) PROVE Leq(l, n, m) \/ Leq(l, m, n)
  BY <1>2, <1>3 DEF Leq
<1>6. ASSUME NEW n \in Range(l), NEW m \in Range(l), Leq(l, n, m), Leq(l, m, n)
      PROVE  n = m
  BY <1>1, <1>3, <1>6 DEF Leq
<1>7. ASSUME NEW n \in Range(l), NEW m \in Range(l), NEW k \in Range(l),
             Leq(l, n, m), Leq(l, m, k)
      PROVE  Leq(l, n, k)
  <2>1. PICK i, j \in 1 .. Len(l) : i <= j /\ l[i] = n /\ l[j] = m
    BY <1>7 DEF Leq
  <2>2. PICK p, q \in 1 .. Len(l) : p <= q /\ l[p] = m /\ l[q] = k
    BY <1>7 DEF Leq
  <2>3. j = p
    BY <1>1, <2>1, <2>2
  <2> QED BY <1>3, <2>1, <2>2, <2>3 DEF Leq
<1> QED BY <1>4, <1>5, <1>6, <1>7

(* Elements that are taken out of a sequence, or put at its end.           *)
LEMMA RemoveAtElements ==
    ASSUME NEW S, NEW s \in Seq(S), NEW i \in 1 .. Len(s)
    PROVE  /\ RemoveAt(s, i) \in Seq(S)
           /\ Len(RemoveAt(s, i)) = Len(s) - 1
           /\ \A j \in 1 .. Len(s) - 1 :
                 RemoveAt(s, i)[j] = IF j < i THEN s[j] ELSE s[j + 1]
<1> DEFINE front == SubSeq(s, 1, i - 1)
           back  == SubSeq(s, i + 1, Len(s))
<1>1. /\ front \in Seq(S) /\ Len(front) = i - 1
      /\ \A j \in 1 .. i - 1 : front[j] = s[j]
  BY SubSeqProperties
<1>2. /\ back \in Seq(S) /\ Len(back) = Len(s) - i
      /\ \A j \in 1 .. Len(s) - i : back[j] = s[j + i]
  BY SubSeqProperties
<1>3. /\ front \o back \in Seq(S) /\ Len(front \o back) = Len(s) - 1
      /\ \A j \in 1 .. Len(s) - 1 :
            (front \o back)[j] = IF j <= i - 1 THEN front[j] ELSE back[j - (i - 1)]
  <2> HIDE DEF front, back
  <2> QED BY <1>1, <1>2, ConcatProperties
<1>4. ASSUME NEW j \in 1 .. Len(s) - 1
      PROVE  (front \o back)[j] = IF j < i THEN s[j] ELSE s[j + 1]
  <2> HIDE DEF front, back
  <2>1. CASE j < i
    BY <2>1, <1>1, <1>3
  <2>2. CASE ~(j < i)
    <3>1. j - (i - 1) \in 1 .. Len(s) - i /\ (j - (i - 1)) + i = j + 1
      BY <2>2
    <3> QED BY <2>2, <3>1, <1>2, <1>3
  <2> QED BY <2>1, <2>2
<1> QED BY <1>3, <1>4 DEF RemoveAt

(* io_list without a node.                                                 *)
LEMMA WithoutNode ==
    ASSUME Pure(list), NEW x \in Listed
    PROVE  /\ Pure(Without(x)) /\ Range(Without(x)) = Listed \ {x}
           /\ \A n, m \in Listed \ {x} : Leq(Without(x), n, m) <=> Leq(list, n, m)
<1>1. /\ list \in Seq(Nodes) /\ Len(list) \in Nat
      /\ \A i, j \in 1 .. Len(list) : list[i] = list[j] => i = j
  BY LenProperties DEF Pure
<1> DEFINE k == CHOOSE i \in 1 .. Len(list) : list[i] = x
           w == Without(x)
<1>2. k \in 1 .. Len(list) /\ list[k] = x
  BY <1>1, RangeIs DEF Listed
<1>3. w = RemoveAt(list, k)
  BY DEF Without
<1> HIDE DEF k, w
<1>4. /\ w \in Seq(Nodes) /\ Len(w) = Len(list) - 1
      /\ \A j \in 1 .. Len(list) - 1 : w[j] = IF j < k THEN list[j] ELSE list[j + 1]
  BY <1>1, <1>2, <1>3, RemoveAtElements
<1> DEFINE up(j) == IF j < k THEN j ELSE j + 1
<1>5. \A j \in 1 .. Len(w) : up(j) \in 1 .. Len(list) /\ up(j) # k /\ w[j] = list[up(j)]
  BY <1>1, <1>2, <1>4
<1>6. \A i, j \in 1 .. Len(w) : (i <= j <=> up(i) <= up(j)) /\ (up(i) = up(j) => i = j)
  BY <1>1, <1>2, <1>4
<1>7. \A p \in 1 .. Len(list) : p # k => \E j \in 1 .. Len(w) : up(j) = p
  <2> TAKE p \in 1 .. Len(list)
  <2>1. CASE p < k
    <3>1. p \in 1 .. Len(w) /\ up(p) = p
      BY <1>1, <1>2, <1>4, <2>1
    <3> QED BY <3>1
  <2>2. CASE p > k
    <3>1. p - 1 \in 1 .. Len(w) /\ up(p - 1) = p
      BY <1>1, <1>2, <1>4, <2>2
    <3> QED BY <3>1
  <2> QED BY <1>1, <1>2, <2>1, <2>2
<1> HIDE DEF up
<1>8. Pure(w)
  BY <1>1, <1>4, <1>5, <1>6 DEF Pure
<1>9. ASSUME NEW n PROVE n \in Range(w) <=> n \in Listed /\ n # x
  <2>1. n \in Range(w) <=> \E j \in 1 .. Len(w) : w[j] = n
    BY <1>4, RangeIs
  <2>2. n \in Listed <=> \E i \in 1 .. Len(list) : list[i] = n
    BY <1>1, RangeIs DEF Listed
  <2>3. ASSUME NEW j \in 1 .. Len(w), w[j] = n PROVE n \in Listed /\ n # x
    BY <1>1, <1>2, <1>5, <2>2, <2>3
  <2>4. ASSUME NEW i \in 1 .. Len(list), list[i] = n, n # x PROVE n \in Range(w)
    <3>1. PICK j \in 1 .. Len(w) : up(j) = i
      BY <1>2, <1>7, <2>4
    <3> QED BY <1>5, <2>1, <2>4, <3>1
  <2> QED BY <2>1, <2>2, <2>3, <2>4
<1>10. ASSUME NEW n \in Listed \ {x}, NEW m \in Listed \ {x}
       PROVE  Leq(w, n, m) <=> Leq(list, n, m)
  <2>1. ASSUME Leq(w, n, m) PROVE Leq(list, n, m)
    <3>1. PICK i, j \in 1 .. Len(w) : i <= j /\ w[i] = n /\ w[j] = m
      BY <2>1 DEF Leq
    <3> QED BY <1>5, <1>6, <3>1 DEF Leq
  <2>2. ASSUME Leq(list, n, m) PROVE Leq(w, n, m)
    <3>1. PICK p, q \in 1 .. Len(list) : p <= q /\ list[p] = n /\ list[q] = m
      BY <2>2 DEF Leq
    <3>2. p # k /\ q # k
      BY <1>2, <3>1
    <3>3. PICK i \in 1 .. Len(w) : up(i) = p
      BY <1>7, <3>2
    <3>4. PICK j \in 1 .. Len(w) : up(j) = q
      BY <1>7, <3>2
    <3>5. i <= j /\ w[i] = n /\ w[j] = m
      BY <1>5, <1>6, <3>1, <3>3, <3>4
    <3> QED BY <3>5 DEF Leq
  <2> QED BY <2>1, <2>2
<1> QED BY <1>8, <1>9, <1>10 DEF w

(* A node put at the head of a list.                                       *)
LEMMA HeadedNode ==
    ASSUME NEW l, Pure(l), NEW n \in Nodes, n \notin Range(l)
    PROVE  LET h == <<n>> \o l IN
           /\ Pure(h) /\ Range(h) = Range(l) \cup {n}
           /\ \A m \in Range(h) : Leq(h, n, m)
           /\ \A m, k \in Range(l) : Leq(h, m, k) <=> Leq(l, m, k)
<1>1. /\ l \in Seq(Nodes) /\ Len(l) \in Nat
      /\ \A i, j \in 1 .. Len(l) : l[i] = l[j] => i = j
  BY LenProperties DEF Pure
<1> DEFINE h == <<n>> \o l
<1>2. /\ h \in Seq(Nodes) /\ Len(h) = Len(l) + 1
      /\ \A i \in 1 .. Len(l) + 1 : h[i] = IF i = 1 THEN n ELSE l[i - 1]
  <2>1. <<n>> \in Seq(Nodes) /\ Len(<<n>>) = 1 /\ <<n>>[1] = n
    OBVIOUS
  <2> QED BY <1>1, <2>1, ConcatProperties
<1> HIDE DEF h
<1>3. h[1] = n /\ \A i \in 1 .. Len(l) : i + 1 \in 1 .. Len(h) /\ h[i + 1] = l[i]
  BY <1>1, <1>2
<1>4. \A i \in 1 .. Len(h) : i = 1 \/ (i - 1 \in 1 .. Len(l) /\ h[i] = l[i - 1])
  BY <1>1, <1>2
<1>5. \A i \in 1 .. Len(l) : l[i] # n
  BY <1>1, RangeIs
<1>6. Pure(h)
  <2> SUFFICES ASSUME NEW i \in 1 .. Len(h), NEW j \in 1 .. Len(h), h[i] = h[j]
               PROVE  i = j
    BY <1>2 DEF Pure
  <2>1. CASE i = 1
    BY <1>3, <1>4, <1>5, <2>1
  <2>2. CASE j = 1
    BY <1>3, <1>4, <1>5, <2>2
  <2>3. CASE i # 1 /\ j # 1
    <3>1. i - 1 = j - 1
      BY <1>1, <1>4, <2>3
    <3> QED BY <3>1
  <2> QED BY <2>1, <2>2, <2>3
<1>7. ASSUME NEW m PROVE m \in Range(h) <=> m \in Range(l) \/ m = n
  <2>1. m \in Range(h) <=> \E i \in 1 .. Len(h) : h[i] = m
    BY <1>2, RangeIs
  <2>2. m \in Range(l) <=> \E i \in 1 .. Len(l) : l[i] = m
    BY <1>1, RangeIs
  <2>3. 1 \in 1 .. Len(h)
    BY <1>1, <1>2
  <2> QED BY <1>3, <1>4, <2>1, <2>2, <2>3
<1>8. ASSUME NEW m \in Range(h) PROVE Leq(h, n, m)
  <2>1. PICK i \in 1 .. Len(h) : h[i] = m
    BY <1>2, RangeIs
  <2>2. 1 \in 1 .. Len(h) /\ 1 <= i
    BY <1>1, <1>2
  <2> QED BY <1>3, <2>1, <2>2 DEF Leq
<1>9. ASSUME NEW m \in Range(l), NEW k \in Range(l)
      PROVE  Leq(h, m, k) <=> Leq(l, m, k)
  <2>1. m # n /\ k # n
    BY <1>1, <1>5, RangeIs
  <2>2. ASSUME Leq(h, m, k) PROVE Leq(l, m, k)
    <3>1. PICK i, j \in 1 .. Len(h) : i <= j /\ h[i] = m /\ h[j] = k
      BY <2>2 DEF Leq
    <3>2. i # 1 /\ j # 1
      BY <1>3, <2>1, <3>1
    <3>3. /\ i - 1 \in 1 .. Len(l) /\ j - 1 \in 1 .. Len(l) /\ i - 1 <= j - 1
          /\ l[i - 1] = m /\ l[j - 1] = k
      BY <1>1, <1>2, <1>4, <3>1, <3>2
    <3> QED BY <3>3 DEF Leq
  <2>3. ASSUME Leq(l, m, k) PROVE Leq(h, m, k)
    <3>1. PICK i, j \in 1 .. Len(l) : i <= j /\ l[i] = m /\ l[j] = k
      BY <2>3 DEF Leq
    <3>2. i + 1 <= j + 1
      BY <3>1
    <3> QED BY <1>3, <3>1, <3>2 DEF Leq
  <2> QED BY <2>2, <2>3
<1> QED BY <1>6, <1>7, <1>8, <1>9 DEF h

(* The node after another, and the first.                                  *)
LEMMA NextOfNode ==
    ASSUME Pure(list), NEW n \in Listed
    PROVE  /\ NextOf(n) = Null => \A m \in Listed : Leq(list, m, n)
           /\ NextOf(n) # Null =>
                 /\ NextOf(n) \in Listed /\ NextOf(n) # n /\ Leq(list, n, NextOf(n))
                 /\ \A m \in Listed : Leq(list, m, n) \/ Leq(list, NextOf(n), m)
<1>1. /\ list \in Seq(Nodes) /\ Len(list) \in Nat
      /\ \A i, j \in 1 .. Len(list) : list[i] = list[j] => i = j
  BY LenProperties DEF Pure
<1>2. PICK k \in 1 .. Len(list) : list[k] = n
  BY <1>1, RangeIs DEF Listed
<1>3. \A m \in Listed : \E i \in 1 .. Len(list) : list[i] = m
  BY <1>1, RangeIs DEF Listed
<1>4. CASE k = Len(list)
  <2>1. ~\E i \in 1 .. Len(list) - 1 : list[i] = n
    <3> SUFFICES ASSUME NEW i \in 1 .. Len(list) - 1, list[i] = n PROVE FALSE
      OBVIOUS
    <3>1. i \in 1 .. Len(list) /\ i # k
      BY <1>1, <1>4
    <3> QED BY <1>1, <1>2, <3>1
  <2>2. NextOf(n) = Null
    BY <2>1 DEF NextOf
  <2>3. \A m \in Listed : Leq(list, m, n)
    <3> TAKE m \in Listed
    <3>1. PICK i \in 1 .. Len(list) : list[i] = m
      BY <1>3
    <3>2. i <= k
      BY <1>1, <1>4, <3>1
    <3> QED BY <1>2, <3>1, <3>2 DEF Leq
  <2> QED BY <2>2, <2>3
<1>5. CASE k # Len(list)
  <2>1. k \in 1 .. Len(list) - 1 /\ k + 1 \in 1 .. Len(list)
    BY <1>1, <1>5
  <2>2. \A i \in 1 .. Len(list) - 1 : list[i] = n => i = k
    <3> TAKE i \in 1 .. Len(list) - 1
    <3>1. i \in 1 .. Len(list)
      BY <1>1
    <3> QED BY <1>1, <1>2, <3>1
  <2> DEFINE j == CHOOSE i \in 1 .. Len(list) - 1 : list[i] = n
  <2>3. j = k
    BY <1>2, <2>1, <2>2
  <2>4. NextOf(n) = list[1 + j]
    BY <1>2, <2>1 DEF NextOf
  <2> HIDE DEF j
  <2>5. NextOf(n) = list[k + 1]
    BY <1>1, <2>3, <2>4
  <2>6. NextOf(n) \in Listed
    BY <1>1, <2>1, <2>5, RangeIs DEF Listed
  <2>7. NextOf(n) # n
    BY <1>1, <1>2, <2>1, <2>5
  <2>8. Leq(list, n, NextOf(n))
    BY <1>1, <1>2, <2>1, <2>5 DEF Leq
  <2>9. \A m \in Listed : Leq(list, m, n) \/ Leq(list, NextOf(n), m)
    <3> TAKE m \in Listed
    <3>1. PICK i \in 1 .. Len(list) : list[i] = m
      BY <1>3
    <3>2. i <= k \/ k + 1 <= i
      BY <1>1
    <3> QED BY <1>2, <2>1, <2>5, <3>1, <3>2 DEF Leq
  <2>10. NextOf(n) # Null
    BY <1>1, <2>6, RangeIs, NodesAssumption DEF Listed
  <2> QED BY <2>6, <2>7, <2>8, <2>9, <2>10
<1> QED BY <1>4, <1>5

LEMMA HeadIsFirst ==
    ASSUME Pure(list)
    PROVE  /\ HeadNode = Null => Listed = {}
           /\ HeadNode # Null => HeadNode \in Listed /\ \A m \in Listed : Leq(list, HeadNode, m)
<1>1. list \in Seq(Nodes) /\ Len(list) \in Nat
  BY LenProperties DEF Pure
<1>2. CASE list = <<>>
  BY <1>2, EmptySeq DEF HeadNode, Listed, Range
<1>3. CASE list # <<>>
  <2>1. 1 \in 1 .. Len(list)
    BY <1>1, <1>3, EmptySeq
  <2>2. list[1] \in Listed /\ HeadNode = list[1]
    BY <1>1, <1>3, <2>1, RangeIs DEF Listed, HeadNode
  <2>3. list[1] # Null
    BY <1>1, <2>1, NodesAssumption
  <2>4. \A m \in Listed : Leq(list, list[1], m)
    <3> TAKE m \in Listed
    <3>1. PICK i \in 1 .. Len(list) : list[i] = m
      BY <1>1, RangeIs DEF Listed
    <3> QED BY <2>1, <3>1 DEF Leq
  <2> QED BY <2>2, <2>3, <2>4
<1> QED BY <1>2, <1>3

-----------------------------------------------------------------------------
(* The inductive invariant.  Every object has one source at most, and one  *)
(* that was deleted is registered no more.                                 *)
Unique == \A n, m \in Listed : io[n].key = io[m].key => n = m

Registered == \A k \in AllKeys : k \in reg <=> \E n \in Listed : io[n].key = k /\ io[n].callback

(* The keyboard was added first and is never deleted, so that it is the    *)
(* last of the list, and only it is called out of turn.                    *)
IsTty(t) ==
    /\ t \in Listed /\ io[t].key = Tty /\ io[t].fd = TtyFd /\ io[t].callback
    /\ \A m \in Listed : Leq(list, m, t)

Inside == pc \in {"callback", "resize", "size", "return"}

Keyboard ==
    /\ \E t \in Nodes : IsTty(t)
    /\ \A n \in Listed : io[n].always => io[n].key = Tty
    /\ pc \in {"resize", "size", "return"} =>
          cur \in Listed /\ io[cur].key = Tty /\ walk # "find_dead"
    /\ pc = "callback" /\ walk # "dispatch" /\ cur \in Listed => io[cur].key # Tty
    /\ Inside /\ cur \in Listed /\ io[cur].key = Tty => next = Null

(* Where a walk goes on at node h it finds every source that was there     *)
(* when it began and that it has not been at; unless h was freed, and then *)
(* lost is set.                                                            *)
Placed(h) ==
    /\ h = Null => \A n \in Listed : io[n].seen \/ io[n].fresh
    /\ h \in Listed => \A n \in Listed : io[n].seen \/ io[n].fresh \/ Leq(list, h, n)
    /\ h \notin Listed \cup {Null} => lost
    /\ h \in Listed /\ io[h].fresh => lost

Place ==
    /\ pc = "walk" => Placed(cur)
    /\ Inside => Placed(next) /\ cur # next /\ cur \in Nodes
    /\ pc = "callback" /\ walk # "dispatch" /\ cur \notin Listed => lost

(* New sources are at the head of the list.                                *)
FreshFirst ==
    /\ \A n, m \in Listed : io[m].fresh /\ Leq(list, n, m) => io[n].fresh
    /\ pc = "main" => \A n \in Listed : ~io[n].fresh

LostForced ==
    /\ lost => forced
    /\ walk = "find_dead" => forced
    /\ pc = "undefined" => lost

IoInv == /\ TypeOK /\ Pure(list) /\ Unique /\ Registered
         /\ Keyboard /\ Place /\ FreshFirst /\ LostForced

-----------------------------------------------------------------------------
(* The node of a key.                                                      *)
LEMMA NodeOfKey ==
    ASSUME TypeOK, Pure(list), Unique, NEW k
    PROVE  /\ Has(k) <=> \E n \in Listed : io[n].key = k
           /\ Has(k) => NodeOf(k) \in Listed /\ io[NodeOf(k)].key = k
<1>1. /\ list \in Seq(Nodes) /\ Len(list) \in Nat
      /\ \A i, j \in 1 .. Len(list) : list[i] = list[j] => i = j
  BY LenProperties DEF Pure
<1>2. \A n : n \in Listed <=> \E i \in 1 .. Len(list) : list[i] = n
  BY <1>1, RangeIs DEF Listed
<1>3. Has(k) <=> \E n \in Listed : io[n].key = k
  BY <1>2 DEF Has, At
<1>4. ASSUME Has(k) PROVE NodeOf(k) \in Listed /\ io[NodeOf(k)].key = k
  <2>1. PICK i \in 1 .. Len(list) : io[list[i]].key = k
    BY <1>4 DEF Has, At
  <2>2. \A j \in At(k) : j = i
    BY <1>1, <1>2, <2>1 DEF Unique, At
  <2>3. i \in At(k) /\ \A j \in At(k) : i <= j
    BY <1>1, <2>1, <2>2 DEF At
  <2>4. NodeOf(k) = list[i]
    BY <2>2, <2>3 DEF NodeOf
  <2> QED BY <1>2, <2>1, <2>4
<1> QED BY <1>3, <1>4

LEMMA TheTty ==
    ASSUME TypeOK, Pure(list), Unique, Keyboard
    PROVE  Has(Tty) /\ IsTty(NodeOf(Tty))
<1>1. PICK t \in Nodes : IsTty(t)
  BY DEF Keyboard
<1>2. Has(Tty) /\ NodeOf(Tty) \in Listed /\ io[NodeOf(Tty)].key = Tty
  BY <1>1, NodeOfKey DEF IsTty
<1>3. NodeOf(Tty) = t
  BY <1>1, <1>2 DEF Unique, IsTty
<1> QED BY <1>1, <1>2, <1>3

(* What is after cur is where the walk goes on.                            *)
LEMMA NextPlace ==
    ASSUME Pure(list), FreshFirst, cur \in Listed, Placed(cur)
    PROVE  /\ NextOf(cur) = Null => \A n \in Listed \ {cur} : io[n].seen \/ io[n].fresh
           /\ NextOf(cur) # Null =>
                 /\ NextOf(cur) \in Listed \ {cur}
                 /\ \A n \in Listed \ {cur} :
                       io[n].seen \/ io[n].fresh \/ Leq(list, NextOf(cur), n)
                 /\ io[NextOf(cur)].fresh => lost
<1>1. \A n \in Listed : io[n].seen \/ io[n].fresh \/ Leq(list, cur, n)
  BY DEF Placed
<1>2. \A n \in Listed \ {cur} : Leq(list, cur, n) => ~Leq(list, n, cur)
  BY LeqOrders DEF Listed
<1>3. CASE NextOf(cur) = Null
  BY <1>1, <1>2, <1>3, NextOfNode
<1>4. CASE NextOf(cur) # Null
  <2>1. /\ NextOf(cur) \in Listed /\ NextOf(cur) # cur /\ Leq(list, cur, NextOf(cur))
        /\ \A m \in Listed : Leq(list, m, cur) \/ Leq(list, NextOf(cur), m)
    BY <1>4, NextOfNode
  <2>2. io[NextOf(cur)].fresh => lost
    BY <2>1 DEF FreshFirst, Placed
  <2> QED BY <1>1, <1>2, <1>4, <2>1, <2>2
<1> QED BY <1>3, <1>4

-----------------------------------------------------------------------------
(* pork_io_add, and the functions that only change a source.               *)
LEMMA AddKeeps ==
    ASSUME IoInv, NEW k \in Keys, NEW fd \in Fds, NEW cond \in BOOLEAN, Add(k, fd, cond),
           pc \in {"main", "callback"}, lost' => forced',
           UNCHANGED <<pc, walkVars, resized>>, forced' \in BOOLEAN, forced => forced'
    PROVE  IoInv'
<1> DEFINE L == Listed \ Old(k)
           l == IF Has(k) THEN Without(NodeOf(k)) ELSE list
<1>1. /\ TypeOK /\ Pure(list) /\ Unique /\ Registered /\ Keyboard /\ Place
      /\ FreshFirst /\ LostForced
  BY DEF IoInv
<1>2. PICK n \in Nodes \ L :
         /\ list' = <<n>> \o l
         /\ io' = [m \in L \cup {n} |-> IF m = n THEN NewSource(k, fd, cond) ELSE io[m]]
  BY DEF Add
<1>3. lost' = (lost \/ Old(k) \cap Needed # {}) /\ reg' = reg \cup {k}
  BY DEF Add
<1>4. /\ Has(k) <=> \E m \in Listed : io[m].key = k
      /\ Has(k) => NodeOf(k) \in Listed /\ io[NodeOf(k)].key = k
  BY <1>1, NodeOfKey
<1>5. /\ Pure(l) /\ Range(l) = L
      /\ \A m, j \in L : Leq(l, m, j) <=> Leq(list, m, j)
  BY <1>1, <1>4, WithoutNode DEF Old, Listed
<1>6. \A m \in L : m \in Listed /\ io[m].key # k
  BY <1>1, <1>4 DEF Old, Unique
<1>7. \A m \in Listed : io[m].key # k => m \in L
  BY <1>4 DEF Old
<1> HIDE DEF L, l
<1>8. /\ Pure(list') /\ Listed' = L \cup {n}
      /\ \A m \in L \cup {n} : Leq(list', n, m)
      /\ \A m, j \in L : Leq(list', m, j) <=> Leq(list, m, j)
  BY <1>2, <1>5, HeadedNode DEF Listed
<1> DEFINE s == NewSource(k, fd, cond)
<1>9. /\ s \in Source /\ s.key = k /\ s.callback /\ ~s.always /\ ~s.seen
      /\ s.fresh = (pc # "main")
  BY DEF NewSource, Source, AllKeys, AllFds
<1>10. io'[n] = s /\ \A m \in L : m # n /\ io'[m] = io[m]
  BY <1>2
<1> HIDE DEF s
<1>11. k \in AllKeys /\ k # Tty /\ Tty \in AllKeys
  BY KeysAssumption DEF AllKeys
<1>12. io' \in [Listed' -> Source]
  BY <1>1, <1>2, <1>6, <1>8, <1>9 DEF TypeOK, s
<1>13. TypeOK'
  <2>1. list' \in Seq(Nodes)
    BY <1>8 DEF Pure
  <2>2. lost' \in BOOLEAN /\ reg' \subseteq AllKeys
    BY <1>1, <1>3, <1>11 DEF TypeOK
  <2> QED BY <1>1, <1>12, <2>1, <2>2 DEF TypeOK, walkVars
<1>14. Unique'
  BY <1>1, <1>6, <1>8, <1>9, <1>10 DEF Unique
<1>15. Registered'
  <2> SUFFICES ASSUME NEW j \in AllKeys
               PROVE  j \in reg' <=> \E m \in Listed' : io'[m].key = j /\ io'[m].callback
    BY DEF Registered
  <2>1. CASE j = k
    BY <1>3, <1>8, <1>9, <1>10, <2>1
  <2>2. CASE j # k
    <3>1. j \in reg' <=> j \in reg
      BY <1>3, <2>2
    <3>2. (\E m \in Listed' : io'[m].key = j /\ io'[m].callback)
             <=> \E m \in Listed : io[m].key = j /\ io[m].callback
      BY <1>6, <1>7, <1>8, <1>9, <1>10, <2>2
    <3> QED BY <1>1, <3>1, <3>2 DEF Registered
  <2> QED BY <2>1, <2>2
<1>16. Keyboard'
  <2>1. PICK t \in Nodes : IsTty(t)
    BY <1>1 DEF Keyboard
  <2>2. t \in L
    BY <1>7, <1>11, <2>1 DEF IsTty
  <2>3. IsTty(t)'
    BY <1>6, <1>8, <1>10, <2>1, <2>2 DEF IsTty
  <2>4. \A m \in Listed' : io'[m].always => io'[m].key = Tty
    BY <1>1, <1>6, <1>8, <1>9, <1>10 DEF Keyboard
  <2>5. cur \in Listed' /\ io'[cur].key = Tty => cur \in Listed /\ io[cur].key = Tty
    BY <1>6, <1>8, <1>9, <1>10, <1>11
  <2>6. pc' = pc /\ walk' = walk /\ cur' = cur /\ next' = next
    BY DEF walkVars
  <2>7. pc = "callback" /\ walk # "dispatch" /\ cur \in Listed' => io'[cur].key # Tty
    BY <1>1, <2>5 DEF Keyboard
  <2>8. Inside /\ cur \in Listed' /\ io'[cur].key = Tty => next = Null
    BY <1>1, <2>5 DEF Keyboard
  <2> QED BY <2>1, <2>3, <2>4, <2>6, <2>7, <2>8 DEF Keyboard, Inside
<1>17. Place'
  <2>1. CASE pc = "main"
    BY <2>1 DEF Place, Inside
  <2>2. CASE pc = "callback"
    <3>1. Placed(next) /\ cur # next /\ cur \in Nodes
      BY <1>1, <2>2 DEF Place, Inside
    <3>2. s.fresh
      BY <1>9, <2>2
    <3>3. next \in Needed /\ (walk # "dispatch" => cur \in Needed)
      BY <2>2 DEF Needed
    <3>4. \A m \in Nodes : m \in Needed /\ m \notin L => m \notin Listed \/ lost'
      BY <1>3, <1>5 DEF L
    <3>5. next \in Nodes \cup {Null} /\ Null \notin Nodes
      BY <1>1, NodesAssumption DEF TypeOK
    <3>6. next = Null => \A m \in Listed' : io'[m].seen \/ io'[m].fresh
      BY <1>6, <1>8, <1>10, <3>1, <3>2 DEF Placed
    <3>7. next \in Listed' => \A m \in Listed' : io'[m].seen \/ io'[m].fresh \/ Leq(list', next, m)
      BY <1>6, <1>8, <1>10, <3>1, <3>2 DEF Placed
    <3>8. next \notin Listed' \cup {Null} => lost'
      BY <1>3, <1>8, <3>1, <3>3, <3>4, <3>5 DEF Placed
    <3>9. next \in Listed' /\ io'[next].fresh => lost'
      <4>1. CASE next = n
        BY <1>2, <1>3, <3>1, <3>3, <3>4, <3>5, <4>1 DEF Placed
      <4>2. CASE next # n
        BY <1>3, <1>6, <1>8, <1>10, <3>1, <4>2 DEF Placed
      <4> QED BY <4>1, <4>2
    <3>10. Placed(next)'
      BY <3>6, <3>7, <3>8, <3>9 DEF Placed, walkVars
    <3>11. walk # "dispatch" /\ cur \notin Listed' => lost'
      BY <1>1, <1>3, <1>8, <2>2, <3>1, <3>3, <3>4 DEF Place
    <3> QED BY <2>2, <3>1, <3>10, <3>11 DEF Place, Inside, walkVars
  <2> QED BY <2>1, <2>2
<1>18. FreshFirst'
  <2>1. ASSUME NEW m \in Listed', NEW j \in Listed', io'[j].fresh, Leq(list', m, j)
        PROVE  io'[m].fresh
    <3>1. pc = "callback" /\ s.fresh
      BY <1>1, <1>6, <1>8, <1>9, <1>10, <2>1 DEF FreshFirst
    <3>2. CASE m = n
      BY <1>10, <3>1, <3>2
    <3>3. CASE m # n /\ j = n
      <4>1. Leq(list', n, m) /\ m \in Range(list') /\ n \in Range(list')
        BY <1>8, <2>1 DEF Listed
      <4> QED BY <1>8, <2>1, <3>3, <4>1, LeqOrders
    <3>4. CASE m # n /\ j # n
      BY <1>1, <1>6, <1>8, <1>10, <2>1, <3>4 DEF FreshFirst
    <3> QED BY <3>2, <3>3, <3>4
  <2>2. pc = "main" => \A m \in Listed' : ~io'[m].fresh
    BY <1>1, <1>6, <1>8, <1>9, <1>10 DEF FreshFirst
  <2> QED BY <2>1, <2>2 DEF FreshFirst
<1>19. LostForced'
  BY <1>1 DEF LostForced, walkVars
<1> QED BY <1>8, <1>13, <1>14, <1>15, <1>16, <1>17, <1>18, <1>19 DEF IoInv

LEMMA MarkKeeps ==
    ASSUME IoInv, NEW x \in Listed, NEW s \in Source, io[x].key \in Keys,
           s.key = io[x].key, s.always = io[x].always, s.seen = io[x].seen,
           s.fresh = io[x].fresh, io' = [io EXCEPT ![x] = s],
           \/ s.callback = io[x].callback /\ reg' = reg
           \/ ~s.callback /\ reg' = reg \ {io[x].key},
           UNCHANGED <<list, lost, pc, walkVars, resized>>,
           forced' \in BOOLEAN, forced => forced'
    PROVE  IoInv'
<1>1. /\ TypeOK /\ Pure(list) /\ Unique /\ Registered /\ Keyboard /\ Place
      /\ FreshFirst /\ LostForced
  BY DEF IoInv
<1>2. Listed' = Listed
  BY DEF Listed
<1>3. io' \in [Listed -> Source] /\ io'[x] = s /\ \A m \in Listed : m # x => io'[m] = io[m]
  BY <1>1 DEF TypeOK
<1>4. \A m \in Listed : /\ io'[m].key = io[m].key /\ io'[m].always = io[m].always
                        /\ io'[m].seen = io[m].seen /\ io'[m].fresh = io[m].fresh
  BY <1>3
<1>5. pc' = pc /\ walk' = walk /\ cur' = cur /\ next' = next /\ polled' = polled
      /\ ready' = ready /\ list' = list /\ lost' = lost /\ resized' = resized
  BY DEF walkVars
<1>6. TypeOK'
  BY <1>1, <1>2, <1>3, <1>5 DEF TypeOK
<1>7. Pure(list')
  BY <1>1, <1>5
<1>8. Unique'
  BY <1>1, <1>2, <1>4 DEF Unique
<1>9. Registered'
  <2> SUFFICES ASSUME NEW j \in AllKeys
               PROVE  j \in reg' <=> \E m \in Listed : io'[m].key = j /\ io'[m].callback
    BY <1>2 DEF Registered
  <2>1. j \in reg <=> \E m \in Listed : io[m].key = j /\ io[m].callback
    BY <1>1 DEF Registered
  <2>2. CASE j # io[x].key
    BY <1>3, <1>4, <2>1, <2>2
  <2>3. CASE j = io[x].key
    <3>1. \A m \in Listed : io[m].key = j => m = x
      BY <1>1, <2>3 DEF Unique
    <3> QED BY <1>3, <1>4, <2>1, <2>3, <3>1
  <2> QED BY <2>2, <2>3
<1>10. Keyboard'
  <2>1. PICK t \in Nodes : IsTty(t)
    BY <1>1 DEF Keyboard
  <2>2. t # x
    BY <2>1, KeysAssumption DEF IsTty
  <2>3. IsTty(t)'
    BY <1>2, <1>3, <1>5, <2>1, <2>2 DEF IsTty
  <2> QED BY <1>1, <1>2, <1>4, <1>5, <2>1, <2>3 DEF Keyboard, Inside
<1>11. Placed(cur)' <=> Placed(cur)
  BY <1>2, <1>4, <1>5 DEF Placed
<1>12. Placed(next)' <=> Placed(next)
  BY <1>2, <1>4, <1>5 DEF Placed
<1>13. Place'
  BY <1>1, <1>2, <1>5, <1>11, <1>12 DEF Place, Inside
<1>14. FreshFirst'
  BY <1>1, <1>2, <1>4, <1>5 DEF FreshFirst
<1>15. LostForced'
  BY <1>1, <1>5 DEF LostForced
<1> QED BY <1>6, <1>7, <1>8, <1>9, <1>10, <1>13, <1>14, <1>15 DEF IoInv

(* What the program does to its sources, in the main loop or a callback.   *)
LEMMA ChangeKeeps ==
    ASSUME IoInv, NEW k \in Keys, Change(k), pc \in {"main", "callback"},
           UNCHANGED <<pc, walkVars, resized>>, lost' => forced', forced' \in BOOLEAN,
           forced => forced'
    PROVE  IoInv'
<1>1. TypeOK /\ Pure(list) /\ Unique
  BY DEF IoInv
<1>2. CASE \E fd \in Fds \ FdsInUse, cond \in BOOLEAN : Add(k, fd, cond)
  BY <1>2, AddKeeps
<1> DEFINE x == NodeOf(k)
<1>3. Has(k) => x \in Listed /\ io[x].key = k /\ io[x] \in Source
  BY <1>1, NodeOfKey DEF TypeOK
<1> HIDE DEF x
<1>4. CASE Del(k)
  <2> DEFINE s == [io[x] EXCEPT !.fd = Gone, !.callback = FALSE]
  <2>1. Has(k) /\ reg' = reg \ {k} /\ list' = list /\ lost' = lost
    BY <1>4 DEF Del
  <2>2. io' = [io EXCEPT ![x] = s]
    BY <1>1, <1>3, <1>4, <2>1 DEF Del, x, TypeOK
  <2>3. /\ s \in Source /\ ~s.callback /\ s.key = io[x].key /\ s.always = io[x].always
        /\ s.seen = io[x].seen /\ s.fresh = io[x].fresh
    BY <1>3, <2>1 DEF Source
  <2> HIDE DEF s
  <2> QED BY <1>3, <2>1, <2>2, <2>3, MarkKeeps
<1>5. CASE Dead(k)
  <2> DEFINE s == [io[x] EXCEPT !.fd = Gone]
  <2>1. Has(k) /\ reg' = reg /\ list' = list /\ lost' = lost
    BY <1>5 DEF Dead
  <2>2. io' = [io EXCEPT ![x] = s]
    BY <1>5 DEF Dead, x
  <2>3. /\ s \in Source /\ s.callback = io[x].callback /\ s.key = io[x].key
        /\ s.always = io[x].always /\ s.seen = io[x].seen /\ s.fresh = io[x].fresh
    BY <1>3, <2>1 DEF Source
  <2> HIDE DEF s
  <2> QED BY <1>3, <2>1, <2>2, <2>3, MarkKeeps
<1>6. CASE \E cond \in BOOLEAN : SetFlags(k, cond)
  <2>1. PICK cond \in BOOLEAN : SetFlags(k, cond)
    BY <1>6
  <2> DEFINE s == [io[x] EXCEPT !.cond = cond]
  <2>2. Has(k) /\ reg' = reg /\ list' = list /\ lost' = lost
    BY <2>1 DEF SetFlags
  <2>3. io' = [io EXCEPT ![x] = s]
    BY <2>1 DEF SetFlags, x
  <2>4. /\ s \in Source /\ s.callback = io[x].callback /\ s.key = io[x].key
        /\ s.always = io[x].always /\ s.seen = io[x].seen /\ s.fresh = io[x].fresh
    BY <1>3, <2>2 DEF Source
  <2> HIDE DEF s
  <2> QED BY <1>3, <2>2, <2>3, <2>4, MarkKeeps
<1> QED BY <1>2, <1>4, <1>5, <1>6 DEF Change

LEMMA MainChangeKeeps == ASSUME IoInv, NEW k \in Keys, MainChange(k) PROVE IoInv'
<1>1. pc = "main" /\ Change(k) /\ UNCHANGED <<pc, walkVars, forced, resized>>
  BY DEF MainChange
<1>2. lost' = lost
  BY <1>1 DEF Change, Add, Del, Dead, SetFlags, Needed, IoInv, TypeOK
<1>3. lost' => forced'
  BY <1>1, <1>2 DEF IoInv, LostForced
<1>4. forced' \in BOOLEAN
  BY <1>1 DEF IoInv, TypeOK
<1> QED BY <1>1, <1>3, <1>4, ChangeKeeps

LEMMA CallbackDropKeeps == ASSUME IoInv, NEW k \in Keys, CallbackDrop(k) PROVE IoInv'
<1>1. /\ pc = "callback" /\ (Del(k) \/ Dead(k))
      /\ UNCHANGED <<pc, walkVars, forced, resized>>
  BY DEF CallbackDrop
<1>2. lost' = lost
  BY <1>1 DEF Del, Dead
<1>3. lost' => forced'
  BY <1>1, <1>2 DEF IoInv, LostForced
<1>4. forced' \in BOOLEAN
  BY <1>1 DEF IoInv, TypeOK
<1> QED BY <1>1, <1>3, <1>4, ChangeKeeps DEF Change

(* Only what a script may do replaces a source the walk still needs.       *)
LEMMA CallbackChangeKeeps == ASSUME IoInv, NEW k \in Keys, CallbackChange(k) PROVE IoInv'
<1>1. /\ pc = "callback" /\ Change(k) /\ forced' = (forced \/ ~Usual(k))
      /\ UNCHANGED <<pc, walkVars, resized>>
  BY DEF CallbackChange
<1>2. /\ TypeOK /\ Pure(list) /\ Unique /\ Registered /\ Keyboard /\ Place
      /\ FreshFirst /\ LostForced
  BY DEF IoInv
<1>3. forced \in BOOLEAN /\ lost \in BOOLEAN
  BY <1>2 DEF TypeOK
<1>4. lost' => forced'
  <2> SUFFICES ASSUME lost', Usual(k), ~forced
               PROVE  FALSE
    BY <1>1, <1>3
  <2>1. ~lost /\ walk # "find_dead"
    BY <1>2 DEF LostForced
  <2>2. Old(k) \cap Needed # {}
    BY <1>1, <2>1 DEF Change, Add, Del, Dead, SetFlags
  <2>3. Has(k) /\ NodeOf(k) \in Needed /\ NodeOf(k) \in Listed /\ io[NodeOf(k)].key = k
    BY <1>2, <2>2, NodeOfKey DEF Old
  <2>4. Needed = IF walk = "dispatch" THEN {next} ELSE {cur, next}
    BY <1>1 DEF Needed
  <2>5. cur # next /\ next \in Nodes \cup {Null} /\ Null \notin Listed
    <3>1. list \in Seq(Nodes)
      BY <1>2 DEF Pure
    <3> QED BY <1>1, <1>2, <3>1, RangeIs, NodesAssumption DEF Place, Inside, TypeOK, Listed
  <2>6. CASE Self /\ walk # "gather" /\ k = io[cur].key
    <3>1. walk = "dispatch"
      BY <1>2, <2>1, <2>6 DEF TypeOK
    <3>2. NodeOf(k) = cur
      BY <1>2, <2>3, <2>6 DEF Unique, Self
    <3> QED BY <2>3, <2>4, <2>5, <3>1, <3>2
  <2>7. CASE cur \in Listed /\ io[cur].key = Tty
    <3>1. walk = "dispatch" /\ next = Null
      BY <1>1, <1>2, <2>7 DEF Keyboard, Inside
    <3> QED BY <2>3, <2>4, <2>5, <3>1
  <2> QED BY <2>3, <2>6, <2>7 DEF Usual
<1>5. forced' \in BOOLEAN
  BY <1>1, <1>3
<1> QED BY <1>1, <1>4, <1>5, ChangeKeeps

-----------------------------------------------------------------------------
(* A walk begins or ends: what was noted of the last one is forgotten.     *)
LEMMA NewWalkSources ==
    ASSUME TypeOK, NewWalk, list' = list
    PROVE  /\ Listed' = Listed /\ io' \in [Listed -> Source] /\ ~lost'
           /\ \A n \in Listed : /\ io'[n].key = io[n].key /\ io'[n].fd = io[n].fd
                                /\ io'[n].callback = io[n].callback
                                /\ io'[n].always = io[n].always
                                /\ ~io'[n].seen /\ ~io'[n].fresh
BY DEF TypeOK, NewWalk, Listed, Source

LEMMA NewWalkKeeps ==
    ASSUME IoInv, NewWalk, UNCHANGED <<list, reg, resized>>,
           pc' = "main" \/ (pc' = "walk" /\ cur' = HeadNode),
           walk' \in {"gather", "dispatch", "find_dead"},
           cur' \in Nodes \cup {Null}, next' \in Nodes \cup {Null},
           polled' \cup ready' \subseteq AllFds, forced' \in BOOLEAN,
           walk' = "find_dead" => forced'
    PROVE  IoInv'
<1>1. /\ TypeOK /\ Pure(list) /\ Unique /\ Registered /\ Keyboard /\ Place
      /\ FreshFirst /\ LostForced
  BY DEF IoInv
<1>2. /\ Listed' = Listed /\ io' \in [Listed -> Source] /\ ~lost'
      /\ \A n \in Listed : /\ io'[n].key = io[n].key /\ io'[n].fd = io[n].fd
                           /\ io'[n].callback = io[n].callback
                           /\ io'[n].always = io[n].always
                           /\ ~io'[n].seen /\ ~io'[n].fresh
  BY <1>1, NewWalkSources
<1>3. lost' = FALSE
  BY DEF NewWalk
<1>4. TypeOK'
  BY <1>1, <1>2, <1>3 DEF TypeOK
<1>5. Unique' /\ Registered'
  BY <1>1, <1>2 DEF Unique, Registered
<1>6. Keyboard'
  <2>1. PICK t \in Nodes : IsTty(t)
    BY <1>1 DEF Keyboard
  <2>2. IsTty(t)'
    BY <1>2, <2>1 DEF IsTty
  <2>3. \A n \in Listed' : io'[n].always => io'[n].key = Tty
    BY <1>1, <1>2 DEF Keyboard
  <2> QED BY <2>1, <2>2, <2>3 DEF Keyboard, Inside
<1>7. Place'
  <2>1. CASE pc' = "main"
    BY <2>1 DEF Place, Inside
  <2>2. CASE pc' = "walk" /\ cur' = HeadNode
    <3>1. /\ HeadNode = Null => Listed = {}
          /\ HeadNode # Null => HeadNode \in Listed /\ \A m \in Listed : Leq(list, HeadNode, m)
      BY <1>1, HeadIsFirst
    <3>2. Null \notin Listed
      BY <1>1, RangeIs, NodesAssumption DEF Pure, Listed
    <3>3. Placed(cur)'
      BY <1>2, <2>2, <3>1, <3>2 DEF Placed
    <3> QED BY <2>2, <3>3 DEF Place, Inside
  <2> QED BY <2>1, <2>2
<1>8. FreshFirst'
  BY <1>2 DEF FreshFirst
<1>9. LostForced'
  BY <1>2 DEF LostForced
<1> QED BY <1>1, <1>4, <1>5, <1>6, <1>7, <1>8, <1>9 DEF IoInv

LEMMA HeadNodeTyped == ASSUME IoInv PROVE HeadNode \in Nodes \cup {Null}
<1>1. Pure(list)
  BY DEF IoInv
<1>2. Listed \subseteq Nodes
  BY <1>1, RangeIs DEF Pure, Listed
<1> QED BY <1>1, <1>2, HeadIsFirst

LEMMA RunKeeps == ASSUME IoInv, Run PROVE IoInv'
<1>1. forced' \in BOOLEAN
  BY DEF Run, IoInv, TypeOK
<1> QED BY <1>1, HeadNodeTyped, NewWalkKeeps DEF Run, Begin

LEMMA SelectKeeps == ASSUME IoInv, Select PROVE IoInv'
<1>1. /\ walk = "gather" /\ polled \subseteq AllFds /\ ready \subseteq AllFds
      /\ forced \in BOOLEAN /\ cur \in Nodes \cup {Null} /\ next \in Nodes \cup {Null}
  BY DEF Select, IoInv, TypeOK
<1>2. polled' = {} /\ UNCHANGED <<list, reg, resized>>
  BY DEF Select
<1>3. CASE pc' = "main" /\ NewWalk /\ UNCHANGED <<walk, cur, next, ready, forced>>
  BY <1>1, <1>2, <1>3, NewWalkKeeps
<1>4. CASE \E R \in SUBSET polled \ {{}} : ready' = R /\ Begin("dispatch") /\ UNCHANGED forced
  BY <1>1, <1>2, <1>4, HeadNodeTyped, NewWalkKeeps DEF Begin
<1>5. CASE Begin("find_dead") /\ UNCHANGED ready /\ forced' = TRUE
  BY <1>1, <1>2, <1>5, HeadNodeTyped, NewWalkKeeps DEF Begin
<1> QED BY <1>3, <1>4, <1>5 DEF Select

LEMMA WalkEndKeeps == ASSUME IoInv, WalkEnd PROVE IoInv'
<1>1. /\ polled' \cup ready' \subseteq AllFds /\ forced' \in BOOLEAN
      /\ cur' \in Nodes \cup {Null} /\ next' \in Nodes \cup {Null}
      /\ NewWalk /\ UNCHANGED <<list, reg, resized>> /\ pc' = "main" /\ walk' = "gather"
  BY DEF WalkEnd, IoInv, TypeOK
<1> QED BY <1>1, NewWalkKeeps

LEMMA StrayKeeps == ASSUME IoInv, Stray PROVE IoInv'
<1>1. /\ TypeOK /\ Pure(list) /\ Unique /\ Registered /\ Keyboard /\ Place
      /\ FreshFirst /\ LostForced
  BY DEF IoInv
<1>2. /\ pc = "walk" /\ cur \notin Listed \cup {Null} /\ pc' = "undefined"
      /\ UNCHANGED <<list, io, walkVars, lost, reg, forced, resized>>
  BY DEF Stray
<1>3. lost
  BY <1>1, <1>2 DEF Place, Placed
<1>4. TypeOK'
  BY <1>1, <1>2 DEF TypeOK, Listed, walkVars
<1>5. Unique' /\ Registered' /\ FreshFirst'
  BY <1>1, <1>2 DEF Unique, Registered, FreshFirst, Listed
<1>6. Keyboard' /\ Place'
  BY <1>1, <1>2 DEF Keyboard, Place, Inside, IsTty, Listed
<1>7. LostForced'
  BY <1>1, <1>2, <1>3 DEF LostForced, walkVars
<1> QED BY <1>1, <1>2, <1>4, <1>5, <1>6, <1>7 DEF IoInv

-----------------------------------------------------------------------------
(* The walk is at a source and notes it.                                   *)
LEMMA SeenSources ==
    ASSUME TypeOK, cur \in Listed, io' = [io EXCEPT ![cur].seen = TRUE], list' = list
    PROVE  /\ Listed' = Listed /\ io' \in [Listed -> Source] /\ io'[cur].seen
           /\ \A n \in Listed : /\ io'[n].key = io[n].key /\ io'[n].fd = io[n].fd
                                /\ io'[n].callback = io[n].callback
                                /\ io'[n].always = io[n].always
                                /\ io'[n].fresh = io[n].fresh
                                /\ n # cur => io'[n].seen = io[n].seen
<1> DEFINE s == [io[cur] EXCEPT !.seen = TRUE]
<1>1. /\ s \in Source /\ s.seen /\ s.key = io[cur].key /\ s.fd = io[cur].fd
      /\ s.callback = io[cur].callback /\ s.always = io[cur].always /\ s.fresh = io[cur].fresh
  BY DEF TypeOK, Source
<1>2. io' = [io EXCEPT ![cur] = s]
  OBVIOUS
<1> HIDE DEF s
<1>3. /\ io' \in [Listed -> Source] /\ io'[cur] = s
      /\ \A n \in Listed : n # cur => io'[n] = io[n]
  BY <1>1, <1>2 DEF TypeOK
<1>4. Listed' = Listed
  BY DEF Listed
<1> QED BY <1>1, <1>3, <1>4

LEMMA VisitedKeeps ==
    ASSUME IoInv, pc = "walk", cur \in Listed, io' = [io EXCEPT ![cur].seen = TRUE],
           UNCHANGED <<list, walk, lost, reg, forced, resized>>,
           polled' \cup ready' \subseteq AllFds,
           \/ pc' = "walk" /\ cur' = NextOf(cur) /\ next' = next
           \/ pc' = "callback" /\ cur' = cur /\ next' = NextOf(cur)
              /\ (walk # "dispatch" => io[cur].key # Tty)
           \/ pc' = "resize" /\ cur' = cur /\ next' = NextOf(cur)
              /\ io[cur].key = Tty /\ walk # "find_dead"
    PROVE  IoInv'
<1>1. /\ TypeOK /\ Pure(list) /\ Unique /\ Registered /\ Keyboard /\ Place
      /\ FreshFirst /\ LostForced
  BY DEF IoInv
<1>2. /\ Listed' = Listed /\ io' \in [Listed -> Source] /\ io'[cur].seen
      /\ \A n \in Listed : /\ io'[n].key = io[n].key /\ io'[n].fd = io[n].fd
                           /\ io'[n].callback = io[n].callback
                           /\ io'[n].always = io[n].always
                           /\ io'[n].fresh = io[n].fresh
                           /\ n # cur => io'[n].seen = io[n].seen
  BY <1>1, SeenSources
<1>3. Listed \subseteq Nodes /\ Null \notin Listed
  BY <1>1, RangeIs, NodesAssumption DEF Pure, Listed
<1> DEFINE nx == NextOf(cur)
<1>4. /\ nx = Null => \A n \in Listed \ {cur} : io[n].seen \/ io[n].fresh
      /\ nx # Null => /\ nx \in Listed \ {cur}
                      /\ \A n \in Listed \ {cur} : io[n].seen \/ io[n].fresh \/ Leq(list, nx, n)
                      /\ io[nx].fresh => lost
  BY <1>1, NextPlace DEF Place
<1>5. io[cur].key = Tty => nx = Null
  <2> SUFFICES ASSUME io[cur].key = Tty, nx # Null PROVE FALSE
    OBVIOUS
  <2>1. nx \in Listed /\ nx # cur /\ Leq(list, cur, nx)
    BY <1>1, NextOfNode
  <2>2. Leq(list, nx, cur)
    <3>1. PICK t \in Nodes : IsTty(t)
      BY <1>1 DEF Keyboard
    <3>2. t = cur
      BY <1>1, <3>1 DEF IsTty, Unique
    <3> QED BY <2>1, <3>1, <3>2 DEF IsTty
  <2> QED BY <1>1, <2>1, <2>2, LeqOrders DEF Listed
<1> HIDE DEF nx
<1>6. ASSUME NEW h, h = nx
      PROVE  /\ h = Null => \A n \in Listed' : io'[n].seen \/ io'[n].fresh
             /\ h \in Listed' =>
                   \A n \in Listed' : io'[n].seen \/ io'[n].fresh \/ Leq(list', h, n)
             /\ h \notin Listed' \cup {Null} => lost'
             /\ h \in Listed' /\ io'[h].fresh => lost'
  BY <1>2, <1>3, <1>4, <1>6
<1>7. TypeOK'
  <2>1. nx \in Nodes \cup {Null}
    BY <1>3, <1>4
  <2> QED BY <1>1, <1>2, <1>3, <2>1 DEF TypeOK, nx
<1>8. Unique' /\ Registered'
  BY <1>1, <1>2 DEF Unique, Registered
<1>9. Keyboard'
  <2>1. PICK t \in Nodes : IsTty(t)
    BY <1>1 DEF Keyboard
  <2>2. IsTty(t)'
    BY <1>2, <2>1 DEF IsTty
  <2>3. \A n \in Listed' : io'[n].always => io'[n].key = Tty
    BY <1>1, <1>2 DEF Keyboard
  <2> QED BY <1>2, <1>5, <2>1, <2>2, <2>3 DEF Keyboard, Inside, nx
<1>10. Place'
  <2>1. CASE pc' = "walk" /\ cur' = nx
    <3>1. Placed(cur)'
      BY <1>6, <2>1 DEF Placed
    <3> QED BY <2>1, <3>1 DEF Place, Inside
  <2>2. CASE pc' \in {"callback", "resize"} /\ cur' = cur /\ next' = nx
    <3>1. Placed(next)'
      BY <1>6, <2>2 DEF Placed
    <3>2. cur # nx
      BY <1>3, <1>4
    <3> QED BY <1>2, <1>3, <2>2, <3>1, <3>2 DEF Place, Inside
  <2> QED BY <2>1, <2>2 DEF nx
<1>11. FreshFirst'
  BY <1>1, <1>2 DEF FreshFirst
<1>12. LostForced'
  BY <1>1 DEF LostForced
<1> QED BY <1>1, <1>7, <1>8, <1>9, <1>10, <1>11, <1>12 DEF IoInv

(* A source that is gone is taken out of the list.                         *)
LEMMA RemovedKeeps ==
    ASSUME IoInv, cur \in Listed, io[cur].key # Tty, list' = Without(cur), io' = Kept(cur),
           \/ reg' = reg /\ ~io[cur].callback
           \/ reg' = reg \ {io[cur].key},
           UNCHANGED <<walk, lost, forced, resized>>, polled' \cup ready' \subseteq AllFds,
           pc' = "walk",
           \/ pc = "walk" /\ cur' = NextOf(cur) /\ next' = next
           \/ pc = "callback" /\ cur' = next /\ next' = Null
    PROVE  IoInv'
<1>1. /\ TypeOK /\ Pure(list) /\ Unique /\ Registered /\ Keyboard /\ Place
      /\ FreshFirst /\ LostForced
  BY DEF IoInv
<1>2. /\ Pure(list') /\ Listed' = Listed \ {cur}
      /\ \A n, m \in Listed \ {cur} : Leq(list', n, m) <=> Leq(list, n, m)
  BY <1>1, WithoutNode DEF Listed
<1>3. io' \in [Listed' -> Source] /\ \A n \in Listed' : io'[n] = io[n]
  BY <1>1, <1>2 DEF Kept, TypeOK
<1>4. Listed \subseteq Nodes /\ Null \notin Listed /\ list' \in Seq(Nodes)
  BY <1>1, <1>2, RangeIs, NodesAssumption DEF Pure, Listed
<1>5. /\ cur' = Null => \A n \in Listed' : io'[n].seen \/ io'[n].fresh
      /\ cur' \in Listed' =>
            \A n \in Listed' : io'[n].seen \/ io'[n].fresh \/ Leq(list', cur', n)
      /\ cur' \notin Listed' \cup {Null} => lost'
      /\ cur' \in Listed' /\ io'[cur'].fresh => lost'
  <2>1. CASE pc = "walk" /\ cur' = NextOf(cur)
    <3>1. /\ cur' = Null => \A n \in Listed \ {cur} : io[n].seen \/ io[n].fresh
          /\ cur' # Null =>
                /\ cur' \in Listed \ {cur}
                /\ \A n \in Listed \ {cur} : io[n].seen \/ io[n].fresh \/ Leq(list, cur', n)
                /\ io[cur'].fresh => lost
      BY <1>1, <2>1, NextPlace DEF Place
    <3> QED BY <1>2, <1>3, <1>4, <3>1
  <2>2. CASE pc = "callback" /\ cur' = next
    <3>1. Placed(next) /\ cur # next
      BY <1>1, <2>2 DEF Place, Inside
    <3> QED BY <1>2, <1>3, <1>4, <2>2, <3>1 DEF Placed
  <2> QED BY <2>1, <2>2
<1>6. cur' \in Nodes \cup {Null} /\ next' \in Nodes \cup {Null}
  <2>1. NextOf(cur) \in Nodes \cup {Null}
    BY <1>1, <1>4, NextOfNode
  <2> QED BY <1>1, <2>1 DEF TypeOK
<1>7. reg' \subseteq AllKeys
  BY <1>1 DEF TypeOK
<1>8. TypeOK'
  BY <1>1, <1>3, <1>4, <1>6, <1>7 DEF TypeOK
<1>9. Unique'
  BY <1>1, <1>2, <1>3 DEF Unique
<1>10. Registered'
  <2> SUFFICES ASSUME NEW j \in AllKeys
               PROVE  j \in reg' <=> \E m \in Listed' : io'[m].key = j /\ io'[m].callback
    BY DEF Registered
  <2>1. j \in reg <=> \E m \in Listed : io[m].key = j /\ io[m].callback
    BY <1>1 DEF Registered
  <2>2. \A m \in Listed' : io[m].key # io[cur].key
    BY <1>1, <1>2 DEF Unique
  <2>3. CASE j = io[cur].key
    <3>1. \A m \in Listed : io[m].key = j => m = cur
      BY <1>1, <2>3 DEF Unique
    <3> QED BY <1>2, <1>3, <2>1, <2>2, <2>3, <3>1
  <2>4. CASE j # io[cur].key
    BY <1>2, <1>3, <2>1, <2>4
  <2> QED BY <2>3, <2>4
<1>11. Keyboard'
  <2>1. PICK t \in Nodes : IsTty(t)
    BY <1>1 DEF Keyboard
  <2>2. t # cur
    BY <2>1 DEF IsTty
  <2>3. IsTty(t)'
    BY <1>2, <1>3, <2>1, <2>2 DEF IsTty
  <2>4. \A n \in Listed' : io'[n].always => io'[n].key = Tty
    BY <1>1, <1>2, <1>3 DEF Keyboard
  <2> QED BY <2>1, <2>3, <2>4 DEF Keyboard, Inside
<1>12. Place'
  BY <1>5 DEF Place, Inside, Placed
<1>13. FreshFirst'
  BY <1>1, <1>2, <1>3 DEF FreshFirst
<1>14. LostForced'
  BY <1>1 DEF LostForced
<1> QED BY <1>2, <1>8, <1>9, <1>10, <1>11, <1>12, <1>13, <1>14 DEF IoInv

-----------------------------------------------------------------------------
(* The steps of the walks.                                                 *)
LEMMA TypedParts ==
    ASSUME IoInv
    PROVE  /\ polled \subseteq AllFds /\ ready \subseteq AllFds
           /\ cur \in Listed => io[cur] \in Source
           /\ \A n \in Listed : io[n].fd # Gone => io[n].fd \in AllFds
           /\ \A n \in Listed : io[n].key = Tty => io[n].fd = TtyFd
           /\ \A n \in Listed : io[n].always => io[n].key = Tty
           /\ TtyFd # Gone
<1>1. PICK t \in Nodes : IsTty(t)
  BY DEF IoInv, Keyboard
<1>2. \A n \in Listed : io[n].key = Tty => n = t
  BY <1>1 DEF IoInv, Unique, IsTty
<1>3. \A n \in Listed : io[n] \in Source
  BY DEF IoInv, TypeOK
<1>4. \A n \in Listed : io[n].fd # Gone => io[n].fd \in AllFds
  BY <1>3 DEF Source
<1> QED BY <1>1, <1>2, <1>3, <1>4, FdsAssumption DEF IoInv, TypeOK, Keyboard, IsTty

LEMMA PollsTyped ==
    ASSUME IoInv, NEW n \in Listed, io[n].fd # Gone
    PROVE  Polls(n) \subseteq AllFds
BY TypedParts DEF Polls

LEMMA GatherAliveKeeps == ASSUME IoInv, GatherAlive PROVE IoInv'
<1>1. /\ pc = "walk" /\ walk = "gather" /\ cur \in Listed /\ io[cur].fd # Gone
      /\ UNCHANGED <<walk, ready, lost, reg, forced, resized>>
  BY DEF GatherAlive, WalkAt
<1>2. CASE io[cur].always /\ io[cur].callback /\ Call
  <2>1. io[cur].key = Tty
    BY <1>1, <1>2, TypedParts
  <2> QED BY <1>1, <1>2, <2>1, TypedParts, VisitedKeeps DEF Call
<1>3. CASE polled' = Polls(cur) /\ Pass
  BY <1>1, <1>3, TypedParts, PollsTyped, VisitedKeeps DEF Pass
<1> QED BY <1>2, <1>3 DEF GatherAlive

LEMMA BodyDeadKeeps ==
    ASSUME IoInv, pc = "walk", cur \in Listed, io[cur].key # Tty, BodyDead,
           UNCHANGED <<walk, ready, lost, reg, forced, resized>>
    PROVE  IoInv'
<1>1. ~io[cur].always
  BY TypedParts
<1>2. CASE io[cur].callback /\ Call
  BY <1>1, <1>2, TypedParts, VisitedKeeps DEF Call
<1>3. CASE ~io[cur].callback /\ ~(io[cur].callback /\ Call)
  BY <1>3, TypedParts, RemovedKeeps DEF BodyDead
<1> QED BY <1>2, <1>3 DEF BodyDead

LEMMA GatherDeadKeeps == ASSUME IoInv, GatherDead PROVE IoInv'
<1>1. io[cur].key # Tty
  BY TypedParts DEF GatherDead, WalkAt
<1> QED BY <1>1, BodyDeadKeeps DEF GatherDead, WalkAt

LEMMA FindDeadKeeps == ASSUME IoInv, FindDead PROVE IoInv'
<1>1. /\ pc = "walk" /\ cur \in Listed
      /\ UNCHANGED <<walk, ready, lost, reg, forced, resized>>
  BY DEF FindDead, WalkAt
<1>2. CASE io[cur].fd # TtyFd /\ BodyDead
  <2>1. io[cur].key # Tty
    BY <1>1, <1>2, TypedParts
  <2> QED BY <1>1, <1>2, <2>1, BodyDeadKeeps
<1>3. CASE Pass /\ UNCHANGED polled
  BY <1>1, <1>3, TypedParts, VisitedKeeps DEF Pass
<1> QED BY <1>2, <1>3 DEF FindDead

LEMMA DispatchKeeps == ASSUME IoInv, Dispatch PROVE IoInv'
<1>1. /\ pc = "walk" /\ walk = "dispatch" /\ cur \in Listed
      /\ UNCHANGED <<walk, ready, lost, reg, forced, resized>>
  BY DEF Dispatch, WalkAt
<1>2. CASE Call
  <2>1. io[cur].always => io[cur].key = Tty
    BY <1>1, TypedParts
  <2> QED BY <1>1, <1>2, <2>1, TypedParts, VisitedKeeps DEF Call
<1>3. CASE Pass /\ UNCHANGED polled
  BY <1>1, <1>3, TypedParts, VisitedKeeps DEF Pass
<1> QED BY <1>2, <1>3 DEF Dispatch

(* The flag of the keyboard is set by the signal and cleared by its        *)
(* callback.                                                               *)
LEMMA AlwaysKeeps ==
    ASSUME IoInv, NEW b \in BOOLEAN, io' = [io EXCEPT ![NodeOf(Tty)].always = b],
           UNCHANGED <<list, walkVars, lost, reg, forced>>, resized' \in BOOLEAN,
           pc' = pc \/ (pc = "resize" /\ pc' = "size")
    PROVE  IoInv'
<1>1. /\ TypeOK /\ Pure(list) /\ Unique /\ Registered /\ Keyboard /\ Place
      /\ FreshFirst /\ LostForced
  BY DEF IoInv
<1>2. PICK t \in Nodes : IsTty(t) /\ t = NodeOf(Tty)
  <2>1. IsTty(NodeOf(Tty)) /\ NodeOf(Tty) \in Nodes
    BY <1>1, TheTty, RangeIs DEF Pure, Listed, IsTty
  <2> QED BY <2>1
<1> DEFINE s == [io[t] EXCEPT !.always = b]
<1>3. t \in Listed /\ io[t] \in Source /\ io[t].key = Tty
  BY <1>1, <1>2 DEF IsTty, TypeOK
<1>4. io' = [io EXCEPT ![t] = s]
  BY <1>2
<1>5. /\ s \in Source /\ s.key = io[t].key /\ s.fd = io[t].fd /\ s.callback = io[t].callback
      /\ s.seen = io[t].seen /\ s.fresh = io[t].fresh
  BY <1>3 DEF Source
<1> HIDE DEF s
<1>6. Listed' = Listed
  BY DEF Listed
<1>7. io' \in [Listed -> Source] /\ io'[t] = s /\ \A n \in Listed : n # t => io'[n] = io[n]
  BY <1>1, <1>3, <1>4, <1>5 DEF TypeOK
<1>8. \A n \in Listed : /\ io'[n].key = io[n].key /\ io'[n].fd = io[n].fd
                        /\ io'[n].callback = io[n].callback
                        /\ io'[n].seen = io[n].seen /\ io'[n].fresh = io[n].fresh
  BY <1>5, <1>7
<1>9. /\ walk' = walk /\ cur' = cur /\ next' = next /\ polled' = polled /\ ready' = ready
      /\ list' = list /\ lost' = lost /\ reg' = reg /\ forced' = forced
  BY DEF walkVars
<1>10. TypeOK'
  BY <1>1, <1>6, <1>7, <1>9 DEF TypeOK
<1>11. Unique' /\ Registered'
  BY <1>1, <1>6, <1>8, <1>9 DEF Unique, Registered
<1>12. Keyboard'
  <2>1. IsTty(t)'
    BY <1>2, <1>6, <1>8, <1>9 DEF IsTty
  <2>2. ASSUME NEW n \in Listed' PROVE io'[n].always => io'[n].key = Tty
    <3>1. io[n].always => io[n].key = Tty
      BY <1>1, <1>6 DEF Keyboard
    <3>2. n # t => io'[n] = io[n]
      BY <1>6, <1>7
    <3>3. io'[n].key = io[n].key
      BY <1>6, <1>8
    <3>4. CASE n = t
      BY <1>3, <3>3, <3>4
    <3>5. CASE n # t
      BY <3>1, <3>2, <3>5
    <3> QED BY <3>4, <3>5
  <2>3. /\ pc' \in {"resize", "size", "return"} => pc \in {"resize", "size", "return"}
        /\ pc' = "callback" => pc = "callback"
        /\ Inside' => Inside
    BY DEF Inside
  <2>4. cur \in Listed => io'[cur].key = io[cur].key
    BY <1>8
  <2>5. \E m \in Nodes : IsTty(m)'
    BY <2>1
  <2>6. pc' \in {"resize", "size", "return"} =>
           cur' \in Listed' /\ io'[cur'].key = Tty /\ walk' # "find_dead"
    BY <1>1, <1>6, <1>9, <2>3, <2>4 DEF Keyboard
  <2>7. pc' = "callback" /\ walk' # "dispatch" /\ cur' \in Listed' => io'[cur'].key # Tty
    BY <1>1, <1>6, <1>9, <2>3, <2>4 DEF Keyboard
  <2>8. Inside' /\ cur' \in Listed' /\ io'[cur'].key = Tty => next' = Null
    BY <1>1, <1>6, <1>9, <2>3, <2>4 DEF Keyboard
  <2> QED BY <2>2, <2>5, <2>6, <2>7, <2>8 DEF Keyboard
<1>13. Placed(cur)' <=> Placed(cur)
  BY <1>6, <1>8, <1>9 DEF Placed
<1>14. Placed(next)' <=> Placed(next)
  BY <1>6, <1>8, <1>9 DEF Placed
<1>15. Place'
  BY <1>1, <1>6, <1>9, <1>13, <1>14 DEF Place, Inside
<1>16. FreshFirst'
  BY <1>1, <1>6, <1>8, <1>9 DEF FreshFirst
<1>17. LostForced'
  BY <1>1, <1>9 DEF LostForced
<1> QED BY <1>1, <1>9, <1>10, <1>11, <1>12, <1>15, <1>16, <1>17 DEF IoInv

LEMMA ReadSizeKeeps == ASSUME IoInv, ReadSize PROVE IoInv'
<1>1. /\ TypeOK /\ Pure(list) /\ Unique /\ Registered /\ Keyboard /\ Place
      /\ FreshFirst /\ LostForced
  BY DEF IoInv
<1>2. /\ pc = "size" /\ pc' = "return" /\ resized' = FALSE
      /\ UNCHANGED <<list, io, lost, reg, forced, walkVars>>
  BY DEF ReadSize
<1>3. TypeOK'
  BY <1>1, <1>2 DEF TypeOK, Listed, walkVars
<1>4. Unique' /\ Registered' /\ FreshFirst' /\ LostForced'
  BY <1>1, <1>2 DEF Unique, Registered, FreshFirst, LostForced, Listed, walkVars
<1>5. Keyboard' /\ Place'
  BY <1>1, <1>2 DEF Keyboard, Place, Inside, IsTty, Placed, Listed, walkVars
<1> QED BY <1>1, <1>2, <1>3, <1>4, <1>5 DEF IoInv

LEMMA ReturnKeeps == ASSUME IoInv, Return PROVE IoInv'
<1>1. /\ TypeOK /\ Pure(list) /\ Unique /\ Registered /\ Keyboard /\ Place
      /\ FreshFirst /\ LostForced
  BY DEF IoInv
<1>2. /\ pc \in {"callback", "return"} /\ next' = Null
      /\ UNCHANGED <<walk, ready, lost, forced, resized>>
  BY DEF Return
<1>3. CASE /\ walk # "dispatch" /\ cur \notin Listed
           /\ pc' = "undefined" /\ UNCHANGED <<list, io, polled, cur, reg>>
  <2>1. lost
    BY <1>1, <1>2, <1>3 DEF Place, Keyboard
  <2>2. TypeOK'
    BY <1>1, <1>2, <1>3 DEF TypeOK, Listed
  <2>3. Unique' /\ Registered' /\ FreshFirst' /\ LostForced'
    BY <1>1, <1>2, <1>3, <2>1 DEF Unique, Registered, FreshFirst, LostForced, Listed
  <2>4. Keyboard' /\ Place'
    BY <1>1, <1>2, <1>3 DEF Keyboard, Place, Inside, IsTty, Listed
  <2> QED BY <1>1, <1>3, <2>2, <2>3, <2>4 DEF IoInv
<1>4. CASE /\ pc' = "walk" /\ cur' = next /\ polled' \subseteq AllFds
           /\ UNCHANGED <<list, io, reg>>
  <2>1. Placed(next)
    BY <1>1, <1>2 DEF Place, Inside
  <2>2. Placed(cur)'
    BY <1>2, <1>4, <2>1 DEF Placed, Listed
  <2>3. TypeOK'
    BY <1>1, <1>2, <1>4 DEF TypeOK, Listed
  <2>4. Unique' /\ Registered' /\ FreshFirst' /\ LostForced'
    BY <1>1, <1>2, <1>4 DEF Unique, Registered, FreshFirst, LostForced, Listed
  <2>5. Keyboard' /\ Place'
    BY <1>1, <1>2, <1>4, <2>2 DEF Keyboard, Place, Inside, IsTty, Listed
  <2> QED BY <1>1, <1>4, <2>3, <2>4, <2>5 DEF IoInv
<1>5. CASE /\ walk # "dispatch" /\ cur \in Listed /\ pc = "callback" /\ pc' = "walk"
           /\ cur' = next /\ list' = Without(cur) /\ io' = Kept(cur)
           /\ reg' = reg \ {io[cur].key} /\ UNCHANGED polled
  <2>1. io[cur].key # Tty
    BY <1>1, <1>5 DEF Keyboard
  <2> QED BY <1>2, <1>5, <2>1, TypedParts, RemovedKeeps
<1>6. ASSUME pc = "return", polled' = Polls(cur) PROVE polled' \subseteq AllFds
  <2>1. cur \in Listed /\ io[cur].key = Tty
    BY <1>1, <1>6 DEF Keyboard
  <2>2. io[cur].fd # Gone
    BY <2>1, TypedParts
  <2> QED BY <1>6, <2>1, <2>2, PollsTyped
<1>7. UNCHANGED polled => polled' \subseteq AllFds
  BY TypedParts
<1> QED BY <1>2, <1>3, <1>4, <1>5, <1>6, <1>7 DEF Return

LEMMA StutterKeeps == ASSUME IoInv, UNCHANGED vars PROVE IoInv'
<1>1. Listed' = Listed /\ Placed(cur)' = Placed(cur) /\ Placed(next)' = Placed(next)
  BY DEF vars, walkVars, Listed, Placed
<1> QED BY <1>1 DEF IoInv, vars, walkVars, TypeOK, Pure, Unique, Registered, Keyboard,
                    IsTty, Inside, Place, FreshFirst, LostForced

LEMMA InitInv == Init => IoInv
<1> SUFFICES ASSUME Init PROVE IoInv
  OBVIOUS
<1>1. PICK n \in Nodes :
         /\ pc = "main" /\ list = <<n>>
         /\ io = [m \in {n} |-> NewSource(Tty, TtyFd, TRUE)]
         /\ walk = "gather" /\ cur = Null /\ next = Null
         /\ polled = {} /\ ready = {} /\ lost = FALSE
         /\ reg = {Tty} /\ forced = FALSE /\ resized = FALSE
  BY DEF Init
<1> DEFINE s == NewSource(Tty, TtyFd, TRUE)
<1>2. /\ s \in Source /\ s.key = Tty /\ s.fd = TtyFd /\ s.callback
      /\ ~s.always /\ ~s.seen /\ ~s.fresh
  BY <1>1 DEF NewSource, Source, AllKeys, AllFds
<1>3. io = [m \in {n} |-> s]
  BY <1>1
<1> HIDE DEF s
<1>4. list \in Seq(Nodes) /\ Len(list) = 1 /\ list[1] = n
  BY <1>1
<1>5. Pure(list)
  BY <1>4 DEF Pure
<1>6. Listed = {n}
  BY <1>4, RangeIs DEF Listed
<1>7. io[n] = s /\ io \in [Listed -> Source]
  BY <1>2, <1>3, <1>6
<1>8. TypeOK
  BY <1>1, <1>4, <1>7 DEF TypeOK, AllKeys
<1>9. Leq(list, n, n)
  BY <1>5, <1>6, LeqOrders DEF Listed
<1>10. IsTty(n)
  BY <1>2, <1>6, <1>7, <1>9 DEF IsTty
<1>11. Keyboard
  BY <1>1, <1>2, <1>6, <1>7, <1>10 DEF Keyboard, Inside
<1>12. Unique /\ Registered
  BY <1>1, <1>2, <1>6, <1>7 DEF Unique, Registered
<1>13. Place /\ FreshFirst /\ LostForced
  BY <1>1, <1>2, <1>6, <1>7 DEF Place, Inside, FreshFirst, LostForced
<1> QED BY <1>5, <1>8, <1>11, <1>12, <1>13 DEF IoInv

LEMMA StepInv == IoInv /\ [Next]_vars => IoInv'
<1> SUFFICES ASSUME IoInv, [Next]_vars PROVE IoInv'
  OBVIOUS
<1>1. CASE \E k \in Keys : MainChange(k) \/ CallbackChange(k) \/ CallbackDrop(k)
  BY <1>1, MainChangeKeeps, CallbackChangeKeeps, CallbackDropKeeps
<1>2. CASE Run \/ Select \/ WalkEnd
  BY <1>2, RunKeeps, SelectKeeps, WalkEndKeeps
<1>3. CASE Stray \/ GatherAlive \/ GatherDead \/ FindDead \/ Dispatch
  BY <1>3, StrayKeeps, GatherAliveKeeps, GatherDeadKeeps, FindDeadKeeps, DispatchKeeps
<1>4. CASE ClearAlways
  BY <1>4, AlwaysKeeps DEF ClearAlways, IoInv, TypeOK
<1>5. CASE ReadSize \/ Return
  BY <1>5, ReadSizeKeeps, ReturnKeeps
<1>6. CASE SigWinch
  BY <1>6, AlwaysKeeps DEF SigWinch
<1>7. CASE UNCHANGED vars
  BY <1>7, StutterKeeps
<1> QED BY <1>1, <1>2, <1>3, <1>4, <1>5, <1>6, <1>7 DEF Next, Step, Resize

LEMMA AlwaysInv == Spec => []IoInv
BY InitInv, StepInv, PTL DEF Spec

(* The list holds nodes, each node a source, and what a walk keeps of it   *)
(* is a node, or NULL.                                                     *)
THEOREM IoTypeOK == Spec => []TypeOK
<1>1. IoInv => TypeOK
  BY DEF IoInv
<1> QED BY <1>1, AlwaysInv, PTL

(* The set of sources survives what its callbacks do, however many objects *)
(* there are: a walk goes on to freed memory only after a source was added *)
(* in place of one that it still needed, which takes a script or a closed  *)
(* descriptor; it misses no source that was there when it began; and every *)
(* object that was added and not deleted has exactly one live source.      *)
THEOREM SourcesSound == Spec => []IoSound
<1>1. ASSUME IoInv PROVE WalkSafe
  BY <1>1 DEF IoInv, WalkSafe, Place, Placed, LostForced
<1>2. ASSUME IoInv PROVE RegisteredExactly
  <2>1. \A i, j \in 1 .. Len(list) : list[i] = list[j] => i = j
    BY <1>2 DEF IoInv, Pure
  <2>2. \A i \in 1 .. Len(list) : list[i] \in Listed
    BY <1>2, RangeIs DEF IoInv, Pure, Listed
  <2>3. Unique /\ Registered
    BY <1>2 DEF IoInv
  <2>4. \A i, j \in 1 .. Len(list) : io[list[i]].key = io[list[j]].key => i = j
    BY <2>1, <2>2, <2>3 DEF Unique
  <2> QED BY <2>3, <2>4 DEF RegisteredExactly, Registered
<1>3. IoInv => IoSound
  BY <1>1, <1>2 DEF IoSound
<1> QED BY <1>3, AlwaysInv, PTL

(* A callback is told that its descriptor is ready only when select() said *)
(* so of the source that is listed now: a source added during the walk is  *)
(* before the place where the walk is, whatever descriptor it was given.   *)
THEOREM NoStaleCalls == Spec => NoStaleCall
<1>1. ASSUME IoInv, [Next]_vars, pc = "walk", walk = "dispatch", pc' \in {"callback", "resize"}
      PROVE  ~io[cur].fresh \/ lost
  <2>1. CASE Dispatch
    <3>1. cur \in Listed /\ Placed(cur)
      BY <1>1, <2>1 DEF Dispatch, WalkAt, IoInv, Place
    <3> QED BY <3>1 DEF Placed
  <2>2. ~\E k \in Keys : MainChange(k) \/ CallbackChange(k) \/ CallbackDrop(k)
    BY <1>1 DEF MainChange, CallbackChange, CallbackDrop
  <2>3. ~Run /\ ~Stray /\ ~Select /\ ~WalkEnd /\ ~Return /\ ~Resize
    BY <1>1 DEF Run, Stray, Select, WalkEnd, Return, Resize, ClearAlways, ReadSize
  <2>4. ~GatherAlive /\ ~GatherDead /\ ~FindDead
    BY <1>1 DEF GatherAlive, GatherDead, FindDead, WalkAt
  <2>5. ~SigWinch /\ ~UNCHANGED vars
    BY <1>1 DEF SigWinch, vars
  <2> QED BY <1>1, <2>1, <2>2, <2>3, <2>4, <2>5 DEF Next, Step
<1>2. IoInv /\ [Next]_vars =>
         [pc = "walk" /\ walk = "dispatch" /\ pc' \in {"callback", "resize"}
             => ~io[cur].fresh \/ lost]_vars
  BY <1>1
<1> QED BY <1>2, AlwaysInv, PTL DEF Spec, NoStaleCall
=============================================================================
