-------------------------- MODULE Transfers_proofs ---------------------------
(***************************************************************************)
(* Theorems of Transfers and of the AimTransfers in MCTransfers, for any   *)
(* number of transfers, descriptors and lengths of files.                  *)
(***************************************************************************)
EXTENDS MCTransfers, Sequences, FiniteSetTheorems, TLAPS

(* The states that the operators lead from and to.                         *)
Src     == [callback : Callbacks, fd : Fds]
Maps(S) == UNION {[D -> S] : D \in SUBSET Xfers}

St == [xfer : Maps(Xfer), io : Maps(Src), open : [Fds -> {"closed", "ours", "other"}],
       harm : SUBSET {"freed", "other"}]

(* A transfer has a source exactly if it has a descriptor, which is open   *)
(* and its own.                                                            *)
Linked(s) ==
    /\ DOMAIN s.io = {x \in DOMAIN s.xfer : s.xfer[x].sock # None}
    /\ \A x \in DOMAIN s.io : s.io[x].fd = s.xfer[x].sock /\ s.open[s.xfer[x].sock] = "ours"
    /\ \A x, y \in DOMAIN s.io : s.xfer[x].sock = s.xfer[y].sock => x = y

(* Every open descriptor of the transfers is watched.                      *)
Watched(s) == \A f \in Fds : s.open[f] = "ours" => \E x \in DOMAIN s.io : s.io[x].fd = f

Fine(s) == /\ s \in St /\ "other" \notin s.harm
           /\ "freed" \notin s.harm => Linked(s)

(* What happens to a state that is whole: it stays so, or memory that was  *)
(* freed is used.                                                          *)
Whole(s, t) == Fine(t) /\ ("freed" \notin t.harm /\ Watched(s) => Watched(t))

TransfersInv ==
    /\ Fine(Now)
    /\ next_xfer_refnum \in 0 .. MaxXfers /\ acct \in BOOLEAN /\ again \in BOOLEAN
    /\ \A x \in DOMAIN xfer : x < next_xfer_refnum
    /\ Running /\ ~again => Watched(Now)

-----------------------------------------------------------------------------
(* Records and functions.                                                  *)
Rec(a, b, c, d) == [xfer |-> a, io |-> b, open |-> c, harm |-> d]
Less(f, X)      == [k \in DOMAIN f \ X |-> f[k]]
With(f, x, v)   == [k \in DOMAIN f \cup {x} |-> IF k = x THEN v ELSE f[k]]
Put(s, x, v)    == [s EXCEPT !.xfer[x] = v]

LEMMA MapsAre ==
    ASSUME NEW S, NEW f
    PROVE  f \in Maps(S) <=> DOMAIN f \subseteq Xfers /\ f \in [DOMAIN f -> S]
<1>1. ASSUME f \in Maps(S) PROVE DOMAIN f \subseteq Xfers /\ f \in [DOMAIN f -> S]
  <2>1. PICK D \in SUBSET Xfers : f \in [D -> S]
    BY <1>1 DEF Maps
  <2> QED BY <2>1
<1>2. ASSUME DOMAIN f \subseteq Xfers, f \in [DOMAIN f -> S] PROVE f \in Maps(S)
  BY <1>2 DEF Maps
<1> QED BY <1>1, <1>2

LEMMA LessIs ==
    ASSUME NEW S, NEW f \in Maps(S), NEW X
    PROVE  /\ Less(f, X) \in Maps(S) /\ DOMAIN Less(f, X) = DOMAIN f \ X
           /\ \A k \in DOMAIN f \ X : Less(f, X)[k] = f[k]
<1>1. DOMAIN f \subseteq Xfers /\ f \in [DOMAIN f -> S]
  BY MapsAre
<1>2. /\ DOMAIN Less(f, X) = DOMAIN f \ X
      /\ \A k \in DOMAIN f \ X : Less(f, X)[k] = f[k]
      /\ Less(f, X) \in [DOMAIN f \ X -> S]
  BY <1>1 DEF Less
<1> QED BY <1>1, <1>2, MapsAre

LEMMA WithIs ==
    ASSUME NEW S, NEW f \in Maps(S), NEW x \in Xfers, NEW v \in S
    PROVE  /\ With(f, x, v) \in Maps(S) /\ DOMAIN With(f, x, v) = DOMAIN f \cup {x}
           /\ With(f, x, v)[x] = v
           /\ \A k \in DOMAIN f : k # x => With(f, x, v)[k] = f[k]
<1>1. DOMAIN f \subseteq Xfers /\ f \in [DOMAIN f -> S]
  BY MapsAre
<1>2. /\ DOMAIN With(f, x, v) = DOMAIN f \cup {x} /\ With(f, x, v)[x] = v
      /\ \A k \in DOMAIN f : k # x => With(f, x, v)[k] = f[k]
      /\ With(f, x, v) \in [DOMAIN f \cup {x} -> S]
  BY <1>1 DEF With
<1> QED BY <1>1, <1>2, MapsAre

LEMMA StIs ==
    ASSUME NEW s \in St
    PROVE  /\ s.xfer \in Maps(Xfer) /\ DOMAIN s.xfer \subseteq Xfers
           /\ s.xfer \in [DOMAIN s.xfer -> Xfer]
           /\ s.io \in Maps(Src) /\ DOMAIN s.io \subseteq Xfers /\ s.io \in [DOMAIN s.io -> Src]
           /\ s.open \in [Fds -> {"closed", "ours", "other"}]
           /\ s.harm \subseteq {"freed", "other"}
<1>1. s.xfer \in Maps(Xfer) /\ s.io \in Maps(Src)
  BY DEF St
<1> QED BY <1>1, MapsAre DEF St

LEMMA RecIs ==
    ASSUME NEW a \in Maps(Xfer), NEW b \in Maps(Src),
           NEW c \in [Fds -> {"closed", "ours", "other"}], NEW d \in SUBSET {"freed", "other"}
    PROVE  Rec(a, b, c, d) \in St
BY DEF Rec, St

LEMMA FieldsAre ==
    ASSUME NEW s \in St, NEW v
    PROVE  /\ [s EXCEPT !.xfer = v] = Rec(v, s.io, s.open, s.harm)
           /\ [s EXCEPT !.io = v] = Rec(s.xfer, v, s.open, s.harm)
           /\ [s EXCEPT !.open = v] = Rec(s.xfer, s.io, v, s.harm)
           /\ [s EXCEPT !.harm = v] = Rec(s.xfer, s.io, s.open, v)
BY DEF St, Rec

LEMMA Projected ==
    ASSUME NEW a, NEW b, NEW c, NEW d
    PROVE  LET s == Rec(a, b, c, d) IN s.xfer = a /\ s.io = b /\ s.open = c /\ s.harm = d
BY DEF Rec

-----------------------------------------------------------------------------
(* What the primitive operators do to a state.                             *)
LEMMA DelEffect ==
    ASSUME NEW s \in St, NEW x
    PROVE  LET t == pork_io_del(s, x) IN
           t \in St /\ t.xfer = s.xfer /\ t.io = Less(s.io, {x}) /\ t.open = s.open /\ t.harm = s.harm
<1>1. pork_io_del(s, x) = [s EXCEPT !.io = Less(s.io, {x})]
  BY DEF pork_io_del, Less, St
<1>2. pork_io_del(s, x) = Rec(s.xfer, Less(s.io, {x}), s.open, s.harm)
  BY <1>1, FieldsAre
<1>3. Less(s.io, {x}) \in Maps(Src)
  BY StIs, LessIs
<1> QED BY <1>2, <1>3, Projected, RecIs, StIs

LEMMA AddEffect ==
    ASSUME NEW s \in St, NEW x \in Xfers, NEW cb \in Callbacks, NEW fd \in Fds
    PROVE  LET t == pork_io_add(s, x, cb, fd) IN
           /\ t \in St /\ t.xfer = s.xfer /\ t.open = s.open /\ t.harm = s.harm
           /\ t.io = With(s.io, x, [callback |-> cb, fd |-> fd])
<1> DEFINE v == [callback |-> cb, fd |-> fd]
<1>1. pork_io_add(s, x, cb, fd) = [s EXCEPT !.io = With(s.io, x, v)]
  BY DEF pork_io_add, With, St
<1>2. pork_io_add(s, x, cb, fd) = Rec(s.xfer, With(s.io, x, v), s.open, s.harm)
  BY <1>1, FieldsAre
<1>3. v \in Src
  BY DEF Src
<1>4. With(s.io, x, v) \in Maps(Src)
  BY <1>3, StIs, WithIs
<1> QED BY <1>2, <1>4, Projected, RecIs, StIs

LEMMA OpenEffect ==
    ASSUME NEW s \in St, NEW f \in Fds
    PROVE  LET t == Open(s, f) IN
           /\ t \in St /\ t.xfer = s.xfer /\ t.io = s.io /\ t.harm = s.harm
           /\ t.open = [s.open EXCEPT ![f] = "ours"]
<1> DEFINE o == [s.open EXCEPT ![f] = "ours"]
<1>1. Open(s, f) = [s EXCEPT !.open = o]
  BY DEF Open, St
<1>2. o \in [Fds -> {"closed", "ours", "other"}]
  BY StIs
<1>3. Open(s, f) = Rec(s.xfer, s.io, o, s.harm)
  BY <1>1, FieldsAre
<1> HIDE DEF o
<1>4. Open(s, f).open = o
  BY <1>3, Projected
<1>5. Open(s, f) \in St
  BY <1>2, <1>3, RecIs, StIs
<1> QED BY <1>3, <1>4, <1>5, Projected DEF o

LEMMA CloseEffect ==
    ASSUME NEW s \in St, NEW fd \in Fds
    PROVE  LET t == Close(s, fd) IN
           /\ t \in St /\ t.xfer = s.xfer /\ t.io = s.io
           /\ t.open = [s.open EXCEPT ![fd] = "closed"]
           /\ t.harm = s.harm \cup (IF s.open[fd] = "other" THEN {"other"} ELSE {})
<1> DEFINE o == [s.open EXCEPT ![fd] = "closed"]
           h == s.harm \cup (IF s.open[fd] = "other" THEN {"other"} ELSE {})
           g == IF s.open[fd] = "other" THEN s.harm \cup {"other"} ELSE s.harm
<1>1. g = h
  OBVIOUS
<1>2. Close(s, fd) = [[s EXCEPT !.open = o] EXCEPT !.harm = g]
  <2>1. fd # None
    BY FdsAssumption
  <2> QED BY <2>1 DEF Close, St
<1>3. /\ o \in [Fds -> {"closed", "ours", "other"}] /\ h \in SUBSET {"freed", "other"}
  BY StIs
<1> HIDE DEF o, h, g
<1>4. [s EXCEPT !.open = o] = Rec(s.xfer, s.io, o, s.harm)
  BY FieldsAre
<1>5. Rec(s.xfer, s.io, o, s.harm) \in St
  BY <1>3, RecIs, StIs
<1>6. Close(s, fd) = Rec(s.xfer, s.io, o, h)
  <2> DEFINE u == Rec(s.xfer, s.io, o, s.harm)
  <2>1. u.xfer = s.xfer /\ u.io = s.io /\ u.open = o
    BY Projected
  <2>2. u \in St
    BY <1>5
  <2> HIDE DEF u
  <2>3. [u EXCEPT !.harm = g] = Rec(u.xfer, u.io, u.open, g)
    BY <2>2, FieldsAre
  <2> QED BY <1>1, <1>2, <1>4, <2>1, <2>3 DEF u
<1>7. Close(s, fd) \in St
  BY <1>3, <1>6, RecIs, StIs
<1> QED BY <1>6, <1>7, Projected DEF o, h

LEMMA HarmEffect ==
    ASSUME NEW s \in St, NEW kind \in {"freed", "other"}
    PROVE  LET t == Harm(s, kind) IN
           /\ t \in St /\ t.xfer = s.xfer /\ t.io = s.io /\ t.open = s.open
           /\ t.harm = s.harm \cup {kind}
<1>1. Harm(s, kind) = [s EXCEPT !.harm = s.harm \cup {kind}]
  BY DEF Harm, St
<1> DEFINE h == s.harm \cup {kind}
<1>2. Harm(s, kind) = Rec(s.xfer, s.io, s.open, h)
  BY <1>1, FieldsAre
<1>3. h \in SUBSET {"freed", "other"}
  BY StIs
<1> HIDE DEF h
<1>4. Harm(s, kind) \in St
  BY <1>2, <1>3, RecIs, StIs
<1> QED BY <1>2, <1>4, Projected DEF h

LEMMA DestroyEffect ==
    ASSUME NEW s \in St, NEW x
    PROVE  LET t == transfer_destroy(s, x) IN
           t \in St /\ t.xfer = Less(s.xfer, {x}) /\ t.io = s.io /\ t.open = s.open /\ t.harm = s.harm
<1>1. transfer_destroy(s, x) = [s EXCEPT !.xfer = Less(s.xfer, {x})]
  BY DEF transfer_destroy, Less, St
<1>2. transfer_destroy(s, x) = Rec(Less(s.xfer, {x}), s.io, s.open, s.harm)
  BY <1>1, FieldsAre
<1>3. Less(s.xfer, {x}) \in Maps(Xfer)
  BY StIs, LessIs
<1> QED BY <1>2, <1>3, Projected, RecIs, StIs

LEMMA PutEffect ==
    ASSUME NEW s \in St, NEW x \in DOMAIN s.xfer, NEW v \in Xfer
    PROVE  LET t == Put(s, x, v) IN
           /\ t \in St /\ t.io = s.io /\ t.open = s.open /\ t.harm = s.harm
           /\ t.xfer = [s.xfer EXCEPT ![x] = v]
<1> DEFINE m == [s.xfer EXCEPT ![x] = v]
<1>1. Put(s, x, v) = [s EXCEPT !.xfer = m]
  BY DEF Put, St
<1>2. m \in Maps(Xfer)
  <2>1. DOMAIN m = DOMAIN s.xfer /\ m \in [DOMAIN m -> Xfer]
    BY StIs
  <2> QED BY <2>1, StIs, MapsAre
<1> HIDE DEF m
<1>3. Put(s, x, v) = Rec(m, s.io, s.open, s.harm)
  BY <1>1, FieldsAre
<1>4. Put(s, x, v) \in St
  BY <1>2, <1>3, RecIs, StIs
<1> QED BY <1>3, <1>4, Projected DEF m

-----------------------------------------------------------------------------
(* What happens to a state that is whole.  Transfers that end:             *)
Ends1(s, X, t) ==
    /\ t \in St /\ t.xfer = Less(s.xfer, X) /\ t.io = Less(s.io, X) /\ t.harm = s.harm
    /\ \A f \in Fds : t.open[f] = IF f \in Socks(s, X) THEN "closed" ELSE s.open[f]

LEMMA EndedWhole ==
    ASSUME NEW s, Fine(s), "freed" \notin s.harm, NEW X \in SUBSET DOMAIN s.xfer,
           NEW t, Ends1(s, X, t)
    PROVE  Whole(s, t)
<1>1. /\ s \in St /\ Linked(s) /\ "other" \notin s.harm
  BY DEF Fine
<1>2. /\ DOMAIN t.xfer = DOMAIN s.xfer \ X /\ DOMAIN t.io = DOMAIN s.io \ X
      /\ \A k \in DOMAIN s.xfer \ X : t.xfer[k] = s.xfer[k]
      /\ \A k \in DOMAIN s.io \ X : t.io[k] = s.io[k]
  BY DEF Ends1, Less
<1>3. /\ DOMAIN s.io = {x \in DOMAIN s.xfer : s.xfer[x].sock # None}
      /\ \A x \in DOMAIN s.io : s.io[x].fd = s.xfer[x].sock /\ s.open[s.xfer[x].sock] = "ours"
      /\ \A x, y \in DOMAIN s.io : s.xfer[x].sock = s.xfer[y].sock => x = y
  BY <1>1 DEF Linked
<1>4. \A x \in DOMAIN s.io : s.io[x].fd \in Fds
  BY <1>1, StIs DEF Src
<1>5. \A x \in DOMAIN s.io \ X : s.xfer[x].sock \notin Socks(s, X)
  BY <1>3 DEF Socks
<1>6. Linked(t)
  <2>1. DOMAIN t.io = {x \in DOMAIN t.xfer : t.xfer[x].sock # None}
    BY <1>2, <1>3
  <2>2. \A x \in DOMAIN t.io : t.io[x].fd = t.xfer[x].sock /\ t.open[t.xfer[x].sock] = "ours"
    BY <1>2, <1>3, <1>4, <1>5 DEF Ends1
  <2>3. \A x, y \in DOMAIN t.io : t.xfer[x].sock = t.xfer[y].sock => x = y
    BY <1>2, <1>3
  <2> QED BY <2>1, <2>2, <2>3 DEF Linked
<1>7. ASSUME Watched(s) PROVE Watched(t)
  <2> SUFFICES ASSUME NEW f \in Fds, t.open[f] = "ours"
               PROVE  \E x \in DOMAIN t.io : t.io[x].fd = f
    BY DEF Watched
  <2>1. s.open[f] = "ours" /\ f \notin Socks(s, X)
    BY DEF Ends1
  <2>2. PICK x \in DOMAIN s.io : s.io[x].fd = f
    BY <1>7, <2>1 DEF Watched
  <2>3. x \notin X
    BY <1>3, <2>1, <2>2 DEF Socks
  <2> QED BY <1>2, <2>2, <2>3
<1> QED BY <1>1, <1>6, <1>7 DEF Whole, Fine, Ends1

(* a transfer of which only numbers change:                                *)
LEMMA PutWhole ==
    ASSUME NEW s, Fine(s), "freed" \notin s.harm, NEW x \in DOMAIN s.xfer,
           NEW v \in Xfer, v.sock = s.xfer[x].sock
    PROVE  LET t == Put(s, x, v) IN
           Whole(s, t) /\ t.harm = s.harm /\ t.io = s.io /\ t.open = s.open /\ t.xfer[x] = v
                       /\ DOMAIN t.xfer = DOMAIN s.xfer
<1> DEFINE t == Put(s, x, v)
<1>1. s \in St /\ Linked(s) /\ "other" \notin s.harm
  BY DEF Fine
<1>2. /\ t \in St /\ t.io = s.io /\ t.open = s.open /\ t.harm = s.harm
      /\ t.xfer = [s.xfer EXCEPT ![x] = v]
  BY <1>1, PutEffect
<1> HIDE DEF t
<1>3. /\ DOMAIN t.xfer = DOMAIN s.xfer /\ t.xfer[x] = v
      /\ \A k \in DOMAIN s.xfer : t.xfer[k].sock = s.xfer[k].sock
  BY <1>2
<1>4. Linked(t)
  BY <1>1, <1>2, <1>3 DEF Linked
<1>5. Watched(s) => Watched(t)
  BY <1>2 DEF Watched
<1>6. Whole(s, t)
  BY <1>1, <1>2, <1>4, <1>5 DEF Whole, Fine
<1> QED BY <1>2, <1>3, <1>6 DEF t

(* memory that was freed is used:                                          *)
LEMMA FreedWhole ==
    ASSUME NEW s, Fine(s) PROVE Whole(s, Harm(s, "freed"))
<1>1. s \in St /\ "other" \notin s.harm
  BY DEF Fine
<1>2. LET t == Harm(s, "freed") IN t \in St /\ t.harm = s.harm \cup {"freed"}
  BY <1>1, HarmEffect
<1> QED BY <1>1, <1>2 DEF Whole, Fine

(* a transfer gets a descriptor, and the source with it:                   *)
Attaches(s, x, f, t) ==
    /\ t \in St /\ t.harm = s.harm /\ DOMAIN t.xfer = DOMAIN s.xfer
    /\ t.xfer[x].sock = f /\ \A k \in DOMAIN s.xfer : k # x => t.xfer[k] = s.xfer[k]
    /\ \E cb \in Callbacks : t.io = With(s.io, x, [callback |-> cb, fd |-> f])

LEMMA AttachedFine ==
    ASSUME NEW s, Fine(s), "freed" \notin s.harm, NEW x \in DOMAIN s.xfer,
           NEW f \in Free(s), NEW t, Attaches(s, x, f, t),
           t.open[f] = "ours", \A g \in Fds : g # f /\ g # s.xfer[x].sock => t.open[g] = s.open[g]
    PROVE  /\ Fine(t) /\ Linked(t)
           /\ (s.xfer[x].sock = None \/ t.open[s.xfer[x].sock] # "ours") => Whole(s, t)
<1>1. /\ s \in St /\ Linked(s) /\ "other" \notin s.harm /\ f \in Fds /\ s.open[f] = "closed"
  BY DEF Fine, Free
<1>2. x \in Xfers /\ f # None
  BY <1>1, StIs, FdsAssumption
<1>3. PICK cb \in Callbacks : t.io = With(s.io, x, [callback |-> cb, fd |-> f])
  BY DEF Attaches
<1>5. /\ DOMAIN t.io = DOMAIN s.io \cup {x} /\ t.io[x].fd = f
      /\ \A k \in DOMAIN s.io : k # x => t.io[k] = s.io[k]
  <2> DEFINE v == [callback |-> cb, fd |-> f]
  <2>1. v.fd = f /\ t.io = With(s.io, x, v)
    BY <1>3
  <2> HIDE DEF v
  <2> QED BY <2>1 DEF With
<1>6. /\ DOMAIN s.io = {k \in DOMAIN s.xfer : s.xfer[k].sock # None}
      /\ \A k \in DOMAIN s.io : s.io[k].fd = s.xfer[k].sock /\ s.open[s.xfer[k].sock] = "ours"
      /\ \A k, j \in DOMAIN s.io : s.xfer[k].sock = s.xfer[j].sock => k = j
  BY <1>1 DEF Linked
<1>7. \A k \in DOMAIN s.io : s.xfer[k].sock \in Fds /\ s.xfer[k].sock # f
  <2>1. \A k \in DOMAIN s.io : s.io[k].fd \in Fds
    BY <1>1, StIs DEF Src
  <2> QED BY <1>1, <1>6, <2>1
<1>8. \A k \in DOMAIN s.io : k # x => s.xfer[k].sock # s.xfer[x].sock
  BY <1>6
<1>9. Linked(t)
  <2>1. DOMAIN t.io = {k \in DOMAIN t.xfer : t.xfer[k].sock # None}
    <3>1. DOMAIN t.xfer = DOMAIN s.xfer /\ t.xfer[x].sock = f
      BY DEF Attaches
    <3>2. \A k \in DOMAIN s.xfer : k # x => t.xfer[k] = s.xfer[k]
      BY DEF Attaches
    <3>3. \A k \in DOMAIN s.xfer : k \in DOMAIN t.io <=> t.xfer[k].sock # None
      BY <1>2, <1>5, <1>6, <3>1, <3>2
    <3>4. DOMAIN t.io \subseteq DOMAIN s.xfer
      BY <1>5, <1>6
    <3> QED BY <3>1, <3>3, <3>4
  <2>2. \A k \in DOMAIN t.io : t.io[k].fd = t.xfer[k].sock
    BY <1>2, <1>5, <1>6 DEF Attaches
  <2>3. \A k \in DOMAIN t.io : t.open[t.xfer[k].sock] = "ours"
    <3> TAKE k \in DOMAIN t.io
    <3>1. CASE k = x
      BY <3>1 DEF Attaches
    <3>2. CASE k # x
      BY <1>5, <1>6, <1>7, <1>8, <3>2 DEF Attaches
    <3> QED BY <3>1, <3>2
  <2>4. \A k, j \in DOMAIN t.io : t.xfer[k].sock = t.xfer[j].sock => k = j
    BY <1>5, <1>6, <1>7 DEF Attaches
  <2> QED BY <2>1, <2>2, <2>3, <2>4 DEF Linked
<1>10. Fine(t)
  BY <1>1, <1>9 DEF Fine, Attaches
<1>11. ASSUME s.xfer[x].sock = None \/ t.open[s.xfer[x].sock] # "ours", Watched(s)
       PROVE  Watched(t)
  <2> SUFFICES ASSUME NEW g \in Fds, t.open[g] = "ours"
               PROVE  \E k \in DOMAIN t.io : t.io[k].fd = g
    BY DEF Watched
  <2>1. CASE g = f
    BY <1>5, <2>1
  <2>2. CASE g # f
    <3>1. g # s.xfer[x].sock
      BY <1>11, FdsAssumption
    <3>2. s.open[g] = "ours"
      BY <2>2, <3>1
    <3>3. PICK k \in DOMAIN s.io : s.io[k].fd = g
      BY <1>11, <3>2 DEF Watched
    <3>4. k # x
      BY <1>6, <3>1, <3>3
    <3> QED BY <1>5, <3>3, <3>4
  <2> QED BY <2>1, <2>2
<1> QED BY <1>9, <1>10, <1>11 DEF Whole

-----------------------------------------------------------------------------
(* The ends of a transfer.  Some close its descriptor more than once.      *)
LEMMA CloseSock ==
    ASSUME NEW s \in St, NEW fd \in Fds \cup {None}, fd \in Fds => s.open[fd] # "other"
    PROVE  LET t == Close(s, fd) IN
           /\ t \in St /\ t.xfer = s.xfer /\ t.io = s.io /\ t.harm = s.harm
           /\ \A f \in Fds : t.open[f] = IF f = fd THEN "closed" ELSE s.open[f]
<1>1. CASE fd = None
  BY <1>1, FdsAssumption DEF Close
<1>2. CASE fd \in Fds
  <2>1. LET t == Close(s, fd) IN
        /\ t \in St /\ t.xfer = s.xfer /\ t.io = s.io
        /\ t.open = [s.open EXCEPT ![fd] = "closed"] /\ t.harm = s.harm \cup {}
    BY <1>2, CloseEffect
  <2> QED BY <1>2, <2>1, StIs
<1> QED BY <1>1, <1>2

(* u is a state on the way to the end of transfer x of s.                  *)
Ending(s, x, u) ==
    /\ u \in St /\ u.xfer = s.xfer /\ Less(u.io, {x}) = Less(s.io, {x}) /\ u.harm = s.harm
    /\ \A f \in Fds : f # s.xfer[x].sock => u.open[f] = s.open[f]
    /\ s.xfer[x].sock \in Fds => u.open[s.xfer[x].sock] # "other"

LEMMA SockIs ==
    ASSUME NEW s, Fine(s), "freed" \notin s.harm, NEW x \in DOMAIN s.xfer
    PROVE  /\ s.xfer[x] \in Xfer /\ s.xfer[x].sock \in Fds \cup {None} /\ x \in Xfers
           /\ s.xfer[x].sock \in Fds => s.open[s.xfer[x].sock] = "ours"
<1>1. s \in St /\ Linked(s)
  BY DEF Fine
<1>2. s.xfer[x] \in Xfer /\ x \in Xfers
  BY <1>1, StIs
<1>3. s.xfer[x].sock \in Fds \cup {None}
  BY <1>2 DEF Xfer
<1> QED BY <1>1, <1>2, <1>3, FdsAssumption DEF Linked

LEMMA LessLess == ASSUME NEW f, NEW X PROVE Less(Less(f, X), X) = Less(f, X)
BY DEF Less

LEMMA EndingBegins ==
    ASSUME NEW s, Fine(s), "freed" \notin s.harm, NEW x \in DOMAIN s.xfer
    PROVE  Ending(s, x, s)
BY SockIs DEF Ending, Fine

LEMMA EndingDel ==
    ASSUME NEW s, NEW x, NEW u, Ending(s, x, u)
    PROVE  Ending(s, x, pork_io_del(u, x))
<1> DEFINE t == pork_io_del(u, x)
<1>1. u \in St
  BY DEF Ending
<1>2. t \in St /\ t.xfer = u.xfer /\ t.io = Less(u.io, {x}) /\ t.open = u.open /\ t.harm = u.harm
  BY <1>1, DelEffect
<1> HIDE DEF t
<1>3. Less(t.io, {x}) = Less(u.io, {x})
  BY <1>2, LessLess
<1>4. Ending(s, x, t)
  BY <1>2, <1>3 DEF Ending
<1> QED BY <1>4 DEF t

LEMMA EndingClose ==
    ASSUME NEW s, NEW x, NEW u, Ending(s, x, u), s.xfer[x].sock \in Fds \cup {None}
    PROVE  /\ Ending(s, x, Close(u, s.xfer[x].sock))
           /\ s.xfer[x].sock \in Fds => Close(u, s.xfer[x].sock).open[s.xfer[x].sock] = "closed"
<1> DEFINE fd == s.xfer[x].sock
           t == Close(u, fd)
<1>1. u \in St /\ (fd \in Fds => u.open[fd] # "other") /\ fd \in Fds \cup {None}
  BY DEF Ending
<1> HIDE DEF fd
<1>2. /\ t \in St /\ t.xfer = u.xfer /\ t.io = u.io /\ t.harm = u.harm
      /\ \A f \in Fds : t.open[f] = IF f = fd THEN "closed" ELSE u.open[f]
  BY <1>1, CloseSock
<1> HIDE DEF t
<1>3. Ending(s, x, t)
  BY <1>2 DEF Ending, fd
<1> QED BY <1>2, <1>3 DEF t, fd

LEMMA EndingEnds ==
    ASSUME NEW s, NEW x, NEW u, Ending(s, x, u), Less(u.io, {x}) = u.io,
           s.xfer[x].sock \in Fds => u.open[s.xfer[x].sock] = "closed"
    PROVE  Ends1(s, {x}, transfer_destroy(u, x))
<1> DEFINE t == transfer_destroy(u, x)
<1>1. u \in St
  BY DEF Ending
<1>2. t \in St /\ t.xfer = Less(u.xfer, {x}) /\ t.io = u.io /\ t.open = u.open /\ t.harm = u.harm
  BY <1>1, DestroyEffect
<1> HIDE DEF t
<1>3. \A f \in Fds : t.open[f] = IF f \in Socks(s, {x}) THEN "closed" ELSE s.open[f]
  BY <1>2, FdsAssumption DEF Ending, Socks
<1>4. Ends1(s, {x}, t)
  BY <1>2, <1>3 DEF Ends1, Ending
<1> QED BY <1>4 DEF t

LEMMA EndingAborts ==
    ASSUME NEW s, NEW x \in DOMAIN s.xfer, NEW u, Ending(s, x, u),
           s.xfer[x].sock \in Fds \cup {None}
    PROVE  Ends1(s, {x}, transfer_abort(u, x))
<1> DEFINE d == pork_io_del(u, x)
           t == Close(d, s.xfer[x].sock)
<1>1. u \in St /\ u.xfer = s.xfer
  BY DEF Ending
<1>2. Ending(s, x, d) /\ d.io = Less(u.io, {x})
  BY <1>1, EndingDel, DelEffect
<1>3. d \in St
  BY <1>2 DEF Ending
<1>4. transfer_abort(u, x) = transfer_destroy(t, x)
  BY <1>1 DEF transfer_abort, irc_file_abort, Listed
<1> HIDE DEF d
<1>5. Ending(s, x, t) /\ t.io = d.io
  <2>1. s.xfer[x].sock \in Fds => d.open[s.xfer[x].sock] # "other"
    BY <1>2 DEF Ending
  <2> DEFINE fd == s.xfer[x].sock
  <2>2. fd \in Fds \cup {None} /\ (fd \in Fds => d.open[fd] # "other")
    BY <2>1
  <2> HIDE DEF fd
  <2>3. Close(d, fd).io = d.io
    BY <1>3, <2>2, CloseSock
  <2> QED BY <1>2, <2>3, EndingClose DEF fd
<1> HIDE DEF t
<1>6. Less(t.io, {x}) = t.io
  BY <1>2, <1>5, LessLess
<1>7. s.xfer[x].sock \in Fds => t.open[s.xfer[x].sock] = "closed"
  BY <1>2, EndingClose DEF t
<1> QED BY <1>4, <1>5, <1>6, <1>7, EndingEnds

(* transfer_abort, alone and after a callback has closed the descriptor,   *)
(* and the completion of a transfer.                                       *)
LEMMA AbortWhole ==
    ASSUME NEW s, Fine(s), "freed" \notin s.harm, NEW x \in DOMAIN s.xfer
    PROVE  LET fd == s.xfer[x].sock IN
           /\ Ends1(s, {x}, transfer_abort(s, x))
           /\ Ends1(s, {x}, transfer_abort(Close(s, fd), x))
           /\ Ends1(s, {x}, Ends(s, x, fd, transfer_abort))
           /\ Ends1(s, {x}, Ends(s, x, fd, transfer_destroy))
<1> DEFINE fd == s.xfer[x].sock
<1>1. fd \in Fds \cup {None} /\ Ending(s, x, s)
  BY SockIs, EndingBegins
<1>2. Ending(s, x, Close(s, fd))
  BY <1>1, EndingClose
<1> DEFINE d == pork_io_del(s, x)
           c == Close(d, fd)
<1>3. Ending(s, x, d) /\ d.io = Less(s.io, {x})
  <2>1. s \in St
    BY DEF Fine
  <2>2. Ending(s, x, d)
    BY <1>1, EndingDel
  <2> QED BY <2>1, <2>2, DelEffect
<1> HIDE DEF d
<1>4. Ending(s, x, c) /\ (fd \in Fds => c.open[fd] = "closed")
  BY <1>1, <1>3, EndingClose
<1>5. c.io = d.io
  <2>1. d \in St /\ (fd \in Fds => d.open[fd] # "other")
    BY <1>3 DEF Ending
  <2> HIDE DEF fd
  <2> QED BY <1>1, <2>1, CloseSock
<1>6. Ends(s, x, fd, transfer_abort) = transfer_abort(c, x)
  BY DEF Ends, d
<1>7. Ends(s, x, fd, transfer_destroy) = transfer_destroy(c, x)
  BY DEF Ends, d
<1> HIDE DEF c
<1>8. Less(c.io, {x}) = c.io
  BY <1>3, <1>5, LessLess
<1>9. Ends1(s, {x}, transfer_abort(s, x)) /\ Ends1(s, {x}, transfer_abort(c, x))
  BY <1>1, <1>4, EndingAborts
<1>10. Ends1(s, {x}, transfer_abort(Close(s, fd), x))
  BY <1>1, <1>2, EndingAborts
<1>11. Ends1(s, {x}, transfer_destroy(c, x))
  BY <1>4, <1>8, EndingEnds
<1> QED BY <1>6, <1>7, <1>9, <1>10, <1>11

LEMMA AbortedWhole ==
    ASSUME NEW s, Fine(s), "freed" \notin s.harm, NEW x \in DOMAIN s.xfer,
           NEW t, Ends1(s, {x}, t)
    PROVE  /\ Whole(s, t) /\ x \notin DOMAIN t.xfer /\ "freed" \notin t.harm
           /\ DOMAIN t.xfer = DOMAIN s.xfer \ {x}
<1>1. Whole(s, t)
  BY EndedWhole
<1>2. t.xfer = Less(s.xfer, {x}) /\ t.harm = s.harm
  BY DEF Ends1
<1>3. DOMAIN t.xfer = DOMAIN s.xfer \ {x}
  BY <1>2 DEF Less
<1> QED BY <1>1, <1>2, <1>3

(* A second transfer_abort.                                                *)
LEMMA AbortTwiceWhole ==
    ASSUME NEW s, Fine(s), "freed" \notin s.harm, NEW x \in DOMAIN s.xfer
    PROVE  Whole(s, transfer_abort(transfer_abort(s, x), x))
<1> DEFINE t == transfer_abort(s, x)
<1>1. Ends1(s, {x}, t)
  BY AbortWhole
<1>2. Fine(t) /\ x \notin DOMAIN t.xfer
  BY <1>1, AbortedWhole DEF Whole
<1>3. transfer_abort(t, x) = Harm(t, "freed")
  BY <1>2 DEF transfer_abort, Listed
<1> HIDE DEF t
<1>4. "freed" \in Harm(t, "freed").harm
  <2>1. t \in St
    BY <1>2 DEF Fine
  <2> QED BY <2>1, HarmEffect
<1>5. Fine(Harm(t, "freed"))
  BY <1>2, FreedWhole DEF Whole
<1>6. Whole(s, Harm(t, "freed"))
  BY <1>4, <1>5 DEF Whole
<1> QED BY <1>3, <1>6 DEF t

-----------------------------------------------------------------------------
(* The operators that begin something.                                     *)
Listens(s, x, cb, f) == pork_io_add([Open(s, f) EXCEPT !.xfer[x].sock = f], x, cb, f)

LEMMA ListensAttaches ==
    ASSUME NEW s, Fine(s), "freed" \notin s.harm, NEW x \in DOMAIN s.xfer, NEW f \in Free(s),
           NEW cb \in Callbacks
    PROVE  LET t == Listens(s, x, cb, f) IN
           /\ Fine(t) /\ Linked(t) /\ t.harm = s.harm /\ DOMAIN t.xfer = DOMAIN s.xfer
           /\ s.xfer[x].sock = None => Whole(s, t)
<1> DEFINE v == [s.xfer[x] EXCEPT !.sock = f]
           o == Open(s, f)
           p == Put(o, x, v)
           t == pork_io_add(p, x, cb, f)
<1>1. s \in St /\ s.xfer[x] \in Xfer /\ x \in Xfers /\ f \in Fds
  BY SockIs DEF Fine, Free
<1>2. /\ o \in St /\ o.xfer = s.xfer /\ o.io = s.io /\ o.harm = s.harm
      /\ o.open = [s.open EXCEPT ![f] = "ours"]
  BY <1>1, OpenEffect
<1> HIDE DEF o
<1>3. v \in Xfer /\ v.sock = f
  BY <1>1 DEF Xfer
<1>4. [o EXCEPT !.xfer[x].sock = f] = p
  BY <1>2 DEF Put, St
<1> HIDE DEF v
<1>5. /\ p \in St /\ p.io = s.io /\ p.open = o.open /\ p.harm = s.harm
      /\ p.xfer = [s.xfer EXCEPT ![x] = v]
  BY <1>2, <1>3, PutEffect
<1> HIDE DEF p
<1>6. /\ t \in St /\ t.xfer = p.xfer /\ t.open = o.open /\ t.harm = s.harm
      /\ t.io = With(s.io, x, [callback |-> cb, fd |-> f])
  BY <1>1, <1>5, AddEffect
<1> HIDE DEF t
<1>7. Attaches(s, x, f, t)
  BY <1>3, <1>5, <1>6 DEF Attaches
<1>8. t.open[f] = "ours" /\ \A g \in Fds : g # f => t.open[g] = s.open[g]
  BY <1>1, <1>2, <1>6, StIs
<1>9. Listens(s, x, cb, f) = t
  BY <1>4 DEF Listens, o, t
<1>10. Fine(t) /\ Linked(t) /\ (s.xfer[x].sock = None => Whole(s, t))
  BY <1>7, <1>8, AttachedFine
<1> QED BY <1>6, <1>7, <1>9, <1>10 DEF Attaches

(* irc_file_send_peer_connected.                                           *)
LEMMA PeerConnectedWhole ==
    ASSUME NEW s, Fine(s), "freed" \notin s.harm, NEW x \in DOMAIN s.io,
           NEW t \in PeerConnected(s, x, s.io[x].fd)
    PROVE  Whole(s, t) /\ DOMAIN t.xfer \subseteq DOMAIN s.xfer
<1> DEFINE fd == s.io[x].fd
<1>1. /\ s \in St /\ Linked(s) /\ x \in DOMAIN s.xfer /\ fd = s.xfer[x].sock
      /\ fd # None /\ s.open[fd] = "ours"
  BY DEF Fine, Linked
<1>2. s.xfer[x] \in Xfer /\ x \in Xfers /\ fd \in Fds
  BY <1>1, SockIs
<1> HIDE DEF fd
<1>3. CASE t = transfer_abort(Close(pork_io_del(s, x), fd), x)
  <2>1. t = Ends(s, x, fd, transfer_abort)
    BY <1>3 DEF Ends
  <2>2. Ends1(s, {x}, t)
    BY <1>1, <2>1, AbortWhole
  <2>3. Whole(s, t) /\ DOMAIN t.xfer = DOMAIN s.xfer \ {x}
    BY <1>1, <2>2, AbortedWhole
  <2> QED BY <2>3
<1>4. ASSUME NEW f \in Free(s),
             t = pork_io_add([Open(Close(s, fd), f) EXCEPT !.xfer[x].sock = f,
                                                          !.xfer[x].status = "ACTIVE"],
                             x, "send_ready", f)
      PROVE  Whole(s, t) /\ DOMAIN t.xfer \subseteq DOMAIN s.xfer
  <2> DEFINE v == [s.xfer[x] EXCEPT !.sock = f, !.status = "ACTIVE"]
             c == Close(s, fd)
             o == Open(c, f)
             p == Put(o, x, v)
  <2>1. /\ c \in St /\ c.xfer = s.xfer /\ c.io = s.io /\ c.harm = s.harm
        /\ \A g \in Fds : c.open[g] = IF g = fd THEN "closed" ELSE s.open[g]
    BY <1>1, <1>2, CloseSock
  <2> HIDE DEF c
  <2>2. f \in Fds /\ s.open[f] = "closed" /\ f # fd
    BY <1>1, <1>4 DEF Free
  <2>3. /\ o \in St /\ o.xfer = s.xfer /\ o.io = s.io /\ o.harm = s.harm
        /\ o.open = [c.open EXCEPT ![f] = "ours"]
    BY <2>1, <2>2, OpenEffect
  <2> HIDE DEF o
  <2>4. v \in Xfer /\ v.sock = f
    BY <1>2, <2>2 DEF Xfer
  <2>5. [o EXCEPT !.xfer[x].sock = f, !.xfer[x].status = "ACTIVE"] = p
    <3>1. o.xfer = s.xfer /\ x \in DOMAIN o.xfer /\ o \in St
      BY <1>1, <2>3
    <3>2. [o EXCEPT !.xfer[x].sock = f] = [o EXCEPT !.xfer[x] = [s.xfer[x] EXCEPT !.sock = f]]
      BY <3>1 DEF St
    <3>3. [[o EXCEPT !.xfer[x].sock = f] EXCEPT !.xfer[x].status = "ACTIVE"] = p
      BY <3>1, <3>2 DEF Put, St
    <3> QED BY <3>3
  <2> HIDE DEF v
  <2>6. /\ p \in St /\ p.io = s.io /\ p.open = o.open /\ p.harm = s.harm
        /\ p.xfer = [s.xfer EXCEPT ![x] = v]
    BY <1>1, <2>3, <2>4, PutEffect
  <2>7. t = pork_io_add(p, x, "send_ready", f)
    BY <1>4, <2>5 DEF o, c
  <2> HIDE DEF p
  <2>8. /\ t \in St /\ t.xfer = p.xfer /\ t.open = o.open /\ t.harm = s.harm
        /\ t.io = With(s.io, x, [callback |-> "send_ready", fd |-> f])
    BY <1>2, <2>2, <2>6, <2>7, AddEffect DEF Callbacks
  <2>9. Attaches(s, x, f, t)
    BY <1>1, <2>4, <2>6, <2>8 DEF Attaches, Callbacks
  <2>10. /\ t.open[f] = "ours" /\ t.open[fd] = "closed"
         /\ \A g \in Fds : g # f /\ g # fd => t.open[g] = s.open[g]
    BY <1>2, <2>1, <2>2, <2>3, <2>8, StIs
  <2> QED BY <1>1, <2>8, <2>9, <2>10, AttachedFine DEF Attaches
<1> QED BY <1>3, <1>4 DEF PeerConnected, fd

(* A step that keeps what is whole, and adds no transfer.                  *)
Goes(s, t) == Whole(s, t) /\ DOMAIN t.xfer \subseteq DOMAIN s.xfer

LEMMA AbortTwiceGoes ==
    ASSUME NEW s, Fine(s), "freed" \notin s.harm, NEW x \in DOMAIN s.xfer
    PROVE  LET t == transfer_abort(transfer_abort(s, x), x) IN Goes(s, t) /\ "freed" \in t.harm
<1> DEFINE a == transfer_abort(s, x)
<1>1. Ends1(s, {x}, a)
  BY AbortWhole
<1>2. Fine(a) /\ x \notin DOMAIN a.xfer /\ DOMAIN a.xfer = DOMAIN s.xfer \ {x}
  BY <1>1, AbortedWhole DEF Whole
<1>3. transfer_abort(a, x) = Harm(a, "freed")
  BY <1>2 DEF transfer_abort, Listed
<1> HIDE DEF a
<1>4. a \in St
  BY <1>2 DEF Fine
<1>5. Harm(a, "freed").xfer = a.xfer /\ "freed" \in Harm(a, "freed").harm
  BY <1>4, HarmEffect
<1>6. Whole(s, transfer_abort(a, x))
  BY AbortTwiceWhole DEF a
<1> QED BY <1>2, <1>3, <1>5, <1>6 DEF Goes, a

(* irc_file_send, of a transfer that has no descriptor yet.                *)
LEMMA SendGoes ==
    ASSUME NEW s, Fine(s), "freed" \notin s.harm, NEW x \in DOMAIN s.xfer,
           s.xfer[x].sock = None, NEW t \in irc_file_send(s, x)
    PROVE  Goes(s, t)
<1>1. ASSUME NEW f \in Free(s), t = Listens(s, x, "peer_connected", f)
      PROVE  Goes(s, t)
  <2>1. "peer_connected" \in Callbacks
    BY DEF Callbacks
  <2>2. Whole(s, Listens(s, x, "peer_connected", f))
        /\ DOMAIN Listens(s, x, "peer_connected", f).xfer = DOMAIN s.xfer
    BY <2>1, ListensAttaches
  <2> QED BY <1>1, <2>2 DEF Goes
<1>2. CASE t = transfer_abort(transfer_abort(s, x), x)
  BY <1>2, AbortTwiceGoes
<1>3. t = transfer_abort(transfer_abort(s, x), x)
      \/ \E f \in Free(s) : t = Listens(s, x, "peer_connected", f)
  BY DEF irc_file_send, Listens
<1> QED BY <1>1, <1>2, <1>3

(* irc_file_accept: the transfer may have a descriptor already; then that  *)
(* one is no longer its own.                                               *)
Begins(s, x, t) ==
    /\ Fine(t) /\ DOMAIN t.xfer \subseteq DOMAIN s.xfer
    /\ s.xfer[x].sock = None => Whole(s, t)

LEMMA AcceptBegins ==
    ASSUME NEW s, Fine(s), "freed" \notin s.harm, NEW x \in DOMAIN s.xfer,
           NEW t \in irc_file_accept(s, x)
    PROVE  Begins(s, x, t)
<1>1. s \in St /\ s.xfer[x] \in Xfer /\ x \in Xfers /\ "other" \notin s.harm
  BY SockIs DEF Fine
<1>2. ASSUME NEW f \in Free(s), t = Listens(s, x, "connected", f)
      PROVE  Begins(s, x, t)
  <2>1. "connected" \in Callbacks
    BY DEF Callbacks
  <2> DEFINE u == Listens(s, x, "connected", f)
  <2>2. Fine(u) /\ DOMAIN u.xfer = DOMAIN s.xfer /\ (s.xfer[x].sock = None => Whole(s, u))
    BY <2>1, ListensAttaches
  <2> HIDE DEF u
  <2> QED BY <1>2, <2>2 DEF Begins, u
<1>3. ASSUME t = transfer_abort(transfer_abort([s EXCEPT !.xfer[x].sock = None], x), x)
      PROVE  Begins(s, x, t)
  <2> DEFINE v == [s.xfer[x] EXCEPT !.sock = None]
             p == Put(s, x, v)
             d == pork_io_del(p, x)
             a == transfer_destroy(d, x)
  <2>1. [s EXCEPT !.xfer[x].sock = None] = p
    BY <1>1 DEF Put, St
  <2>2. v \in Xfer /\ v.sock = None
    BY <1>1 DEF Xfer
  <2> HIDE DEF v
  <2>3. /\ p \in St /\ p.harm = s.harm /\ p.xfer = [s.xfer EXCEPT ![x] = v]
    BY <1>1, <2>2, PutEffect
  <2>4. p.xfer[x].sock = None /\ x \in DOMAIN p.xfer /\ DOMAIN p.xfer = DOMAIN s.xfer
    BY <2>2, <2>3
  <2> HIDE DEF p
  <2>5. d \in St /\ d.xfer = p.xfer /\ d.harm = s.harm
    BY <2>3, DelEffect
  <2>6. transfer_abort(p, x) = a
    BY <2>4 DEF transfer_abort, irc_file_abort, Close, Listed
  <2> HIDE DEF d
  <2>7. a \in St /\ a.xfer = Less(d.xfer, {x}) /\ a.harm = s.harm
    BY <2>5, DestroyEffect
  <2> HIDE DEF a
  <2>8. DOMAIN a.xfer = DOMAIN s.xfer \ {x}
    BY <2>4, <2>5, <2>7 DEF Less
  <2>9. transfer_abort(a, x) = Harm(a, "freed")
    BY <2>8 DEF transfer_abort, Listed
  <2>10. t = Harm(a, "freed")
    BY <1>3, <2>1, <2>6, <2>9
  <2>11. t \in St /\ t.xfer = a.xfer /\ t.harm = s.harm \cup {"freed"}
    BY <2>7, <2>10, HarmEffect
  <2>12. Fine(t)
    BY <1>1, <2>11 DEF Fine
  <2> QED BY <2>8, <2>11, <2>12 DEF Begins, Whole
<1>4. t = transfer_abort(transfer_abort([s EXCEPT !.xfer[x].sock = None], x), x)
      \/ \E f \in Free(s) : t = Listens(s, x, "connected", f)
  BY DEF irc_file_accept, Listens
<1> QED BY <1>2, <1>3, <1>4

(* The fields that may be put without harm.                                *)
LEMMA FpGoes ==
    ASSUME NEW s, Fine(s), "freed" \notin s.harm, NEW x \in DOMAIN s.xfer,
           NEW t \in transfer_find_filename(s, x)
    PROVE  /\ Whole(s, t) /\ "freed" \notin t.harm /\ DOMAIN t.xfer = DOMAIN s.xfer
           /\ t.xfer[x].sock = s.xfer[x].sock
<1>1. s \in St /\ s.xfer[x] \in Xfer
  BY SockIs DEF Fine
<1>2. CASE t = s
  BY <1>2 DEF Whole
<1>3. CASE t = [s EXCEPT !.xfer[x].fp = TRUE]
  <2> DEFINE v == [s.xfer[x] EXCEPT !.fp = TRUE]
  <2>1. t = Put(s, x, v)
    BY <1>1, <1>3 DEF Put, St
  <2>2. v \in Xfer /\ v.sock = s.xfer[x].sock
    BY <1>1 DEF Xfer
  <2> HIDE DEF v
  <2>3. LET u == Put(s, x, v) IN
        Whole(s, u) /\ u.harm = s.harm /\ u.xfer[x] = v /\ DOMAIN u.xfer = DOMAIN s.xfer
    BY <2>2, PutWhole
  <2> QED BY <2>1, <2>2, <2>3
<1> QED BY <1>2, <1>3 DEF transfer_find_filename

LEMMA ActivatedGoes ==
    ASSUME NEW s, Fine(s), NEW x
    PROVE  LET t == Activated(s, x) IN
           Fine(t) /\ DOMAIN t.xfer = DOMAIN s.xfer /\ t.harm = s.harm /\ (Watched(s) => Watched(t))
<1> DEFINE t == Activated(s, x)
<1>1. CASE x \notin Listed(s)
  BY <1>1 DEF Activated
<1>2. CASE x \in Listed(s)
  <2> DEFINE v == [s.xfer[x] EXCEPT !.status = "ACTIVE"]
  <2>1. s \in St /\ x \in DOMAIN s.xfer
    BY <1>2 DEF Fine, Listed
  <2>2. s.xfer[x] \in Xfer
    BY <2>1, StIs
  <2>3. t = Put(s, x, v)
    BY <1>2, <2>1 DEF Activated, Put, St
  <2>4. v \in Xfer /\ v.sock = s.xfer[x].sock
    BY <2>2 DEF Xfer
  <2> HIDE DEF v, t
  <2>5. /\ t \in St /\ t.io = s.io /\ t.open = s.open /\ t.harm = s.harm
        /\ t.xfer = [s.xfer EXCEPT ![x] = v]
    BY <2>1, <2>3, <2>4, PutEffect
  <2>6. Watched(s) => Watched(t)
    BY <2>5 DEF Watched
  <2>7. DOMAIN t.xfer = DOMAIN s.xfer /\ \A k \in DOMAIN s.xfer : t.xfer[k].sock = s.xfer[k].sock
    BY <2>4, <2>5
  <2>8. Linked(s) => Linked(t)
    BY <2>5, <2>7 DEF Linked
  <2> QED BY <2>5, <2>6, <2>7, <2>8 DEF Fine, t
<1> QED BY <1>1, <1>2

LEMMA GetBegins ==
    ASSUME NEW s, Fine(s), "freed" \notin s.harm, NEW x \in DOMAIN s.xfer,
           NEW t \in transfer_get(s, x)
    PROVE  Begins(s, x, t)
<1>1. PICK u \in transfer_find_filename(s, x) : \E w \in irc_file_accept(u, x) : t = Activated(w, x)
  BY DEF transfer_get
<1>2. PICK w \in irc_file_accept(u, x) : t = Activated(w, x)
  BY <1>1
<1>3. /\ Whole(s, u) /\ "freed" \notin u.harm /\ DOMAIN u.xfer = DOMAIN s.xfer
      /\ u.xfer[x].sock = s.xfer[x].sock
  BY FpGoes
<1>4. Fine(u)
  BY <1>3 DEF Whole
<1>5. Begins(u, x, w)
  BY <1>3, <1>4, AcceptBegins
<1>6. Fine(t) /\ DOMAIN t.xfer = DOMAIN w.xfer /\ t.harm = w.harm /\ (Watched(w) => Watched(t))
  BY <1>2, <1>5, ActivatedGoes DEF Begins
<1>7. ASSUME s.xfer[x].sock = None PROVE Whole(s, t)
  BY <1>3, <1>5, <1>6, <1>7 DEF Begins, Whole
<1> QED BY <1>3, <1>5, <1>6, <1>7 DEF Begins

-----------------------------------------------------------------------------
(* The operators that move data.                                           *)
LEMMA Ends1Goes ==
    ASSUME NEW s, Fine(s), "freed" \notin s.harm, NEW x \in DOMAIN s.xfer,
           NEW t, Ends1(s, {x}, t)
    PROVE  Goes(s, t)
<1>1. Whole(s, t) /\ DOMAIN t.xfer = DOMAIN s.xfer \ {x}
  BY AbortedWhole
<1> QED BY <1>1 DEF Goes

LEMMA PutGoes ==
    ASSUME NEW s, Fine(s), "freed" \notin s.harm, NEW x \in DOMAIN s.xfer,
           NEW v \in Xfer, v.sock = s.xfer[x].sock
    PROVE  LET t == Put(s, x, v) IN
           Goes(s, t) /\ Fine(t) /\ t.harm = s.harm /\ t.io = s.io /\ t.xfer[x] = v
                      /\ DOMAIN t.xfer = DOMAIN s.xfer
BY PutWhole DEF Goes, Whole

LEMMA ResumeGoes ==
    ASSUME NEW s, Fine(s), "freed" \notin s.harm, NEW x \in DOMAIN s.xfer, NEW offset \in Nat
    PROVE  Goes(s, transfer_resume(s, x, offset))
<1> DEFINE t == transfer_resume(s, x, offset)
<1>1. s \in St /\ s.xfer[x] \in Xfer
  BY SockIs DEF Fine
<1>2. CASE s.xfer[x].fp /\ offset < s.xfer[x].len
  <2> DEFINE v == [s.xfer[x] EXCEPT !.start = offset, !.pos = offset, !.resumed = TRUE]
  <2>1. v \in Xfer /\ v.sock = s.xfer[x].sock
    BY <1>1 DEF Xfer
  <2>2. t = Put(s, x, v)
    <3>1. t = [s EXCEPT !.xfer[x].start = offset, !.xfer[x].pos = offset, !.xfer[x].resumed = TRUE]
      BY <1>2 DEF transfer_resume
    <3>2. [s EXCEPT !.xfer[x].start = offset] = Put(s, x, [s.xfer[x] EXCEPT !.start = offset])
      BY <1>1 DEF Put, St
    <3>3. [Put(s, x, [s.xfer[x] EXCEPT !.start = offset]) EXCEPT !.xfer[x].pos = offset]
             = Put(s, x, [s.xfer[x] EXCEPT !.start = offset, !.pos = offset])
      BY <1>1 DEF Put, St
    <3>4. [Put(s, x, [s.xfer[x] EXCEPT !.start = offset, !.pos = offset]) EXCEPT !.xfer[x].resumed = TRUE]
             = Put(s, x, v)
      BY <1>1 DEF Put, St
    <3> QED BY <3>1, <3>2, <3>3, <3>4
  <2> HIDE DEF v
  <2> QED BY <2>1, <2>2, PutGoes
<1>3. CASE ~(s.xfer[x].fp /\ offset < s.xfer[x].len)
  <2>1. t = transfer_abort(s, x)
    BY <1>3 DEF transfer_resume
  <2>2. Ends1(s, {x}, t)
    BY <2>1, AbortWhole
  <2> QED BY <2>2, Ends1Goes
<1> QED BY <1>2, <1>3

LEMMA FreedGoes ==
    ASSUME NEW s, Fine(s) PROVE Goes(s, Harm(s, "freed"))
<1>1. s \in St
  BY DEF Fine
<1>2. Harm(s, "freed").xfer = s.xfer
  BY <1>1, HarmEffect
<1> QED BY <1>2, FreedWhole DEF Goes

LEMMA GoesGoes ==
    ASSUME NEW s, NEW t, NEW u, Goes(s, t), "freed" \notin t.harm, Goes(t, u),
           "freed" \notin s.harm
    PROVE  Goes(s, u)
BY DEF Goes, Whole

LEMMA ReceivedGoes ==
    ASSUME NEW s, Fine(s), "freed" \notin s.harm, NEW x \in DOMAIN s.xfer, NEW n \in Nat, NEW fd
    PROVE  Goes(s, Received(s, x, fd, n))
<1> DEFINE v == [s.xfer[x] EXCEPT !.sent = @ + n]
           t == Put(s, x, v)
           u == Ends(t, x, s.xfer[x].sock, transfer_destroy)
<1>1. s \in St /\ s.xfer[x] \in Xfer
  BY SockIs DEF Fine
<1>2. v \in Xfer /\ v.sock = s.xfer[x].sock
  BY <1>1 DEF Xfer
<1>3. [s EXCEPT !.xfer[x].sent = @ + n] = t
  BY <1>1 DEF Put, St
<1> HIDE DEF v
<1>4. /\ Goes(s, t) /\ Fine(t) /\ t.harm = s.harm /\ t.xfer[x] = v
      /\ DOMAIN t.xfer = DOMAIN s.xfer
  BY <1>2, PutGoes
<1>5. Received(s, x, fd, n) \in {u, t}
  BY <1>3 DEF Received
<1> HIDE DEF t
<1>6. t.xfer[x].sock = s.xfer[x].sock
  BY <1>2, <1>4
<1>7. Ends1(t, {x}, u)
  BY <1>4, <1>6, AbortWhole
<1> HIDE DEF u
<1>8. Goes(t, u)
  BY <1>4, <1>7, Ends1Goes
<1> QED BY <1>4, <1>5, <1>8, GoesGoes

LEMMA RecvGoes ==
    ASSUME NEW s, Fine(s), "freed" \notin s.harm, NEW x \in DOMAIN s.xfer, NEW fd,
           NEW t \in transfer_recv_data(s, x, fd)
    PROVE  Goes(s, t)
<1>1. \/ t = transfer_abort(s, x) \/ t = transfer_abort(Close(s, s.xfer[x].sock), x)
      \/ t = Harm(s, "freed") \/ \E n \in 1 .. 2 : t = Received(s, x, fd, n)
  BY DEF transfer_recv_data
<1>2. CASE t = transfer_abort(s, x) \/ t = transfer_abort(Close(s, s.xfer[x].sock), x)
  <2>1. Ends1(s, {x}, t)
    BY <1>2, AbortWhole
  <2> QED BY <2>1, Ends1Goes
<1>3. CASE t = Harm(s, "freed")
  BY <1>3, FreedGoes
<1>4. ASSUME NEW n \in 1 .. 2, t = Received(s, x, fd, n) PROVE Goes(s, t)
  BY <1>4, ReceivedGoes
<1> QED BY <1>1, <1>2, <1>3, <1>4

LEMMA ConnectedGoes ==
    ASSUME NEW s, Fine(s), "freed" \notin s.harm, NEW x \in DOMAIN s.io
    PROVE  Goes(s, pork_io_add(s, x, "recv_data", s.io[x].fd))
<1> DEFINE f == s.io[x].fd
           v == [callback |-> "recv_data", fd |-> f]
           t == pork_io_add(s, x, "recv_data", f)
<1>1. s \in St /\ Linked(s) /\ "other" \notin s.harm
  BY DEF Fine
<1>2. x \in DOMAIN s.xfer /\ f = s.xfer[x].sock /\ f # None
  BY <1>1 DEF Linked
<1>3. f \in Fds /\ x \in Xfers
  BY <1>2, SockIs
<1>4. "recv_data" \in Callbacks
  BY DEF Callbacks
<1>5. v.fd = f
  OBVIOUS
<1> HIDE DEF f
<1>6. /\ t \in St /\ t.xfer = s.xfer /\ t.open = s.open /\ t.harm = s.harm
      /\ t.io = With(s.io, x, v)
  BY <1>1, <1>3, <1>4, AddEffect
<1> HIDE DEF t, v
<1>7. DOMAIN t.io = DOMAIN s.io /\ \A k \in DOMAIN s.io : t.io[k].fd = s.io[k].fd
  BY <1>5, <1>6 DEF With, f
<1>8. Linked(t)
  BY <1>1, <1>6, <1>7 DEF Linked
<1>9. Watched(s) => Watched(t)
  BY <1>6, <1>7 DEF Watched
<1>10. Goes(s, t)
  BY <1>1, <1>6, <1>8, <1>9 DEF Goes, Whole, Fine
<1> QED BY <1>10 DEF t, f

(* irc_file_send_ready.  What it writes:                                   *)
LEMMA SentGoes ==
    ASSUME NEW s, Fine(s), "freed" \notin s.harm, NEW x \in DOMAIN s.xfer, NEW t \in Sent(s, x)
    PROVE  /\ Goes(s, t)
           /\ \/ "freed" \in t.harm /\ x \notin DOMAIN t.xfer
              \/ "freed" \notin t.harm /\ x \in DOMAIN t.xfer /\ t.xfer[x].sock = s.xfer[x].sock
<1> DEFINE r == s.xfer[x]
           v == [r EXCEPT !.sent = @ + 1, !.pos = @ + 1,
                          !.status = IF r.sent + 1 + r.start >= r.len THEN "COMPLETE" ELSE @]
           w == Put(s, x, v)
           a == transfer_abort(s, x)
<1>1. s \in St /\ r \in Xfer
  BY SockIs DEF Fine
<1>2. t \in {s, Harm(a, "freed"), w}
  <2> HIDE DEF v
  <2>1. [s EXCEPT !.xfer[x] = v] = w
    BY DEF Put
  <2> QED BY <2>1 DEF Sent, v
<1>3. CASE t = s
  BY <1>3 DEF Goes, Whole
<1>4. CASE t = Harm(a, "freed")
  <2>1. Ends1(s, {x}, a)
    BY AbortWhole
  <2> HIDE DEF a
  <2>2. Goes(s, a) /\ Fine(a) /\ "freed" \notin a.harm /\ x \notin DOMAIN a.xfer
    BY <2>1, AbortedWhole, Ends1Goes DEF Whole
  <2>3. Goes(a, t)
    BY <1>4, <2>2, FreedGoes
  <2>4. Goes(s, t)
    BY <2>2, <2>3, GoesGoes
  <2>5. t.xfer = a.xfer /\ "freed" \in t.harm
    <3>1. a \in St
      BY <2>2 DEF Fine
    <3> QED BY <1>4, <3>1, HarmEffect
  <2> QED BY <2>2, <2>4, <2>5
<1>5. CASE t = w
  <2> DEFINE now == IF r.sent + 1 + r.start >= r.len THEN "COMPLETE" ELSE r.status
             n == r.sent + 1
             m == r.pos + 1
  <2>3. now \in {"WAITING", "ACTIVE", "COMPLETE"} /\ n \in Nat /\ m \in Nat
    BY <1>1 DEF Xfer
  <2>4. v = [r EXCEPT !.sent = n, !.pos = m, !.status = now]
    <3>1. DOMAIN r = DOMAIN r /\ r \in Xfer
      BY <1>1
    <3> HIDE DEF r
    <3> QED BY <3>1 DEF Xfer
  <2>1. v \in Xfer /\ v.sock = r.sock
    <3> HIDE DEF now, n, m, v
    <3> QED BY <1>1, <2>3, <2>4 DEF Xfer
  <2> HIDE DEF v
  <2>2. Goes(s, w) /\ w.harm = s.harm /\ w.xfer[x] = v /\ DOMAIN w.xfer = DOMAIN s.xfer
    BY <2>1, PutGoes
  <2> QED BY <1>5, <2>1, <2>2
<1> QED BY <1>2, <1>3, <1>4, <1>5

LEMMA WrittenGoes ==
    ASSUME NEW s, Fine(s), "freed" \notin s.harm, NEW x \in DOMAIN s.xfer,
           NEW t \in Written(s, x, s.xfer[x].sock)
    PROVE  Goes(s, t)
<1>1. PICK u \in Sent(s, x) :
         t = IF x \in Listed(u) /\ SentAll(u.xfer[x])
             THEN Ends(u, x, s.xfer[x].sock, transfer_destroy) ELSE u
  BY DEF Written
<1>2. Goes(s, u)
  BY SentGoes
<1>3. CASE t = u
  BY <1>2, <1>3
<1>4. CASE t # u
  <2>1. x \in DOMAIN u.xfer /\ t = Ends(u, x, s.xfer[x].sock, transfer_destroy)
    BY <1>1, <1>4 DEF Listed
  <2>2. "freed" \notin u.harm /\ u.xfer[x].sock = s.xfer[x].sock
    BY <2>1, SentGoes
  <2>3. Fine(u)
    BY <1>2 DEF Goes, Whole
  <2>4. Ends1(u, {x}, t)
    BY <2>1, <2>2, <2>3, AbortWhole
  <2>5. Goes(u, t)
    BY <2>1, <2>2, <2>3, <2>4, Ends1Goes
  <2> QED BY <1>2, <2>2, <2>5, GoesGoes
<1> QED BY <1>3, <1>4

(* what it reads:                                                          *)
LEMMA AckedGoes ==
    ASSUME NEW s, Fine(s), "freed" \notin s.harm, NEW x \in DOMAIN s.xfer, NEW t \in Acked(s, x)
    PROVE  /\ Goes(s, t) /\ Fine(t) /\ "freed" \notin t.harm /\ x \in DOMAIN t.xfer
           /\ t.xfer[x].sock = s.xfer[x].sock
<1>1. s \in St /\ s.xfer[x] \in Xfer
  BY SockIs DEF Fine
<1>2. PICK n \in Acks(s.xfer[x]) : t = [s EXCEPT !.xfer[x].ack = n]
  BY DEF Acked
<1>3. n \in Nat
  <2>1. s.xfer[x].ack \in Nat /\ s.xfer[x].pos \in Nat
    BY <1>1 DEF Xfer
  <2>2. PICK m \in (s.xfer[x].ack + 1) .. s.xfer[x].pos : n = m % AckLimit
    BY DEF Acks
  <2>3. m \in Nat /\ AckLimit \in Nat \ {0}
    BY <2>1, <2>2, BoundAssumption
  <2> QED BY <2>2, <2>3
<1> DEFINE v == [s.xfer[x] EXCEPT !.ack = n]
           u == Put(s, x, v)
<1>4. t = u
  BY <1>1, <1>2 DEF Put, St
<1>5. v \in Xfer /\ v.sock = s.xfer[x].sock
  BY <1>1, <1>3 DEF Xfer
<1> HIDE DEF v
<1>6. /\ Goes(s, u) /\ Fine(u) /\ u.harm = s.harm /\ u.xfer[x] = v
      /\ DOMAIN u.xfer = DOMAIN s.xfer
  BY <1>5, PutGoes
<1> QED BY <1>4, <1>5, <1>6

LEMMA ReadyGoes ==
    ASSUME NEW s, Fine(s), "freed" \notin s.harm, NEW x \in DOMAIN s.io,
           NEW t \in irc_file_send_ready(s, x, s.io[x].fd)
    PROVE  Goes(s, t)
<1> DEFINE fd == s.io[x].fd
<1>1. x \in DOMAIN s.xfer /\ fd = s.xfer[x].sock
  BY DEF Fine, Linked
<1> HIDE DEF fd
<1>2. CASE t = Ends(s, x, fd, transfer_abort)
  <2>1. Ends1(s, {x}, t)
    BY <1>1, <1>2, AbortWhole
  <2> QED BY <1>1, <2>1, Ends1Goes
<1>3. CASE t \in Acked(s, x)
  BY <1>1, <1>3, AckedGoes
<1>4. CASE t \in Written(s, x, fd)
  BY <1>1, <1>4, WrittenGoes
<1>5. ASSUME NEW u \in Acked(s, x), t \in Written(u, x, fd) PROVE Goes(s, t)
  <2>1. /\ Goes(s, u) /\ Fine(u) /\ "freed" \notin u.harm /\ x \in DOMAIN u.xfer
        /\ u.xfer[x].sock = fd
    BY <1>1, AckedGoes
  <2>2. Goes(u, t)
    BY <1>5, <2>1, WrittenGoes
  <2> QED BY <2>1, <2>2, GoesGoes
<1>6. \/ t = Ends(s, x, fd, transfer_abort) \/ t \in Acked(s, x) \/ t \in Written(s, x, fd)
      \/ \E u \in Acked(s, x) : t \in Written(u, x, fd)
  BY DEF irc_file_send_ready, Served, fd
<1> QED BY <1>2, <1>3, <1>4, <1>5, <1>6

-----------------------------------------------------------------------------
(* transfer_abort_all.                                                     *)
LEMMA AbortAllGoes ==
    ASSUME NEW s, Fine(s), "freed" \notin s.harm, NEW X \in SUBSET DOMAIN s.xfer
    PROVE  Goes(s, transfer_abort_all(s, X))
<1> DEFINE o == [f \in Fds |-> IF f \in Socks(s, X) THEN "closed" ELSE s.open[f]]
           t == transfer_abort_all(s, X)
<1>1. s \in St /\ Linked(s)
  BY DEF Fine
<1>2. \A f \in Socks(s, X) : s.open[f] = "ours"
  <2> SUFFICES ASSUME NEW x \in X, s.xfer[x].sock # None
               PROVE  s.open[s.xfer[x].sock] = "ours"
    BY DEF Socks
  <2> QED BY <1>1 DEF Linked
<1>3. s.harm \cup (IF \E f \in Socks(s, X) : s.open[f] = "other" THEN {"other"} ELSE {}) = s.harm
  BY <1>2
<1>4. t = Rec(Less(s.xfer, X), Less(s.io, X), o, s.harm)
  BY <1>3 DEF transfer_abort_all, Rec, Less
<1>5. o \in [Fds -> {"closed", "ours", "other"}]
  BY <1>1, StIs
<1>6. Less(s.xfer, X) \in Maps(Xfer) /\ Less(s.io, X) \in Maps(Src) /\ s.harm \subseteq {"freed", "other"}
  BY <1>1, StIs, LessIs
<1>7. \A f \in Fds : o[f] = IF f \in Socks(s, X) THEN "closed" ELSE s.open[f]
  OBVIOUS
<1> HIDE DEF o, t
<1>8. t \in St
  BY <1>4, <1>5, <1>6, RecIs
<1>9. t.xfer = Less(s.xfer, X) /\ t.io = Less(s.io, X) /\ t.open = o /\ t.harm = s.harm
  BY <1>4, Projected
<1>10. Ends1(s, X, t)
  BY <1>7, <1>8, <1>9 DEF Ends1
<1>11. Whole(s, t)
  BY <1>10, EndedWhole
<1>12. DOMAIN t.xfer \subseteq DOMAIN s.xfer
  BY <1>9 DEF Less
<1> QED BY <1>11, <1>12 DEF Goes, t

(* transfer_new.                                                           *)
LEMMA NewWhole ==
    ASSUME NEW s, Fine(s), "freed" \notin s.harm, next_xfer_refnum \in Xfers,
           next_xfer_refnum \notin DOMAIN s.xfer, NEW type \in {"send", "recv"}, NEW len \in Lens
    PROVE  LET t == New(s, type, len) IN
           /\ Whole(s, t) /\ Fine(t) /\ "freed" \notin t.harm
           /\ DOMAIN t.xfer = DOMAIN s.xfer \cup {next_xfer_refnum}
           /\ t.xfer[next_xfer_refnum].sock = None
<1> DEFINE x == next_xfer_refnum
           v == NewXfer(type, len)
           t == New(s, type, len)
<1>1. s \in St /\ Linked(s) /\ "other" \notin s.harm
  BY DEF Fine
<1>2. v \in Xfer /\ v.sock = None
  <2>1. (type = "send") \in BOOLEAN /\ len \in Nat
    BY LensAssumption
  <2> QED BY <2>1 DEF NewXfer, Xfer
<1>3. t = [s EXCEPT !.xfer = With(s.xfer, x, v)]
  BY <1>1 DEF New, With, St
<1> HIDE DEF v
<1>4. /\ With(s.xfer, x, v) \in Maps(Xfer) /\ DOMAIN With(s.xfer, x, v) = DOMAIN s.xfer \cup {x}
      /\ With(s.xfer, x, v)[x] = v
      /\ \A k \in DOMAIN s.xfer : k # x => With(s.xfer, x, v)[k] = s.xfer[k]
  <2>1. s.xfer \in Maps(Xfer) /\ x \in Xfers
    BY <1>1, StIs
  <2>2. With(s.xfer, x, v) \in Maps(Xfer)
    BY <1>2, <2>1, WithIs
  <2> HIDE DEF x
  <2>3. DOMAIN With(s.xfer, x, v) = DOMAIN s.xfer \cup {x} /\ With(s.xfer, x, v)[x] = v
    BY DEF With
  <2>4. \A k \in DOMAIN s.xfer : k # x => With(s.xfer, x, v)[k] = s.xfer[k]
    BY DEF With
  <2> QED BY <2>2, <2>3, <2>4
<1>5. t = Rec(With(s.xfer, x, v), s.io, s.open, s.harm)
  BY <1>1, <1>3, FieldsAre
<1> HIDE DEF t
<1>6. t \in St
  BY <1>1, <1>4, <1>5, RecIs, StIs
<1>7. t.xfer = With(s.xfer, x, v) /\ t.io = s.io /\ t.open = s.open /\ t.harm = s.harm
  BY <1>5, Projected
<1>8. /\ DOMAIN t.xfer = DOMAIN s.xfer \cup {x} /\ t.xfer[x].sock = None
      /\ \A k \in DOMAIN s.xfer : t.xfer[k] = s.xfer[k]
  BY <1>2, <1>4, <1>7
<1>9. Linked(t)
  <2>1. DOMAIN t.io = {k \in DOMAIN t.xfer : t.xfer[k].sock # None}
    BY <1>1, <1>7, <1>8 DEF Linked
  <2>2. \A k \in DOMAIN t.io : t.xfer[k] = s.xfer[k]
    BY <1>1, <1>7, <1>8 DEF Linked
  <2> QED BY <1>1, <1>7, <2>1, <2>2 DEF Linked
<1>10. Watched(s) => Watched(t)
  BY <1>7 DEF Watched
<1>11. Fine(t) /\ Whole(s, t)
  BY <1>1, <1>6, <1>7, <1>9, <1>10 DEF Fine, Whole
<1> QED BY <1>7, <1>8, <1>11 DEF t, x

-----------------------------------------------------------------------------
(* The steps of the specification.                                         *)
LEMMA NowFields ==
    Now.xfer = xfer /\ Now.io = io /\ Now.open = open /\ Now.harm = harm
BY DEF Now

LEMMA Becoming ==
    ASSUME NEW t \in St, xfer' = t.xfer, io' = t.io, open' = t.open, harm' = t.harm
    PROVE  Now' = t
BY DEF Now, St

(* A handler or a callback.                                                *)
LEMMA GoesStep ==
    ASSUME TransfersInv, Running, NEW S, \A t \in S : Goes(Now, t), Becomes(S), Keeps
    PROVE  TransfersInv'
<1>1. PICK t \in S : xfer' = t.xfer /\ io' = t.io /\ open' = t.open /\ harm' = t.harm
  BY DEF Becomes
<1>2. Fine(t) /\ Goes(Now, t)
  BY <1>1 DEF Goes, Whole
<1>3. Now' = t
  BY <1>1, <1>2, Becoming DEF Fine
<1>4. Fine(Now)'
  BY <1>2, <1>3
<1>5. next_xfer_refnum' = next_xfer_refnum /\ acct' = acct /\ again' = again
  BY DEF Keeps
<1>6. \A x \in DOMAIN xfer' : x < next_xfer_refnum'
  BY <1>1, <1>2, <1>5, NowFields DEF Goes, TransfersInv
<1>7. (Running /\ ~again => Watched(Now))'
  BY <1>1, <1>2, <1>3, <1>5, NowFields DEF Goes, Whole, TransfersInv, Running
<1> QED BY <1>4, <1>5, <1>6, <1>7 DEF TransfersInv

(* One that makes a new transfer.                                          *)
LEMMA NewStep ==
    ASSUME TransfersInv, NewRefnum, NEW type \in {"send", "recv"}, NEW len \in Lens,
           NEW S, Becomes(S),
           \A t \in S : LET u == New(Now, type, len) IN Goes(u, t)
    PROVE  TransfersInv'
<1> DEFINE u == New(Now, type, len)
<1>1. PICK t \in S : xfer' = t.xfer /\ io' = t.io /\ open' = t.open /\ harm' = t.harm
  BY DEF Becomes
<1>2. /\ Running /\ next_xfer_refnum \in Nat /\ next_xfer_refnum < MaxXfers /\ MaxXfers \in Nat
      /\ next_xfer_refnum' = next_xfer_refnum + 1 /\ acct' = acct /\ again' = again
  BY BoundAssumption DEF NewRefnum, TransfersInv
<1>3. next_xfer_refnum \in Xfers /\ next_xfer_refnum \notin DOMAIN xfer
  BY <1>2 DEF Xfers, TransfersInv
<1>4. Fine(Now) /\ "freed" \notin Now.harm /\ next_xfer_refnum \notin DOMAIN Now.xfer
  BY <1>2, <1>3, NowFields DEF TransfersInv, Running
<1>5. /\ Whole(Now, u) /\ Fine(u) /\ "freed" \notin u.harm
      /\ DOMAIN u.xfer = DOMAIN xfer \cup {next_xfer_refnum}
  BY <1>3, <1>4, NewWhole, NowFields
<1> HIDE DEF u
<1>6. Goes(u, t)
  BY <1>1 DEF u
<1>7. Fine(t)
  BY <1>6 DEF Goes, Whole
<1>8. Now' = t
  BY <1>1, <1>7, Becoming DEF Fine
<1>9. Fine(Now)'
  BY <1>7, <1>8
<1>10. \A x \in DOMAIN xfer' : x < next_xfer_refnum'
  <2>1. \A x \in DOMAIN xfer : x \in Nat /\ x < next_xfer_refnum
    <3>1. Now \in St
      BY <1>4 DEF Fine
    <3>2. DOMAIN xfer \subseteq Xfers
      BY <3>1, NowFields, StIs
    <3> QED BY <1>2, <3>2 DEF Xfers, TransfersInv
  <2>2. DOMAIN xfer' \subseteq DOMAIN xfer \cup {next_xfer_refnum}
    BY <1>1, <1>5, <1>6 DEF Goes
  <2> QED BY <1>2, <2>1, <2>2
<1>11. (Running /\ ~again => Watched(Now))'
  <2>1. Watched(Now) => Watched(u)
    BY <1>5 DEF Whole
  <2>2. "freed" \notin t.harm /\ Watched(u) => Watched(t)
    BY <1>6 DEF Goes, Whole
  <2> QED BY <1>1, <1>2, <1>8, <2>1, <2>2 DEF TransfersInv, Running
<1>12. next_xfer_refnum' \in 0 .. MaxXfers
  BY <1>2
<1> QED BY <1>2, <1>9, <1>10, <1>11, <1>12 DEF TransfersInv

(* "file get": the transfer may have a descriptor that is then its own no  *)
(* longer.                                                                 *)
LEMMA GetStep ==
    ASSUME TransfersInv, NEW x, Get(x) PROVE TransfersInv'
<1>1. /\ Fine(Now) /\ "freed" \notin Now.harm /\ x \in DOMAIN Now.xfer
      /\ again' = (again \/ xfer[x].sock # None)
      /\ next_xfer_refnum' = next_xfer_refnum /\ acct' = acct
  BY DEF Get, Alive, Listed, Running, TransfersInv, Now
<1>2. PICK t \in transfer_get(Now, x) :
         xfer' = t.xfer /\ io' = t.io /\ open' = t.open /\ harm' = t.harm
  BY DEF Get, Becomes
<1>3. Begins(Now, x, t)
  BY <1>1, GetBegins
<1>4. Now' = t /\ Fine(t)
  BY <1>2, <1>3, Becoming DEF Begins, Fine
<1>5. Fine(Now)'
  BY <1>4
<1>6. \A k \in DOMAIN xfer' : k < next_xfer_refnum'
  BY <1>1, <1>2, <1>3, NowFields DEF Begins, TransfersInv
<1>7. (Running /\ ~again => Watched(Now))'
  <2> SUFFICES ASSUME Running', ~again' PROVE Watched(t)
    BY <1>4
  <2>1. Now.xfer[x].sock = None /\ ~again
    BY <1>1, NowFields
  <2>2. "freed" \notin t.harm /\ Watched(Now)
    BY <1>1, <1>2, <2>1, NowFields DEF TransfersInv, Running
  <2> QED BY <1>3, <2>1, <2>2 DEF Begins, Whole
<1>8. again' \in BOOLEAN
  BY <1>1 DEF TransfersInv
<1> QED BY <1>1, <1>5, <1>6, <1>7, <1>8 DEF TransfersInv

(* Another part of the program opens or closes a descriptor of its own.    *)
LEMMA OthersStep ==
    ASSUME TransfersInv, Others PROVE TransfersInv'
<1>1. PICK f \in Fds : /\ open[f] \in {"closed", "other"}
                       /\ open' = [open EXCEPT ![f] = IF @ = "closed" THEN "other" ELSE "closed"]
  BY DEF Others
<1>2. /\ Now \in St /\ "freed" \notin Now.harm /\ Linked(Now) /\ "other" \notin Now.harm /\ Running
      /\ xfer' = xfer /\ io' = io /\ next_xfer_refnum' = next_xfer_refnum /\ acct' = acct
      /\ again' = again /\ harm' = harm
  BY NowFields DEF Others, TransfersInv, Fine, Running
<1>3. open \in [Fds -> {"closed", "ours", "other"}]
  BY <1>2, NowFields, StIs
<1>4. /\ open' \in [Fds -> {"closed", "ours", "other"}]
      /\ \A g \in Fds : open'[g] = "ours" <=> open[g] = "ours"
  BY <1>1, <1>3
<1>5. Now' \in St
  <2>1. Now' = Rec(xfer, io, open', harm)
    BY <1>2 DEF Now, Rec
  <2>2. xfer \in Maps(Xfer) /\ io \in Maps(Src) /\ harm \subseteq {"freed", "other"}
    BY <1>2, NowFields, StIs
  <2> QED BY <1>4, <2>1, <2>2, RecIs
<1>6. Now'.xfer = xfer /\ Now'.io = io /\ Now'.open = open' /\ Now'.harm = harm
  BY <1>2 DEF Now
<1>7. \A k \in DOMAIN io : xfer[k].sock \in Fds
  <2>1. io \in [DOMAIN io -> Src] /\ \A k \in DOMAIN io : io[k].fd = xfer[k].sock
    BY <1>2, NowFields, StIs DEF Linked
  <2> QED BY <2>1 DEF Src
<1>8. Linked(Now)'
  <2>1. /\ DOMAIN io = {k \in DOMAIN xfer : xfer[k].sock # None}
        /\ \A k \in DOMAIN io : io[k].fd = xfer[k].sock /\ open[xfer[k].sock] = "ours"
        /\ \A k, j \in DOMAIN io : xfer[k].sock = xfer[j].sock => k = j
    BY <1>2, NowFields DEF Linked
  <2>2. \A k \in DOMAIN io : open'[xfer[k].sock] = "ours"
    BY <1>4, <1>7, <2>1
  <2>3. Linked(Now')
    BY <1>6, <2>1, <2>2 DEF Linked
  <2> QED BY <2>3
<1>9. Fine(Now)'
  BY <1>2, <1>5, <1>6, <1>8, NowFields DEF Fine
<1>10. (Running /\ ~again => Watched(Now))'
  <2> SUFFICES ASSUME ~again PROVE Watched(Now')
    BY <1>2
  <2>1. Watched(Now)
    BY <1>2 DEF TransfersInv
  <2> QED BY <1>4, <1>6, <2>1, NowFields DEF Watched
<1> QED BY <1>2, <1>9, <1>10 DEF TransfersInv

(* A source that is called.                                                *)
LEMMA CallbackStep ==
    ASSUME TransfersInv, NEW x, NEW callback, NEW S, Callback(x, callback, S),
           \A t \in S : Goes(Now, t)
    PROVE  TransfersInv'
<1>1. Running /\ Keeps /\ Fine(Now)
  BY DEF Callback, Calls, TransfersInv
<1>2. CASE Becomes({Harm(Now, "freed")})
  <2>1. \A t \in {Harm(Now, "freed")} : Goes(Now, t)
    BY <1>1, FreedGoes
  <2> QED BY <1>1, <1>2, <2>1, GoesStep
<1>3. CASE Becomes(S)
  BY <1>1, <1>3, GoesStep
<1> QED BY <1>2, <1>3 DEF Callback

LEMMA InitInv == Init => TransfersInv
<1> SUFFICES ASSUME Init PROVE TransfersInv
  OBVIOUS
<1> DEFINE e == [k \in {} |-> 0]
<1>1. e \in Maps(Xfer) /\ e \in Maps(Src)
  BY MapsAre
<1>2. open \in [Fds -> {"closed", "ours", "other"}] /\ \A f \in Fds : open[f] = "closed"
  BY DEF Init
<1>3. Now = Rec(xfer, io, open, harm) /\ xfer = e /\ io = e /\ harm = {}
  BY DEF Now, Rec, Init
<1>4. Now \in St
  BY <1>1, <1>2, <1>3, RecIs
<1>5. DOMAIN e = {}
  OBVIOUS
<1> HIDE DEF e
<1>6. Linked(Now) /\ Watched(Now)
  BY <1>2, <1>3, <1>5, NowFields DEF Linked, Watched
<1>7. Fine(Now)
  BY <1>3, <1>4, <1>6, NowFields DEF Fine
<1>8. next_xfer_refnum \in 0 .. MaxXfers
  BY BoundAssumption DEF Init
<1> QED BY <1>3, <1>5, <1>6, <1>7, <1>8 DEF TransfersInv, Init

LEMMA StepInv == TransfersInv /\ [Next]_vars => TransfersInv'
<1> SUFFICES ASSUME TransfersInv, [Next]_vars PROVE TransfersInv'
  OBVIOUS
<1>1. Fine(Now)
  BY DEF TransfersInv
<1>2. ASSUME Running, NEW x, x \in DOMAIN Now.xfer
      PROVE  \A t \in {transfer_abort(Now, x)} : Goes(Now, t)
  <2>1. "freed" \notin Now.harm
    BY <1>2, NowFields DEF Running
  <2>2. Ends1(Now, {x}, transfer_abort(Now, x))
    BY <1>1, <1>2, <2>1, AbortWhole
  <2> QED BY <1>1, <1>2, <2>1, <2>2, Ends1Goes
<1>3. CASE transfer_send
  <2>1. NewRefnum
    BY <1>3 DEF transfer_send
  <2>2. PICK len \in Lens : Becomes(irc_file_send(New(Now, "send", len), next_xfer_refnum))
    BY <1>3 DEF transfer_send
  <2> DEFINE u == New(Now, "send", len)
  <2>3. /\ Fine(u) /\ "freed" \notin u.harm /\ next_xfer_refnum \in DOMAIN u.xfer
        /\ u.xfer[next_xfer_refnum].sock = None
    <3>1. /\ next_xfer_refnum \in Xfers /\ next_xfer_refnum \notin DOMAIN Now.xfer
          /\ "freed" \notin Now.harm
      BY <2>1, NowFields, BoundAssumption DEF NewRefnum, Xfers, TransfersInv, Running
    <3> QED BY <1>1, <3>1, NewWhole
  <2>4. \A t \in irc_file_send(u, next_xfer_refnum) : Goes(u, t)
    BY <2>3, SendGoes
  <2> QED BY <2>1, <2>2, <2>4, NewStep
<1>4. CASE irc_handler_dcc_send
  <2>1. NewRefnum
    BY <1>4 DEF irc_handler_dcc_send
  <2>2. PICK len \in Lens : Becomes({New(Now, "recv", len)})
    BY <1>4 DEF irc_handler_dcc_send
  <2> DEFINE u == New(Now, "recv", len)
  <2>3. Fine(u)
    <3>1. /\ next_xfer_refnum \in Xfers /\ next_xfer_refnum \notin DOMAIN Now.xfer
          /\ "freed" \notin Now.harm
      BY <2>1, NowFields, BoundAssumption DEF NewRefnum, Xfers, TransfersInv, Running
    <3> QED BY <1>1, <3>1, NewWhole
  <2>4. \A t \in {u} : Goes(u, t)
    BY <2>3 DEF Goes, Whole
  <2> QED BY <2>1, <2>2, <2>4, NewStep
<1>5. CASE CancelAll
  <2>1. Running /\ Keeps /\ "freed" \notin Now.harm
    BY <1>5, NowFields DEF CancelAll, Running
  <2>2. PICK types \in SUBSET {"send", "recv"} :
           Becomes({transfer_abort_all(Now, {x \in Listed(Now) : xfer[x].type \in types})})
    BY <1>5 DEF CancelAll
  <2> DEFINE X == {x \in Listed(Now) : xfer[x].type \in types}
  <2>3. \A t \in {transfer_abort_all(Now, X)} : Goes(Now, t)
    <3>1. X \in SUBSET DOMAIN Now.xfer
      BY DEF Listed
    <3> HIDE DEF X
    <3> QED BY <1>1, <2>1, <3>1, AbortAllGoes
  <2> QED BY <2>1, <2>2, <2>3, GoesStep
<1>6. CASE pork_acct_free
  BY <1>6 DEF pork_acct_free, TransfersInv, Now, Running
<1>7. CASE Others
  BY <1>7, OthersStep
<1>8. ASSUME NEW x, Get(x) PROVE TransfersInv'
  BY <1>8, GetStep
<1>9. ASSUME NEW x, Cancel(x) PROVE TransfersInv'
  <2>1. Running /\ Keeps /\ x \in DOMAIN Now.xfer /\ Becomes({transfer_abort(Now, x)})
    BY <1>9 DEF Cancel, Alive, Listed
  <2> QED BY <1>2, <2>1, GoesStep
<1>10. ASSUME NEW x, irc_handler_dcc_resume(x) PROVE TransfersInv'
  <2>1. Running /\ Keeps /\ x \in DOMAIN Now.xfer /\ "freed" \notin Now.harm
    BY <1>10, NowFields DEF irc_handler_dcc_resume, Alive, Listed, Running
  <2>2. PICK offset \in 0 .. xfer[x].len : Becomes({transfer_resume(Now, x, offset)})
    BY <1>10 DEF irc_handler_dcc_resume
  <2>3. offset \in Nat
    <3>1. xfer[x].len \in Nat
      BY <1>1, <2>1, SockIs, NowFields, LensAssumption DEF Xfer
    <3> QED BY <3>1
  <2>4. \A t \in {transfer_resume(Now, x, offset)} : Goes(Now, t)
    BY <1>1, <2>1, <2>3, ResumeGoes
  <2> QED BY <2>1, <2>2, <2>4, GoesStep
<1>11. ASSUME NEW x, Listening(x) PROVE TransfersInv'
  <2>1. Callback(x, "peer_connected", PeerConnected(Now, x, Now.io[x].fd))
    BY <1>11, NowFields DEF Listening
  <2>2. "freed" \notin Now.harm /\ x \in DOMAIN Now.io
    BY <2>1, NowFields DEF Callback, Calls, Running
  <2>3. \A t \in PeerConnected(Now, x, Now.io[x].fd) : Goes(Now, t)
    BY <1>1, <2>2, PeerConnectedWhole DEF Goes
  <2> QED BY <2>1, <2>3, CallbackStep
<1>12. ASSUME NEW x, Connected(x) PROVE TransfersInv'
  <2>1. Callback(x, "connected", {pork_io_add(Now, x, "recv_data", Now.io[x].fd)})
    BY <1>12, NowFields DEF Connected
  <2>2. "freed" \notin Now.harm /\ x \in DOMAIN Now.io
    BY <2>1, NowFields DEF Callback, Calls, Running
  <2>3. \A t \in {pork_io_add(Now, x, "recv_data", Now.io[x].fd)} : Goes(Now, t)
    BY <1>1, <2>2, ConnectedGoes
  <2> QED BY <2>1, <2>3, CallbackStep
<1>13. ASSUME NEW x, Receiving(x) PROVE TransfersInv'
  <2>1. Callback(x, "recv_data", transfer_recv_data(Now, x, Now.io[x].fd))
    BY <1>13, NowFields DEF Receiving
  <2>2. "freed" \notin Now.harm /\ x \in DOMAIN Now.io
    BY <2>1, NowFields DEF Callback, Calls, Running
  <2>3. x \in DOMAIN Now.xfer
    BY <1>1, <2>2 DEF Fine, Linked
  <2>4. \A t \in transfer_recv_data(Now, x, Now.io[x].fd) : Goes(Now, t)
    BY <1>1, <2>2, <2>3, RecvGoes
  <2> QED BY <2>1, <2>4, CallbackStep
<1>14. ASSUME NEW x, Sending(x) PROVE TransfersInv'
  <2>1. Callback(x, "send_ready", irc_file_send_ready(Now, x, Now.io[x].fd))
    BY <1>14, NowFields DEF Sending
  <2>2. "freed" \notin Now.harm /\ x \in DOMAIN Now.io
    BY <2>1, NowFields DEF Callback, Calls, Running
  <2>3. \A t \in irc_file_send_ready(Now, x, Now.io[x].fd) : Goes(Now, t)
    BY <1>1, <2>2, ReadyGoes
  <2> QED BY <2>1, <2>3, CallbackStep
<1>15. CASE UNCHANGED vars
  BY <1>15 DEF vars, TransfersInv, Now, Running
<1> QED BY <1>3, <1>4, <1>5, <1>6, <1>7, <1>8, <1>9, <1>10, <1>11, <1>12, <1>13, <1>14, <1>15
        DEF Next

LEMMA AlwaysInv == Spec => []TransfersInv
<1> QED BY InitInv, StepInv, PTL DEF Spec

-----------------------------------------------------------------------------
LEMMA InvTypes == TransfersInv => TypeOK
<1> SUFFICES ASSUME TransfersInv PROVE TypeOK
  OBVIOUS
<1>1. Now \in St
  BY DEF TransfersInv, Fine
<1>2. /\ xfer \in [DOMAIN xfer -> Xfer] /\ DOMAIN xfer \subseteq Xfers
      /\ io \in [DOMAIN io -> Src]
      /\ open \in [Fds -> {"closed", "ours", "other"}] /\ harm \subseteq {"freed", "other"}
  BY <1>1, StIs, NowFields
<1> QED BY <1>2, NowFields DEF TypeOK, TransfersInv, Listed, Src

(* Every variable has its type.                                            *)
THEOREM TransfersTypeOK == Spec => []TypeOK
<1> QED BY AlwaysInv, InvTypes, PTL

LEMMA InvSound == TransfersInv => TransfersSound
<1> SUFFICES ASSUME TransfersInv PROVE TransfersSound
  OBVIOUS
<1>1. ClosesOwn
  BY NowFields DEF TransfersInv, Fine, ClosesOwn
<1>2. ASSUME Running PROVE SourcesAgree
  <2>1. Linked(Now)
    BY <1>2, NowFields DEF TransfersInv, Fine, Running
  <2>2. /\ DOMAIN io = {x \in DOMAIN xfer : xfer[x].sock # None}
        /\ \A x \in DOMAIN io : io[x].fd = xfer[x].sock
        /\ \A x, y \in DOMAIN io : xfer[x].sock = xfer[y].sock => x = y
    BY <2>1, NowFields DEF Linked
  <2>3. \A x \in DOMAIN io : x \in Listed(Now) /\ io[x].fd = xfer[x].sock
    BY <2>2, NowFields DEF Listed
  <2>4. ASSUME ~again, NEW f \in Fds, open[f] = "ours"
        PROVE  Cardinality({x \in Listed(Now) : xfer[x].sock = f /\ x \in DOMAIN io}) = 1
    <3>1. Watched(Now)
      BY <1>2, <2>4 DEF TransfersInv
    <3>2. PICK y \in DOMAIN io : io[y].fd = f
      BY <2>4, <3>1, NowFields DEF Watched
    <3>3. {x \in Listed(Now) : xfer[x].sock = f /\ x \in DOMAIN io} = {y}
      BY <2>2, <2>3, <3>2
    <3> QED BY <3>3, FS_Singleton
  <2> QED BY <2>3, <2>4 DEF SourcesAgree
<1>3. SourcesAgree
  BY <1>2 DEF SourcesAgree
<1> QED BY <1>1, <1>3 DEF TransfersSound

(* Each source of a transfer is called for one that is still listed and    *)
(* with its descriptor; no descriptor of another part of the program is    *)
(* closed; and unless the user got a transfer that had a descriptor, every *)
(* descriptor the transfers hold is watched for one of them                *)
(* (pork_transfer.c, pork_irc_dcc.c).                                      *)
THEOREM TransfersAgree == Spec => []TransfersSound
<1> QED BY AlwaysInv, InvSound, PTL

-----------------------------------------------------------------------------
(***************************************************************************)
(* The transfers of an AIM account, Aim in MCTransfers.                    *)
(***************************************************************************)

(* The states of the transfers with numbers in X: who a connection and a   *)
(* transfer belong to is in their names.                                   *)
Names(X)      == X \X Aim!Hows
Nodes(X)     == {Aim!Of(x) : x \in X} \cup Names(X)
Tables(K, S) == UNION {[B -> S] : B \in SUBSET K}

AimXfer(X) == [type : {"send", "recv"}, status : {"WAITING", "ACTIVE"}, sock : Fds \cup {Aim!None},
               len : Int, sent : Int, fp : BOOLEAN, info : BOOLEAN, known : BOOLEAN,
               conn : Names(X) \cup {Aim!NULL}]
AimConn(X) == [fd : Fds \cup {Aim!None}, priv : X,
               handlers : SUBSET {"established", "ack", "done", "prompt", "dead"}]
AimSrc     == [callback : {"listening", "connected", "event", "send_data", "recv_data"},
               fd : Fds \cup {Aim!None}]

AimXfers(X) == {f \in Tables(X, AimXfer(X)) : \A x \in DOMAIN f : f[x].conn # Aim!NULL => f[x].conn[1] = x}
AimConns(X) == {f \in Tables(Names(X), AimConn(X)) : \A c \in DOMAIN f : f[c].priv = c[1]}
AimSrcs(X)  == Tables(Nodes(X), AimSrc)
Users       == [Fds -> {"closed", "ours", "other"}]
Harms       == SUBSET {"freed", "other"}
Pasts       == SUBSET {"midway", "unnamed", "lost", "again", "offline", "refused", "vanished",
                       "noname"}

AimSt(X) == [xfer : AimXfers(X), conns : AimConns(X), io : AimSrcs(X), open : Users,
             harm : Harms, past : Pasts]

Minus(f, K)   == [k \in DOMAIN f \ K |-> f[k]]
Plus(f, k, v) == [j \in DOMAIN f \cup {k} |-> IF j = k THEN v ELSE f[j]]

LEMMA FdsA == Aim!None \notin Fds
BY FdsAssumption DEF None, Aim!None
-----------------------------------------------------------------------------
LEMMA TablesAre ==
    ASSUME NEW K, NEW S, NEW f
    PROVE  f \in Tables(K, S) <=> DOMAIN f \subseteq K /\ f \in [DOMAIN f -> S]
<1>1. ASSUME f \in Tables(K, S) PROVE DOMAIN f \subseteq K /\ f \in [DOMAIN f -> S]
  <2>1. PICK B \in SUBSET K : f \in [B -> S]
    BY <1>1 DEF Tables
  <2> QED BY <2>1
<1>2. ASSUME DOMAIN f \subseteq K, f \in [DOMAIN f -> S] PROVE f \in Tables(K, S)
  BY <1>2 DEF Tables
<1> QED BY <1>1, <1>2

LEMMA MinusIs ==
    ASSUME NEW K, NEW S, NEW f \in Tables(K, S), NEW J
    PROVE  /\ Minus(f, J) \in Tables(K, S) /\ DOMAIN Minus(f, J) = DOMAIN f \ J
           /\ \A k \in DOMAIN f \ J : Minus(f, J)[k] = f[k]
<1>1. DOMAIN f \subseteq K /\ f \in [DOMAIN f -> S]
  BY TablesAre
<1>2. /\ DOMAIN Minus(f, J) = DOMAIN f \ J
      /\ \A k \in DOMAIN f \ J : Minus(f, J)[k] = f[k]
      /\ Minus(f, J) \in [DOMAIN f \ J -> S]
  BY <1>1 DEF Minus
<1> QED BY <1>1, <1>2, TablesAre

LEMMA PlusIs ==
    ASSUME NEW K, NEW S, NEW f \in Tables(K, S), NEW k \in K, NEW v \in S
    PROVE  /\ Plus(f, k, v) \in Tables(K, S) /\ DOMAIN Plus(f, k, v) = DOMAIN f \cup {k}
           /\ Plus(f, k, v)[k] = v
           /\ \A j \in DOMAIN f : j # k => Plus(f, k, v)[j] = f[j]
<1>1. DOMAIN f \subseteq K /\ f \in [DOMAIN f -> S]
  BY TablesAre
<1>2. /\ DOMAIN Plus(f, k, v) = DOMAIN f \cup {k} /\ Plus(f, k, v)[k] = v
      /\ \A j \in DOMAIN f : j # k => Plus(f, k, v)[j] = f[j]
      /\ Plus(f, k, v) \in [DOMAIN f \cup {k} -> S]
  BY <1>1 DEF Plus
<1> QED BY <1>1, <1>2, TablesAre

LEMMA PutIs ==
    ASSUME NEW K, NEW S, NEW f \in Tables(K, S), NEW k \in DOMAIN f, NEW v \in S
    PROVE  LET g == [f EXCEPT ![k] = v]
           IN  /\ g \in Tables(K, S) /\ DOMAIN g = DOMAIN f /\ g[k] = v
               /\ \A j \in DOMAIN f : j # k => g[j] = f[j]
<1>1. DOMAIN f \subseteq K /\ f \in [DOMAIN f -> S]
  BY TablesAre
<1> QED BY <1>1, TablesAre

(* Names.                                                                  *)
LEMMA NamesAre ==
    ASSUME NEW X
    PROVE  /\ Aim!NULL \notin Nodes(X) /\ Aim!NULL \notin Names(X)
           /\ \A x \in X : Aim!Of(x) \in Nodes(X) /\ Aim!Of(x) \notin Names(X) /\ Aim!Of(x) # Aim!NULL
           /\ \A x, y \in X : Aim!Of(x) = Aim!Of(y) => x = y
           /\ Names(X) \subseteq Nodes(X)
           /\ \A c \in Names(X) : c = <<c[1], c[2]>> /\ c[1] \in X /\ c[2] \in Aim!Hows /\ c # Aim!NULL
           /\ \A x \in X, how \in Aim!Hows : /\ <<x, how>> \in Names(X)
                                             /\ <<x, how>>[1] = x /\ <<x, how>>[2] = how
<1>1. \A c \in Names(X) : c = <<c[1], c[2]>> /\ c[1] \in X /\ c[2] \in Aim!Hows /\ c # Aim!NULL /\ Len(c) = 2
  BY DEF Names, Aim!NULL
<1>2. \A x, y \in X : Aim!Of(x) # Aim!NULL /\ (Aim!Of(x) = Aim!Of(y) => x = y)
  BY DEF Aim!Of, Aim!NULL
<1>3. \A x \in X : Aim!Of(x) \notin Names(X)
  BY <1>1 DEF Aim!Of
<1> QED BY <1>1, <1>2, <1>3 DEF Nodes, Names

-----------------------------------------------------------------------------
(* States.                                                                 *)
Fields(s) == <<s.xfer, s.conns, s.io, s.open, s.harm, s.past>>

LEMMA StFields ==
    ASSUME NEW X, NEW s \in AimSt(X)
    PROVE  /\ s.xfer \in AimXfers(X) /\ s.conns \in AimConns(X) /\ s.io \in AimSrcs(X)
           /\ s.open \in Users /\ s.harm \in Harms /\ s.past \in Pasts
BY DEF AimSt

LEMMA SetXfer ==
    ASSUME NEW X, NEW s \in AimSt(X), NEW f \in AimXfers(X)
    PROVE  LET t == [s EXCEPT !.xfer = f]
           IN  /\ t \in AimSt(X)
               /\ Fields(t) = <<f, s.conns, s.io, s.open, s.harm, s.past>>
BY DEF AimSt, Fields

LEMMA SetConns ==
    ASSUME NEW X, NEW s \in AimSt(X), NEW f \in AimConns(X)
    PROVE  LET t == [s EXCEPT !.conns = f]
           IN  /\ t \in AimSt(X)
               /\ Fields(t) = <<s.xfer, f, s.io, s.open, s.harm, s.past>>
BY DEF AimSt, Fields

LEMMA SetIo ==
    ASSUME NEW X, NEW s \in AimSt(X), NEW f \in AimSrcs(X)
    PROVE  LET t == [s EXCEPT !.io = f]
           IN  /\ t \in AimSt(X)
               /\ Fields(t) = <<s.xfer, s.conns, f, s.open, s.harm, s.past>>
BY DEF AimSt, Fields

LEMMA SetOpen ==
    ASSUME NEW X, NEW s \in AimSt(X), NEW f \in Users, NEW h \in Harms
    PROVE  LET t == [s EXCEPT !.open = f, !.harm = h]
           IN  /\ t \in AimSt(X)
               /\ Fields(t) = <<s.xfer, s.conns, s.io, f, h, s.past>>
BY DEF AimSt, Fields

(* Nothing undefined has happened.                                         *)
Unharmed(s) == s.harm = {}

LEMMA HarmIs ==
    ASSUME NEW X, NEW s \in AimSt(X), NEW h \in {"freed", "other"}
    PROVE  LET t == Aim!Harm(s, h)
           IN  /\ t \in AimSt(X)
               /\ Fields(t) = <<s.xfer, s.conns, s.io, s.open, s.harm \cup {h}, s.past>>
               /\ ~Unharmed(t)
BY DEF AimSt, Fields, Aim!Harm, Harms, Unharmed

LEMMA PastIs ==
    ASSUME NEW X, NEW s \in AimSt(X),
           NEW w \in {"midway", "unnamed", "lost", "again", "offline", "refused", "vanished",
                      "noname"}
    PROVE  LET t == Aim!Past(s, w)
           IN  /\ t \in AimSt(X)
               /\ Fields(t) = <<s.xfer, s.conns, s.io, s.open, s.harm, s.past \cup {w}>>
BY DEF AimSt, Fields, Aim!Past, Pasts

LEMMA DelIs ==
    ASSUME NEW X, NEW s \in AimSt(X), NEW k
    PROVE  LET t == Aim!pork_io_del(s, k)
           IN  /\ t \in AimSt(X)
               /\ Fields(t) = <<s.xfer, s.conns, Minus(s.io, {k}), s.open, s.harm, s.past>>
<1>1. Minus(s.io, {k}) \in AimSrcs(X)
  BY StFields, MinusIs DEF AimSrcs
<1> DEFINE f == Minus(s.io, {k})
           t == [s EXCEPT !.io = f]
<1>2. Aim!pork_io_del(s, k) = t
  BY DEF Aim!pork_io_del, Minus
<1>3. t \in AimSt(X) /\ Fields(t) = <<s.xfer, s.conns, f, s.open, s.harm, s.past>>
  <2> f \in AimSrcs(X)
    BY <1>1
  <2> HIDE DEF f
  <2> QED BY SetIo
<1> QED BY <1>2, <1>3

LEMMA AddIs ==
    ASSUME NEW X, NEW s \in AimSt(X), NEW k \in Nodes(X), NEW fd \in Fds \cup {Aim!None},
           NEW cb \in {"listening", "connected", "event", "send_data", "recv_data"}
    PROVE  LET t == Aim!pork_io_add(s, k, cb, fd)
           IN  /\ t \in AimSt(X)
               /\ Fields(t) = <<s.xfer, s.conns, Plus(s.io, k, [callback |-> cb, fd |-> fd]),
                                s.open, s.harm, s.past>>
<1> DEFINE v == [callback |-> cb, fd |-> fd]
<1>0. v \in AimSrc
  BY DEF AimSrc
<1>1. Plus(s.io, k, v) \in AimSrcs(X)
  BY <1>0, StFields, PlusIs DEF AimSrcs
<1> DEFINE f == Plus(s.io, k, v)
           t == [s EXCEPT !.io = f]
<1>2. Aim!pork_io_add(s, k, cb, fd) = t
  BY DEF Aim!pork_io_add, Plus
<1>3. t \in AimSt(X) /\ Fields(t) = <<s.xfer, s.conns, f, s.open, s.harm, s.past>>
  <2> f \in AimSrcs(X)
    BY <1>1
  <2> HIDE DEF f
  <2> QED BY SetIo
<1> QED BY <1>2, <1>3

LEMMA OpenIs ==
    ASSUME NEW X, NEW s \in AimSt(X), NEW f \in Fds
    PROVE  LET t == Aim!Open(s, f)
           IN  /\ t \in AimSt(X)
               /\ Fields(t) = <<s.xfer, s.conns, s.io, [s.open EXCEPT ![f] = "ours"], s.harm, s.past>>
<1> DEFINE op == [s.open EXCEPT ![f] = "ours"]
           t  == [s EXCEPT !.open = op, !.harm = s.harm]
<1>1. op \in Users /\ s.harm \in Harms
  BY StFields DEF Users
<1>2. Aim!Open(s, f) = t
  BY DEF Aim!Open, AimSt
<1>3. t \in AimSt(X) /\ Fields(t) = <<s.xfer, s.conns, s.io, op, s.harm, s.past>>
  <2> op \in Users
    BY <1>1
  <2> HIDE DEF op
  <2> QED BY <1>1, SetOpen
<1> QED BY <1>2, <1>3

(* Who uses the descriptors after a close.                                 *)
Closed(o, fd) == IF fd = Aim!None THEN o ELSE [o EXCEPT ![fd] = "closed"]
Hit(s, fd)       == IF fd # Aim!None /\ s.open[fd] = "other" THEN s.harm \cup {"other"} ELSE s.harm

LEMMA CloseIs ==
    ASSUME NEW X, NEW s \in AimSt(X), NEW fd \in Fds \cup {Aim!None}
    PROVE  LET t == Aim!Close(s, fd)
           IN  /\ t \in AimSt(X)
               /\ Fields(t) = <<s.xfer, s.conns, s.io, Closed(s.open, fd), Hit(s, fd), s.past>>
<1>1. CASE fd = Aim!None
  BY <1>1 DEF Aim!Close, Closed, Hit, Fields
<1>2. CASE fd # Aim!None
  <2> DEFINE op == [s.open EXCEPT ![fd] = "closed"]
             h  == IF s.open[fd] = "other" THEN s.harm \cup {"other"} ELSE s.harm
  <2>1. op \in Users /\ h \in Harms
    BY <1>2, StFields DEF Users, Harms
  <2> DEFINE t == [s EXCEPT !.open = op, !.harm = h]
  <2>2. Aim!Close(s, fd) = t
    BY <1>2 DEF Aim!Close
  <2>3. Closed(s.open, fd) = op /\ Hit(s, fd) = h
    BY <1>2 DEF Closed, Hit
  <2>4. t \in AimSt(X) /\ Fields(t) = <<s.xfer, s.conns, s.io, op, h, s.past>>
    <3> op \in Users /\ h \in Harms
      BY <2>1
    <3> HIDE DEF op, h
    <3> QED BY SetOpen
  <2> QED BY <2>2, <2>3, <2>4
<1> QED BY <1>1, <1>2

-----------------------------------------------------------------------------
(* Connections.                                                            *)
LEMMA ConnsAre ==
    ASSUME NEW X, NEW f \in AimConns(X)
    PROVE  /\ f \in Tables(Names(X), AimConn(X)) /\ DOMAIN f \subseteq Names(X)
           /\ \A c \in DOMAIN f : /\ f[c] \in AimConn(X) /\ f[c].priv = c[1] /\ f[c].priv \in X
                                  /\ f[c].fd \in Fds \cup {Aim!None}
<1>1. f \in Tables(Names(X), AimConn(X)) /\ \A c \in DOMAIN f : f[c].priv = c[1]
  BY DEF AimConns
<1>2. DOMAIN f \subseteq Names(X) /\ \A c \in DOMAIN f : f[c] \in AimConn(X)
  <2>1. DOMAIN f \subseteq Names(X) /\ f \in [DOMAIN f -> AimConn(X)]
    BY <1>1, TablesAre
  <2> QED BY <2>1
<1>3. \A c \in DOMAIN f : f[c].priv \in X /\ f[c].fd \in Fds \cup {Aim!None}
  BY <1>2 DEF AimConn
<1> QED BY <1>1, <1>2, <1>3

LEMMA ConnsMinus ==
    ASSUME NEW X, NEW f \in AimConns(X), NEW K
    PROVE  /\ Minus(f, K) \in AimConns(X) /\ DOMAIN Minus(f, K) = DOMAIN f \ K
           /\ \A c \in DOMAIN f \ K : Minus(f, K)[c] = f[c]
<1>1. f \in Tables(Names(X), AimConn(X)) /\ \A c \in DOMAIN f : f[c].priv = c[1]
  BY ConnsAre
<1>2. /\ Minus(f, K) \in Tables(Names(X), AimConn(X)) /\ DOMAIN Minus(f, K) = DOMAIN f \ K
      /\ \A c \in DOMAIN f \ K : Minus(f, K)[c] = f[c]
  <2>1. f \in Tables(Names(X), AimConn(X))
    BY <1>1
  <2> QED BY <2>1, MinusIs
<1>3. ASSUME NEW c \in DOMAIN Minus(f, K) PROVE Minus(f, K)[c].priv = c[1]
  <2>1. c \in DOMAIN f \ K
    BY <1>2
  <2>2. Minus(f, K)[c] = f[c]
    BY <1>2, <2>1
  <2> QED BY <1>1, <2>1, <2>2
<1> QED BY <1>2, <1>3 DEF AimConns

LEMMA ConnsPlus ==
    ASSUME NEW X, NEW f \in AimConns(X), NEW c \in Names(X), NEW v \in AimConn(X), v.priv = c[1]
    PROVE  /\ Plus(f, c, v) \in AimConns(X) /\ DOMAIN Plus(f, c, v) = DOMAIN f \cup {c}
           /\ Plus(f, c, v)[c] = v
           /\ \A d \in DOMAIN f : d # c => Plus(f, c, v)[d] = f[d]
<1>1. f \in Tables(Names(X), AimConn(X)) /\ \A d \in DOMAIN f : f[d].priv = d[1]
  BY ConnsAre
<1>2. /\ Plus(f, c, v) \in Tables(Names(X), AimConn(X)) /\ DOMAIN Plus(f, c, v) = DOMAIN f \cup {c}
      /\ Plus(f, c, v)[c] = v
      /\ \A d \in DOMAIN f : d # c => Plus(f, c, v)[d] = f[d]
  BY <1>1, PlusIs
<1> QED BY <1>1, <1>2 DEF AimConns

LEMMA ConnsPut ==
    ASSUME NEW X, NEW f \in AimConns(X), NEW c \in DOMAIN f, NEW v \in AimConn(X), v.priv = c[1]
    PROVE  LET g == [f EXCEPT ![c] = v]
           IN  /\ g \in AimConns(X) /\ DOMAIN g = DOMAIN f /\ g[c] = v
               /\ \A d \in DOMAIN f : d # c => g[d] = f[d]
<1> DEFINE g == [f EXCEPT ![c] = v]
<1>1. f \in Tables(Names(X), AimConn(X)) /\ \A d \in DOMAIN f : f[d].priv = d[1]
  BY ConnsAre
<1>2. /\ g \in Tables(Names(X), AimConn(X)) /\ DOMAIN g = DOMAIN f /\ g[c] = v
      /\ \A d \in DOMAIN f : d # c => g[d] = f[d]
  BY <1>1, PutIs
<1> HIDE DEF g
<1>3. \A d \in DOMAIN g : g[d].priv = d[1]
  BY <1>1, <1>2
<1>4. g \in AimConns(X)
  BY <1>2, <1>3 DEF AimConns
<1> QED BY <1>2, <1>4 DEF g

Cleared(v)  == [v EXCEPT !.handlers = {}]
Unopened(v) == [v EXCEPT !.fd = Aim!None]

LEMMA ConnIs ==
    ASSUME NEW X, NEW v \in AimConn(X), NEW fd \in Fds \cup {Aim!None}
    PROVE  /\ Cleared(v) \in AimConn(X) /\ Cleared(v).fd = v.fd /\ Cleared(v).priv = v.priv
           /\ Cleared(v).handlers = {}
           /\ LET w == [v EXCEPT !.fd = fd]
              IN  w \in AimConn(X) /\ w.fd = fd /\ w.priv = v.priv /\ w.handlers = v.handlers
BY DEF AimConn, Cleared

LEMMA PutConnIs ==
    ASSUME NEW X, NEW s \in AimSt(X), NEW c \in DOMAIN s.conns, NEW v \in AimConn(X), v.priv = c[1]
    PROVE  LET f == [s.conns EXCEPT ![c] = v]
               t == [s EXCEPT !.conns = f]
           IN  /\ t \in AimSt(X) /\ Fields(t) = <<s.xfer, f, s.io, s.open, s.harm, s.past>>
               /\ f \in AimConns(X) /\ DOMAIN f = DOMAIN s.conns /\ f[c] = v
               /\ \A d \in DOMAIN s.conns : d # c => f[d] = s.conns[d]
<1> DEFINE f == [s.conns EXCEPT ![c] = v]
           t == [s EXCEPT !.conns = f]
<1>1. /\ f \in AimConns(X) /\ DOMAIN f = DOMAIN s.conns /\ f[c] = v
      /\ \A d \in DOMAIN s.conns : d # c => f[d] = s.conns[d]
  BY StFields, ConnsPut
<1> HIDE DEF f
<1>2. t \in AimSt(X) /\ Fields(t) = <<s.xfer, f, s.io, s.open, s.harm, s.past>>
  BY <1>1, SetConns
<1> QED BY <1>1, <1>2 DEF f

LEMMA ClearIs ==
    ASSUME NEW X, NEW s \in AimSt(X), NEW c \in Names(X) \cup {Aim!NULL}
    PROVE  LET t == Aim!aim_clearhandlers(s, c)
               f == [s.conns EXCEPT ![c] = Cleared(s.conns[c])]
           IN  /\ t \in AimSt(X) /\ t.past = s.past
               /\ c = Aim!NULL => t = s
               /\ c \in DOMAIN s.conns => Fields(t) = <<s.xfer, f, s.io, s.open, s.harm, s.past>>
               /\ c \notin DOMAIN s.conns \cup {Aim!NULL} => ~Unharmed(t)
<1>1. CASE c \in DOMAIN s.conns
  <2> DEFINE v == Cleared(s.conns[c])
             f == [s.conns EXCEPT ![c] = v]
             t == [s EXCEPT !.conns = f]
  <2>0. s.conns[c] \in AimConn(X) /\ s.conns[c].priv = c[1] /\ c \in Names(X)
    BY <1>1, StFields, ConnsAre
  <2>1. v \in AimConn(X) /\ v.priv = c[1] /\ c # Aim!NULL
    BY <2>0, NamesAre DEF AimConn, Cleared
  <2>2. Aim!aim_clearhandlers(s, c) = t
    BY <1>1, <2>1 DEF Aim!aim_clearhandlers, Cleared
  <2>3. t \in AimSt(X) /\ Fields(t) = <<s.xfer, f, s.io, s.open, s.harm, s.past>>
    <3> HIDE DEF v
    <3> QED BY <1>1, <2>1, PutConnIs
  <2>4. t.past = s.past
    BY <2>3 DEF Fields
  <2> QED BY <1>1, <2>1, <2>2, <2>3, <2>4
<1>2. CASE c \notin DOMAIN s.conns
  BY <1>2, HarmIs DEF Aim!aim_clearhandlers, Fields
<1> QED BY <1>1, <1>2

LEMMA ShutIs ==
    ASSUME NEW X, NEW s \in AimSt(X), NEW c \in Names(X) \cup {Aim!NULL}
    PROVE  LET t == Aim!Shut(s, c)
               fd == s.conns[c].fd
               f == [s.conns EXCEPT ![c] = Unopened(s.conns[c])]
           IN  /\ t \in AimSt(X) /\ t.past = s.past
               /\ c \in DOMAIN s.conns =>
                     Fields(t) = <<s.xfer, f, s.io, Closed(s.open, fd), Hit(s, fd), s.past>>
               /\ c \notin DOMAIN s.conns => ~Unharmed(t)
<1>1. CASE c \in DOMAIN s.conns
  <2> DEFINE fd == s.conns[c].fd
             u == Aim!Close(s, fd)
             v == Unopened(u.conns[c])
             f == [u.conns EXCEPT ![c] = v]
             t == [u EXCEPT !.conns = f]
  <2>1. fd \in Fds \cup {Aim!None} /\ s.conns[c] \in AimConn(X) /\ s.conns[c].priv = c[1]
    BY <1>1, StFields, ConnsAre
  <2>2. /\ u \in AimSt(X) /\ u.conns = s.conns
        /\ Fields(u) = <<s.xfer, s.conns, s.io, Closed(s.open, fd), Hit(s, fd), s.past>>
    BY <2>1, CloseIs DEF Fields
  <2>3. v \in AimConn(X) /\ v.priv = c[1]
    BY <2>1, <2>2, ConnIs DEF Unopened
  <2>4. Aim!Shut(s, c) = t
    BY <1>1 DEF Aim!Shut, Unopened
  <2>5. t \in AimSt(X) /\ Fields(t) = <<u.xfer, f, u.io, u.open, u.harm, u.past>>
    <3> HIDE DEF v, u
    <3> QED BY <1>1, <2>2, <2>3, PutConnIs
  <2>6. Fields(t) = <<s.xfer, f, s.io, Closed(s.open, fd), Hit(s, fd), s.past>>
    BY <2>2, <2>5 DEF Fields
  <2>7. t.past = s.past
    BY <2>6 DEF Fields
  <2> QED BY <1>1, <2>2, <2>4, <2>5, <2>6, <2>7
<1>2. CASE c \notin DOMAIN s.conns
  BY <1>2, HarmIs DEF Aim!Shut, Fields
<1> QED BY <1>1, <1>2

LEMMA KillIs ==
    ASSUME NEW X, NEW s \in AimSt(X), NEW c \in Names(X) \cup {Aim!NULL}
    PROVE  LET t == Aim!aim_conn_kill(s, c)
               fd == s.conns[c].fd
           IN  /\ t \in AimSt(X) /\ t.past = s.past
               /\ c \in DOMAIN s.conns =>
                     Fields(t) = <<s.xfer, Minus(s.conns, {c}), s.io, Closed(s.open, fd),
                                   Hit(s, fd), s.past>>
               /\ c \notin DOMAIN s.conns => t = s
<1>1. CASE c \in DOMAIN s.conns
  <2> DEFINE fd == s.conns[c].fd
             u == Aim!Shut(s, c)
             g == [s.conns EXCEPT ![c] = Unopened(s.conns[c])]
             f == Minus(u.conns, {c})
             t == [u EXCEPT !.conns = f]
  <2>1. u \in AimSt(X) /\ Fields(u) = <<s.xfer, g, s.io, Closed(s.open, fd), Hit(s, fd), s.past>>
    BY <1>1, ShutIs
  <2>2. f \in AimConns(X)
    BY <2>1, StFields, ConnsMinus
  <2>3. f = Minus(s.conns, {c})
    BY <2>1 DEF Fields, Minus
  <2>4. Aim!aim_conn_kill(s, c) = t
    BY <1>1 DEF Aim!aim_conn_kill, Minus
  <2>5. t \in AimSt(X) /\ Fields(t) = <<u.xfer, f, u.io, u.open, u.harm, u.past>>
    <3> f \in AimConns(X) /\ u \in AimSt(X)
      BY <2>1, <2>2
    <3> HIDE DEF f, u
    <3> QED BY SetConns
  <2>6. Fields(t) = <<s.xfer, Minus(s.conns, {c}), s.io, Closed(s.open, fd), Hit(s, fd), s.past>>
    BY <2>1, <2>3, <2>5 DEF Fields
  <2>7. t.past = s.past
    BY <2>6 DEF Fields
  <2> QED BY <1>1, <2>4, <2>5, <2>6, <2>7
<1>2. CASE c \notin DOMAIN s.conns
  BY <1>2 DEF Aim!aim_conn_kill
<1> QED BY <1>1, <1>2

LEMMA NewconnIs ==
    ASSUME NEW X, NEW s \in AimSt(X), NEW c \in Names(X), NEW fd \in Fds \cup {Aim!None},
           NEW h \in SUBSET {"established", "ack", "done", "prompt", "dead"}
    PROVE  LET t == Aim!Newconn(s, c, fd, h)
               v == [fd |-> fd, priv |-> c[1], handlers |-> h]
           IN  /\ t \in AimSt(X) /\ v \in AimConn(X)
               /\ Fields(t) = <<s.xfer, Plus(s.conns, c, v), s.io, s.open, s.harm, s.past>>
<1> DEFINE v == [fd |-> fd, priv |-> c[1], handlers |-> h]
           f == Plus(s.conns, c, v)
           t == [s EXCEPT !.conns = f]
<1>1. v \in AimConn(X) /\ v.priv = c[1]
  BY NamesAre DEF AimConn
<1>2. f \in AimConns(X)
  BY <1>1, StFields, ConnsPlus
<1>3. Aim!Newconn(s, c, fd, h) = t
  BY DEF Aim!Newconn, Plus
<1>4. t \in AimSt(X) /\ Fields(t) = <<s.xfer, f, s.io, s.open, s.harm, s.past>>
  <2> f \in AimConns(X)
    BY <1>2
  <2> HIDE DEF f
  <2> QED BY SetConns
<1> QED BY <1>1, <1>3, <1>4

-----------------------------------------------------------------------------
(* Transfers.                                                              *)
Own(v, x) == v.conn # Aim!NULL => v.conn[1] = x

LEMMA XfersAre ==
    ASSUME NEW X, NEW f \in AimXfers(X)
    PROVE  /\ f \in Tables(X, AimXfer(X)) /\ DOMAIN f \subseteq X
           /\ \A x \in DOMAIN f : /\ f[x] \in AimXfer(X) /\ Own(f[x], x)
                                  /\ f[x].conn \in Names(X) \cup {Aim!NULL}
                                  /\ f[x].sock \in Fds \cup {Aim!None}
<1>1. f \in Tables(X, AimXfer(X)) /\ \A x \in DOMAIN f : Own(f[x], x)
  BY DEF AimXfers, Own
<1>2. DOMAIN f \subseteq X /\ \A x \in DOMAIN f : f[x] \in AimXfer(X)
  <2>1. DOMAIN f \subseteq X /\ f \in [DOMAIN f -> AimXfer(X)]
    BY <1>1, TablesAre
  <2> QED BY <2>1
<1>3. \A x \in DOMAIN f : f[x].conn \in Names(X) \cup {Aim!NULL} /\ f[x].sock \in Fds \cup {Aim!None}
  BY <1>2 DEF AimXfer
<1> QED BY <1>1, <1>2, <1>3

LEMMA XfersMinus ==
    ASSUME NEW X, NEW f \in AimXfers(X), NEW K
    PROVE  /\ Minus(f, K) \in AimXfers(X) /\ DOMAIN Minus(f, K) = DOMAIN f \ K
           /\ \A c \in DOMAIN f \ K : Minus(f, K)[c] = f[c]
<1>1. f \in Tables(X, AimXfer(X)) /\ \A x \in DOMAIN f : Own(f[x], x)
  BY XfersAre
<1>2. /\ Minus(f, K) \in Tables(X, AimXfer(X)) /\ DOMAIN Minus(f, K) = DOMAIN f \ K
      /\ \A c \in DOMAIN f \ K : Minus(f, K)[c] = f[c]
  <2>1. f \in Tables(X, AimXfer(X))
    BY <1>1
  <2> QED BY <2>1, MinusIs
<1>3. ASSUME NEW c \in DOMAIN Minus(f, K) PROVE Own(Minus(f, K)[c], c)
  <2>1. c \in DOMAIN f \ K
    BY <1>2
  <2>2. Minus(f, K)[c] = f[c]
    BY <1>2, <2>1
  <2> QED BY <1>1, <2>1, <2>2
<1> QED BY <1>2, <1>3 DEF AimXfers, Own

LEMMA XfersPlus ==
    ASSUME NEW X, NEW f \in AimXfers(X), NEW x \in X, NEW v \in AimXfer(X), Own(v, x)
    PROVE  /\ Plus(f, x, v) \in AimXfers(X) /\ DOMAIN Plus(f, x, v) = DOMAIN f \cup {x}
           /\ Plus(f, x, v)[x] = v
           /\ \A y \in DOMAIN f : y # x => Plus(f, x, v)[y] = f[y]
<1>1. f \in Tables(X, AimXfer(X)) /\ \A y \in DOMAIN f : Own(f[y], y)
  BY XfersAre
<1>2. /\ Plus(f, x, v) \in Tables(X, AimXfer(X)) /\ DOMAIN Plus(f, x, v) = DOMAIN f \cup {x}
      /\ Plus(f, x, v)[x] = v
      /\ \A y \in DOMAIN f : y # x => Plus(f, x, v)[y] = f[y]
  <2>1. f \in Tables(X, AimXfer(X))
    BY <1>1
  <2>2. x \in X /\ v \in AimXfer(X)
    OBVIOUS
  <2> QED BY ONLY <2>1, <2>2, PlusIs
<1>3. \A y \in DOMAIN Plus(f, x, v) : Own(Plus(f, x, v)[y], y)
  BY <1>1, <1>2
<1> QED BY <1>2, <1>3 DEF AimXfers, Own

LEMMA PutXferIs ==
    ASSUME NEW X, NEW s \in AimSt(X), NEW x \in DOMAIN s.xfer, NEW v \in AimXfer(X), Own(v, x)
    PROVE  LET f == [s.xfer EXCEPT ![x] = v]
               t == [s EXCEPT !.xfer = f]
           IN  /\ t \in AimSt(X) /\ Fields(t) = <<f, s.conns, s.io, s.open, s.harm, s.past>>
               /\ DOMAIN f = DOMAIN s.xfer /\ f[x] = v
               /\ \A y \in DOMAIN s.xfer : y # x => f[y] = s.xfer[y]
<1> DEFINE f == [s.xfer EXCEPT ![x] = v]
           t == [s EXCEPT !.xfer = f]
<1>1. s.xfer \in Tables(X, AimXfer(X)) /\ \A y \in DOMAIN s.xfer : Own(s.xfer[y], y)
  BY StFields, XfersAre
<1>2. /\ f \in Tables(X, AimXfer(X)) /\ DOMAIN f = DOMAIN s.xfer /\ f[x] = v
      /\ \A y \in DOMAIN s.xfer : y # x => f[y] = s.xfer[y]
  <2>1. s.xfer \in Tables(X, AimXfer(X))
    BY <1>1
  <2> QED BY <2>1, PutIs
<1> HIDE DEF f
<1>3. \A y \in DOMAIN f : Own(f[y], y)
  BY <1>1, <1>2
<1>4. f \in AimXfers(X)
  BY <1>2, <1>3 DEF AimXfers, Own
<1>5. t \in AimSt(X) /\ Fields(t) = <<f, s.conns, s.io, s.open, s.harm, s.past>>
  BY <1>4, SetXfer
<1> QED BY <1>2, <1>5 DEF f

Fresh(type, len) ==
    [type |-> type, status |-> "WAITING", sock |-> Aim!None, len |-> len, sent |-> 0,
     fp |-> type = "send", info |-> FALSE, known |-> FALSE, conn |-> Aim!NULL]

LEMMA NewIs ==
    ASSUME NEW X, NEW s \in AimSt(X), NEW x \in X, NEW type \in {"send", "recv"}, NEW len \in Int
    PROVE  LET t == Aim!transfer_new(s, x, type, len)
               v == Fresh(type, len)
           IN  /\ t \in AimSt(X) /\ v \in AimXfer(X)
               /\ Fields(t) = <<Plus(s.xfer, x, v), s.conns, s.io, s.open, s.harm, s.past>>
<1> DEFINE v == Fresh(type, len)
           f == Plus(s.xfer, x, v)
           t == [s EXCEPT !.xfer = f]
<1>1. v \in AimXfer(X) /\ Own(v, x)
  <2>1. (type = "send") \in BOOLEAN
    OBVIOUS
  <2>2. v.conn = Aim!NULL
    BY DEF Fresh
  <2>3. v \in AimXfer(X)
    BY <2>1 DEF AimXfer, Fresh
  <2> QED BY <2>2, <2>3 DEF Own
<1>2. f \in AimXfers(X)
  <2> HIDE DEF v
  <2> QED BY <1>1, StFields, XfersPlus
<1>3. Aim!transfer_new(s, x, type, len) = t
  BY DEF Aim!transfer_new, Plus, Fresh
<1>4. t \in AimSt(X) /\ Fields(t) = <<f, s.conns, s.io, s.open, s.harm, s.past>>
  <2> f \in AimXfers(X)
    BY <1>2
  <2> HIDE DEF f
  <2> QED BY SetXfer
<1> HIDE DEF v
<1> QED BY <1>1, <1>3, <1>4 DEF v

LEMMA DestroyIs ==
    ASSUME NEW X, NEW s \in AimSt(X), NEW x
    PROVE  LET t == Aim!transfer_destroy(s, x)
           IN  /\ t \in AimSt(X)
               /\ Fields(t) = <<Minus(s.xfer, {x}), s.conns, s.io, s.open, s.harm, s.past>>
<1> DEFINE f == Minus(s.xfer, {x})
           t == [s EXCEPT !.xfer = f]
<1>1. f \in AimXfers(X)
  BY StFields, XfersMinus
<1>2. Aim!transfer_destroy(s, x) = t
  BY DEF Aim!transfer_destroy, Minus
<1>3. t \in AimSt(X) /\ Fields(t) = <<f, s.conns, s.io, s.open, s.harm, s.past>>
  <2> f \in AimXfers(X)
    BY <1>1
  <2> HIDE DEF f
  <2> QED BY SetXfer
<1> QED BY <1>2, <1>3

LEMMA DestroyInfoIs ==
    ASSUME NEW X, NEW s \in AimSt(X), NEW x
    PROVE  LET t == Aim!aim_oft_destroyinfo(s, x)
           IN  /\ t \in AimSt(X) /\ t.past = s.past
               /\ Unharmed(t) => t = s
               /\ (\E y \in Aim!Listed(s) : s.xfer[y].known) => t = s
<1>1. Aim!Harm(s, "freed") \in AimSt(X) /\ Aim!Harm(s, "freed").past = s.past /\ ~Unharmed(Aim!Harm(s, "freed"))
  BY HarmIs DEF Fields
<1> QED BY <1>1 DEF Aim!aim_oft_destroyinfo, Aim!Kin

-----------------------------------------------------------------------------
(* The ends of a transfer.                                                 *)
LEMMA MinusMinus ==
    ASSUME NEW f, NEW j, NEW k
    PROVE  Minus(Minus(f, {j}), {k}) = Minus(f, {j, k})
BY DEF Minus

(* What is left of its connection, which is closed in its own handler, and *)
(* freed otherwise.                                                        *)
Rest(s, c, in_handler) ==
    IF c = Aim!NULL THEN s.conns
    ELSE IF in_handler THEN [s.conns EXCEPT ![c] = Unopened(Cleared(s.conns[c]))]
    ELSE Minus(s.conns, {c})

Fd(s, c) == IF c \in DOMAIN s.conns THEN s.conns[c].fd ELSE Aim!None

(* What the end of a transfer leaves.                                      *)
Ended(s, x, in_handler) ==
    LET c == s.xfer[x].conn
    IN  <<Minus(s.xfer, {x}), Rest(s, c, in_handler), Minus(s.io, {Aim!Of(x), c}),
          Closed(s.open, Fd(s, c)), Hit(s, Fd(s, c)), s.past>>

LEMMA AbortIs ==
    ASSUME NEW X, NEW s \in AimSt(X), NEW x \in X, NEW h \in BOOLEAN
    PROVE  LET t == Aim!Abort(s, x, h)
               c == s.xfer[x].conn
           IN  /\ t \in AimSt(X) /\ t.past = s.past
               /\ x \notin Aim!Listed(s) => ~Unharmed(t)
               /\ x \in Aim!Listed(s) /\ ~s.xfer[x].info =>
                     Fields(t) = <<Minus(s.xfer, {x}), s.conns, Minus(s.io, {Aim!Of(x)}), s.open,
                                   s.harm, s.past>>
               /\ x \in Aim!Listed(s) /\ s.xfer[x].info /\ Unharmed(t) =>
                     c \in DOMAIN s.conns \cup {Aim!NULL} /\ Fields(t) = Ended(s, x, h)
               /\ x \in Aim!Listed(s) /\ s.xfer[x].info /\ s.xfer[x].known /\ c \in DOMAIN s.conns =>
                     Fields(t) = Ended(s, x, h)
               /\ x \in Aim!Listed(s) /\ s.xfer[x].info /\ s.xfer[x].known /\ c = Aim!NULL /\ ~h =>
                     Fields(t) = Ended(s, x, h)
<1>1. CASE x \notin Aim!Listed(s)
  BY <1>1, HarmIs DEF Aim!Abort, Fields
<1>2. CASE x \in Aim!Listed(s) /\ ~s.xfer[x].info
  <2> DEFINE t == Aim!pork_io_del(s, Aim!Of(x))
  <2>1. t \in AimSt(X) /\ Fields(t) = <<s.xfer, s.conns, Minus(s.io, {Aim!Of(x)}), s.open, s.harm, s.past>>
    BY DelIs
  <2>2. Aim!Abort(s, x, h) = Aim!transfer_destroy(t, x)
    BY <1>2 DEF Aim!Abort, Aim!aim_file_abort
  <2>3. /\ Aim!transfer_destroy(t, x) \in AimSt(X)
        /\ Fields(Aim!transfer_destroy(t, x)) = <<Minus(t.xfer, {x}), t.conns, t.io, t.open, t.harm, t.past>>
    BY <2>1, DestroyIs
  <2>4. Fields(Aim!transfer_destroy(t, x)) = <<Minus(s.xfer, {x}), s.conns, Minus(s.io, {Aim!Of(x)}), s.open,
                                           s.harm, s.past>>
    BY <2>1, <2>3 DEF Fields
  <2>5. Aim!transfer_destroy(t, x).past = s.past
    BY <2>4 DEF Fields
  <2> QED BY <1>2, <2>2, <2>3, <2>4, <2>5
<1>3. CASE x \in Aim!Listed(s) /\ s.xfer[x].info
  <2> DEFINE c == s.xfer[x].conn
             t == Aim!pork_io_del(s, Aim!Of(x))
             v == Aim!pork_io_del(t, c)
             u == Aim!aim_clearhandlers(v, c)
             w == IF h THEN Aim!Shut(u, c) ELSE Aim!aim_conn_kill(u, c)
             z == Aim!aim_oft_destroyinfo(w, x)
             y == IF c \notin DOMAIN s.conns \cup {Aim!NULL} THEN u ELSE z
             r == Aim!Abort(s, x, h)
  <2>1. c \in Names(X) \cup {Aim!NULL}
    BY <1>3, StFields, XfersAre DEF Aim!Listed
  <2>2. t \in AimSt(X) /\ Fields(t) = <<s.xfer, s.conns, Minus(s.io, {Aim!Of(x)}), s.open, s.harm, s.past>>
    BY DelIs
  <2>3. v \in AimSt(X) /\ Fields(v) = <<s.xfer, s.conns, Minus(s.io, {Aim!Of(x), c}), s.open, s.harm, s.past>>
    <3>1. v \in AimSt(X) /\ Fields(v) = <<t.xfer, t.conns, Minus(t.io, {c}), t.open, t.harm, t.past>>
      BY <2>2, DelIs
    <3>2. /\ t.xfer = s.xfer /\ t.conns = s.conns /\ t.open = s.open /\ t.harm = s.harm
          /\ t.past = s.past /\ t.io = Minus(s.io, {Aim!Of(x)})
      BY <2>2 DEF Fields
    <3>3. Minus(t.io, {c}) = Minus(s.io, {Aim!Of(x), c})
      <4> HIDE DEF t, c
      <4>1. Minus(Minus(s.io, {Aim!Of(x)}), {c}) = Minus(s.io, {Aim!Of(x), c})
        BY DEF Minus
      <4> QED BY <3>2, <4>1
    <3> QED BY <3>1, <3>2, <3>3
  <2>4. /\ u \in AimSt(X) /\ u.past = s.past
        /\ c = Aim!NULL => u = v
        /\ c \in DOMAIN s.conns =>
              Fields(u) = <<s.xfer, [s.conns EXCEPT ![c] = Cleared(s.conns[c])],
                            Minus(s.io, {Aim!Of(x), c}), s.open, s.harm, s.past>>
        /\ c \notin DOMAIN s.conns \cup {Aim!NULL} => ~Unharmed(u)
    <3>1. /\ u \in AimSt(X) /\ u.past = v.past
          /\ c = Aim!NULL => u = v
          /\ c \in DOMAIN v.conns =>
                Fields(u) = <<v.xfer, [v.conns EXCEPT ![c] = Cleared(v.conns[c])],
                              v.io, v.open, v.harm, v.past>>
          /\ c \notin DOMAIN v.conns \cup {Aim!NULL} => ~Unharmed(u)
      BY <2>1, <2>3, ClearIs
    <3> QED BY <2>3, <3>1 DEF Fields
  <2>5. w \in AimSt(X) /\ w.past = s.past
    BY <2>1, <2>4, ShutIs, KillIs
  <2>6. /\ z \in AimSt(X) /\ z.past = s.past /\ (Unharmed(z) => z = w)
        /\ (\E k \in Aim!Listed(w) : w.xfer[k].known) => z = w
    BY <2>5, DestroyInfoIs
  <2>7. y \in AimSt(X) /\ y.past = s.past
    BY <2>4, <2>6
  <2>8. r = Aim!transfer_destroy(y, x)
    BY <1>3 DEF Aim!Abort, Aim!aim_file_abort
  <2>9. r \in AimSt(X) /\ Fields(r) = <<Minus(y.xfer, {x}), y.conns, y.io, y.open, y.harm, y.past>>
    <3> HIDE DEF y
    <3> QED BY <2>7, <2>8, DestroyIs
  <2>10. r.past = s.past /\ (Unharmed(r) => Unharmed(y))
    <3>1. r.past = y.past /\ r.harm = y.harm
      <4> HIDE DEF r, y
      <4> QED BY <2>9 DEF Fields
    <3> QED BY <2>7, <3>1 DEF Unharmed
  <2>11. ASSUME c \in DOMAIN s.conns
         PROVE  Fields(w) = <<s.xfer, Rest(s, c, h), Minus(s.io, {Aim!Of(x), c}), Closed(s.open, Fd(s, c)),
                              Hit(s, Fd(s, c)), s.past>>
    <3> DEFINE g == [s.conns EXCEPT ![c] = Cleared(s.conns[c])]
    <3>1. Fields(u) = <<s.xfer, g, Minus(s.io, {Aim!Of(x), c}), s.open, s.harm, s.past>>
      BY <2>4, <2>11
    <3>2. s.conns \in AimConns(X) /\ s.conns[c] \in AimConn(X) /\ c # Aim!NULL
      BY <2>11, StFields, ConnsAre, NamesAre
    <3>3. DOMAIN g = DOMAIN s.conns /\ g[c] = Cleared(s.conns[c]) /\ g[c].fd = s.conns[c].fd
      BY <2>11, <3>2 DEF Cleared, AimConn
    <3>4. [g EXCEPT ![c] = Unopened(g[c])] = [s.conns EXCEPT ![c] = Unopened(Cleared(s.conns[c]))]
      BY <2>11, <3>3
    <3>5. Minus(g, {c}) = Minus(s.conns, {c})
      BY DEF Minus
    <3>6. Fd(s, c) = s.conns[c].fd
      BY <2>11 DEF Fd
    <3> HIDE DEF g
    <3>7. u.conns = g /\ u.io = Minus(s.io, {Aim!Of(x), c}) /\ u.open = s.open /\ u.harm = s.harm
          /\ u.xfer = s.xfer /\ u.past = s.past
      BY <3>1 DEF Fields
    <3>8. Hit(u, Fd(s, c)) = Hit(s, Fd(s, c))
      BY <3>7 DEF Hit
    <3>9. CASE h
      <4>1. Fields(w) = <<u.xfer, [u.conns EXCEPT ![c] = Unopened(u.conns[c])], u.io,
                          Closed(u.open, u.conns[c].fd), Hit(u, u.conns[c].fd), u.past>>
        BY <2>1, <2>4, <2>11, <3>3, <3>7, <3>9, ShutIs
      <4>2. Rest(s, c, h) = [s.conns EXCEPT ![c] = Unopened(Cleared(s.conns[c]))]
        BY <3>2, <3>9 DEF Rest
      <4> QED BY <3>3, <3>4, <3>6, <3>7, <3>8, <4>1, <4>2
    <3>10. CASE ~h
      <4>1. Fields(w) = <<u.xfer, Minus(u.conns, {c}), u.io,
                          Closed(u.open, u.conns[c].fd), Hit(u, u.conns[c].fd), u.past>>
        BY <2>1, <2>4, <2>11, <3>3, <3>7, <3>10, KillIs
      <4>2. Rest(s, c, h) = Minus(s.conns, {c})
        BY <3>2, <3>10 DEF Rest
      <4> QED BY <3>3, <3>5, <3>6, <3>7, <3>8, <4>1, <4>2
    <3> QED BY <3>9, <3>10
  <2>12. ASSUME c = Aim!NULL, ~h
         PROVE  Fields(w) = <<s.xfer, Rest(s, c, h), Minus(s.io, {Aim!Of(x), c}), Closed(s.open, Fd(s, c)),
                              Hit(s, Fd(s, c)), s.past>>
    <3>1. c \notin DOMAIN s.conns
      BY <2>12, StFields, ConnsAre, NamesAre
    <3>2. Fd(s, c) = Aim!None /\ Rest(s, c, h) = s.conns
      BY <2>12, <3>1 DEF Fd, Rest
    <3>3. u = v /\ v.conns = s.conns
      BY <2>3, <2>4, <2>12 DEF Fields
    <3>4. w = v
      BY <2>1, <2>4, <2>12, <3>1, <3>3, KillIs
    <3> QED BY <2>3, <3>2, <3>4 DEF Closed, Hit
  <2>13. ASSUME c = Aim!NULL, h PROVE ~Unharmed(w)
    <3>1. c \notin DOMAIN s.conns
      BY <2>13, StFields, ConnsAre, NamesAre
    <3>2. u.conns = s.conns
      BY <2>3, <2>4, <2>13 DEF Fields
    <3> QED BY <2>1, <2>4, <2>13, <3>1, <3>2, ShutIs
  <2>14. ASSUME c \in DOMAIN s.conns \cup {Aim!NULL}, c = Aim!NULL => ~h, z = w
         PROVE  Fields(r) = Ended(s, x, h)
    <3>1. Fields(w) = <<s.xfer, Rest(s, c, h), Minus(s.io, {Aim!Of(x), c}), Closed(s.open, Fd(s, c)),
                        Hit(s, Fd(s, c)), s.past>>
      BY <2>11, <2>12, <2>14
    <3>2. y = w
      BY <2>14
    <3> HIDE DEF w, y
    <3> QED BY <2>9, <3>1, <3>2 DEF Ended, Fields
  <2>15. ASSUME Unharmed(r) PROVE c \in DOMAIN s.conns \cup {Aim!NULL} /\ Fields(r) = Ended(s, x, h)
    <3>1. c \in DOMAIN s.conns \cup {Aim!NULL}
      BY <2>4, <2>10, <2>15
    <3>2. z = w
      BY <2>6, <2>10, <2>15, <3>1
    <3>3. c = Aim!NULL => ~h
      BY <2>10, <2>13, <2>15, <3>1, <3>2
    <3> QED BY <2>14, <3>1, <3>2, <3>3
  <2>16. ASSUME s.xfer[x].known, c \in DOMAIN s.conns \cup {Aim!NULL}, c = Aim!NULL => ~h
         PROVE  Fields(r) = Ended(s, x, h)
    <3>1. w.xfer = s.xfer
      BY <2>11, <2>12, <2>16 DEF Fields
    <3>2. \E k \in Aim!Listed(w) : w.xfer[k].known
      <4> HIDE DEF w
      <4> QED BY <1>3, <2>16, <3>1 DEF Aim!Listed
    <3>3. z = w
      BY <2>6, <3>2
    <3> QED BY <2>14, <2>16, <3>3
  <2>17. c \in DOMAIN s.conns => c # Aim!NULL
    BY StFields, ConnsAre, NamesAre
  <2> HIDE DEF r, c
  <2>18. r \in AimSt(X) /\ r.past = s.past
    BY <2>9, <2>10
  <2>19. s.xfer[x].known /\ c \in DOMAIN s.conns => Fields(r) = Ended(s, x, h)
    BY <2>16, <2>17
  <2>20. s.xfer[x].known /\ c = Aim!NULL /\ ~h => Fields(r) = Ended(s, x, h)
    BY <2>16
  <2> QED BY <1>3, <2>15, <2>18, <2>19, <2>20 DEF r, c
<1> QED BY <1>1, <1>2, <1>3 DEF Aim!Listed

LEMMA AbortOut ==
    ASSUME NEW X, NEW s \in AimSt(X), NEW x \in X
    PROVE  LET t == Aim!Abort(s, x, FALSE)
               c == s.xfer[x].conn
           IN  /\ t \in AimSt(X) /\ t.past = s.past
               /\ Unharmed(t) => x \in Aim!Listed(s)
               /\ x \in Aim!Listed(s) /\ ~s.xfer[x].info =>
                     Fields(t) = <<Minus(s.xfer, {x}), s.conns, Minus(s.io, {Aim!Of(x)}), s.open,
                                   s.harm, s.past>>
               /\ x \in Aim!Listed(s) /\ s.xfer[x].info /\ Unharmed(t) =>
                     c \in DOMAIN s.conns \cup {Aim!NULL} /\ Fields(t) = Ended(s, x, FALSE)
               /\ x \in Aim!Listed(s) /\ s.xfer[x].info /\ s.xfer[x].known /\ c \in DOMAIN s.conns \cup {Aim!NULL} =>
                     Fields(t) = Ended(s, x, FALSE)
BY AbortIs, Zenon

LEMMA AbortOutKind ==
    ASSUME NEW X, NEW s \in AimSt(X), NEW x \in X
    PROVE  Aim!Abort(s, x, FALSE) \in AimSt(X) /\ Aim!Abort(s, x, FALSE).past = s.past
BY AbortOut, Zenon

LEMMA AbortOutListed ==
    ASSUME NEW X, NEW s \in AimSt(X), NEW x \in X, Unharmed(Aim!Abort(s, x, FALSE))
    PROVE  x \in Aim!Listed(s)
BY AbortOut, Zenon

LEMMA AbortOutPlain ==
    ASSUME NEW X, NEW s \in AimSt(X), NEW x \in X, x \in Aim!Listed(s), ~s.xfer[x].info
    PROVE  Fields(Aim!Abort(s, x, FALSE)) = <<Minus(s.xfer, {x}), s.conns, Minus(s.io, {Aim!Of(x)}), s.open,
                                        s.harm, s.past>>
BY AbortOut, Zenon

LEMMA AbortOutEnds ==
    ASSUME NEW X, NEW s \in AimSt(X), NEW x \in X, x \in Aim!Listed(s), s.xfer[x].info,
           Unharmed(Aim!Abort(s, x, FALSE))
    PROVE  /\ s.xfer[x].conn \in DOMAIN s.conns \cup {Aim!NULL}
           /\ Fields(Aim!Abort(s, x, FALSE)) = Ended(s, x, FALSE)
BY AbortOut, Zenon

LEMMA AbortOutSafe ==
    ASSUME NEW X, NEW s \in AimSt(X), NEW x \in X, x \in Aim!Listed(s), s.xfer[x].info, s.xfer[x].known,
           s.xfer[x].conn \in DOMAIN s.conns \cup {Aim!NULL}
    PROVE  Fields(Aim!Abort(s, x, FALSE)) = Ended(s, x, FALSE)
BY AbortOut, Zenon

LEMMA AbortIn ==
    ASSUME NEW X, NEW s \in AimSt(X), NEW x \in X
    PROVE  LET t == Aim!Abort(s, x, TRUE)
               c == s.xfer[x].conn
           IN  /\ t \in AimSt(X) /\ t.past = s.past
               /\ Unharmed(t) => x \in Aim!Listed(s)
               /\ x \in Aim!Listed(s) /\ ~s.xfer[x].info =>
                     Fields(t) = <<Minus(s.xfer, {x}), s.conns, Minus(s.io, {Aim!Of(x)}), s.open,
                                   s.harm, s.past>>
               /\ x \in Aim!Listed(s) /\ s.xfer[x].info /\ Unharmed(t) =>
                     c \in DOMAIN s.conns \cup {Aim!NULL} /\ Fields(t) = Ended(s, x, TRUE)
               /\ x \in Aim!Listed(s) /\ s.xfer[x].info /\ s.xfer[x].known /\ c \in DOMAIN s.conns =>
                     Fields(t) = Ended(s, x, TRUE)
BY AbortIs, Zenon

LEMMA AbortInKind ==
    ASSUME NEW X, NEW s \in AimSt(X), NEW x \in X
    PROVE  Aim!Abort(s, x, TRUE) \in AimSt(X) /\ Aim!Abort(s, x, TRUE).past = s.past
BY AbortIn, Zenon

LEMMA AbortInListed ==
    ASSUME NEW X, NEW s \in AimSt(X), NEW x \in X, Unharmed(Aim!Abort(s, x, TRUE))
    PROVE  x \in Aim!Listed(s)
BY AbortIn, Zenon

LEMMA AbortInPlain ==
    ASSUME NEW X, NEW s \in AimSt(X), NEW x \in X, x \in Aim!Listed(s), ~s.xfer[x].info
    PROVE  Fields(Aim!Abort(s, x, TRUE)) = <<Minus(s.xfer, {x}), s.conns, Minus(s.io, {Aim!Of(x)}), s.open,
                                        s.harm, s.past>>
BY AbortIn, Zenon

LEMMA AbortInEnds ==
    ASSUME NEW X, NEW s \in AimSt(X), NEW x \in X, x \in Aim!Listed(s), s.xfer[x].info,
           Unharmed(Aim!Abort(s, x, TRUE))
    PROVE  /\ s.xfer[x].conn \in DOMAIN s.conns \cup {Aim!NULL}
           /\ Fields(Aim!Abort(s, x, TRUE)) = Ended(s, x, TRUE)
BY AbortIn, Zenon

LEMMA AbortInSafe ==
    ASSUME NEW X, NEW s \in AimSt(X), NEW x \in X, x \in Aim!Listed(s), s.xfer[x].info, s.xfer[x].known,
           s.xfer[x].conn \in DOMAIN s.conns
    PROVE  Fields(Aim!Abort(s, x, TRUE)) = Ended(s, x, TRUE)
BY AbortIn, Zenon

LEMMA CompleteIs ==
    ASSUME NEW X, NEW s \in AimSt(X), NEW x \in Aim!Listed(s)
    PROVE  LET t == Aim!Complete(s, x)
               c == s.xfer[x].conn
               r == <<Minus(s.xfer, {x}), Rest(s, c, FALSE), Minus(s.io, {Aim!Of(x)}),
                      Closed(s.open, Fd(s, c)), Hit(s, Fd(s, c)), s.past>>
           IN  /\ t \in AimSt(X) /\ t.past = s.past
               /\ Unharmed(t) => c \in DOMAIN s.conns \cup {Aim!NULL} /\ Fields(t) = r
               /\ s.xfer[x].known /\ c \in DOMAIN s.conns \cup {Aim!NULL} => Fields(t) = r
<1> DEFINE c == s.xfer[x].conn
           t == Aim!Complete(s, x)
           r == <<Minus(s.xfer, {x}), Rest(s, c, FALSE), Minus(s.io, {Aim!Of(x)}),
                  Closed(s.open, Fd(s, c)), Hit(s, Fd(s, c)), s.past>>
<1>1. c \in Names(X) \cup {Aim!NULL} /\ (c \in DOMAIN s.conns => c # Aim!NULL)
  BY StFields, XfersAre, ConnsAre, NamesAre DEF Aim!Listed
<1>2. CASE c \notin DOMAIN s.conns \cup {Aim!NULL}
  BY <1>2, HarmIs DEF Aim!Complete, Fields
<1>3. CASE c \in DOMAIN s.conns \cup {Aim!NULL}
  <2> DEFINE u == Aim!aim_clearhandlers(s, c)
             w == Aim!aim_conn_kill(u, c)
             z == Aim!aim_oft_destroyinfo(w, x)
             y == Aim!pork_io_del(z, Aim!Of(x))
  <2>1. /\ u \in AimSt(X) /\ u.past = s.past
        /\ c = Aim!NULL => u = s
        /\ c \in DOMAIN s.conns => Fields(u) = <<s.xfer, [s.conns EXCEPT ![c] = Cleared(s.conns[c])],
                                                 s.io, s.open, s.harm, s.past>>
    BY <1>1, ClearIs
  <2>2. w \in AimSt(X) /\ w.past = s.past
    BY <1>1, <2>1, KillIs
  <2>3. Fields(w) = <<s.xfer, Rest(s, c, FALSE), s.io, Closed(s.open, Fd(s, c)), Hit(s, Fd(s, c)),
                      s.past>>
    <3>1. CASE c = Aim!NULL
      <4>1. c \notin DOMAIN s.conns
        BY <1>1, <3>1
      <4>2. Fd(s, c) = Aim!None /\ Rest(s, c, FALSE) = s.conns
        BY <3>1, <4>1 DEF Fd, Rest
      <4>3. w = s
        BY <1>1, <2>1, <3>1, <4>1, KillIs
      <4> QED BY <4>2, <4>3 DEF Closed, Hit, Fields
    <3>2. CASE c \in DOMAIN s.conns
      <4> DEFINE g == [s.conns EXCEPT ![c] = Cleared(s.conns[c])]
      <4>1. s.conns \in AimConns(X) /\ s.conns[c] \in AimConn(X)
        BY <3>2, StFields, ConnsAre
      <4>2. DOMAIN g = DOMAIN s.conns /\ g[c].fd = s.conns[c].fd
        BY <3>2, <4>1 DEF Cleared, AimConn
      <4>3. Minus(g, {c}) = Minus(s.conns, {c})
        BY DEF Minus
      <4>4. Fd(s, c) = s.conns[c].fd /\ Rest(s, c, FALSE) = Minus(s.conns, {c})
        BY <1>1, <3>2 DEF Fd, Rest
      <4> HIDE DEF g
      <4>5. u.conns = g /\ u.io = s.io /\ u.open = s.open /\ u.harm = s.harm /\ u.xfer = s.xfer
            /\ u.past = s.past
        BY <2>1, <3>2 DEF Fields, g
      <4>6. Hit(u, Fd(s, c)) = Hit(s, Fd(s, c))
        BY <4>5 DEF Hit
      <4>7. Fields(w) = <<u.xfer, Minus(u.conns, {c}), u.io, Closed(u.open, u.conns[c].fd),
                          Hit(u, u.conns[c].fd), u.past>>
        BY <1>1, <2>1, <3>2, <4>2, <4>5, KillIs
      <4> QED BY <4>2, <4>3, <4>4, <4>5, <4>6, <4>7
    <3> QED BY <1>3, <3>1, <3>2
  <2>4. /\ z \in AimSt(X) /\ z.past = s.past /\ (Unharmed(z) => z = w)
        /\ (\E k \in Aim!Listed(w) : w.xfer[k].known) => z = w
    BY <2>2, DestroyInfoIs
  <2>5. y \in AimSt(X) /\ Fields(y) = <<z.xfer, z.conns, Minus(z.io, {Aim!Of(x)}), z.open, z.harm, z.past>>
    BY <2>4, DelIs
  <2>6. t = Aim!transfer_destroy(y, x)
    BY <1>3 DEF Aim!Complete
  <2>7. t \in AimSt(X) /\ Fields(t) = <<Minus(y.xfer, {x}), y.conns, y.io, y.open, y.harm, y.past>>
    <3> HIDE DEF y
    <3> QED BY <2>5, <2>6, DestroyIs
  <2>8. Fields(t) = <<Minus(z.xfer, {x}), z.conns, Minus(z.io, {Aim!Of(x)}), z.open, z.harm, z.past>>
    <3> HIDE DEF y, z
    <3> QED BY <2>5, <2>7 DEF Fields
  <2>9. t.past = s.past /\ (Unharmed(t) => Unharmed(z))
    <3>1. t.past = z.past /\ t.harm = z.harm
      <4> HIDE DEF t, z
      <4> QED BY <2>8 DEF Fields
    <3> QED BY <2>4, <3>1 DEF Unharmed
  <2>10. ASSUME z = w PROVE Fields(t) = r
    <3> HIDE DEF w, z, t
    <3> QED BY <2>3, <2>8, <2>10 DEF Fields
  <2>11. ASSUME s.xfer[x].known PROVE z = w
    <3>1. \E k \in Aim!Listed(w) : w.xfer[k].known
      <4> HIDE DEF w
      <4>1. w.xfer = s.xfer
        BY <2>3 DEF Fields
      <4> QED BY <2>11, <4>1 DEF Aim!Listed
    <3> QED BY <2>4, <3>1
  <2> HIDE DEF c, t, r, z, w
  <2>12. Unharmed(t) => Fields(t) = r
    BY <2>4, <2>9, <2>10
  <2> QED BY <1>3, <2>7, <2>9, <2>10, <2>11, <2>12 DEF c, t, r
<1> QED BY <1>2, <1>3

LEMMA CompleteKind ==
    ASSUME NEW X, NEW s \in AimSt(X), NEW x \in Aim!Listed(s)
    PROVE  Aim!Complete(s, x) \in AimSt(X) /\ Aim!Complete(s, x).past = s.past
BY CompleteIs, Zenon

LEMMA CompleteEnds ==
    ASSUME NEW X, NEW s \in AimSt(X), NEW x \in Aim!Listed(s),
           Unharmed(Aim!Complete(s, x)) \/ (s.xfer[x].known /\ s.xfer[x].conn \in DOMAIN s.conns \cup {Aim!NULL})
    PROVE  /\ s.xfer[x].conn \in DOMAIN s.conns \cup {Aim!NULL}
           /\ Fields(Aim!Complete(s, x)) =
                <<Minus(s.xfer, {x}), Rest(s, s.xfer[x].conn, FALSE), Minus(s.io, {Aim!Of(x)}),
                  Closed(s.open, Fd(s, s.xfer[x].conn)), Hit(s, Fd(s, s.xfer[x].conn)), s.past>>
BY CompleteIs, Zenon

(* What each does, as far as it is used below.                             *)
LEMMA ClearDoes ==
    ASSUME NEW X, NEW s \in AimSt(X), NEW c \in DOMAIN s.conns
    PROVE  Fields(Aim!aim_clearhandlers(s, c)) =
             <<s.xfer, [s.conns EXCEPT ![c] = Cleared(s.conns[c])], s.io, s.open, s.harm, s.past>>
<1>1. c \in Names(X) \cup {Aim!NULL}
  BY StFields, ConnsAre
<1> QED BY <1>1, ClearIs, Zenon

LEMMA ShutDoes ==
    ASSUME NEW X, NEW s \in AimSt(X), NEW c \in DOMAIN s.conns
    PROVE  Fields(Aim!Shut(s, c)) =
             <<s.xfer, [s.conns EXCEPT ![c] = Unopened(s.conns[c])], s.io,
               Closed(s.open, s.conns[c].fd), Hit(s, s.conns[c].fd), s.past>>
<1>1. c \in Names(X) \cup {Aim!NULL}
  BY StFields, ConnsAre
<1> QED BY <1>1, ShutIs, Zenon

LEMMA KillDoes ==
    ASSUME NEW X, NEW s \in AimSt(X), NEW c \in DOMAIN s.conns
    PROVE  Fields(Aim!aim_conn_kill(s, c)) =
             <<s.xfer, Minus(s.conns, {c}), s.io, Closed(s.open, s.conns[c].fd),
               Hit(s, s.conns[c].fd), s.past>>
<1>1. c \in Names(X) \cup {Aim!NULL}
  BY StFields, ConnsAre
<1> QED BY <1>1, KillIs, Zenon

(* Nothing is forgotten.                                                   *)
LEMMA HarmsGrow ==
    ASSUME NEW X, NEW s \in AimSt(X), NEW c \in Names(X) \cup {Aim!NULL}
    PROVE  /\ s.harm \subseteq Aim!aim_clearhandlers(s, c).harm
           /\ s.harm \subseteq Aim!Shut(s, c).harm
           /\ s.harm \subseteq Aim!aim_conn_kill(s, c).harm
<1>1. s.harm \subseteq Hit(s, s.conns[c].fd)
  BY DEF Hit
<1>2. s.harm \subseteq Aim!Harm(s, "freed").harm
  BY HarmIs DEF Fields
<1>3. s.harm \subseteq Aim!aim_clearhandlers(s, c).harm
  <2>1. CASE c \in DOMAIN s.conns
    <3>1. Fields(Aim!aim_clearhandlers(s, c)) =
             <<s.xfer, [s.conns EXCEPT ![c] = Cleared(s.conns[c])], s.io, s.open, s.harm, s.past>>
      BY <2>1, ClearIs
    <3> QED BY <3>1 DEF Fields
  <2>2. CASE c \notin DOMAIN s.conns
    BY <1>2, <2>2 DEF Aim!aim_clearhandlers
  <2> QED BY <2>1, <2>2
<1>4. s.harm \subseteq Aim!Shut(s, c).harm
  <2>1. CASE c \in DOMAIN s.conns
    <3>1. Fields(Aim!Shut(s, c)) =
             <<s.xfer, [s.conns EXCEPT ![c] = Unopened(s.conns[c])], s.io,
               Closed(s.open, s.conns[c].fd), Hit(s, s.conns[c].fd), s.past>>
      BY <2>1, ShutIs
    <3> QED BY <1>1, <3>1 DEF Fields
  <2>2. CASE c \notin DOMAIN s.conns
    BY <1>2, <2>2 DEF Aim!Shut
  <2> QED BY <2>1, <2>2
<1>5. s.harm \subseteq Aim!aim_conn_kill(s, c).harm
  <2>1. CASE c \in DOMAIN s.conns
    <3>1. Fields(Aim!aim_conn_kill(s, c)) =
             <<s.xfer, Minus(s.conns, {c}), s.io,
               Closed(s.open, s.conns[c].fd), Hit(s, s.conns[c].fd), s.past>>
      BY <2>1, KillIs
    <3> QED BY <1>1, <3>1 DEF Fields
  <2>2. CASE c \notin DOMAIN s.conns
    BY <2>2, KillIs
  <2> QED BY <2>1, <2>2
<1> QED BY <1>3, <1>4, <1>5

-----------------------------------------------------------------------------
(* What is left of a state when transfers end.                             *)
Tied(s, x) ==
    LET c == s.xfer[x].conn
    IN  c = <<x, "accepted">> /\ c \in DOMAIN s.conns /\ "dead" \in s.conns[c].handlers

SameXfer(v, w) == v.type = w.type /\ v.status = w.status /\ v.conn = w.conn

(* No more transfers, connections or handlers than before.                 *)
Fewer(s, t) ==
    /\ Aim!Listed(t) \subseteq Aim!Listed(s)
    /\ \A x \in Aim!Listed(t) : SameXfer(t.xfer[x], s.xfer[x]) /\ (Tied(s, x) => Tied(t, x))
    /\ DOMAIN t.conns \subseteq DOMAIN s.conns
    /\ \A c \in DOMAIN t.conns : t.conns[c].handlers \subseteq s.conns[c].handlers

LEMMA FewerTrans ==
    ASSUME NEW s, NEW t, NEW u, Fewer(s, t), Fewer(t, u)
    PROVE  Fewer(s, u)
BY DEF Fewer, SameXfer

LEMMA FewerSame ==
    ASSUME NEW s, NEW t, t.xfer = s.xfer, t.conns = s.conns
    PROVE  Fewer(s, t)
BY DEF Fewer, SameXfer, Tied, Aim!Listed

LEMMA FewerWithout ==
    ASSUME NEW s, NEW t, NEW x, x \notin Aim!Listed(t), Aim!Listed(t) \subseteq Aim!Listed(s),
           \A y \in Aim!Listed(t) : t.xfer[y] = s.xfer[y],
           DOMAIN t.conns \subseteq DOMAIN s.conns,
           \A d \in DOMAIN t.conns : t.conns[d].handlers \subseteq s.conns[d].handlers,
           \A d \in DOMAIN s.conns : d[1] # x =>
              d \in DOMAIN t.conns /\ t.conns[d].handlers = s.conns[d].handlers
    PROVE  Fewer(s, t)
<1>1. ASSUME NEW y \in Aim!Listed(t), Tied(s, y) PROVE Tied(t, y)
  <2> DEFINE c == <<y, "accepted">>
  <2>1. s.xfer[y].conn = c /\ c \in DOMAIN s.conns /\ "dead" \in s.conns[c].handlers /\ y # x
    BY <1>1 DEF Tied
  <2>2. c[1] # x
    BY <2>1
  <2> HIDE DEF c
  <2>3. t.xfer[y].conn = c /\ c \in DOMAIN t.conns /\ "dead" \in t.conns[c].handlers
    BY <2>1, <2>2
  <2> QED BY <2>3 DEF Tied, c
<1>2. \A y \in Aim!Listed(t) : SameXfer(t.xfer[y], s.xfer[y])
  BY DEF SameXfer
<1> QED BY <1>1, <1>2 DEF Fewer

LEMMA EndedFewer ==
    ASSUME NEW X, NEW s \in AimSt(X), NEW x \in Aim!Listed(s), NEW t,
           t.xfer = Minus(s.xfer, {x}),
           \/ t.conns = s.conns
           \/ /\ s.xfer[x].conn \in DOMAIN s.conns \cup {Aim!NULL}
              /\ t.conns \in {Rest(s, s.xfer[x].conn, TRUE), Rest(s, s.xfer[x].conn, FALSE)}
    PROVE  x \notin Aim!Listed(t) /\ Fewer(s, t)
<1> DEFINE c == s.xfer[x].conn
<1>1. s.xfer \in AimXfers(X) /\ s.conns \in AimConns(X) /\ x \in DOMAIN s.xfer
  BY StFields DEF Aim!Listed
<1>2. c \in Names(X) \cup {Aim!NULL} /\ (c # Aim!NULL => c[1] = x)
  <2>1. Own(s.xfer[x], x) /\ c \in Names(X) \cup {Aim!NULL}
    BY <1>1, XfersAre
  <2> QED BY <2>1 DEF Own
<1>3. \/ t.conns = s.conns
      \/ c \in DOMAIN s.conns /\ t.conns = Minus(s.conns, {c})
      \/ c \in DOMAIN s.conns /\ t.conns = [s.conns EXCEPT ![c] = Unopened(Cleared(s.conns[c]))]
  BY DEF Rest
<1> HIDE DEF c
<1>4. Aim!Listed(t) = Aim!Listed(s) \ {x} /\ \A y \in Aim!Listed(t) : t.xfer[y] = s.xfer[y]
  BY DEF Aim!Listed, Minus
<1>5. /\ DOMAIN t.conns \subseteq DOMAIN s.conns
      /\ \A d \in DOMAIN t.conns : t.conns[d].handlers \subseteq s.conns[d].handlers
      /\ \A d \in DOMAIN s.conns : d # c => d \in DOMAIN t.conns /\ t.conns[d] = s.conns[d]
  <2>1. CASE t.conns = s.conns
    BY <2>1
  <2>2. CASE c \in DOMAIN s.conns /\ t.conns = Minus(s.conns, {c})
    BY <2>2 DEF Minus
  <2>3. CASE c \in DOMAIN s.conns /\ t.conns = [s.conns EXCEPT ![c] = Unopened(Cleared(s.conns[c]))]
    <3>1. s.conns[c] \in AimConn(X)
      BY <1>1, <2>3, ConnsAre
    <3>2. Unopened(Cleared(s.conns[c])).handlers = {}
      BY <3>1 DEF Unopened, Cleared, AimConn
    <3>3. DOMAIN t.conns = DOMAIN s.conns /\ t.conns[c] = Unopened(Cleared(s.conns[c]))
          /\ \A d \in DOMAIN s.conns : d # c => t.conns[d] = s.conns[d]
      BY <2>3
    <3> QED BY <3>2, <3>3
  <2> QED BY <1>3, <2>1, <2>2, <2>3
<1>6. \A d \in DOMAIN s.conns : d[1] # x => d # c
  <2>1. \A d \in DOMAIN s.conns : d # Aim!NULL
    BY <1>1, ConnsAre, NamesAre
  <2> QED BY <1>2, <2>1
<1>7. Fewer(s, t)
  BY <1>4, <1>5, <1>6, FewerWithout
<1> QED BY <1>4, <1>7

LEMMA AbortOutFewer ==
    ASSUME NEW X, NEW s \in AimSt(X), NEW x \in X, Unharmed(Aim!Abort(s, x, FALSE))
    PROVE  /\ x \in Aim!Listed(s) /\ x \notin Aim!Listed(Aim!Abort(s, x, FALSE))
           /\ Fewer(s, Aim!Abort(s, x, FALSE))
<1> DEFINE t == Aim!Abort(s, x, FALSE)
<1>1. x \in Aim!Listed(s)
  BY AbortOutListed
<1>2. CASE ~s.xfer[x].info
  <2>1. Fields(t) = <<Minus(s.xfer, {x}), s.conns, Minus(s.io, {Aim!Of(x)}), s.open, s.harm, s.past>>
    BY <1>1, <1>2, AbortOutPlain
  <2> HIDE DEF t
  <2>2. t.xfer = Minus(s.xfer, {x}) /\ t.conns = s.conns
    BY <2>1 DEF Fields
  <2>3. x \notin Aim!Listed(t) /\ Fewer(s, t)
    BY <1>1, <2>2, EndedFewer
  <2> QED BY <1>1, <2>3 DEF t
<1>3. CASE s.xfer[x].info
  <2>1. s.xfer[x].conn \in DOMAIN s.conns \cup {Aim!NULL} /\ Fields(t) = Ended(s, x, FALSE)
    BY <1>1, <1>3, AbortOutEnds
  <2> HIDE DEF t
  <2>2. t.xfer = Minus(s.xfer, {x}) /\ t.conns = Rest(s, s.xfer[x].conn, FALSE)
    BY <2>1 DEF Fields, Ended
  <2>3. x \notin Aim!Listed(t) /\ Fewer(s, t)
    BY <1>1, <2>1, <2>2, EndedFewer
  <2> QED BY <1>1, <2>3 DEF t
<1> QED BY <1>2, <1>3

LEMMA AbortInFewer ==
    ASSUME NEW X, NEW s \in AimSt(X), NEW x \in X, Unharmed(Aim!Abort(s, x, TRUE))
    PROVE  /\ x \in Aim!Listed(s) /\ x \notin Aim!Listed(Aim!Abort(s, x, TRUE))
           /\ Fewer(s, Aim!Abort(s, x, TRUE))
<1> DEFINE t == Aim!Abort(s, x, TRUE)
<1>1. x \in Aim!Listed(s)
  BY AbortInListed
<1>2. CASE ~s.xfer[x].info
  <2>1. Fields(t) = <<Minus(s.xfer, {x}), s.conns, Minus(s.io, {Aim!Of(x)}), s.open, s.harm, s.past>>
    BY <1>1, <1>2, AbortInPlain
  <2> HIDE DEF t
  <2>2. t.xfer = Minus(s.xfer, {x}) /\ t.conns = s.conns
    BY <2>1 DEF Fields
  <2>3. x \notin Aim!Listed(t) /\ Fewer(s, t)
    BY <1>1, <2>2, EndedFewer
  <2> QED BY <1>1, <2>3 DEF t
<1>3. CASE s.xfer[x].info
  <2>1. s.xfer[x].conn \in DOMAIN s.conns \cup {Aim!NULL} /\ Fields(t) = Ended(s, x, TRUE)
    BY <1>1, <1>3, AbortInEnds
  <2> HIDE DEF t
  <2>2. t.xfer = Minus(s.xfer, {x}) /\ t.conns = Rest(s, s.xfer[x].conn, TRUE)
    BY <2>1 DEF Fields, Ended
  <2>3. x \notin Aim!Listed(t) /\ Fewer(s, t)
    BY <1>1, <2>1, <2>2, EndedFewer
  <2> QED BY <1>1, <2>3 DEF t
<1> QED BY <1>2, <1>3

LEMMA FewerCleared ==
    ASSUME NEW X, NEW s \in AimSt(X), NEW c \in DOMAIN s.conns, c[1] \notin Aim!Listed(s)
    PROVE  Fewer(s, Aim!aim_clearhandlers(s, c)) /\ Fewer(s, Aim!aim_conn_kill(s, c))
<1>1. c \in Names(X) /\ s.conns \in AimConns(X) /\ s.conns[c] \in AimConn(X)
  BY StFields, ConnsAre
<1>2. Fewer(s, Aim!aim_clearhandlers(s, c))
  <2> DEFINE t == Aim!aim_clearhandlers(s, c)
  <2>1. t.xfer = s.xfer /\ t.conns = [s.conns EXCEPT ![c] = Cleared(s.conns[c])]
    <3>1. Fields(t) = <<s.xfer, [s.conns EXCEPT ![c] = Cleared(s.conns[c])], s.io, s.open, s.harm, s.past>>
      BY ClearDoes
    <3> QED BY <3>1 DEF Fields
  <2> HIDE DEF t
  <2>2. DOMAIN t.conns = DOMAIN s.conns /\ t.conns[c].handlers = {}
        /\ \A d \in DOMAIN s.conns : d # c => t.conns[d] = s.conns[d]
    BY <1>1, <2>1 DEF Cleared, AimConn
  <2>3. \A d \in DOMAIN t.conns : t.conns[d].handlers \subseteq s.conns[d].handlers
    BY <2>2
  <2>4. \A d \in DOMAIN s.conns : d[1] # c[1] => d \in DOMAIN t.conns /\ t.conns[d].handlers = s.conns[d].handlers
    BY <2>2
  <2>5. Aim!Listed(t) = Aim!Listed(s)
    BY <2>1 DEF Aim!Listed
  <2>6. Fewer(s, t)
    BY <2>1, <2>2, <2>3, <2>4, <2>5, FewerWithout
  <2> QED BY <2>6 DEF t
<1>3. Fewer(s, Aim!aim_conn_kill(s, c))
  <2> DEFINE t == Aim!aim_conn_kill(s, c)
  <2>1. t.xfer = s.xfer /\ t.conns = Minus(s.conns, {c})
    <3>1. Fields(t) = <<s.xfer, Minus(s.conns, {c}), s.io, Closed(s.open, s.conns[c].fd),
                        Hit(s, s.conns[c].fd), s.past>>
      BY KillDoes
    <3> QED BY <3>1 DEF Fields
  <2> HIDE DEF t
  <2>2. DOMAIN t.conns = DOMAIN s.conns \ {c} /\ \A d \in DOMAIN s.conns \ {c} : t.conns[d] = s.conns[d]
    BY <2>1 DEF Minus
  <2>3. \A d \in DOMAIN s.conns : d[1] # c[1] => d \in DOMAIN t.conns /\ t.conns[d].handlers = s.conns[d].handlers
    BY <2>2
  <2>4. Aim!Listed(t) = Aim!Listed(s)
    BY <2>1 DEF Aim!Listed
  <2>5. \A d \in DOMAIN t.conns : t.conns[d].handlers \subseteq s.conns[d].handlers
    BY <2>2
  <2>6. DOMAIN t.conns \subseteq DOMAIN s.conns /\ c[1] \notin Aim!Listed(t)
    BY <2>2, <2>4
  <2>7. Fewer(s, t)
    BY <2>1, <2>3, <2>4, <2>5, <2>6, FewerWithout
  <2> QED BY <2>7 DEF t
<1> QED BY <1>2, <1>3

(* A session may have been lost, in the middle of a connection or not, and *)
(* a file without a name refused; and in a calm state, no transfer was     *)
(* forgotten.                                                              *)
Usual(s) == Unharmed(s) /\ s.past \subseteq {"lost", "midway", "unnamed"}
Calm(s)  == s.past \subseteq {"midway", "unnamed"}

(* What a connection is shows in its handlers and in its transfer.         *)
Named(s, c) ==
    /\ c[2] # "redialled"
    /\ "prompt" \in s.conns[c].handlers => c[2] = "dialled"
    /\ c[2] = "dialled" /\ c[1] \in Aim!Listed(s) => s.xfer[c[1]].conn # Aim!NULL

(* A file that is sent has a connection, whose handler will tell it if it  *)
(* is active.                                                              *)
Marked(s) ==
    /\ \A x \in Aim!Listed(s) :
          s.xfer[x].type = "send" =>
             s.xfer[x].conn # Aim!NULL /\ (s.xfer[x].status = "WAITING" \/ Tied(s, x))
    /\ \A c \in DOMAIN s.conns : Named(s, c)

(* What a lost session leaves: peers that were being dialled.              *)
Alone(s) ==
    /\ \A c \in DOMAIN s.conns : c[2] = "dialled"
    /\ \A x \in Aim!Listed(s) : s.xfer[x].status = "WAITING" \/ s.xfer[x].type = "recv"

(* A connection is that of its transfer, or it is closed, its transfer has *)
(* ended in aim_file_recv_accept, and aim_kill_all_conn is to free it.     *)
Live(s, c) == c[1] \in Aim!Listed(s) /\ s.xfer[c[1]].conn = c
Dead(s, c) == c[1] \notin Aim!Listed(s) /\ s.conns[c].handlers = {} /\ s.conns[c].fd = Aim!None
              /\ "unnamed" \in s.past

(* Transfers and connections belong together.                              *)
Owned(s) ==
    /\ \A x \in Aim!Listed(s) : s.xfer[x].info /\ s.xfer[x].known
                            /\ (s.xfer[x].conn # Aim!NULL => s.xfer[x].fp)
    /\ \A c \in DOMAIN s.conns : Live(s, c) \/ Dead(s, c)

(* A source is that of the connection: one of its descriptor.              *)
Watches(s, c, k) ==
    /\ k \in DOMAIN s.io
    /\ s.conns[c].fd = IF s.io[k].callback = "connected" THEN Aim!None ELSE s.io[k].fd
    /\ s.io[k].callback \in {"event", "send_data", "recv_data"} => s.xfer[c[1]].sock = s.io[k].fd

(* A connection is watched while the peers shake hands, then its transfer. *)
Heard(s, c) ==
    \/ /\ Watches(s, c, c) /\ Aim!Of(c[1]) \notin DOMAIN s.io
       /\ s.io[c].callback # "listening" => "dead" \in s.conns[c].handlers
    \/ Watches(s, c, Aim!Of(c[1])) /\ c \notin DOMAIN s.io

(* Each source has a descriptor of its own and belongs to a connection;    *)
(* and in an untroubled session every descriptor has a source.             *)
Sources(s) ==
    /\ \A k \in DOMAIN s.io :
          /\ s.io[k].fd \in Fds /\ s.open[s.io[k].fd] = "ours"
          /\ \E c \in DOMAIN s.conns : Live(s, c) /\ k \in {c, Aim!Of(c[1])}
    /\ \A j, k \in DOMAIN s.io : s.io[j].fd = s.io[k].fd => j = k
    /\ s.past = {} => \A f \in Fds : s.open[f] = "ours" => \E k \in DOMAIN s.io : s.io[k].fd = f

(* Between two callbacks.                                                  *)
Sane(s) ==
    /\ Owned(s)
    /\ \A x \in Aim!Listed(s) : s.xfer[x].conn \in DOMAIN s.conns \cup {Aim!NULL}
    /\ \A c \in DOMAIN s.conns : Live(s, c) => Heard(s, c)
    /\ Sources(s)

(* In the loop over the connections: none of them is watched any more.     *)
Shutting(s) ==
    /\ Owned(s)
    /\ DOMAIN s.io \subseteq {Aim!Of(x) : x \in Aim!Listed(s)}
    /\ \A c \in DOMAIN s.conns : s.conns[c].fd # Aim!None => s.open[s.conns[c].fd] = "ours"
    /\ \A c, d \in DOMAIN s.conns : s.conns[c].fd # Aim!None /\ s.conns[c].fd = s.conns[d].fd => c = d
    /\ s.past = {} => \A f \in Fds : s.open[f] = "ours" => \E c \in DOMAIN s.conns : s.conns[c].fd = f


-----------------------------------------------------------------------------
(* Steps that end transfers and close connections, and no more.            *)
Tame(X, s, t) ==
    /\ t \in AimSt(X) /\ s.past \subseteq t.past /\ (Unharmed(t) => Unharmed(s))
    /\ Usual(t) => Fewer(s, t)

LEMMA TameTrans ==
    ASSUME NEW X, NEW s, NEW t, NEW u, Tame(X, s, t), Tame(X, t, u)
    PROVE  Tame(X, s, u)
<1>1. ASSUME Usual(u) PROVE Fewer(s, u)
  <2>1. Usual(t)
    BY <1>1 DEF Tame, Usual
  <2> QED BY <1>1, <2>1, FewerTrans DEF Tame
<1> QED BY <1>1 DEF Tame

LEMMA TameSame ==
    ASSUME NEW X, NEW s, NEW t \in AimSt(X), t.xfer = s.xfer, t.conns = s.conns,
           s.past \subseteq t.past, s.harm \subseteq t.harm
    PROVE  Tame(X, s, t)
<1>1. Unharmed(t) => Unharmed(s)
  BY DEF Unharmed
<1> QED BY <1>1, FewerSame DEF Tame

LEMMA TameHarm ==
    ASSUME NEW X, NEW s \in AimSt(X)
    PROVE  Tame(X, s, Aim!Harm(s, "freed"))
<1>1. Aim!Harm(s, "freed") \in AimSt(X) /\ Aim!Harm(s, "freed").past = s.past /\ ~Unharmed(Aim!Harm(s, "freed"))
  BY HarmIs DEF Fields
<1> QED BY <1>1 DEF Tame, Usual

LEMMA TamePast ==
    ASSUME NEW X, NEW s \in AimSt(X),
           NEW w \in {"midway", "unnamed", "lost", "again", "offline", "refused", "vanished",
                      "noname"}
    PROVE  Tame(X, s, Aim!Past(s, w))
<1>1. Aim!Past(s, w) \in AimSt(X)
      /\ Fields(Aim!Past(s, w)) = <<s.xfer, s.conns, s.io, s.open, s.harm, s.past \cup {w}>>
  BY PastIs
<1>2. Aim!Past(s, w).xfer = s.xfer /\ Aim!Past(s, w).conns = s.conns /\ Aim!Past(s, w).harm = s.harm
      /\ Aim!Past(s, w).past = s.past \cup {w}
  BY <1>1 DEF Fields
<1> QED BY <1>1, <1>2, TameSame

LEMMA TameDel ==
    ASSUME NEW X, NEW s \in AimSt(X), NEW k
    PROVE  Tame(X, s, Aim!pork_io_del(s, k))
<1> DEFINE t == Aim!pork_io_del(s, k)
<1>1. t \in AimSt(X) /\ Fields(t) = <<s.xfer, s.conns, Minus(s.io, {k}), s.open, s.harm, s.past>>
  BY DelIs
<1> HIDE DEF t
<1>2. t.xfer = s.xfer /\ t.conns = s.conns /\ t.harm = s.harm /\ t.past = s.past
  BY <1>1 DEF Fields
<1>3. Tame(X, s, t)
  BY <1>1, <1>2, TameSame
<1> QED BY <1>3 DEF t

LEMMA TameAdd ==
    ASSUME NEW X, NEW s \in AimSt(X), NEW k \in Nodes(X), NEW fd \in Fds \cup {Aim!None},
           NEW cb \in {"listening", "connected", "event", "send_data", "recv_data"}
    PROVE  Tame(X, s, Aim!pork_io_add(s, k, cb, fd))
<1> DEFINE t == Aim!pork_io_add(s, k, cb, fd)
<1>1. t \in AimSt(X)
      /\ Fields(t) = <<s.xfer, s.conns, Plus(s.io, k, [callback |-> cb, fd |-> fd]), s.open, s.harm,
                       s.past>>
  BY AddIs
<1> HIDE DEF t
<1>2. t.xfer = s.xfer /\ t.conns = s.conns /\ t.harm = s.harm /\ t.past = s.past
  BY <1>1 DEF Fields
<1>3. Tame(X, s, t)
  BY <1>1, <1>2, TameSame
<1> QED BY <1>3 DEF t

LEMMA TameClose ==
    ASSUME NEW X, NEW s \in AimSt(X), NEW fd \in Fds \cup {Aim!None}
    PROVE  Tame(X, s, Aim!Close(s, fd))
<1> DEFINE t == Aim!Close(s, fd)
<1>1. t \in AimSt(X)
      /\ Fields(t) = <<s.xfer, s.conns, s.io, Closed(s.open, fd), Hit(s, fd), s.past>>
  BY CloseIs
<1> HIDE DEF t
<1>2. t.xfer = s.xfer /\ t.conns = s.conns /\ t.harm = Hit(s, fd) /\ t.past = s.past
  BY <1>1 DEF Fields
<1>3. s.harm \subseteq Hit(s, fd)
  BY DEF Hit
<1>4. Tame(X, s, t)
  BY <1>1, <1>2, <1>3, TameSame
<1> QED BY <1>4 DEF t

LEMMA TameOpen ==
    ASSUME NEW X, NEW s \in AimSt(X), NEW f \in Fds
    PROVE  Tame(X, s, Aim!Open(s, f))
<1> DEFINE t == Aim!Open(s, f)
<1>1. t \in AimSt(X)
      /\ Fields(t) = <<s.xfer, s.conns, s.io, [s.open EXCEPT ![f] = "ours"], s.harm, s.past>>
  BY OpenIs
<1> HIDE DEF t
<1>2. t.xfer = s.xfer /\ t.conns = s.conns /\ t.harm = s.harm /\ t.past = s.past
  BY <1>1 DEF Fields
<1>3. Tame(X, s, t)
  BY <1>1, <1>2, TameSame
<1> QED BY <1>3 DEF t

LEMMA TameAbortOut ==
    ASSUME NEW X, NEW s \in AimSt(X), NEW x \in X
    PROVE  Tame(X, s, Aim!Abort(s, x, FALSE))
<1> DEFINE t == Aim!Abort(s, x, FALSE)
<1>1. t \in AimSt(X) /\ t.past = s.past
  BY AbortOutKind
<1>2. Unharmed(t) => Fewer(s, t)
  BY AbortOutFewer
<1>3. ASSUME Unharmed(t) PROVE Unharmed(s)
  <2>1. x \in Aim!Listed(s)
    BY <1>3, AbortOutListed
  <2>2. CASE ~s.xfer[x].info
    <3>1. Fields(t) = <<Minus(s.xfer, {x}), s.conns, Minus(s.io, {Aim!Of(x)}), s.open, s.harm, s.past>>
      BY <2>1, <2>2, AbortOutPlain
    <3> HIDE DEF t
    <3>2. t.harm = s.harm
      BY <3>1 DEF Fields
    <3> QED BY <1>3, <3>2 DEF Unharmed
  <2>3. CASE s.xfer[x].info
    <3>1. Fields(t) = Ended(s, x, FALSE)
      BY <1>3, <2>1, <2>3, AbortOutEnds
    <3> HIDE DEF t
    <3>2. t.harm = Hit(s, Fd(s, s.xfer[x].conn))
      BY <3>1 DEF Fields, Ended
    <3> QED BY <1>3, <3>2 DEF Unharmed, Hit
  <2> QED BY <2>2, <2>3
<1> QED BY <1>1, <1>2, <1>3 DEF Tame, Usual

LEMMA TameAbortIn ==
    ASSUME NEW X, NEW s \in AimSt(X), NEW x \in X
    PROVE  Tame(X, s, Aim!Abort(s, x, TRUE))
<1> DEFINE t == Aim!Abort(s, x, TRUE)
<1>1. t \in AimSt(X) /\ t.past = s.past
  BY AbortInKind
<1>2. Unharmed(t) => Fewer(s, t)
  BY AbortInFewer
<1>3. ASSUME Unharmed(t) PROVE Unharmed(s)
  <2>1. x \in Aim!Listed(s)
    BY <1>3, AbortInListed
  <2>2. CASE ~s.xfer[x].info
    <3>1. Fields(t) = <<Minus(s.xfer, {x}), s.conns, Minus(s.io, {Aim!Of(x)}), s.open, s.harm, s.past>>
      BY <2>1, <2>2, AbortInPlain
    <3> HIDE DEF t
    <3>2. t.harm = s.harm
      BY <3>1 DEF Fields
    <3> QED BY <1>3, <3>2 DEF Unharmed
  <2>3. CASE s.xfer[x].info
    <3>1. Fields(t) = Ended(s, x, TRUE)
      BY <1>3, <2>1, <2>3, AbortInEnds
    <3> HIDE DEF t
    <3>2. t.harm = Hit(s, Fd(s, s.xfer[x].conn))
      BY <3>1 DEF Fields, Ended
    <3> QED BY <1>3, <3>2 DEF Unharmed, Hit
  <2> QED BY <2>2, <2>3
<1> QED BY <1>1, <1>2, <1>3 DEF Tame, Usual

LEMMA TameComplete ==
    ASSUME NEW X, NEW s \in AimSt(X), NEW x \in Aim!Listed(s)
    PROVE  Tame(X, s, Aim!Complete(s, x))
<1> DEFINE t == Aim!Complete(s, x)
<1>1. t \in AimSt(X) /\ t.past = s.past
  BY CompleteKind
<1>2. ASSUME Unharmed(t) PROVE Unharmed(s) /\ Fewer(s, t)
  <2> DEFINE c == s.xfer[x].conn
  <2>1. c \in DOMAIN s.conns \cup {Aim!NULL}
        /\ Fields(t) = <<Minus(s.xfer, {x}), Rest(s, c, FALSE), Minus(s.io, {Aim!Of(x)}),
                         Closed(s.open, Fd(s, c)), Hit(s, Fd(s, c)), s.past>>
    BY <1>2, CompleteEnds
  <2> HIDE DEF t
  <2>2. t.xfer = Minus(s.xfer, {x}) /\ t.conns = Rest(s, c, FALSE) /\ t.harm = Hit(s, Fd(s, c))
    BY <2>1 DEF Fields
  <2>3. Fewer(s, t)
    BY <2>1, <2>2, EndedFewer
  <2> QED BY <1>2, <2>2, <2>3 DEF Unharmed, Hit
<1> QED BY <1>1, <1>2 DEF Tame, Usual

(* A connection whose death ends nothing.                                  *)
Loose(s, c) == "dead" \notin s.conns[c].handlers \/ c[1] \notin Aim!Listed(s) \/ c[2] # "accepted"

LEMMA FewerLoose ==
    ASSUME NEW X, NEW s \in AimSt(X), NEW c \in DOMAIN s.conns, Loose(s, c), NEW t,
           t.xfer = s.xfer, DOMAIN t.conns \subseteq DOMAIN s.conns,
           \A d \in DOMAIN t.conns : t.conns[d].handlers \subseteq s.conns[d].handlers,
           \A d \in DOMAIN s.conns : d # c => d \in DOMAIN t.conns /\ t.conns[d] = s.conns[d]
    PROVE  Fewer(s, t)
<1>1. ASSUME NEW y \in Aim!Listed(t), Tied(s, y) PROVE Tied(t, y)
  <2> DEFINE d == <<y, "accepted">>
  <2>1. s.xfer[y].conn = d /\ d \in DOMAIN s.conns /\ "dead" \in s.conns[d].handlers
    BY <1>1 DEF Tied
  <2>2. d # c
    <3>1. d[1] = y /\ d[2] = "accepted" /\ y \in Aim!Listed(s)
      BY DEF Aim!Listed
    <3> HIDE DEF d
    <3> QED BY <2>1, <3>1 DEF Loose
  <2> HIDE DEF d
  <2>3. t.xfer[y].conn = d /\ d \in DOMAIN t.conns /\ "dead" \in t.conns[d].handlers
    BY <2>1, <2>2
  <2> QED BY <2>3 DEF Tied, d
<1> QED BY <1>1 DEF Fewer, SameXfer, Aim!Listed

LEMMA TameClear ==
    ASSUME NEW X, NEW s \in AimSt(X), NEW c \in Names(X), Usual(s) /\ c \in DOMAIN s.conns => Loose(s, c)
    PROVE  Tame(X, s, Aim!aim_clearhandlers(s, c))
<1>1. CASE c \notin DOMAIN s.conns
  <2>1. Aim!aim_clearhandlers(s, c) = Aim!Harm(s, "freed")
    BY <1>1, NamesAre DEF Aim!aim_clearhandlers
  <2> QED BY <2>1, TameHarm
<1>0. CASE ~Usual(s)
  <2>1. Aim!aim_clearhandlers(s, c) \in AimSt(X) /\ Aim!aim_clearhandlers(s, c).past = s.past
    BY ClearIs
  <2>2. Unharmed(Aim!aim_clearhandlers(s, c)) => Unharmed(s)
    BY HarmsGrow DEF Unharmed
  <2> QED BY <1>0, <2>1, <2>2 DEF Tame, Usual
<1>2. CASE c \in DOMAIN s.conns /\ Usual(s)
  <2> DEFINE t == Aim!aim_clearhandlers(s, c)
  <2>1. t \in AimSt(X) /\ t.past = s.past
    BY ClearIs
  <2>2. Fields(t) = <<s.xfer, [s.conns EXCEPT ![c] = Cleared(s.conns[c])], s.io, s.open, s.harm, s.past>>
    BY <1>2, ClearDoes
  <2>3. s.conns[c] \in AimConn(X)
    BY <1>2, StFields, ConnsAre
  <2> HIDE DEF t
  <2>4. t.xfer = s.xfer /\ t.conns = [s.conns EXCEPT ![c] = Cleared(s.conns[c])] /\ t.harm = s.harm
    BY <2>2 DEF Fields
  <2>5. DOMAIN t.conns = DOMAIN s.conns /\ t.conns[c].handlers = {}
        /\ \A d \in DOMAIN s.conns : d # c => t.conns[d] = s.conns[d]
    BY <1>2, <2>3, <2>4 DEF Cleared, AimConn
  <2>6. \A d \in DOMAIN t.conns : t.conns[d].handlers \subseteq s.conns[d].handlers
    BY <2>5
  <2>7. Fewer(s, t)
    BY <1>2, <2>4, <2>5, <2>6, FewerLoose
  <2>8. Tame(X, s, t)
    BY <2>1, <2>4, <2>7 DEF Tame, Unharmed
  <2> QED BY <2>8 DEF t
<1> QED BY <1>0, <1>1, <1>2

LEMMA TameShut ==
    ASSUME NEW X, NEW s \in AimSt(X), NEW c \in Names(X)
    PROVE  Tame(X, s, Aim!Shut(s, c))
<1>1. CASE c \notin DOMAIN s.conns
  <2>1. Aim!Shut(s, c) = Aim!Harm(s, "freed")
    BY <1>1 DEF Aim!Shut
  <2> QED BY <2>1, TameHarm
<1>2. CASE c \in DOMAIN s.conns
  <2> DEFINE t == Aim!Shut(s, c)
  <2>1. t \in AimSt(X) /\ t.past = s.past
    BY ShutIs
  <2>2. Fields(t) = <<s.xfer, [s.conns EXCEPT ![c] = Unopened(s.conns[c])], s.io,
                      Closed(s.open, s.conns[c].fd), Hit(s, s.conns[c].fd), s.past>>
    BY <1>2, ShutDoes
  <2>3. s.conns[c] \in AimConn(X)
    BY <1>2, StFields, ConnsAre
  <2> HIDE DEF t
  <2>4. t.xfer = s.xfer /\ t.conns = [s.conns EXCEPT ![c] = Unopened(s.conns[c])]
        /\ t.harm = Hit(s, s.conns[c].fd)
    BY <2>2 DEF Fields
  <2>5. DOMAIN t.conns = DOMAIN s.conns
        /\ \A d \in DOMAIN s.conns : t.conns[d].handlers = s.conns[d].handlers
    BY <1>2, <2>3, <2>4 DEF Unopened, AimConn
  <2>6. Fewer(s, t)
    BY <2>4, <2>5 DEF Fewer, SameXfer, Tied, Aim!Listed
  <2>7. s.harm \subseteq t.harm
    BY <2>4 DEF Hit
  <2>8. Tame(X, s, t)
    BY <2>1, <2>6, <2>7 DEF Tame, Unharmed
  <2> QED BY <2>8 DEF t
<1> QED BY <1>1, <1>2

LEMMA TameKill ==
    ASSUME NEW X, NEW s \in AimSt(X), NEW c \in Names(X), Usual(s) /\ c \in DOMAIN s.conns => Loose(s, c)
    PROVE  Tame(X, s, Aim!aim_conn_kill(s, c))
<1>1. CASE c \notin DOMAIN s.conns
  <2>1. Aim!aim_conn_kill(s, c) = s
    BY <1>1 DEF Aim!aim_conn_kill
  <2> QED BY <2>1, TameSame
<1>0. CASE ~Usual(s)
  <2>1. Aim!aim_conn_kill(s, c) \in AimSt(X) /\ Aim!aim_conn_kill(s, c).past = s.past
    BY KillIs
  <2>2. Unharmed(Aim!aim_conn_kill(s, c)) => Unharmed(s)
    BY HarmsGrow DEF Unharmed
  <2> QED BY <1>0, <2>1, <2>2 DEF Tame, Usual
<1>2. CASE c \in DOMAIN s.conns /\ Usual(s)
  <2> DEFINE t == Aim!aim_conn_kill(s, c)
  <2>1. t \in AimSt(X) /\ t.past = s.past
    BY KillIs
  <2>2. Fields(t) = <<s.xfer, Minus(s.conns, {c}), s.io, Closed(s.open, s.conns[c].fd),
                      Hit(s, s.conns[c].fd), s.past>>
    BY <1>2, KillDoes
  <2> HIDE DEF t
  <2>3. t.xfer = s.xfer /\ t.conns = Minus(s.conns, {c}) /\ t.harm = Hit(s, s.conns[c].fd)
    BY <2>2 DEF Fields
  <2>4. DOMAIN t.conns = DOMAIN s.conns \ {c} /\ \A d \in DOMAIN s.conns \ {c} : t.conns[d] = s.conns[d]
    BY <2>3 DEF Minus
  <2>5. Fewer(s, t)
    BY <1>2, <2>3, <2>4, FewerLoose
  <2>6. s.harm \subseteq t.harm
    BY <2>3 DEF Hit
  <2>7. Tame(X, s, t)
    BY <2>1, <2>5, <2>6 DEF Tame, Unharmed
  <2> QED BY <2>7 DEF t
<1> QED BY <1>0, <1>1, <1>2

LEMMA ClearLeaves ==
    ASSUME NEW X, NEW s \in AimSt(X), NEW c \in Names(X)
    PROVE  LET t == Aim!aim_clearhandlers(s, c)
           IN  c \in DOMAIN t.conns => c \in DOMAIN s.conns /\ t.conns[c].handlers = {}
<1> DEFINE t == Aim!aim_clearhandlers(s, c)
<1>1. CASE c \notin DOMAIN s.conns
  <2>1. t = Aim!Harm(s, "freed")
    BY <1>1, NamesAre DEF Aim!aim_clearhandlers
  <2>2. Fields(t) = <<s.xfer, s.conns, s.io, s.open, s.harm \cup {"freed"}, s.past>>
    BY <2>1, HarmIs
  <2> HIDE DEF t
  <2>3. t.conns = s.conns
    BY <2>2 DEF Fields
  <2> QED BY <1>1, <2>3 DEF t
<1>2. CASE c \in DOMAIN s.conns
  <2>1. Fields(t) = <<s.xfer, [s.conns EXCEPT ![c] = Cleared(s.conns[c])], s.io, s.open, s.harm, s.past>>
    BY <1>2, ClearDoes
  <2>2. s.conns[c] \in AimConn(X)
    BY <1>2, StFields, ConnsAre
  <2> HIDE DEF t
  <2>3. t.conns = [s.conns EXCEPT ![c] = Cleared(s.conns[c])]
    BY <2>1 DEF Fields
  <2>4. t.conns[c].handlers = {}
    BY <1>2, <2>2, <2>3 DEF Cleared, AimConn
  <2> QED BY <1>2, <2>4 DEF t
<1> QED BY <1>1, <1>2

LEMMA TameDead ==
    ASSUME NEW X, NEW s \in AimSt(X), NEW c \in DOMAIN s.conns
    PROVE  LET t == Aim!aim_file_transfer_dead(s, c)
           IN  Tame(X, s, t) /\ (Unharmed(t) => c[1] \notin Aim!Listed(t))
<1> DEFINE x == s.conns[c].priv
           u == Aim!pork_io_del(s, Aim!Of(x))
           v == Aim!pork_io_del(u, c)
           t == Aim!aim_file_transfer_dead(s, c)
<1>1. x = c[1] /\ x \in X
  BY StFields, ConnsAre
<1>2. CASE x \notin Aim!Listed(s)
  <2>1. t = Aim!Harm(s, "freed")
    BY <1>2 DEF Aim!aim_file_transfer_dead
  <2>2. ~Unharmed(Aim!Harm(s, "freed"))
    BY HarmIs
  <2> QED BY <2>1, <2>2, TameHarm
<1>3. CASE x \in Aim!Listed(s)
  <2>1. Tame(X, s, u)
    BY TameDel
  <2>2. u \in AimSt(X)
    BY <2>1 DEF Tame
  <2>3. Tame(X, u, v)
    BY <2>2, TameDel
  <2>4. v \in AimSt(X)
    BY <2>3 DEF Tame
  <2>5. t = Aim!Abort(v, x, TRUE)
    BY <1>3 DEF Aim!aim_file_transfer_dead
  <2> HIDE DEF v, u, x
  <2>6. Tame(X, v, Aim!Abort(v, x, TRUE))
    BY <1>1, <2>4, TameAbortIn
  <2>7. Unharmed(Aim!Abort(v, x, TRUE)) => x \notin Aim!Listed(Aim!Abort(v, x, TRUE))
    BY <1>1, <2>4, AbortInFewer
  <2>8. Tame(X, s, Aim!Abort(v, x, TRUE))
    BY <2>1, <2>3, <2>6, TameTrans
  <2> QED BY <1>1, <2>5, <2>7, <2>8
<1> QED BY <1>2, <1>3

LEMMA TameConnClose ==
    ASSUME NEW X, NEW s \in AimSt(X), NEW c \in DOMAIN s.conns
    PROVE  LET t == Aim!aim_conn_close(s, c)
           IN  Tame(X, s, t) /\ (c \in DOMAIN t.conns => t.conns[c].handlers = {})
<1> DEFINE t == Aim!Shut(s, c)
           u == IF "dead" \in t.conns[c].handlers THEN Aim!aim_file_transfer_dead(t, c) ELSE t
           v == Aim!aim_clearhandlers(u, c)
<1>1. c \in Names(X) /\ s.conns[c] \in AimConn(X)
  BY StFields, ConnsAre
<1>2. Tame(X, s, t)
  BY <1>1, TameShut
<1>3. t \in AimSt(X) /\ c \in DOMAIN t.conns
  <2>1. Fields(t) = <<s.xfer, [s.conns EXCEPT ![c] = Unopened(s.conns[c])], s.io,
                      Closed(s.open, s.conns[c].fd), Hit(s, s.conns[c].fd), s.past>>
    BY ShutDoes
  <2>2. t \in AimSt(X)
    BY <1>2 DEF Tame
  <2> HIDE DEF t
  <2>3. t.conns = [s.conns EXCEPT ![c] = Unopened(s.conns[c])]
    BY <2>1 DEF Fields
  <2> QED BY <2>2, <2>3
<1>4. Tame(X, t, u) /\ (Usual(u) /\ c \in DOMAIN u.conns => Loose(u, c))
  <2>1. CASE "dead" \in t.conns[c].handlers
    <3>1. u = Aim!aim_file_transfer_dead(t, c)
      BY <2>1
    <3>2. Tame(X, t, Aim!aim_file_transfer_dead(t, c))
          /\ (Unharmed(Aim!aim_file_transfer_dead(t, c)) => c[1] \notin Aim!Listed(Aim!aim_file_transfer_dead(t, c)))
      <4> HIDE DEF t
      <4> QED BY <1>3, TameDead
    <3> HIDE DEF u
    <3> QED BY <3>1, <3>2 DEF Loose, Usual
  <2>2. CASE "dead" \notin t.conns[c].handlers
    <3>1. u = t
      BY <2>2
    <3>2. Tame(X, t, t)
      <4> HIDE DEF t
      <4> QED BY <1>3, TameSame
    <3>3. Loose(t, c)
      BY <2>2 DEF Loose
    <3> HIDE DEF t, u
    <3> QED BY <3>1, <3>2, <3>3
  <2> QED BY <2>1, <2>2
<1>5. Aim!aim_conn_close(s, c) = v
  BY DEF Aim!aim_conn_close
<1>6. u \in AimSt(X)
  BY <1>4 DEF Tame
<1> HIDE DEF u, t
<1>7. Tame(X, u, v) /\ (c \in DOMAIN v.conns => v.conns[c].handlers = {})
  BY <1>1, <1>4, <1>6, TameClear, ClearLeaves
<1>8. Tame(X, s, v)
  BY <1>2, <1>4, <1>7, TameTrans
<1> QED BY <1>5, <1>7, <1>8

LEMMA TameKilled ==
    ASSUME NEW X, NEW s \in AimSt(X), NEW c \in DOMAIN s.conns
    PROVE  Tame(X, s, Aim!Killed(s, c))
<1> DEFINE t == Aim!aim_conn_close(s, c)
           u == Aim!aim_conn_kill(t, c)
<1>1. Tame(X, s, t) /\ (c \in DOMAIN t.conns => t.conns[c].handlers = {})
  BY TameConnClose
<1>2. c \in Names(X) /\ t \in AimSt(X)
  BY <1>1, StFields, ConnsAre DEF Tame
<1>3. Aim!Killed(s, c) = u
  BY DEF Aim!Killed
<1> HIDE DEF t
<1>4. c \in DOMAIN t.conns => Loose(t, c)
  BY <1>1 DEF Loose
<1>5. Tame(X, t, u)
  BY <1>2, <1>4, TameKill
<1> QED BY <1>1, <1>3, <1>5, TameTrans

(* A transfer with another descriptor, or more of the file.                *)
Sock(v, fd)   == [v EXCEPT !.sock = fd]
Grown(v, n)    == [v EXCEPT !.sent = @ + n]
Opened(v, fd) == [v EXCEPT !.fd = fd]

LEMMA GrownIs ==
    ASSUME NEW X, NEW v \in AimXfer(X), NEW fd \in Fds \cup {Aim!None}, NEW n \in Int
    PROVE  /\ Sock(v, fd) \in AimXfer(X) /\ SameXfer(Sock(v, fd), v) /\ Sock(v, fd).sock = fd
           /\ Sock(v, fd).info = v.info /\ Sock(v, fd).known = v.known /\ Sock(v, fd).fp = v.fp
           /\ Grown(v, n) \in AimXfer(X) /\ SameXfer(Grown(v, n), v) /\ Grown(v, n).sock = v.sock
           /\ Grown(v, n).info = v.info /\ Grown(v, n).known = v.known /\ Grown(v, n).fp = v.fp
BY DEF AimXfer, Sock, Grown, SameXfer

LEMMA OpenedIs ==
    ASSUME NEW X, NEW v \in AimConn(X), NEW fd \in Fds \cup {Aim!None}
    PROVE  Opened(v, fd) \in AimConn(X) /\ Opened(v, fd).fd = fd /\ Opened(v, fd).priv = v.priv
           /\ Opened(v, fd).handlers = v.handlers
BY ConnIs DEF Opened

LEMMA ConnectedIs ==
    ASSUME NEW X, NEW s \in AimSt(X), NEW c \in DOMAIN s.conns, c[1] \in Aim!Listed(s),
           NEW fd \in Fds \cup {Aim!None}
    PROVE  LET t == Aim!Connected(s, c, fd)
               x == c[1]
           IN  /\ t \in AimSt(X)
               /\ Fields(t) = <<[s.xfer EXCEPT ![x] = Sock(s.xfer[x], fd)],
                                [s.conns EXCEPT ![c] = Opened(s.conns[c], fd)],
                                Plus(s.io, c, [callback |-> "event", fd |-> fd]),
                                s.open, s.harm, s.past>>
<1> DEFINE x == c[1]
           src == Plus(s.io, c, [callback |-> "event", fd |-> fd])
           u == Aim!pork_io_add(s, c, "event", fd)
           f == [s.conns EXCEPT ![c] = Opened(s.conns[c], fd)]
           g == [s.xfer EXCEPT ![x] = Sock(s.xfer[x], fd)]
           v == [u EXCEPT !.conns = f]
           w == [v EXCEPT !.xfer = g]
<1>1. /\ c \in Names(X) /\ s.conns[c] \in AimConn(X) /\ s.conns[c].priv = c[1]
      /\ s.xfer[x] \in AimXfer(X) /\ Own(s.xfer[x], x)
  BY StFields, ConnsAre, XfersAre DEF Aim!Listed
<1>2. c \in Nodes(X)
  BY <1>1, NamesAre
<1>3. u \in AimSt(X) /\ Fields(u) = <<s.xfer, s.conns, src, s.open, s.harm, s.past>>
  BY <1>2, AddIs
<1>4. Opened(s.conns[c], fd) \in AimConn(X) /\ Opened(s.conns[c], fd).priv = c[1]
  <2> DEFINE v0 == s.conns[c]
  <2>1. v0 \in AimConn(X) /\ v0.priv = c[1]
    BY <1>1
  <2> HIDE DEF v0
  <2>2. Opened(v0, fd) \in AimConn(X) /\ Opened(v0, fd).priv = c[1]
    BY <2>1, OpenedIs
  <2> QED BY <2>2 DEF v0
<1>5. Sock(s.xfer[x], fd) \in AimXfer(X) /\ Own(Sock(s.xfer[x], fd), x)
  BY <1>1, GrownIs DEF Own, SameXfer
<1>6. u.xfer = s.xfer /\ u.conns = s.conns /\ u.io = src /\ u.open = s.open /\ u.harm = s.harm
      /\ u.past = s.past
  <2> HIDE DEF u, src
  <2> QED BY <1>3 DEF Fields
<1>7. Aim!Connected(s, c, fd) = w
  BY <1>1, <1>3, <1>6 DEF Aim!Connected, Opened, Sock, AimSt
<1>8. v \in AimSt(X) /\ Fields(v) = <<u.xfer, f, u.io, u.open, u.harm, u.past>>
  <2>1. u \in AimSt(X) /\ f = [u.conns EXCEPT ![c] = Opened(s.conns[c], fd)] /\ c \in DOMAIN u.conns
    BY <1>3, <1>6
  <2>2. [u EXCEPT !.conns = [u.conns EXCEPT ![c] = Opened(s.conns[c], fd)]] \in AimSt(X)
        /\ Fields([u EXCEPT !.conns = [u.conns EXCEPT ![c] = Opened(s.conns[c], fd)]])
             = <<u.xfer, [u.conns EXCEPT ![c] = Opened(s.conns[c], fd)], u.io, u.open, u.harm, u.past>>
    <3> HIDE DEF u
    <3> QED BY <1>4, <2>1, PutConnIs
  <2> QED BY <2>1, <2>2
<1>9. v.xfer = s.xfer /\ v.conns = f /\ v.io = src /\ v.open = s.open /\ v.harm = s.harm
      /\ v.past = s.past
  <2> HIDE DEF u, v, f, src
  <2> QED BY <1>6, <1>8 DEF Fields
<1>10. w \in AimSt(X) /\ Fields(w) = <<g, v.conns, v.io, v.open, v.harm, v.past>>
  <2>1. v \in AimSt(X) /\ g = [v.xfer EXCEPT ![x] = Sock(s.xfer[x], fd)] /\ x \in DOMAIN v.xfer
    BY <1>8, <1>9 DEF Aim!Listed
  <2>2. [v EXCEPT !.xfer = [v.xfer EXCEPT ![x] = Sock(s.xfer[x], fd)]] \in AimSt(X)
        /\ Fields([v EXCEPT !.xfer = [v.xfer EXCEPT ![x] = Sock(s.xfer[x], fd)]])
             = <<[v.xfer EXCEPT ![x] = Sock(s.xfer[x], fd)], v.conns, v.io, v.open, v.harm, v.past>>
    <3> HIDE DEF v, x
    <3> QED BY <1>5, <2>1, PutXferIs
  <2> QED BY <2>1, <2>2
<1>11. Fields(w) = <<g, f, src, s.open, s.harm, s.past>>
  <2> HIDE DEF u, v, f, g, src, w
  <2> QED BY <1>9, <1>10
<1> QED BY <1>7, <1>10, <1>11

LEMMA TameConnected ==
    ASSUME NEW X, NEW s \in AimSt(X), NEW c \in DOMAIN s.conns, NEW fd \in Fds \cup {Aim!None}
    PROVE  Tame(X, s, Aim!Connected(s, c, fd))
<1>1. s.conns[c].priv = c[1] /\ s.conns[c] \in AimConn(X)
  BY StFields, ConnsAre
<1>2. CASE c[1] \notin Aim!Listed(s)
  <2>1. Aim!Connected(s, c, fd) = Aim!Harm(s, "freed")
    BY <1>1, <1>2 DEF Aim!Connected
  <2> QED BY <2>1, TameHarm
<1>3. CASE c[1] \in Aim!Listed(s)
  <2> DEFINE t == Aim!Connected(s, c, fd)
             x == c[1]
  <2>1. t \in AimSt(X)
        /\ Fields(t) = <<[s.xfer EXCEPT ![x] = Sock(s.xfer[x], fd)],
                         [s.conns EXCEPT ![c] = Opened(s.conns[c], fd)],
                         Plus(s.io, c, [callback |-> "event", fd |-> fd]),
                         s.open, s.harm, s.past>>
    BY <1>3, ConnectedIs
  <2>2. s.xfer[x] \in AimXfer(X)
    BY <1>3, StFields, XfersAre DEF Aim!Listed
  <2>3. SameXfer(Sock(s.xfer[x], fd), s.xfer[x]) /\ Opened(s.conns[c], fd).handlers = s.conns[c].handlers
    <3>1. SameXfer(Sock(s.xfer[x], fd), s.xfer[x])
      <4>1. 0 \in Int
        OBVIOUS
      <4> QED BY <2>2, <4>1, GrownIs
    <3>2. Opened(s.conns[c], fd).handlers = s.conns[c].handlers
      <4> DEFINE v == s.conns[c]
      <4>1. v \in AimConn(X)
        BY <1>1
      <4> HIDE DEF v
      <4>2. Opened(v, fd).handlers = v.handlers
        BY <4>1, OpenedIs
      <4> QED BY <4>2 DEF v
    <3> QED BY <3>1, <3>2
  <2> HIDE DEF t
  <2>4. t.xfer = [s.xfer EXCEPT ![x] = Sock(s.xfer[x], fd)]
        /\ t.conns = [s.conns EXCEPT ![c] = Opened(s.conns[c], fd)]
        /\ t.harm = s.harm /\ t.past = s.past
    BY <2>1 DEF Fields
  <2>5. Aim!Listed(t) = Aim!Listed(s) /\ \A y \in Aim!Listed(s) : SameXfer(t.xfer[y], s.xfer[y])
    <3>1. DOMAIN t.xfer = DOMAIN s.xfer
      BY <2>4
    <3>2. \A y \in DOMAIN s.xfer : t.xfer[y] = IF y = x THEN Sock(s.xfer[x], fd) ELSE s.xfer[y]
      BY <2>4
    <3> HIDE DEF x
    <3> QED BY <2>3, <3>1, <3>2 DEF Aim!Listed, SameXfer
  <2>6. DOMAIN t.conns = DOMAIN s.conns
        /\ \A d \in DOMAIN s.conns : t.conns[d].handlers = s.conns[d].handlers
    BY <2>3, <2>4
  <2>7. Fewer(s, t)
    BY <2>5, <2>6 DEF Fewer, SameXfer, Tied
  <2>8. Tame(X, s, t)
    BY <2>1, <2>4, <2>7 DEF Tame, Unharmed
  <2> QED BY <2>8 DEF t
<1> QED BY <1>2, <1>3

LEMMA SentIs ==
    ASSUME NEW X, NEW s \in AimSt(X), NEW x \in Aim!Listed(s), NEW n \in Int
    PROVE  LET t == [s EXCEPT !.xfer[x].sent = @ + n]
           IN  /\ t \in AimSt(X) /\ Tame(X, s, t)
               /\ Fields(t) = <<[s.xfer EXCEPT ![x] = Grown(s.xfer[x], n)], s.conns, s.io, s.open,
                                s.harm, s.past>>
<1> DEFINE g == [s.xfer EXCEPT ![x] = Grown(s.xfer[x], n)]
           t == [s EXCEPT !.xfer = g]
<1>1. s.xfer[x] \in AimXfer(X) /\ Own(s.xfer[x], x) /\ x \in DOMAIN s.xfer
  BY StFields, XfersAre DEF Aim!Listed
<1>2. Grown(s.xfer[x], n) \in AimXfer(X) /\ Own(Grown(s.xfer[x], n), x)
      /\ SameXfer(Grown(s.xfer[x], n), s.xfer[x])
  <2>1. Aim!None \in Fds \cup {Aim!None}
    OBVIOUS
  <2> QED BY <1>1, <2>1, GrownIs DEF Own, SameXfer
<1>3. [s EXCEPT !.xfer[x].sent = @ + n] = t
  BY <1>1 DEF Grown, AimSt
<1>4. t \in AimSt(X) /\ Fields(t) = <<g, s.conns, s.io, s.open, s.harm, s.past>>
  BY <1>1, <1>2, PutXferIs
<1>5. Tame(X, s, t)
  <2> HIDE DEF t
  <2>1. t.xfer = [s.xfer EXCEPT ![x] = Grown(s.xfer[x], n)] /\ t.conns = s.conns
        /\ t.harm = s.harm /\ t.past = s.past
    BY <1>4 DEF Fields
  <2>2. Aim!Listed(t) = Aim!Listed(s) /\ \A y \in Aim!Listed(s) : SameXfer(t.xfer[y], s.xfer[y])
    BY <1>2, <2>1 DEF Aim!Listed, SameXfer
  <2>3. Fewer(s, t)
    BY <2>1, <2>2 DEF Fewer, SameXfer, Tied
  <2> QED BY <1>4, <2>1, <2>3 DEF Tame, Unharmed
<1> QED BY <1>3, <1>4, <1>5

-----------------------------------------------------------------------------
(* What a callback may come to, but a connection that is accepted.         *)
LEMMA TameAborted ==
    ASSUME NEW X, NEW s, NEW t, Tame(X, s, t), NEW x \in X
    PROVE  Tame(X, s, Aim!transfer_abort(t, x))
<1>1. t \in AimSt(X)
  BY DEF Tame
<1>2. Tame(X, t, Aim!Abort(t, x, FALSE))
  BY <1>1, TameAbortOut
<1>3. Tame(X, s, Aim!Abort(t, x, FALSE))
  BY <1>2, TameTrans
<1> QED BY <1>3 DEF Aim!transfer_abort

LEMMA TameNotConnected ==
    ASSUME NEW X, NEW s \in AimSt(X), NEW c \in DOMAIN s.conns, NEW fd \in Fds \cup {Aim!None}
    PROVE  Tame(X, s, Aim!NotConnected(s, c, fd))
<1> DEFINE t == Aim!pork_io_del(s, c)
           u == Aim!Close(t, fd)
           x == s.conns[c].priv
<1>1. x \in X
  BY StFields, ConnsAre
<1>2. Tame(X, s, t)
  BY TameDel
<1>3. t \in AimSt(X)
  BY <1>2 DEF Tame
<1>4. Tame(X, t, u)
  <2> HIDE DEF t
  <2> QED BY <1>3, TameClose
<1>5. Tame(X, s, u)
  BY <1>2, <1>4, TameTrans
<1>6. Aim!NotConnected(s, c, fd) = Aim!transfer_abort(u, x)
  BY DEF Aim!NotConnected
<1> HIDE DEF u, x
<1> QED BY <1>1, <1>5, <1>6, TameAborted

LEMMA TameDialling ==
    ASSUME NEW X, NEW s \in AimSt(X), NEW c \in DOMAIN s.conns, NEW fd \in Fds \cup {Aim!None},
           NEW t \in Aim!aim_connected(s, c, fd)
    PROVE  Tame(X, s, t)
<1> DEFINE u == Aim!pork_io_del(s, c)
<1>1. u \in AimSt(X) /\ Fields(u) = <<s.xfer, s.conns, Minus(s.io, {c}), s.open, s.harm, s.past>>
  BY DelIs
<1>2. Tame(X, s, u)
  BY TameDel
<1>3. c \in DOMAIN u.conns
  <2> HIDE DEF u
  <2> QED BY <1>1 DEF Fields
<1>4. Tame(X, u, Aim!Connected(u, c, fd))
  <2> HIDE DEF u
  <2> QED BY <1>1, <1>3, TameConnected
<1>5. Tame(X, s, Aim!Connected(u, c, fd))
  BY <1>2, <1>4, TameTrans
<1>6. Tame(X, s, Aim!NotConnected(s, c, fd))
  BY TameNotConnected
<1> QED BY <1>5, <1>6 DEF Aim!aim_connected

LEMMA TameReady ==
    ASSUME NEW X, NEW s \in AimSt(X), NEW c \in DOMAIN s.conns
    PROVE  Tame(X, s, Aim!aim_file_send_ready(s, c))
<1> DEFINE x == s.conns[c].priv
           t == Aim!pork_io_del(s, c)
           u == Aim!pork_io_add(t, Aim!Of(x), "send_data", s.xfer[x].sock)
<1>1. x \in X /\ Aim!Of(x) \in Nodes(X)
  BY StFields, ConnsAre, NamesAre
<1>2. CASE x \notin Aim!Listed(s)
  BY <1>2, TameHarm DEF Aim!aim_file_send_ready
<1>3. CASE x \in Aim!Listed(s)
  <2>1. s.xfer[x].sock \in Fds \cup {Aim!None}
    BY <1>3, StFields, XfersAre DEF Aim!Listed
  <2>2. Tame(X, s, t)
    BY TameDel
  <2>3. t \in AimSt(X)
    BY <2>2 DEF Tame
  <2>4. Tame(X, t, u)
    <3> HIDE DEF t, x
    <3> QED BY <1>1, <2>1, <2>3, TameAdd
  <2>5. Tame(X, s, u)
    BY <2>2, <2>4, TameTrans
  <2> QED BY <1>3, <2>5 DEF Aim!aim_file_send_ready
<1> QED BY <1>2, <1>3

LEMMA TameDone ==
    ASSUME NEW X, NEW s \in AimSt(X), NEW c \in DOMAIN s.conns
    PROVE  Tame(X, s, Aim!aim_file_send_done(s, c))
<1> DEFINE x == s.conns[c].priv
           t == Aim!pork_io_del(s, c)
<1>2. CASE x \notin Aim!Listed(s)
  BY <1>2, TameHarm DEF Aim!aim_file_send_done
<1>3. CASE x \in Aim!Listed(s)
  <2>1. t \in AimSt(X) /\ Fields(t) = <<s.xfer, s.conns, Minus(s.io, {c}), s.open, s.harm, s.past>>
    BY DelIs
  <2>2. Tame(X, s, t)
    BY TameDel
  <2>3. x \in Aim!Listed(t)
    <3> HIDE DEF t
    <3> QED BY <1>3, <2>1 DEF Fields, Aim!Listed
  <2>4. Tame(X, t, Aim!Complete(t, x))
    <3> HIDE DEF t, x
    <3> QED BY <2>1, <2>3, TameComplete
  <2>5. Tame(X, s, Aim!Complete(t, x))
    BY <2>2, <2>4, TameTrans
  <2> QED BY <1>3, <2>5 DEF Aim!aim_file_send_done
<1> QED BY <1>2, <1>3

LEMMA TamePrompt ==
    ASSUME NEW X, NEW s \in AimSt(X), NEW c \in DOMAIN s.conns, Usual(s) => Loose(s, c),
           NEW r \in Aim!aim_file_recv_accept(s, c)
    PROVE  Tame(X, s, r)
<1> DEFINE x == s.conns[c].priv
           t == Aim!pork_io_del(s, c)
           u == Aim!aim_clearhandlers(t, c)
           v == Aim!pork_io_add(u, Aim!Of(x), "recv_data", s.xfer[x].sock)
           w == Aim!Abort(u, x, TRUE)
<1>1. x \in X /\ Aim!Of(x) \in Nodes(X) /\ c \in Names(X)
  BY StFields, ConnsAre, NamesAre
<1>2. CASE x \notin Aim!Listed(s)
  BY <1>2, TameHarm DEF Aim!aim_file_recv_accept
<1>3. CASE x \in Aim!Listed(s)
  <2>1. s.xfer[x].sock \in Fds \cup {Aim!None}
    BY <1>3, StFields, XfersAre DEF Aim!Listed
  <2>2. Tame(X, s, t)
    BY TameDel
  <2>3. t \in AimSt(X) /\ Fields(t) = <<s.xfer, s.conns, Minus(s.io, {c}), s.open, s.harm, s.past>>
    BY DelIs
  <2>4. Usual(t) /\ c \in DOMAIN t.conns => Loose(t, c)
    <3> HIDE DEF t
    <3> QED BY <2>3 DEF Fields, Loose, Aim!Listed, Unharmed, Usual
  <2>5. Tame(X, t, u)
    <3> HIDE DEF t
    <3> QED BY <1>1, <2>3, <2>4, TameClear
  <2>6. Tame(X, s, u) /\ u \in AimSt(X)
    BY <2>2, <2>5, TameTrans DEF Tame
  <2> HIDE DEF t, u
  <2>7. Tame(X, u, v)
    <3> HIDE DEF x
    <3> QED BY <1>1, <2>1, <2>6, TameAdd
  <2>8. Tame(X, s, v)
    BY <2>6, <2>7, TameTrans
  <2>9. Tame(X, u, w)
    <3> HIDE DEF x
    <3> QED BY <1>1, <2>6, TameAbortIn
  <2>10. Tame(X, s, w) /\ w \in AimSt(X)
    <3> HIDE DEF w
    <3>1. Tame(X, s, w)
      BY <2>6, <2>9, TameTrans
    <3> QED BY <3>1 DEF Tame
  <2>11. Tame(X, w, Aim!Past(w, "unnamed"))
    <3> HIDE DEF w
    <3> QED BY <2>10, TamePast
  <2>12. Tame(X, s, Aim!Past(w, "unnamed"))
    BY <2>10, <2>11, TameTrans
  <2>13. r \in {v, Aim!Past(w, "unnamed")}
    BY <1>3 DEF Aim!aim_file_recv_accept, t, u
  <2> QED BY <2>8, <2>12, <2>13
<1> QED BY <1>2, <1>3

LEMMA TameShaking ==
    ASSUME NEW X, NEW s \in AimSt(X), NEW c \in DOMAIN s.conns,
           Usual(s) /\ "prompt" \in s.conns[c].handlers => Loose(s, c),
           NEW t \in Aim!aim_conn_event(s, c)
    PROVE  Tame(X, s, t)
<1>1. s.conns[c].priv \in X
  BY StFields, ConnsAre
<1>2. CASE t = Aim!transfer_abort(s, s.conns[c].priv)
  <2>1. Tame(X, s, s)
    BY TameSame
  <2> QED BY <1>1, <1>2, <2>1, TameAborted
<1>3. CASE t = Aim!aim_conn_kill(Aim!aim_conn_close(s, c), c)
  BY <1>3, TameKilled DEF Aim!Killed
<1>4. ASSUME NEW type \in {"ack", "done", "prompt"}, t \in Aim!Frame(s, c, type)
      PROVE  Tame(X, s, t)
  <2>1. CASE type \notin s.conns[c].handlers
    <3>1. t = s
      BY <1>4, <2>1 DEF Aim!Frame
    <3> QED BY <3>1, TameSame
  <2>2. CASE type = "ack" /\ type \in s.conns[c].handlers
    <3>1. t = Aim!aim_file_send_ready(s, c)
      BY <1>4, <2>2 DEF Aim!Frame
    <3> QED BY <3>1, TameReady
  <2>3. CASE type = "done" /\ type \in s.conns[c].handlers
    <3>1. t = Aim!aim_file_send_done(s, c)
      BY <1>4, <2>3 DEF Aim!Frame
    <3> QED BY <3>1, TameDone
  <2>4. CASE type = "prompt" /\ type \in s.conns[c].handlers
    <3>1. t \in Aim!aim_file_recv_accept(s, c)
      BY <1>4, <2>4 DEF Aim!Frame
    <3> QED BY <2>4, <3>1, TamePrompt
  <2> QED BY <1>4, <2>1, <2>2, <2>3, <2>4
<1>5. \/ t = Aim!transfer_abort(s, s.conns[c].priv)
      \/ t = Aim!aim_conn_kill(Aim!aim_conn_close(s, c), c)
      \/ \E type \in {"ack", "done", "prompt"} : t \in Aim!Frame(s, c, type)
  BY DEF Aim!aim_conn_event
<1> QED BY <1>2, <1>3, <1>4, <1>5

LEMMA TameSending ==
    ASSUME NEW X, NEW s \in AimSt(X), NEW x \in Aim!Listed(s), NEW t \in Aim!transfer_send_data(s, x)
    PROVE  Tame(X, s, t)
<1> DEFINE u == [s EXCEPT !.xfer[x].sent = @ + 1]
           v == Aim!pork_io_del(u, Aim!Of(x))
<1>1. x \in X
  BY StFields, XfersAre DEF Aim!Listed
<1>2. u \in AimSt(X) /\ Tame(X, s, u)
      /\ Fields(u) = <<[s.xfer EXCEPT ![x] = Grown(s.xfer[x], 1)], s.conns, s.io, s.open,
                       s.harm, s.past>>
  BY SentIs
<1>3. t = Aim!transfer_abort(s, x) \/ t = u \/ t = Aim!Complete(v, x)
  BY DEF Aim!transfer_send_data
<1>4. Tame(X, s, Aim!transfer_abort(s, x))
  <2>1. Tame(X, s, s)
    BY TameSame
  <2> QED BY <1>1, <2>1, TameAborted
<1>5. Tame(X, s, Aim!Complete(v, x))
  <2>1. Tame(X, u, v)
    <3> HIDE DEF u
    <3> QED BY <1>2, TameDel
  <2>2. v \in AimSt(X) /\ Fields(v) = <<u.xfer, u.conns, Minus(u.io, {Aim!Of(x)}), u.open, u.harm, u.past>>
    <3> HIDE DEF u
    <3> QED BY <1>2, DelIs
  <2>3. x \in Aim!Listed(v)
    <3>1. v.xfer = u.xfer /\ u.xfer = [s.xfer EXCEPT ![x] = Grown(s.xfer[x], 1)]
      <4> HIDE DEF u, v
      <4> QED BY <1>2, <2>2 DEF Fields
    <3> HIDE DEF u, v
    <3> QED BY <3>1 DEF Aim!Listed
  <2>4. Tame(X, v, Aim!Complete(v, x))
    <3> HIDE DEF v
    <3> QED BY <2>2, <2>3, TameComplete
  <2>5. Tame(X, s, v)
    BY <1>2, <2>1, TameTrans
  <2> HIDE DEF v
  <2> QED BY <2>4, <2>5, TameTrans
<1> HIDE DEF u, v
<1> QED BY <1>2, <1>3, <1>4, <1>5

LEMMA TameReceiving ==
    ASSUME NEW X, NEW s \in AimSt(X), NEW x \in Aim!Listed(s), NEW t \in Aim!transfer_recv_data(s, x)
    PROVE  Tame(X, s, t)
<1> DEFINE u(n) == [s EXCEPT !.xfer[x].sent = @ + n]
<1>1. x \in X
  BY StFields, XfersAre DEF Aim!Listed
<1>2. \/ t = Aim!transfer_abort(s, x) \/ t = Aim!Harm(s, "freed")
      \/ \E n \in 1 .. 2 : t = u(n) \/ t = Aim!Complete(u(n), x)
  BY DEF Aim!transfer_recv_data
<1>3. Tame(X, s, Aim!transfer_abort(s, x))
  <2>1. Tame(X, s, s)
    BY TameSame
  <2> QED BY <1>1, <2>1, TameAborted
<1>4. ASSUME NEW n \in 1 .. 2 PROVE Tame(X, s, u(n)) /\ Tame(X, s, Aim!Complete(u(n), x))
  <2> DEFINE v == u(n)
  <2>1. n \in Int
    OBVIOUS
  <2>2. v \in AimSt(X) /\ Tame(X, s, v)
        /\ Fields(v) = <<[s.xfer EXCEPT ![x] = Grown(s.xfer[x], n)], s.conns, s.io, s.open,
                         s.harm, s.past>>
    BY <2>1, SentIs
  <2> HIDE DEF u, v
  <2>3. x \in Aim!Listed(v)
    <3>1. v.xfer = [s.xfer EXCEPT ![x] = Grown(s.xfer[x], n)]
      BY <2>2 DEF Fields
    <3> QED BY <3>1 DEF Aim!Listed
  <2>4. Tame(X, v, Aim!Complete(v, x))
    BY <2>2, <2>3, TameComplete
  <2>5. Tame(X, s, Aim!Complete(v, x))
    BY <2>2, <2>4, TameTrans
  <2> QED BY <2>2, <2>5 DEF v
<1> HIDE DEF u
<1> QED BY <1>2, <1>3, <1>4, TameHarm

-----------------------------------------------------------------------------
(* A connection that is accepted, and one that is dialled.                 *)
Having(s, x, v) == [s EXCEPT !.xfer = [s.xfer EXCEPT ![x] = v]]

LEMMA HavingIs ==
    ASSUME NEW X, NEW s \in AimSt(X), NEW x \in Aim!Listed(s), NEW v \in AimXfer(X), Own(v, x)
    PROVE  LET t == Having(s, x, v)
           IN  /\ t \in AimSt(X) /\ t.xfer = [s.xfer EXCEPT ![x] = v] /\ t.conns = s.conns
               /\ t.io = s.io /\ t.open = s.open /\ t.harm = s.harm /\ t.past = s.past
<1> DEFINE t == Having(s, x, v)
<1> DEFINE f == [s.xfer EXCEPT ![x] = v]
<1>1. [s EXCEPT !.xfer = f] \in AimSt(X)
      /\ Fields([s EXCEPT !.xfer = f]) = <<f, s.conns, s.io, s.open, s.harm, s.past>>
  BY PutXferIs DEF Aim!Listed
<1>2. t = [s EXCEPT !.xfer = f]
  BY DEF Having
<1> HIDE DEF f, t
<1>3. Fields(t) = <<f, s.conns, s.io, s.open, s.harm, s.past>>
  BY <1>1, <1>2
<1>4. t.xfer = f /\ t.conns = s.conns /\ t.io = s.io /\ t.open = s.open /\ t.harm = s.harm
      /\ t.past = s.past
  BY <1>3 DEF Fields
<1> QED BY <1>1, <1>2, <1>4 DEF f, t

Active(v)     == [v EXCEPT !.status = "ACTIVE"]
Taken(v, n, f) == [v EXCEPT !.sock = f, !.conn = n]

LEMMA TakenIs ==
    ASSUME NEW X, NEW v \in AimXfer(X), NEW n \in Names(X) \cup {Aim!NULL}, NEW f \in Fds \cup {Aim!None}
    PROVE  LET w == Taken(v, n, f)
           IN  /\ w \in AimXfer(X) /\ w.sock = f /\ w.conn = n /\ w.type = v.type
               /\ w.status = v.status /\ w.info = v.info /\ w.known = v.known /\ w.fp = v.fp
BY DEF AimXfer, Taken

LEMMA ActiveIs ==
    ASSUME NEW X, NEW v \in AimXfer(X)
    PROVE  LET w == Active(v)
           IN  /\ w \in AimXfer(X) /\ w.sock = v.sock /\ w.conn = v.conn /\ w.type = v.type
               /\ w.status = "ACTIVE" /\ w.info = v.info /\ w.known = v.known /\ w.fp = v.fp
BY DEF AimXfer, Active

Events == {"ack", "done", "dead"}

LEMMA AcceptedIs ==
    ASSUME NEW X, NEW s \in AimSt(X), NEW c \in DOMAIN s.conns, c[1] \in Aim!Listed(s),
           c[2] # "accepted", NEW f \in Fds, NEW t \in Aim!Accepted(s, c, f)
    PROVE  LET x == c[1]
               n == <<x, "accepted">>
               fd == s.conns[c].fd
           IN  /\ t \in AimSt(X) /\ s.past \subseteq t.past
               /\ \/ "vanished" \in t.past
                  \/ Fields(t) = <<[s.xfer EXCEPT ![x] = Active(Taken(s.xfer[x], n, f))],
                                   Minus(Plus(s.conns, n, [fd |-> f, priv |-> x, handlers |-> Events]), {c}),
                                   Plus(Minus(s.io, {c}), n, [callback |-> "event", fd |-> f]),
                                   Closed([s.open EXCEPT ![f] = "ours"], fd),
                                   Hit(Aim!Open(s, f), fd), s.past>>
<1> DEFINE x == c[1]
           n == <<x, "accepted">>
           fd == s.conns[c].fd
           N == [fd |-> f, priv |-> x, handlers |-> Events]
           o == Aim!Open(s, f)
           p == Aim!Newconn(o, n, f, Events)
           q == Having(p, x, Taken(p.xfer[x], n, f))
           d == Aim!pork_io_del(q, c)
           u == Aim!aim_conn_kill(d, c)
           a == Aim!pork_io_add(u, n, "event", f)
           w == Having(a, x, Active(a.xfer[x]))
           z == Aim!Past(Aim!Harm(Aim!Abort(u, x, TRUE), "freed"), "vanished")
<1>1. /\ c \in Names(X) /\ x \in X /\ s.xfer[x] \in AimXfer(X) /\ fd \in Fds \cup {Aim!None}
      /\ s.xfer \in AimXfers(X) /\ s.conns \in AimConns(X)
  <2>1. s.xfer \in AimXfers(X) /\ s.conns \in AimConns(X) /\ x \in DOMAIN s.xfer
    BY StFields DEF Aim!Listed
  <2>2. c \in Names(X) /\ fd \in Fds \cup {Aim!None}
    BY <2>1, ConnsAre
  <2>3. x \in X /\ s.xfer[x] \in AimXfer(X)
    BY <2>1, XfersAre
  <2> QED BY <2>1, <2>2, <2>3
<1>2. n \in Names(X) /\ n \in Nodes(X) /\ n[1] = x /\ n[2] = "accepted" /\ n # c
  <2>1. "accepted" \in Aim!Hows /\ x \in X
    BY <1>1 DEF Aim!Hows
  <2> HIDE DEF x
  <2>2. <<x, "accepted">> \in Names(X) /\ <<x, "accepted">>[1] = x /\ <<x, "accepted">>[2] = "accepted"
    BY <2>1, NamesAre
  <2>3. Names(X) \subseteq Nodes(X)
    BY NamesAre
  <2> QED BY <2>2, <2>3
<1>3. o \in AimSt(X) /\ Fields(o) = <<s.xfer, s.conns, s.io, [s.open EXCEPT ![f] = "ours"], s.harm, s.past>>
  BY OpenIs
<1>4. /\ o.xfer = s.xfer /\ o.conns = s.conns /\ o.io = s.io /\ o.open = [s.open EXCEPT ![f] = "ours"]
      /\ o.harm = s.harm /\ o.past = s.past
  <2> HIDE DEF o
  <2> QED BY <1>3 DEF Fields
<1>5. /\ p \in AimSt(X) /\ N \in AimConn(X)
      /\ Fields(p) = <<o.xfer, Plus(o.conns, n, N), o.io, o.open, o.harm, o.past>>
  <2>1. Events \in SUBSET {"established", "ack", "done", "prompt", "dead"} /\ n[1] = x
    BY <1>2 DEF Events
  <2> HIDE DEF o, n, x
  <2> QED BY <1>2, <1>3, <2>1, NewconnIs
<1>6. /\ p.xfer = s.xfer /\ p.conns = Plus(s.conns, n, N) /\ p.io = s.io
      /\ p.open = [s.open EXCEPT ![f] = "ours"] /\ p.harm = s.harm /\ p.past = s.past
  <2> HIDE DEF o, p, n, N
  <2> QED BY <1>4, <1>5 DEF Fields
<1>7. Taken(s.xfer[x], n, f) \in AimXfer(X) /\ Own(Taken(s.xfer[x], n, f), x)
      /\ Taken(s.xfer[x], n, f).status = s.xfer[x].status
  <2> HIDE DEF n, x
  <2> QED BY <1>1, <1>2, TakenIs DEF Own
<1>8. /\ q \in AimSt(X) /\ q.xfer = [s.xfer EXCEPT ![x] = Taken(s.xfer[x], n, f)]
      /\ q.conns = Plus(s.conns, n, N) /\ q.io = s.io
      /\ q.open = [s.open EXCEPT ![f] = "ours"] /\ q.harm = s.harm /\ q.past = s.past
  <2>1. x \in Aim!Listed(p) /\ q = Having(p, x, Taken(s.xfer[x], n, f))
    BY <1>6 DEF Aim!Listed
  <2> HIDE DEF p, n, N, x, q
  <2>2. q \in AimSt(X) /\ q.xfer = [p.xfer EXCEPT ![x] = Taken(s.xfer[x], n, f)] /\ q.conns = p.conns
        /\ q.io = p.io /\ q.open = p.open /\ q.harm = p.harm /\ q.past = p.past
    BY <1>5, <1>7, <2>1, HavingIs
  <2> QED BY <1>6, <2>2
<1>9. /\ d \in AimSt(X) /\ d.xfer = q.xfer /\ d.conns = q.conns /\ d.io = Minus(q.io, {c})
      /\ d.open = q.open /\ d.harm = q.harm /\ d.past = q.past
  <2> HIDE DEF q
  <2>1. d \in AimSt(X) /\ Fields(d) = <<q.xfer, q.conns, Minus(q.io, {c}), q.open, q.harm, q.past>>
    BY <1>8, DelIs
  <2> HIDE DEF d
  <2> QED BY <2>1 DEF Fields
<1>10. c \in DOMAIN d.conns /\ d.conns[c] = s.conns[c]
  <2>1. d.conns = Plus(s.conns, n, N)
    BY <1>8, <1>9
  <2> HIDE DEF d, n, N
  <2> QED BY <1>2, <2>1 DEF Plus
<1>11. /\ u \in AimSt(X) /\ u.xfer = d.xfer /\ u.conns = Minus(d.conns, {c}) /\ u.io = d.io
       /\ u.open = Closed(d.open, fd) /\ u.harm = Hit(d, fd) /\ u.past = d.past
  <2>1. d \in AimSt(X)
    BY <1>9
  <2>2. fd = d.conns[c].fd
    BY <1>10
  <2> HIDE DEF d, fd
  <2>3. u \in AimSt(X)
    BY <1>1, <2>1, KillIs
  <2>4. Fields(u) = <<d.xfer, Minus(d.conns, {c}), d.io, Closed(d.open, d.conns[c].fd),
                      Hit(d, d.conns[c].fd), d.past>>
    BY <1>10, <2>1, KillDoes
  <2> HIDE DEF u
  <2> QED BY <2>2, <2>3, <2>4 DEF Fields
<1>12. Hit(d, fd) = Hit(o, fd)
  BY <1>4, <1>8, <1>9 DEF Hit
<1>13. /\ u \in AimSt(X) /\ u.xfer = [s.xfer EXCEPT ![x] = Taken(s.xfer[x], n, f)]
       /\ u.conns = Minus(Plus(s.conns, n, N), {c}) /\ u.io = Minus(s.io, {c})
       /\ u.open = Closed([s.open EXCEPT ![f] = "ours"], fd) /\ u.harm = Hit(o, fd)
       /\ u.past = s.past
  <2> HIDE DEF u, d, q, n, N, o, fd, x
  <2> QED BY <1>8, <1>9, <1>11, <1>12
<1>14. /\ a \in AimSt(X) /\ a.xfer = u.xfer /\ a.conns = u.conns
       /\ a.io = Plus(u.io, n, [callback |-> "event", fd |-> f])
       /\ a.open = u.open /\ a.harm = u.harm /\ a.past = u.past
  <2>1. u \in AimSt(X)
    BY <1>13
  <2> HIDE DEF u, n
  <2>2. a \in AimSt(X) /\ Fields(a) = <<u.xfer, u.conns, Plus(u.io, n, [callback |-> "event", fd |-> f]),
                                        u.open, u.harm, u.past>>
    BY <1>2, <2>1, AddIs
  <2> HIDE DEF a
  <2> QED BY <2>2 DEF Fields
<1>15. /\ x \in Aim!Listed(a) /\ a.xfer[x] = Taken(s.xfer[x], n, f)
       /\ Active(Taken(s.xfer[x], n, f)) \in AimXfer(X)
       /\ Own(Active(Taken(s.xfer[x], n, f)), x)
  <2>1. a.xfer = [s.xfer EXCEPT ![x] = Taken(s.xfer[x], n, f)] /\ x \in DOMAIN s.xfer
    BY <1>13, <1>14 DEF Aim!Listed
  <2> HIDE DEF a, n, x
  <2>2. x \in Aim!Listed(a) /\ a.xfer[x] = Taken(s.xfer[x], n, f)
    BY <2>1 DEF Aim!Listed
  <2> QED BY <1>7, <2>2, ActiveIs DEF Own
<1>16. /\ w \in AimSt(X) /\ w.xfer = [a.xfer EXCEPT ![x] = Active(Taken(s.xfer[x], n, f))]
       /\ w.conns = a.conns /\ w.io = a.io /\ w.open = a.open /\ w.harm = a.harm /\ w.past = a.past
  <2>1. a \in AimSt(X) /\ w = Having(a, x, Active(Taken(s.xfer[x], n, f)))
    BY <1>14, <1>15
  <2> HIDE DEF a, n, x, w
  <2> QED BY <1>15, <2>1, HavingIs
<1>17. w.xfer = [s.xfer EXCEPT ![x] = Active(Taken(s.xfer[x], n, f))]
  <2>1. a.xfer = [s.xfer EXCEPT ![x] = Taken(s.xfer[x], n, f)]
    BY <1>13, <1>14
  <2> HIDE DEF a, n, x, w
  <2> QED BY <1>16, <2>1
<1>18. Fields(w) = <<[s.xfer EXCEPT ![x] = Active(Taken(s.xfer[x], n, f))],
                     Minus(Plus(s.conns, n, N), {c}),
                     Plus(Minus(s.io, {c}), n, [callback |-> "event", fd |-> f]),
                     Closed([s.open EXCEPT ![f] = "ours"], fd), Hit(o, fd), s.past>>
  <2> HIDE DEF w, a, u, n, N, o, fd, x
  <2> QED BY <1>13, <1>14, <1>16, <1>17 DEF Fields
<1>19. z \in AimSt(X) /\ s.past \subseteq z.past /\ "vanished" \in z.past
  <2> DEFINE e == Aim!Abort(u, x, TRUE)
             g == Aim!Harm(e, "freed")
  <2>1. e \in AimSt(X) /\ e.past = u.past
    <3>1. u \in AimSt(X) /\ x \in X
      BY <1>1, <1>13
    <3> HIDE DEF u, x
    <3> QED BY <3>1, AbortInKind
  <2>2. g \in AimSt(X) /\ Fields(g) = <<e.xfer, e.conns, e.io, e.open, e.harm \cup {"freed"}, e.past>>
    <3> HIDE DEF e
    <3> QED BY <2>1, HarmIs
  <2>3. z \in AimSt(X) /\ Fields(z) = <<g.xfer, g.conns, g.io, g.open, g.harm, g.past \cup {"vanished"}>>
    <3>1. z = Aim!Past(g, "vanished")
      OBVIOUS
    <3> HIDE DEF g, z
    <3> QED BY <2>2, <3>1, PastIs
  <2>4. g.past = e.past
    <3> HIDE DEF g, e
    <3> QED BY <2>2 DEF Fields
  <2>5. z.past = g.past \cup {"vanished"}
    <3> HIDE DEF g, z
    <3> QED BY <2>3 DEF Fields
  <2>6. u.past = s.past
    BY <1>13
  <2> HIDE DEF z, g, e, u
  <2> QED BY <2>1, <2>3, <2>4, <2>5, <2>6
<1>20. t = z \/ t = w
  <2>1. q = [p EXCEPT !.xfer[x].sock = f, !.xfer[x].conn = n]
    <3>1. p.xfer[x] \in AimXfer(X) /\ x \in DOMAIN p.xfer
      BY <1>1, <1>6 DEF Aim!Listed
    <3>2. p \in AimSt(X)
      BY <1>5
    <3> HIDE DEF p, n, x
    <3> QED BY <3>1, <3>2 DEF Having, Taken, AimSt, AimXfer
  <2>2. w = [a EXCEPT !.xfer[x].status = "ACTIVE"]
    BY DEF Having, Active
  <2> HIDE DEF q, a, z, w
  <2> QED BY <2>1, <2>2 DEF Aim!Accepted, z, a, u, d, p, o, Events
<1> HIDE DEF w, z, o, fd, n, N, x
<1>21. s.past \subseteq w.past
  BY <1>18 DEF Fields
<1> QED BY <1>16, <1>18, <1>19, <1>20, <1>21 DEF o, fd, n, N, x

(* A connection comes about later, or at once.                             *)
Waits == {"connected", "event"}
Sockets(cb) == cb = "event"

Pointed(v, c) == [v EXCEPT !.conn = c]
Filed(v)      == [v EXCEPT !.fp = TRUE]
Prompts       == {"prompt", "dead"}
Shook(v, c, f, cb) == IF cb = "event" THEN Sock(Pointed(v, c), f) ELSE Pointed(v, c)
Dialler(x, f, cb)  == [fd |-> IF cb = "event" THEN f ELSE Aim!None, priv |-> x, handlers |-> Prompts]

LEMMA ShookIs ==
    ASSUME NEW X, NEW v \in AimXfer(X), NEW c \in Names(X), NEW f \in Fds,
           NEW cb \in Waits
    PROVE  /\ LET w == Shook(v, c, f, cb)
              IN  /\ w \in AimXfer(X) /\ w.conn = c /\ w.type = v.type /\ w.status = v.status
                  /\ w.info = v.info /\ w.known = v.known /\ w.fp = v.fp
                  /\ cb = "event" => w.sock = f
           /\ LET w == Filed(v)
              IN  /\ w \in AimXfer(X) /\ w.conn = v.conn /\ w.type = v.type /\ w.status = v.status
                  /\ w.info = v.info /\ w.known = v.known /\ w.fp = TRUE
<1>1. CASE cb = "event"
  BY <1>1 DEF AimXfer, Shook, Sock, Pointed, Filed
<1>2. CASE cb = "connected"
  BY <1>2 DEF AimXfer, Shook, Pointed, Filed
<1> QED BY <1>1, <1>2 DEF Waits

(* aim_file_accept, with the connection c that it dials.                   *)
Dials(s, t, x, c, f, cb) ==
    /\ t.xfer = [s.xfer EXCEPT ![x] = Shook(s.xfer[x], c, f, cb)]
    /\ t.conns = Plus(s.conns, c, Dialler(x, f, cb))
    /\ t.io = Plus(s.io, c, [callback |-> cb, fd |-> f])
    /\ t.open = [s.open EXCEPT ![f] = "ours"] /\ t.harm = s.harm /\ t.past = s.past

Undialled(s, x, c) == Having(Aim!Newconn(s, c, Aim!None, Prompts), x, Pointed(s.xfer[x], c))

LEMMA UndialledIs ==
    ASSUME NEW X, NEW s \in AimSt(X), NEW x \in Aim!Listed(s), NEW c \in Names(X), c[1] = x
    PROVE  LET t == Undialled(s, x, c)
           IN  /\ t \in AimSt(X) /\ t.xfer = [s.xfer EXCEPT ![x] = Pointed(s.xfer[x], c)]
               /\ t.conns = Plus(s.conns, c, Dialler(x, 0, "connected"))
               /\ t.io = s.io /\ t.open = s.open /\ t.harm = s.harm /\ t.past = s.past
<1> DEFINE u == Aim!Newconn(s, c, Aim!None, Prompts)
           N == [fd |-> Aim!None, priv |-> c[1], handlers |-> Prompts]
           w == Pointed(s.xfer[x], c)
           t == Undialled(s, x, c)
<1>1. u \in AimSt(X) /\ Fields(u) = <<s.xfer, Plus(s.conns, c, N), s.io, s.open, s.harm, s.past>>
  <2>1. Prompts \in SUBSET {"established", "ack", "done", "prompt", "dead"} /\ Aim!None \in Fds \cup {Aim!None}
    BY DEF Prompts
  <2> QED BY <2>1, NewconnIs
<1>2. /\ u.xfer = s.xfer /\ u.conns = Plus(s.conns, c, N) /\ u.io = s.io /\ u.open = s.open
      /\ u.harm = s.harm /\ u.past = s.past
  <2> HIDE DEF u, N
  <2> QED BY <1>1 DEF Fields
<1>3. w \in AimXfer(X) /\ Own(w, x)
  <2>1. s.xfer[x] \in AimXfer(X)
    BY StFields, XfersAre DEF Aim!Listed
  <2> QED BY <2>1 DEF Own, Pointed, AimXfer
<1>4. t = Having(u, x, w)
  BY DEF Undialled
<1>5. x \in Aim!Listed(u)
  BY <1>2 DEF Aim!Listed
<1>6. N = Dialler(x, 0, "connected")
  BY DEF Dialler
<1>7. t \in AimSt(X) /\ t.xfer = [u.xfer EXCEPT ![x] = w] /\ t.conns = u.conns
      /\ t.io = u.io /\ t.open = u.open /\ t.harm = u.harm /\ t.past = u.past
  <2> HIDE DEF t, u, w
  <2> QED BY <1>1, <1>3, <1>4, <1>5, HavingIs
<1> HIDE DEF t, u, N
<1>8. t.conns = Plus(s.conns, c, Dialler(x, 0, "connected"))
  BY <1>2, <1>6, <1>7
<1> QED BY <1>2, <1>7, <1>8 DEF t

LEMMA AcceptIs ==
    ASSUME NEW X, NEW s \in AimSt(X), NEW x \in Aim!Listed(s), Aim!Dialled(s, x) \in Names(X),
           NEW t \in Aim!aim_file_accept(s, x)
    PROVE  LET c == Aim!Dialled(s, x)
           IN  /\ t \in AimSt(X) /\ s.past \subseteq t.past
               /\ \/ "refused" \in t.past
                  \/ \E f \in Aim!Free(s), cb \in Waits : Dials(s, t, x, c, f, cb)
<1> DEFINE c == Aim!Dialled(s, x)
           u == Undialled(s, x, c)
           o(f) == Aim!Open(u, f)
           late(f) == Aim!pork_io_add(o(f), c, "connected", f)
           now(f)  == Aim!Connected(o(f), c, f)
           err(f)  == Aim!NotConnected(o(f), c, f)
           no(f)   == Aim!Past(Aim!Harm(err(f), "freed"), "refused")
           k       == Aim!transfer_abort(Aim!aim_conn_kill(u, c), x)
           ref     == Aim!Past(k, "refused")
<1>1. c[1] = x /\ c \in Names(X) /\ c \in Nodes(X) /\ x \in X
  BY StFields, XfersAre, NamesAre DEF Aim!Dialled, Aim!Listed
<1>2. /\ u \in AimSt(X) /\ u.xfer = [s.xfer EXCEPT ![x] = Pointed(s.xfer[x], c)]
      /\ u.conns = Plus(s.conns, c, Dialler(x, 0, "connected"))
      /\ u.io = s.io /\ u.open = s.open /\ u.harm = s.harm /\ u.past = s.past
  <2> HIDE DEF c
  <2> QED BY <1>1, UndialledIs
<1>3. [Aim!Newconn(s, c, Aim!None, {"prompt", "dead"}) EXCEPT !.xfer[x].conn = c] = u
  <2> DEFINE n == Aim!Newconn(s, c, Aim!None, Prompts)
  <2>1. n.xfer = s.xfer
    BY DEF Aim!Newconn, AimSt
  <2>3. u = Having(n, x, Pointed(n.xfer[x], c))
    BY <2>1 DEF Undialled
  <2>4. [n EXCEPT !.xfer[x].conn = c] = Having(n, x, Pointed(n.xfer[x], c))
    BY DEF Having, Pointed
  <2> QED BY <2>3, <2>4 DEF Prompts
<1>4. \/ \E f \in Aim!Free(u) : t = late(f) \/ t = now(f) \/ t = no(f)
      \/ t = ref
  <2> DEFINE T == [Aim!Newconn(s, c, Aim!None, {"prompt", "dead"}) EXCEPT !.xfer[x].conn = c]
  <2>1. \/ \E f \in Aim!Free(T) : \/ t = Aim!pork_io_add(Aim!Open(T, f), c, "connected", f)
                             \/ t = Aim!Connected(Aim!Open(T, f), c, f)
                             \/ t = Aim!Past(Aim!Harm(Aim!NotConnected(Aim!Open(T, f), c, f), "freed"), "refused")
        \/ t = Aim!Past(Aim!transfer_abort(Aim!aim_conn_kill(T, c), x), "refused")
    <3> DEFINE A == UNION {{Aim!pork_io_add(Aim!Open(T, f), c, "connected", f), Aim!Connected(Aim!Open(T, f), c, f),
                            Aim!Past(Aim!Harm(Aim!NotConnected(Aim!Open(T, f), c, f), "freed"), "refused")} : f \in Aim!Free(T)}
    <3>1. Aim!aim_file_accept(s, x) = {Aim!Past(Aim!transfer_abort(Aim!aim_conn_kill(T, c), x), "refused")} \cup A
      BY DEF Aim!aim_file_accept
    <3> HIDE DEF T, c
    <3>2. CASE t = Aim!Past(Aim!transfer_abort(Aim!aim_conn_kill(T, c), x), "refused")
      BY <3>2
    <3>3. CASE t # Aim!Past(Aim!transfer_abort(Aim!aim_conn_kill(T, c), x), "refused")
      <4>1. t \in A
        <5> HIDE DEF A
        <5> QED BY <3>1, <3>3
      <4>2. PICK f \in Aim!Free(T) :
               t \in {Aim!pork_io_add(Aim!Open(T, f), c, "connected", f), Aim!Connected(Aim!Open(T, f), c, f),
                      Aim!Past(Aim!Harm(Aim!NotConnected(Aim!Open(T, f), c, f), "freed"), "refused")}
        BY <4>1
      <4> QED BY <4>2
    <3> QED BY <3>2, <3>3
  <2>2. T = u
    BY <1>3
  <2> HIDE DEF T, c, u
  <2> QED BY <2>1, <2>2
<1>5. Aim!Free(u) = Aim!Free(s)
  BY <1>2 DEF Aim!Free
<1>6. c \in DOMAIN u.conns /\ u.conns[c] = Dialler(x, 0, "connected") /\ DOMAIN u.xfer = DOMAIN s.xfer
      /\ u.xfer[x] = Pointed(s.xfer[x], c) /\ x \in Aim!Listed(u)
  <2> HIDE DEF c, u
  <2> QED BY <1>2 DEF Plus, Aim!Listed
<1>7. ASSUME NEW f \in Aim!Free(s)
      PROVE  /\ f \in Fds /\ o(f) \in AimSt(X) /\ o(f).xfer = u.xfer /\ o(f).conns = u.conns /\ o(f).io = u.io
             /\ o(f).open = [u.open EXCEPT ![f] = "ours"] /\ o(f).harm = u.harm /\ o(f).past = u.past
  <2> HIDE DEF u
  <2>1. f \in Fds
    BY DEF Aim!Free
  <2>2. Aim!Open(u, f) \in AimSt(X)
        /\ Fields(Aim!Open(u, f)) = <<u.xfer, u.conns, u.io, [u.open EXCEPT ![f] = "ours"], u.harm, u.past>>
    BY <1>2, <2>1, OpenIs
  <2> QED BY <2>1, <2>2 DEF Fields
<1>8. ASSUME NEW f \in Aim!Free(s), t = late(f)
      PROVE  t \in AimSt(X) /\ Dials(s, t, x, c, f, "connected")
  <2> HIDE DEF c, u
  <2>1. o(f) \in AimSt(X) /\ f \in Fds \cup {Aim!None}
    BY <1>7
  <2>2. t \in AimSt(X) /\ Fields(t) = <<o(f).xfer, o(f).conns, Plus(o(f).io, c, [callback |-> "connected", fd |-> f]),
                                        o(f).open, o(f).harm, o(f).past>>
    <3> HIDE DEF o
    <3>1. t = Aim!pork_io_add(o(f), c, "connected", f)
      BY <1>8
    <3> QED BY <1>1, <2>1, <3>1, AddIs
  <2>3. t.xfer = o(f).xfer /\ t.conns = o(f).conns /\ t.io = Plus(o(f).io, c, [callback |-> "connected", fd |-> f])
        /\ t.open = o(f).open /\ t.harm = o(f).harm /\ t.past = o(f).past
    <3> HIDE DEF o
    <3> QED BY <2>2 DEF Fields
  <2>4. Dialler(x, 0, "connected") = Dialler(x, f, "connected")
    BY DEF Dialler
  <2>5. Shook(s.xfer[x], c, f, "connected") = Pointed(s.xfer[x], c)
    BY DEF Shook
  <2> HIDE DEF o
  <2> QED BY <1>2, <1>7, <2>2, <2>3, <2>4, <2>5 DEF Dials
<1>9. ASSUME NEW f \in Aim!Free(s), t = now(f)
      PROVE  t \in AimSt(X) /\ Dials(s, t, x, c, f, "event")
  <2> HIDE DEF c, u
  <2>1. o(f) \in AimSt(X) /\ f \in Fds \cup {Aim!None} /\ c \in DOMAIN o(f).conns /\ c[1] \in Aim!Listed(o(f))
    BY <1>1, <1>6, <1>7 DEF Aim!Listed
  <2>2. /\ t \in AimSt(X)
        /\ Fields(t) = <<[o(f).xfer EXCEPT ![x] = Sock(o(f).xfer[x], f)],
                         [o(f).conns EXCEPT ![c] = Opened(o(f).conns[c], f)],
                         Plus(o(f).io, c, [callback |-> "event", fd |-> f]),
                         o(f).open, o(f).harm, o(f).past>>
    <3> HIDE DEF o
    <3>1. t = Aim!Connected(o(f), c, f)
      BY <1>9
    <3> QED BY <1>1, <2>1, <3>1, ConnectedIs
  <2>3. /\ t.xfer = [u.xfer EXCEPT ![x] = Sock(u.xfer[x], f)]
        /\ t.conns = [u.conns EXCEPT ![c] = Opened(u.conns[c], f)]
        /\ t.io = Plus(u.io, c, [callback |-> "event", fd |-> f])
        /\ t.open = [u.open EXCEPT ![f] = "ours"] /\ t.harm = u.harm /\ t.past = u.past
    <3> HIDE DEF o
    <3> QED BY <1>7, <2>2 DEF Fields
  <2>4. Opened(Dialler(x, 0, "connected"), f) = Dialler(x, f, "event")
    BY DEF Dialler, Opened
  <2>5. t.conns = Plus(s.conns, c, Dialler(x, f, "event"))
    <3>1. t.conns = [Plus(s.conns, c, Dialler(x, 0, "connected")) EXCEPT ![c] = Dialler(x, f, "event")]
      BY <1>2, <1>6, <2>3, <2>4
    <3> QED BY <3>1 DEF Plus
  <2>6. Shook(s.xfer[x], c, f, "event") = Sock(Pointed(s.xfer[x], c), f)
    BY DEF Shook
  <2>7. t.xfer = [s.xfer EXCEPT ![x] = Shook(s.xfer[x], c, f, "event")]
    <3>1. t.xfer = [[s.xfer EXCEPT ![x] = Pointed(s.xfer[x], c)] EXCEPT ![x] = Shook(s.xfer[x], c, f, "event")]
      BY <1>2, <1>6, <2>3, <2>6
    <3> QED BY <3>1
  <2> HIDE DEF o
  <2> QED BY <1>2, <2>2, <2>3, <2>5, <2>7 DEF Dials
<1>10. ASSUME NEW f \in Aim!Free(s), t = no(f)
       PROVE  t \in AimSt(X) /\ s.past \subseteq t.past /\ "refused" \in t.past
  <2> HIDE DEF c, u
  <2>1. o(f) \in AimSt(X) /\ f \in Fds \cup {Aim!None} /\ c \in DOMAIN o(f).conns /\ o(f).past = s.past
    BY <1>2, <1>6, <1>7
  <2>2. err(f) \in AimSt(X) /\ s.past \subseteq err(f).past
    <3> HIDE DEF o
    <3>1. Tame(X, o(f), Aim!NotConnected(o(f), c, f))
      BY <2>1, TameNotConnected
    <3> QED BY <2>1, <3>1 DEF Tame
  <2> DEFINE g == Aim!Harm(err(f), "freed")
  <2>3. g \in AimSt(X) /\ s.past \subseteq g.past
    <3> HIDE DEF err
    <3>1. g \in AimSt(X) /\ Fields(g) = <<err(f).xfer, err(f).conns, err(f).io, err(f).open, err(f).harm \cup {"freed"},
                                          err(f).past>>
      BY <2>2, HarmIs
    <3> HIDE DEF g
    <3> QED BY <2>2, <3>1 DEF Fields
  <2>4. t = Aim!Past(g, "refused")
    BY <1>10
  <2> HIDE DEF g, no
  <2>5. t \in AimSt(X) /\ Fields(t) = <<g.xfer, g.conns, g.io, g.open, g.harm, g.past \cup {"refused"}>>
    BY <2>3, <2>4, PastIs
  <2> QED BY <2>3, <2>5 DEF Fields
<1>11. ASSUME t = ref
       PROVE  t \in AimSt(X) /\ s.past \subseteq t.past /\ "refused" \in t.past
  <2> HIDE DEF c, u
  <2> DEFINE e == Aim!aim_conn_kill(u, c)
  <2>1. e \in AimSt(X) /\ e.past = s.past
    <3>1. u \in AimSt(X) /\ c \in Names(X) \cup {Aim!NULL} /\ u.past = s.past
      BY <1>1, <1>2
    <3>2. e \in AimSt(X) /\ e.past = u.past
      BY <3>1, KillIs
    <3> QED BY <3>1, <3>2
  <2>2. k \in AimSt(X) /\ k.past = s.past
    <3>1. k = Aim!Abort(e, x, FALSE)
      BY DEF Aim!transfer_abort
    <3> HIDE DEF e, k
    <3> QED BY <1>1, <2>1, <3>1, AbortOutKind
  <2> HIDE DEF k
  <2>3. t \in AimSt(X) /\ Fields(t) = <<k.xfer, k.conns, k.io, k.open, k.harm, k.past \cup {"refused"}>>
    BY <1>11, <2>2, PastIs
  <2> QED BY <2>2, <2>3 DEF Fields
<1>12. ASSUME NEW f \in Aim!Free(s), NEW cb \in Waits, Dials(s, t, x, c, f, cb)
       PROVE  s.past \subseteq t.past
  BY <1>12 DEF Dials
<1> HIDE DEF late, now, no, ref, c, u
<1> QED BY <1>4, <1>5, <1>8, <1>9, <1>10, <1>11, <1>12 DEF c, Waits

(* transfer_get.                                                           *)
Gets(s, t, x, c, f, cb) ==
    /\ t.xfer = [s.xfer EXCEPT ![x] = Active(Shook(Filed(s.xfer[x]), c, f, cb))]
    /\ t.conns = Plus(s.conns, c, Dialler(x, f, cb))
    /\ t.io = Plus(s.io, c, [callback |-> cb, fd |-> f])
    /\ t.open = [s.open EXCEPT ![f] = "ours"] /\ t.harm = s.harm /\ t.past = s.past

Got(v, c, f, cb) == Active(Shook(Filed(v), c, f, cb))


LEMMA GotIs ==
    ASSUME NEW X, NEW v \in AimXfer(X), NEW c \in Names(X), NEW f \in Fds, NEW cb \in Waits
    PROVE  /\ Got(v, c, f, cb) \in AimXfer(X) /\ Got(v, c, f, cb).conn = c
           /\ Got(v, c, f, cb).type = v.type
           /\ Sockets(cb) => Got(v, c, f, cb).sock = f
<1>1. CASE cb = "event"
  BY <1>1 DEF Sockets, AimXfer, Got, Active, Shook, Sock, Pointed, Filed
<1>2. CASE cb = "connected"
  BY <1>2 DEF Sockets, AimXfer, Got, Active, Shook, Pointed, Filed
<1> QED BY <1>1, <1>2 DEF Waits

LEMMA GotHas ==
    ASSUME NEW X, NEW v \in AimXfer(X), NEW c \in Names(X), NEW f \in Fds, NEW cb \in Waits,
           v.info, v.known
    PROVE  Got(v, c, f, cb).fp /\ Got(v, c, f, cb).info /\ Got(v, c, f, cb).known
<1>1. CASE cb = "event"
  BY <1>1 DEF Sockets, AimXfer, Got, Active, Shook, Sock, Pointed, Filed
<1>2. CASE cb = "connected"
  BY <1>2 DEF Sockets, AimXfer, Got, Active, Shook, Pointed, Filed
<1> QED BY <1>1, <1>2 DEF Waits

LEMMA GetIs ==
    ASSUME NEW X, NEW s \in AimSt(X), NEW x \in Aim!Listed(s), <<x, "redialled">> \notin DOMAIN s.conns,
           NEW t \in Aim!transfer_get(s, x)
    PROVE  LET c == Aim!Dialled(s, x)
           IN  /\ t \in AimSt(X) /\ s.past \subseteq t.past
               /\ \/ t.past \cap {"refused", "noname"} # {}
                  \/ \E f \in Aim!Free(s), cb \in Waits : Gets(s, t, x, c, f, cb)
<1> DEFINE c == Aim!Dialled(s, x)
           a == Having(s, x, Filed(s.xfer[x]))
           b == Aim!Past(s, "noname")
           Done(r) == IF x \in Aim!Listed(r) THEN Having(r, x, Active(r.xfer[x])) ELSE r
<1>1. s.xfer \in AimXfers(X) /\ x \in X /\ s.xfer[x] \in AimXfer(X) /\ Own(s.xfer[x], x)
  BY StFields, XfersAre DEF Aim!Listed
<1>2. c \in Names(X)
  BY <1>1, NamesAre DEF Aim!Dialled, Aim!Hows
<1>3. /\ a \in AimSt(X) /\ a.xfer = [s.xfer EXCEPT ![x] = Filed(s.xfer[x])] /\ a.conns = s.conns
      /\ a.io = s.io /\ a.open = s.open /\ a.harm = s.harm /\ a.past = s.past
  <2>1. Filed(s.xfer[x]) \in AimXfer(X) /\ Own(Filed(s.xfer[x]), x)
    BY <1>1 DEF Filed, AimXfer, Own
  <2> QED BY <2>1, HavingIs
<1>4. /\ b \in AimSt(X) /\ b.xfer = s.xfer /\ b.conns = s.conns /\ b.past = s.past \cup {"noname"}
  <2>1. b \in AimSt(X) /\ Fields(b) = <<s.xfer, s.conns, s.io, s.open, s.harm, s.past \cup {"noname"}>>
    BY PastIs
  <2> HIDE DEF b
  <2> QED BY <2>1 DEF Fields
<1>5. Aim!Dialled(a, x) = c /\ Aim!Dialled(b, x) = c /\ x \in Aim!Listed(a) /\ x \in Aim!Listed(b)
  <2> HIDE DEF a, b
  <2> QED BY <1>3, <1>4 DEF Aim!Dialled, Aim!Listed
<1>6. \E u \in {a, b} : \E r \in Aim!aim_file_accept(u, x) : t = Done(r)
  <2> DEFINE named == {[s EXCEPT !.xfer[x].fp = TRUE]}
                        \cup (IF s.xfer[x].fp THEN {} ELSE {Aim!Past(s, "noname")})
             R == UNION {Aim!aim_file_accept(u, x) : u \in named}
  <2>1. Aim!transfer_get(s, x) =
           {IF x \in Aim!Listed(r) THEN [r EXCEPT !.xfer[x].status = "ACTIVE"] ELSE r : r \in R}
    BY DEF Aim!transfer_get
  <2>2. PICK r \in R : t = IF x \in Aim!Listed(r) THEN [r EXCEPT !.xfer[x].status = "ACTIVE"] ELSE r
    <3> HIDE DEF R
    <3> QED BY <2>1
  <2>3. PICK u \in named : r \in Aim!aim_file_accept(u, x)
    <3> HIDE DEF named
    <3> QED BY <2>2
  <2>4. u \in {a, b}
    BY <2>3 DEF Having, Filed
  <2>5. t = Done(r)
    BY <2>2 DEF Having, Active
  <2> QED BY <2>3, <2>4, <2>5
<1>7. ASSUME NEW u \in {a, b}, NEW r \in Aim!aim_file_accept(u, x), t = Done(r)
      PROVE  /\ t \in AimSt(X) /\ s.past \subseteq t.past
             /\ \/ t.past \cap {"refused", "noname"} # {}
                \/ \E f \in Aim!Free(s), cb \in Waits : Gets(s, t, x, c, f, cb)
  <2>1. /\ u \in AimSt(X) /\ x \in Aim!Listed(u) /\ Aim!Dialled(u, x) = c /\ s.past \subseteq u.past
        /\ u = b => "noname" \in u.past
    BY <1>3, <1>4, <1>5
  <2> HIDE DEF a, b, c
  <2>2. /\ r \in AimSt(X) /\ u.past \subseteq r.past
        /\ \/ "refused" \in r.past
           \/ \E f \in Aim!Free(u), cb \in Waits : Dials(u, r, x, c, f, cb)
    BY <1>2, <2>1, AcceptIs
  <2>3. /\ t \in AimSt(X) /\ t.conns = r.conns /\ t.io = r.io /\ t.open = r.open
        /\ t.harm = r.harm /\ t.past = r.past
        /\ x \in Aim!Listed(r) => t.xfer = [r.xfer EXCEPT ![x] = Active(r.xfer[x])]
    <3>1. CASE x \notin Aim!Listed(r)
      BY <1>7, <2>2, <3>1
    <3>2. CASE x \in Aim!Listed(r)
      <4>1. r.xfer[x] \in AimXfer(X) /\ Own(r.xfer[x], x)
        BY <2>2, <3>2, StFields, XfersAre DEF Aim!Listed
      <4>2. Active(r.xfer[x]) \in AimXfer(X) /\ Own(Active(r.xfer[x]), x)
        BY <4>1, ActiveIs DEF Own
      <4>3. t = Having(r, x, Active(r.xfer[x]))
        BY <1>7, <3>2
      <4> QED BY <2>2, <3>2, <4>2, <4>3, HavingIs
    <3> QED BY <3>1, <3>2
  <2>4. CASE u = b \/ "refused" \in r.past
    BY <2>1, <2>2, <2>3, <2>4
  <2>5. CASE u = a /\ "refused" \notin r.past
    <3>1. PICK f \in Aim!Free(u), cb \in Waits : Dials(u, r, x, c, f, cb)
      BY <2>2, <2>5
    <3>2. f \in Aim!Free(s)
      BY <1>3, <2>5, <3>1 DEF Aim!Free
    <3>3. x \in DOMAIN s.xfer /\ u.xfer[x] = Filed(s.xfer[x])
      BY <1>3, <2>5 DEF Aim!Listed
    <3>4. r.xfer = [u.xfer EXCEPT ![x] = Shook(u.xfer[x], c, f, cb)] /\ x \in Aim!Listed(r)
          /\ r.xfer[x] = Shook(u.xfer[x], c, f, cb)
      <4>1. r.xfer = [u.xfer EXCEPT ![x] = Shook(u.xfer[x], c, f, cb)] /\ x \in DOMAIN u.xfer
        BY <2>1, <3>1 DEF Dials, Aim!Listed
      <4> QED BY <4>1 DEF Aim!Listed
    <3>5. t.xfer = [s.xfer EXCEPT ![x] = Active(Shook(Filed(s.xfer[x]), c, f, cb))]
      <4>1. t.xfer = [[[s.xfer EXCEPT ![x] = Filed(s.xfer[x])] EXCEPT ![x] = Shook(u.xfer[x], c, f, cb)]
                         EXCEPT ![x] = Active(Shook(u.xfer[x], c, f, cb))]
        BY <1>3, <2>3, <2>5, <3>4
      <4> QED BY <3>3, <4>1
    <3>6. Gets(s, t, x, c, f, cb)
      BY <1>3, <2>3, <2>5, <3>1, <3>5 DEF Gets, Dials
    <3>7. s.past \subseteq t.past
      BY <2>1, <2>2, <2>3
    <3> QED BY <2>3, <3>2, <3>6, <3>7
  <2> QED BY <1>7, <2>4, <2>5
<1> HIDE DEF Done, c
<1> QED BY <1>6, <1>7 DEF c

-----------------------------------------------------------------------------
(* A transfer that begins.                                                 *)
Informed(v) == [v EXCEPT !.info = TRUE, !.known = TRUE]

LEMMA InformedIs ==
    ASSUME NEW X, NEW v \in AimXfer(X)
    PROVE  LET w == Informed(v)
           IN  /\ w \in AimXfer(X) /\ w.sock = v.sock /\ w.conn = v.conn /\ w.type = v.type
               /\ w.status = v.status /\ w.info = TRUE /\ w.known = TRUE /\ w.fp = v.fp
BY DEF AimXfer, Informed

LEMMA CreateIs ==
    ASSUME NEW X, NEW s \in AimSt(X), NEW x \in Aim!Listed(s)
    PROVE  LET t == Aim!aim_oft_createinfo(s, x)
           IN  /\ t \in AimSt(X) /\ t.xfer = [s.xfer EXCEPT ![x] = Informed(s.xfer[x])]
               /\ t.conns = s.conns
               /\ t.io = s.io /\ t.open = s.open /\ t.harm = s.harm /\ t.past = s.past
<1>1. s.xfer[x] \in AimXfer(X) /\ Own(s.xfer[x], x) /\ x \in DOMAIN s.xfer
  BY StFields, XfersAre DEF Aim!Listed
<1>2. Informed(s.xfer[x]) \in AimXfer(X) /\ Own(Informed(s.xfer[x]), x)
  BY <1>1, InformedIs DEF Own
<1>3. Aim!aim_oft_createinfo(s, x) = Having(s, x, Informed(s.xfer[x]))
  BY <1>1 DEF Aim!aim_oft_createinfo, Having, Informed, AimSt, AimXfer
<1> QED BY <1>2, <1>3, HavingIs

Listener(x, f) == [fd |-> f, priv |-> x, handlers |-> {"established"}]

Offers(s, t, x, f) ==
    LET c == <<x, "listener">>
    IN  /\ t.xfer = [s.xfer EXCEPT ![x] = Taken(Informed(s.xfer[x]), c, f)]
        /\ t.conns = Plus(s.conns, c, Listener(x, f))
        /\ t.io = Plus(s.io, c, [callback |-> "listening", fd |-> f])
        /\ t.open = [s.open EXCEPT ![f] = "ours"] /\ t.harm = s.harm /\ t.past = s.past

LEMMA SendIs ==
    ASSUME NEW X, NEW s \in AimSt(X), NEW x \in Aim!Listed(s), NEW t \in Aim!aim_file_send(s, x)
    PROVE  /\ t \in AimSt(X) /\ s.past \subseteq t.past
           /\ t = Aim!Abort(s, x, FALSE) \/ \E f \in Aim!Free(s) : Offers(s, t, x, f)
<1> DEFINE c == <<x, "listener">>
           i == Aim!aim_oft_createinfo(s, x)
           o(f) == Aim!Open(i, f)
           n(f) == Aim!Newconn(o(f), c, f, {"established"})
           a(f) == Aim!pork_io_add(n(f), c, "listening", f)
           w(f) == Having(a(f), x, Taken(a(f).xfer[x], c, f))
<1>1. x \in X
  BY StFields, XfersAre DEF Aim!Listed
<1>2. c \in Names(X) /\ c \in Nodes(X) /\ c[1] = x
  <2>1. "listener" \in Aim!Hows
    BY DEF Aim!Hows
  <2> QED BY <1>1, <2>1, NamesAre
<1>3. /\ i \in AimSt(X) /\ i.xfer = [s.xfer EXCEPT ![x] = Informed(s.xfer[x])] /\ i.conns = s.conns
      /\ i.io = s.io /\ i.open = s.open /\ i.harm = s.harm /\ i.past = s.past
  BY CreateIs
<1>4. ASSUME NEW f \in Aim!Free(s)
      PROVE  /\ w(f) \in AimSt(X) /\ Offers(s, w(f), x, f) /\ s.past \subseteq w(f).past
             /\ [a(f) EXCEPT !.xfer[x].sock = f, !.xfer[x].conn = c] = w(f)
  <2> HIDE DEF i
  <2>1. f \in Fds /\ f \in Fds \cup {Aim!None}
    BY DEF Aim!Free
  <2> DEFINE O == o(f)
             N == n(f)
             A == a(f)
  <2>2. O \in AimSt(X) /\ O.xfer = i.xfer /\ O.conns = i.conns /\ O.io = i.io
        /\ O.open = [i.open EXCEPT ![f] = "ours"] /\ O.harm = i.harm /\ O.past = i.past
    <3>1. O \in AimSt(X)
          /\ Fields(O) = <<i.xfer, i.conns, i.io, [i.open EXCEPT ![f] = "ours"], i.harm, i.past>>
      BY <1>3, <2>1, OpenIs
    <3> HIDE DEF O
    <3> QED BY <3>1 DEF Fields
  <2>3. N \in AimSt(X) /\ N.xfer = O.xfer /\ N.conns = Plus(O.conns, c, Listener(x, f)) /\ N.io = O.io
        /\ N.open = O.open /\ N.harm = O.harm /\ N.past = O.past
    <3> DEFINE H == {"established"}
    <3>1. N = Aim!Newconn(O, c, f, H)
      OBVIOUS
    <3>2. Listener(x, f) = [fd |-> f, priv |-> c[1], handlers |-> H]
      BY <1>2 DEF Listener
    <3>3. H \in SUBSET {"established", "ack", "done", "prompt", "dead"}
      OBVIOUS
    <3> HIDE DEF O, N, c, H
    <3>4. N \in AimSt(X)
          /\ Fields(N) = <<O.xfer, Plus(O.conns, c, Listener(x, f)), O.io, O.open, O.harm, O.past>>
      <4>1. Aim!Newconn(O, c, f, H) \in AimSt(X)
            /\ Fields(Aim!Newconn(O, c, f, H)) = <<O.xfer, Plus(O.conns, c, [fd |-> f, priv |-> c[1], handlers |-> H]),
                                              O.io, O.open, O.harm, O.past>>
        BY <1>2, <2>1, <2>2, <3>3, NewconnIs
      <4> QED BY <3>1, <3>2, <4>1
    <3> QED BY <3>4 DEF Fields
  <2>4. A \in AimSt(X) /\ A.xfer = N.xfer /\ A.conns = N.conns
        /\ A.io = Plus(N.io, c, [callback |-> "listening", fd |-> f])
        /\ A.open = N.open /\ A.harm = N.harm /\ A.past = N.past
    <3>1. A = Aim!pork_io_add(N, c, "listening", f)
      OBVIOUS
    <3> HIDE DEF A, N, c
    <3>2. A \in AimSt(X)
          /\ Fields(A) = <<N.xfer, N.conns, Plus(N.io, c, [callback |-> "listening", fd |-> f]),
                           N.open, N.harm, N.past>>
      BY <1>2, <2>1, <2>3, <3>1, AddIs
    <3> QED BY <3>2 DEF Fields
  <2>5. w(f) = Having(A, x, Taken(A.xfer[x], c, f))
    OBVIOUS
  <2>6. [a(f) EXCEPT !.xfer[x].sock = f, !.xfer[x].conn = c] = [A EXCEPT !.xfer[x].sock = f, !.xfer[x].conn = c]
    OBVIOUS
  <2>7. A.xfer = [s.xfer EXCEPT ![x] = Informed(s.xfer[x])] /\ x \in DOMAIN s.xfer
    <3> HIDE DEF A, N, O, c
    <3> QED BY <1>3, <2>2, <2>3, <2>4 DEF Aim!Listed
  <2>8. A.xfer[x] = Informed(s.xfer[x]) /\ x \in Aim!Listed(A) /\ A.xfer[x] \in AimXfer(X)
    <3>1. A \in AimSt(X)
      BY <2>4
    <3> HIDE DEF A
    <3>2. A.xfer[x] = Informed(s.xfer[x]) /\ x \in Aim!Listed(A)
      BY <2>7 DEF Aim!Listed
    <3>3. A.xfer[x] \in AimXfer(X)
      BY <3>1, <3>2, StFields, XfersAre DEF Aim!Listed
    <3> QED BY <3>2, <3>3
  <2>9. Taken(A.xfer[x], c, f) \in AimXfer(X) /\ Own(Taken(A.xfer[x], c, f), x)
    <3> HIDE DEF A, c
    <3> QED BY <1>2, <2>1, <2>8, TakenIs DEF Own
  <2>10. [A EXCEPT !.xfer[x].sock = f, !.xfer[x].conn = c] = w(f)
    <3>1. A \in AimSt(X)
      BY <2>4
    <3>2. Having(A, x, Taken(A.xfer[x], c, f)) = [A EXCEPT !.xfer[x].sock = f, !.xfer[x].conn = c]
      <4> HIDE DEF A, c
      <4> QED BY <2>8, <3>1 DEF Having, Taken, Aim!Listed, AimSt, AimXfer
    <3> QED BY <2>5, <3>2
  <2> DEFINE W == w(f)
  <2>11. W \in AimSt(X) /\ W.xfer = [A.xfer EXCEPT ![x] = Taken(A.xfer[x], c, f)] /\ W.conns = A.conns
         /\ W.io = A.io /\ W.open = A.open /\ W.harm = A.harm /\ W.past = A.past
    <3>1. A \in AimSt(X) /\ W = Having(A, x, Taken(A.xfer[x], c, f))
      BY <2>4
    <3> HIDE DEF A, W, c
    <3> QED BY <2>8, <2>9, <3>1, HavingIs
  <2>12. W.xfer = [s.xfer EXCEPT ![x] = Taken(Informed(s.xfer[x]), c, f)]
    <3> HIDE DEF A, W, c
    <3> QED BY <2>7, <2>8, <2>11
  <2>13. W \in AimSt(X) /\ Offers(s, W, x, f) /\ s.past \subseteq W.past
    <3>1. Offers(s, W, x, f) <=>
             /\ W.xfer = [s.xfer EXCEPT ![x] = Taken(Informed(s.xfer[x]), c, f)]
             /\ W.conns = Plus(s.conns, c, Listener(x, f))
             /\ W.io = Plus(s.io, c, [callback |-> "listening", fd |-> f])
             /\ W.open = [s.open EXCEPT ![f] = "ours"] /\ W.harm = s.harm /\ W.past = s.past
      <4> HIDE DEF W
      <4> QED BY DEF Offers
    <3> HIDE DEF A, W, N, O, c
    <3> QED BY <1>3, <2>2, <2>3, <2>4, <2>11, <2>12, <3>1
  <2> QED BY <2>10, <2>13
<1>5. t = Aim!Abort(s, x, FALSE) \/ \E f \in Aim!Free(s) : t = [a(f) EXCEPT !.xfer[x].sock = f, !.xfer[x].conn = c]
  BY DEF Aim!aim_file_send, Aim!transfer_abort
<1>6. Aim!Abort(s, x, FALSE) \in AimSt(X) /\ Aim!Abort(s, x, FALSE).past = s.past
  BY <1>1, AbortOutKind
<1> HIDE DEF w, a
<1> QED BY <1>4, <1>5, <1>6

-----------------------------------------------------------------------------
(* What is usual stays marked.                                             *)
Step(X, s, t) ==
    /\ t \in AimSt(X) /\ s.past \subseteq t.past
    /\ Usual(s) /\ Usual(t) /\ Marked(s) => Marked(t)

(* What is alone stays alone.                                              *)
Lone(s, t) == Usual(s) /\ Usual(t) /\ Marked(s) /\ Alone(s) => Alone(t)

LEMMA TameSteps ==
    ASSUME NEW X, NEW s, NEW t, Tame(X, s, t)
    PROVE  Step(X, s, t) /\ Lone(s, t)
<1> SUFFICES ASSUME Usual(t), Marked(s) PROVE Marked(t) /\ (Alone(s) => Alone(t))
  BY DEF Tame, Step, Lone
<1>1. Fewer(s, t)
  BY DEF Tame
<1>2. ASSUME NEW x \in Aim!Listed(t)
      PROVE  x \in Aim!Listed(s) /\ SameXfer(t.xfer[x], s.xfer[x]) /\ (Tied(s, x) => Tied(t, x))
  BY <1>1 DEF Fewer
<1>3. ASSUME NEW x \in Aim!Listed(t), t.xfer[x].type = "send"
      PROVE  t.xfer[x].conn # Aim!NULL /\ (t.xfer[x].status = "WAITING" \/ Tied(t, x))
  BY <1>2, <1>3 DEF SameXfer, Marked
<1>4. ASSUME NEW c \in DOMAIN t.conns PROVE Named(t, c) /\ c \in DOMAIN s.conns
  <2>1. c \in DOMAIN s.conns /\ t.conns[c].handlers \subseteq s.conns[c].handlers
    BY <1>1 DEF Fewer
  <2>2. Named(s, c)
    BY <2>1 DEF Marked
  <2>3. c[1] \in Aim!Listed(t) => c[1] \in Aim!Listed(s) /\ t.xfer[c[1]].conn = s.xfer[c[1]].conn
    BY <1>2 DEF SameXfer
  <2> QED BY <2>1, <2>2, <2>3 DEF Named
<1>5. Alone(s) => Alone(t)
  BY <1>2, <1>4 DEF Alone, SameXfer
<1> QED BY <1>3, <1>4, <1>5 DEF Marked

LEMMA ListeningSteps ==
    ASSUME NEW X, NEW s \in AimSt(X), NEW c \in DOMAIN s.conns, c[2] = "listener",
           NEW fd \in Fds \cup {Aim!None}, NEW t \in Aim!aim_listen_conn_event(s, c, fd)
    PROVE  Step(X, s, t) /\ Lone(s, t)
<1> DEFINE x == c[1]
           n == <<x, "accepted">>
           a == Aim!transfer_abort(Aim!Close(s, fd), s.conns[c].priv)
<1>1. s.conns[c].priv = x /\ x \in X /\ c \in Names(X) /\ s.conns \in AimConns(X)
  BY StFields, ConnsAre
<1>2. \/ t = a \/ t = Aim!Harm(s, "freed")
      \/ x \in Aim!Listed(s) /\ \E f \in Aim!Free(s) : t \in Aim!Accepted(s, c, f)
  <2>1. CASE x \notin Aim!Listed(s)
    BY <1>1, <2>1 DEF Aim!aim_listen_conn_event
  <2>2. CASE x \in Aim!Listed(s)
    <3> DEFINE A == UNION {Aim!Accepted(s, c, f) : f \in Aim!Free(s)}
    <3>1. Aim!aim_listen_conn_event(s, c, fd) = {a} \cup A
      BY <1>1, <2>2 DEF Aim!aim_listen_conn_event
    <3>2. t = a \/ t \in A
      <4> HIDE DEF A, a
      <4> QED BY <3>1
    <3> HIDE DEF a
    <3> QED BY <2>2, <3>2
  <2> QED BY <2>1, <2>2
<1>3. CASE t = a
  <2>1. Tame(X, s, Aim!Close(s, fd))
    BY TameClose
  <2>2. Tame(X, s, Aim!transfer_abort(Aim!Close(s, fd), x))
    BY <1>1, <2>1, TameAborted
  <2> QED BY <1>1, <1>3, <2>2, TameSteps
<1>4. CASE t = Aim!Harm(s, "freed")
  BY <1>4, TameHarm, TameSteps
<1>5. ASSUME x \in Aim!Listed(s), NEW f \in Aim!Free(s), t \in Aim!Accepted(s, c, f)
      PROVE  Step(X, s, t) /\ Lone(s, t)
  <2> DEFINE N == [fd |-> f, priv |-> x, handlers |-> Events]
             v == Active(Taken(s.xfer[x], n, f))
  <2>1. f \in Fds /\ c[2] # "accepted"
    BY DEF Aim!Free
  <2>2. /\ t \in AimSt(X) /\ s.past \subseteq t.past
        /\ \/ "vanished" \in t.past
           \/ Fields(t) = <<[s.xfer EXCEPT ![x] = v], Minus(Plus(s.conns, n, N), {c}),
                            Plus(Minus(s.io, {c}), n, [callback |-> "event", fd |-> f]),
                            Closed([s.open EXCEPT ![f] = "ours"], s.conns[c].fd),
                            Hit(Aim!Open(s, f), s.conns[c].fd), s.past>>
    BY <1>5, <2>1, AcceptedIs
  <2>3. CASE "vanished" \in t.past
    BY <2>2, <2>3 DEF Step, Lone, Usual
  <2>4. CASE "vanished" \notin t.past
    <3>1. t.xfer = [s.xfer EXCEPT ![x] = v] /\ t.conns = Minus(Plus(s.conns, n, N), {c})
      <4> HIDE DEF v, n, N
      <4> QED BY <2>2, <2>4 DEF Fields
    <3>2. s.xfer[x] \in AimXfer(X) /\ n \in Names(X) /\ n # Aim!NULL /\ n[1] = x /\ n[2] = "accepted"
      <4>1. "accepted" \in Aim!Hows
        BY DEF Aim!Hows
      <4> QED BY <1>1, <1>5, <4>1, StFields, XfersAre, NamesAre DEF Aim!Listed
    <3>3. v.type = s.xfer[x].type /\ v.conn = n
      <4> HIDE DEF n
      <4>1. Taken(s.xfer[x], n, f) \in AimXfer(X) /\ Taken(s.xfer[x], n, f).conn = n
            /\ Taken(s.xfer[x], n, f).type = s.xfer[x].type
        BY <2>1, <3>2, TakenIs
      <4> QED BY <4>1, ActiveIs
    <3>4. Aim!Listed(t) = Aim!Listed(s) /\ t.xfer[x] = v /\ \A y \in Aim!Listed(s) : y # x => t.xfer[y] = s.xfer[y]
      <4> HIDE DEF v, x
      <4> QED BY <1>5, <3>1 DEF Aim!Listed
    <3>5. /\ DOMAIN t.conns = (DOMAIN s.conns \cup {n}) \ {c} /\ n # c /\ t.conns[n] = N
          /\ \A d \in DOMAIN s.conns : d # n /\ d # c => t.conns[d] = s.conns[d]
      <4>1. n # c
        BY <3>2
      <4> HIDE DEF n, N
      <4> QED BY <3>1, <4>1 DEF Minus, Plus
    <3>6. "dead" \in N.handlers /\ "prompt" \notin N.handlers
      BY DEF Events
    <3>7. Tied(t, x)
      <4> HIDE DEF N, v
      <4> QED BY <3>3, <3>4, <3>5, <3>6 DEF Tied
    <3>8. ASSUME Marked(s) PROVE Marked(t)
      <4>1. ASSUME NEW y \in Aim!Listed(t), t.xfer[y].type = "send"
            PROVE  t.xfer[y].conn # Aim!NULL /\ (t.xfer[y].status = "WAITING" \/ Tied(t, y))
        <5>1. CASE y = x
          <6> HIDE DEF v, n
          <6> QED BY <3>2, <3>3, <3>4, <3>7, <5>1
        <5>2. CASE y # x
          <6>1. y \in Aim!Listed(s) /\ t.xfer[y] = s.xfer[y]
            BY <3>4, <5>2
          <6>2. s.xfer[y].conn # Aim!NULL /\ (s.xfer[y].status = "WAITING" \/ Tied(s, y))
            BY <3>8, <4>1, <6>1 DEF Marked
          <6>3. ASSUME Tied(s, y) PROVE Tied(t, y)
            <7> DEFINE d == <<y, "accepted">>
            <7>1. d # n /\ d # c
              BY <5>2, <2>1
            <7>2. s.xfer[y].conn = d /\ d \in DOMAIN s.conns /\ "dead" \in s.conns[d].handlers
              BY <6>3 DEF Tied
            <7> HIDE DEF d, n
            <7>3. t.xfer[y].conn = d /\ d \in DOMAIN t.conns /\ "dead" \in t.conns[d].handlers
              BY <3>5, <6>1, <7>1, <7>2
            <7> QED BY <7>3 DEF Tied, d
          <6> QED BY <6>1, <6>2, <6>3
        <5> QED BY <5>1, <5>2
      <4>2. ASSUME NEW d \in DOMAIN t.conns PROVE Named(t, d)
        <5>1. CASE d = n
          BY <3>2, <3>5, <3>6, <5>1 DEF Named
        <5>2. CASE d # n
          <6>1. d \in DOMAIN s.conns /\ t.conns[d] = s.conns[d]
            <7> HIDE DEF n
            <7> QED BY <3>5, <5>2
          <6>2. Named(s, d)
            BY <3>8, <6>1 DEF Marked
          <6>3. d[1] \in Aim!Listed(t) /\ s.xfer[d[1]].conn # Aim!NULL => t.xfer[d[1]].conn # Aim!NULL
            <7> HIDE DEF n, v, x
            <7> QED BY <3>2, <3>3, <3>4
          <6> QED BY <3>4, <6>1, <6>2, <6>3 DEF Named
        <5> QED BY <5>1, <5>2
      <4> QED BY <4>1, <4>2 DEF Marked
    <3>9. ~Alone(s)
      BY DEF Alone
    <3> QED BY <2>2, <3>8, <3>9 DEF Step, Lone
  <2> QED BY <2>3, <2>4
<1> QED BY <1>2, <1>3, <1>4, <1>5

LEMMA GetSteps ==
    ASSUME NEW X, NEW s \in AimSt(X), NEW x \in Aim!Listed(s), <<x, "redialled">> \notin DOMAIN s.conns,
           NEW r \in Aim!transfer_get(s, x), NEW t,
           t = IF s.xfer[x].conn = Aim!NULL THEN r ELSE Aim!Past(r, "again")
    PROVE  Step(X, s, t) /\ Lone(s, t)
<1> DEFINE c == Aim!Dialled(s, x)
<1>1. /\ r \in AimSt(X) /\ s.past \subseteq r.past
      /\ \/ r.past \cap {"refused", "noname"} # {}
         \/ \E f \in Aim!Free(s), cb \in Waits : Gets(s, r, x, c, f, cb)
  BY GetIs
<1>2. CASE s.xfer[x].conn # Aim!NULL
  <2>1. t = Aim!Past(r, "again")
    BY <1>2
  <2>2. t \in AimSt(X) /\ Fields(t) = <<r.xfer, r.conns, r.io, r.open, r.harm, r.past \cup {"again"}>>
    BY <1>1, <2>1, PastIs
  <2>3. t.past = r.past \cup {"again"}
    BY <2>2 DEF Fields
  <2> QED BY <1>1, <2>2, <2>3 DEF Step, Lone, Usual
<1>3. CASE s.xfer[x].conn = Aim!NULL /\ r.past \cap {"refused", "noname"} # {}
  BY <1>1, <1>3 DEF Step, Lone, Usual
<1>4. CASE s.xfer[x].conn = Aim!NULL /\ r.past \cap {"refused", "noname"} = {}
  <2>1. t = r
    BY <1>4
  <2>2. PICK f \in Aim!Free(s), cb \in Waits : Gets(s, t, x, c, f, cb)
    BY <1>1, <1>4, <2>1
  <2> SUFFICES ASSUME Marked(s) PROVE Marked(t) /\ (Alone(s) => Alone(t))
    BY <1>1, <2>1 DEF Step, Lone
  <2> DEFINE v == Active(Shook(Filed(s.xfer[x]), c, f, cb))
  <2>3. c = <<x, "dialled">> /\ c \in Names(X) /\ c[1] = x /\ c[2] = "dialled" /\ c # Aim!NULL
        /\ s.xfer[x] \in AimXfer(X) /\ f \in Fds /\ c \notin DOMAIN s.conns
    <3> DEFINE d == <<x, "dialled">>
    <3>1. x \in X /\ s.xfer[x] \in AimXfer(X)
      BY StFields, XfersAre DEF Aim!Listed
    <3>2. d \in Names(X) /\ d[1] = x /\ d[2] = "dialled" /\ d # Aim!NULL
      <4>1. "dialled" \in Aim!Hows
        BY DEF Aim!Hows
      <4> QED BY <3>1, <4>1, NamesAre
    <3>3. d \notin DOMAIN s.conns
      <4> SUFFICES ASSUME d \in DOMAIN s.conns PROVE FALSE
        OBVIOUS
      <4> HIDE DEF d
      <4>1. Named(s, d)
        BY DEF Marked
      <4> QED BY <1>4, <3>2, <4>1 DEF Named
    <3>4. c = d
      BY <3>3 DEF Aim!Dialled
    <3> HIDE DEF c, d
    <3> QED BY <3>1, <3>2, <3>3, <3>4 DEF Aim!Free, d
  <2> HIDE DEF c
  <2>4. v.conn = c /\ v.type = s.xfer[x].type
    <3>1. v = Got(s.xfer[x], c, f, cb)
      BY DEF Got
    <3>2. cb \in Waits /\ s.xfer[x] \in AimXfer(X) /\ c \in Names(X) /\ f \in Fds
      BY <2>3 DEF Waits
    <3> HIDE DEF v
    <3>3. Got(s.xfer[x], c, f, cb).conn = c
      BY <3>2, GotIs
    <3>4. Got(s.xfer[x], c, f, cb).type = s.xfer[x].type
      BY <3>2, GotIs
    <3> QED BY <3>1, <3>3, <3>4
  <2> HIDE DEF v
  <2>5. Aim!Listed(t) = Aim!Listed(s) /\ t.xfer[x] = v /\ \A y \in Aim!Listed(s) : y # x => t.xfer[y] = s.xfer[y]
    <3>1. t.xfer = [s.xfer EXCEPT ![x] = v]
      BY <2>2 DEF Gets, v
    <3> QED BY <3>1 DEF Aim!Listed
  <2>6. DOMAIN t.conns = DOMAIN s.conns \cup {c} /\ \A d \in DOMAIN s.conns : t.conns[d] = s.conns[d]
    <3>1. t.conns = Plus(s.conns, c, Dialler(x, f, cb))
      BY <2>2 DEF Gets
    <3> QED BY <2>3, <3>1 DEF Plus
  <2>7. s.xfer[x].type # "send"
    BY <1>4 DEF Marked
  <2>8. ASSUME NEW y \in Aim!Listed(t), t.xfer[y].type = "send"
        PROVE  t.xfer[y].conn # Aim!NULL /\ (t.xfer[y].status = "WAITING" \/ Tied(t, y))
    <3>1. y # x /\ y \in Aim!Listed(s) /\ t.xfer[y] = s.xfer[y]
      BY <2>4, <2>5, <2>7, <2>8
    <3>2. s.xfer[y].conn # Aim!NULL /\ (s.xfer[y].status = "WAITING" \/ Tied(s, y))
      BY <2>8, <3>1 DEF Marked
    <3>3. Tied(s, y) => Tied(t, y)
      BY <2>6, <3>1 DEF Tied
    <3> QED BY <3>1, <3>2, <3>3
  <2>9. ASSUME NEW d \in DOMAIN t.conns PROVE Named(t, d)
    <3>1. CASE d = c
      BY <2>3, <2>4, <2>5, <3>1 DEF Named
    <3>2. CASE d # c
      <4>1. d \in DOMAIN s.conns /\ t.conns[d] = s.conns[d]
        BY <2>6, <3>2
      <4>2. Named(s, d)
        BY <4>1 DEF Marked
      <4>3. d[1] \in Aim!Listed(t) /\ s.xfer[d[1]].conn # Aim!NULL => t.xfer[d[1]].conn # Aim!NULL
        BY <2>3, <2>4, <2>5
      <4> QED BY <2>5, <4>1, <4>2, <4>3 DEF Named
    <3> QED BY <3>1, <3>2
  <2>10. Alone(s) => Alone(t)
    <3> SUFFICES ASSUME Alone(s) PROVE Alone(t)
      OBVIOUS
    <3>1. \A d \in DOMAIN t.conns : d[2] = "dialled"
      BY <2>3, <2>6 DEF Alone
    <3>2. \A y \in Aim!Listed(t) : t.xfer[y].status = "WAITING" \/ t.xfer[y].type = "recv"
      <4>1. s.xfer[x].type = "recv"
        BY <2>3, <2>7 DEF AimXfer
      <4> QED BY <2>4, <2>5, <4>1 DEF Alone
    <3> QED BY <3>1, <3>2 DEF Alone
  <2> QED BY <2>8, <2>9, <2>10 DEF Marked
<1> QED BY <1>2, <1>3, <1>4

LEMMA AimStGrows ==
    ASSUME NEW X, NEW Y, X \subseteq Y, NEW s \in AimSt(X)
    PROVE  s \in AimSt(Y)
<1>1. Names(X) \subseteq Names(Y) /\ Nodes(X) \subseteq Nodes(Y)
  BY DEF Names, Nodes
<1>2. AimXfer(X) \subseteq AimXfer(Y)
  BY <1>1 DEF AimXfer
<1>3. AimConn(X) \subseteq AimConn(Y)
  BY DEF AimConn
<1>4. ASSUME NEW K, NEW L, NEW S, NEW T, K \subseteq L, S \subseteq T, NEW f \in Tables(K, S)
      PROVE  f \in Tables(L, T)
  <2>1. DOMAIN f \subseteq K /\ f \in [DOMAIN f -> S]
    BY <1>4, TablesAre
  <2>2. DOMAIN f \subseteq L /\ f \in [DOMAIN f -> T]
    BY <1>4, <2>1
  <2> QED BY <2>2, TablesAre
<1>5. s.xfer \in AimXfers(Y)
  <2>1. s.xfer \in AimXfers(X)
    BY StFields
  <2>2. s.xfer \in Tables(X, AimXfer(X))
        /\ \A x \in DOMAIN s.xfer : s.xfer[x].conn # Aim!NULL => s.xfer[x].conn[1] = x
    BY <2>1 DEF AimXfers
  <2>3. s.xfer \in Tables(Y, AimXfer(Y))
    BY <1>2, <1>4, <2>2
  <2> QED BY <2>2, <2>3 DEF AimXfers
<1>6. s.conns \in AimConns(Y)
  <2>1. s.conns \in AimConns(X)
    BY StFields
  <2>2. s.conns \in Tables(Names(X), AimConn(X)) /\ \A c \in DOMAIN s.conns : s.conns[c].priv = c[1]
    BY <2>1 DEF AimConns
  <2>3. s.conns \in Tables(Names(Y), AimConn(Y))
    BY <1>1, <1>3, <1>4, <2>2
  <2> QED BY <2>2, <2>3 DEF AimConns
<1>7. s.io \in AimSrcs(Y)
  <2>1. s.io \in Tables(Nodes(X), AimSrc)
    BY StFields DEF AimSrcs
  <2>2. s.io \in Tables(Nodes(Y), AimSrc)
    BY <1>1, <1>4, <2>1
  <2> QED BY <2>2 DEF AimSrcs
<1> QED BY <1>5, <1>6, <1>7 DEF AimSt

(* What is there is of the transfers that there have been.                 *)
LEMMA NoneOf ==
    ASSUME NEW X, NEW s \in AimSt(X), NEW x, x \notin X
    PROVE  /\ x \notin Aim!Listed(s)
           /\ \A c \in DOMAIN s.conns : c[1] # x
           /\ \A k \in DOMAIN s.io : k[1] # x
<1>1. x \notin Aim!Listed(s)
  BY StFields, XfersAre DEF Aim!Listed
<1>2. DOMAIN s.conns \subseteq Names(X)
  BY StFields, ConnsAre
<1>3. DOMAIN s.io \subseteq Nodes(X)
  BY StFields, TablesAre DEF AimSrcs
<1>4. \A c \in DOMAIN s.conns : c[1] # x
  BY <1>2, NamesAre
<1>5. ASSUME NEW k \in DOMAIN s.io PROVE k[1] # x
  <2>1. CASE k \in Names(X)
    BY <2>1, NamesAre
  <2>2. CASE k \notin Names(X)
    <3>1. PICK y \in X : k = Aim!Of(y)
      BY <1>3, <2>2 DEF Nodes
    <3> QED BY <3>1 DEF Aim!Of
  <2> QED BY <2>1, <2>2
<1> QED BY <1>1, <1>4, <1>5

LEMMA PlusMinus ==
    ASSUME NEW K, NEW S, NEW f \in Tables(K, S), NEW x, x \notin DOMAIN f, NEW v
    PROVE  Minus(Plus(f, x, v), {x}) = f
<1>1. f \in [DOMAIN f -> S]
  BY TablesAre
<1>2. DOMAIN Plus(f, x, v) = DOMAIN f \cup {x} /\ \A k \in DOMAIN f : Plus(f, x, v)[k] = f[k]
  BY DEF Plus
<1>3. DOMAIN Minus(Plus(f, x, v), {x}) = DOMAIN f
  BY <1>2 DEF Minus
<1>4. \A k \in DOMAIN f : Minus(Plus(f, x, v), {x})[k] = f[k]
  BY <1>2 DEF Minus
<1>5. Minus(Plus(f, x, v), {x}) = [k \in DOMAIN Minus(Plus(f, x, v), {x}) |-> Minus(Plus(f, x, v), {x})[k]]
  BY DEF Minus
<1> QED BY <1>1, <1>3, <1>4, <1>5

LEMMA PlusPut ==
    ASSUME NEW f, NEW x, NEW v, NEW w
    PROVE  [Plus(f, x, v) EXCEPT ![x] = w] = Plus(f, x, w)
BY DEF Plus

(* The two ways in which a transfer begins; x is new.                      *)
Sent0(len) == Fresh("send", len)
Given(len) == Informed(Fresh("recv", len))

LEMMA FreshIs ==
    ASSUME NEW X, NEW type \in {"send", "recv"}, NEW len \in Int
    PROVE  /\ Fresh(type, len) \in AimXfer(X) /\ Fresh(type, len).type = type
           /\ Fresh(type, len).conn = Aim!NULL /\ Fresh(type, len).status = "WAITING"
BY DEF Fresh, AimXfer

BeginsWith(s, t, x, v, f) ==
    LET c == <<x, "listener">>
    IN  /\ t.xfer = Plus(s.xfer, x, Taken(Informed(v), c, f))
        /\ t.conns = Plus(s.conns, c, Listener(x, f))
        /\ t.io = Plus(s.io, c, [callback |-> "listening", fd |-> f])
        /\ t.open = [s.open EXCEPT ![f] = "ours"] /\ t.harm = s.harm /\ t.past = s.past

(* What a send leaves: the state as it was, or the transfer begun.          *)
Sends(s, t, Y, x, len) ==
    /\ t \in AimSt(Y) /\ s.past \subseteq t.past
    /\ \/ Fields(t) = <<s.xfer, s.conns, Minus(s.io, {Aim!Of(x)}), s.open, s.harm, s.past>>
       \/ \E f \in Aim!Free(s) : BeginsWith(s, t, x, Fresh("send", len), f)

LEMMA NewSendIs ==
    ASSUME NEW X, NEW s \in AimSt(X), NEW Y, X \subseteq Y, NEW x \in Y, x \notin X, NEW len \in Int,
           NEW t \in Aim!aim_file_send(Aim!transfer_new(s, x, "send", len), x)
    PROVE  Sends(s, t, Y, x, len)
<1> DEFINE n == Aim!transfer_new(s, x, "send", len)
           v == Fresh("send", len)
<1>1. s \in AimSt(Y)
  BY AimStGrows
<1>2. n \in AimSt(Y) /\ v \in AimXfer(Y)
      /\ Fields(n) = <<Plus(s.xfer, x, v), s.conns, s.io, s.open, s.harm, s.past>>
  BY <1>1, NewIs
<1>3. x \notin Aim!Listed(s) /\ s.xfer \in Tables(X, AimXfer(X))
  BY NoneOf, StFields, XfersAre
<1>4. ~v.info
  BY DEF Fresh
<1> HIDE DEF n, v
<1>5. /\ n.xfer = Plus(s.xfer, x, v) /\ n.conns = s.conns /\ n.io = s.io /\ n.open = s.open
      /\ n.harm = s.harm /\ n.past = s.past
  BY <1>2 DEF Fields
<1>6. x \in Aim!Listed(n) /\ n.xfer[x] = v /\ Aim!Free(n) = Aim!Free(s)
  BY <1>5 DEF Aim!Listed, Plus, Aim!Free
<1>7. t \in Aim!aim_file_send(n, x)
  BY DEF n
<1>8. t \in AimSt(Y) /\ n.past \subseteq t.past /\ (t = Aim!Abort(n, x, FALSE) \/ \E f \in Aim!Free(n) : Offers(n, t, x, f))
  BY <1>2, <1>6, <1>7, SendIs
<1>9. CASE t = Aim!Abort(n, x, FALSE)
  <2>1. Fields(Aim!Abort(n, x, FALSE)) = <<Minus(n.xfer, {x}), n.conns, Minus(n.io, {Aim!Of(x)}), n.open,
                                       n.harm, n.past>>
    BY <1>2, <1>4, <1>6, AbortOutPlain
  <2>2. Minus(n.xfer, {x}) = s.xfer
    BY <1>3, <1>5, PlusMinus DEF Aim!Listed
  <2>3. Fields(t) = <<s.xfer, s.conns, Minus(s.io, {Aim!Of(x)}), s.open, s.harm, s.past>>
    BY <1>5, <1>9, <2>1, <2>2
  <2> QED BY <1>5, <1>8, <2>3 DEF Sends
<1>10. CASE \E f \in Aim!Free(n) : Offers(n, t, x, f)
  <2>1. PICK f \in Aim!Free(s) : Offers(n, t, x, f)
    BY <1>6, <1>10
  <2>2. t.xfer = Plus(s.xfer, x, Taken(Informed(v), <<x, "listener">>, f))
    <3>1. t.xfer = [n.xfer EXCEPT ![x] = Taken(Informed(v), <<x, "listener">>, f)]
      BY <1>6, <2>1 DEF Offers
    <3> QED BY <1>5, <3>1, PlusPut
  <2>3. BeginsWith(s, t, x, v, f)
    BY <1>5, <2>1, <2>2 DEF Offers, BeginsWith
  <2>4. BeginsWith(s, t, x, Fresh("send", len), f)
    BY <2>3 DEF v
  <2> QED BY <1>5, <1>8, <2>1, <2>4 DEF Sends
<1> QED BY <1>8, <1>9, <1>10

LEMMA OfferIs ==
    ASSUME NEW X, NEW s \in AimSt(X), NEW Y, X \subseteq Y, NEW x \in Y, x \notin X, NEW len \in Int,
           NEW t, t = Aim!aim_oft_createinfo(Aim!transfer_new(s, x, "recv", len), x)
    PROVE  /\ t \in AimSt(Y) /\ t.xfer = Plus(s.xfer, x, Given(len)) /\ t.conns = s.conns
           /\ t.io = s.io /\ t.open = s.open /\ t.harm = s.harm /\ t.past = s.past
<1> DEFINE n == Aim!transfer_new(s, x, "recv", len)
           v == Fresh("recv", len)
<1>1. s \in AimSt(Y)
  BY AimStGrows
<1>2. n \in AimSt(Y) /\ v \in AimXfer(Y)
      /\ Fields(n) = <<Plus(s.xfer, x, v), s.conns, s.io, s.open, s.harm, s.past>>
  BY <1>1, NewIs
<1>3. t = Aim!aim_oft_createinfo(n, x)
  OBVIOUS
<1>4. Given(len) = Informed(v)
  BY DEF Given
<1> HIDE DEF n, v
<1>5. /\ n.xfer = Plus(s.xfer, x, v) /\ n.conns = s.conns /\ n.io = s.io /\ n.open = s.open
      /\ n.harm = s.harm /\ n.past = s.past
  BY <1>2 DEF Fields
<1>6. x \in Aim!Listed(n) /\ n.xfer[x] = v
  BY <1>5 DEF Aim!Listed, Plus
<1>7. /\ t \in AimSt(Y) /\ t.xfer = [n.xfer EXCEPT ![x] = Informed(n.xfer[x])]
      /\ t.conns = n.conns
      /\ t.io = n.io /\ t.open = n.open /\ t.harm = n.harm /\ t.past = n.past
  <2> DEFINE w == Aim!aim_oft_createinfo(n, x)
  <2>1. /\ w \in AimSt(Y) /\ w.xfer = [n.xfer EXCEPT ![x] = Informed(n.xfer[x])]
        /\ w.conns = n.conns
        /\ w.io = n.io /\ w.open = n.open /\ w.harm = n.harm /\ w.past = n.past
    BY <1>2, <1>6, CreateIs
  <2>2. t = w
    BY <1>3
  <2> HIDE DEF w
  <2> QED BY <2>1, <2>2
<1>8. t.xfer = Plus(s.xfer, x, Given(len))
  BY <1>4, <1>5, <1>6, <1>7, PlusPut
<1> QED BY <1>5, <1>7, <1>8

LEMMA SendSteps ==
    ASSUME NEW X, NEW s \in AimSt(X), NEW Y, X \subseteq Y, NEW x \in Y, x \notin X, NEW len \in Int,
           NEW t \in Aim!aim_file_send(Aim!transfer_new(s, x, "send", len), x)
    PROVE  Step(Y, s, t)
<1>1. /\ t \in AimSt(Y) /\ s.past \subseteq t.past
      /\ \/ Fields(t) = <<s.xfer, s.conns, Minus(s.io, {Aim!Of(x)}), s.open, s.harm, s.past>>
         \/ \E f \in Aim!Free(s) : BeginsWith(s, t, x, Fresh("send", len), f)
  <2>1. Sends(s, t, Y, x, len)
    BY NewSendIs
  <2> QED BY <2>1 DEF Sends
<1>2. CASE Fields(t) = <<s.xfer, s.conns, Minus(s.io, {Aim!Of(x)}), s.open, s.harm, s.past>>
  <2>1. t.xfer = s.xfer /\ t.conns = s.conns /\ t.harm = s.harm /\ t.past = s.past
    BY <1>2 DEF Fields
  <2>2. Tame(Y, s, t)
    BY <1>1, <2>1, TameSame
  <2> QED BY <2>2, TameSteps
<1>3. CASE \E f \in Aim!Free(s) : BeginsWith(s, t, x, Fresh("send", len), f)
  <2>1. PICK f \in Aim!Free(s) : BeginsWith(s, t, x, Fresh("send", len), f)
    BY <1>3
  <2> SUFFICES ASSUME Marked(s) PROVE Marked(t)
    BY <1>1 DEF Step
  <2> DEFINE c == <<x, "listener">>
             v == Taken(Informed(Fresh("send", len)), c, f)
  <2>2. v.conn = c /\ v.status = "WAITING" /\ c # Aim!NULL /\ c[1] = x /\ c[2] = "listener"
    <3>1. v.conn = c /\ v.status = "WAITING"
      BY DEF Taken, Informed, Fresh
    <3>2. "listener" \in Aim!Hows
      BY DEF Aim!Hows
    <3>3. c \in Names(Y) /\ c # Aim!NULL /\ c[1] = x /\ c[2] = "listener"
      BY <3>2, NamesAre
    <3> QED BY <3>1, <3>3
  <2>3. x \notin Aim!Listed(s) /\ \A d \in DOMAIN s.conns : d[1] # x
    BY NoneOf
  <2>4. "prompt" \notin Listener(x, f).handlers
    BY DEF Listener
  <2>5. t.xfer = Plus(s.xfer, x, v) /\ t.conns = Plus(s.conns, c, Listener(x, f))
    BY <2>1 DEF BeginsWith
  <2> HIDE DEF c, v
  <2>6. Aim!Listed(t) = Aim!Listed(s) \cup {x} /\ t.xfer[x] = v
        /\ \A y \in Aim!Listed(s) : t.xfer[y] = s.xfer[y]
    BY <2>3, <2>5 DEF Plus, Aim!Listed
  <2>7. DOMAIN t.conns = DOMAIN s.conns \cup {c} /\ t.conns[c] = Listener(x, f)
        /\ \A d \in DOMAIN s.conns : t.conns[d] = s.conns[d]
    BY <2>2, <2>3, <2>5 DEF Plus
  <2>8. ASSUME NEW y \in Aim!Listed(t), t.xfer[y].type = "send"
        PROVE  t.xfer[y].conn # Aim!NULL /\ (t.xfer[y].status = "WAITING" \/ Tied(t, y))
    <3>1. CASE y = x
      BY <2>2, <2>6, <3>1
    <3>2. CASE y # x
      <4>1. y \in Aim!Listed(s) /\ t.xfer[y] = s.xfer[y]
        BY <2>6, <3>2
      <4>2. s.xfer[y].conn # Aim!NULL /\ (s.xfer[y].status = "WAITING" \/ Tied(s, y))
        BY <2>8, <4>1 DEF Marked
      <4>3. Tied(s, y) => Tied(t, y)
        BY <2>7, <4>1 DEF Tied
      <4> QED BY <4>1, <4>2, <4>3
    <3> QED BY <3>1, <3>2
  <2>9. ASSUME NEW d \in DOMAIN t.conns PROVE Named(t, d)
    <3>1. CASE d = c
      BY <2>2, <2>4, <2>7, <3>1 DEF Named
    <3>2. CASE d # c
      <4>1. d \in DOMAIN s.conns /\ t.conns[d] = s.conns[d] /\ d[1] # x
        BY <2>3, <2>7, <3>2
      <4>2. Named(s, d)
        BY <4>1 DEF Marked
      <4> QED BY <2>6, <4>1, <4>2 DEF Named
    <3> QED BY <3>1, <3>2
  <2> QED BY <2>8, <2>9 DEF Marked
<1> QED BY <1>1, <1>2, <1>3

LEMMA OfferSteps ==
    ASSUME NEW X, NEW s \in AimSt(X), NEW Y, X \subseteq Y, NEW x \in Y, x \notin X, NEW len \in Int,
           NEW t, t = Aim!aim_oft_createinfo(Aim!transfer_new(s, x, "recv", len), x)
    PROVE  Step(Y, s, t)
<1>1. /\ t \in AimSt(Y) /\ t.xfer = Plus(s.xfer, x, Given(len)) /\ t.conns = s.conns
      /\ t.past = s.past
  BY OfferIs
<1> SUFFICES ASSUME Marked(s) PROVE Marked(t)
  BY <1>1 DEF Step
<1>2. x \notin Aim!Listed(s) /\ \A d \in DOMAIN s.conns : d[1] # x
  BY NoneOf
<1>3. Aim!Listed(t) = Aim!Listed(s) \cup {x} /\ t.xfer[x] = Given(len)
      /\ \A y \in Aim!Listed(s) : t.xfer[y] = s.xfer[y]
  BY <1>1, <1>2 DEF Plus, Aim!Listed
<1>4. Given(len).type = "recv"
  BY DEF Given, Informed, Fresh
<1>5. ASSUME NEW y \in Aim!Listed(t), t.xfer[y].type = "send"
      PROVE  t.xfer[y].conn # Aim!NULL /\ (t.xfer[y].status = "WAITING" \/ Tied(t, y))
  <2>1. y \in Aim!Listed(s) /\ t.xfer[y] = s.xfer[y]
    BY <1>3, <1>4, <1>5
  <2>2. s.xfer[y].conn # Aim!NULL /\ (s.xfer[y].status = "WAITING" \/ Tied(s, y))
    BY <1>5, <2>1 DEF Marked
  <2> QED BY <1>1, <2>1, <2>2 DEF Tied
<1>6. ASSUME NEW d \in DOMAIN t.conns PROVE Named(t, d)
  <2>1. d \in DOMAIN s.conns /\ d[1] # x
    BY <1>1, <1>2
  <2>2. Named(s, d)
    BY <2>1 DEF Marked
  <2> QED BY <1>1, <1>3, <2>1, <2>2 DEF Named
<1> QED BY <1>5, <1>6 DEF Marked

(* What is watched no more, and what the session forgets.                  *)
LEMMA MidwayIs ==
    ASSUME NEW X, NEW s \in AimSt(X), NEW C
    PROVE  LET t == Aim!Midway(s, C)
           IN  /\ t \in AimSt(X) /\ t.xfer = s.xfer /\ t.conns = s.conns /\ t.io = s.io
               /\ t.open = s.open /\ t.harm = s.harm
               /\ t.past = s.past \/ t.past = s.past \cup {"midway"}
               /\ t.past = {} => \A c \in C \cap DOMAIN s.conns : s.conns[c].fd # Aim!None
<1>1. CASE \E c \in C \cap DOMAIN s.conns : s.conns[c].fd = Aim!None
  <2> DEFINE t == Aim!Past(s, "midway")
  <2>1. t \in AimSt(X) /\ Fields(t) = <<s.xfer, s.conns, s.io, s.open, s.harm, s.past \cup {"midway"}>>
    BY PastIs
  <2>2. Aim!Midway(s, C) = t
    BY <1>1 DEF Aim!Midway
  <2> HIDE DEF t
  <2>3. /\ t.xfer = s.xfer /\ t.conns = s.conns /\ t.io = s.io
        /\ t.open = s.open /\ t.harm = s.harm /\ t.past = s.past \cup {"midway"}
    BY <2>1 DEF Fields
  <2> QED BY <2>1, <2>2, <2>3
<1>2. CASE ~\E c \in C \cap DOMAIN s.conns : s.conns[c].fd = Aim!None
  <2>1. Aim!Midway(s, C) = s
    BY <1>2 DEF Aim!Midway
  <2> QED BY <1>2, <2>1
<1> QED BY <1>1, <1>2

LEMMA UnwatchedIs ==
    ASSUME NEW X, NEW s \in AimSt(X)
    PROVE  LET t == Aim!Unwatched(s)
           IN  /\ t \in AimSt(X)
               /\ Fields(t) = <<s.xfer, s.conns, Minus(s.io, DOMAIN s.conns), s.open, s.harm, s.past>>
<1> DEFINE f == Minus(s.io, DOMAIN s.conns)
<1>1. f \in AimSrcs(X)
  BY StFields, MinusIs DEF AimSrcs
<1>2. Aim!Unwatched(s) = [s EXCEPT !.io = f]
  BY DEF Aim!Unwatched, Minus
<1> HIDE DEF f
<1>3. [s EXCEPT !.io = f] \in AimSt(X)
      /\ Fields([s EXCEPT !.io = f]) = <<s.xfer, s.conns, f, s.open, s.harm, s.past>>
  BY <1>1, SetIo
<1> QED BY <1>2, <1>3 DEF f

Unknown(v) == [v EXCEPT !.known = FALSE]

LEMMA UnknownIs ==
    ASSUME NEW X, NEW v \in AimXfer(X)
    PROVE  Unknown(v) \in AimXfer(X) /\ SameXfer(Unknown(v), v)
BY DEF Unknown, AimXfer, SameXfer

LEMMA ForgottenIs ==
    ASSUME NEW X, NEW s \in AimSt(X), DOMAIN s.conns = {}
    PROVE  LET t == Aim!Forgotten(s)
           IN  /\ t \in AimSt(X) /\ Tame(X, s, t)
               /\ Calm(t) => t = s /\ Aim!Listed(s) = {}
<1>1. CASE Aim!Listed(s) = {}
  <2>1. Aim!Forgotten(s) = s
    BY <1>1 DEF Aim!Forgotten
  <2>2. Tame(X, s, s)
    BY TameSame
  <2> QED BY <1>1, <2>1, <2>2
<1>2. CASE Aim!Listed(s) # {}
  <2> DEFINE f == [x \in DOMAIN s.xfer |-> Unknown(s.xfer[x])]
             u == [s EXCEPT !.xfer = f]
             t == Aim!Past(u, "lost")
  <2>1. Aim!Forgotten(s) = t
    BY <1>2 DEF Aim!Forgotten, Unknown
  <2>2. f \in AimXfers(X)
    <3>1. s.xfer \in AimXfers(X) /\ DOMAIN s.xfer \subseteq X
      BY StFields, XfersAre
    <3>2. \A x \in DOMAIN s.xfer : s.xfer[x] \in AimXfer(X) /\ Own(s.xfer[x], x)
      BY <3>1, XfersAre
    <3>3. \A x \in DOMAIN s.xfer : Unknown(s.xfer[x]) \in AimXfer(X) /\ SameXfer(Unknown(s.xfer[x]), s.xfer[x])
      BY <3>2, UnknownIs
    <3>4. DOMAIN f \subseteq X /\ f \in [DOMAIN f -> AimXfer(X)]
      BY <3>1, <3>3
    <3>5. f \in Tables(X, AimXfer(X))
      BY <3>4, TablesAre
    <3>6. \A x \in DOMAIN f : f[x].conn # Aim!NULL => f[x].conn[1] = x
      BY <3>2, <3>3 DEF Own, SameXfer
    <3> QED BY <3>5, <3>6 DEF AimXfers
  <2>3. \A x \in DOMAIN s.xfer : f[x] = Unknown(s.xfer[x])
    OBVIOUS
  <2>4. DOMAIN f = DOMAIN s.xfer
    OBVIOUS
  <2> HIDE DEF f
  <2>5. u \in AimSt(X) /\ Fields(u) = <<f, s.conns, s.io, s.open, s.harm, s.past>>
    BY <2>2, SetXfer
  <2> HIDE DEF u
  <2>6. t \in AimSt(X) /\ Fields(t) = <<u.xfer, u.conns, u.io, u.open, u.harm, u.past \cup {"lost"}>>
    BY <2>5, PastIs
  <2> HIDE DEF t
  <2>7. t.xfer = f /\ t.conns = s.conns /\ t.harm = s.harm /\ t.past = s.past \cup {"lost"}
    BY <2>5, <2>6 DEF Fields
  <2>8. Fewer(s, t)
    <3>1. \A x \in DOMAIN s.xfer : s.xfer[x] \in AimXfer(X)
      BY StFields, XfersAre
    <3>2. \A x \in DOMAIN s.xfer : SameXfer(t.xfer[x], s.xfer[x])
      BY <2>3, <2>7, <3>1, UnknownIs
    <3>3. \A x \in DOMAIN s.xfer : Tied(s, x) => Tied(t, x)
      BY <2>7, <3>2 DEF Tied, SameXfer
    <3> QED BY <2>4, <2>7, <3>2, <3>3 DEF Fewer, Aim!Listed
  <2>9. Tame(X, s, t)
    BY <2>6, <2>7, <2>8 DEF Tame, Unharmed
  <2>10. ~Calm(t)
    BY <2>7 DEF Calm
  <2> QED BY <2>1, <2>6, <2>9, <2>10
<1> QED BY <1>1, <1>2

LEMMA BoundsA == (Lens \ {1}) \subseteq Nat /\ MaxXfers \in Nat
BY LensAssumption, BoundAssumption

Made == 0 .. aim_refnum - 1

(* The invariant: every variable has its type; the marks of the usual      *)
(* states; and what holds in the calm ones, in and out of the loop.        *)
Typed ==
    /\ aim_refnum \in Nat /\ aim_refnum <= MaxXfers
    /\ st \in AimSt(Made) /\ sess \in {"up", "losing", "lost", "going", "gone"}

Grows == st.past \subseteq st'.past

Known == Usual(st) => Marked(st) /\ (sess = "lost" => Alone(st))

LEMMA StepKeeps ==
    ASSUME Typed, Known, Step(Made, st, st'), Lone(st, st'), st.harm = {}, Aim!Keeps
    PROVE  Typed' /\ Known' /\ Grows
<1>1. aim_refnum' = aim_refnum /\ sess' = sess
  BY DEF Aim!Keeps
<1>2. Typed'
  BY <1>1 DEF Typed, Made, Step
<1>3. ASSUME Usual(st') PROVE Marked(st') /\ (sess' = "lost" => Alone(st'))
  <2>1. Usual(st)
    BY <1>3 DEF Usual, Unharmed, Step
  <2> QED BY <1>1, <1>3, <2>1 DEF Known, Step, Lone
<1>4. Grows
  BY DEF Grows, Step
<1> QED BY <1>2, <1>3, <1>4 DEF Known

LEMMA TameKeeps ==
    ASSUME Typed, Known, Tame(Made, st, st'), st.harm = {}, Aim!Keeps
    PROVE  Typed' /\ Known' /\ Grows
BY TameSteps, StepKeeps

(* A key is that of a connection or that of a transfer.                    *)
LEMMA KeysAre ==
    ASSUME NEW X, NEW s \in AimSt(X), NEW x \in X
    PROVE  /\ \A how \in Aim!Hows : <<x, how>> \in Aim!Keys(s) => <<x, how>> \in DOMAIN s.conns
           /\ Aim!Of(x) \in Aim!Keys(s) => x \in Aim!Listed(s)
<1>1. Aim!Listed(s) \subseteq X
  BY StFields, XfersAre DEF Aim!Listed
<1>2. DOMAIN s.conns \subseteq Names(X)
  BY StFields, ConnsAre
<1>3. ASSUME NEW how \in Aim!Hows, <<x, how>> \in Aim!Keys(s) PROVE <<x, how>> \in DOMAIN s.conns
  <2>1. <<x, how>> \in Names(X)
    BY NamesAre
  <2>2. \A y \in Aim!Listed(s) : Aim!Of(y) \notin Names(X)
    BY <1>1, NamesAre
  <2> QED BY <1>3, <2>1, <2>2 DEF Aim!Keys
<1>4. ASSUME Aim!Of(x) \in Aim!Keys(s) PROVE x \in Aim!Listed(s)
  <2>1. Aim!Of(x) \notin Names(X)
    BY NamesAre
  <2>2. PICK y \in Aim!Listed(s) : Aim!Of(x) = Aim!Of(y)
    BY <1>2, <1>4, <2>1 DEF Aim!Keys
  <2>3. x = y
    BY <1>1, <2>2, NamesAre
  <2> QED BY <2>3
<1> QED BY <1>3, <1>4

(* A source that calls back is one of a transfer that there has been.      *)
LEMMA CalledIs ==
    ASSUME NEW X, NEW s \in AimSt(X), NEW k \in DOMAIN s.io
    PROVE  k[1] \in X /\ s.io[k].fd \in Fds \cup {Aim!None} /\ s.io[k] \in AimSrc
<1>1. k[1] \in X
  BY NoneOf
<1>2. s.io[k] \in AimSrc
  BY StFields, TablesAre DEF AimSrcs
<1> QED BY <1>1, <1>2 DEF AimSrc

LEMMA CallbackKeeps ==
    ASSUME Typed, Known, NEW key, NEW cb, NEW S, Aim!Callback(key, cb, S),
           ASSUME key \in Aim!Keys(st), st' \in S PROVE Typed' /\ Known' /\ Grows
    PROVE  Typed' /\ Known' /\ Grows
<1>1. CASE st' = Aim!Harm(st, "freed")
  <2>1. Tame(Made, st, Aim!Harm(st, "freed"))
    BY TameHarm DEF Typed
  <2> QED BY <1>1, <2>1, TameKeeps DEF Aim!Callback, Aim!Becomes
<1> QED BY <1>1 DEF Aim!Callback, Aim!Becomes

LEMMA ListeningKeeps ==
    ASSUME Typed, Known, NEW x \in Nat, Aim!Listening(<<x, "listener">>)
    PROVE  Typed' /\ Known' /\ Grows
<1> DEFINE c == <<x, "listener">>
<1>1. Aim!Callback(c, "listening", Aim!aim_listen_conn_event(st, c, st.io[c].fd))
  BY DEF Aim!Listening
<1>2. c \in DOMAIN st.io /\ Aim!Keeps /\ st.harm = {}
  BY <1>1 DEF Aim!Callback, Aim!Calls, Aim!Becomes
<1>3. c[1] = x /\ c[2] = "listener" /\ "listener" \in Aim!Hows
  BY DEF Aim!Hows
<1>4. x \in Made /\ st.io[c].fd \in Fds \cup {Aim!None} /\ st \in AimSt(Made)
  <2> HIDE DEF c
  <2> QED BY <1>2, <1>3, CalledIs DEF Typed
<1>5. ASSUME c \in Aim!Keys(st), st' \in Aim!aim_listen_conn_event(st, c, st.io[c].fd)
      PROVE  Typed' /\ Known' /\ Grows
  <2>1. c \in DOMAIN st.conns
    BY <1>3, <1>4, <1>5, KeysAre
  <2>2. Step(Made, st, st') /\ Lone(st, st')
    <3> HIDE DEF c
    <3> QED BY <1>3, <1>4, <1>5, <2>1, ListeningSteps
  <2> QED BY <1>2, <2>2, StepKeeps
<1> HIDE DEF c
<1> QED BY <1>1, <1>5, CallbackKeeps

LEMMA DiallingKeeps ==
    ASSUME Typed, Known, NEW x \in Nat, NEW how \in {"dialled", "redialled"}, Aim!Dialling(<<x, how>>)
    PROVE  Typed' /\ Known' /\ Grows
<1> DEFINE c == <<x, how>>
<1>1. Aim!Callback(c, "connected", Aim!aim_connected(st, c, st.io[c].fd))
  BY DEF Aim!Dialling
<1>2. c \in DOMAIN st.io /\ Aim!Keeps /\ st.harm = {}
  BY <1>1 DEF Aim!Callback, Aim!Calls, Aim!Becomes
<1>3. c[1] = x /\ how \in Aim!Hows
  BY DEF Aim!Hows
<1>4. x \in Made /\ st.io[c].fd \in Fds \cup {Aim!None} /\ st \in AimSt(Made)
  <2> HIDE DEF c
  <2> QED BY <1>2, <1>3, CalledIs DEF Typed
<1>5. ASSUME c \in Aim!Keys(st), st' \in Aim!aim_connected(st, c, st.io[c].fd)
      PROVE  Typed' /\ Known' /\ Grows
  <2>1. c \in DOMAIN st.conns
    BY <1>3, <1>4, <1>5, KeysAre
  <2>2. Tame(Made, st, st')
    <3> HIDE DEF c
    <3> QED BY <1>4, <1>5, <2>1, TameDialling
  <2> QED BY <1>2, <2>2, TameKeeps
<1> HIDE DEF c
<1> QED BY <1>1, <1>5, CallbackKeeps

LEMMA ShakingKeeps ==
    ASSUME Typed, Known, NEW x \in Nat, NEW how \in Aim!Hows, Aim!Shaking(<<x, how>>)
    PROVE  Typed' /\ Known' /\ Grows
<1> DEFINE c == <<x, how>>
<1>1. Aim!Callback(c, "event", Aim!aim_conn_event(st, c))
  BY DEF Aim!Shaking
<1>2. c \in DOMAIN st.io /\ Aim!Keeps /\ st.harm = {}
  BY <1>1 DEF Aim!Callback, Aim!Calls, Aim!Becomes
<1>3. c[1] = x
  OBVIOUS
<1>4. x \in Made /\ st \in AimSt(Made)
  <2> HIDE DEF c
  <2> QED BY <1>2, <1>3, CalledIs DEF Typed
<1>5. ASSUME c \in Aim!Keys(st), st' \in Aim!aim_conn_event(st, c)
      PROVE  Typed' /\ Known' /\ Grows
  <2>1. c \in DOMAIN st.conns
    BY <1>4, <1>5, KeysAre
  <2> HIDE DEF c
  <2>2. ASSUME Usual(st), "prompt" \in st.conns[c].handlers PROVE Loose(st, c)
    <3>1. Named(st, c)
      BY <2>1, <2>2 DEF Known, Marked
    <3> QED BY <2>2, <3>1 DEF Named, Loose
  <2>3. Tame(Made, st, st')
    BY <1>4, <1>5, <2>1, <2>2, TameShaking
  <2> QED BY <1>2, <2>3, TameKeeps
<1> HIDE DEF c
<1> QED BY <1>1, <1>5, CallbackKeeps

LEMMA SendingKeeps ==
    ASSUME Typed, Known, NEW x \in Nat, Aim!Sending(x) \/ Aim!Receiving(x)
    PROVE  Typed' /\ Known' /\ Grows
<1>0. PICK S \in {Aim!transfer_send_data(st, x), Aim!transfer_recv_data(st, x)}, cb \in {"send_data", "recv_data"} :
         Aim!Callback(Aim!Of(x), cb, S)
  BY DEF Aim!Sending, Aim!Receiving
<1>2. Aim!Of(x) \in DOMAIN st.io /\ Aim!Keeps /\ st.harm = {}
  BY <1>0 DEF Aim!Callback, Aim!Calls, Aim!Becomes
<1>3. Aim!Of(x)[1] = x
  BY DEF Aim!Of
<1>4. x \in Made /\ st \in AimSt(Made)
  BY <1>2, <1>3, CalledIs DEF Typed
<1>5. ASSUME Aim!Of(x) \in Aim!Keys(st), st' \in S
      PROVE  Typed' /\ Known' /\ Grows
  <2>1. x \in Aim!Listed(st)
    BY <1>4, <1>5, KeysAre
  <2>2. Tame(Made, st, st')
    BY <1>0, <1>4, <1>5, <2>1, TameSending, TameReceiving
  <2> QED BY <1>2, <2>2, TameKeeps
<1> QED BY <1>0, <1>5, CallbackKeeps

LEMMA GetKeeps ==
    ASSUME Typed, Known, NEW x \in Nat, Aim!Get(x)
    PROVE  Typed' /\ Known' /\ Grows
<1>1. x \in Aim!Listed(st) /\ <<x, "redialled">> \notin DOMAIN st.conns /\ Aim!Keeps /\ st.harm = {}
      /\ st \in AimSt(Made)
  BY DEF Aim!Get, Aim!Becomes, Typed
<1>2. PICK r \in Aim!transfer_get(st, x) : st' = IF st.xfer[x].conn = Aim!NULL THEN r ELSE Aim!Past(r, "again")
  BY DEF Aim!Get, Aim!Becomes
<1>3. Step(Made, st, st') /\ Lone(st, st')
  BY <1>1, <1>2, GetSteps
<1> QED BY <1>1, <1>3, StepKeeps

LEMMA CancelKeeps ==
    ASSUME Typed, Known, NEW x \in Nat, Aim!Cancel(x)
    PROVE  Typed' /\ Known' /\ Grows
<1> DEFINE C == {st.xfer[x].conn}
           s == Aim!Midway(st, C)
<1>1. x \in Aim!Listed(st) /\ st' = Aim!transfer_abort(s, x) /\ Aim!Keeps /\ st.harm = {} /\ st \in AimSt(Made)
  BY DEF Aim!Cancel, Aim!Becomes, Typed
<1>2. s \in AimSt(Made) /\ s.xfer = st.xfer /\ s.conns = st.conns /\ s.harm = st.harm
      /\ st.past \subseteq s.past
  <2> HIDE DEF C
  <2> QED BY <1>1, MidwayIs
<1>3. x \in Made
  BY <1>1, StFields, XfersAre DEF Aim!Listed
<1> HIDE DEF s
<1>4. Tame(Made, st, s)
  BY <1>2, TameSame
<1>5. Tame(Made, st, st')
  BY <1>1, <1>3, <1>4, TameAborted
<1> QED BY <1>1, <1>5, TameKeeps

LEMMA BeginKeeps ==
    ASSUME Typed, Known, Aim!transfer_send \/ Aim!parse_im_chan2
    PROVE  Typed' /\ Known' /\ Grows
<1> DEFINE x == aim_refnum
           Y == 0 .. x
<1>1. /\ x \in Nat /\ x < MaxXfers /\ aim_refnum' = x + 1 /\ sess' = sess /\ st.harm = {}
      /\ st \in AimSt(Made) /\ sess \in {"up", "lost"}
  BY DEF Aim!transfer_send, Aim!parse_im_chan2, Aim!NewRefnum, Aim!Commands, Aim!Becomes, Typed
<1>2. Made \subseteq Y /\ x \in Y /\ x \notin Made /\ Made' = Y
  BY <1>1 DEF Made
<1>3. aim_refnum' \in Nat /\ aim_refnum' <= MaxXfers
  BY <1>1, BoundsA
<1> HIDE DEF x, Y
<1>4. ASSUME Step(Y, st, st'), sess = "up" PROVE Typed' /\ Known' /\ Grows
  <2>1. Typed'
    BY <1>1, <1>2, <1>3, <1>4 DEF Typed, Step
  <2>2. ASSUME Usual(st') PROVE Marked(st')
    <3>1. Usual(st)
      BY <1>1, <2>2, <1>4 DEF Usual, Unharmed, Step
    <3> QED BY <1>4, <2>2, <3>1 DEF Known, Step
  <2>3. Grows
    BY <1>4 DEF Grows, Step
  <2> QED BY <1>1, <1>4, <2>1, <2>2, <2>3 DEF Known
<1>5. CASE Aim!parse_im_chan2
  <2>1. PICK len \in (Lens \ {1}) : st' = Aim!aim_oft_createinfo(Aim!transfer_new(st, x, "recv", len), x)
    BY <1>5 DEF Aim!parse_im_chan2, Aim!Becomes, x
  <2>2. len \in Int /\ sess = "up"
    BY <1>5, BoundsA DEF Aim!parse_im_chan2
  <2>3. Step(Y, st, st')
    BY <1>1, <1>2, <2>1, <2>2, OfferSteps
  <2> QED BY <1>4, <2>2, <2>3
<1>6. CASE Aim!transfer_send /\ sess = "up"
  <2>1. PICK len \in (Lens \ {1}) : st' \in Aim!aim_file_send(Aim!transfer_new(st, x, "send", len), x)
    BY <1>6 DEF Aim!transfer_send, Aim!Becomes, x
  <2>2. len \in Int
    BY BoundsA
  <2>3. Step(Y, st, st')
    BY <1>1, <1>2, <2>1, <2>2, SendSteps
  <2> QED BY <1>4, <1>6, <2>3
<1>7. CASE Aim!transfer_send /\ sess = "lost"
  <2>1. PICK len \in (Lens \ {1}) : st' = Aim!Past(Aim!Harm(Aim!transfer_new(st, x, "send", len), "freed"), "offline")
    BY <1>7 DEF Aim!transfer_send, Aim!Becomes, x
  <2>2. len \in Int /\ st \in AimSt(Y)
    <3>1. st \in AimSt(Y)
      BY <1>1, <1>2, AimStGrows
    <3> QED BY <3>1, BoundsA
  <2>3. Aim!transfer_new(st, x, "send", len) \in AimSt(Y)
    BY <1>2, <2>2, NewIs
  <2> DEFINE s == Aim!transfer_new(st, x, "send", len)
             h == Aim!Harm(s, "freed")
  <2>4. h \in AimSt(Y) /\ ~Unharmed(h)
    <3> HIDE DEF s
    <3>1. s \in AimSt(Y)
      BY <2>3 DEF s
    <3>2. Aim!Harm(s, "freed") \in AimSt(Y) /\ ~Unharmed(Aim!Harm(s, "freed"))
      BY <3>1, HarmIs DEF Fields
    <3> QED BY <3>2 DEF h
  <2>5. st' \in AimSt(Y) /\ ~Unharmed(st')
    <3> HIDE DEF h
    <3>1. Aim!Past(h, "offline") \in AimSt(Y)
          /\ Fields(Aim!Past(h, "offline")) = <<h.xfer, h.conns, h.io, h.open, h.harm, h.past \cup {"offline"}>>
      BY <2>4, PastIs
    <3>2. Aim!Past(h, "offline").harm = h.harm
      BY <3>1 DEF Fields
    <3>3. st' = Aim!Past(h, "offline")
      BY <2>1 DEF h
    <3> QED BY <2>4, <3>1, <3>2, <3>3 DEF Unharmed
  <2>6. Typed' /\ Known'
    BY <1>1, <1>2, <1>3, <2>5 DEF Typed, Known, Usual
  <2>7. Grows
    <3>1. s.past = st.past
      BY <1>2, <2>2, NewIs DEF Fields
    <3>2. h.past = s.past
      BY <2>3, HarmIs DEF Fields
    <3> HIDE DEF s, h
    <3>3. Aim!Past(h, "offline").past = h.past \cup {"offline"}
      BY <2>4, PastIs DEF Fields
    <3>4. st' = Aim!Past(h, "offline")
      BY <2>1 DEF h, s
    <3> QED BY <3>1, <3>2, <3>3, <3>4 DEF Grows
  <2> QED BY <2>6, <2>7
<1> QED BY <1>1, <1>5, <1>6, <1>7

LEMMA KillKeeps ==
    ASSUME Typed, Known, Aim!Lost \/ Aim!pork_acct_free
    PROVE  Typed' /\ Known' /\ Grows
<1> DEFINE C == DOMAIN st.conns
           s == Aim!Midway(st, C)
           t == Aim!Unwatched(s)
<1>1. sess' \in {"losing", "going"} /\ st' = t /\ st.harm = {} /\ aim_refnum' = aim_refnum
      /\ st \in AimSt(Made)
  BY DEF Aim!Lost, Aim!pork_acct_free, Aim!aim_kill_all_conn, Aim!Becomes, Typed
<1>2. s \in AimSt(Made) /\ s.xfer = st.xfer /\ s.conns = st.conns /\ s.harm = st.harm
      /\ st.past \subseteq s.past
  <2> HIDE DEF C
  <2> QED BY <1>1, MidwayIs
<1> HIDE DEF s
<1>3. t \in AimSt(Made)
      /\ Fields(t) = <<s.xfer, s.conns, Minus(s.io, DOMAIN s.conns), s.open, s.harm, s.past>>
  BY <1>2, UnwatchedIs
<1> HIDE DEF t
<1>4. t.xfer = st.xfer /\ t.conns = st.conns /\ t.harm = st.harm /\ st.past \subseteq t.past
  BY <1>2, <1>3 DEF Fields
<1>5. Step(Made, st, t)
  BY <1>3, <1>4, TameSame, TameSteps
<1>6. Typed'
  BY <1>1, <1>3 DEF Typed, Made
<1>7. ASSUME Usual(st') PROVE Marked(st')
  <2>1. Usual(st)
    BY <1>1, <1>4, <1>7 DEF Usual, Unharmed
  <2> QED BY <1>1, <1>5, <1>7, <2>1 DEF Step, Known
<1>8. Grows
  BY <1>1, <1>4 DEF Grows
<1> QED BY <1>1, <1>6, <1>7, <1>8 DEF Known

LEMMA ConnrstKeeps ==
    ASSUME Typed, Known, NEW c, Aim!aim_connrst(c)
    PROVE  Typed' /\ Known' /\ Grows
<1>1. c \in DOMAIN st.conns /\ st' = Aim!Killed(st, c) /\ Aim!Keeps /\ st.harm = {} /\ st \in AimSt(Made)
  BY DEF Aim!aim_connrst, Aim!Becomes, Typed
<1>2. Tame(Made, st, st')
  BY <1>1, TameKilled
<1> QED BY <1>1, <1>2, TameKeeps

LEMMA SetupKeeps ==
    ASSUME Typed, Known, Aim!aim_setup
    PROVE  Typed' /\ Known' /\ Grows
<1>1. /\ DOMAIN st.conns = {} /\ st' = Aim!Forgotten(st) /\ st.harm = {} /\ st \in AimSt(Made)
      /\ aim_refnum' = aim_refnum /\ sess' \in {"lost", "gone"}
  BY DEF Aim!aim_setup, Aim!Becomes, Typed
<1>2. Tame(Made, st, st')
  BY <1>1, ForgottenIs
<1>3. Step(Made, st, st') /\ Lone(st, st')
  BY <1>2, TameSteps
<1>4. Typed'
  BY <1>1, <1>3 DEF Typed, Step, Made
<1>5. ASSUME Usual(st') PROVE Marked(st') /\ Alone(st')
  <2>1. Usual(st)
    BY <1>2, <1>5 DEF Usual, Tame
  <2>2. Marked(st)
    BY <2>1 DEF Known
  <2>3. ASSUME NEW x \in Aim!Listed(st) PROVE st.xfer[x].status = "WAITING" \/ st.xfer[x].type = "recv"
    <3>1. st.xfer[x].type \in {"send", "recv"}
      <4>1. st.xfer[x] \in AimXfer(Made)
        BY <1>1, StFields, XfersAre DEF Aim!Listed
      <4> QED BY <4>1 DEF AimXfer
    <3>2. ~Tied(st, x)
      BY <1>1 DEF Tied
    <3> QED BY <2>2, <3>1, <3>2 DEF Marked
  <2>4. Alone(st)
    BY <1>1, <2>3 DEF Alone
  <2> QED BY <1>3, <1>5, <2>1, <2>2, <2>4 DEF Step, Lone
<1>6. Grows
  BY <1>3 DEF Grows, Step
<1> QED BY <1>4, <1>5, <1>6 DEF Known

(* The rest of the program opens or closes a descriptor.                   *)
Toggle(u) == IF u = "closed" THEN "other" ELSE "closed"

LEMMA OthersIs ==
    ASSUME NEW X, NEW s \in AimSt(X), NEW f \in Fds
    PROVE  LET t == [s EXCEPT !.open[f] = IF @ = "closed" THEN "other" ELSE "closed"]
           IN  t \in AimSt(X)
               /\ Fields(t) = <<s.xfer, s.conns, s.io, [s.open EXCEPT ![f] = Toggle(s.open[f])],
                                s.harm, s.past>>
<1> DEFINE o == [s.open EXCEPT ![f] = Toggle(s.open[f])]
<1>1. o \in Users
  BY StFields DEF Users, Toggle
<1>2. [s EXCEPT !.open[f] = IF @ = "closed" THEN "other" ELSE "closed"] = [s EXCEPT !.open = o]
  BY DEF Toggle
<1> HIDE DEF o
<1>3. /\ [s EXCEPT !.open = o] \in AimSt(X)
      /\ Fields([s EXCEPT !.open = o]) = <<s.xfer, s.conns, s.io, o, s.harm, s.past>>
  BY <1>1 DEF AimSt, Fields
<1> QED BY <1>2, <1>3 DEF o

LEMMA OthersKeeps ==
    ASSUME Typed, Known, Aim!Others
    PROVE  Typed' /\ Known' /\ Grows
<1>1. PICK f \in Fds :
         Aim!Becomes({[st EXCEPT !.open[f] = IF @ = "closed" THEN "other" ELSE "closed"]})
  BY DEF Aim!Others
<1>2. Aim!Keeps /\ st.harm = {} /\ st \in AimSt(Made)
      /\ st' = [st EXCEPT !.open[f] = IF @ = "closed" THEN "other" ELSE "closed"]
  BY <1>1 DEF Aim!Others, Aim!Becomes, Typed
<1>3. /\ st' \in AimSt(Made)
      /\ Fields(st') = <<st.xfer, st.conns, st.io, [st.open EXCEPT ![f] = Toggle(st.open[f])],
                         st.harm, st.past>>
  BY <1>2, OthersIs
<1>4. st'.xfer = st.xfer /\ st'.conns = st.conns /\ st'.harm = st.harm /\ st'.past = st.past
  BY <1>3 DEF Fields
<1>5. Tame(Made, st, st')
  BY <1>3, <1>4, TameSame
<1> QED BY <1>2, <1>5, TameKeeps

LEMMA NextKeeps ==
    ASSUME Typed, Known, [Aim!Next]_aimVars
    PROVE  Typed' /\ Known' /\ Grows
<1>1. CASE UNCHANGED aimVars
  BY <1>1 DEF aimVars, Typed, Known, Made, Grows
<1>2. CASE Aim!Again
  BY <1>2 DEF Aim!Again, Typed, Known, Made, Grows
<1>3. CASE Aim!transfer_send \/ Aim!parse_im_chan2
  BY <1>3, BeginKeeps
<1>4. CASE Aim!Lost \/ Aim!pork_acct_free
  BY <1>4, KillKeeps
<1>5. CASE Aim!aim_setup
  BY <1>5, SetupKeeps
<1>6. CASE Aim!Others
  BY <1>6, OthersKeeps
<1>7. ASSUME NEW x \in Aim!Xfers, Aim!Get(x) PROVE Typed' /\ Known' /\ Grows
  BY <1>7, GetKeeps DEF Aim!Xfers
<1>8. ASSUME NEW x \in Aim!Xfers, Aim!Cancel(x) PROVE Typed' /\ Known' /\ Grows
  BY <1>8, CancelKeeps DEF Aim!Xfers
<1>9. ASSUME NEW x \in Aim!Xfers, Aim!Sending(x) \/ Aim!Receiving(x) PROVE Typed' /\ Known' /\ Grows
  BY <1>9, SendingKeeps DEF Aim!Xfers
<1>10. ASSUME NEW x \in Aim!Xfers, Aim!Listening(<<x, "listener">>) PROVE Typed' /\ Known' /\ Grows
  BY <1>10, ListeningKeeps DEF Aim!Xfers
<1>11. ASSUME NEW x \in Aim!Xfers, NEW how \in Aim!Hows, Aim!Shaking(<<x, how>>) PROVE Typed' /\ Known' /\ Grows
  BY <1>11, ShakingKeeps DEF Aim!Xfers
<1>12. ASSUME NEW x \in Aim!Xfers, NEW how \in {"dialled", "redialled"}, Aim!Dialling(<<x, how>>)
       PROVE  Typed' /\ Known' /\ Grows
  <2>1. x \in Nat
    BY DEF Aim!Xfers
  <2> QED BY <1>12, <2>1, DiallingKeeps
<1>13. ASSUME NEW c, Aim!aim_connrst(c) PROVE Typed' /\ Known' /\ Grows
  BY <1>13, ConnrstKeeps
<1>14. "accepted" \in Aim!Hows /\ "dialled" \in Aim!Hows /\ "redialled" \in Aim!Hows
  BY DEF Aim!Hows
<1> QED BY <1>1, <1>2, <1>3, <1>4, <1>5, <1>6, <1>7, <1>8, <1>9, <1>10, <1>11, <1>12, <1>13, <1>14 DEF Aim!Next

(* The part of a state that is about the transfer x.                       *)
Settled(s, x) ==
    /\ x \in Aim!Listed(s) => /\ s.xfer[x].info /\ s.xfer[x].known
                              /\ s.xfer[x].conn # Aim!NULL => s.xfer[x].fp
                              /\ s.xfer[x].conn \in DOMAIN s.conns \cup {Aim!NULL}
    /\ \A c \in DOMAIN s.conns :
          c[1] = x => (Live(s, c) \/ Dead(s, c)) /\ (Live(s, c) => Heard(s, c))
    /\ \A k \in DOMAIN s.io :
          k[1] = x => /\ s.io[k].fd \in Fds /\ s.open[s.io[k].fd] = "ours"
                      /\ \E c \in DOMAIN s.conns : Live(s, c) /\ k \in {c, Aim!Of(c[1])}
    /\ \A j, k \in DOMAIN s.io : j[1] = x /\ k[1] = x /\ s.io[j].fd = s.io[k].fd => j = k

(* A step that is about the transfer x, with what it may do to the others. *)
Beside(s, t, x) ==
    /\ \A y : y # x => /\ y \in Aim!Listed(t) <=> y \in Aim!Listed(s)
                       /\ y \in Aim!Listed(s) => t.xfer[y] = s.xfer[y]
    /\ \A c : c[1] # x => /\ c \in DOMAIN t.conns <=> c \in DOMAIN s.conns
                          /\ c \in DOMAIN s.conns => t.conns[c] = s.conns[c]
    /\ \A k : k[1] # x => /\ k \in DOMAIN t.io <=> k \in DOMAIN s.io
                          /\ k \in DOMAIN s.io => t.io[k] = s.io[k]
    /\ s.past \subseteq t.past

(* A source of the transfer is watched for f.                              *)
Uses(s, x, f) == \E k \in DOMAIN s.io : k[1] = x /\ s.io[k].fd = f

Leaves(s, t, x) ==
    /\ \A f \in Fds : t.open[f] = s.open[f] \/ Uses(s, x, f) \/ Uses(t, x, f)
    /\ \A f \in Fds : Uses(t, x, f) => s.open[f] # "ours" \/ Uses(s, x, f)
    /\ t.past = {} => \A f \in Fds : Uses(s, x, f) /\ t.open[f] = "ours" => Uses(t, x, f)

LEMMA OfIs == \A x : Aim!Of(x)[1] = x
BY DEF Aim!Of

LEMMA BesideSane ==
    ASSUME NEW X, NEW s \in AimSt(X), NEW t \in AimSt(X), Sane(s), NEW x, Beside(s, t, x), Leaves(s, t, x),
           Settled(t, x)
    PROVE  Sane(t)
<1>1. \A c : c[1] # x => /\ Live(s, c) <=> Live(t, c)
                         /\ c \in DOMAIN s.conns /\ Dead(s, c) => Dead(t, c)
  BY DEF Beside, Live, Dead
<1>2. ASSUME NEW y \in Aim!Listed(t)
      PROVE  /\ t.xfer[y].info /\ t.xfer[y].known /\ (t.xfer[y].conn # Aim!NULL => t.xfer[y].fp)
             /\ t.xfer[y].conn \in DOMAIN t.conns \cup {Aim!NULL}
  <2>1. CASE y = x
    BY <2>1 DEF Settled
  <2>2. CASE y # x
    <3>1. y \in Aim!Listed(s) /\ t.xfer[y] = s.xfer[y]
      BY <2>2 DEF Beside
    <3>2. s.xfer[y].conn \in DOMAIN s.conns \cup {Aim!NULL} /\ s.xfer[y].info /\ s.xfer[y].known
          /\ (s.xfer[y].conn # Aim!NULL => s.xfer[y].fp)
      BY <3>1 DEF Sane, Owned
    <3>3. s.xfer[y].conn # Aim!NULL => s.xfer[y].conn[1] = y
      BY <3>1, StFields, XfersAre DEF Own, Aim!Listed
    <3>4. s.xfer[y].conn \in DOMAIN t.conns \cup {Aim!NULL}
      BY <2>2, <3>2, <3>3 DEF Beside
    <3> QED BY <3>1, <3>2, <3>4
  <2> QED BY <2>1, <2>2
<1>3. ASSUME NEW c \in DOMAIN t.conns
      PROVE  (Live(t, c) \/ Dead(t, c)) /\ (Live(t, c) => Heard(t, c))
  <2>1. CASE c[1] = x
    BY <2>1 DEF Settled
  <2>2. CASE c[1] # x
    <3>1. c \in DOMAIN s.conns /\ t.conns[c] = s.conns[c]
      BY <2>2 DEF Beside
    <3>2. Live(t, c) \/ Dead(t, c)
      BY <1>1, <2>2, <3>1 DEF Sane, Owned
    <3>3. ASSUME Live(t, c) PROVE Heard(t, c)
      <4>1. Heard(s, c) /\ Live(s, c)
        BY <1>1, <2>2, <3>1, <3>3 DEF Sane
      <4>2. Aim!Of(c[1])[1] # x
        BY <2>2, OfIs
      <4>3. /\ c \in DOMAIN t.io <=> c \in DOMAIN s.io
            /\ Aim!Of(c[1]) \in DOMAIN t.io <=> Aim!Of(c[1]) \in DOMAIN s.io
            /\ c \in DOMAIN s.io => t.io[c] = s.io[c]
            /\ Aim!Of(c[1]) \in DOMAIN s.io => t.io[Aim!Of(c[1])] = s.io[Aim!Of(c[1])]
        BY <2>2, <4>2 DEF Beside
      <4>4. t.xfer[c[1]] = s.xfer[c[1]]
        BY <2>2, <4>1 DEF Beside, Live
      <4> QED BY <3>1, <4>1, <4>3, <4>4 DEF Heard, Watches
    <3> QED BY <3>2, <3>3
  <2> QED BY <2>1, <2>2
<1>4. ASSUME NEW k \in DOMAIN t.io, k[1] # x
      PROVE  /\ k \in DOMAIN s.io /\ t.io[k] = s.io[k] /\ t.io[k].fd \in Fds
             /\ t.open[t.io[k].fd] = "ours" /\ ~Uses(s, x, t.io[k].fd) /\ ~Uses(t, x, t.io[k].fd)
             /\ \E c \in DOMAIN t.conns : Live(t, c) /\ k \in {c, Aim!Of(c[1])}
  <2>1. k \in DOMAIN s.io /\ t.io[k] = s.io[k]
    BY <1>4 DEF Beside
  <2>2. s.io[k].fd \in Fds /\ s.open[s.io[k].fd] = "ours"
    BY <2>1 DEF Sane, Sources
  <2>3. ~Uses(s, x, s.io[k].fd)
    BY <1>4, <2>1 DEF Sane, Sources, Uses
  <2>4. ~Uses(t, x, s.io[k].fd) /\ t.open[s.io[k].fd] = "ours"
    BY <2>2, <2>3 DEF Leaves
  <2>5. PICK c \in DOMAIN s.conns : Live(s, c) /\ k \in {c, Aim!Of(c[1])}
    BY <2>1 DEF Sane, Sources
  <2>6. c[1] # x
    BY <1>4, <2>5, OfIs
  <2>7. c \in DOMAIN t.conns /\ Live(t, c)
    BY <1>1, <2>5, <2>6 DEF Beside
  <2> QED BY <2>1, <2>2, <2>3, <2>4, <2>5, <2>7
<1>5. ASSUME NEW k \in DOMAIN t.io
      PROVE  /\ t.io[k].fd \in Fds /\ t.open[t.io[k].fd] = "ours"
             /\ \E c \in DOMAIN t.conns : Live(t, c) /\ k \in {c, Aim!Of(c[1])}
  <2>1. CASE k[1] = x
    BY <2>1 DEF Settled
  <2>2. CASE k[1] # x
    BY <1>4, <2>2
  <2> QED BY <2>1, <2>2
<1>6. ASSUME NEW j \in DOMAIN t.io, NEW k \in DOMAIN t.io, t.io[j].fd = t.io[k].fd PROVE j = k
  <2>1. CASE j[1] = x /\ k[1] = x
    BY <1>6, <2>1 DEF Settled
  <2>2. CASE j[1] # x /\ k[1] # x
    <3>1. j \in DOMAIN s.io /\ k \in DOMAIN s.io /\ s.io[j].fd = s.io[k].fd
      BY <1>4, <1>6, <2>2
    <3> QED BY <3>1 DEF Sane, Sources
  <2>3. CASE j[1] = x /\ k[1] # x
    <3>1. ~Uses(t, x, t.io[k].fd)
      BY <1>4, <2>3
    <3> QED BY <1>6, <2>3, <3>1 DEF Uses
  <2>4. CASE j[1] # x /\ k[1] = x
    <3>1. ~Uses(t, x, t.io[j].fd)
      BY <1>4, <2>4
    <3> QED BY <1>6, <2>4, <3>1 DEF Uses
  <2> QED BY <2>1, <2>2, <2>3, <2>4
<1>7. ASSUME t.past = {}, NEW f \in Fds, t.open[f] = "ours" PROVE \E k \in DOMAIN t.io : t.io[k].fd = f
  <2>1. CASE Uses(t, x, f)
    BY <2>1 DEF Uses
  <2>2. CASE ~Uses(t, x, f)
    <3>1. ~Uses(s, x, f) /\ s.open[f] = "ours"
      BY <1>7, <2>2 DEF Leaves
    <3>2. s.past = {}
      BY <1>7 DEF Beside
    <3>3. PICK k \in DOMAIN s.io : s.io[k].fd = f
      BY <3>1, <3>2 DEF Sane, Sources
    <3>4. k[1] # x
      BY <3>1, <3>3 DEF Uses
    <3> QED BY <3>3, <3>4 DEF Beside
  <2> QED BY <2>1, <2>2
<1>8. Owned(t)
  BY <1>2, <1>3 DEF Owned
<1>9. Sources(t)
  BY <1>5, <1>6, <1>7 DEF Sources
<1> QED BY <1>2, <1>3, <1>8, <1>9 DEF Sane

(* What a sane state says of the transfer of a source.                     *)
LEMMA KeyIs ==
    ASSUME NEW X, NEW s \in AimSt(X), Sane(s), NEW k \in DOMAIN s.io
    PROVE  LET x == k[1]
               c == s.xfer[x].conn
           IN  /\ x \in Aim!Listed(s) /\ c \in DOMAIN s.conns /\ c[1] = x /\ c # Aim!NULL /\ k \in {c, Aim!Of(x)}
               /\ \A j \in DOMAIN s.io : j[1] = x => j = k
               /\ \A d \in DOMAIN s.conns : d[1] = x => d = c
               /\ s.io[k].fd \in Fds /\ s.open[s.io[k].fd] = "ours" /\ Watches(s, c, k)
               /\ k = c /\ s.io[k].callback # "listening" => "dead" \in s.conns[c].handlers
               /\ s.xfer[x].info /\ s.xfer[x].known /\ s.xfer[x].fp
<1>1. PICK c \in DOMAIN s.conns : Live(s, c) /\ k \in {c, Aim!Of(c[1])}
  BY DEF Sane, Sources
<1>2. k[1] = c[1] /\ c[1] \in Aim!Listed(s) /\ s.xfer[c[1]].conn = c
  BY <1>1, OfIs DEF Live
<1>3. c \in Names(X)
  BY StFields, ConnsAre
<1>4. c # Aim!NULL /\ c # Aim!Of(c[1]) /\ c[1] \in X
  BY <1>3, NamesAre
<1>5. Heard(s, c)
  BY <1>1 DEF Sane
<1>6. Watches(s, c, k) /\ (k = c /\ s.io[k].callback # "listening" => "dead" \in s.conns[c].handlers)
      /\ ({c, Aim!Of(c[1])} \ {k}) \cap DOMAIN s.io = {}
  BY <1>1, <1>4, <1>5 DEF Heard, Watches
<1>7. ASSUME NEW j \in DOMAIN s.io, j[1] = c[1] PROVE j = k
  <2>1. PICK d \in DOMAIN s.conns : Live(s, d) /\ j \in {d, Aim!Of(d[1])}
    BY DEF Sane, Sources
  <2>2. d = c
    BY <1>2, <1>7, <2>1, OfIs DEF Live
  <2> QED BY <1>6, <2>1, <2>2
<1>8. ASSUME NEW d \in DOMAIN s.conns, d[1] = c[1] PROVE d = c
  <2>1. Live(s, d) \/ Dead(s, d)
    BY DEF Sane, Owned
  <2> QED BY <1>2, <1>8, <2>1 DEF Live, Dead
<1>9. s.io[k].fd \in Fds /\ s.open[s.io[k].fd] = "ours"
  BY DEF Sane, Sources
<1>10. s.xfer[c[1]].info /\ s.xfer[c[1]].known /\ s.xfer[c[1]].fp
  BY <1>2, <1>4 DEF Sane, Owned
<1> QED BY <1>1, <1>2, <1>4, <1>6, <1>7, <1>8, <1>9, <1>10

(* And of one that has no connection yet, or that has one.                 *)
LEMMA QuietIs ==
    ASSUME NEW X, NEW s \in AimSt(X), Sane(s), NEW x \in Aim!Listed(s), s.xfer[x].conn = Aim!NULL
    PROVE  /\ \A k \in DOMAIN s.io : k[1] # x
           /\ \A c \in DOMAIN s.conns : c[1] # x
<1>1. ASSUME NEW c \in DOMAIN s.conns, c[1] = x PROVE FALSE
  <2>1. c # Aim!NULL
    BY StFields, ConnsAre, NamesAre
  <2> QED BY <1>1, <2>1 DEF Sane, Owned, Live, Dead
<1>2. ASSUME NEW k \in DOMAIN s.io, k[1] = x PROVE FALSE
  BY <1>2, KeyIs
<1> QED BY <1>1, <1>2

LEMMA ConnIsWatched ==
    ASSUME NEW X, NEW s \in AimSt(X), Sane(s), NEW x \in Aim!Listed(s), s.xfer[x].conn # Aim!NULL
    PROVE  \E k \in DOMAIN s.io : k[1] = x
<1> DEFINE c == s.xfer[x].conn
<1>1. c \in DOMAIN s.conns
  BY DEF Sane
<1>2. c[1] = x
  BY StFields, XfersAre DEF Aim!Listed, Own
<1>3. Heard(s, c)
  BY <1>1, <1>2 DEF Sane, Live
<1> HIDE DEF c
<1>4. c \in DOMAIN s.io \/ Aim!Of(x) \in DOMAIN s.io
  BY <1>2, <1>3 DEF Heard, Watches
<1> QED BY <1>2, <1>4, OfIs

LEMMA SanePast ==
    ASSUME NEW s, NEW t, Sane(s), t.xfer = s.xfer, t.conns = s.conns, t.io = s.io, t.open = s.open,
           s.past \subseteq t.past
    PROVE  Sane(t)
<1>1. Owned(t)
  BY DEF Sane, Owned, Live, Dead, Aim!Listed
<1>2. \A c \in DOMAIN t.conns : Live(t, c) => Heard(t, c)
  BY DEF Sane, Live, Heard, Watches, Aim!Listed
<1>3. Sources(t)
  BY DEF Sane, Sources, Live, Aim!Listed
<1>4. \A x \in Aim!Listed(t) : t.xfer[x].conn \in DOMAIN t.conns \cup {Aim!NULL}
  BY DEF Sane, Aim!Listed
<1> QED BY <1>1, <1>2, <1>3, <1>4 DEF Sane

(* The end of a transfer: e is the descriptor that has been closed.        *)
LEMMA EndSane ==
    ASSUME NEW X, NEW s \in AimSt(X), NEW t \in AimSt(X), Sane(s), NEW x \in Aim!Listed(s), NEW e \in Fds \cup {Aim!None},
           t.xfer = Minus(s.xfer, {x}),
           DOMAIN t.conns \subseteq DOMAIN s.conns,
           \A d \in DOMAIN s.conns : d # s.xfer[x].conn => d \in DOMAIN t.conns /\ t.conns[d] = s.conns[d],
           \A d \in DOMAIN t.conns : d = s.xfer[x].conn =>
              t.conns[d].handlers = {} /\ t.conns[d].fd = Aim!None /\ "unnamed" \in t.past,
           t.io = Minus(s.io, {Aim!Of(x), s.xfer[x].conn}),
           t.open = Closed(s.open, e), s.past \subseteq t.past,
           e # Aim!None => Uses(s, x, e),
           e = Aim!None => t.past # {} \/ s.xfer[x].conn = Aim!NULL
    PROVE  Sane(t)
<1> DEFINE c == s.xfer[x].conn
<1>1. /\ \A k \in DOMAIN s.io : k[1] = x => k \in {Aim!Of(x), c} /\ \A f : Uses(s, x, f) => s.io[k].fd = f
      /\ \A d \in DOMAIN s.conns : d[1] = x => d = c
  <2>1. CASE c = Aim!NULL
    BY <2>1, QuietIs
  <2>2. CASE c # Aim!NULL
    <3>1. PICK k \in DOMAIN s.io : k[1] = x
      BY <2>2, ConnIsWatched
    <3>2. /\ k \in {c, Aim!Of(x)} /\ \A j \in DOMAIN s.io : j[1] = x => j = k
          /\ \A d \in DOMAIN s.conns : d[1] = x => d = c
      BY <3>1, KeyIs
    <3> QED BY <3>2 DEF Uses
  <2> QED BY <2>1, <2>2
<1>2. Aim!Of(x)[1] = x /\ (c # Aim!NULL => c[1] = x)
  BY OfIs, StFields, XfersAre DEF Aim!Listed, Own
<1>3. \A k \in DOMAIN s.io : k \in {Aim!Of(x), c} => k[1] = x
  <2>1. Aim!NULL \notin DOMAIN s.io
    <3>1. DOMAIN s.io \subseteq Nodes(X)
      BY StFields, TablesAre DEF AimSrcs
    <3> QED BY <3>1, NamesAre
  <2> QED BY <1>2, <2>1
<1> HIDE DEF c
<1>4. Aim!Listed(t) = Aim!Listed(s) \ {x} /\ \A y \in Aim!Listed(t) : t.xfer[y] = s.xfer[y]
  BY DEF Minus, Aim!Listed
<1>5. /\ \A k : k \in DOMAIN t.io <=> k \in DOMAIN s.io /\ k[1] # x
      /\ \A k \in DOMAIN t.io : t.io[k] = s.io[k]
  <2>1. t.io = Minus(s.io, {Aim!Of(x), c})
    BY DEF c
  <2>2. DOMAIN t.io = DOMAIN s.io \ {Aim!Of(x), c} /\ \A k \in DOMAIN t.io : t.io[k] = s.io[k]
    BY <2>1 DEF Minus
  <2> QED BY <1>1, <1>3, <2>2
<1>6. Beside(s, t, x)
  <2>1. \A y : y # x => /\ y \in Aim!Listed(t) <=> y \in Aim!Listed(s)
                        /\ y \in Aim!Listed(s) => t.xfer[y] = s.xfer[y]
    BY <1>4
  <2>2. ASSUME NEW d, d[1] # x
        PROVE  /\ d \in DOMAIN t.conns <=> d \in DOMAIN s.conns
               /\ d \in DOMAIN s.conns => t.conns[d] = s.conns[d]
    <3>1. d \in DOMAIN s.conns => d # c
      <4>1. Aim!NULL \notin DOMAIN s.conns
        BY StFields, ConnsAre, NamesAre
      <4> QED BY <1>2, <2>2, <4>1
    <3> QED BY <3>1 DEF c
  <2>3. \A k : k[1] # x => /\ k \in DOMAIN t.io <=> k \in DOMAIN s.io
                           /\ k \in DOMAIN s.io => t.io[k] = s.io[k]
    BY <1>5
  <2> QED BY <2>1, <2>2, <2>3 DEF Beside
<1>7. \A f : ~Uses(t, x, f)
  BY <1>5 DEF Uses
<1>8. Leaves(s, t, x)
  <2>1. \A f \in Fds : t.open[f] = s.open[f] \/ Uses(s, x, f)
    <3>1. s.open \in Users
      BY StFields
    <3> QED BY <3>1 DEF Closed, Users
  <2>2. ASSUME t.past = {}, NEW f \in Fds, Uses(s, x, f) PROVE t.open[f] # "ours"
    <3>0. PICK k \in DOMAIN s.io : k[1] = x /\ s.io[k].fd = f
      BY <2>2 DEF Uses
    <3>1. e # Aim!None
      <4>1. c # Aim!NULL
        BY <3>0, QuietIs DEF c
      <4> QED BY <2>2, <4>1 DEF c
    <3>2. e = f
      <4>1. Uses(s, x, e)
        BY <3>1
      <4>2. s.io[k].fd = e
        BY <1>1, <3>0, <4>1
      <4> QED BY <3>0, <4>2
    <3>3. s.open \in Users
      BY StFields
    <3> QED BY <3>1, <3>2, <3>3 DEF Closed, Users
  <2> QED BY <1>7, <2>1, <2>2 DEF Leaves
<1>9. Settled(t, x)
  <2>1. ASSUME NEW d \in DOMAIN t.conns, d[1] = x PROVE Dead(t, d) /\ ~Live(t, d)
    <3>1. d = c
      BY <1>1, <2>1
    <3> QED BY <1>4, <2>1, <3>1 DEF Dead, Live, c
  <2> QED BY <1>4, <1>5, <2>1 DEF Settled
<1> QED BY <1>6, <1>8, <1>9, BesideSane

(* A state the callbacks start from, and leave.                            *)
Right(s) == Unharmed(s) /\ Sane(s)

LEMMA MinusPut ==
    ASSUME NEW f, NEW c, NEW v
    PROVE  Minus([f EXCEPT ![c] = v], {c}) = Minus(f, {c})
BY DEF Minus

LEMMA MinusTwice == \A f, a : Minus(Minus(f, {a}), {a}) = Minus(f, {a})
BY DEF Minus

LEMMA MinusMore == \A f, a, b : Minus(Minus(f, {a}), {b, a}) = Minus(f, {b, a})
BY DEF Minus

LEMMA MinusBoth == \A f, a, b : Minus(Minus(f, {b}), {a}) = Minus(f, {b, a})
BY DEF Minus

LEMMA MinusNone ==
    ASSUME NEW f, NEW a, NEW b, b \notin DOMAIN f
    PROVE  Minus(f, {a}) = Minus(f, {a, b})
<1>1. DOMAIN f \ {a} = DOMAIN f \ {a, b}
  OBVIOUS
<1> QED BY <1>1 DEF Minus

LEMMA ClosedTwice ==
    ASSUME NEW o, NEW fd
    PROVE  Closed(o, Aim!None) = o /\ Closed(Closed(o, fd), fd) = Closed(o, fd)
BY DEF Closed

(* The descriptor of the connection of a transfer.                         *)
LEMMA FdIs ==
    ASSUME NEW X, NEW s \in AimSt(X), Sane(s), NEW x \in Aim!Listed(s)
    PROVE  LET c == s.xfer[x].conn
               e == Fd(s, c)
           IN  /\ e \in Fds \cup {Aim!None} /\ (e # Aim!None => Uses(s, x, e) /\ s.open[e] = "ours")
               /\ Hit(s, e) = s.harm
               /\ c # Aim!NULL => c \in DOMAIN s.conns /\ e = s.conns[c].fd
<1> DEFINE c == s.xfer[x].conn
           e == Fd(s, c)
<1>1. CASE c = Aim!NULL
  <2>1. Aim!NULL \notin DOMAIN s.conns
    BY StFields, ConnsAre, NamesAre
  <2>2. e = Aim!None
    BY <1>1, <2>1 DEF Fd
  <2>3. Hit(s, Aim!None) = s.harm
    BY DEF Hit
  <2>4. Hit(s, e) = s.harm
    BY <2>2, <2>3
  <2> HIDE DEF e, c
  <2>5. e \in Fds \cup {Aim!None} /\ (e # Aim!None => Uses(s, x, e) /\ s.open[e] = "ours")
        /\ (c # Aim!NULL => c \in DOMAIN s.conns /\ e = s.conns[c].fd)
    BY <1>1, <2>2
  <2> QED BY <2>4, <2>5 DEF c, e
<1>2. CASE c # Aim!NULL
  <2>1. PICK k \in DOMAIN s.io : k[1] = x
    BY <1>2, ConnIsWatched
  <2>2. c \in DOMAIN s.conns /\ s.io[k].fd \in Fds /\ s.open[s.io[k].fd] = "ours" /\ Watches(s, c, k)
    BY <2>1, KeyIs
  <2> HIDE DEF c
  <2>3. e = s.conns[c].fd
    BY <2>2 DEF Fd
  <2> HIDE DEF e
  <2>4. e = Aim!None \/ e = s.io[k].fd
    BY <2>2, <2>3 DEF Watches
  <2>5. s.open[e] = "ours" \/ e = Aim!None
    BY <2>2, <2>4
  <2>6. Hit(s, e) = s.harm
    BY <2>5 DEF Hit
  <2>7. e \in Fds \cup {Aim!None} /\ (e # Aim!None => Uses(s, x, e) /\ s.open[e] = "ours")
    BY <2>1, <2>2, <2>4 DEF Uses
  <2> QED BY <2>2, <2>3, <2>6, <2>7 DEF c, e
<1> QED BY <1>1, <1>2

LEMMA EndFine ==
    ASSUME NEW X, NEW s \in AimSt(X), NEW t \in AimSt(X), Right(s), NEW x \in Aim!Listed(s), NEW e \in Fds \cup {Aim!None},
           t.xfer = Minus(s.xfer, {x}), t.conns = Rest(s, s.xfer[x].conn, FALSE),
           t.io = Minus(s.io, {Aim!Of(x), s.xfer[x].conn}),
           t.open = Closed(s.open, e), t.harm = s.harm, s.past \subseteq t.past,
           e # Aim!None => Uses(s, x, e),
           e = Aim!None => t.past # {} \/ s.xfer[x].conn = Aim!NULL
    PROVE  Right(t)
<1> DEFINE c == s.xfer[x].conn
<1>1. Aim!NULL \notin DOMAIN s.conns
  BY StFields, ConnsAre, NamesAre
<1>2. DOMAIN t.conns = DOMAIN s.conns \ {c} /\ \A d \in DOMAIN t.conns : t.conns[d] = s.conns[d]
  <2>1. CASE c = Aim!NULL
    BY <1>1, <2>1 DEF Rest
  <2>2. CASE c # Aim!NULL
    BY <2>2 DEF Rest, Minus
  <2> QED BY <2>1, <2>2
<1>3. Sane(t)
  BY <1>2, EndSane DEF Right
<1> QED BY <1>3 DEF Right, Unharmed

LEMMA AbortFine ==
    ASSUME NEW X, NEW s \in AimSt(X), Right(s), NEW x \in Aim!Listed(s),
           \/ s.past # {} \/ s.xfer[x].conn = Aim!NULL \/ s.conns[s.xfer[x].conn].fd # Aim!None
    PROVE  Right(Aim!Abort(s, x, FALSE))
<1> DEFINE c == s.xfer[x].conn
           e == Fd(s, c)
           t == Aim!Abort(s, x, FALSE)
<1>1. x \in X
  BY StFields, XfersAre DEF Aim!Listed
<1>2. s.xfer[x].info /\ s.xfer[x].known /\ c \in DOMAIN s.conns \cup {Aim!NULL}
  BY DEF Right, Sane, Owned
<1>3. t \in AimSt(X) /\ Fields(t) = Ended(s, x, FALSE)
  BY <1>1, <1>2, AbortOutSafe, AbortOutKind
<1>4. /\ e \in Fds \cup {Aim!None} /\ (e # Aim!None => Uses(s, x, e))
      /\ Hit(s, e) = s.harm /\ (c # Aim!NULL => e = s.conns[c].fd)
  BY FdIs DEF Right
<1> HIDE DEF t
<1>5. /\ t.xfer = Minus(s.xfer, {x}) /\ t.conns = Rest(s, c, FALSE)
      /\ t.io = Minus(s.io, {Aim!Of(x), c}) /\ t.open = Closed(s.open, e) /\ t.harm = s.harm
      /\ t.past = s.past
  BY <1>3, <1>4 DEF Fields, Ended
<1> HIDE DEF e
<1>6. e = Aim!None => t.past # {} \/ c = Aim!NULL
  BY <1>4, <1>5
<1>7. Right(t)
  BY <1>3, <1>4, <1>5, <1>6, EndFine
<1> QED BY <1>7 DEF t

(* What was dialled is not there; the listener has nobody to accept.       *)
LEMMA NotConnectedFine ==
    ASSUME NEW X, NEW s \in AimSt(X), Right(s), NEW c \in DOMAIN s.io, c \in DOMAIN s.conns,
           s.io[c].callback = "connected"
    PROVE  Right(Aim!NotConnected(s, c, s.io[c].fd))
<1> DEFINE x == c[1]
           e == s.io[c].fd
           r == Aim!pork_io_del(s, c)
           u == Aim!Close(r, e)
           t == Aim!Abort(u, x, FALSE)
<1>1. /\ x \in Aim!Listed(s) /\ s.xfer[x].conn \in DOMAIN s.conns /\ c \in {s.xfer[x].conn, Aim!Of(x)}
      /\ \A d \in DOMAIN s.conns : d[1] = x => d = s.xfer[x].conn
      /\ e \in Fds /\ s.open[e] = "ours" /\ Watches(s, s.xfer[x].conn, c)
      /\ s.xfer[x].info /\ s.xfer[x].known
  BY KeyIs DEF Right
<1>2. s.xfer[x].conn = c /\ s.conns[c].priv = x /\ x \in X
  BY <1>1, StFields, ConnsAre, XfersAre DEF Aim!Listed
<1>3. s.conns[c].fd = Aim!None /\ c # Aim!NULL
  <2>1. c # Aim!NULL
    BY StFields, ConnsAre, NamesAre
  <2> QED BY <1>1, <1>2, <2>1 DEF Watches
<1>4. r \in AimSt(X) /\ Fields(r) = <<s.xfer, s.conns, Minus(s.io, {c}), s.open, s.harm, s.past>>
  BY DelIs
<1> HIDE DEF r
<1>5. /\ r.xfer = s.xfer /\ r.conns = s.conns /\ r.io = Minus(s.io, {c}) /\ r.open = s.open
      /\ r.harm = s.harm /\ r.past = s.past
  BY <1>4 DEF Fields
<1> HIDE DEF e
<1>6. u \in AimSt(X) /\ Fields(u) = <<r.xfer, r.conns, r.io, Closed(r.open, e), Hit(r, e), r.past>>
  BY <1>1, <1>4, CloseIs
<1>7. Hit(r, e) = s.harm
  BY <1>1, <1>5 DEF Hit
<1> HIDE DEF u
<1>8. /\ u.xfer = s.xfer /\ u.conns = s.conns /\ u.io = Minus(s.io, {c})
      /\ u.open = Closed(s.open, e) /\ u.harm = s.harm /\ u.past = s.past
  BY <1>5, <1>6, <1>7 DEF Fields
<1>9. x \in Aim!Listed(u) /\ u.xfer[x].conn = c /\ u.xfer[x].conn \in DOMAIN u.conns \cup {Aim!NULL}
      /\ u.xfer[x].info /\ u.xfer[x].known
  BY <1>1, <1>2, <1>8 DEF Aim!Listed
<1> HIDE DEF x
<1>10. t \in AimSt(X) /\ Fields(t) = Ended(u, x, FALSE)
  BY <1>2, <1>6, <1>9, AbortOutSafe, AbortOutKind
<1>11. Fd(u, c) = Aim!None /\ Rest(u, c, FALSE) = Rest(s, c, FALSE)
  BY <1>3, <1>8 DEF Fd, Rest
<1>12. Aim!NotConnected(s, c, e) = t
  BY <1>2 DEF Aim!NotConnected, Aim!transfer_abort, u, r
<1> HIDE DEF t
<1>13. /\ t.xfer = Minus(s.xfer, {x}) /\ t.conns = Rest(s, c, FALSE)
       /\ t.io = Minus(Minus(s.io, {c}), {Aim!Of(x), c}) /\ t.open = Closed(Closed(s.open, e), Aim!None)
       /\ t.harm = Hit(u, Aim!None) /\ t.past = s.past
  BY <1>8, <1>9, <1>10, <1>11 DEF Fields, Ended
<1>14. t.io = Minus(s.io, {Aim!Of(x), c}) /\ t.open = Closed(s.open, e) /\ t.harm = s.harm
  <2>1. Minus(Minus(s.io, {c}), {Aim!Of(x), c}) = Minus(s.io, {Aim!Of(x), c})
    BY MinusMore
  <2>2. Closed(Closed(s.open, e), Aim!None) = Closed(s.open, e)
    BY ClosedTwice
  <2>3. Hit(u, Aim!None) = u.harm
    BY DEF Hit
  <2> QED BY <1>8, <1>13, <2>1, <2>2, <2>3
<1>15. Uses(s, x, e)
  BY DEF Uses, x, e
<1>16. e \in Fds \cup {Aim!None} /\ e # Aim!None
  BY <1>1, FdsA
<1>17. Right(t)
  BY <1>1, <1>2, <1>10, <1>13, <1>14, <1>15, <1>16, EndFine
<1> QED BY <1>12, <1>17 DEF e

LEMMA UnheardFine ==
    ASSUME NEW X, NEW s \in AimSt(X), Right(s), NEW c \in DOMAIN s.io, c \in DOMAIN s.conns,
           s.io[c].callback = "listening"
    PROVE  Right(Aim!transfer_abort(Aim!Close(s, s.io[c].fd), s.conns[c].priv))
<1> DEFINE x == c[1]
           e == s.io[c].fd
           u == Aim!Close(s, e)
           t == Aim!Abort(u, x, FALSE)
<1>1. /\ x \in Aim!Listed(s) /\ s.xfer[x].conn \in DOMAIN s.conns /\ c \in {s.xfer[x].conn, Aim!Of(x)}
      /\ \A d \in DOMAIN s.conns : d[1] = x => d = s.xfer[x].conn
      /\ e \in Fds /\ s.open[e] = "ours" /\ Watches(s, s.xfer[x].conn, c)
      /\ s.xfer[x].info /\ s.xfer[x].known
  BY KeyIs DEF Right
<1>2. s.xfer[x].conn = c /\ s.conns[c].priv = x /\ x \in X
  BY <1>1, StFields, ConnsAre, XfersAre DEF Aim!Listed
<1>3. s.conns[c].fd = e /\ c # Aim!NULL
  <2>1. c # Aim!NULL
    BY StFields, ConnsAre, NamesAre
  <2> QED BY <1>1, <1>2, <2>1 DEF Watches
<1> HIDE DEF e
<1>6. u \in AimSt(X) /\ Fields(u) = <<s.xfer, s.conns, s.io, Closed(s.open, e), Hit(s, e), s.past>>
  BY <1>1, CloseIs
<1>7. Hit(s, e) = s.harm
  BY <1>1 DEF Hit
<1> HIDE DEF u
<1>8. /\ u.xfer = s.xfer /\ u.conns = s.conns /\ u.io = s.io
      /\ u.open = Closed(s.open, e) /\ u.harm = s.harm /\ u.past = s.past
  BY <1>6, <1>7 DEF Fields
<1>9. x \in Aim!Listed(u) /\ u.xfer[x].conn = c /\ u.xfer[x].conn \in DOMAIN u.conns \cup {Aim!NULL}
      /\ u.xfer[x].info /\ u.xfer[x].known
  BY <1>1, <1>2, <1>8 DEF Aim!Listed
<1> HIDE DEF x
<1>10. t \in AimSt(X) /\ Fields(t) = Ended(u, x, FALSE)
  BY <1>2, <1>6, <1>9, AbortOutSafe, AbortOutKind
<1>11. Fd(u, c) = e /\ Rest(u, c, FALSE) = Rest(s, c, FALSE)
  BY <1>3, <1>8 DEF Fd, Rest
<1>12. Aim!transfer_abort(Aim!Close(s, e), s.conns[c].priv) = t
  BY <1>2 DEF Aim!transfer_abort, u
<1>16. e \in Fds \cup {Aim!None} /\ e # Aim!None
  BY <1>1, FdsA
<1>18. u.open[e] = "closed"
  <2>1. s.open \in Users
    BY StFields
  <2> QED BY <1>1, <1>8, <1>16, <2>1 DEF Closed, Users
<1> HIDE DEF t
<1>13. /\ t.xfer = Minus(s.xfer, {x}) /\ t.conns = Rest(s, c, FALSE)
       /\ t.io = Minus(s.io, {Aim!Of(x), c}) /\ t.open = Closed(Closed(s.open, e), e)
       /\ t.harm = Hit(u, e) /\ t.past = s.past
  BY <1>8, <1>9, <1>10, <1>11 DEF Fields, Ended
<1>14. t.open = Closed(s.open, e) /\ t.harm = s.harm
  BY <1>8, <1>13, <1>18, ClosedTwice DEF Hit
<1>15. Uses(s, x, e)
  BY DEF Uses, x, e
<1>17. Right(t)
  BY <1>1, <1>2, <1>10, <1>13, <1>14, <1>15, <1>16, EndFine
<1> QED BY <1>12, <1>17 DEF e

(* A transfer whose descriptor is watched is lost.                         *)
LEMMA LostFine ==
    ASSUME NEW X, NEW s \in AimSt(X), Right(s), NEW k \in DOMAIN s.io, s.io[k].callback # "connected"
    PROVE  Right(Aim!transfer_abort(s, k[1]))
<1> DEFINE x == k[1]
           c == s.xfer[x].conn
<1>1. /\ x \in Aim!Listed(s) /\ s.io[k].fd \in Fds /\ Watches(s, c, k)
  BY KeyIs DEF Right
<1>2. s.conns[c].fd # Aim!None
  <2> HIDE DEF c
  <2> QED BY <1>1, FdsA DEF Watches
<1>3. Right(Aim!Abort(s, x, FALSE))
  BY <1>1, <1>2, AbortFine
<1> QED BY <1>3 DEF Aim!transfer_abort

(* A connection that is closed and freed: that of a transfer that hears of *)
(* it, and any other.                                                      *)
LEMMA HitIs ==
    ASSUME NEW s, NEW e, e = Aim!None \/ s.open[e] # "other"
    PROVE  Hit(s, e) = s.harm
BY DEF Hit

LEMMA KilledIs ==
    ASSUME NEW X, NEW s \in AimSt(X), NEW c \in DOMAIN s.conns, c[1] \in Aim!Listed(s), s.xfer[c[1]].conn = c,
           s.xfer[c[1]].info, s.xfer[c[1]].known, "dead" \in s.conns[c].handlers,
           s.conns[c].fd = Aim!None \/ s.open[s.conns[c].fd] # "other"
    PROVE  /\ Aim!Killed(s, c) \in AimSt(X)
           /\ Fields(Aim!Killed(s, c)) =
                <<Minus(s.xfer, {c[1]}), Minus(s.conns, {c}), Minus(s.io, {Aim!Of(c[1]), c}),
                  Closed(s.open, s.conns[c].fd), s.harm, s.past>>
<1> DEFINE x == c[1]
           e == s.conns[c].fd
           a == Aim!Shut(s, c)
           b == Aim!pork_io_del(a, Aim!Of(x))
           g == Aim!pork_io_del(b, c)
           h == Aim!Abort(g, x, TRUE)
           i == Aim!aim_clearhandlers(h, c)
           t == Aim!aim_conn_kill(i, c)
<1>1. c \in Names(X) /\ c \in Names(X) \cup {Aim!NULL} /\ s.conns[c] \in AimConn(X) /\ s.conns[c].priv = x
      /\ x \in X /\ e \in Fds \cup {Aim!None} /\ c # Aim!NULL
  BY StFields, ConnsAre, NamesAre
<1> HIDE DEF e
<1>2. a \in AimSt(X)
      /\ Fields(a) = <<s.xfer, [s.conns EXCEPT ![c] = Unopened(s.conns[c])], s.io, Closed(s.open, e),
                       Hit(s, e), s.past>>
  BY <1>1, ShutIs, ShutDoes DEF e
<1>3. Hit(s, e) = s.harm
  BY HitIs DEF e
<1> HIDE DEF a
<1>4. /\ a.xfer = s.xfer /\ a.conns = [s.conns EXCEPT ![c] = Unopened(s.conns[c])] /\ a.io = s.io
      /\ a.open = Closed(s.open, e) /\ a.harm = s.harm /\ a.past = s.past
  BY <1>2, <1>3 DEF Fields
<1>5. a.conns[c] = Unopened(s.conns[c]) /\ a.conns[c].priv = x /\ "dead" \in a.conns[c].handlers
      /\ a.conns[c].fd = Aim!None /\ c \in DOMAIN a.conns
  BY <1>1, <1>4 DEF Unopened, AimConn
<1>6. b \in AimSt(X) /\ Fields(b) = <<a.xfer, a.conns, Minus(a.io, {Aim!Of(x)}), a.open, a.harm, a.past>>
  BY <1>2, DelIs
<1> HIDE DEF b
<1>7. /\ b.xfer = a.xfer /\ b.conns = a.conns /\ b.io = Minus(a.io, {Aim!Of(x)})
      /\ b.open = a.open /\ b.harm = a.harm /\ b.past = a.past
  BY <1>6 DEF Fields
<1>8. g \in AimSt(X) /\ Fields(g) = <<b.xfer, b.conns, Minus(b.io, {c}), b.open, b.harm, b.past>>
  BY <1>6, DelIs
<1> HIDE DEF g
<1>9. /\ g.xfer = a.xfer /\ g.conns = a.conns /\ g.io = Minus(Minus(s.io, {Aim!Of(x)}), {c})
      /\ g.open = a.open /\ g.harm = a.harm /\ g.past = a.past
  BY <1>4, <1>7, <1>8 DEF Fields
<1>10. g.io = Minus(s.io, {c, Aim!Of(x)})
  <2>1. Minus(Minus(s.io, {Aim!Of(x)}), {c}) = Minus(s.io, {Aim!Of(x), c})
    BY DEF Minus
  <2>2. {Aim!Of(x), c} = {c, Aim!Of(x)}
    OBVIOUS
  <2> QED BY <1>9, <2>1, <2>2
<1>11. /\ x \in Aim!Listed(g) /\ g.xfer[x].conn = c /\ g.xfer[x].conn \in DOMAIN g.conns
       /\ g.xfer[x].info /\ g.xfer[x].known
  BY <1>4, <1>5, <1>9 DEF Aim!Listed
<1> HIDE DEF x
<1>12. h \in AimSt(X) /\ Fields(h) = Ended(g, x, TRUE)
  BY <1>1, <1>8, <1>11, AbortInSafe, AbortInKind
<1>13. Fd(g, c) = Aim!None
  BY <1>5, <1>9, <1>11 DEF Fd
<1>14. Rest(g, c, TRUE) = [g.conns EXCEPT ![c] = Unopened(Cleared(g.conns[c]))]
  BY <1>1 DEF Rest
<1> HIDE DEF h
<1>15. /\ h.xfer = Minus(s.xfer, {x}) /\ h.conns = [g.conns EXCEPT ![c] = Unopened(Cleared(g.conns[c]))]
       /\ h.io = Minus(g.io, {Aim!Of(x), c}) /\ h.open = Closed(a.open, Aim!None) /\ h.harm = Hit(g, Aim!None)
       /\ h.past = s.past
  <2> DEFINE w == Ended(g, x, TRUE)
             r == Rest(g, c, TRUE)
  <2>1. w = <<Minus(g.xfer, {x}), r, Minus(g.io, {Aim!Of(x), c}),
              Closed(g.open, Aim!None), Hit(g, Aim!None), g.past>>
    BY <1>11, <1>13 DEF Ended
  <2>2. Fields(h) = w /\ r = [g.conns EXCEPT ![c] = Unopened(Cleared(g.conns[c]))]
    BY <1>12, <1>14
  <2> HIDE DEF w, r
  <2>3. /\ h.xfer = Minus(g.xfer, {x}) /\ h.conns = r
        /\ h.io = Minus(g.io, {Aim!Of(x), c}) /\ h.open = Closed(g.open, Aim!None) /\ h.harm = Hit(g, Aim!None)
        /\ h.past = g.past
    BY <2>1, <2>2 DEF Fields
  <2> QED BY <1>4, <1>9, <2>2, <2>3
<1>16. h.open = Closed(s.open, e) /\ h.harm = s.harm /\ h.io = Minus(s.io, {Aim!Of(x), c})
  <2>1. Closed(a.open, Aim!None) = a.open /\ Hit(g, Aim!None) = g.harm
    BY ClosedTwice, HitIs
  <2>2. g.io = Minus(s.io, {Aim!Of(x), c})
    <3>1. {Aim!Of(x), c} = {c, Aim!Of(x)}
      OBVIOUS
    <3> QED BY <1>10, <3>1
  <2>3. Minus(Minus(s.io, {Aim!Of(x), c}), {Aim!Of(x), c}) = Minus(s.io, {Aim!Of(x), c})
    BY DEF Minus
  <2> QED BY <1>4, <1>9, <1>15, <2>1, <2>2, <2>3
<1>17. c \in DOMAIN h.conns /\ h.conns[c].fd = Aim!None
  <2>1. g.conns[c] \in AimConn(X) /\ c \in DOMAIN g.conns
    BY <1>8, <1>11, StFields, ConnsAre
  <2> QED BY <1>15, <2>1 DEF Unopened, Cleared, AimConn
<1>18. i \in AimSt(X)
       /\ Fields(i) = <<h.xfer, [h.conns EXCEPT ![c] = Cleared(h.conns[c])], h.io, h.open, h.harm, h.past>>
  BY <1>1, <1>12, <1>17, ClearIs, ClearDoes
<1> HIDE DEF i
<1>19. /\ i.xfer = h.xfer /\ i.conns = [h.conns EXCEPT ![c] = Cleared(h.conns[c])] /\ i.io = h.io
       /\ i.open = h.open /\ i.harm = h.harm /\ i.past = h.past
  BY <1>18 DEF Fields
<1>20. c \in DOMAIN i.conns /\ i.conns[c].fd = Aim!None
  <2>1. h.conns[c] \in AimConn(X)
    BY <1>12, <1>17, StFields, ConnsAre
  <2> QED BY <1>17, <1>19, <2>1 DEF Cleared, AimConn
<1>21. t \in AimSt(X)
       /\ Fields(t) = <<i.xfer, Minus(i.conns, {c}), i.io, Closed(i.open, Aim!None), Hit(i, Aim!None), i.past>>
  BY <1>1, <1>18, <1>20, KillIs, KillDoes
<1>22. Aim!Killed(s, c) = t
  <2>1. Aim!aim_file_transfer_dead(a, c) = h
    BY <1>4, <1>5, <1>9, <1>11 DEF Aim!aim_file_transfer_dead, h, g, b, Aim!Listed
  <2>2. Aim!aim_conn_close(s, c) = i
    BY <1>5, <2>1 DEF Aim!aim_conn_close, i, a
  <2> QED BY <2>2 DEF Aim!Killed
<1>23. Minus(i.conns, {c}) = Minus(s.conns, {c})
  BY <1>4, <1>9, <1>15, <1>19, MinusPut
<1>24. Closed(i.open, Aim!None) = i.open /\ Hit(i, Aim!None) = i.harm
  BY ClosedTwice, HitIs
<1> HIDE DEF t
<1>25. Fields(t) = <<Minus(s.xfer, {x}), Minus(s.conns, {c}), Minus(s.io, {Aim!Of(x), c}),
                     Closed(s.open, e), s.harm, s.past>>
  BY <1>15, <1>16, <1>19, <1>21, <1>23, <1>24
<1> QED BY <1>21, <1>22, <1>25 DEF x, e

LEMMA KilledPlain ==
    ASSUME NEW X, NEW s \in AimSt(X), NEW c \in DOMAIN s.conns, "dead" \notin s.conns[c].handlers,
           s.conns[c].fd = Aim!None \/ s.open[s.conns[c].fd] # "other"
    PROVE  /\ Aim!Killed(s, c) \in AimSt(X)
           /\ Fields(Aim!Killed(s, c)) =
                <<s.xfer, Minus(s.conns, {c}), s.io, Closed(s.open, s.conns[c].fd), s.harm, s.past>>
<1> DEFINE e == s.conns[c].fd
           a == Aim!Shut(s, c)
           i == Aim!aim_clearhandlers(a, c)
           t == Aim!aim_conn_kill(i, c)
<1>1. c \in Names(X) /\ c \in Names(X) \cup {Aim!NULL} /\ s.conns[c] \in AimConn(X) /\ c # Aim!NULL
      /\ e \in Fds \cup {Aim!None}
  BY StFields, ConnsAre, NamesAre
<1> HIDE DEF e
<1>2. a \in AimSt(X)
      /\ Fields(a) = <<s.xfer, [s.conns EXCEPT ![c] = Unopened(s.conns[c])], s.io, Closed(s.open, e),
                       Hit(s, e), s.past>>
  BY <1>1, ShutIs, ShutDoes DEF e
<1>3. Hit(s, e) = s.harm
  BY HitIs DEF e
<1> HIDE DEF a
<1>4. /\ a.xfer = s.xfer /\ a.conns = [s.conns EXCEPT ![c] = Unopened(s.conns[c])] /\ a.io = s.io
      /\ a.open = Closed(s.open, e) /\ a.harm = s.harm /\ a.past = s.past
  BY <1>2, <1>3 DEF Fields
<1>5. "dead" \notin a.conns[c].handlers /\ a.conns[c].fd = Aim!None /\ c \in DOMAIN a.conns
  BY <1>1, <1>4 DEF Unopened, AimConn
<1>18. i \in AimSt(X)
       /\ Fields(i) = <<a.xfer, [a.conns EXCEPT ![c] = Cleared(a.conns[c])], a.io, a.open, a.harm, a.past>>
  BY <1>1, <1>2, <1>5, ClearIs, ClearDoes
<1> HIDE DEF i
<1>19. /\ i.xfer = a.xfer /\ i.conns = [a.conns EXCEPT ![c] = Cleared(a.conns[c])] /\ i.io = a.io
       /\ i.open = a.open /\ i.harm = a.harm /\ i.past = a.past
  BY <1>18 DEF Fields
<1>20. c \in DOMAIN i.conns /\ i.conns[c].fd = Aim!None
  <2>1. a.conns[c] \in AimConn(X)
    BY <1>2, <1>5, StFields, ConnsAre
  <2> QED BY <1>5, <1>19, <2>1 DEF Cleared, AimConn
<1>21. t \in AimSt(X)
       /\ Fields(t) = <<i.xfer, Minus(i.conns, {c}), i.io, Closed(i.open, Aim!None), Hit(i, Aim!None), i.past>>
  BY <1>1, <1>18, <1>20, KillIs, KillDoes
<1>22. Aim!Killed(s, c) = t
  <2>2. Aim!aim_conn_close(s, c) = i
    BY <1>5 DEF Aim!aim_conn_close, i, a
  <2> QED BY <2>2 DEF Aim!Killed
<1>23. Minus(i.conns, {c}) = Minus(s.conns, {c})
  BY <1>4, <1>19, MinusPut
<1>24. Closed(i.open, Aim!None) = i.open /\ Hit(i, Aim!None) = i.harm
  BY ClosedTwice, HitIs
<1> HIDE DEF t
<1>25. Fields(t) = <<s.xfer, Minus(s.conns, {c}), s.io, Closed(s.open, e), s.harm, s.past>>
  BY <1>4, <1>19, <1>21, <1>23, <1>24
<1> QED BY <1>21, <1>22, <1>25 DEF e

(* The peer hangs up while the two shake hands.                            *)
LEMMA EventIs ==
    ASSUME NEW X, NEW s \in AimSt(X), Right(s), NEW c \in DOMAIN s.io, c \in DOMAIN s.conns,
           s.io[c].callback = "event"
    PROVE  LET x == c[1]
               e == s.io[c].fd
           IN  /\ x \in Aim!Listed(s) /\ x \in X /\ s.xfer[x].conn = c /\ s.conns[c].priv = x /\ c \in Names(X)
               /\ c # Aim!NULL /\ e \in Fds /\ s.open[e] = "ours" /\ s.conns[c].fd = e
               /\ s.xfer[x].sock = e /\ "dead" \in s.conns[c].handlers
               /\ s.xfer[x].info /\ s.xfer[x].known /\ s.xfer[x].fp
               /\ \A j \in DOMAIN s.io : j[1] = x => j = c
               /\ \A d \in DOMAIN s.conns : d[1] = x => d = c
<1> DEFINE x == c[1]
           e == s.io[c].fd
<1>1. /\ x \in Aim!Listed(s) /\ s.xfer[x].conn \in DOMAIN s.conns /\ c \in {s.xfer[x].conn, Aim!Of(x)}
      /\ \A j \in DOMAIN s.io : j[1] = x => j = c
      /\ \A d \in DOMAIN s.conns : d[1] = x => d = s.xfer[x].conn
      /\ e \in Fds /\ s.open[e] = "ours" /\ Watches(s, s.xfer[x].conn, c)
      /\ (c = s.xfer[x].conn /\ s.io[c].callback # "listening" => "dead" \in s.conns[s.xfer[x].conn].handlers)
      /\ s.xfer[x].info /\ s.xfer[x].known /\ s.xfer[x].fp
  BY KeyIs DEF Right
<1>2. s.xfer[x].conn = c /\ s.conns[c].priv = x /\ x \in X
  BY <1>1, StFields, ConnsAre, XfersAre DEF Aim!Listed
<1>3. s.conns[c].fd = e /\ s.xfer[x].sock = e
  <2> HIDE DEF x, e
  <2>1. s.conns[c].fd = s.io[c].fd
    BY <1>1, <1>2 DEF Watches
  <2>2. s.xfer[c[1]].sock = s.io[c].fd
    BY <1>1, <1>2 DEF Watches
  <2> QED BY <2>1, <2>2 DEF x, e
<1>4. c \in Names(X) /\ c # Aim!NULL
  BY StFields, ConnsAre, NamesAre
<1> QED BY <1>1, <1>2, <1>3, <1>4

LEMMA KillFine ==
    ASSUME NEW X, NEW s \in AimSt(X), Right(s), NEW c \in DOMAIN s.io, c \in DOMAIN s.conns,
           s.io[c].callback = "event"
    PROVE  Right(Aim!Killed(s, c))
<1> DEFINE x == c[1]
           e == s.io[c].fd
           t == Aim!Killed(s, c)
<1>1. /\ x \in Aim!Listed(s) /\ x \in X /\ s.xfer[x].conn = c /\ s.conns[c].priv = x
      /\ c # Aim!NULL /\ e \in Fds /\ s.open[e] = "ours" /\ s.conns[c].fd = e
      /\ "dead" \in s.conns[c].handlers /\ s.xfer[x].info /\ s.xfer[x].known
  BY EventIs
<1>2. t \in AimSt(X)
      /\ Fields(t) = <<Minus(s.xfer, {x}), Minus(s.conns, {c}), Minus(s.io, {Aim!Of(x), c}),
                       Closed(s.open, e), s.harm, s.past>>
  BY <1>1, KilledIs
<1>3. Uses(s, x, e)
  BY DEF Uses
<1> HIDE DEF x, e, t
<1>4. /\ t.xfer = Minus(s.xfer, {x}) /\ t.conns = Minus(s.conns, {c})
      /\ t.io = Minus(s.io, {Aim!Of(x), c}) /\ t.open = Closed(s.open, e) /\ t.harm = s.harm
      /\ t.past = s.past
  BY <1>2 DEF Fields
<1>5. t.conns = Rest(s, c, FALSE)
  BY <1>1, <1>4 DEF Rest
<1>6. e \in Fds \cup {Aim!None} /\ e # Aim!None
  BY <1>1, FdsA
<1>7. Right(t)
  BY <1>1, <1>2, <1>3, <1>4, <1>5, <1>6, EndFine
<1> QED BY <1>7 DEF t

(* The transfer is done, as the peer says or as has been counted.          *)
LEMMA CompleteFine ==
    ASSUME NEW X, NEW s \in AimSt(X), Right(s), NEW x \in Aim!Listed(s), NEW k \in DOMAIN s.io, k[1] = x,
           s.io[k].callback # "connected",
           NEW u \in AimSt(X), x \in Aim!Listed(u), Minus(u.xfer, {x}) = Minus(s.xfer, {x}),
           u.xfer[x].conn = s.xfer[x].conn, u.xfer[x].known, u.conns = s.conns, u.open = s.open,
           u.harm = s.harm, u.past = s.past,
           Minus(u.io, {Aim!Of(x)}) = Minus(s.io, {Aim!Of(x), s.xfer[x].conn})
    PROVE  Right(Aim!Complete(u, x))
<1> DEFINE c == s.xfer[x].conn
           e == s.conns[c].fd
           t == Aim!Complete(u, x)
<1>1. /\ c \in DOMAIN s.conns /\ s.io[k].fd \in Fds /\ s.open[s.io[k].fd] = "ours" /\ Watches(s, c, k)
  BY KeyIs DEF Right
<1>2. e = s.io[k].fd
  <2> HIDE DEF c
  <2> QED BY <1>1 DEF Watches
<1>3. u.xfer[x].conn \in DOMAIN u.conns \cup {Aim!NULL}
  BY <1>1
<1>4. t \in AimSt(X)
      /\ Fields(t) = <<Minus(u.xfer, {x}), Rest(u, u.xfer[x].conn, FALSE), Minus(u.io, {Aim!Of(x)}),
                  Closed(u.open, Fd(u, u.xfer[x].conn)), Hit(u, Fd(u, u.xfer[x].conn)), u.past>>
  BY <1>3, CompleteKind, CompleteEnds
<1>5. Fd(u, u.xfer[x].conn) = e /\ Rest(u, u.xfer[x].conn, FALSE) = Rest(s, c, FALSE)
  BY <1>1 DEF Fd, Rest
<1>6. Hit(u, e) = s.harm
  <2>1. u.open[e] # "other"
    BY <1>1, <1>2
  <2> QED BY <2>1, HitIs
<1>7. Uses(s, x, e)
  BY <1>2 DEF Uses
<1>8. e \in Fds \cup {Aim!None} /\ e # Aim!None
  BY <1>1, <1>2, FdsA
<1> HIDE DEF t, e
<1>9. /\ t.xfer = Minus(s.xfer, {x}) /\ t.conns = Rest(s, c, FALSE)
      /\ t.io = Minus(s.io, {Aim!Of(x), c}) /\ t.open = Closed(s.open, e) /\ t.harm = s.harm
      /\ t.past = s.past
  BY <1>4, <1>5, <1>6 DEF Fields
<1>10. Right(t)
  BY <1>4, <1>7, <1>8, <1>9, EndFine
<1> QED BY <1>10 DEF t

(* What a step makes of the one connection c of x, watched under k by f.   *)
Rewired(s, t, x, c, k, f) ==
    /\ Aim!Listed(t) = Aim!Listed(s) \cup {x} /\ \A y \in Aim!Listed(s) : y # x => t.xfer[y] = s.xfer[y]
    /\ t.xfer[x].conn = c /\ t.xfer[x].info /\ t.xfer[x].known /\ t.xfer[x].fp
    /\ c \in DOMAIN t.conns /\ \A d \in DOMAIN t.conns : d[1] = x => d = c
    /\ \A d : d[1] # x => /\ d \in DOMAIN t.conns <=> d \in DOMAIN s.conns
                          /\ d \in DOMAIN s.conns => t.conns[d] = s.conns[d]
    /\ k \in DOMAIN t.io /\ t.io[k].fd = f /\ \A j \in DOMAIN t.io : j[1] = x => j = k
    /\ \A j : j[1] # x => /\ j \in DOMAIN t.io <=> j \in DOMAIN s.io
                          /\ j \in DOMAIN s.io => t.io[j] = s.io[j]
    /\ Watches(t, c, k)
    /\ k = c => t.io[c].callback = "listening" \/ "dead" \in t.conns[c].handlers
    /\ t.past = s.past

Reused(s, t, x, f) ==
    /\ t.open[f] = "ours" /\ (s.open[f] = "ours" => Uses(s, x, f))
    /\ \A g \in Fds : g # f => IF Uses(s, x, g) THEN t.open[g] # "ours" ELSE t.open[g] = s.open[g]

LEMMA RewiredSane ==
    ASSUME NEW X, NEW s \in AimSt(X), NEW t \in AimSt(X), Sane(s), NEW x, NEW c \in Names(X), c[1] = x,
           NEW k \in {c, Aim!Of(x)}, NEW f \in Fds, Rewired(s, t, x, c, k, f), Reused(s, t, x, f)
    PROVE  Sane(t)
<1>1. Beside(s, t, x)
  <2>1. \A y : y # x => /\ y \in Aim!Listed(t) <=> y \in Aim!Listed(s)
                        /\ y \in Aim!Listed(s) => t.xfer[y] = s.xfer[y]
    BY DEF Rewired
  <2>2. \A d : d[1] # x => /\ d \in DOMAIN t.conns <=> d \in DOMAIN s.conns
                           /\ d \in DOMAIN s.conns => t.conns[d] = s.conns[d]
    BY DEF Rewired
  <2>3. \A j : j[1] # x => /\ j \in DOMAIN t.io <=> j \in DOMAIN s.io
                           /\ j \in DOMAIN s.io => t.io[j] = s.io[j]
    BY DEF Rewired
  <2>4. s.past \subseteq t.past
    BY DEF Rewired
  <2> QED BY <2>1, <2>2, <2>3, <2>4 DEF Beside
<1>2. k[1] = x /\ c # Aim!Of(x) /\ c # Aim!NULL
  BY OfIs, NamesAre
<1>3. k \in DOMAIN t.io /\ t.io[k].fd = f /\ \A j \in DOMAIN t.io : j[1] = x => j = k
  BY DEF Rewired
<1>4. \A g : Uses(t, x, g) <=> g = f
  BY <1>2, <1>3 DEF Uses
<1>5. Leaves(s, t, x)
  BY <1>4 DEF Leaves, Reused
<1>6. x \in Aim!Listed(t) /\ t.xfer[x].conn = c /\ c \in DOMAIN t.conns
      /\ t.xfer[x].info /\ t.xfer[x].known /\ t.xfer[x].fp
      /\ \A d \in DOMAIN t.conns : d[1] = x => d = c
  BY DEF Rewired
<1>7. Live(t, c)
  BY <1>6 DEF Live
<1>8. Heard(t, c)
  <2>1. Watches(t, c, k) /\ (k = c => t.io[c].callback = "listening" \/ "dead" \in t.conns[c].handlers)
    BY DEF Rewired
  <2>2. {c, Aim!Of(x)} \cap DOMAIN t.io = {k}
    BY <1>2, <1>3, OfIs
  <2> QED BY <1>2, <2>1, <2>2 DEF Heard
<1>9. t.open[f] = "ours"
  BY DEF Reused
<1>10. Settled(t, x)
  <2>1. \A d \in DOMAIN t.conns : d[1] = x => (Live(t, d) \/ Dead(t, d)) /\ (Live(t, d) => Heard(t, d))
    BY <1>6, <1>7, <1>8
  <2>2. ASSUME NEW j \in DOMAIN t.io, j[1] = x
        PROVE  /\ t.io[j].fd \in Fds /\ t.open[t.io[j].fd] = "ours"
               /\ \E d \in DOMAIN t.conns : Live(t, d) /\ j \in {d, Aim!Of(d[1])}
    BY <1>3, <1>6, <1>7, <1>9, <2>2
  <2>3. \A i, j \in DOMAIN t.io : i[1] = x /\ j[1] = x /\ t.io[i].fd = t.io[j].fd => i = j
    BY <1>3
  <2> QED BY <1>6, <2>1, <2>2, <2>3 DEF Settled
<1> QED BY <1>1, <1>5, <1>10, BesideSane

(* The source of x that there was, and the same descriptor afterwards.     *)
LEMMA UsesOne ==
    ASSUME NEW s, NEW x, NEW k \in DOMAIN s.io, k[1] = x, \A j \in DOMAIN s.io : j[1] = x => j = k
    PROVE  \A f : Uses(s, x, f) <=> f = s.io[k].fd
BY DEF Uses

LEMMA ReusedSame ==
    ASSUME NEW s, NEW t, NEW x, NEW k \in DOMAIN s.io, k[1] = x, \A j \in DOMAIN s.io : j[1] = x => j = k,
           s.open[s.io[k].fd] = "ours", t.open = s.open
    PROVE  Reused(s, t, x, s.io[k].fd)
<1> DEFINE e == s.io[k].fd
<1>1. \A f : Uses(s, x, f) <=> f = e
  BY DEF Uses
<1>2. t.open[e] = "ours"
  OBVIOUS
<1> HIDE DEF e
<1>3. Reused(s, t, x, e)
  BY <1>1, <1>2 DEF Reused
<1> QED BY <1>3 DEF e

(* aim_file_send_ready, aim_file_recv_accept: from now on the transfer is  *)
(* watched.                                                                *)
LEMMA WatchOf ==
    ASSUME NEW X, NEW s \in AimSt(X), Right(s), NEW c \in DOMAIN s.io, c \in DOMAIN s.conns,
           s.io[c].callback = "event", NEW cb \in {"send_data", "recv_data"},
           NEW t \in AimSt(X), t.xfer = s.xfer, DOMAIN t.conns = DOMAIN s.conns,
           \A d \in DOMAIN s.conns : d # c => t.conns[d] = s.conns[d],
           t.conns[c].fd = s.conns[c].fd,
           t.io = Plus(Minus(s.io, {c}), Aim!Of(c[1]), [callback |-> cb, fd |-> s.io[c].fd]),
           t.open = s.open, t.harm = s.harm, t.past = s.past
    PROVE  Right(t)
<1> DEFINE x == c[1]
           e == s.io[c].fd
           k == Aim!Of(x)
<1>1. /\ x \in Aim!Listed(s) /\ x \in X /\ s.xfer[x].conn = c /\ c \in Names(X)
      /\ c # Aim!NULL /\ e \in Fds /\ s.open[e] = "ours" /\ s.conns[c].fd = e
      /\ s.xfer[x].sock = e
      /\ s.xfer[x].info /\ s.xfer[x].known /\ s.xfer[x].fp
      /\ \A j \in DOMAIN s.io : j[1] = x => j = c
      /\ \A d \in DOMAIN s.conns : d[1] = x => d = c
  BY EventIs
<1>2. k[1] = x /\ k # c
  BY <1>1, OfIs, NamesAre
<1>3. t.io = Plus(Minus(s.io, {c}), k, [callback |-> cb, fd |-> e])
  OBVIOUS
<1>4. c[1] = x
  OBVIOUS
<1>5. Reused(s, t, x, e)
  BY <1>1, ReusedSame
<1> HIDE DEF x, e, k
<1>6. /\ \A j : j \in DOMAIN t.io <=> (j \in DOMAIN s.io /\ j # c) \/ j = k
      /\ t.io[k].callback = cb /\ t.io[k].fd = e
      /\ \A j \in DOMAIN s.io : j # c /\ j # k => t.io[j] = s.io[j]
  <2> DEFINE v == [callback |-> cb, fd |-> e]
             m == Minus(s.io, {c})
  <2>1. DOMAIN m = DOMAIN s.io \ {c} /\ \A j \in DOMAIN s.io : j # c => m[j] = s.io[j]
    BY DEF Minus
  <2>2. t.io = Plus(m, k, v) /\ v.callback = cb /\ v.fd = e
    BY <1>3
  <2> HIDE DEF v, m
  <2>3. DOMAIN t.io = DOMAIN m \cup {k} /\ t.io[k] = v /\ \A j \in DOMAIN m : j # k => t.io[j] = m[j]
    BY <2>2 DEF Plus
  <2> QED BY <2>1, <2>2, <2>3
<1>7. Rewired(s, t, x, c, k, e)
  <2>1. Aim!Listed(t) = Aim!Listed(s) \cup {x} /\ \A y \in Aim!Listed(s) : y # x => t.xfer[y] = s.xfer[y]
    BY <1>1 DEF Aim!Listed
  <2>2. t.xfer[x].conn = c /\ t.xfer[x].info /\ t.xfer[x].known /\ t.xfer[x].fp
    BY <1>1
  <2>3. c \in DOMAIN t.conns /\ \A d \in DOMAIN t.conns : d[1] = x => d = c
    BY <1>1
  <2>4. \A d : d[1] # x => /\ d \in DOMAIN t.conns <=> d \in DOMAIN s.conns
                           /\ d \in DOMAIN s.conns => t.conns[d] = s.conns[d]
    BY <1>4
  <2>5. k \in DOMAIN t.io /\ t.io[k].fd = e /\ \A j \in DOMAIN t.io : j[1] = x => j = k
    BY <1>1, <1>6
  <2>6. \A j : j[1] # x => /\ j \in DOMAIN t.io <=> j \in DOMAIN s.io
                           /\ j \in DOMAIN s.io => t.io[j] = s.io[j]
    BY <1>2, <1>4, <1>6
  <2>7. Watches(t, c, k)
    <3>1. k \in DOMAIN t.io /\ t.conns[c].fd = e /\ t.xfer[c[1]].sock = e
      BY <1>1, <1>4, <1>6
    <3>2. t.io[k].callback # "connected"
      BY <1>6
    <3> QED BY <1>6, <3>1, <3>2 DEF Watches
  <2> QED BY <1>2, <2>1, <2>2, <2>3, <2>4, <2>5, <2>6, <2>7 DEF Rewired
<1>8. Sane(t)
  BY <1>1, <1>4, <1>5, <1>7, RewiredSane DEF Right, k
<1> QED BY <1>8 DEF Right, Unharmed

LEMMA ReadyFine ==
    ASSUME NEW X, NEW s \in AimSt(X), Right(s), NEW c \in DOMAIN s.io, c \in DOMAIN s.conns,
           s.io[c].callback = "event"
    PROVE  Right(Aim!aim_file_send_ready(s, c))
<1> DEFINE x == c[1]
           e == s.io[c].fd
           u == Aim!pork_io_del(s, c)
           t == Aim!pork_io_add(u, Aim!Of(x), "send_data", e)
<1>1. /\ x \in Aim!Listed(s) /\ x \in X /\ s.conns[c].priv = x /\ e \in Fds /\ s.xfer[x].sock = e
  BY EventIs
<1>2. Aim!Of(x) \in Nodes(X)
  BY <1>1, NamesAre
<1>3. Aim!aim_file_send_ready(s, c) = t
  BY <1>1 DEF Aim!aim_file_send_ready
<1>4. u \in AimSt(X) /\ Fields(u) = <<s.xfer, s.conns, Minus(s.io, {c}), s.open, s.harm, s.past>>
  BY DelIs
<1> HIDE DEF u, x, e
<1>5. t \in AimSt(X)
      /\ Fields(t) = <<u.xfer, u.conns, Plus(u.io, Aim!Of(x), [callback |-> "send_data", fd |-> e]),
                       u.open, u.harm, u.past>>
  <2>1. e \in Fds \cup {Aim!None}
    BY <1>1
  <2> QED BY <1>2, <1>4, <2>1, AddIs
<1> HIDE DEF t
<1>6. /\ t.xfer = s.xfer /\ t.conns = s.conns /\ t.open = s.open /\ t.harm = s.harm /\ t.past = s.past
      /\ t.io = Plus(Minus(s.io, {c}), Aim!Of(x), [callback |-> "send_data", fd |-> e])
  BY <1>4, <1>5 DEF Fields
<1>7. Right(t)
  BY <1>5, <1>6, WatchOf DEF x, e
<1> QED BY <1>3, <1>7

LEMMA PromptFine ==
    ASSUME NEW X, NEW s \in AimSt(X), Right(s), NEW c \in DOMAIN s.io, c \in DOMAIN s.conns,
           s.io[c].callback = "event", NEW r \in Aim!aim_file_recv_accept(s, c)
    PROVE  Right(r)
<1> DEFINE x == c[1]
           e == s.io[c].fd
           a == Aim!pork_io_del(s, c)
           u == Aim!aim_clearhandlers(a, c)
           t == Aim!pork_io_add(u, Aim!Of(x), "recv_data", e)
           w == Aim!Abort(u, x, TRUE)
           v == Aim!Past(w, "unnamed")
<1>1. /\ x \in Aim!Listed(s) /\ x \in X /\ s.conns[c].priv = x /\ e \in Fds /\ s.xfer[x].sock = e
      /\ s.xfer[x].conn = c /\ s.conns[c].fd = e /\ s.open[e] = "ours" /\ c \in Names(X) /\ c # Aim!NULL
      /\ s.xfer[x].info /\ s.xfer[x].known
  BY EventIs
<1>2. Aim!Of(x) \in Nodes(X)
  BY <1>1, NamesAre
<1>3. r \in {t, v}
  BY <1>1 DEF Aim!aim_file_recv_accept
<1>4. a \in AimSt(X) /\ Fields(a) = <<s.xfer, s.conns, Minus(s.io, {c}), s.open, s.harm, s.past>>
  BY DelIs
<1> HIDE DEF a
<1>5. /\ a.xfer = s.xfer /\ a.conns = s.conns /\ a.io = Minus(s.io, {c}) /\ a.open = s.open
      /\ a.harm = s.harm /\ a.past = s.past
  BY <1>4 DEF Fields
<1>6. u \in AimSt(X)
      /\ Fields(u) = <<a.xfer, [a.conns EXCEPT ![c] = Cleared(a.conns[c])], a.io, a.open, a.harm, a.past>>
  <2>1. c \in Names(X) \cup {Aim!NULL} /\ c \in DOMAIN a.conns
    BY <1>1, <1>5
  <2> QED BY <1>4, <2>1, ClearIs, ClearDoes
<1> HIDE DEF u
<1>7. /\ u.xfer = s.xfer /\ u.conns = [s.conns EXCEPT ![c] = Cleared(s.conns[c])] /\ u.open = s.open
      /\ u.io = Minus(s.io, {c}) /\ u.harm = s.harm /\ u.past = s.past
  BY <1>5, <1>6 DEF Fields
<1>8. /\ DOMAIN u.conns = DOMAIN s.conns /\ u.conns[c].fd = e
      /\ \A d \in DOMAIN s.conns : d # c => u.conns[d] = s.conns[d]
  <2>1. s.conns[c] \in AimConn(X)
    BY StFields, ConnsAre
  <2>2. Cleared(s.conns[c]).fd = e
    BY <1>1, <2>1, ConnIs
  <2> HIDE DEF e
  <2> QED BY <1>7, <2>2
<1>9. CASE r = t
  <2> HIDE DEF x, e
  <2>1. t \in AimSt(X)
        /\ Fields(t) = <<u.xfer, u.conns, Plus(u.io, Aim!Of(x), [callback |-> "recv_data", fd |-> e]),
                         u.open, u.harm, u.past>>
    <3>1. e \in Fds \cup {Aim!None}
      BY <1>1
    <3> QED BY <1>2, <1>6, <3>1, AddIs
  <2> HIDE DEF t
  <2>2. /\ t.xfer = s.xfer /\ t.conns = u.conns /\ t.open = s.open /\ t.harm = s.harm /\ t.past = s.past
        /\ t.io = Plus(Minus(s.io, {c}), Aim!Of(x), [callback |-> "recv_data", fd |-> e])
    BY <1>7, <2>1 DEF Fields
  <2>3. Right(t)
    <3>1. DOMAIN t.conns = DOMAIN s.conns /\ (\A d \in DOMAIN s.conns : d # c => t.conns[d] = s.conns[d])
          /\ t.conns[c].fd = s.conns[c].fd
      BY <1>1, <1>8, <2>2
    <3>2. t.io = Plus(Minus(s.io, {c}), Aim!Of(c[1]), [callback |-> "recv_data", fd |-> s.io[c].fd])
      BY <2>2 DEF x, e
    <3> HIDE DEF x, e
    <3> QED BY <2>1, <2>2, <3>1, <3>2, WatchOf
  <2> QED BY <1>9, <2>3
<1>10. CASE r = v
  <2>1. Uses(s, x, e) /\ e # Aim!None
    BY <1>1, FdsA DEF Uses
  <2> HIDE DEF x, e
  <2>2. x \in Aim!Listed(u) /\ u.xfer[x].info /\ u.xfer[x].known /\ u.xfer[x].conn = c
        /\ u.xfer[x].conn \in DOMAIN u.conns
    BY <1>1, <1>7, <1>8 DEF Aim!Listed
  <2> DEFINE z == Ended(u, x, TRUE)
             q == Rest(u, c, TRUE)
  <2>3. w \in AimSt(X) /\ Fields(w) = z
    BY <1>1, <1>6, <2>2, AbortInSafe, AbortInKind
  <2>4. Fd(u, c) = e
    BY <1>8, <2>2 DEF Fd
  <2>5. z = <<Minus(u.xfer, {x}), q, Minus(u.io, {Aim!Of(x), c}), Closed(u.open, e), Hit(u, e), u.past>>
    BY <2>2, <2>4 DEF Ended
  <2>6. q = [u.conns EXCEPT ![c] = Unopened(Cleared(u.conns[c]))]
    BY <1>1 DEF Rest
  <2> HIDE DEF z, q, w
  <2>7. Hit(u, e) = s.harm
    BY <1>1, <1>7, HitIs
  <2>8. /\ w.xfer = Minus(s.xfer, {x}) /\ w.conns = q /\ w.io = Minus(Minus(s.io, {c}), {Aim!Of(x), c})
        /\ w.open = Closed(s.open, e) /\ w.harm = s.harm /\ w.past = s.past
    BY <1>7, <2>3, <2>5, <2>7 DEF Fields
  <2>9. v \in AimSt(X) /\ Fields(v) = <<w.xfer, w.conns, w.io, w.open, w.harm, w.past \cup {"unnamed"}>>
    BY <2>3, PastIs
  <2>10. w.io = Minus(s.io, {Aim!Of(x), c})
    <3>1. Minus(Minus(s.io, {c}), {Aim!Of(x), c}) = Minus(s.io, {Aim!Of(x), c})
      BY DEF Minus
    <3> QED BY <2>8, <3>1
  <2> HIDE DEF v
  <2>11. /\ v.xfer = Minus(s.xfer, {x}) /\ v.conns = q /\ v.io = Minus(s.io, {Aim!Of(x), c})
         /\ v.open = Closed(s.open, e) /\ v.harm = s.harm /\ v.past = s.past \cup {"unnamed"}
    BY <2>8, <2>9, <2>10 DEF Fields
  <2>12. DOMAIN q = DOMAIN s.conns /\ q[c].handlers = {} /\ q[c].fd = Aim!None
         /\ \A d \in DOMAIN s.conns : d # c => q[d] = s.conns[d]
    <3>1. u.conns[c] \in AimConn(X) /\ c \in DOMAIN u.conns
      BY <1>6, <2>2, StFields, ConnsAre
    <3>2. q[c] = Unopened(Cleared(u.conns[c]))
      BY <2>6, <3>1
    <3>3. q[c].handlers = {} /\ q[c].fd = Aim!None
      BY <3>1, <3>2 DEF Unopened, Cleared, AimConn
    <3> QED BY <1>8, <2>6, <3>3
  <2>13. s.xfer[x].conn = c /\ x \in Aim!Listed(s) /\ e \in Fds \cup {Aim!None}
    BY <1>1
  <2>14. Sane(s)
    BY DEF Right
  <2>15. Sane(v)
    <3>1. v \in AimSt(X) /\ v.xfer = Minus(s.xfer, {x}) /\ v.io = Minus(s.io, {Aim!Of(x), s.xfer[x].conn})
          /\ v.open = Closed(s.open, e) /\ s.past \subseteq v.past /\ "unnamed" \in v.past
      BY <2>9, <2>11, <2>13
    <3>2. DOMAIN v.conns \subseteq DOMAIN s.conns
      BY <2>11, <2>12
    <3>3. \A d \in DOMAIN s.conns : d # s.xfer[x].conn => d \in DOMAIN v.conns /\ v.conns[d] = s.conns[d]
      BY <2>11, <2>12, <2>13
    <3>4. \A d \in DOMAIN v.conns : d = s.xfer[x].conn =>
             v.conns[d].handlers = {} /\ v.conns[d].fd = Aim!None /\ "unnamed" \in v.past
      BY <2>11, <2>12, <2>13
    <3>5. /\ v \in AimSt(X) /\ x \in Aim!Listed(s) /\ e \in Fds \cup {Aim!None}
      BY <2>13, <3>1
    <3>6. (e # Aim!None => Uses(s, x, e)) /\ (e = Aim!None => v.past # {} \/ s.xfer[x].conn = Aim!NULL)
      BY <2>1
    <3>7. /\ v.xfer = Minus(s.xfer, {x}) /\ v.io = Minus(s.io, {Aim!Of(x), s.xfer[x].conn})
          /\ v.open = Closed(s.open, e) /\ s.past \subseteq v.past
      BY <3>1
    <3> QED BY <2>14, <3>2, <3>3, <3>4, <3>5, <3>6, <3>7, EndSane, ZenonT(60)
  <2> QED BY <1>10, <2>11, <2>15 DEF Right, Unharmed
<1> QED BY <1>3, <1>9, <1>10

LEMMA DoneFine ==
    ASSUME NEW X, NEW s \in AimSt(X), Right(s), NEW c \in DOMAIN s.io, c \in DOMAIN s.conns,
           s.io[c].callback = "event"
    PROVE  Right(Aim!aim_file_send_done(s, c))
<1> DEFINE x == c[1]
           u == Aim!pork_io_del(s, c)
<1>1. /\ x \in Aim!Listed(s) /\ s.conns[c].priv = x /\ s.xfer[x].conn = c /\ s.xfer[x].known
  BY EventIs
<1>2. Aim!aim_file_send_done(s, c) = Aim!Complete(u, x)
  BY <1>1 DEF Aim!aim_file_send_done
<1>3. u \in AimSt(X) /\ Fields(u) = <<s.xfer, s.conns, Minus(s.io, {c}), s.open, s.harm, s.past>>
  BY DelIs
<1> HIDE DEF u
<1>4. /\ u.xfer = s.xfer /\ u.conns = s.conns /\ u.io = Minus(s.io, {c}) /\ u.open = s.open
      /\ u.harm = s.harm /\ u.past = s.past
  BY <1>3 DEF Fields
<1>5. Minus(Minus(s.io, {c}), {Aim!Of(x)}) = Minus(s.io, {Aim!Of(x), c})
  BY DEF Minus
<1>6. Minus(u.io, {Aim!Of(x)}) = Minus(s.io, {Aim!Of(x), s.xfer[x].conn})
  BY <1>1, <1>4, <1>5
<1>7. x \in Aim!Listed(u)
  BY <1>1, <1>4 DEF Aim!Listed
<1> QED BY <1>1, <1>2, <1>3, <1>4, <1>6, <1>7, CompleteFine

LEMMA ShakingFine ==
    ASSUME NEW X, NEW s \in AimSt(X), Right(s), NEW c \in DOMAIN s.io, c \in DOMAIN s.conns,
           s.io[c].callback = "event", NEW t \in Aim!aim_conn_event(s, c)
    PROVE  Right(t)
<1>1. s.conns[c].priv = c[1]
  BY StFields, ConnsAre
<1>2. CASE t = Aim!transfer_abort(s, s.conns[c].priv)
  BY <1>1, <1>2, LostFine
<1>3. CASE t = Aim!aim_conn_kill(Aim!aim_conn_close(s, c), c)
  BY <1>3, KillFine DEF Aim!Killed
<1>4. ASSUME NEW type \in {"ack", "done", "prompt"}, t \in Aim!Frame(s, c, type)
      PROVE  Right(t)
  <2>1. CASE type \notin s.conns[c].handlers
    BY <1>4, <2>1 DEF Aim!Frame
  <2>2. CASE type = "ack" /\ type \in s.conns[c].handlers
    <3>1. t = Aim!aim_file_send_ready(s, c)
      BY <1>4, <2>2 DEF Aim!Frame
    <3> QED BY <3>1, ReadyFine
  <2>3. CASE type = "done" /\ type \in s.conns[c].handlers
    <3>1. t = Aim!aim_file_send_done(s, c)
      BY <1>4, <2>3 DEF Aim!Frame
    <3> QED BY <3>1, DoneFine
  <2>4. CASE type = "prompt" /\ type \in s.conns[c].handlers
    <3>1. t \in Aim!aim_file_recv_accept(s, c)
      BY <1>4, <2>4 DEF Aim!Frame
    <3> QED BY <3>1, PromptFine
  <2> QED BY <1>4, <2>1, <2>2, <2>3, <2>4
<1>5. \/ t = Aim!transfer_abort(s, s.conns[c].priv)
      \/ t = Aim!aim_conn_kill(Aim!aim_conn_close(s, c), c)
      \/ \E type \in {"ack", "done", "prompt"} : t \in Aim!Frame(s, c, type)
  BY DEF Aim!aim_conn_event
<1> QED BY <1>2, <1>3, <1>4, <1>5

(* aim_connected, when the connection is there.                            *)
LEMMA ConnectedFine ==
    ASSUME NEW X, NEW s \in AimSt(X), Right(s), NEW c \in DOMAIN s.io, c \in DOMAIN s.conns,
           s.io[c].callback = "connected"
    PROVE  Right(Aim!Connected(Aim!pork_io_del(s, c), c, s.io[c].fd))
<1> DEFINE x == c[1]
           e == s.io[c].fd
           u == Aim!pork_io_del(s, c)
           t == Aim!Connected(u, c, e)
           v == [callback |-> "event", fd |-> e]
<1>1. c \in Names(X) /\ c # Aim!NULL
  BY StFields, ConnsAre, NamesAre
<1>2. /\ x \in Aim!Listed(s) /\ s.xfer[x].conn = c /\ e \in Fds /\ s.open[e] = "ours"
      /\ "dead" \in s.conns[c].handlers
      /\ s.xfer[x].info /\ s.xfer[x].known /\ s.xfer[x].fp
      /\ \A j \in DOMAIN s.io : j[1] = x => j = c
      /\ \A d \in DOMAIN s.conns : d[1] = x => d = c
  <2>1. c # Aim!Of(x)
    BY <1>1, NamesAre
  <2>2. Sane(s)
    BY DEF Right
  <2>3. /\ x \in Aim!Listed(s) /\ s.xfer[x].conn[1] = x /\ c \in {s.xfer[x].conn, Aim!Of(x)}
        /\ (\A j \in DOMAIN s.io : j[1] = x => j = c)
        /\ (\A d \in DOMAIN s.conns : d[1] = x => d = s.xfer[x].conn)
        /\ e \in Fds /\ s.open[e] = "ours"
        /\ (c = s.xfer[x].conn /\ s.io[c].callback # "listening" => "dead" \in s.conns[c].handlers)
        /\ s.xfer[x].info /\ s.xfer[x].known /\ s.xfer[x].fp
    BY <2>2, KeyIs
  <2> QED BY <2>1, <2>3
<1>3. u \in AimSt(X) /\ Fields(u) = <<s.xfer, s.conns, Minus(s.io, {c}), s.open, s.harm, s.past>>
  BY DelIs
<1>4. c[1] = x
  OBVIOUS
<1>5. Reused(s, t, x, e) <=> Reused(s, t, x, s.io[c].fd)
  OBVIOUS
<1> HIDE DEF u, x, e
<1>6. /\ u.xfer = s.xfer /\ u.conns = s.conns /\ u.io = Minus(s.io, {c}) /\ u.open = s.open
      /\ u.harm = s.harm /\ u.past = s.past
  BY <1>3 DEF Fields
<1>7. /\ t \in AimSt(X)
      /\ Fields(t) = <<[u.xfer EXCEPT ![x] = Sock(u.xfer[x], e)],
                       [u.conns EXCEPT ![c] = Opened(u.conns[c], e)],
                       Plus(u.io, c, v), u.open, u.harm, u.past>>
  <2>1. c \in DOMAIN u.conns /\ c[1] \in Aim!Listed(u) /\ e \in Fds \cup {Aim!None}
    BY <1>2, <1>4, <1>6 DEF Aim!Listed
  <2> QED BY <1>3, <1>4, <2>1, ConnectedIs
<1> HIDE DEF t
<1>8. /\ t.xfer = [s.xfer EXCEPT ![x] = Sock(s.xfer[x], e)]
      /\ t.conns = [s.conns EXCEPT ![c] = Opened(s.conns[c], e)]
      /\ t.io = Plus(Minus(s.io, {c}), c, v) /\ t.open = s.open /\ t.harm = s.harm /\ t.past = s.past
  BY <1>6, <1>7 DEF Fields
<1>9. Aim!Listed(t) = Aim!Listed(s) /\ \A y \in Aim!Listed(s) : y # x => t.xfer[y] = s.xfer[y]
  BY <1>8 DEF Aim!Listed
<1>10. t.xfer[x].conn = c /\ t.xfer[x].info /\ t.xfer[x].known /\ t.xfer[x].fp /\ t.xfer[x].sock = e
  <2> DEFINE w == s.xfer[x]
             z == Sock(w, e)
  <2>1. w \in AimXfer(X) /\ e \in Fds \cup {Aim!None}
    BY <1>2, StFields, XfersAre DEF Aim!Listed
  <2>2. w.conn = c /\ w.info /\ w.known /\ w.fp
    BY <1>2
  <2>3. t.xfer[x] = z
    BY <1>2, <1>8 DEF Aim!Listed
  <2> HIDE DEF w
  <2>4. SameXfer(z, w) /\ z.sock = e /\ z.info = w.info /\ z.known = w.known /\ z.fp = w.fp
    <3>1. 0 \in Int
      OBVIOUS
    <3> QED BY <2>1, <3>1, GrownIs
  <2> HIDE DEF z
  <2> QED BY <2>2, <2>3, <2>4 DEF SameXfer
<1>11. /\ DOMAIN t.conns = DOMAIN s.conns /\ \A d \in DOMAIN s.conns : d # c => t.conns[d] = s.conns[d]
       /\ t.conns[c].fd = e /\ t.conns[c].handlers = s.conns[c].handlers
  <2> DEFINE w == s.conns[c]
  <2>1. w \in AimConn(X)
    BY StFields, ConnsAre
  <2>2. t.conns[c] = Opened(w, e)
    BY <1>8
  <2>3. Opened(w, e).fd = e /\ Opened(w, e).handlers = w.handlers
    BY <2>1 DEF Opened, AimConn
  <2> QED BY <1>8, <2>2, <2>3
<1>12. /\ c \in DOMAIN t.io /\ t.io[c].fd = e /\ t.io[c].callback = "event"
       /\ \A j : j \in DOMAIN t.io <=> j \in DOMAIN s.io
       /\ \A j \in DOMAIN s.io : j # c => t.io[j] = s.io[j]
  <2> DEFINE m == Minus(s.io, {c})
  <2>1. DOMAIN m = DOMAIN s.io \ {c} /\ \A j \in DOMAIN s.io : j # c => m[j] = s.io[j]
    BY DEF Minus
  <2>2. t.io = Plus(m, c, v) /\ v.callback = "event" /\ v.fd = e
    BY <1>8
  <2> HIDE DEF v, m
  <2>3. DOMAIN t.io = DOMAIN m \cup {c} /\ t.io[c] = v /\ \A j \in DOMAIN m : j # c => t.io[j] = m[j]
    BY <2>2 DEF Plus
  <2> QED BY <2>1, <2>2, <2>3
<1>13. Rewired(s, t, x, c, c, e)
  <2>1. Aim!Listed(t) = Aim!Listed(s) \cup {x}
    BY <1>2, <1>9
  <2>2. c \in DOMAIN t.conns /\ \A d \in DOMAIN t.conns : d[1] = x => d = c
    BY <1>2, <1>11
  <2>3. \A d : d[1] # x => /\ d \in DOMAIN t.conns <=> d \in DOMAIN s.conns
                           /\ d \in DOMAIN s.conns => t.conns[d] = s.conns[d]
    BY <1>4, <1>11
  <2>4. c \in DOMAIN t.io /\ t.io[c].fd = e /\ \A j \in DOMAIN t.io : j[1] = x => j = c
    BY <1>2, <1>12
  <2>5. \A j : j[1] # x => /\ j \in DOMAIN t.io <=> j \in DOMAIN s.io
                           /\ j \in DOMAIN s.io => t.io[j] = s.io[j]
    BY <1>4, <1>12
  <2>6. Watches(t, c, c)
    BY <1>4, <1>10, <1>11, <1>12 DEF Watches
  <2>7. "dead" \in t.conns[c].handlers
    BY <1>2, <1>11
  <2> QED BY <1>8, <1>9, <1>10, <2>1, <2>2, <2>3, <2>4, <2>5, <2>6, <2>7 DEF Rewired
<1>14. Reused(s, t, x, e)
  <2>1. s.open[s.io[c].fd] = "ours" /\ t.open = s.open /\ \A j \in DOMAIN s.io : j[1] = x => j = c
    BY <1>2, <1>8 DEF e
  <2>2. Reused(s, t, x, s.io[c].fd)
    BY <1>4, <2>1, ReusedSame
  <2> QED BY <2>2 DEF e
<1>15. Sane(t)
  BY <1>1, <1>2, <1>4, <1>7, <1>13, <1>14, RewiredSane DEF Right
<1>16. Right(t)
  BY <1>8, <1>15 DEF Right, Unharmed
<1> QED BY <1>16 DEF t, u, e

LEMMA DiallingFine ==
    ASSUME NEW X, NEW s \in AimSt(X), Right(s), NEW c \in DOMAIN s.io, c \in DOMAIN s.conns,
           s.io[c].callback = "connected", NEW t \in Aim!aim_connected(s, c, s.io[c].fd)
    PROVE  Right(t)
<1>1. t = Aim!Connected(Aim!pork_io_del(s, c), c, s.io[c].fd) \/ t = Aim!NotConnected(s, c, s.io[c].fd)
  BY DEF Aim!aim_connected
<1> QED BY <1>1, ConnectedFine, NotConnectedFine

(* What is known of a transfer that is watched itself.                     *)
LEMMA OwnKeyIs ==
    ASSUME NEW X, NEW s \in AimSt(X), Right(s), NEW x, Aim!Of(x) \in DOMAIN s.io
    PROVE  LET c == s.xfer[x].conn
               k == Aim!Of(x)
           IN  /\ x \in Aim!Listed(s) /\ x \in X /\ c \in DOMAIN s.conns /\ c[1] = x /\ c \in Names(X)
               /\ c # k /\ c \notin DOMAIN s.io
               /\ \A j \in DOMAIN s.io : j[1] = x => j = k
               /\ \A d \in DOMAIN s.conns : d[1] = x => d = c
               /\ s.io[k].fd \in Fds /\ s.open[s.io[k].fd] = "ours" /\ Watches(s, c, k)
               /\ s.xfer[x].info /\ s.xfer[x].known /\ s.xfer[x].fp
<1> DEFINE c == s.xfer[x].conn
           k == Aim!Of(x)
<1>1. k[1] = x
  BY OfIs
<1>2. Sane(s)
  BY DEF Right
<1>3. /\ x \in Aim!Listed(s) /\ c \in DOMAIN s.conns /\ c[1] = x
      /\ \A j \in DOMAIN s.io : j[1] = x => j = k
      /\ \A d \in DOMAIN s.conns : d[1] = x => d = c
      /\ s.io[k].fd \in Fds /\ s.open[s.io[k].fd] = "ours" /\ Watches(s, c, k)
      /\ s.xfer[x].info /\ s.xfer[x].known /\ s.xfer[x].fp
  BY <1>1, <1>2, KeyIs
<1>4. c \in Names(X) /\ x \in X
  BY <1>3, StFields, ConnsAre, XfersAre DEF Aim!Listed
<1>5. c # k
  BY <1>4, NamesAre
<1>6. c \notin DOMAIN s.io
  BY <1>3, <1>5
<1> QED BY <1>3, <1>4, <1>5, <1>6

LEMMA SentFine ==
    ASSUME NEW X, NEW s \in AimSt(X), Right(s), NEW x, Aim!Of(x) \in DOMAIN s.io, NEW t \in AimSt(X), NEW v,
           v.conn = s.xfer[x].conn, v.sock = s.xfer[x].sock, v.info, v.known, v.fp,
           t.xfer = [s.xfer EXCEPT ![x] = v], t.conns = s.conns,
           t.io = s.io, t.open = s.open, t.harm = s.harm, t.past = s.past
    PROVE  Right(t)
<1> DEFINE c == s.xfer[x].conn
           k == Aim!Of(x)
           e == s.io[k].fd
<1>1. /\ x \in Aim!Listed(s) /\ x \in X /\ c \in DOMAIN s.conns /\ c[1] = x /\ c \in Names(X) /\ c # k
      /\ \A j \in DOMAIN s.io : j[1] = x => j = k
      /\ \A d \in DOMAIN s.conns : d[1] = x => d = c
      /\ e \in Fds /\ s.open[e] = "ours" /\ Watches(s, c, k)
  BY OwnKeyIs
<1>2. k[1] = x /\ k \in DOMAIN s.io /\ k \in {c, Aim!Of(x)}
  BY OfIs
<1>3. v.conn = c /\ v.sock = s.xfer[x].sock /\ Sane(s)
  BY DEF Right
<1>4. Reused(s, t, x, e)
  BY <1>1, <1>2, ReusedSame
<1> HIDE DEF c, k, e
<1>5. Aim!Listed(t) = Aim!Listed(s) /\ t.xfer[x] = v /\ \A y \in Aim!Listed(s) : y # x => t.xfer[y] = s.xfer[y]
  BY <1>1 DEF Aim!Listed
<1>6. Watches(t, c, k)
  BY <1>1, <1>3, <1>5 DEF Watches
<1>7. Rewired(s, t, x, c, k, e)
  <2>1. Aim!Listed(t) = Aim!Listed(s) \cup {x}
    BY <1>1, <1>5
  <2>2. t.io[k].fd = e
    BY DEF e
  <2> QED BY <1>1, <1>2, <1>3, <1>5, <1>6, <2>1, <2>2 DEF Rewired
<1>8. Sane(t)
  BY <1>1, <1>2, <1>3, <1>4, <1>7, RewiredSane
<1> QED BY <1>8 DEF Right, Unharmed

(* transfer_send_data, transfer_recv_data: a piece of the file.            *)
LEMMA PieceFine ==
    ASSUME NEW X, NEW s \in AimSt(X), Right(s), NEW x, Aim!Of(x) \in DOMAIN s.io, NEW n \in Int,
           s.io[Aim!Of(x)].callback # "connected"
    PROVE  LET t == [s EXCEPT !.xfer[x].sent = @ + n]
           IN  /\ Right(t) /\ Right(Aim!Complete(t, x)) /\ Right(Aim!Complete(Aim!pork_io_del(t, Aim!Of(x)), x))
<1> DEFINE t == [s EXCEPT !.xfer[x].sent = @ + n]
           u == Aim!pork_io_del(t, Aim!Of(x))
           c == s.xfer[x].conn
           k == Aim!Of(x)
           v == Grown(s.xfer[x], n)
<1>1. /\ x \in Aim!Listed(s) /\ x \in X /\ c \notin DOMAIN s.io
      /\ s.xfer[x].info /\ s.xfer[x].known /\ s.xfer[x].fp
  BY OwnKeyIs
<1>2. /\ t \in AimSt(X)
      /\ Fields(t) = <<[s.xfer EXCEPT ![x] = v], s.conns, s.io, s.open, s.harm, s.past>>
  BY <1>1, SentIs
<1> HIDE DEF t
<1>3. /\ t.xfer = [s.xfer EXCEPT ![x] = v] /\ t.conns = s.conns /\ t.io = s.io /\ t.open = s.open
      /\ t.harm = s.harm /\ t.past = s.past
  BY <1>2 DEF Fields
<1>4. v.conn = c /\ v.sock = s.xfer[x].sock /\ v.info /\ v.known /\ v.fp
  <2> DEFINE w == s.xfer[x]
  <2>1. w \in AimXfer(X)
    BY <1>1, StFields, XfersAre DEF Aim!Listed
  <2>2. v = Grown(w, n) /\ w.info /\ w.known /\ w.fp /\ w.conn = c
    BY <1>1
  <2> HIDE DEF w
  <2>3. SameXfer(Grown(w, n), w) /\ Grown(w, n).sock = w.sock
        /\ Grown(w, n).info = w.info /\ Grown(w, n).known = w.known /\ Grown(w, n).fp = w.fp
    BY <2>1, GrownIs
  <2>4. v.sock = w.sock /\ v.info /\ v.known /\ v.fp /\ v.conn = c
    <3> HIDE DEF v, c
    <3> QED BY <2>2, <2>3 DEF SameXfer
  <2> QED BY <2>4 DEF w
<1> HIDE DEF v
<1>5. Right(t)
  BY <1>2, <1>3, <1>4, SentFine
<1>6. x \in Aim!Listed(t) /\ t.xfer[x] = v /\ Minus(t.xfer, {x}) = Minus(s.xfer, {x})
  <2>1. x \in Aim!Listed(t) /\ t.xfer[x] = v
    BY <1>1, <1>3 DEF Aim!Listed
  <2>2. Minus([s.xfer EXCEPT ![x] = v], {x}) = Minus(s.xfer, {x})
    BY MinusPut
  <2> QED BY <1>3, <2>1, <2>2
<1>7. k \in DOMAIN s.io /\ k[1] = x /\ s.io[k].callback # "connected"
  BY OfIs
<1>8. Minus(s.io, {k}) = Minus(s.io, {k, c})
  BY <1>1, MinusNone
<1>9. Right(Aim!Complete(t, x))
  <2>1. Minus(t.io, {Aim!Of(x)}) = Minus(s.io, {Aim!Of(x), s.xfer[x].conn})
    BY <1>3, <1>8
  <2>2. t.xfer[x].conn = s.xfer[x].conn /\ t.xfer[x].known
    BY <1>4, <1>6
  <2> QED BY <1>1, <1>2, <1>3, <1>6, <1>7, <2>1, <2>2, CompleteFine
<1>10. u \in AimSt(X) /\ Fields(u) = <<t.xfer, t.conns, Minus(t.io, {k}), t.open, t.harm, t.past>>
  BY <1>2, DelIs
<1>11. Right(Aim!Complete(u, x))
  <2> HIDE DEF u
  <2>1. /\ u.xfer = t.xfer /\ u.conns = s.conns /\ u.io = Minus(s.io, {k}) /\ u.open = s.open
        /\ u.harm = s.harm /\ u.past = s.past
    BY <1>3, <1>10 DEF Fields
  <2>2. Minus(u.io, {Aim!Of(x)}) = Minus(s.io, {Aim!Of(x), s.xfer[x].conn})
    <3>1. Minus(Minus(s.io, {k}), {k}) = Minus(s.io, {k})
      BY MinusTwice
    <3> QED BY <1>8, <2>1, <3>1
  <2>3. u.xfer[x].conn = s.xfer[x].conn /\ u.xfer[x].known /\ x \in Aim!Listed(u)
        /\ Minus(u.xfer, {x}) = Minus(s.xfer, {x})
    BY <1>4, <1>6, <2>1 DEF Aim!Listed
  <2> QED BY <1>1, <1>7, <1>10, <2>1, <2>2, <2>3, CompleteFine
<1> QED BY <1>5, <1>9, <1>11 DEF t

LEMMA SendingFine ==
    ASSUME NEW X, NEW s \in AimSt(X), Right(s), NEW x, Aim!Of(x) \in DOMAIN s.io,
           s.io[Aim!Of(x)].callback = "send_data", NEW t \in Aim!transfer_send_data(s, x)
    PROVE  Right(t)
<1>1. CASE t = Aim!transfer_abort(s, x)
  <2>1. Aim!Of(x)[1] = x
    BY OfIs
  <2>2. Right(Aim!transfer_abort(s, Aim!Of(x)[1]))
    BY LostFine
  <2> QED BY <1>1, <2>1, <2>2
<1> DEFINE p == [s EXCEPT !.xfer[x].sent = @ + 1]
<1>2. Right(p) /\ Right(Aim!Complete(Aim!pork_io_del(p, Aim!Of(x)), x))
  <2>1. 1 \in Int /\ s.io[Aim!Of(x)].callback # "connected"
    OBVIOUS
  <2> QED BY <2>1, PieceFine
<1>3. t = Aim!transfer_abort(s, x) \/ t = p \/ t = Aim!Complete(Aim!pork_io_del(p, Aim!Of(x)), x)
  <2> DEFINE S == {x} \cap {z \in Aim!Listed(s) : s.xfer[z].sent < s.xfer[z].len}
             q == IF p.xfer[x].sent >= p.xfer[x].len THEN Aim!Complete(Aim!pork_io_del(p, Aim!Of(x)), x) ELSE p
  <2>1. Aim!transfer_send_data(s, x) = {Aim!transfer_abort(s, x)} \cup {q : y \in S}
    BY Zenon DEF Aim!transfer_send_data
  <2> HIDE DEF S, q
  <2>2. t = Aim!transfer_abort(s, x) \/ t = q
    BY <2>1
  <2> QED BY <2>2 DEF q
<1> QED BY <1>1, <1>2, <1>3

LEMMA ReceivingFine ==
    ASSUME NEW X, NEW s \in AimSt(X), Right(s), NEW x, Aim!Of(x) \in DOMAIN s.io,
           s.io[Aim!Of(x)].callback = "recv_data", NEW t \in Aim!transfer_recv_data(s, x)
    PROVE  Right(t)
<1>1. CASE t = Aim!transfer_abort(s, x)
  <2>1. Aim!Of(x)[1] = x
    BY OfIs
  <2>2. Right(Aim!transfer_abort(s, Aim!Of(x)[1]))
    BY LostFine
  <2> QED BY <1>1, <2>1, <2>2
<1>2. s.xfer[x].fp
  BY OwnKeyIs
<1>3. ASSUME NEW n \in 1 .. 2,
             LET p == [s EXCEPT !.xfer[x].sent = @ + n] IN t = p \/ t = Aim!Complete(p, x)
      PROVE  Right(t)
  <2> DEFINE p == [s EXCEPT !.xfer[x].sent = @ + n]
  <2>1. Right(p) /\ Right(Aim!Complete(p, x))
    <3>1. n \in Int /\ s.io[Aim!Of(x)].callback # "connected"
      OBVIOUS
    <3> QED BY <3>1, PieceFine
  <2> QED BY <1>3, <2>1
<1>4. \/ t = Aim!transfer_abort(s, x)
      \/ \E n \in 1 .. 2 : LET p == [s EXCEPT !.xfer[x].sent = @ + n] IN t = p \/ t = Aim!Complete(p, x)
  BY <1>2 DEF Aim!transfer_recv_data
<1> QED BY <1>1, <1>3, <1>4

(* A descriptor is exchanged for another.                                  *)
LEMMA ReusedOther ==
    ASSUME NEW s, NEW t, NEW x, NEW k \in DOMAIN s.io, k[1] = x, \A j \in DOMAIN s.io : j[1] = x => j = k,
           NEW f, s.open[f] = "closed", NEW e, s.io[k].fd = e, s.open[e] = "ours",
           s.open \in Users, f \in Fds, e \in Fds,
           t.open = Closed([s.open EXCEPT ![f] = "ours"], e)
    PROVE  Reused(s, t, x, f)
<1>1. \A g : Uses(s, x, g) <=> g = e
  BY DEF Uses
<1>2. f # e /\ e # Aim!None
  BY FdsA
<1> DEFINE o == [s.open EXCEPT ![f] = "ours"]
<1>3. DOMAIN s.open = Fds
  BY DEF Users
<1>4. t.open = [o EXCEPT ![e] = "closed"]
  BY <1>2 DEF Closed
<1>5. /\ t.open[f] = "ours" /\ t.open[e] = "closed"
      /\ \A g \in Fds : g # f /\ g # e => t.open[g] = s.open[g]
  BY <1>2, <1>3, <1>4
<1> HIDE DEF o
<1> QED BY <1>1, <1>2, <1>5 DEF Reused

LEMMA AcceptedFine ==
    ASSUME NEW X, NEW s \in AimSt(X), Right(s), NEW c \in DOMAIN s.io, c \in DOMAIN s.conns,
           s.io[c].callback = "listening", c[2] = "listener", NEW f \in Aim!Free(s), NEW t \in Aim!Accepted(s, c, f)
    PROVE  "vanished" \in t.past \/ Right(t)
<1> DEFINE x == c[1]
           e == s.io[c].fd
           n == <<x, "accepted">>
           a == [fd |-> f, priv |-> x, handlers |-> Events]
           v == [callback |-> "event", fd |-> f]
           y == Active(Taken(s.xfer[x], n, f))
<1>1. c \in Names(X) /\ c # Aim!NULL /\ x \in X /\ n \in Names(X) /\ n[1] = x /\ n[2] = "accepted" /\ n # c
  <2>1. c \in Names(X) /\ c # Aim!NULL /\ x \in X
    BY StFields, ConnsAre, NamesAre
  <2>2. "accepted" \in Aim!Hows
    BY DEF Aim!Hows
  <2> QED BY <2>1, <2>2, NamesAre
<1>2. /\ x \in Aim!Listed(s) /\ s.xfer[x].conn = c /\ e \in Fds /\ s.open[e] = "ours"
      /\ Watches(s, c, c)
      /\ s.xfer[x].info /\ s.xfer[x].known /\ s.xfer[x].fp
      /\ \A j \in DOMAIN s.io : j[1] = x => j = c
      /\ \A d \in DOMAIN s.conns : d[1] = x => d = c
  <2>1. c # Aim!Of(x)
    BY <1>1, NamesAre
  <2>2. Sane(s)
    BY DEF Right
  <2>3. /\ x \in Aim!Listed(s) /\ c \in {s.xfer[x].conn, Aim!Of(x)}
        /\ (\A j \in DOMAIN s.io : j[1] = x => j = c)
        /\ (\A d \in DOMAIN s.conns : d[1] = x => d = s.xfer[x].conn)
        /\ e \in Fds /\ s.open[e] = "ours" /\ Watches(s, s.xfer[x].conn, c)
        /\ s.xfer[x].info /\ s.xfer[x].known /\ s.xfer[x].fp
    BY <2>2, KeyIs
  <2> QED BY <2>1, <2>3
<1>3. f \in Fds /\ s.open[f] = "closed"
  BY DEF Aim!Free
<1>4. s.conns[c].fd = e
  BY <1>2 DEF Watches
<1>5. /\ t \in AimSt(X)
      /\ \/ "vanished" \in t.past
         \/ Fields(t) = <<[s.xfer EXCEPT ![x] = y],
                          Minus(Plus(s.conns, n, a), {c}), Plus(Minus(s.io, {c}), n, v),
                          Closed([s.open EXCEPT ![f] = "ours"], e), Hit(Aim!Open(s, f), e), s.past>>
  <2>1. c[2] # "accepted" /\ c[1] \in Aim!Listed(s)
    BY <1>2
  <2> DEFINE h == s.conns[c].fd
         P(g) == Fields(t) = <<[s.xfer EXCEPT ![x] = y],
                               Minus(Plus(s.conns, n, a), {c}), Plus(Minus(s.io, {c}), n, v),
                               Closed([s.open EXCEPT ![f] = "ours"], g), Hit(Aim!Open(s, f), g), s.past>>
  <2>2. t \in AimSt(X) /\ ("vanished" \in t.past \/ P(h))
    BY <1>3, <2>1, AcceptedIs
  <2>3. h = e
    BY <1>4
  <2> HIDE DEF h, e
  <2>4. P(h) => P(e)
    BY <2>3
  <2> QED BY <2>2, <2>4
<1> SUFFICES ASSUME "vanished" \notin t.past PROVE Right(t)
  OBVIOUS
<1>6. y.conn = n /\ y.sock = f /\ y.info /\ y.known /\ y.fp
  <2> DEFINE w == s.xfer[x]
             z == Taken(w, n, f)
  <2>1. w \in AimXfer(X) /\ f \in Fds \cup {Aim!None} /\ n \in Names(X) \cup {Aim!NULL}
    BY <1>1, <1>2, <1>3, StFields, XfersAre DEF Aim!Listed
  <2>2. w.info /\ w.known /\ w.fp
    BY <1>2
  <2> HIDE DEF w, n
  <2>3. z \in AimXfer(X) /\ z.sock = f /\ z.conn = n /\ z.info = w.info /\ z.known = w.known
        /\ z.fp = w.fp
    BY <2>1, TakenIs
  <2> HIDE DEF z
  <2>4. LET q == Active(z) IN q.sock = z.sock /\ q.conn = z.conn /\ q.info = z.info /\ q.known = z.known
                              /\ q.fp = z.fp
    BY <2>3, ActiveIs
  <2>5. y = Active(z)
    BY DEF z, w, n
  <2> HIDE DEF y
  <2> QED BY <2>2, <2>3, <2>4, <2>5
<1>7. Aim!Open(s, f).open[e] = "ours"
  <2>1. Aim!Open(s, f).open = [s.open EXCEPT ![f] = "ours"]
    BY <1>3, OpenIs DEF Fields
  <2>2. s.open \in Users
    BY StFields
  <2> QED BY <1>2, <1>3, <2>1, <2>2 DEF Users
<1>8. Hit(Aim!Open(s, f), e) = s.harm
  <2>1. Aim!Open(s, f).harm = s.harm
    BY <1>3, OpenIs DEF Fields
  <2> QED BY <1>7, <2>1, HitIs
<1>9. c[1] = x /\ s.io[c].fd = e
  OBVIOUS
<1> HIDE DEF x, e, n, y
<1>10. /\ t.xfer = [s.xfer EXCEPT ![x] = y] /\ t.conns = Minus(Plus(s.conns, n, a), {c})
       /\ t.io = Plus(Minus(s.io, {c}), n, v)
       /\ t.open = Closed([s.open EXCEPT ![f] = "ours"], e)
       /\ t.harm = s.harm /\ t.past = s.past
  BY <1>5, <1>8 DEF Fields
<1>11. /\ \A d : d \in DOMAIN t.conns <=> (d \in DOMAIN s.conns /\ d # c) \/ d = n
       /\ t.conns[n].fd = f /\ t.conns[n].handlers = Events
       /\ \A d \in DOMAIN s.conns : d # c /\ d # n => t.conns[d] = s.conns[d]
  <2> DEFINE m == Plus(s.conns, n, a)
  <2>1. DOMAIN m = DOMAIN s.conns \cup {n} /\ m[n] = a /\ \A d \in DOMAIN s.conns : d # n => m[d] = s.conns[d]
    BY DEF Plus
  <2>2. t.conns = Minus(m, {c}) /\ a.fd = f /\ a.handlers = Events
    BY <1>10
  <2> HIDE DEF a, m
  <2>3. DOMAIN t.conns = DOMAIN m \ {c} /\ \A d \in DOMAIN m : d # c => t.conns[d] = m[d]
    BY <2>2 DEF Minus
  <2> QED BY <1>1, <2>1, <2>2, <2>3
<1>12. /\ \A j : j \in DOMAIN t.io <=> (j \in DOMAIN s.io /\ j # c) \/ j = n
       /\ t.io[n].callback = "event" /\ t.io[n].fd = f
       /\ \A j \in DOMAIN s.io : j # c /\ j # n => t.io[j] = s.io[j]
  <2> DEFINE m == Minus(s.io, {c})
  <2>1. DOMAIN m = DOMAIN s.io \ {c} /\ \A j \in DOMAIN s.io : j # c => m[j] = s.io[j]
    BY DEF Minus
  <2>2. t.io = Plus(m, n, v) /\ v.callback = "event" /\ v.fd = f
    BY <1>10
  <2> HIDE DEF v, m
  <2>3. DOMAIN t.io = DOMAIN m \cup {n} /\ t.io[n] = v /\ \A j \in DOMAIN m : j # n => t.io[j] = m[j]
    BY <2>2 DEF Plus
  <2> QED BY <2>1, <2>2, <2>3
<1>13. Aim!Listed(t) = Aim!Listed(s) /\ t.xfer[x] = y /\ \A z \in Aim!Listed(s) : z # x => t.xfer[z] = s.xfer[z]
  BY <1>2, <1>10 DEF Aim!Listed
<1>14. Rewired(s, t, x, n, n, f)
  <2>1. Aim!Listed(t) = Aim!Listed(s) \cup {x}
    BY <1>2, <1>13
  <2>2. n \in DOMAIN t.conns /\ \A d \in DOMAIN t.conns : d[1] = x => d = n
    BY <1>2, <1>11
  <2>3. \A d : d[1] # x => /\ d \in DOMAIN t.conns <=> d \in DOMAIN s.conns
                           /\ d \in DOMAIN s.conns => t.conns[d] = s.conns[d]
    BY <1>1, <1>9, <1>11
  <2>4. n \in DOMAIN t.io /\ t.io[n].fd = f /\ \A j \in DOMAIN t.io : j[1] = x => j = n
    BY <1>2, <1>12
  <2>5. \A j : j[1] # x => /\ j \in DOMAIN t.io <=> j \in DOMAIN s.io
                           /\ j \in DOMAIN s.io => t.io[j] = s.io[j]
    BY <1>1, <1>9, <1>12
  <2>6. Watches(t, n, n)
    BY <1>1, <1>6, <1>11, <1>12, <1>13 DEF Watches
  <2>7. "dead" \in t.conns[n].handlers
    BY <1>11 DEF Events
  <2> QED BY <1>6, <1>10, <1>13, <2>1, <2>2, <2>3, <2>4, <2>5, <2>6, <2>7 DEF Rewired
<1>15. Reused(s, t, x, f)
  <2>1. s.open \in Users
    BY StFields
  <2> QED BY <1>2, <1>3, <1>9, <1>10, <2>1, ReusedOther
<1>16. Sane(t)
  BY <1>1, <1>3, <1>5, <1>14, <1>15, RewiredSane DEF Right
<1> QED BY <1>10, <1>16 DEF Right, Unharmed

LEMMA ListeningFine ==
    ASSUME NEW X, NEW s \in AimSt(X), Right(s), NEW c \in DOMAIN s.io, c \in DOMAIN s.conns,
           s.io[c].callback = "listening", c[2] = "listener",
           NEW t \in Aim!aim_listen_conn_event(s, c, s.io[c].fd), Calm(t)
    PROVE  Right(t)
<1>1. s.conns[c].priv = c[1]
  BY StFields, ConnsAre
<1>2. c[1] \in Aim!Listed(s)
  BY KeyIs DEF Right
<1>3. \/ t = Aim!transfer_abort(Aim!Close(s, s.io[c].fd), s.conns[c].priv)
      \/ \E f \in Aim!Free(s) : t \in Aim!Accepted(s, c, f)
  BY <1>1, <1>2 DEF Aim!aim_listen_conn_event
<1>4. "vanished" \notin t.past
  BY DEF Calm
<1> QED BY <1>3, <1>4, AcceptedFine, UnheardFine

LEMMA ReusedFresh ==
    ASSUME NEW s, NEW t, NEW x, \A j \in DOMAIN s.io : j[1] # x,
           NEW f \in Fds, s.open[f] = "closed", s.open \in Users, t.open = [s.open EXCEPT ![f] = "ours"]
    PROVE  Reused(s, t, x, f)
<1>1. \A g : ~Uses(s, x, g)
  BY DEF Uses
<1>2. t.open[f] = "ours" /\ \A g \in Fds : g # f => t.open[g] = s.open[g]
  BY DEF Users
<1> QED BY <1>1, <1>2 DEF Reused

(* A connection c that is made for x, which has none, watched by f.        *)
LEMMA MadeFine ==
    ASSUME NEW X, NEW s \in AimSt(X), NEW t \in AimSt(X), Right(s), NEW x, NEW c \in Names(X), c[1] = x,
           \A k \in DOMAIN s.io : k[1] # x, \A d \in DOMAIN s.conns : d[1] # x,
           Aim!Listed(t) = Aim!Listed(s) \cup {x}, \A y \in Aim!Listed(s) : y # x => t.xfer[y] = s.xfer[y],
           t.xfer[x].conn = c, t.xfer[x].info, t.xfer[x].known, t.xfer[x].fp,
           NEW a, NEW v, NEW f \in Aim!Free(s),
           t.conns = Plus(s.conns, c, a), t.io = Plus(s.io, c, v), v.fd = f,
           a.fd = IF v.callback = "connected" THEN Aim!None ELSE f,
           v.callback = "event" => t.xfer[x].sock = f,
           v.callback \in {"listening", "connected", "event"},
           v.callback = "listening" \/ "dead" \in a.handlers,
           t.open = [s.open EXCEPT ![f] = "ours"], t.harm = s.harm, t.past = s.past
    PROVE  Right(t)
<1>1. f \in Fds /\ s.open[f] = "closed"
  BY DEF Aim!Free
<1>2. DOMAIN t.conns = DOMAIN s.conns \cup {c} /\ t.conns[c] = a /\ \A d \in DOMAIN s.conns : d # c => t.conns[d] = s.conns[d]
  BY DEF Plus
<1>3. DOMAIN t.io = DOMAIN s.io \cup {c} /\ t.io[c] = v /\ \A d \in DOMAIN s.io : d # c => t.io[d] = s.io[d]
  BY DEF Plus
<1>4. Rewired(s, t, x, c, c, f)
  <2>1. c \in DOMAIN t.conns /\ \A d \in DOMAIN t.conns : d[1] = x => d = c
    BY <1>2
  <2>2. \A d : d[1] # x => /\ d \in DOMAIN t.conns <=> d \in DOMAIN s.conns
                           /\ d \in DOMAIN s.conns => t.conns[d] = s.conns[d]
    BY <1>2
  <2>3. c \in DOMAIN t.io /\ t.io[c].fd = f /\ \A j \in DOMAIN t.io : j[1] = x => j = c
    BY <1>3
  <2>4. \A j : j[1] # x => /\ j \in DOMAIN t.io <=> j \in DOMAIN s.io
                           /\ j \in DOMAIN s.io => t.io[j] = s.io[j]
    BY <1>3
  <2>5. Watches(t, c, c)
    BY <1>2, <1>3 DEF Watches
  <2>6. t.io[c].callback = "listening" \/ "dead" \in t.conns[c].handlers
    BY <1>2, <1>3
  <2> QED BY <2>1, <2>2, <2>3, <2>4, <2>5, <2>6 DEF Rewired
<1>5. Reused(s, t, x, f)
  <2>1. s.open \in Users
    BY StFields
  <2> QED BY <1>1, <2>1, ReusedFresh
<1>6. Sane(t)
  BY <1>1, <1>4, <1>5, RewiredSane DEF Right
<1> QED BY <1>6 DEF Right, Unharmed

LEMMA GetFine ==
    ASSUME NEW X, NEW s \in AimSt(X), Right(s), NEW x \in Aim!Listed(s), s.xfer[x].conn = Aim!NULL,
           NEW t \in Aim!transfer_get(s, x), Calm(t)
    PROVE  Right(t)
<1> DEFINE c == <<x, "dialled">>
           w == s.xfer[x]
<1>1. /\ \A k \in DOMAIN s.io : k[1] # x
      /\ \A d \in DOMAIN s.conns : d[1] # x
  BY QuietIs DEF Right
<1>2. c[1] = x /\ <<x, "redialled">>[1] = x
  OBVIOUS
<1>3. c \notin DOMAIN s.conns /\ <<x, "redialled">> \notin DOMAIN s.conns
  BY <1>1, <1>2
<1>4. x \in X /\ w \in AimXfer(X) /\ c \in Names(X)
  <2>1. x \in X /\ w \in AimXfer(X)
    BY StFields, XfersAre DEF Aim!Listed
  <2>2. "dialled" \in Aim!Hows
    BY DEF Aim!Hows
  <2> QED BY <2>1, <2>2, NamesAre
<1>5. Aim!Dialled(s, x) = c
  BY <1>3 DEF Aim!Dialled
<1>6. t \in AimSt(X) /\ (t.past \cap {"refused", "noname"} # {} \/ \E f \in Aim!Free(s), cb \in Waits : Gets(s, t, x, c, f, cb))
  BY <1>3, <1>5, GetIs
<1>7. t.past \cap {"refused", "noname"} = {}
  BY DEF Calm
<1>8. PICK f \in Aim!Free(s), cb \in Waits : Gets(s, t, x, c, f, cb)
  BY <1>6, <1>7
<1> DEFINE g == Got(w, c, f, cb)
           v == [callback |-> cb, fd |-> f]
           a == Dialler(x, f, cb)
<1>9. /\ t.xfer = [s.xfer EXCEPT ![x] = g] /\ t.conns = Plus(s.conns, c, a) /\ t.io = Plus(s.io, c, v)
      /\ t.open = [s.open EXCEPT ![f] = "ours"] /\ t.harm = s.harm /\ t.past = s.past
  BY <1>8 DEF Gets, Got
<1>10. w.info /\ w.known
  BY DEF Right, Sane, Owned
<1>11. f \in Fds
  BY DEF Aim!Free
<1> HIDE DEF w, c
<1>12. g.conn = c /\ (Sockets(cb) => g.sock = f)
  BY <1>4, <1>11, GotIs
<1>13. g.fp /\ g.info /\ g.known
  BY <1>4, <1>10, <1>11, GotHas
<1>14. v.fd = f /\ v.callback = cb /\ cb \in {"connected", "event"} /\ (cb = "event" => Sockets(cb))
  BY DEF Waits, Sockets
<1>15. a.fd = (IF cb = "connected" THEN Aim!None ELSE f) /\ "dead" \in a.handlers
  BY <1>14 DEF Dialler, Prompts
<1> HIDE DEF g, v, a
<1>16. Aim!Listed(t) = Aim!Listed(s) \cup {x} /\ t.xfer[x] = g /\ \A y \in Aim!Listed(s) : y # x => t.xfer[y] = s.xfer[y]
  BY <1>9 DEF Aim!Listed
<1>17. t.xfer[x].conn = c /\ t.xfer[x].info /\ t.xfer[x].known /\ t.xfer[x].fp /\ (v.callback = "event" => t.xfer[x].sock = f)
  BY <1>12, <1>13, <1>14, <1>16
<1>18. a.fd = IF v.callback = "connected" THEN Aim!None ELSE f
  BY <1>14, <1>15
<1>19. v.callback \in {"listening", "connected", "event"} /\ (v.callback = "listening" \/ "dead" \in a.handlers)
  BY <1>14, <1>15
<1>20. c[1] = x
  BY DEF c
<1>21. t \in AimSt(X) /\ c \in Names(X)
  BY <1>4, <1>6
<1>22. Aim!Listed(t) = Aim!Listed(s) \cup {x} /\ \A y \in Aim!Listed(s) : y # x => t.xfer[y] = s.xfer[y]
  BY <1>16
<1>23. /\ t.conns = Plus(s.conns, c, a) /\ t.io = Plus(s.io, c, v) /\ v.fd = f
       /\ t.open = [s.open EXCEPT ![f] = "ours"] /\ t.harm = s.harm /\ t.past = s.past
  BY <1>9, <1>14
<1> QED BY <1>1, <1>17, <1>18, <1>19, <1>20, <1>21, <1>22, <1>23, MadeFine

LEMMA BeginFine ==
    ASSUME NEW X, NEW s \in AimSt(X), Right(s), NEW Y, X \subseteq Y, NEW x \in Y, x \notin X, NEW len \in Int,
           NEW t \in Aim!aim_file_send(Aim!transfer_new(s, x, "send", len), x)
    PROVE  Right(t)
<1>1. /\ x \notin Aim!Listed(s)
      /\ \A c \in DOMAIN s.conns : c[1] # x
      /\ \A k \in DOMAIN s.io : k[1] # x
  BY NoneOf
<1>2. t \in AimSt(Y) /\ s \in AimSt(Y)
  BY NewSendIs, AimStGrows DEF Sends
<1>3. CASE Fields(t) = <<s.xfer, s.conns, Minus(s.io, {Aim!Of(x)}), s.open, s.harm, s.past>>
  <2>1. Aim!Of(x) \notin DOMAIN s.io
    BY <1>1, OfIs
  <2>2. Minus(s.io, {Aim!Of(x)}) = s.io
    <3>1. s.io = [k \in DOMAIN s.io |-> s.io[k]]
      BY StFields, TablesAre DEF AimSrcs
    <3>2. DOMAIN s.io \ {Aim!Of(x)} = DOMAIN s.io
      BY <2>1
    <3> QED BY <3>1, <3>2 DEF Minus
  <2>3. /\ t.xfer = s.xfer /\ t.conns = s.conns /\ t.io = s.io /\ t.open = s.open /\ t.harm = s.harm
        /\ t.past = s.past
    BY <1>3, <2>2 DEF Fields
  <2>4. Sane(t)
    BY <2>3, SanePast DEF Right
  <2> QED BY <2>3, <2>4 DEF Right, Unharmed
<1>4. CASE \E f \in Aim!Free(s) : BeginsWith(s, t, x, Fresh("send", len), f)
  <2>1. PICK f \in Aim!Free(s) : BeginsWith(s, t, x, Fresh("send", len), f)
    BY <1>4
  <2> DEFINE c == <<x, "listener">>
             w == Fresh("send", len)
             i == Informed(w)
             g == Taken(i, c, f)
             v == [callback |-> "listening", fd |-> f]
             a == Listener(x, f)
  <2>2. /\ t.xfer = Plus(s.xfer, x, g) /\ t.conns = Plus(s.conns, c, a) /\ t.io = Plus(s.io, c, v)
        /\ t.open = [s.open EXCEPT ![f] = "ours"] /\ t.harm = s.harm /\ t.past = s.past
    BY <2>1 DEF BeginsWith
  <2>3. c \in Names(Y) /\ c[1] = x
    <3>1. "listener" \in Aim!Hows
      BY DEF Aim!Hows
    <3> QED BY <3>1, NamesAre
  <2>4. f \in Fds
    BY DEF Aim!Free
  <2>5. g.conn = c /\ g.info /\ g.known /\ g.fp
    BY DEF Fresh, Informed, Taken
  <2>6. v.fd = f /\ v.callback = "listening" /\ a.fd = f
    BY DEF Listener
  <2> HIDE DEF g, v, a, c, w, i
  <2>7. Aim!Listed(t) = Aim!Listed(s) \cup {x} /\ t.xfer[x] = g /\ \A y \in Aim!Listed(s) : y # x => t.xfer[y] = s.xfer[y]
    BY <2>2 DEF Plus, Aim!Listed
  <2>8. t.xfer[x].conn = c /\ t.xfer[x].info /\ t.xfer[x].known /\ t.xfer[x].fp
    BY <2>5, <2>7
  <2>9. /\ a.fd = IF v.callback = "connected" THEN Aim!None ELSE f
        /\ v.callback = "event" => t.xfer[x].sock = f
        /\ v.callback \in {"listening", "connected", "event"}
        /\ v.callback = "listening" \/ "dead" \in a.handlers
    BY <2>6
  <2>10. Aim!Listed(t) = Aim!Listed(s) \cup {x} /\ \A y \in Aim!Listed(s) : y # x => t.xfer[y] = s.xfer[y]
    BY <2>7
  <2>11. /\ t.conns = Plus(s.conns, c, a) /\ t.io = Plus(s.io, c, v) /\ v.fd = f
         /\ t.open = [s.open EXCEPT ![f] = "ours"] /\ t.harm = s.harm /\ t.past = s.past
    BY <2>2, <2>6
  <2>12. a.fd = IF v.callback = "connected" THEN Aim!None ELSE f
    BY <2>6
  <2>13. v.callback = "event" => t.xfer[x].sock = f
    BY <2>6
  <2>14. v.callback \in {"listening", "connected", "event"} /\ (v.callback = "listening" \/ "dead" \in a.handlers)
    BY <2>6
  <2>15. /\ \A k \in DOMAIN s.io : k[1] # x
         /\ \A d \in DOMAIN s.conns : d[1] # x
    BY <1>1
  <2>16. t \in AimSt(Y) /\ s \in AimSt(Y) /\ c \in Names(Y) /\ c[1] = x /\ f \in Aim!Free(s)
    BY <1>2, <2>1, <2>3
  <2> QED BY <2>8, <2>10, <2>11, <2>12, <2>13, <2>14, <2>15, <2>16, MadeFine
<1>5. Sends(s, t, Y, x, len)
  BY NewSendIs
<1> QED BY <1>3, <1>4, <1>5 DEF Sends

LEMMA OfferFine ==
    ASSUME NEW X, NEW s \in AimSt(X), Right(s), NEW Y, X \subseteq Y, NEW x \in Y, x \notin X, NEW len \in Int,
           NEW t, t = Aim!aim_oft_createinfo(Aim!transfer_new(s, x, "recv", len), x)
    PROVE  Right(t)
<1>1. /\ x \notin Aim!Listed(s)
      /\ \A c \in DOMAIN s.conns : c[1] # x
      /\ \A k \in DOMAIN s.io : k[1] # x
  BY NoneOf
<1>2. s \in AimSt(Y)
  BY AimStGrows
<1>3. /\ t \in AimSt(Y) /\ t.xfer = Plus(s.xfer, x, Given(len)) /\ t.conns = s.conns
      /\ t.io = s.io /\ t.open = s.open /\ t.harm = s.harm /\ t.past = s.past
  BY OfferIs
<1>4. Given(len).info /\ Given(len).known /\ Given(len).conn = Aim!NULL
  BY DEF Given, Fresh, Informed
<1>5. Aim!Listed(t) = Aim!Listed(s) \cup {x} /\ t.xfer[x] = Given(len) /\ \A y \in Aim!Listed(s) : y # x => t.xfer[y] = s.xfer[y]
  BY <1>3 DEF Plus, Aim!Listed
<1>6. Settled(t, x)
  <2>1. x \in Aim!Listed(t) => /\ t.xfer[x].info /\ t.xfer[x].known
                               /\ t.xfer[x].conn # Aim!NULL => t.xfer[x].fp
                               /\ t.xfer[x].conn \in DOMAIN t.conns \cup {Aim!NULL}
    BY <1>4, <1>5
  <2>2. (\A c \in DOMAIN t.conns : c[1] # x) /\ (\A k \in DOMAIN t.io : k[1] # x)
    BY <1>1, <1>3
  <2> QED BY <2>1, <2>2 DEF Settled
<1>7. Beside(s, t, x)
  BY <1>3, <1>5 DEF Beside
<1>8. \A f : ~Uses(s, x, f) /\ ~Uses(t, x, f)
  BY <1>1, <1>3 DEF Uses
<1>9. Leaves(s, t, x)
  BY <1>3, <1>8 DEF Leaves
<1>10. Sane(t)
  BY <1>2, <1>3, <1>6, <1>7, <1>9, BesideSane DEF Right
<1> QED BY <1>3, <1>10 DEF Right, Unharmed

LEMMA CancelFine ==
    ASSUME NEW X, NEW s \in AimSt(X), Right(s), NEW x \in Aim!Listed(s)
    PROVE  Right(Aim!transfer_abort(Aim!Midway(s, {s.xfer[x].conn}), x))
<1> DEFINE c == s.xfer[x].conn
           u == Aim!Midway(s, {c})
<1>1. /\ u \in AimSt(X) /\ u.xfer = s.xfer /\ u.conns = s.conns /\ u.io = s.io
      /\ u.open = s.open /\ u.harm = s.harm
      /\ u.past = s.past \/ u.past = s.past \cup {"midway"}
      /\ u.past = {} => \A d \in {c} \cap DOMAIN s.conns : s.conns[d].fd # Aim!None
  BY MidwayIs
<1> HIDE DEF u
<1>2. Sane(u)
  BY <1>1, SanePast DEF Right
<1>3. Right(u)
  BY <1>1, <1>2 DEF Right, Unharmed
<1>4. c \in DOMAIN s.conns \cup {Aim!NULL}
  BY DEF Right, Sane
<1>5. u.past # {} \/ u.xfer[x].conn = Aim!NULL \/ u.conns[u.xfer[x].conn].fd # Aim!None
  BY <1>1, <1>4
<1>6. x \in Aim!Listed(u)
  BY <1>1 DEF Aim!Listed
<1>7. Right(Aim!Abort(u, x, FALSE))
  BY <1>1, <1>3, <1>5, <1>6, AbortFine
<1> QED BY <1>7 DEF u, Aim!transfer_abort

LEMMA OthersFine ==
    ASSUME NEW X, NEW s \in AimSt(X), Right(s), NEW f \in Fds, s.open[f] \in {"closed", "other"},
           NEW t, t = [s EXCEPT !.open[f] = IF @ = "closed" THEN "other" ELSE "closed"]
    PROVE  Right(t)
<1>1. /\ t.xfer = s.xfer /\ t.conns = s.conns /\ t.io = s.io /\ t.harm = s.harm /\ t.past = s.past
      /\ t.open = [s.open EXCEPT ![f] = Toggle(s.open[f])]
  BY OthersIs DEF Fields
<1>2. \A g \in Fds : t.open[g] = "ours" <=> s.open[g] = "ours"
  BY <1>1, StFields DEF Users, Toggle
<1>3. Sources(t)
  <2>1. Sources(s)
    BY DEF Right, Sane
  <2>2. \A d : Live(t, d) <=> Live(s, d)
    BY <1>1 DEF Live, Aim!Listed
  <2> QED BY <1>1, <1>2, <2>1, <2>2 DEF Sources
<1>4. Owned(t)
  BY <1>1 DEF Right, Sane, Owned, Live, Dead, Aim!Listed
<1>5. Sane(t)
  BY <1>1, <1>3, <1>4 DEF Right, Sane, Heard, Watches, Live, Aim!Listed
<1> QED BY <1>1, <1>5 DEF Right, Unharmed

(* aim_kill_all_conn begins: from now on only transfers are watched.       *)
LEMMA ShuttingBegins ==
    ASSUME NEW X, NEW s \in AimSt(X), Right(s),
           NEW t, t = Aim!Unwatched(Aim!Midway(s, DOMAIN s.conns))
    PROVE  Unharmed(t) /\ Shutting(t)
<1> DEFINE m == Aim!Midway(s, DOMAIN s.conns)
<1>1. /\ m \in AimSt(X) /\ m.xfer = s.xfer /\ m.conns = s.conns /\ m.io = s.io
      /\ m.open = s.open /\ m.harm = s.harm
      /\ m.past = s.past \/ m.past = s.past \cup {"midway"}
      /\ m.past = {} => \A c \in DOMAIN s.conns \cap DOMAIN s.conns : s.conns[c].fd # Aim!None
  BY MidwayIs
<1> HIDE DEF m
<1>2. Fields(t) = <<m.xfer, m.conns, Minus(m.io, DOMAIN m.conns), m.open, m.harm, m.past>>
  <2>1. t = Aim!Unwatched(m)
    BY DEF m
  <2> QED BY <1>1, <2>1, UnwatchedIs
<1>3. /\ t.xfer = s.xfer /\ t.conns = s.conns /\ t.io = Minus(s.io, DOMAIN s.conns)
      /\ t.open = s.open /\ t.harm = s.harm /\ s.past \subseteq t.past
      /\ t.past = {} => s.past = {} /\ \A c \in DOMAIN s.conns : s.conns[c].fd # Aim!None
  BY <1>1, <1>2 DEF Fields
<1>4. Sane(s) /\ Owned(s) /\ Sources(s) /\ Unharmed(s)
  BY DEF Right, Sane
<1>5. Owned(t)
  BY <1>3, <1>4 DEF Owned, Live, Dead, Aim!Listed
<1>6. DOMAIN t.io \subseteq {Aim!Of(x) : x \in Aim!Listed(t)}
  <2>1. ASSUME NEW k \in DOMAIN t.io PROVE \E x \in Aim!Listed(t) : k = Aim!Of(x)
    <3>1. k \in DOMAIN s.io /\ k \notin DOMAIN s.conns
      BY <1>3 DEF Minus
    <3>2. PICK c \in DOMAIN s.conns : Live(s, c) /\ k \in {c, Aim!Of(c[1])}
      BY <1>4, <3>1 DEF Sources
    <3>3. k = Aim!Of(c[1]) /\ c[1] \in Aim!Listed(t)
      BY <1>3, <3>1, <3>2 DEF Live, Aim!Listed
    <3> QED BY <3>3
  <2> QED BY <2>1
<1>7. ASSUME NEW c \in DOMAIN s.conns, s.conns[c].fd # Aim!None
      PROVE  /\ Live(s, c)
             /\ \E k \in DOMAIN s.io : k[1] = c[1] /\ s.io[k].fd = s.conns[c].fd /\ s.open[s.io[k].fd] = "ours"
  <2>1. Live(s, c)
    BY <1>4, <1>7 DEF Owned, Dead
  <2>2. Heard(s, c)
    BY <1>4, <2>1 DEF Sane
  <2>3. PICK k \in {c, Aim!Of(c[1])} : Watches(s, c, k)
    BY <2>2 DEF Heard
  <2>4. k \in DOMAIN s.io /\ s.conns[c].fd = s.io[k].fd /\ k[1] = c[1]
    BY <1>7, <2>3, OfIs DEF Watches
  <2>5. s.open[s.io[k].fd] = "ours"
    BY <1>4, <2>4 DEF Sources
  <2> QED BY <2>1, <2>4, <2>5
<1>8. \A c \in DOMAIN t.conns : t.conns[c].fd # Aim!None => t.open[t.conns[c].fd] = "ours"
  <2>1. ASSUME NEW c \in DOMAIN s.conns, s.conns[c].fd # Aim!None
        PROVE  s.open[s.conns[c].fd] = "ours"
    BY <1>7, <2>1
  <2> QED BY <1>3, <2>1
<1>9. \A c, d \in DOMAIN t.conns : t.conns[c].fd # Aim!None /\ t.conns[c].fd = t.conns[d].fd => c = d
  <2>1. ASSUME NEW c \in DOMAIN s.conns, NEW d \in DOMAIN s.conns, s.conns[c].fd # Aim!None,
               s.conns[c].fd = s.conns[d].fd
        PROVE  c = d
    <3>1. PICK k \in DOMAIN s.io : k[1] = c[1] /\ s.io[k].fd = s.conns[c].fd
      BY <1>7, <2>1
    <3>2. s.conns[d].fd # Aim!None
      BY <2>1
    <3>3. PICK j \in DOMAIN s.io : j[1] = d[1] /\ s.io[j].fd = s.conns[d].fd
      BY <1>7, <3>2
    <3>4. Live(s, c) /\ Live(s, d)
      BY <1>7, <2>1, <3>2
    <3>5. s.io[k].fd = s.io[j].fd
      BY <2>1, <3>1, <3>3
    <3>6. k = j
      BY <1>4, <3>5 DEF Sources
    <3>7. c[1] = d[1]
      BY <3>1, <3>3, <3>6
    <3> QED BY <3>4, <3>7 DEF Live
  <2> QED BY <1>3, <2>1
<1>10. t.past = {} => \A f \in Fds : t.open[f] = "ours" => \E c \in DOMAIN t.conns : t.conns[c].fd = f
  <2>1. ASSUME t.past = {}, NEW f \in Fds, s.open[f] = "ours"
        PROVE  \E c \in DOMAIN s.conns : s.conns[c].fd = f
    <3>1. s.past = {} /\ \A c \in DOMAIN s.conns : s.conns[c].fd # Aim!None
      BY <1>3, <2>1
    <3>2. PICK k \in DOMAIN s.io : s.io[k].fd = f
      BY <1>4, <2>1, <3>1 DEF Sources
    <3>3. PICK c \in DOMAIN s.conns : Live(s, c) /\ k \in {c, Aim!Of(c[1])}
      BY <1>4, <3>2 DEF Sources
    <3>4. Heard(s, c)
      BY <1>4, <3>3 DEF Sane
    <3>5. Watches(s, c, k)
      BY <3>2, <3>3, <3>4 DEF Heard
    <3>6. s.conns[c].fd = f
      BY <3>1, <3>2, <3>5 DEF Watches
    <3> QED BY <3>6
  <2> QED BY <1>3, <2>1
<1>11. Shutting(t)
  BY <1>5, <1>6, <1>8, <1>9, <1>10 DEF Shutting
<1> QED BY <1>3, <1>4, <1>11 DEF Unharmed

(* aim_session_kill: a connection is closed and freed, with its transfer   *)
(* if there is one.                                                        *)
LEMMA EndShuts ==
    ASSUME NEW s, NEW t, Shutting(s), s.open \in Users, NEW c \in DOMAIN s.conns, NEW J,
           NEW e \in Fds \cup {Aim!None}, e = s.conns[c].fd,
           (J = {c[1]} /\ Live(s, c)) \/ J = {},
           t.xfer = Minus(s.xfer, J), t.conns = Minus(s.conns, {c}),
           \A k \in DOMAIN t.io : k \in DOMAIN s.io /\ \A x \in J : k # Aim!Of(x),
           t.open = Closed(s.open, e), t.past = s.past
    PROVE  Shutting(t)
<1>1. Aim!Listed(t) = Aim!Listed(s) \ J /\ \A x \in Aim!Listed(t) : t.xfer[x] = s.xfer[x]
  BY DEF Minus, Aim!Listed
<1>2. DOMAIN t.conns = DOMAIN s.conns \ {c} /\ \A d \in DOMAIN t.conns : t.conns[d] = s.conns[d]
  BY DEF Minus
<1>3. Owned(t)
  <2>1. Owned(s)
    BY DEF Shutting
  <2>2. ASSUME NEW d \in DOMAIN t.conns PROVE Live(t, d) \/ Dead(t, d)
    <3>1. d \in DOMAIN s.conns /\ d # c /\ t.conns[d] = s.conns[d]
      BY <1>2
    <3>2. Live(s, d) \/ Dead(s, d)
      BY <2>1, <3>1 DEF Owned
    <3>3. ASSUME Dead(s, d) PROVE Dead(t, d)
      BY <1>1, <3>1, <3>3 DEF Dead
    <3>4. ASSUME Live(s, d) PROVE Live(t, d)
      <4>1. d[1] \notin J
        BY <3>1, <3>4 DEF Live
      <4>2. d[1] \in Aim!Listed(t) /\ t.xfer[d[1]] = s.xfer[d[1]]
        BY <1>1, <3>4, <4>1 DEF Live
      <4> QED BY <3>4, <4>2 DEF Live
    <3> QED BY <3>2, <3>3, <3>4
  <2>3. ASSUME NEW x \in Aim!Listed(t)
        PROVE  t.xfer[x].info /\ t.xfer[x].known /\ (t.xfer[x].conn # Aim!NULL => t.xfer[x].fp)
    BY <1>1, <2>1 DEF Owned
  <2> QED BY <2>2, <2>3 DEF Owned
<1>4. DOMAIN t.io \subseteq {Aim!Of(x) : x \in Aim!Listed(t)}
  <2>1. ASSUME NEW k \in DOMAIN t.io PROVE \E x \in Aim!Listed(t) : k = Aim!Of(x)
    <3>1. PICK x \in Aim!Listed(s) : k = Aim!Of(x)
      BY DEF Shutting
    <3>2. x \notin J
      BY <3>1
    <3> QED BY <1>1, <3>1, <3>2
  <2> QED BY <2>1
<1>5. ASSUME NEW f \in Fds PROVE t.open[f] = "ours" <=> s.open[f] = "ours" /\ f # e
  BY FdsA DEF Closed, Users
<1>6. ASSUME NEW d \in DOMAIN t.conns, t.conns[d].fd # Aim!None
      PROVE  t.open[t.conns[d].fd] = "ours"
  <2> DEFINE h == t.conns[d].fd
  <2>1. d \in DOMAIN s.conns /\ d # c /\ s.conns[d].fd = h
    BY <1>2
  <2>2. s.open[h] = "ours" /\ h # e
    BY <1>6, <2>1 DEF Shutting
  <2>3. h # e => Closed(s.open, e)[h] = s.open[h]
    BY DEF Closed, Users
  <2> HIDE DEF h
  <2>4. t.open[h] = "ours"
    BY <2>2, <2>3
  <2> QED BY <2>4 DEF h
<1>7. \A a, d \in DOMAIN t.conns : t.conns[a].fd # Aim!None /\ t.conns[a].fd = t.conns[d].fd => a = d
  BY <1>2 DEF Shutting
<1>8. t.past = {} => \A f \in Fds : t.open[f] = "ours" => \E d \in DOMAIN t.conns : t.conns[d].fd = f
  <2>1. ASSUME t.past = {}, NEW f \in Fds, t.open[f] = "ours"
        PROVE  \E d \in DOMAIN t.conns : t.conns[d].fd = f
    <3>1. s.open[f] = "ours" /\ f # e /\ s.past = {}
      BY <1>5, <2>1
    <3>2. PICK d \in DOMAIN s.conns : s.conns[d].fd = f
      BY <3>1 DEF Shutting
    <3> QED BY <1>2, <3>1, <3>2
  <2> QED BY <2>1
<1> QED BY <1>3, <1>4, <1>6, <1>7, <1>8 DEF Shutting

LEMMA KilledShuts ==
    ASSUME NEW X, NEW s \in AimSt(X), Unharmed(s), Shutting(s), NEW c \in DOMAIN s.conns
    PROVE  Unharmed(Aim!Killed(s, c)) /\ Shutting(Aim!Killed(s, c))
<1> DEFINE t == Aim!Killed(s, c)
           x == c[1]
           e == s.conns[c].fd
<1>1. e \in Fds \cup {Aim!None} /\ s.open \in Users /\ c \in Names(X) /\ c[1] = x
  BY StFields, ConnsAre
<1>2. e = Aim!None \/ s.open[e] # "other"
  BY DEF Shutting
<1>3. Live(s, c) \/ Dead(s, c)
  BY DEF Shutting, Owned
<1>4. CASE "dead" \in s.conns[c].handlers
  <2>1. Live(s, c)
    BY <1>3, <1>4 DEF Dead
  <2>2. c[1] \in Aim!Listed(s) /\ s.xfer[c[1]].conn = c /\ s.xfer[c[1]].info /\ s.xfer[c[1]].known
    BY <2>1 DEF Live, Shutting, Owned
  <2>3. Fields(t) = <<Minus(s.xfer, {x}), Minus(s.conns, {c}), Minus(s.io, {Aim!Of(x), c}),
                      Closed(s.open, e), s.harm, s.past>>
    BY <1>2, <1>4, <2>2, KilledIs
  <2> HIDE DEF t, e, x
  <2>4. /\ t.xfer = Minus(s.xfer, {x}) /\ t.conns = Minus(s.conns, {c}) /\ t.io = Minus(s.io, {Aim!Of(x), c})
        /\ t.open = Closed(s.open, e) /\ t.harm = s.harm /\ t.past = s.past
    BY <2>3 DEF Fields
  <2>5. \A k \in DOMAIN t.io : k \in DOMAIN s.io /\ k # Aim!Of(x)
    BY <2>4 DEF Minus
  <2>6. Shutting(t)
    <3> DEFINE J == {x}
    <3>1. t.xfer = Minus(s.xfer, J) /\ J = {c[1]} /\ \A k \in DOMAIN t.io : k \in DOMAIN s.io /\ \A y \in J : k # Aim!Of(y)
      BY <1>1, <2>4, <2>5
    <3>2. e = s.conns[c].fd
      BY DEF e
    <3> HIDE DEF J
    <3> QED BY <1>1, <2>1, <2>4, <3>1, <3>2, EndShuts
  <2>7. Unharmed(t)
    BY <2>4 DEF Unharmed
  <2> QED BY <2>6, <2>7 DEF t
<1>5. CASE "dead" \notin s.conns[c].handlers
  <2>1. Fields(t) = <<s.xfer, Minus(s.conns, {c}), s.io, Closed(s.open, e), s.harm, s.past>>
    BY <1>2, <1>5, KilledPlain
  <2> HIDE DEF t, e, x
  <2>2. /\ t.xfer = s.xfer /\ t.conns = Minus(s.conns, {c}) /\ t.io = s.io
        /\ t.open = Closed(s.open, e) /\ t.harm = s.harm /\ t.past = s.past
    BY <2>1 DEF Fields
  <2>3. s.xfer = Minus(s.xfer, {})
    <3>1. s.xfer \in Tables(X, AimXfer(X))
      BY StFields, XfersAre
    <3>2. s.xfer = [k \in DOMAIN s.xfer |-> s.xfer[k]]
      BY <3>1, TablesAre
    <3> QED BY <3>2 DEF Minus
  <2>4. Shutting(t)
    <3> DEFINE J == {}
    <3>1. t.xfer = Minus(s.xfer, J) /\ J = {} /\ \A k \in DOMAIN t.io : k \in DOMAIN s.io /\ \A y \in J : k # Aim!Of(y)
      BY <2>2, <2>3
    <3>2. e = s.conns[c].fd
      BY DEF e
    <3> HIDE DEF J
    <3> QED BY <1>1, <2>2, <3>1, <3>2, EndShuts
  <2>5. Unharmed(t)
    BY <2>2 DEF Unharmed
  <2> QED BY <2>4, <2>5 DEF t
<1> QED BY <1>4, <1>5

(* aim_setup, when nothing is left.                                        *)
LEMMA ShutIsSane ==
    ASSUME NEW X, NEW s \in AimSt(X), Shutting(s), DOMAIN s.conns = {}, Aim!Listed(s) = {}
    PROVE  Sane(s)
<1>1. DOMAIN s.io = {}
  BY DEF Shutting
<1>2. Owned(s) /\ Sources(s)
  BY <1>1 DEF Shutting, Sources
<1> QED BY <1>2 DEF Sane

Quiet ==
    Calm(st) /\ sess # "gone" =>
       /\ Unharmed(st)
       /\ sess \in {"up", "lost"} => Sane(st)
       /\ sess \in {"losing", "going"} => Shutting(st)
       /\ sess = "lost" => Aim!Listed(st) = {} /\ DOMAIN st.conns = {}

(* A session that is lost without more has nothing that is watched.        *)
LEMMA LostIsQuiet ==
    ASSUME Typed, Quiet, Calm(st), sess = "lost"
    PROVE  DOMAIN st.io = {} /\ Aim!Listed(st) = {} /\ DOMAIN st.conns = {} /\ Right(st)
<1>1. Sane(st) /\ Unharmed(st) /\ Aim!Listed(st) = {} /\ DOMAIN st.conns = {}
  BY DEF Quiet
<1>2. DOMAIN st.io = {}
  BY <1>1 DEF Sane, Sources
<1> QED BY <1>1, <1>2 DEF Right

LEMMA FineIsQuiet ==
    ASSUME sess' = "up", Calm(st') => Right(st')
    PROVE  Quiet'
BY DEF Quiet, Right

(* What is watched is there.                                               *)
LEMMA CallbackQuiet ==
    ASSUME Typed, Quiet, Grows, NEW key, NEW cb, NEW S, Aim!Callback(key, cb, S),
           ASSUME key \in DOMAIN st.io, key \in Aim!Keys(st), st.io[key].callback = cb, Right(st), st' \in S, Calm(st')
           PROVE  Right(st')
    PROVE  Quiet'
<1>1. /\ key \in DOMAIN st.io /\ st.io[key].callback = cb /\ sess \notin {"losing", "going"} /\ sess' = sess
      /\ sess = "gone" \/ key \notin Aim!Keys(st) \/ st' \in S
  BY DEF Aim!Callback, Aim!Calls, Aim!Becomes, Aim!Keeps
<1>2. CASE ~Calm(st') \/ sess' = "gone"
  BY <1>2 DEF Quiet
<1>3. CASE Calm(st') /\ sess' # "gone"
  <2>1. Calm(st) /\ sess # "gone" /\ sess \in {"up", "lost"}
    BY <1>1, <1>3 DEF Calm, Grows, Typed
  <2>2. Right(st)
    BY <2>1 DEF Quiet, Right
  <2>3. st \in AimSt(Made)
    BY DEF Typed
  <2>4. key \in Aim!Keys(st)
    <3>1. LET x == key[1]
              c == st.xfer[x].conn
          IN  x \in Aim!Listed(st) /\ c \in DOMAIN st.conns /\ key \in {c, Aim!Of(x)}
      BY <1>1, <2>2, <2>3, KeyIs DEF Right
    <3> QED BY <3>1 DEF Aim!Keys
  <2>5. sess = "up"
    BY <1>1, <2>1, LostIsQuiet
  <2>6. Right(st')
    BY <1>1, <1>3, <2>1, <2>2, <2>4
  <2> QED BY <1>1, <2>5, <2>6, FineIsQuiet
<1> QED BY <1>2, <1>3

LEMMA ListeningQuiet ==
    ASSUME Typed, Quiet, Grows, NEW x \in Nat, Aim!Listening(<<x, "listener">>)
    PROVE  Quiet'
<1> DEFINE c == <<x, "listener">>
           S == Aim!aim_listen_conn_event(st, c, st.io[c].fd)
<1>1. Aim!Callback(c, "listening", S)
  BY DEF Aim!Listening
<1>2. c[1] = x /\ c[2] = "listener" /\ "listener" \in Aim!Hows
  BY DEF Aim!Hows
<1>3. ASSUME c \in DOMAIN st.io, c \in Aim!Keys(st), st.io[c].callback = "listening", Right(st), st' \in S, Calm(st')
      PROVE  Right(st')
  <2>1. st \in AimSt(Made)
    BY DEF Typed
  <2>2. x \in Made
    <3> HIDE DEF c
    <3> QED BY <1>2, <1>3, <2>1, CalledIs
  <2>3. c \in DOMAIN st.conns
    BY <1>2, <1>3, <2>1, <2>2, KeysAre
  <2> HIDE DEF c
  <2> QED BY <1>2, <1>3, <2>1, <2>3, ListeningFine
<1> HIDE DEF c, S
<1> QED BY <1>1, <1>3, CallbackQuiet

LEMMA DiallingQuiet ==
    ASSUME Typed, Quiet, Grows, NEW x \in Nat, NEW how \in {"dialled", "redialled"}, Aim!Dialling(<<x, how>>)
    PROVE  Quiet'
<1> DEFINE c == <<x, how>>
           S == Aim!aim_connected(st, c, st.io[c].fd)
<1>1. Aim!Callback(c, "connected", S)
  BY DEF Aim!Dialling
<1>2. c[1] = x /\ how \in Aim!Hows
  BY DEF Aim!Hows
<1>3. ASSUME c \in DOMAIN st.io, c \in Aim!Keys(st), st.io[c].callback = "connected", Right(st), st' \in S, Calm(st')
      PROVE  Right(st')
  <2>1. st \in AimSt(Made)
    BY DEF Typed
  <2>2. x \in Made
    <3> HIDE DEF c
    <3> QED BY <1>2, <1>3, <2>1, CalledIs
  <2>3. c \in DOMAIN st.conns
    BY <1>2, <1>3, <2>1, <2>2, KeysAre
  <2> HIDE DEF c
  <2> QED BY <1>3, <2>1, <2>3, DiallingFine
<1> HIDE DEF c, S
<1> QED BY <1>1, <1>3, CallbackQuiet

LEMMA ShakingQuiet ==
    ASSUME Typed, Quiet, Grows, NEW x \in Nat, NEW how \in Aim!Hows, Aim!Shaking(<<x, how>>)
    PROVE  Quiet'
<1> DEFINE c == <<x, how>>
           S == Aim!aim_conn_event(st, c)
<1>1. Aim!Callback(c, "event", S)
  BY DEF Aim!Shaking
<1>2. c[1] = x
  OBVIOUS
<1>3. ASSUME c \in DOMAIN st.io, c \in Aim!Keys(st), st.io[c].callback = "event", Right(st), st' \in S, Calm(st')
      PROVE  Right(st')
  <2>1. st \in AimSt(Made)
    BY DEF Typed
  <2>2. x \in Made
    <3> HIDE DEF c
    <3> QED BY <1>2, <1>3, <2>1, CalledIs
  <2>3. c \in DOMAIN st.conns
    BY <1>2, <1>3, <2>1, <2>2, KeysAre
  <2> HIDE DEF c
  <2> QED BY <1>3, <2>1, <2>3, ShakingFine
<1> HIDE DEF c, S
<1> QED BY <1>1, <1>3, CallbackQuiet

LEMMA SendingQuiet ==
    ASSUME Typed, Quiet, Grows, NEW x \in Nat, Aim!Sending(x) \/ Aim!Receiving(x)
    PROVE  Quiet'
<1> DEFINE k == Aim!Of(x)
<1>1. st \in AimSt(Made)
  BY DEF Typed
<1>2. CASE Aim!Sending(x)
  <2> DEFINE S == Aim!transfer_send_data(st, x)
  <2>1. Aim!Callback(k, "send_data", S)
    BY <1>2 DEF Aim!Sending
  <2>2. ASSUME k \in DOMAIN st.io, k \in Aim!Keys(st), st.io[k].callback = "send_data", Right(st), st' \in S, Calm(st')
        PROVE  Right(st')
    BY <1>1, <2>2, SendingFine
  <2> HIDE DEF k, S
  <2> QED BY <2>1, <2>2, CallbackQuiet
<1>3. CASE Aim!Receiving(x)
  <2> DEFINE S == Aim!transfer_recv_data(st, x)
  <2>1. Aim!Callback(k, "recv_data", S)
    BY <1>3 DEF Aim!Receiving
  <2>2. ASSUME k \in DOMAIN st.io, k \in Aim!Keys(st), st.io[k].callback = "recv_data", Right(st), st' \in S, Calm(st')
        PROVE  Right(st')
    BY <1>1, <2>2, ReceivingFine
  <2> HIDE DEF k, S
  <2> QED BY <2>1, <2>2, CallbackQuiet
<1> QED BY <1>2, <1>3

(* A command, which finds nothing in a session that is lost without more.  *)
LEMMA CommandQuiet ==
    ASSUME Typed, Quiet, Grows, Aim!Commands, sess' = sess,
           ASSUME Right(st), Calm(st'), sess = "up" PROVE Right(st'),
           ASSUME Right(st), Calm(st'), sess = "lost", Aim!Listed(st) = {}, DOMAIN st.conns = {} PROVE FALSE
    PROVE  Quiet'
<1>1. CASE ~Calm(st')
  BY <1>1 DEF Quiet
<1>2. CASE Calm(st')
  <2>1. Calm(st) /\ sess \in {"up", "lost"}
    BY <1>2 DEF Calm, Grows, Aim!Commands
  <2>2. Right(st)
    BY <2>1 DEF Quiet, Right
  <2>3. sess = "up"
    BY <1>2, <2>1, <2>2, LostIsQuiet
  <2>4. Right(st')
    BY <1>2, <2>2, <2>3
  <2> QED BY <2>3, <2>4, FineIsQuiet
<1> QED BY <1>1, <1>2

LEMMA GetQuiet ==
    ASSUME Typed, Quiet, Grows, NEW x \in Nat, Aim!Get(x)
    PROVE  Quiet'
<1>1. x \in Aim!Listed(st) /\ st \in AimSt(Made) /\ Aim!Commands /\ sess' = sess
  BY DEF Aim!Get, Typed, Aim!Keeps
<1>2. PICK r \in Aim!transfer_get(st, x) : st' = IF st.xfer[x].conn = Aim!NULL THEN r ELSE Aim!Past(r, "again")
  BY DEF Aim!Get, Aim!Becomes
<1>3. ASSUME Right(st), Calm(st') PROVE Right(st')
  <2>1. CASE st.xfer[x].conn = Aim!NULL
    <3>1. st' = r
      BY <1>2, <2>1
    <3> QED BY <1>1, <1>3, <2>1, <3>1, GetFine
  <2>2. CASE st.xfer[x].conn # Aim!NULL
    <3>1. st' = Aim!Past(r, "again") /\ <<x, "redialled">> \notin DOMAIN st.conns
      BY <1>2, <2>2 DEF Aim!Get
    <3>2. r \in AimSt(Made)
      BY <1>1, <3>1, GetIs
    <3>3. "again" \in st'.past
      BY <3>1, <3>2, PastIs DEF Fields
    <3> QED BY <1>3, <3>3 DEF Calm
  <2> QED BY <2>1, <2>2
<1> QED BY <1>1, <1>3, CommandQuiet

LEMMA CancelQuiet ==
    ASSUME Typed, Quiet, Grows, NEW x \in Nat, Aim!Cancel(x)
    PROVE  Quiet'
<1>1. x \in Aim!Listed(st) /\ st \in AimSt(Made) /\ Aim!Commands /\ sess' = sess
      /\ st' = Aim!transfer_abort(Aim!Midway(st, {st.xfer[x].conn}), x)
  BY DEF Aim!Cancel, Typed, Aim!Keeps, Aim!Becomes
<1>2. ASSUME Right(st) PROVE Right(st')
  BY <1>1, <1>2, CancelFine
<1> QED BY <1>1, <1>2, CommandQuiet

LEMMA BeginQuiet ==
    ASSUME Typed, Quiet, Grows, Aim!transfer_send \/ Aim!parse_im_chan2
    PROVE  Quiet'
<1> DEFINE x == aim_refnum
           Y == 0 .. x
<1>1. x \in Nat /\ st \in AimSt(Made) /\ Aim!Commands /\ sess' = sess
  BY DEF Aim!transfer_send, Aim!parse_im_chan2, Aim!NewRefnum, Typed
<1>2. Made \subseteq Y /\ x \in Y /\ x \notin Made
  BY <1>1 DEF Made
<1> HIDE DEF x, Y
<1>3. CASE Aim!parse_im_chan2
  <2>1. PICK len \in (Lens \ {1}) : st' = Aim!aim_oft_createinfo(Aim!transfer_new(st, x, "recv", len), x)
    BY <1>3 DEF Aim!parse_im_chan2, Aim!Becomes, x
  <2>2. len \in Int /\ sess = "up"
    BY <1>3, BoundsA DEF Aim!parse_im_chan2
  <2>3. ASSUME Right(st) PROVE Right(st')
    BY <1>1, <1>2, <2>1, <2>2, <2>3, OfferFine
  <2> QED BY <1>1, <2>2, <2>3, CommandQuiet
<1>4. CASE Aim!transfer_send
  <2>1. PICK len \in (Lens \ {1}) :
           st' \in IF sess = "up" THEN Aim!aim_file_send(Aim!transfer_new(st, x, "send", len), x)
                   ELSE {Aim!Past(Aim!Harm(Aim!transfer_new(st, x, "send", len), "freed"), "offline")}
    BY <1>4 DEF Aim!transfer_send, Aim!Becomes, x
  <2>2. len \in Int
    BY BoundsA
  <2>3. ASSUME Right(st), sess = "up" PROVE Right(st')
    <3>1. st' \in Aim!aim_file_send(Aim!transfer_new(st, x, "send", len), x)
      BY <2>1, <2>3
    <3> QED BY <1>1, <1>2, <2>2, <2>3, <3>1, BeginFine
  <2>4. ASSUME Calm(st'), sess = "lost" PROVE FALSE
    <3> DEFINE s == Aim!transfer_new(st, x, "send", len)
               h == Aim!Harm(s, "freed")
    <3>1. st' = Aim!Past(h, "offline")
      BY <2>1, <2>4
    <3>2. st \in AimSt(Y)
      BY <1>1, <1>2, AimStGrows
    <3>3. s \in AimSt(Y)
      BY <1>2, <2>2, <3>2, NewIs
    <3> HIDE DEF s
    <3>4. h \in AimSt(Y)
      BY <3>3, HarmIs
    <3> HIDE DEF h
    <3>5. "offline" \in st'.past
      BY <3>1, <3>4, PastIs DEF Fields
    <3> QED BY <2>4, <3>5 DEF Calm
  <2> QED BY <1>1, <2>3, <2>4, CommandQuiet
<1> QED BY <1>3, <1>4

LEMMA OthersQuiet ==
    ASSUME Typed, Quiet, Grows, Aim!Others
    PROVE  Quiet'
<1>1. PICK f \in Fds : /\ st.open[f] \in {"closed", "other"}
                       /\ st' = [st EXCEPT !.open[f] = IF @ = "closed" THEN "other" ELSE "closed"]
  BY DEF Aim!Others, Aim!Becomes
<1>2. sess \notin {"losing", "going"} /\ sess' = sess /\ st \in AimSt(Made)
  BY DEF Aim!Others, Aim!Keeps, Typed
<1>3. ASSUME Calm(st'), sess' # "gone" PROVE Right(st') /\ (sess' = "lost" => Aim!Listed(st') = {} /\ DOMAIN st'.conns = {})
  <2>1. Calm(st) /\ sess \in {"up", "lost"}
    BY <1>2, <1>3 DEF Calm, Grows, Typed
  <2>2. Right(st)
    BY <2>1 DEF Quiet, Right
  <2>3. Right(st')
    BY <1>1, <1>2, <2>2, OthersFine
  <2>4. st'.xfer = st.xfer /\ st'.conns = st.conns
    BY <1>1, <1>2, OthersIs DEF Fields
  <2>5. sess = "lost" => Aim!Listed(st) = {} /\ DOMAIN st.conns = {}
    BY <2>1 DEF Quiet
  <2> QED BY <1>2, <2>3, <2>4, <2>5 DEF Aim!Listed
<1> QED BY <1>2, <1>3 DEF Quiet, Right

LEMMA KillQuiet ==
    ASSUME Typed, Quiet, Grows, Aim!Lost \/ Aim!pork_acct_free
    PROVE  Quiet'
<1>1. /\ sess \in {"up", "lost"} /\ sess' \in {"losing", "going"} /\ st \in AimSt(Made)
      /\ st' = Aim!Unwatched(Aim!Midway(st, DOMAIN st.conns))
  BY DEF Aim!Lost, Aim!pork_acct_free, Aim!Commands, Aim!aim_kill_all_conn, Aim!Becomes, Typed
<1>2. ASSUME Calm(st') PROVE Unharmed(st') /\ Shutting(st')
  <2>1. Calm(st)
    BY <1>2 DEF Calm, Grows
  <2>2. Right(st)
    BY <1>1, <2>1 DEF Quiet, Right
  <2> QED BY <1>1, <2>2, ShuttingBegins
<1> QED BY <1>1, <1>2 DEF Quiet

LEMMA ConnrstQuiet ==
    ASSUME Typed, Quiet, Grows, NEW c, Aim!aim_connrst(c)
    PROVE  Quiet'
<1>1. /\ c \in DOMAIN st.conns /\ st' = Aim!Killed(st, c) /\ sess \in {"losing", "going"} /\ sess' = sess
      /\ st \in AimSt(Made)
  BY DEF Aim!aim_connrst, Aim!Becomes, Aim!Keeps, Typed
<1>2. ASSUME Calm(st') PROVE Unharmed(st') /\ Shutting(st')
  <2>1. Calm(st)
    BY <1>2 DEF Calm, Grows
  <2>2. Unharmed(st) /\ Shutting(st)
    BY <1>1, <2>1 DEF Quiet
  <2> QED BY <1>1, <2>2, KilledShuts
<1> QED BY <1>1, <1>2 DEF Quiet

LEMMA SetupQuiet ==
    ASSUME Typed, Quiet, Grows, Aim!aim_setup
    PROVE  Quiet'
<1>1. /\ sess \in {"losing", "going"} /\ sess' \in {"lost", "gone"} /\ st \in AimSt(Made)
      /\ DOMAIN st.conns = {} /\ st' = Aim!Forgotten(st)
  BY DEF Aim!aim_setup, Aim!Becomes, Typed
<1>2. ASSUME Calm(st') PROVE Unharmed(st') /\ Sane(st') /\ Aim!Listed(st') = {} /\ DOMAIN st'.conns = {}
  <2>1. st' = st /\ Aim!Listed(st) = {}
    BY <1>1, <1>2, ForgottenIs
  <2>2. Unharmed(st) /\ Shutting(st)
    BY <1>1, <1>2, <2>1 DEF Quiet
  <2>3. Sane(st)
    BY <1>1, <2>1, <2>2, ShutIsSane
  <2> QED BY <1>1, <2>1, <2>2, <2>3
<1> QED BY <1>1, <1>2 DEF Quiet

LEMMA NextQuiet ==
    ASSUME Typed, Known, Quiet, [Aim!Next]_aimVars
    PROVE  Quiet'
<1>0. Grows
  BY NextKeeps
<1>1. CASE UNCHANGED aimVars
  BY <1>1 DEF aimVars, Quiet
<1>2. CASE Aim!Again
  <2>1. sess = "lost" /\ sess' = "up" /\ st' = st
    BY <1>2 DEF Aim!Again
  <2> QED BY <2>1 DEF Quiet
<1>3. CASE Aim!transfer_send \/ Aim!parse_im_chan2
  BY <1>0, <1>3, BeginQuiet
<1>4. CASE Aim!Lost \/ Aim!pork_acct_free
  BY <1>0, <1>4, KillQuiet
<1>5. CASE Aim!aim_setup
  BY <1>0, <1>5, SetupQuiet
<1>6. CASE Aim!Others
  BY <1>0, <1>6, OthersQuiet
<1>7. ASSUME NEW x \in Aim!Xfers, Aim!Get(x) PROVE Quiet'
  BY <1>0, <1>7, GetQuiet DEF Aim!Xfers
<1>8. ASSUME NEW x \in Aim!Xfers, Aim!Cancel(x) PROVE Quiet'
  BY <1>0, <1>8, CancelQuiet DEF Aim!Xfers
<1>9. ASSUME NEW x \in Aim!Xfers, Aim!Sending(x) \/ Aim!Receiving(x) PROVE Quiet'
  BY <1>0, <1>9, SendingQuiet DEF Aim!Xfers
<1>10. ASSUME NEW x \in Aim!Xfers, Aim!Listening(<<x, "listener">>) PROVE Quiet'
  BY <1>0, <1>10, ListeningQuiet DEF Aim!Xfers
<1>11. ASSUME NEW x \in Aim!Xfers, NEW how \in Aim!Hows, Aim!Shaking(<<x, how>>) PROVE Quiet'
  BY <1>0, <1>11, ShakingQuiet DEF Aim!Xfers
<1>12. ASSUME NEW x \in Aim!Xfers, NEW how \in {"dialled", "redialled"}, Aim!Dialling(<<x, how>>)
       PROVE  Quiet'
  <2>1. x \in Nat
    BY DEF Aim!Xfers
  <2> QED BY <1>0, <1>12, <2>1, DiallingQuiet
<1>13. ASSUME NEW c, Aim!aim_connrst(c) PROVE Quiet'
  BY <1>0, <1>13, ConnrstQuiet
<1>14. "accepted" \in Aim!Hows /\ "dialled" \in Aim!Hows /\ "redialled" \in Aim!Hows
  BY DEF Aim!Hows
<1> QED BY <1>1, <1>2, <1>3, <1>4, <1>5, <1>6, <1>7, <1>8, <1>9, <1>10, <1>11, <1>12, <1>13, <1>14 DEF Aim!Next

AimInv == Typed /\ Known /\ Quiet

LEMMA InitIs == Aim!Init => AimInv
<1> SUFFICES ASSUME Aim!Init PROVE AimInv
  OBVIOUS
<1> DEFINE e == [k \in {} |-> 0]
<1>1. /\ st.xfer = e /\ st.conns = e /\ st.io = e /\ st.open = [f \in Fds |-> "closed"]
      /\ st.harm = {} /\ st.past = {} /\ sess = "up" /\ aim_refnum = 0
  BY DEF Aim!Init
<1>2. DOMAIN e = {} /\ \A K, S : e \in Tables(K, S)
  <2>1. DOMAIN e = {} /\ \A S : e \in [DOMAIN e -> S]
    OBVIOUS
  <2> HIDE DEF e
  <2> QED BY <2>1, TablesAre
<1>3. st = [xfer |-> e, conns |-> e, io |-> e, open |-> [f \in Fds |-> "closed"], harm |-> {}, past |-> {}]
  BY DEF Aim!Init
<1>4. Typed
  <2>1. 0 \in Nat /\ 0 <= MaxXfers
    BY BoundsA
  <2> DEFINE o == [f \in Fds |-> "closed"]
  <2>2. o \in Users
    BY DEF Users
  <2>3. {} \in Harms /\ {} \in Pasts
    BY DEF Harms, Pasts
  <2> HIDE DEF e, o
  <2>4. e \in AimXfers(Made) /\ e \in AimConns(Made) /\ e \in AimSrcs(Made)
    BY <1>2 DEF AimXfers, AimConns, AimSrcs
  <2>5. st \in AimSt(Made)
    <3>1. st = [xfer |-> e, conns |-> e, io |-> e, open |-> o, harm |-> {}, past |-> {}]
      BY <1>3 DEF o
    <3> QED BY <2>2, <2>3, <2>4, <3>1 DEF AimSt
  <2> QED BY <1>1, <2>1, <2>5 DEF Typed
<1> HIDE DEF e
<1>5. Aim!Listed(st) = {} /\ DOMAIN st.conns = {} /\ DOMAIN st.io = {} /\ Unharmed(st)
  BY <1>1, <1>2 DEF Aim!Listed, Unharmed
<1>6. Known
  BY <1>1, <1>5 DEF Known, Marked
<1>7. Quiet
  <2>1. \A f \in Fds : st.open[f] = "closed"
    BY <1>1
  <2>2. Owned(st) /\ Sources(st)
    BY <1>5, <2>1 DEF Owned, Sources
  <2>3. Sane(st)
    BY <1>5, <2>2 DEF Sane
  <2> QED BY <1>1, <1>5, <2>3 DEF Quiet
<1> QED BY <1>4, <1>6, <1>7 DEF AimInv

LEMMA InvIsSound == AimInv => Aim!AimTransfersSound
<1> SUFFICES ASSUME AimInv PROVE Aim!AimTransfersSound
  OBVIOUS
<1>1. Typed /\ Known /\ Quiet /\ st \in AimSt(Made)
  BY DEF AimInv, Typed
<1>2. Aim!PointersAgree
  <2> SUFFICES ASSUME st.past = {}, st.harm = {}, sess = "up"
               PROVE  /\ DOMAIN st.io \subseteq Aim!Keys(st)
                      /\ \A f \in Fds : st.open[f] = "ours" => \E k \in DOMAIN st.io : st.io[k].fd = f
                      /\ \A j, k \in DOMAIN st.io : st.io[j].fd = st.io[k].fd => j = k
                      /\ \A c \in DOMAIN st.conns : c[1] \in Aim!Listed(st) /\ st.xfer[c[1]].conn = c
                      /\ \A x \in Aim!Listed(st) : st.xfer[x].conn \in DOMAIN st.conns \cup {Aim!NULL}
    BY DEF Aim!PointersAgree
  <2>1. Sane(st)
    BY <1>1 DEF Quiet, Calm
  <2>2. ASSUME NEW k \in DOMAIN st.io PROVE k \in Aim!Keys(st)
    <3>1. LET x == k[1]
              c == st.xfer[x].conn
          IN  x \in Aim!Listed(st) /\ c \in DOMAIN st.conns /\ k \in {c, Aim!Of(x)}
      BY <1>1, <2>1, KeyIs
    <3> QED BY <3>1 DEF Aim!Keys
  <2>3. /\ \A f \in Fds : st.open[f] = "ours" => \E k \in DOMAIN st.io : st.io[k].fd = f
        /\ \A j, k \in DOMAIN st.io : st.io[j].fd = st.io[k].fd => j = k
    BY <2>1 DEF Sane, Sources
  <2>4. ASSUME NEW c \in DOMAIN st.conns PROVE c[1] \in Aim!Listed(st) /\ st.xfer[c[1]].conn = c
    BY <2>1 DEF Sane, Owned, Live, Dead
  <2>5. \A x \in Aim!Listed(st) : st.xfer[x].conn \in DOMAIN st.conns \cup {Aim!NULL}
    BY <2>1 DEF Sane
  <2> QED BY <2>2, <2>3, <2>4, <2>5
<1>3. Aim!KnownHarm
  <2>1. st.past \in Pasts
    BY <1>1, StFields
  <2>2. ASSUME st.past \cap {"again", "offline", "refused", "vanished", "noname", "lost"} = {}
        PROVE  Calm(st)
    BY <2>1, <2>2 DEF Calm, Pasts
  <2> QED BY <1>1, <2>2 DEF Aim!KnownHarm, Quiet, Unharmed
<1>4. Aim!LostWithSession
  <2> SUFFICES ASSUME sess = "lost", st.past \subseteq {"lost", "midway"}, st.harm = {}
               PROVE  /\ DOMAIN st.conns \subseteq {<<x, "dialled">> : x \in Aim!Xfers}
                      /\ \A x \in Aim!Listed(st) :
                            \/ st.xfer[x].status = "WAITING"
                            \/ st.xfer[x].type = "recv"
    BY DEF Aim!LostWithSession
  <2>1. Alone(st)
    BY <1>1 DEF Known, Usual, Unharmed
  <2>2. ASSUME NEW c \in DOMAIN st.conns PROVE \E x \in Aim!Xfers : c = <<x, "dialled">>
    <3>1. c \in Names(Made)
      BY <1>1, StFields, ConnsAre
    <3>2. c = <<c[1], c[2]>> /\ c[1] \in Made
      BY <3>1, NamesAre
    <3>3. c[2] = "dialled"
      BY <2>1 DEF Alone
    <3>4. Made \subseteq Aim!Xfers
      BY <1>1, BoundsA DEF Typed, Made, Aim!Xfers
    <3> QED BY <3>2, <3>3, <3>4
  <2> QED BY <2>1, <2>2 DEF Alone
<1> QED BY <1>2, <1>3, <1>4 DEF Aim!AimTransfersSound

LEMMA InvIsKept == AimInv /\ [Aim!Next]_aimVars => AimInv'
BY NextKeeps, NextQuiet DEF AimInv

(* A behaviour of both accounts is one of this.                            *)
BothInv == part \in {"dcc", "aim"} /\ (part = "aim" => AimInv)

LEMMA AimSteps ==
    ASSUME MCNext
    PROVE  part' = part /\ (part = "aim" => Aim!Next)
<1>1. Xfers = Aim!Xfers
  BY DEF Xfers, Aim!Xfers
<1> QED BY <1>1 DEF MCNext, OnIrc, OnAim, Aim!Next

LEMMA BothIsKept == BothInv /\ [MCNext]_<<part, vars, aimVars>> => BothInv'
<1> SUFFICES ASSUME BothInv, [MCNext]_<<part, vars, aimVars>> PROVE BothInv'
  OBVIOUS
<1>1. CASE MCNext
  <2>1. part' = part /\ (part = "aim" => Aim!Next)
    BY <1>1, AimSteps
  <2>2. part = "aim" => AimInv'
    BY <2>1, InvIsKept DEF BothInv
  <2> QED BY <2>1, <2>2 DEF BothInv
<1>2. CASE UNCHANGED <<part, vars, aimVars>>
  <2>1. part' = part /\ UNCHANGED aimVars
    BY <1>2
  <2>2. part = "aim" => AimInv'
    BY <2>1, InvIsKept DEF BothInv
  <2> QED BY <2>1, <2>2 DEF BothInv
<1> QED BY <1>1, <1>2

(* The sources, the connections and the transfers of an AIM account point  *)
(* to each other as long as nothing out of the ordinary has happened; what *)
(* was freed is used, or a descriptor of another part of the program is    *)
(* closed, only after one of the six things that KnownHarm names; and a    *)
(* session that is lost takes its transfers with it (aim_file_abort,       *)
(* aim_file_transfer_dead, aim_kill_all_conn).                             *)
THEOREM AimTransfersAgree == MCSpec => []AimTransfersSound
<1>1. MCInit => BothInv
  BY InitIs DEF MCInit, BothInv
<1>2. BothInv /\ [MCNext]_<<part, vars, aimVars>> => BothInv'
  BY BothIsKept
<1>3. BothInv => AimTransfersSound
  BY InvIsSound DEF BothInv, AimTransfersSound
<1> QED BY <1>1, <1>2, <1>3, PTL DEF MCSpec
=============================================================================
