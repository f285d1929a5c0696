-------------------------- MODULE Callbacks_proofs ---------------------------
(***************************************************************************)
(* Theorems of PorkEvents, for any accounts, types of event and handlers,  *)
(* and however deep events are nested; and then of PorkTimer.              *)
(***************************************************************************)
EXTENDS Callbacks, FiniteSetTheorems, SequenceTheorems, WellFoundedInduction,
        TLAPS

(* Elements that are taken out of a sequence, or put at its end.           *)
LEMMA RemoveAtElements ==
    ASSUME NEW S, NEW s \in Seq(S), NEW i \in 1 .. Len(s)
    PROVE  /\ RemoveAt(s, i) \in Seq(S)
           /\ Len(RemoveAt(s, i)) = Len(s) - 1
           /\ \A j \in 1 .. Len(s) - 1 :
                 RemoveAt(s, i)[j] = IF j < i THEN s[j] ELSE s[j + 1]
<1> DEFINE front == SubSeq(s, 1, i - 1)
           back  == SubSeq(s, i + 1, Len(s))
<1>1. /\ front \in Seq(S) /\ Len(front) = i - 1
      /\ \A j \in 1 .. i - 1 : front[j] = s[j]
  BY SubSeqProperties
<1>2. /\ back \in Seq(S) /\ Len(back) = Len(s) - i
      /\ \A j \in 1 .. Len(s) - i : back[j] = s[j + i]
  BY SubSeqProperties
<1>3. /\ front \o back \in Seq(S) /\ Len(front \o back) = Len(s) - 1
      /\ \A j \in 1 .. Len(s) - 1 :
            (front \o back)[j] = IF j <= i - 1 THEN front[j] ELSE back[j - (i - 1)]
  <2> HIDE DEF front, back
  <2> QED BY <1>1, <1>2, ConcatProperties
<1>4. ASSUME NEW j \in 1 .. Len(s) - 1
      PROVE  (front \o back)[j] = IF j < i THEN s[j] ELSE s[j + 1]
  <2> HIDE DEF front, back
  <2>1. CASE j < i
    BY <2>1, <1>1, <1>3
  <2>2. CASE ~(j < i)
    <3>1. j - (i - 1) \in 1 .. Len(s) - i /\ (j - (i - 1)) + i = j + 1
      BY <2>2
    <3> QED BY <2>2, <3>1, <1>2, <1>3
  <2> QED BY <2>1, <2>2
<1> QED BY <1>3, <1>4 DEF RemoveAt

LEMMA FrontElements ==
    ASSUME NEW S, NEW s \in Seq(S), s # <<>>
    PROVE  /\ Front(s) \in Seq(S) /\ Len(Front(s)) = Len(s) - 1
           /\ \A j \in 1 .. Len(s) - 1 : Front(s)[j] = s[j]
           /\ Last(s) \in S /\ Len(s) \in Nat \ {0}
<1> DEFINE n == Len(s) - 1
<1>1. Len(s) \in Nat \ {0}
  BY EmptySeq
<1>2. n \in Nat
  BY <1>1
<1>3. \A j \in 1 .. n : s[j] \in S
  BY <1>1, ElementOfSeq
<1>4. /\ SubSeq(s, 1, n) \in Seq(S) /\ Len(SubSeq(s, 1, n)) = n
      /\ \A j \in 1 .. n : SubSeq(s, 1, n)[j] = s[j]
  <2> HIDE DEF n
  <2> QED BY <1>2, <1>3, SubSeqProperties
<1>5. Last(s) \in S
  BY <1>1, ElementOfSeq DEF Last
<1> QED BY <1>1, <1>4, <1>5 DEF Front

-----------------------------------------------------------------------------
(* What is behind the properties.  The handlers of a list have numbers of  *)
(* their own.  The flag has_run of an entry belongs *)
(* to the event of its type that was generated last for the account; that  *)
(* event ran what has the flag, unless handlers of the type were running   *)
(* when it began, and has set the flag of all it ran.                      *)
GoodList(list) ==
    /\ list \in Seq(Entry)
    /\ \A i, j \in DOMAIN list : list[i].refnum = list[j].refnum => i = j

Typed ==
    /\ events \in [Accts -> [Types -> Seq(Entry)]]
    /\ next_refnum \in 0 .. MaxRefnum
    /\ inside \in [Types -> Nat]
    /\ quiet \in BOOLEAN /\ recursive \in Recursive
    /\ stack \in Seq(Frame) /\ hangs \in BOOLEAN

Lists == \A a \in Accts, t \in Types : GoodList(events[a][t])

Same(f, g) == f.acct = g.acct /\ f.type = g.type

Newest == \A i, j \in DOMAIN stack : i < j /\ Same(stack[i], stack[j]) => stack[i].nested

Flagged(f, list) == \A e \in DOMAIN list : list[e].refnum \in f.ran => list[e].has_run

Remembers ==
    \A i \in DOMAIN stack :
       ~stack[i].nested => Flagged(stack[i], events[stack[i].acct][stack[i].type])

(* No handler of the type was running when event i of the stack began.     *)
Outermost(i) == \A j \in 1 .. i - 1 : stack[j].type = stack[i].type => stack[j].at = "loop"

Ran(f, list) == \A e \in DOMAIN list : list[e].has_run => list[e].refnum \in f.ran

Credits ==
    \A i \in DOMAIN stack :
       ~stack[i].nested /\ Outermost(i) =>
          Ran(stack[i], events[stack[i].acct][stack[i].type])

EventInv == /\ Typed /\ InsideExact /\ Lists /\ Newest
            /\ Remembers /\ Credits

InHandler(st, t) == {i \in DOMAIN st : st[i].type = t /\ st[i].at = "handler"}

LEMMA InHandlerFinite ==
    ASSUME NEW st \in Seq(Frame), NEW t
    PROVE  /\ IsFiniteSet(InHandler(st, t)) /\ Cardinality(InHandler(st, t)) \in Nat
           /\ Cardinality(InHandler(st, t)) = 0 => InHandler(st, t) = {}
<1>1. Len(st) \in Nat /\ DOMAIN st = 1 .. Len(st)
  BY LenProperties
<1>2. IsFiniteSet(1 .. Len(st))
  BY <1>1, FS_Interval
<1>3. InHandler(st, t) \in SUBSET (1 .. Len(st))
  BY <1>1 DEF InHandler
<1>4. IsFiniteSet(InHandler(st, t))
  BY <1>2, <1>3, FS_Subset
<1> QED BY <1>4, FS_CardinalityType, FS_EmptySet

(* A list that only lost entries, or got one with a new number, is good,   *)
(* and what is said of flags and numbers still holds.                      *)
Kept(old, new) ==
    /\ new \in Seq(Entry)
    /\ \A j \in DOMAIN new : \E i \in DOMAIN old : new[j] = old[i]
    /\ \A i, j \in DOMAIN new : new[i].refnum = new[j].refnum => i = j

LEMMA KeptKeeps ==
    ASSUME NEW old, NEW new, GoodList(old), Kept(old, new)
    PROVE  /\ GoodList(new)
           /\ \A f \in Frame : /\ Flagged(f, old) => Flagged(f, new)
                               /\ Ran(f, old) => Ran(f, new)
BY DEF GoodList, Kept, Flagged, Ran

LEMMA RemoveKeeps ==
    ASSUME NEW list, GoodList(list), NEW i \in DOMAIN list
    PROVE  Kept(list, RemoveAt(list, i))
<1>1. list \in Seq(Entry) /\ i \in 1 .. Len(list)
  BY LenProperties DEF GoodList
<1>2. /\ RemoveAt(list, i) \in Seq(Entry)
      /\ Len(RemoveAt(list, i)) = Len(list) - 1 /\ Len(list) \in Nat
      /\ \A j \in 1 .. Len(list) - 1 :
            RemoveAt(list, i)[j] = IF j < i THEN list[j] ELSE list[j + 1]
  BY <1>1, RemoveAtElements, LenProperties
<1>3. DOMAIN RemoveAt(list, i) = 1 .. Len(list) - 1 /\ DOMAIN list = 1 .. Len(list)
  BY <1>1, <1>2, LenProperties
<1> HIDE DEF RemoveAt
<1>4. ASSUME NEW j \in DOMAIN RemoveAt(list, i)
      PROVE  \E k \in DOMAIN list : RemoveAt(list, i)[j] = list[k]
  <2>1. j \in DOMAIN list /\ j + 1 \in DOMAIN list
    BY <1>2, <1>3
  <2> QED BY <2>1, <1>2, <1>3
<1>5. ASSUME NEW j \in DOMAIN RemoveAt(list, i), NEW k \in DOMAIN RemoveAt(list, i),
             RemoveAt(list, i)[j].refnum = RemoveAt(list, i)[k].refnum
      PROVE  j = k
  <2> DEFINE at(m) == IF m < i THEN m ELSE m + 1
  <2>1. at(j) \in DOMAIN list /\ at(k) \in DOMAIN list
    BY <1>2, <1>3
  <2>2. list[at(j)].refnum = list[at(k)].refnum
    BY <1>2, <1>3, <1>5
  <2>3. at(j) = at(k)
    BY <2>1, <2>2 DEF GoodList
  <2> QED BY <2>3, <1>1, <1>2, <1>3
<1> QED BY <1>2, <1>4, <1>5 DEF Kept

LEMMA TailKeeps ==
    ASSUME NEW list, GoodList(list), list # <<>>
    PROVE  Kept(list, Tail(list))
<1>1. list \in Seq(Entry) /\ DOMAIN list = 1 .. Len(list)
  BY LenProperties DEF GoodList
<1>2. /\ Tail(list) \in Seq(Entry) /\ Len(Tail(list)) = Len(list) - 1
      /\ \A i \in 1 .. Len(list) - 1 : Tail(list)[i] = list[i + 1]
      /\ DOMAIN Tail(list) = 1 .. Len(list) - 1 /\ Len(list) \in Nat
  BY <1>1, HeadTailProperties, LenProperties
<1>3. \A i \in DOMAIN Tail(list) : i + 1 \in DOMAIN list /\ i \in Int
  BY <1>1, <1>2
<1> QED BY <1>1, <1>2, <1>3 DEF Kept, GoodList

LEMMA EmptyKeeps == ASSUME NEW list PROVE Kept(list, <<>>)
BY EmptySeq DEF Kept

LEMMA SameKeeps == ASSUME NEW list, GoodList(list) PROVE Kept(list, list)
BY DEF Kept, GoodList

-----------------------------------------------------------------------------
LEMMA EventInit == Init => EventInv
<1> SUFFICES ASSUME Init PROVE EventInv
  OBVIOUS
<1>1. stack = <<>> /\ DOMAIN stack = {}
  BY DEF Init
<1>2. Typed
  <2>1. events \in [Accts -> [Types -> Seq(Entry)]] /\ inside \in [Types -> Nat]
    BY EmptySeq DEF Init
  <2>2. stack \in Seq(Frame)
    BY <1>1, EmptySeq
  <2>3. next_refnum \in 0 .. MaxRefnum
    BY BoundsAssumption DEF Init
  <2> QED BY <1>1, <2>1, <2>2, <2>3 DEF Init, Typed
<1>3. InsideExact
  <2>1. \A t \in Types : InHandler(stack, t) = {}
    BY <1>1 DEF InHandler
  <2> QED BY <2>1, FS_EmptySet DEF Init, InsideExact, InHandler
<1>4. Lists
  BY EmptySeq DEF Init, Lists, GoodList
<1> QED BY <1>1, <1>2, <1>3, <1>4 DEF EventInv, Newest, Remembers, Credits

(* Nothing happens but that lists lose entries.                            *)
Deletes ==
    /\ UNCHANGED <<next_refnum, inside, stack>>
    /\ events' \in [Accts -> [Types -> Seq(Entry)]]
    /\ \A a \in Accts, t \in Types : Kept(events[a][t], events'[a][t])

LEMMA FrameFields ==
    ASSUME NEW f \in Frame
    PROVE  /\ f.acct \in Accts /\ f.type \in Types /\ f.at \in {"loop", "handler"}
           /\ f.ran \subseteq 0 .. MaxRefnum /\ f.nested \in BOOLEAN
BY DEF Frame

LEMMA FramesTyped ==
    ASSUME Typed
    PROVE  /\ next_refnum \in Nat /\ stack \in Seq(Frame) /\ Len(stack) \in Nat
           /\ DOMAIN stack = 1 .. Len(stack)
           /\ \A i \in DOMAIN stack : /\ stack[i] \in Frame /\ stack[i].acct \in Accts
                                      /\ stack[i].type \in Types
<1>1. stack \in Seq(Frame) /\ next_refnum \in Nat
  BY BoundsAssumption DEF Typed
<1>2. DOMAIN stack = 1 .. Len(stack) /\ Len(stack) \in Nat
  BY <1>1, LenProperties
<1>3. \A i \in DOMAIN stack : stack[i] \in Frame
  BY <1>1, <1>2, ElementOfSeq
<1> QED BY <1>1, <1>2, <1>3, FrameFields

LEMMA DeletesKeep == ASSUME EventInv, Typed', Deletes PROVE EventInv'
<1> USE DEF EventInv, Deletes
<1>1. InsideExact'
  BY DEF InsideExact
<1>2. /\ next_refnum \in Nat
      /\ \A i \in DOMAIN stack : /\ stack[i] \in Frame /\ stack[i].acct \in Accts
                                 /\ stack[i].type \in Types
  BY FramesTyped
<1>3. \A a \in Accts, t \in Types : GoodList(events[a][t])
  BY DEF Lists
<1>4. Lists'
  BY <1>2, <1>3, KeptKeeps DEF Lists
<1>5. ASSUME NEW i \in DOMAIN stack
      PROVE  /\ Flagged(stack[i], events[stack[i].acct][stack[i].type])
                   => Flagged(stack[i], events'[stack[i].acct][stack[i].type])
             /\ Ran(stack[i], events[stack[i].acct][stack[i].type])
                   => Ran(stack[i], events'[stack[i].acct][stack[i].type])
  <2> DEFINE list == events[stack[i].acct][stack[i].type]
             new  == events'[stack[i].acct][stack[i].type]
  <2>1. stack[i] \in Frame /\ GoodList(list) /\ Kept(list, new)
    BY <1>2, <1>3
  <2> HIDE DEF list, new
  <2>2. /\ Flagged(stack[i], list) => Flagged(stack[i], new)
        /\ Ran(stack[i], list) => Ran(stack[i], new)
    BY <1>2, <2>1, KeptKeeps
  <2> QED BY <2>2 DEF list, new
<1>6. Remembers'
  BY <1>5 DEF Remembers, Flagged
<1>7. Credits'
  BY <1>5 DEF Credits, Outermost, Ran
<1> QED BY <1>1, <1>4, <1>6, <1>7 DEF Newest

-----------------------------------------------------------------------------
(* Every step keeps the types.                                             *)
LEMMA NamesOfTypes == ASSUME NEW t \in Types PROVE NameOfType[t] \in 0 .. 45
BY TypesAssumption DEF NameOfType, RECV_CHAT_MSG, RECV_CHAT_MODE

LEMMA EventsExcept ==
    ASSUME Typed, NEW a \in Accts, NEW t \in Types, NEW list \in Seq(Entry)
    PROVE  /\ [events EXCEPT ![a][t] = list] \in [Accts -> [Types -> Seq(Entry)]]
           /\ \A b \in Accts, u \in Types :
                 [events EXCEPT ![a][t] = list][b][u] =
                    IF b = a /\ u = t THEN list ELSE events[b][u]
BY DEF Typed

LEMMA ListTyped ==
    ASSUME Typed, NEW a \in Accts, NEW t \in Types
    PROVE  /\ events[a][t] \in Seq(Entry) /\ Len(events[a][t]) \in Nat
           /\ DOMAIN events[a][t] = 1 .. Len(events[a][t])
           /\ \A i \in DOMAIN events[a][t] : events[a][t][i] \in Entry
<1>1. events[a][t] \in Seq(Entry)
  BY DEF Typed
<1>2. DOMAIN events[a][t] = 1 .. Len(events[a][t]) /\ Len(events[a][t]) \in Nat
  BY <1>1, LenProperties
<1> QED BY <1>1, <1>2, ElementOfSeq

LEMMA ForgettingKeeps ==
    ASSUME Typed, NEW r
    PROVE  /\ Forgetting(r) \in Seq(Frame) /\ DOMAIN Forgetting(r) = DOMAIN stack
           /\ \A i \in DOMAIN stack :
                 /\ Forgetting(r)[i].acct = stack[i].acct
                 /\ Forgetting(r)[i].type = stack[i].type
                 /\ Forgetting(r)[i].at = stack[i].at
                 /\ Forgetting(r)[i].nested = stack[i].nested
                 /\ Forgetting(r)[i].ran = stack[i].ran \ {r}
<1>1. /\ stack \in Seq(Frame) /\ DOMAIN stack = 1 .. Len(stack) /\ Len(stack) \in Nat
      /\ \A i \in DOMAIN stack : stack[i] \in Frame
  BY FramesTyped
<1>2. ASSUME NEW i \in DOMAIN stack
      PROVE  /\ Forgetting(r)[i] \in Frame
             /\ Forgetting(r)[i].acct = stack[i].acct /\ Forgetting(r)[i].type = stack[i].type
             /\ Forgetting(r)[i].at = stack[i].at /\ Forgetting(r)[i].nested = stack[i].nested
             /\ Forgetting(r)[i].ran = stack[i].ran \ {r}
  <2>1. Forgetting(r)[i] = [stack[i] EXCEPT !.first = stack[i].first \ {r},
                                            !.ran = stack[i].ran \ {r}]
    BY DEF Forgetting
  <2>2. stack[i] \in Frame
    BY <1>1
  <2> QED BY <2>1, <2>2 DEF Frame
<1>3. DOMAIN Forgetting(r) = DOMAIN stack
  BY DEF Forgetting
<1>4. Forgetting(r) \in Seq(Frame)
  <2>1. Forgetting(r) \in [1 .. Len(stack) -> Frame]
    BY <1>1, <1>2 DEF Forgetting
  <2> QED BY <1>1, <2>1, SeqDef
<1> QED BY <1>2, <1>3, <1>4

LEMMA AddTyped ==
    ASSUME Typed, NEW a \in Accts, NEW t \in Types, NEW cmd \in Commands, NEW q \in BOOLEAN,
           Add(a, NameOfType[t], cmd, q)
    PROVE  Typed'
<1> DEFINE row == EventFind(NameOfType[t])
           new == [command |-> cmd, name |-> NameOfType[t], refnum |-> next_refnum,
                   quiet |-> q, has_run |-> FALSE]
<1>1. new \in Entry /\ row \in Types
  BY NamesOfTypes DEF Add, Entry, Typed
<1>2. events[a][row] \in Seq(Entry)
  BY <1>1, ListTyped
<1>3. Append(events[a][row], new) \in Seq(Entry)
  BY <1>1, <1>2, AppendProperties
<1>4. events' = [events EXCEPT ![a][row] = Append(events[a][row], new)]
  BY DEF Add
<1>5. events' \in [Accts -> [Types -> Seq(Entry)]]
  BY <1>1, <1>3, <1>4, EventsExcept
<1>6. stack' \in Seq(Frame)
  BY ForgettingKeeps DEF Add
<1>7. next_refnum' \in 0 .. MaxRefnum
  BY BoundsAssumption DEF Typed, Add
<1> QED BY <1>5, <1>6, <1>7 DEF Typed, Add

(* The commands that delete, and those that touch no list.                 *)
Deleting(a) ==
    \/ \E r \in 0 .. MaxRefnum : DelRefnum(a, r)
    \/ \E t \in Types : DelType(a, NameOfType[t])
    \/ \E t \in Types, cmd \in Commands : DelCommand(a, NameOfType[t], cmd)
    \/ Purge(a)

LEMMA DeletingDeletes ==
    ASSUME EventInv,
           \/ \E a \in Accts : Deleting(a)
           \/ \E b \in Recursive \ {recursive} : SetRecursive(b)
    PROVE  Deletes /\ Typed'
<1> USE DEF EventInv
<1>1. /\ events \in [Accts -> [Types -> Seq(Entry)]] /\ next_refnum \in Nat
      /\ \A a \in Accts, t \in Types : /\ GoodList(events[a][t])
                                       /\ Kept(events[a][t], events[a][t])
  <2>1. events \in [Accts -> [Types -> Seq(Entry)]] /\ next_refnum \in Nat
    BY BoundsAssumption DEF Typed
  <2>2. \A a \in Accts, t \in Types : GoodList(events[a][t])
    BY DEF Lists
  <2> QED BY <2>1, <2>2, SameKeeps
<1>2. ASSUME NEW a \in Accts, NEW t \in Types, NEW list, Kept(events[a][t], list),
             events' = [events EXCEPT ![a][t] = list],
             UNCHANGED <<next_refnum, inside, stack>>
      PROVE  Deletes
  <2>1. list \in Seq(Entry)
    BY <1>2 DEF Kept
  <2>2. /\ events' \in [Accts -> [Types -> Seq(Entry)]]
        /\ \A b \in Accts, u \in Types :
              events'[b][u] = IF b = a /\ u = t THEN list ELSE events[b][u]
    BY <1>2, <2>1, EventsExcept
  <2>3. \A b \in Accts, u \in Types : Kept(events[b][u], events'[b][u])
    BY <1>1, <1>2, <2>2
  <2> QED BY <1>2, <2>2, <2>3 DEF Deletes
<1>3. ASSUME NEW a \in Accts, NEW r, DelRefnum(a, r) PROVE Deletes /\ Typed'
  <2>1. PICK t \in Types, i \in 1 .. MaxRefnum :
           /\ i <= Len(events[a][t])
           /\ events' = [events EXCEPT ![a][t] = RemoveAt(events[a][t], i)]
    BY <1>3 DEF DelRefnum
  <2>2. i \in DOMAIN events[a][t]
    BY <2>1, ListTyped, BoundsAssumption
  <2>3. Kept(events[a][t], RemoveAt(events[a][t], i))
    BY <1>1, <2>2, RemoveKeeps
  <2>4. Deletes
    BY <1>2, <1>3, <2>1, <2>3 DEF DelRefnum
  <2> QED BY <1>3, <2>4 DEF Deletes, Typed, Commanding, DelRefnum
<1>4. ASSUME NEW a \in Accts, NEW name, DelType(a, name) PROVE Deletes /\ Typed'
  <2>1. /\ EventFind(name) \in Types
        /\ events' = [events EXCEPT ![a][EventFind(name)] = <<>>]
        /\ UNCHANGED <<next_refnum, inside, stack>>
    BY <1>4 DEF DelType
  <2>2. Deletes
    BY <1>2, <2>1, EmptyKeeps
  <2> QED BY <1>4, <2>2 DEF Deletes, Typed, Commanding, DelType
<1>5. ASSUME NEW a \in Accts, NEW name, NEW cmd \in Commands, DelCommand(a, name, cmd)
      PROVE  Deletes /\ Typed'
  <2> DEFINE t == EventFind(name)
  <2>1. t \in Types /\ events[a][t] # <<>> /\ UNCHANGED <<next_refnum, inside, stack>>
    BY <1>5 DEF DelCommand
  <2>2. ASSUME events' = [events EXCEPT ![a][t] = Tail(events[a][t])] PROVE Deletes
    <3>1. Kept(events[a][t], Tail(events[a][t]))
      BY <1>1, <2>1, TailKeeps
    <3> DEFINE rest == Tail(events[a][t])
    <3>2. Kept(events[a][t], rest) /\ events' = [events EXCEPT ![a][t] = rest]
      BY <2>2, <3>1
    <3> HIDE DEF t, rest
    <3> QED BY <1>2, <2>1, <3>2
  <2>3. ASSUME UNCHANGED events PROVE Deletes
    <3>1. events' = events
      BY <2>3
    <3> HIDE DEF t
    <3> QED BY <1>1, <2>1, <3>1 DEF Deletes
  <2>4. Deletes
    BY <1>5, <2>2, <2>3 DEF DelCommand
  <2> QED BY <1>5, <2>4 DEF Deletes, Typed, DelCommand
<1>6. ASSUME NEW a \in Accts, Purge(a) PROVE Deletes /\ Typed'
  <2>1. events' = [events EXCEPT ![a] = [t \in Types |-> <<>>]]
    BY <1>6 DEF Purge
  <2>2. /\ events' \in [Accts -> [Types -> Seq(Entry)]]
        /\ \A b \in Accts, u \in Types : events'[b][u] = IF b = a THEN <<>> ELSE events[b][u]
    BY <1>1, <2>1, EmptySeq
  <2>3. Deletes
    BY <1>1, <1>6, <2>2, EmptyKeeps DEF Deletes, Purge
  <2> QED BY <1>6, <2>3 DEF Deletes, Typed, Commanding, Purge
<1>8. ASSUME NEW b \in Recursive \ {recursive}, SetRecursive(b) PROVE Deletes /\ Typed'
  <2>1. Deletes
    BY <1>1, <1>8 DEF Deletes, SetRecursive
  <2> QED BY <1>8, <2>1 DEF Deletes, Typed, Commanding, SetRecursive
<1> QED BY <1>3, <1>4, <1>5, <1>6, <1>8 DEF Deleting

-----------------------------------------------------------------------------
(* A handler is added, under a number that no handler has.                 *)
LEMMA AppendedGood ==
    ASSUME NEW list, GoodList(list), NEW new \in Entry,
           new.refnum \notin Refnums(list), new.has_run = FALSE
    PROVE  /\ GoodList(Append(list, new))
           /\ \A e \in DOMAIN Append(list, new) :
                 \/ e \in DOMAIN list /\ Append(list, new)[e] = list[e]
                 \/ Append(list, new)[e] = new
<1>1. list \in Seq(Entry) /\ DOMAIN list = 1 .. Len(list) /\ Len(list) \in Nat
  BY LenProperties DEF GoodList
<1> DEFINE more == Append(list, new)
<1>2. /\ more \in Seq(Entry) /\ Len(more) = Len(list) + 1
      /\ \A i \in 1 .. Len(list) : more[i] = list[i]
      /\ more[Len(list) + 1] = new
      /\ DOMAIN more = 1 .. Len(list) + 1
  BY <1>1, AppendProperties, LenProperties
<1> HIDE DEF more
<1>3. \A i \in DOMAIN more : \/ i \in DOMAIN list /\ more[i] = list[i]
                             \/ i = Len(list) + 1 /\ more[i] = new
  BY <1>1, <1>2
<1>4. \A i, j \in DOMAIN more : more[i].refnum = more[j].refnum => i = j
  <2>1. \A i, j \in DOMAIN list : list[i].refnum = list[j].refnum => i = j
    BY DEF GoodList
  <2>2. \A i \in DOMAIN list : list[i].refnum # new.refnum
    BY DEF Refnums
  <2> QED BY <1>3, <2>1, <2>2
<1> QED BY <1>2, <1>3, <1>4 DEF GoodList, more

LEMMA AddKeeps ==
    ASSUME EventInv, NEW a \in Accts, NEW t \in Types, NEW cmd \in Commands, NEW q \in BOOLEAN,
           Add(a, NameOfType[t], cmd, q)
    PROVE  EventInv'
<1> USE DEF EventInv
<1> DEFINE row == EventFind(NameOfType[t])
           new == [command |-> cmd, name |-> NameOfType[t], refnum |-> next_refnum,
                   quiet |-> q, has_run |-> FALSE]
           more == Append(events[a][row], new)
<1>1. Typed'
  BY AddTyped
<1>2. new \in Entry /\ row \in Types
  BY NamesOfTypes DEF Add, Entry, Typed
<1>3. /\ next_refnum \in Nat
      /\ \A i \in DOMAIN stack : /\ stack[i] \in Frame /\ stack[i].acct \in Accts
                                 /\ stack[i].type \in Types
  BY FramesTyped
<1>4. more \in Seq(Entry)
  BY <1>2, ListTyped, AppendProperties
<1>5. \A b \in Accts, u \in Types : GoodList(events[b][u])
  BY DEF Lists
<1>6. \A b \in Accts, u \in Types :
         events'[b][u] = IF b = a /\ u = row THEN more ELSE events[b][u]
  <2>1. events' = [events EXCEPT ![a][row] = more]
    BY DEF Add
  <2> HIDE DEF row, more
  <2> QED BY <1>2, <1>4, <2>1, EventsExcept
<1>7. /\ stack' = Forgetting(next_refnum) /\ inside' = inside
      /\ \A b \in Accts, u \in Types : next_refnum \notin Refnums(events[b][u])
  BY DEF Add, NotInUse
<1>8. /\ GoodList(more)
      /\ \A e \in DOMAIN more : \/ e \in DOMAIN events[a][row] /\ more[e] = events[a][row][e]
                                \/ more[e] = new
  <2>1. /\ GoodList(events[a][row]) /\ new.refnum = next_refnum /\ new.has_run = FALSE
        /\ next_refnum \notin Refnums(events[a][row])
    BY <1>2, <1>5, <1>7
  <2> HIDE DEF new, row
  <2> QED BY <1>2, <2>1, AppendedGood
<1>9. new.refnum = next_refnum /\ new.has_run = FALSE
  OBVIOUS
<1> HIDE DEF new, row, more
<1>10. Lists'
  BY <1>5, <1>6, <1>8 DEF Lists
<1>11. /\ DOMAIN stack' = DOMAIN stack
       /\ \A i \in DOMAIN stack :
             /\ stack'[i].acct = stack[i].acct /\ stack'[i].type = stack[i].type
             /\ stack'[i].at = stack[i].at /\ stack'[i].nested = stack[i].nested
             /\ stack'[i].ran = stack[i].ran \ {next_refnum}
  BY <1>7, ForgettingKeeps
(* An entry afterwards is the new one, or one of before, which has another *)
(* number.                                                                 *)
<1>12. ASSUME NEW b \in Accts, NEW u \in Types, NEW e \in DOMAIN events'[b][u]
       PROVE  \/ /\ e \in DOMAIN events[b][u] /\ events'[b][u][e] = events[b][u][e]
                 /\ events[b][u][e].refnum # next_refnum
              \/ events'[b][u][e].refnum = next_refnum /\ ~events'[b][u][e].has_run
  <2>1. \/ e \in DOMAIN events[b][u] /\ events'[b][u][e] = events[b][u][e]
        \/ events'[b][u][e] = new
    BY <1>6, <1>8
  <2> QED BY <1>7, <1>9, <2>1 DEF Refnums
<1>13. Remembers'
  <2>1. ASSUME NEW i \in DOMAIN stack, ~stack[i].nested
        PROVE  Flagged(stack'[i], events'[stack[i].acct][stack[i].type])
    <3>1. Flagged(stack[i], events[stack[i].acct][stack[i].type])
      BY <2>1 DEF Remembers
    <3> QED BY <1>3, <1>11, <1>12, <3>1 DEF Flagged
  <2> QED BY <1>11, <2>1 DEF Remembers, Flagged
<1>14. Credits'
  <2>1. ASSUME NEW i \in DOMAIN stack, ~stack[i].nested, Outermost(i)
        PROVE  Ran(stack'[i], events'[stack[i].acct][stack[i].type])
    <3>1. Ran(stack[i], events[stack[i].acct][stack[i].type])
      BY <2>1 DEF Credits
    <3> QED BY <1>3, <1>11, <1>12, <3>1 DEF Ran
  <2>2. ASSUME NEW i \in DOMAIN stack, Outermost(i)' PROVE Outermost(i)
    <3>1. \A j \in 1 .. i - 1 : j \in DOMAIN stack
      BY FramesTyped
    <3> QED BY <1>11, <2>2, <3>1 DEF Outermost
  <2> QED BY <1>11, <2>1, <2>2 DEF Credits, Ran
<1>15. Newest'
  BY <1>11 DEF Newest, Same
<1>16. InsideExact'
  <2>1. ASSUME NEW u \in Types PROVE InHandler(stack', u) = InHandler(stack, u)
    BY <1>11 DEF InHandler
  <2> QED BY <1>7, <2>1 DEF InsideExact, InHandler
<1> QED BY <1>1, <1>10, <1>13, <1>14, <1>15, <1>16

-----------------------------------------------------------------------------
(* An event begins.                                                        *)
LEMMA UnrunGood ==
    ASSUME NEW list, GoodList(list)
    PROVE  GoodList(Unrun(list)) /\ \A e \in DOMAIN Unrun(list) : ~Unrun(list)[e].has_run
<1>1. list \in Seq(Entry) /\ DOMAIN list = 1 .. Len(list) /\ Len(list) \in Nat
  BY LenProperties DEF GoodList
<1>2. \A i \in DOMAIN list : list[i] \in Entry
  BY <1>1, ElementOfSeq
<1>3. /\ DOMAIN Unrun(list) = 1 .. Len(list)
      /\ \A i \in DOMAIN list : /\ Unrun(list)[i] \in Entry
                                /\ Unrun(list)[i].refnum = list[i].refnum
                                /\ ~Unrun(list)[i].has_run
  BY <1>1, <1>2 DEF Unrun, Entry
<1>4. Unrun(list) \in Seq(Entry)
  BY <1>1, <1>3, SeqDef DEF Unrun
<1> HIDE DEF Unrun
<1> QED BY <1>1, <1>3, <1>4 DEF GoodList

LEMMA GenerateKeeps ==
    ASSUME EventInv, NEW a \in Accts, NEW t \in Types, Generate(a, t)
    PROVE  EventInv'
<1> USE DEF EventInv
<1> DEFINE n     == Len(stack)
           under == [i \in DOMAIN stack |->
                       IF stack[i].acct = a /\ stack[i].type = t
                       THEN [stack[i] EXCEPT !.nested = TRUE, !.first = {}] ELSE stack[i]]
           top   == [acct |-> a, type |-> t, at |-> "loop", quiet |-> FALSE,
                     old |-> FALSE, first |-> Refnums(events[a][t]),
                     ran |-> {}, nested |-> FALSE]
           fresh == Unrun(events[a][t])
<1>1. /\ next_refnum \in Nat /\ n \in Nat /\ DOMAIN stack = 1 .. n
      /\ \A i \in DOMAIN stack : /\ stack[i] \in Frame /\ stack[i].acct \in Accts
                                 /\ stack[i].type \in Types
  BY FramesTyped
<1>2. \A b \in Accts, u \in Types : GoodList(events[b][u])
  BY DEF Lists
<1>3. /\ GoodList(fresh) /\ fresh \in Seq(Entry)
      /\ \A e \in DOMAIN fresh : ~fresh[e].has_run
  <2>1. GoodList(events[a][t])
    BY <1>2
  <2>2. /\ GoodList(fresh)
        /\ \A e \in DOMAIN fresh : ~fresh[e].has_run
    BY <1>1, <2>1, UnrunGood
  <2> QED BY <2>2 DEF GoodList
<1>4. top \in Frame
  <2>1. Refnums(events[a][t]) \subseteq 0 .. MaxRefnum
    BY ListTyped DEF Refnums, Entry
  <2> QED BY <2>1 DEF Frame
<1>5. \A i \in 1 .. n : /\ under[i] \in Frame
                        /\ under[i].acct = stack[i].acct /\ under[i].type = stack[i].type
                        /\ under[i].at = stack[i].at /\ under[i].ran = stack[i].ran
                        /\ under[i].nested <=> \/ stack[i].nested
                                               \/ stack[i].acct = a /\ stack[i].type = t
  <2> TAKE i \in 1 .. n
  <2>1. stack[i] \in Frame /\ i \in DOMAIN stack
    BY <1>1
  <2> HIDE DEF n
  <2>2. CASE stack[i].acct = a /\ stack[i].type = t
    <3>1. under[i] = [stack[i] EXCEPT !.nested = TRUE, !.first = {}]
      BY <2>1, <2>2
    <3> QED BY <2>1, <2>2, <3>1 DEF Frame
  <2>3. CASE ~(stack[i].acct = a /\ stack[i].type = t)
    <3>1. under[i] = stack[i]
      BY <2>1, <2>3
    <3> QED BY <2>1, <2>3, <3>1
  <2> QED BY <2>2, <2>3
<1>6. under \in Seq(Frame) /\ Len(under) = n
  <2>1. under = [i \in 1 .. n |-> under[i]]
    BY <1>1
  <2> HIDE DEF under, n
  <2>2. under \in [1 .. n -> Frame]
    BY <1>5, <2>1
  <2> QED BY <1>1, <2>2, SeqDef, LenProperties
<1>7. /\ stack' \in Seq(Frame) /\ DOMAIN stack' = 1 .. n + 1
      /\ \A i \in 1 .. n : stack'[i] = under[i]
      /\ stack'[n + 1] = top
  <2>1. stack' = Append(under, top)
    BY DEF Generate
  <2> HIDE DEF under, top
  <2> QED BY <1>1, <1>4, <1>6, <2>1, AppendProperties, LenProperties
<1>8. /\ events' \in [Accts -> [Types -> Seq(Entry)]]
      /\ \A b \in Accts, u \in Types :
            events'[b][u] = IF b = a /\ u = t THEN fresh ELSE events[b][u]
  <2>1. events' = [events EXCEPT ![a][t] = fresh]
    BY DEF Generate
  <2> HIDE DEF fresh
  <2> QED BY <1>3, <2>1, EventsExcept
<1>9. next_refnum' = next_refnum /\ inside' = inside
  BY DEF Generate, Commanding
<1>10. Typed'
  BY <1>7, <1>8 DEF Generate, Typed
<1>11. top.acct = a /\ top.type = t /\ top.at = "loop" /\ top.ran = {} /\ ~top.nested
  OBVIOUS
<1> HIDE DEF n, under, top, fresh
<1>12. InsideExact'
  <2>1. ASSUME NEW u \in Types PROVE InHandler(stack', u) = InHandler(stack, u)
    BY <1>1, <1>5, <1>7, <1>11 DEF InHandler
  <2> QED BY <1>9, <2>1 DEF InsideExact, InHandler
<1>13. Lists'
  BY <1>2, <1>3, <1>8, <1>9 DEF Lists
<1>14. Newest'
  BY <1>1, <1>5, <1>7, <1>11 DEF Newest, Same
(* An event under it that stays on its own is one of another list.         *)
<1>16. ASSUME NEW i \in 1 .. n, ~stack'[i].nested
       PROVE  /\ i \in DOMAIN stack /\ ~stack[i].nested /\ stack'[i].ran = stack[i].ran
              /\ stack'[i].acct = stack[i].acct /\ stack'[i].type = stack[i].type
              /\ events'[stack[i].acct][stack[i].type] = events[stack[i].acct][stack[i].type]
  <2>1. i \in DOMAIN stack /\ stack[i].acct \in Accts /\ stack[i].type \in Types
    BY <1>1
  <2>2. stack'[i] = under[i]
    BY <1>7
  <2>3. ~stack[i].nested /\ ~(stack[i].acct = a /\ stack[i].type = t)
    BY <1>5, <1>16, <2>2
  <2>4. /\ stack'[i].ran = stack[i].ran
        /\ stack'[i].acct = stack[i].acct /\ stack'[i].type = stack[i].type
    BY <1>5, <2>2
  <2> QED BY <1>8, <2>1, <2>3, <2>4
<1>18. Remembers'
  <2>1. ASSUME NEW i \in 1 .. n, ~stack'[i].nested
        PROVE  Flagged(stack'[i], events'[stack'[i].acct][stack'[i].type])
    BY <1>16, <2>1 DEF Remembers, Flagged
  <2>2. Flagged(stack'[n + 1], events'[stack'[n + 1].acct][stack'[n + 1].type])
    BY <1>7, <1>11 DEF Flagged
  <2> QED BY <1>1, <1>7, <2>1, <2>2 DEF Remembers
<1>17. Credits'
  <2>2. ASSUME NEW i \in 1 .. n, Outermost(i)' PROVE Outermost(i)
    <3>1. \A j \in 1 .. i - 1 : j \in 1 .. n /\ j \in 1 .. n + 1
      BY <1>1
    <3> QED BY <1>5, <1>7, <2>2, <3>1 DEF Outermost
  <2>3. ASSUME NEW i \in 1 .. n, ~stack'[i].nested, Outermost(i)'
        PROVE  Ran(stack'[i], events'[stack'[i].acct][stack'[i].type])
    BY <1>16, <2>2, <2>3 DEF Credits, Ran
  <2>4. Ran(stack'[n + 1], events'[stack'[n + 1].acct][stack'[n + 1].type])
    BY <1>3, <1>7, <1>8, <1>11 DEF Ran
  <2> QED BY <1>1, <1>7, <2>3, <2>4 DEF Credits
<1> QED BY <1>10, <1>12, <1>13, <1>14, <1>17, <1>18

-----------------------------------------------------------------------------
(* An event ends, or its handler returns: the events under it are as they  *)
(* were.                                                                   *)
Pops == /\ stack # <<>> /\ stack' = Front(stack)
        /\ UNCHANGED <<events, next_refnum>>

LEMMA PopsKeep ==
    ASSUME EventInv, Pops
    PROVE  Lists' /\ Newest' /\ Remembers' /\ Credits' /\ stack' \in Seq(Frame)
<1> USE DEF EventInv
<1> DEFINE n == Len(stack)
<1>1. stack \in Seq(Frame) /\ DOMAIN stack = 1 .. n
  BY FramesTyped
<1>2. /\ stack' \in Seq(Frame) /\ n \in Nat \ {0}
      /\ DOMAIN stack' = 1 .. n - 1 /\ \A i \in 1 .. n - 1 : stack'[i] = stack[i]
  BY <1>1, FrontElements, LenProperties DEF Pops
<1>3. events' = events /\ next_refnum' = next_refnum
  BY DEF Pops
<1> HIDE DEF n
<1>4. ASSUME NEW i \in 1 .. n - 1, Outermost(i)' PROVE Outermost(i)
  BY <1>2, <1>4 DEF Outermost
<1>5. Credits'
  <2>1. ASSUME NEW i \in 1 .. n - 1, ~stack[i].nested, Outermost(i)'
        PROVE  Ran(stack[i], events[stack[i].acct][stack[i].type])
    BY <1>1, <1>2, <1>4, <2>1 DEF Credits
  <2> QED BY <1>2, <1>3, <2>1 DEF Credits, Ran
<1>6. Remembers' /\ Newest'
  <2>1. \A i \in DOMAIN stack' : i \in DOMAIN stack /\ stack'[i] = stack[i]
    BY <1>1, <1>2
  <2>2. Remembers'
    BY <1>3, <2>1 DEF Remembers, Flagged
  <2>3. Newest'
    BY <1>3, <2>1 DEF Newest, Same
  <2> QED BY <2>2, <2>3
<1>7. Lists'
  BY <1>3 DEF Lists
<1> QED BY <1>2, <1>5, <1>6, <1>7

LEMMA FinishKeeps == ASSUME EventInv, Finish PROVE EventInv'
<1> USE DEF EventInv
<1> DEFINE n == Len(stack)
<1>1. Pops
  BY DEF Pops, Finish
<1>2. Lists' /\ Newest' /\ Remembers' /\ Credits' /\ stack' \in Seq(Frame)
  BY <1>1, PopsKeep
<1>3. /\ stack \in Seq(Frame) /\ n \in Nat \ {0} /\ DOMAIN stack = 1 .. n
      /\ DOMAIN stack' = 1 .. n - 1 /\ \A i \in 1 .. n - 1 : stack'[i] = stack[i]
  BY <1>1, <1>2, FramesTyped, FrontElements, LenProperties DEF Pops
<1>4. stack[n].at = "loop" /\ inside' = inside /\ events' = events
  BY DEF Finish, Top, Last
<1> HIDE DEF n
<1>5. ASSUME NEW u \in Types PROVE InHandler(stack', u) = InHandler(stack, u)
  BY <1>3, <1>4 DEF InHandler
<1>6. InsideExact'
  BY <1>4, <1>5 DEF InsideExact, InHandler
<1>7. Typed'
  BY <1>2 DEF Typed, Finish
<1> QED BY <1>2, <1>6, <1>7

LEMMA ReturnKeeps == ASSUME EventInv, NEW ret, HandlerReturns(ret) PROVE EventInv'
<1> USE DEF EventInv
<1> DEFINE n == Len(stack)
           t == stack[n].type
<1>1. /\ stack \in Seq(Frame) /\ n \in Nat \ {0} /\ DOMAIN stack = 1 .. n
      /\ stack[n] \in Frame /\ t \in Types /\ stack[n].at = "handler"
  <2>1. stack # <<>> /\ stack[n].at = "handler"
    BY DEF HandlerReturns, Top, Last
  <2>2. n \in Nat \ {0} /\ n \in DOMAIN stack
    BY <2>1, FramesTyped, EmptySeq
  <2> QED BY <2>1, <2>2, FramesTyped
<1>2. /\ UNCHANGED <<events, next_refnum, recursive, hangs>>
      /\ inside' = [inside EXCEPT ![t] = inside[t] - 1]
      /\ quiet' \in BOOLEAN
      /\ ret # 0 => stack' = Front(stack)
      /\ ret = 0 => stack' = [stack EXCEPT ![n] = [stack[n] EXCEPT !.at = "loop", !.quiet = FALSE,
                                                                   !.old = FALSE]]
  BY <1>1 DEF HandlerReturns, Left, PutBack, Top, Last, Typed, Frame
<1>3. /\ Lists' /\ Newest' /\ Remembers' /\ Credits' /\ stack' \in Seq(Frame)
      /\ \A u \in Types : InHandler(stack', u) = IF u = t THEN InHandler(stack, u) \ {n}
                                                 ELSE InHandler(stack, u)
  <2>1. CASE ret # 0
    <3>1. Pops
      BY <1>2, <2>1 DEF Pops, HandlerReturns
    <3>2. DOMAIN stack' = 1 .. n - 1 /\ \A i \in 1 .. n - 1 : stack'[i] = stack[i]
      BY <1>1, <3>1, FrontElements, LenProperties, PopsKeep DEF Pops
    <3> HIDE DEF n
    <3>3. \A u \in Types : InHandler(stack', u) = IF u = t THEN InHandler(stack, u) \ {n}
                                                  ELSE InHandler(stack, u)
      BY <1>1, <3>2 DEF InHandler
    <3> QED BY <3>1, <3>3, PopsKeep
  <2>2. CASE ret = 0
    <3> DEFINE back == [stack[n] EXCEPT !.at = "loop", !.quiet = FALSE, !.old = FALSE]
    <3>1. /\ back \in Frame /\ back.acct = stack[n].acct /\ back.type = t
          /\ back.ran = stack[n].ran /\ back.nested = stack[n].nested /\ back.at = "loop"
      BY <1>1 DEF Frame
    <3>2. stack' = [stack EXCEPT ![n] = back]
      BY <1>2, <2>2
    <3> HIDE DEF n, back
    <3>3. /\ stack' \in Seq(Frame) /\ DOMAIN stack' = 1 .. n
          /\ \A i \in 1 .. n : stack'[i] = IF i = n THEN back ELSE stack[i]
      <4>1. Len(stack) = n
        BY DEF n
      <4> QED BY <1>1, <3>1, <3>2, <4>1, ExceptSeq, LenProperties
    <3>4. \A u \in Types : InHandler(stack', u) = IF u = t THEN InHandler(stack, u) \ {n}
                                                  ELSE InHandler(stack, u)
      BY <1>1, <3>1, <3>3 DEF InHandler
    <3>5. \A i \in 1 .. n : /\ stack'[i].acct = stack[i].acct /\ stack'[i].type = stack[i].type
                            /\ stack'[i].ran = stack[i].ran
                            /\ stack'[i].nested = stack[i].nested
      BY <1>1, <3>1, <3>3
    <3>6. Newest' /\ Remembers' /\ Lists'
      <4>1. DOMAIN stack' = DOMAIN stack
        BY <1>1, <3>3
      <4>2. Newest'
        BY <1>1, <1>2, <3>5, <4>1 DEF Newest, Same
      <4>3. Remembers'
        <5> SUFFICES ASSUME NEW i \in DOMAIN stack', ~stack'[i].nested
                     PROVE  Flagged(stack'[i], events'[stack'[i].acct][stack'[i].type])
          BY DEF Remembers
        <5>1. /\ i \in DOMAIN stack /\ ~stack[i].nested /\ events' = events
              /\ stack'[i].acct = stack[i].acct /\ stack'[i].type = stack[i].type
              /\ stack'[i].ran = stack[i].ran
          BY <1>1, <1>2, <3>5, <4>1
        <5>2. Flagged(stack[i], events[stack[i].acct][stack[i].type])
          BY <5>1 DEF Remembers
        <5> QED BY <5>1, <5>2 DEF Flagged
      <4> QED BY <1>2, <4>2, <4>3 DEF Lists
    <3>7. ASSUME NEW i \in 1 .. n, Outermost(i)' PROVE Outermost(i)
      <4>1. \A j \in 1 .. i - 1 : j \in 1 .. n /\ j # n
        BY <1>1
      <4> QED BY <3>3, <3>5, <3>7, <4>1 DEF Outermost
    <3>8. Credits'
      BY <1>1, <1>2, <3>3, <3>5, <3>7 DEF Credits, Ran
    <3> QED BY <3>3, <3>4, <3>6, <3>8
  <2> QED BY <2>1, <2>2
<1> HIDE DEF n, t
<1>4. InsideExact' /\ inside' \in [Types -> Nat]
  <2>1. ASSUME NEW u \in Types
        PROVE  inside'[u] = Cardinality(InHandler(stack', u)) /\ inside'[u] \in Nat
    <3>1. inside[u] = Cardinality(InHandler(stack, u))
      BY DEF InsideExact, InHandler
    <3>2. IsFiniteSet(InHandler(stack, u)) /\ Cardinality(InHandler(stack', u)) \in Nat
      BY <1>1, <1>3, InHandlerFinite
    <3>3. CASE u = t
      <4>1. n \in InHandler(stack, u)
        BY <1>1, <3>3 DEF InHandler, t
      <4>2. Cardinality(InHandler(stack, u) \ {n}) = Cardinality(InHandler(stack, u)) - 1
        BY <3>2, <4>1, FS_RemoveElement
      <4>3. inside'[u] = inside[u] - 1
        BY <1>2, <3>3 DEF Typed
      <4> QED BY <1>3, <3>1, <3>2, <3>3, <4>2, <4>3
    <3>4. CASE u # t
      BY <1>2, <1>3, <3>1, <3>2, <3>4 DEF Typed
    <3> QED BY <3>3, <3>4
  <2>2. inside' \in [Types -> Nat]
    BY <1>2, <2>1 DEF Typed
  <2> QED BY <2>1, <2>2 DEF InsideExact, InHandler
<1>5. Typed'
  BY <1>2, <1>3, <1>4 DEF Typed
<1> QED BY <1>3, <1>4, <1>5

-----------------------------------------------------------------------------
(* The next handler of the event on top: i is the place of its entry.  An  *)
(* event under it for the same list has been generated again, so that the  *)
(* flag that is set counts for the event on top alone.                     *)
LEMMA FlagSet ==
    ASSUME NEW list, GoodList(list), NEW i \in DOMAIN list
    PROVE  LET new == [list EXCEPT ![i].has_run = TRUE] IN
           /\ GoodList(new) /\ new # <<>> /\ DOMAIN new = DOMAIN list
           /\ list[i].refnum \in 0 .. MaxRefnum
           /\ list[i].quiet \in BOOLEAN
           /\ new[i].has_run
           /\ \A e \in DOMAIN list : /\ new[e].refnum = list[e].refnum
                                     /\ e # i => new[e].has_run = list[e].has_run
<1> DEFINE new == [list EXCEPT ![i].has_run = TRUE]
<1>1. list \in Seq(Entry) /\ DOMAIN list = 1 .. Len(list) /\ Len(list) \in Nat
  BY LenProperties DEF GoodList
<1>2. \A e \in DOMAIN list : list[e] \in Entry
  BY <1>1, ElementOfSeq
<1>3. [list[i] EXCEPT !.has_run = TRUE] \in Entry
  BY <1>2 DEF Entry
<1>4. new = [list EXCEPT ![i] = [list[i] EXCEPT !.has_run = TRUE]]
  OBVIOUS
<1>5. new \in Seq(Entry) /\ DOMAIN new = DOMAIN list
  BY <1>1, <1>3, <1>4, ExceptSeq
<1>6. new[i].has_run /\ \A e \in DOMAIN list : /\ new[e].refnum = list[e].refnum
                                               /\ e # i => new[e].has_run = list[e].has_run
  BY <1>2 DEF Entry
<1>7. new # <<>>
  BY <1>1, <1>5, EmptySeq
<1>8. list[i].refnum \in 0 .. MaxRefnum /\ list[i].quiet \in BOOLEAN
  BY <1>2 DEF Entry, GoodList
<1> HIDE DEF new
<1>9. GoodList(new)
  BY <1>5, <1>6 DEF GoodList
<1> QED BY <1>5, <1>6, <1>7, <1>8, <1>9 DEF new

LEMMA StartKeeps == ASSUME EventInv, StartHandler PROVE EventInv'
<1> USE DEF EventInv
<1> DEFINE n == Len(stack)
           a == stack[n].acct
           t == stack[n].type
           list == events[a][t]
<1>1. /\ stack \in Seq(Frame) /\ n \in Nat \ {0} /\ DOMAIN stack = 1 .. n
      /\ next_refnum \in Nat
      /\ \A i \in DOMAIN stack : /\ stack[i] \in Frame /\ stack[i].acct \in Accts
                                 /\ stack[i].type \in Types
      /\ stack[n].at = "loop"
  <2>1. stack # <<>> /\ stack[n].at = "loop"
    BY DEF StartHandler, Top, Last
  <2>2. n \in Nat \ {0} /\ n \in DOMAIN stack
    BY <2>1, FramesTyped, EmptySeq
  <2> QED BY <2>1, <2>2, FramesTyped
<1>2. GoodList(list)
  BY <1>1 DEF Lists
<1> DEFINE new(i) == [list EXCEPT ![i].has_run = TRUE]
           runs == event_should_generate(t)
<1>3. PICK i \in DOMAIN list :
         /\ events' = [events EXCEPT ![a][t] = new(i)]
         /\ inside' = [inside EXCEPT ![t] = IF runs THEN inside[t] + 1 ELSE inside[t]]
         /\ quiet' = (quiet \/ (runs /\ list[i].quiet))
         /\ stack' = IF runs THEN [stack EXCEPT ![n] = Calling(list[i])] ELSE stack
  <2>1. Pending \subseteq DOMAIN list
    BY DEF Pending, Waiting, HandlersOfTop, Top, Last
  <2>2. Top = stack[n] /\ HandlersOfTop = list
    BY DEF Top, Last, HandlersOfTop
  <2>3. PICK i \in Pending :
           /\ events' = [events EXCEPT ![Top.acct][Top.type][i].has_run = TRUE]
           /\ inside' = Entered(event_should_generate(Top.type))
           /\ quiet' = (quiet \/ (event_should_generate(Top.type) /\ HandlersOfTop[i].quiet))
           /\ stack' = IF event_should_generate(Top.type)
                       THEN [stack EXCEPT ![Len(stack)] = Calling(HandlersOfTop[i])] ELSE stack
    BY DEF StartHandler
  <2>4. events' = [events EXCEPT ![a][t] = new(i)]
    BY <2>2, <2>3
  <2>5. stack' = IF runs THEN [stack EXCEPT ![n] = Calling(list[i])] ELSE stack
    BY <2>2, <2>3
  <2>6. quiet' = (quiet \/ (runs /\ list[i].quiet))
    BY <2>2, <2>3
  <2>7. inside' = [inside EXCEPT ![t] = IF runs THEN inside[t] + 1 ELSE inside[t]]
    BY <2>2, <2>3 DEF Entered
  <2> QED BY <2>1, <2>3, <2>4, <2>5, <2>6, <2>7
<1>4. /\ GoodList(new(i)) /\ new(i) # <<>> /\ DOMAIN new(i) = DOMAIN list
      /\ list[i].refnum \in 0 .. MaxRefnum
      /\ list[i].quiet \in BOOLEAN
      /\ new(i)[i].has_run
      /\ \A e \in DOMAIN list : /\ new(i)[e].refnum = list[e].refnum
                                /\ e # i => new(i)[e].has_run = list[e].has_run
  <2> HIDE DEF list
  <2> QED BY <1>1, <1>2, FlagSet
<1>5. /\ events' \in [Accts -> [Types -> Seq(Entry)]]
      /\ \A b \in Accts, u \in Types :
            events'[b][u] = IF b = a /\ u = t THEN new(i) ELSE events[b][u]
  <2>1. new(i) \in Seq(Entry)
    BY <1>4 DEF GoodList
  <2>2. a \in Accts /\ t \in Types
    BY <1>1
  <2>3. events' = [events EXCEPT ![a][t] = new(i)]
    BY <1>3
  <2> HIDE DEF new, a, t
  <2> QED BY <2>1, <2>2, <2>3, EventsExcept
<1> DEFINE top == IF runs THEN Calling(list[i]) ELSE stack[n]
<1>6. /\ top \in Frame /\ top.acct = a /\ top.type = t /\ top.nested = stack[n].nested
      /\ top.ran = IF runs THEN stack[n].ran \cup {list[i].refnum} ELSE stack[n].ran
      /\ top.at = IF runs THEN "handler" ELSE "loop"
  <2>1. stack[n] \in Frame /\ quiet \in BOOLEAN /\ Top = stack[n]
    BY <1>1 DEF Typed, Top, Last
  <2> HIDE DEF n, list
  <2> QED BY <1>1, <1>4, <2>1 DEF Frame, Calling
<1> HIDE DEF top
<1>7. /\ stack' \in Seq(Frame) /\ DOMAIN stack' = 1 .. n
      /\ \A j \in 1 .. n : stack'[j] = IF j = n THEN top ELSE stack[j]
  <2>1. CASE runs
    <3>1. stack' = [stack EXCEPT ![n] = top]
      BY <1>3, <2>1 DEF top
    <3>2. n = Len(stack)
      OBVIOUS
    <3>3. stack \in Seq(Frame) /\ n \in DOMAIN stack /\ DOMAIN stack = 1 .. n
      BY <1>1 DEF Typed
    <3> HIDE DEF n
    <3> QED BY <1>6, <3>1, <3>3, ExceptSeq
  <2>2. CASE ~runs
    <3>1. stack' = stack /\ top = stack[n]
      BY <1>3, <2>2 DEF top
    <3>2. stack \in Seq(Frame) /\ DOMAIN stack = 1 .. n
      BY <1>1 DEF Typed
    <3> HIDE DEF n
    <3> QED BY <3>1, <3>2
  <2> QED BY <2>1, <2>2
<1>8. UNCHANGED <<next_refnum, recursive, hangs>>
  BY DEF StartHandler
<1>9. n \in DOMAIN stack /\ a \in Accts /\ t \in Types /\ i \in DOMAIN list
  BY <1>1
<1>10. \A j \in 1 .. n : /\ stack'[j].acct = stack[j].acct /\ stack'[j].type = stack[j].type
                         /\ stack'[j].nested = stack[j].nested
  BY <1>6, <1>7
<1>11. Lists'
  <2> SUFFICES ASSUME NEW b \in Accts, NEW u \in Types
               PROVE  GoodList(events'[b][u])
    BY DEF Lists
  <2>1. next_refnum' = next_refnum /\ GoodList(events[b][u])
    BY <1>1, <1>8 DEF Lists
  <2>2. events'[b][u] = new(i) \/ events'[b][u] = events[b][u]
    <3> HIDE DEF new
    <3> QED BY <1>5
  <2> HIDE DEF new
  <2> QED BY <1>4, <2>1, <2>2
(* A handler of the type is running under the event if it may not run one. *)
<1>12. ~runs => \E j \in 1 .. n - 1 : stack[j].type = t /\ stack[j].at = "handler"
  <2>1. SUFFICES ASSUME ~runs PROVE \E j \in 1 .. n - 1 : stack[j].type = t /\ stack[j].at = "handler"
    OBVIOUS
  <2>2. inside[t] # 0
    BY <2>1 DEF event_should_generate
  <2>3. inside[t] = Cardinality(InHandler(stack, t))
    BY <1>9 DEF InsideExact, InHandler
  <2>4. InHandler(stack, t) # {}
    BY <2>2, <2>3, FS_EmptySet
  <2>5. PICK j \in InHandler(stack, t) : TRUE
    BY <2>4
  <2>6. j \in 1 .. n /\ j # n /\ stack[j].type = t /\ stack[j].at = "handler"
    BY <1>1, <2>5 DEF InHandler
  <2> HIDE DEF n, t
  <2> QED BY <1>1, <2>6
<1>13. \A e \in DOMAIN list : list[e].refnum = list[i].refnum => e = i
  BY <1>2 DEF GoodList
<1> HIDE DEF n, a, t, list, new, runs
<1>14. Newest'
  BY <1>1, <1>7, <1>10 DEF Newest, Same
(* The lists of the other events that are on their own are untouched.      *)
<1>16. ASSUME NEW j \in 1 .. n, j # n, ~stack[j].nested
       PROVE  /\ events'[stack[j].acct][stack[j].type] = events[stack[j].acct][stack[j].type]
              /\ j \in DOMAIN stack
  <2>1. j < n /\ j \in DOMAIN stack
    BY <1>1, <1>16
  <2>2. ~Same(stack[j], stack[n])
    BY <1>9, <1>16, <2>1 DEF Newest
  <2>3. ~(stack[j].acct = a /\ stack[j].type = t)
    BY <2>2 DEF Same, a, t
  <2> QED BY <1>1, <1>5, <2>1, <2>3
<1>17. Flagged(top, new(i)) \/ stack[n].nested
  <2>1. SUFFICES ASSUME ~stack[n].nested PROVE Flagged(top, new(i))
    OBVIOUS
  <2>2. Flagged(stack[n], list)
    BY <1>9, <2>1 DEF Remembers, list, a, t
  <2> QED BY <1>4, <1>6, <1>13, <2>2 DEF Flagged
<1>18. Remembers'
  <2>1. ASSUME NEW j \in 1 .. n, ~stack'[j].nested
        PROVE  Flagged(stack'[j], events'[stack'[j].acct][stack'[j].type])
    <3>1. CASE j = n
      <4>1. events'[stack'[n].acct][stack'[n].type] = new(i)
        BY <1>5, <1>6, <1>7, <1>9, <3>1
      <4>2. stack'[n] = top /\ ~stack[n].nested
        BY <1>6, <1>7, <2>1, <3>1
      <4> QED BY <1>17, <3>1, <4>1, <4>2
    <3>2. CASE j # n
      <4>1. stack'[j] = stack[j]
        BY <1>7, <3>2
      <4> QED BY <1>16, <2>1, <3>2, <4>1 DEF Remembers
    <3> QED BY <3>1, <3>2
  <2> QED BY <1>7, <2>1 DEF Remembers
<1>19. ASSUME NEW j \in 1 .. n, Outermost(j)' PROVE Outermost(j)
  <2>1. \A k \in 1 .. j - 1 : k \in 1 .. n /\ k # n
    BY <1>1
  <2> QED BY <1>7, <1>10, <1>19, <2>1 DEF Outermost
<1>20. Credits'
  <2>1. ASSUME NEW j \in 1 .. n, ~stack'[j].nested, Outermost(j)'
        PROVE  Ran(stack'[j], events'[stack'[j].acct][stack'[j].type])
    <3>1. CASE j = n
      <4>1. events'[stack'[n].acct][stack'[n].type] = new(i)
        BY <1>5, <1>6, <1>7, <1>9, <3>1
      <4>2. stack'[n] = top /\ ~stack[n].nested /\ Outermost(n)
        BY <1>6, <1>7, <1>19, <2>1, <3>1
      <4>3. Ran(stack[n], list)
        BY <1>9, <4>2 DEF Credits, list, a, t
      <4>4. runs
        BY <1>12, <4>2 DEF Outermost, t
      <4>5. Ran(top, new(i))
        BY <1>4, <1>6, <4>3, <4>4 DEF Ran
      <4> QED BY <3>1, <4>1, <4>2, <4>5
    <3>2. CASE j # n
      <4>1. stack'[j] = stack[j]
        BY <1>7, <3>2
      <4> QED BY <1>16, <1>19, <2>1, <3>2, <4>1 DEF Credits
    <3> QED BY <3>1, <3>2
  <2> QED BY <1>7, <2>1 DEF Credits
<1>21. InsideExact' /\ inside' \in [Types -> Nat]
  <2>1. ASSUME NEW u \in Types
        PROVE  inside'[u] = Cardinality(InHandler(stack', u)) /\ inside'[u] \in Nat
    <3>1. inside[u] = Cardinality(InHandler(stack, u)) /\ inside[u] \in Nat
      BY DEF InsideExact, InHandler, Typed
    <3>2. IsFiniteSet(InHandler(stack, u))
      BY <1>1, InHandlerFinite
    <3>3. CASE u = t /\ runs
      <4>1. n \notin InHandler(stack, u)
        BY <1>1 DEF InHandler
      <4>2. InHandler(stack', u) = InHandler(stack, u) \cup {n}
        BY <1>1, <1>6, <1>7, <3>3 DEF InHandler
      <4>3. inside'[u] = inside[u] + 1
        BY <1>3, <3>3 DEF Typed
      <4>4. Cardinality(InHandler(stack, u) \cup {n}) = Cardinality(InHandler(stack, u)) + 1
        BY <3>2, <4>1, FS_AddElement
      <4> QED BY <3>1, <4>2, <4>3, <4>4
    <3>4. CASE ~(u = t /\ runs)
      <4>1. InHandler(stack', u) = InHandler(stack, u)
        <5>1. CASE runs
          <6>1. /\ stack'[n].type = t /\ stack[n].type = t /\ u # t
                /\ \A j \in 1 .. n : j # n => stack'[j] = stack[j]
            BY <1>1, <1>6, <1>7, <3>4, <5>1 DEF t
          <6> QED BY <1>1, <1>7, <6>1 DEF InHandler
        <5>2. CASE ~runs
          BY <1>1, <1>6, <1>7, <5>2 DEF InHandler
        <5> QED BY <5>1, <5>2
      <4>2. inside'[u] = inside[u]
        BY <1>3, <3>4 DEF Typed
      <4> QED BY <3>1, <4>1, <4>2
    <3> QED BY <3>3, <3>4
  <2>2. inside' \in [Types -> Nat]
    BY <1>3, <2>1 DEF Typed
  <2> QED BY <2>1, <2>2 DEF InsideExact, InHandler
<1>22. Typed'
  BY <1>3, <1>4, <1>5, <1>7, <1>8, <1>21 DEF Typed
<1> QED BY <1>11, <1>14, <1>18, <1>20, <1>21, <1>22

-----------------------------------------------------------------------------
LEMMA EventStep == EventInv /\ [Next]_vars => EventInv'
<1> SUFFICES ASSUME EventInv, [Next]_vars PROVE EventInv'
  OBVIOUS
<1>1. CASE \/ \E a \in Accts : Deleting(a)
           \/ \E b \in Recursive \ {recursive} : SetRecursive(b)
  BY <1>1, DeletingDeletes, DeletesKeep
<1>2. ASSUME NEW a \in Accts, NEW t \in Types, NEW cmd \in Commands,
             Add(a, NameOfType[t], cmd, cmd \in Quiet)
      PROVE  EventInv'
  <2> DEFINE q == cmd \in Quiet
  <2>1. q \in BOOLEAN /\ Add(a, NameOfType[t], cmd, q)
    BY <1>2
  <2> HIDE DEF q
  <2> QED BY <2>1, AddKeeps
<1>3. ASSUME NEW a \in Accts, NEW t \in Types, Generate(a, t) PROVE EventInv'
  BY <1>3, GenerateKeeps
<1>4. CASE StartHandler
  BY <1>4, StartKeeps
<1>5. CASE Finish
  BY <1>5, FinishKeeps
<1>6. ASSUME NEW ret \in {0, 1}, HandlerReturns(ret) PROVE EventInv'
  BY <1>6, ReturnKeeps
<1>7. CASE UNCHANGED vars
  <2>1. stack' = stack /\ events' = events /\ next_refnum' = next_refnum
    BY <1>7 DEF vars
  <2>2. Typed' /\ InsideExact' /\ Lists'
    BY <1>7, <2>1 DEF vars, EventInv, Typed, InsideExact, Lists
  <2>3. Newest'
    BY <2>1 DEF EventInv, Newest
  <2>4. Remembers' /\ Credits'
    BY <2>1 DEF EventInv, Remembers, Credits, Outermost
  <2> QED BY <2>2, <2>3, <2>4 DEF EventInv
<1> QED BY <1>1, <1>2, <1>3, <1>4, <1>5, <1>6, <1>7 DEF Next, Command, Step, Deleting

LEMMA EventInvHolds == Spec => []EventInv
<1>1. Init => EventInv
  BY EventInit
<1>2. EventInv /\ [Next]_vars => EventInv'
  BY EventStep
<1> QED BY <1>1, <1>2, PTL DEF Spec

(* The lists, the counters and the events in progress are what they are    *)
(* declared to be, whatever handlers do (pork_events.c).                   *)
THEOREM EventsTypeOK == Spec => []TypeOK
<1>1. EventInv => TypeOK
  BY DEF EventInv, Typed, TypeOK
<1> QED BY <1>1, EventInvHolds, PTL

(* The counter inside of every type is exact, however deep events are      *)
(* nested and whoever ends them (event_generate).                          *)
THEOREM InsideCountsHandlers == Spec => []InsideExact
<1>1. EventInv => InsideExact
  BY DEF EventInv
<1> QED BY <1>1, EventInvHolds, PTL

LEMMA AddKeepsStack ==
    ASSUME EventInv, NEW a, NEW name, NEW cmd, NEW q, Add(a, name, cmd, q)
    PROVE  /\ DOMAIN stack' = DOMAIN stack
           /\ \A i \in DOMAIN stack : stack'[i].at = stack[i].at
BY ForgettingKeeps DEF Add, EventInv

(* What a step begins: a handler of the event on top that has not run.     *)
LEMMA StartsUnrun ==
    ASSUME EventInv, StartHandler
    PROVE  \/ stack' = stack
           \/ /\ DOMAIN stack' = DOMAIN stack
              /\ \A i \in DOMAIN stack : i # Len(stack) => stack'[i] = stack[i]
              /\ stack'[Len(stack)].ran # Top.ran \/ Top.nested
<1>1. PICK i \in Pending : stack' = IF event_should_generate(Top.type)
                                    THEN [stack EXCEPT ![Len(stack)] = Calling(HandlersOfTop[i])]
                                    ELSE stack
  BY DEF StartHandler
<1>2. /\ stack # <<>> /\ Len(stack) \in DOMAIN stack /\ DOMAIN stack = 1 .. Len(stack)
      /\ Top = stack[Len(stack)] /\ Top \in Frame
      /\ Top.acct \in Accts /\ Top.type \in Types
  <2>1. stack # <<>> /\ Top = stack[Len(stack)]
    BY DEF StartHandler, Top, Last
  <2>2. Len(stack) \in DOMAIN stack
    BY <2>1, FramesTyped, EmptySeq DEF EventInv
  <2> QED BY <2>1, <2>2, FramesTyped DEF EventInv
<1>3. i \in DOMAIN HandlersOfTop /\ ~HandlersOfTop[i].has_run
  BY DEF Pending, Waiting
<1>4. ASSUME ~Top.nested PROVE HandlersOfTop[i].refnum \notin Top.ran
  <2>1. Flagged(Top, HandlersOfTop)
    BY <1>2, <1>4 DEF EventInv, Remembers, HandlersOfTop
  <2> QED BY <1>3, <2>1 DEF Flagged
<1>5. Calling(HandlersOfTop[i]).ran = Top.ran \cup {HandlersOfTop[i].refnum}
  BY <1>2 DEF Calling, Frame
<1> HIDE DEF Calling
<1>6. CASE event_should_generate(Top.type)
  <2>1. stack' = [stack EXCEPT ![Len(stack)] = Calling(HandlersOfTop[i])]
    BY <1>1, <1>6
  <2>2. /\ DOMAIN stack' = DOMAIN stack
        /\ \A j \in DOMAIN stack : j # Len(stack) => stack'[j] = stack[j]
        /\ stack'[Len(stack)].ran = Top.ran \cup {HandlersOfTop[i].refnum}
    BY <1>2, <1>5, <2>1
  <2> QED BY <1>4, <2>2
<1>7. CASE ~event_should_generate(Top.type)
  BY <1>1, <1>7
<1> QED BY <1>6, <1>7

-----------------------------------------------------------------------------
OnceStep ==
    \A i \in DOMAIN stack' :
       i \in DOMAIN stack /\ stack[i].at = "loop" /\ stack'[i].at = "handler"
          => stack'[i].ran # stack[i].ran \/ stack[i].nested

LEMMA OnceStepHolds == ASSUME EventInv, [Next]_vars PROVE OnceStep
<1> SUFFICES ASSUME NEW i \in DOMAIN stack', i \in DOMAIN stack,
                    stack[i].at = "loop", stack'[i].at = "handler"
             PROVE  stack'[i].ran # stack[i].ran \/ stack[i].nested
  BY DEF OnceStep
<1>1. /\ stack \in Seq(Frame) /\ DOMAIN stack = 1 .. Len(stack) /\ Len(stack) \in Nat
      /\ stack[i] \in Frame /\ stack # <<>>
  BY FramesTyped, EmptySeq DEF EventInv
<1>2. CASE \/ \E a \in Accts : Deleting(a)
           \/ \E b \in Recursive \ {recursive} : SetRecursive(b)
  BY <1>2, DeletingDeletes DEF Deletes
<1>3. CASE \E a \in Accts, t \in Types, cmd \in Commands :
              Add(a, NameOfType[t], cmd, cmd \in Quiet)
  BY <1>3, AddKeepsStack
<1>4. ASSUME NEW a \in Accts, NEW t \in Types, Generate(a, t) PROVE FALSE
  <2> DEFINE under == [j \in DOMAIN stack |->
                         IF stack[j].acct = a /\ stack[j].type = t
                         THEN [stack[j] EXCEPT !.nested = TRUE, !.first = {}] ELSE stack[j]]
             top   == [acct |-> a, type |-> t, at |-> "loop", quiet |-> FALSE,
                       old |-> FALSE, first |-> Refnums(events[a][t]),
                       ran |-> {}, nested |-> FALSE]
  <2>1. stack' = Append(under, top)
    BY <1>4 DEF Generate
  <2>2. \A j \in DOMAIN stack : under[j] \in Frame /\ under[j].at = stack[j].at
    <3> TAKE j \in DOMAIN stack
    <3>1. stack[j] \in Frame
      BY FramesTyped DEF EventInv
    <3>2. under[j] = [stack[j] EXCEPT !.nested = TRUE, !.first = {}] \/ under[j] = stack[j]
      OBVIOUS
    <3> HIDE DEF under
    <3> QED BY <3>1, <3>2 DEF Frame
  <2>3. under \in Seq(Frame) /\ Len(under) = Len(stack)
    <3>1. under = [j \in 1 .. Len(stack) |-> under[j]]
      BY <1>1
    <3> HIDE DEF under
    <3>2. under \in [1 .. Len(stack) -> Frame]
      BY <1>1, <2>2, <3>1
    <3> QED BY <1>1, <3>2, SeqDef, LenProperties
  <2>4. under[i] = stack'[i]
    <3> HIDE DEF under, top
    <3>1. i \in 1 .. Len(under)
      BY <1>1, <2>3
    <3>2. under \in Seq(Frame \cup {top}) /\ top \in Frame \cup {top}
      BY <2>3, SeqMonotonic
    <3> QED BY <2>1, <3>1, <3>2, AppendProperties
  <2> QED BY <2>2, <2>4
<1>5. CASE StartHandler
  <2>1. CASE i = Len(stack)
    BY <1>5, <2>1, StartsUnrun DEF Top, Last
  <2>2. CASE i # Len(stack)
    BY <1>5, <2>2, StartsUnrun
  <2> QED BY <2>1, <2>2
<1>6. ASSUME stack' = Front(stack) PROVE FALSE
  <2>1. /\ DOMAIN stack' = 1 .. Len(stack) - 1
        /\ \A j \in 1 .. Len(stack) - 1 : stack'[j] = stack[j]
    BY <1>1, <1>6, FrontElements, LenProperties
  <2> QED BY <2>1
<1>7. CASE Finish
  BY <1>6, <1>7 DEF Finish
<1>8. ASSUME NEW ret \in {0, 1}, HandlerReturns(ret) PROVE FALSE
  <2>1. stack' = [stack EXCEPT ![Len(stack)] = [stack[Len(stack)] EXCEPT !.at = "loop",
                                                  !.quiet = FALSE, !.old = FALSE]]
    BY <1>6, <1>8 DEF HandlerReturns
  <2>2. Top = stack[Len(stack)] /\ Top.at = "handler"
    BY <1>8 DEF HandlerReturns, Top, Last
  <2> QED BY <1>1, <2>1, <2>2
<1>9. CASE UNCHANGED vars
  BY <1>9 DEF vars
<1> QED BY <1>2, <1>3, <1>4, <1>5, <1>7, <1>8, <1>9 DEF Next, Command, Step, Deleting

MissedStep == EndsNow /\ inside[Top.type] = 0 /\ ~Top.nested => Missed(Top) = {}

LEMMA MissedStepHolds == ASSUME EventInv, [Next]_vars PROVE MissedStep
<1> SUFFICES ASSUME EndsNow, inside[Top.type] = 0, ~Top.nested PROVE Missed(Top) = {}
  BY DEF MissedStep
<1> DEFINE n == Len(stack)
<1>1. /\ stack \in Seq(Frame) /\ n \in DOMAIN stack /\ DOMAIN stack = 1 .. n /\ n \in Nat \ {0}
      /\ Top = stack[n] /\ Top.type \in Types /\ Top.acct \in Accts
      /\ stack' = Front(stack) /\ Top.at = "loop"
  <2>1. stack # <<>> /\ Top = stack[n] /\ stack' = Front(stack) /\ Top.at = "loop"
    BY DEF EndsNow, Top, Last
  <2>2. n \in Nat \ {0} /\ n \in DOMAIN stack
    BY <2>1, FramesTyped, EmptySeq DEF EventInv
  <2> QED BY <2>1, <2>2, FramesTyped DEF EventInv
<1>2. DOMAIN stack' = 1 .. n - 1
  BY <1>1, FrontElements, LenProperties, EmptySeq
(* The stack gets shorter only when an event ends.                         *)
<1>3. Waiting = {}
  <2>1. stack' # stack
    BY <1>1, <1>2
  <2>2. ~StartHandler
    <3>1. DOMAIN stack' # DOMAIN stack
      <4>1. n \in DOMAIN stack /\ n \notin 1 .. n - 1
        BY <1>1
      <4> QED BY <1>2, <4>1
    <3> QED BY <2>1, <3>1, StartsUnrun
  <2>3. ASSUME NEW a \in Accts, NEW t \in Types PROVE ~Generate(a, t)
    <3> SUFFICES ASSUME Generate(a, t) PROVE FALSE
      OBVIOUS
    <3> DEFINE under == [j \in DOMAIN stack |->
                           IF stack[j].acct = a /\ stack[j].type = t
                           THEN [stack[j] EXCEPT !.nested = TRUE, !.first = {}] ELSE stack[j]]
               top   == [acct |-> a, type |-> t, at |-> "loop", quiet |-> FALSE,
                         old |-> FALSE, first |-> Refnums(events[a][t]),
                         ran |-> {}, nested |-> FALSE]
    <3>1. stack' = Append(under, top)
      BY DEF Generate
    <3>2. \A j \in 1 .. n : under[j] \in {under[k] : k \in 1 .. n}
      OBVIOUS
    <3>3. under \in [1 .. n -> {under[k] : k \in 1 .. n}]
      BY <1>1, <3>2
    <3>4. under \in Seq({under[k] : k \in 1 .. n} \cup {top}) /\ Len(under) = n
      <4> HIDE DEF under, top
      <4>1. under \in [1 .. n -> {under[k] : k \in 1 .. n} \cup {top}]
        BY <3>3
      <4> QED BY <1>1, <4>1, SeqDef, LenProperties
    <3> HIDE DEF under, top
    <3>5. Len(stack') = n + 1 /\ stack' \in Seq({under[k] : k \in 1 .. n} \cup {top})
      BY <3>1, <3>4, AppendProperties
    <3>6. DOMAIN stack' = 1 .. n + 1
      BY <3>5, LenProperties
    <3> QED BY <1>1, <1>2, <3>6
  <2>4. ASSUME NEW ret \in {0, 1} PROVE ~HandlerReturns(ret)
    BY <1>1 DEF HandlerReturns
  <2>5. (\A b \in Recursive \ {recursive} : ~SetRecursive(b))
        /\ \A a \in Accts : ~Deleting(a)
    BY <2>1, DeletingDeletes DEF Deletes
  <2>6. \A a \in Accts, t \in Types, cmd \in Commands :
           ~Add(a, NameOfType[t], cmd, cmd \in Quiet)
    <3>1. DOMAIN stack' # DOMAIN stack
      <4>1. n \in DOMAIN stack /\ n \notin 1 .. n - 1
        BY <1>1
      <4> QED BY <1>2, <4>1
    <3> QED BY <3>1, AddKeepsStack
  <2>7. Finish
    BY <2>1, <2>2, <2>3, <2>4, <2>5, <2>6 DEF Next, Command, Step, Deleting, vars
  <2> QED BY <2>7 DEF Finish
<1>4. Outermost(n)
  <2>1. inside[Top.type] = Cardinality(InHandler(stack, Top.type))
    BY <1>1 DEF EventInv, InsideExact, InHandler
  <2>2. InHandler(stack, Top.type) = {}
    BY <1>1, <2>1, InHandlerFinite
  <2>3. \A j \in 1 .. n - 1 : j \in DOMAIN stack /\ stack[j].at \in {"loop", "handler"}
    BY <1>1, FramesTyped, FrameFields DEF EventInv
  <2> HIDE DEF n
  <2> QED BY <1>1, <2>2, <2>3 DEF Outermost, InHandler
<1>5. Ran(Top, HandlersOfTop)
  BY <1>1, <1>4 DEF EventInv, Credits, HandlersOfTop
<1> QED BY <1>3, <1>5 DEF Missed, Waiting, Ran, HandlersOfTop, Refnums

(* No handler runs twice for one event, and an event that nobody took over *)
(* has run every handler that was and is there, whatever handlers do to    *)
(* the lists and however events are nested, unless one of them generated   *)
(* the same event again (event_generate).                                  *)
THEOREM EveryHandlerOnce == Spec => HandlersOnce
<1>1. EventInv /\ [Next]_vars => OnceStep /\ MissedStep
  BY OnceStepHolds, MissedStepHolds
<1>2. OncePerEvent <=> [][OnceStep]_vars
  BY DEF OncePerEvent, OnceStep
<1>3. MissedOnlyIfNested <=> [][MissedStep]_vars
  BY DEF MissedOnlyIfNested, MissedStep
<1> QED BY <1>1, <1>2, <1>3, EventInvHolds, PTL DEF Spec, HandlersOnce
-----------------------------------------------------------------------------
(* The timers, for any number of them, of accounts and of commands.        *)

(* A bounded set of numbers that is not empty has a largest element.       *)
LEMMA LargestExists ==
    ASSUME NEW R \in SUBSET Timers!Refnums, R # {}
    PROVE  \E r \in R : \A q \in R : q <= r
<1> DEFINE T == {MaxTimers - r : r \in R}
<1>1. T \subseteq Nat /\ T # {}
  <2>1. R \subseteq Int /\ \A r \in R : MaxTimers - r \in Nat
    BY TimersAssumption DEF Timers!Refnums
  <2> QED BY <2>1
<1>2. PICK t \in T : \A u \in T : ~(<<u, t>> \in OpToRel(<, Nat))
  BY <1>1, NatLessThanWellFounded, WFMin
<1>3. PICK r \in R : t = MaxTimers - r
  BY <1>2
<1>4. ASSUME NEW q \in R PROVE q <= r
  <2>1. MaxTimers - q \in T
    OBVIOUS
  <2>2. ~(MaxTimers - q < t)
    BY <1>1, <1>2, <2>1 DEF OpToRel
  <2> QED BY <1>3, <2>2, TimersAssumption DEF Timers!Refnums
<1> QED BY <1>3, <1>4

(* FirstOf is None or the first node of the part of the list it is given.  *)
LEMMA FirstOfIn ==
    ASSUME NEW R \in SUBSET Timers!Refnums
    PROVE  /\ Timers!FirstOf(R) \in R \cup {Timers!None}
           /\ Timers!FirstOf(R) = Timers!None => R = {}
<1>1. CASE R = {}
  BY <1>1 DEF Timers!FirstOf
<1>2. CASE R # {}
  <2>1. Timers!FirstOf(R) \in R
    BY <1>2, LargestExists DEF Timers!FirstOf
  <2> QED BY <2>1, TimersAssumption DEF Timers!None, Timers!Refnums
<1> QED BY <1>1, <1>2

LEMMA NextOfIn ==
    ASSUME NEW r \in Timers!Refnums, Timers!Listed \subseteq Timers!Refnums
    PROVE  Timers!NextOf(r) \in {q \in Timers!Listed : q < r} \cup {Timers!None}
<1>1. {q \in Timers!Listed : q < r} \in SUBSET Timers!Refnums
  OBVIOUS
<1> QED BY <1>1, FirstOfIn DEF Timers!NextOf
-----------------------------------------------------------------------------
(* What is behind the properties.  Numbers that were not given out belong  *)
(* to nothing; the walk is at nodes of the list until a command deletes    *)
(* one it needs; and the runs of a timer are those it is short of, with    *)
(* the one that is going on.                                               *)
Unused == /\ \A r \in Timers!Listed : r < last_refnum
          /\ cur < last_refnum /\ next < last_refnum
          /\ \A r \in Timers!Refnums : r >= last_refnum => ran[r] = 0

Walking ==
    /\ pc = "undefined" => lost
    /\ pc = "walk" /\ ~lost => cur \in Timers!Listed \cup {Timers!None}
    /\ pc = "command" => cur # Timers!None /\ next < cur
    /\ pc = "command" /\ ~lost => cur \in Timers!Listed /\ next \in Timers!Listed \cup {Timers!None}

Going(r) == IF pc = "command" /\ cur = r THEN 1 ELSE 0

Counted == \A r \in Timers!Listed :
              timer_list[r].all > 0 =>
                 /\ timer_list[r].times > 0
                 /\ ran[r] + timer_list[r].times = timer_list[r].all + Going(r)

TimerInv == Timers!TypeOK /\ Unused /\ Walking /\ Timers!OwnersExist /\ Counted

(* Whatever is deleted, it is a part of the list; an account takes all of  *)
(* its timers with it.                                                     *)
TimersDeleted(R) ==
    /\ Timers!Commanding /\ R \subseteq Timers!Listed /\ Timers!Free(R)
    /\ \/ online' = online
       \/ \E a \in Accts : online' = online \ {a} /\ R = Timers!OwnedBy(a)

LEMMA DeletionsDelete ==
    ASSUME Timers!TypeOK,
           \/ \E cmd \in Programs : Timers!timer_del(cmd)
           \/ \E r \in Timers!Refnums : Timers!timer_del_refnum(r)
           \/ Timers!timer_destroy
           \/ \E a \in Accts : Timers!pork_acct_free(a)
    PROVE  \E R : TimersDeleted(R)
<1>1. ASSUME NEW cmd \in Programs, Timers!timer_del(cmd) PROVE TimersDeleted({Timers!FirstWith(cmd)})
  <2>1. {r \in Timers!Listed : timer_list[r].command = cmd} \in SUBSET Timers!Refnums
    BY DEF Timers!TypeOK
  <2>2. Timers!FirstWith(cmd) \in Timers!Listed
    BY <1>1, <2>1, FirstOfIn DEF Timers!FirstWith, Timers!timer_del
  <2> QED BY <1>1, <2>2 DEF TimersDeleted, Timers!timer_del
<1>2. ASSUME NEW r \in Timers!Refnums, Timers!timer_del_refnum(r) PROVE TimersDeleted({r})
  BY <1>2 DEF TimersDeleted, Timers!timer_del_refnum
<1>3. CASE Timers!timer_destroy
  <2>1. TimersDeleted(Timers!Listed)
    BY <1>3 DEF TimersDeleted, Timers!timer_destroy
  <2> QED BY <2>1
<1>4. ASSUME NEW a \in Accts, Timers!pork_acct_free(a) PROVE TimersDeleted(Timers!OwnedBy(a))
  BY <1>4 DEF TimersDeleted, Timers!pork_acct_free, Timers!OwnedBy
<1> QED BY <1>1, <1>2, <1>3, <1>4

LEMMA TimerInit == Timers!Init => TimerInv
<1> SUFFICES ASSUME Timers!Init PROVE TimerInv
  OBVIOUS
<1>1. Timers!TypeOK
  <2>1. Timers!Listed = {} /\ timer_list \in [Timers!Listed -> Timers!Timer]
    BY DEF Timers!Init, Timers!Listed
  <2>2. ran \in [Timers!Refnums -> Nat]
    BY DEF Timers!Init
  <2>3. last_refnum \in 0 .. MaxTimers
    BY TimersAssumption DEF Timers!Init
  <2> QED BY <2>1, <2>2, <2>3 DEF Timers!Init, Timers!TypeOK
<1>2. Timers!Listed = {} /\ cur = -1 /\ next = -1 /\ last_refnum = 0 /\ pc = "main"
  BY DEF Timers!Init, Timers!Listed, Timers!None
<1>3. Unused
  BY <1>2 DEF Timers!Init, Unused
<1>4. Walking /\ Timers!OwnersExist /\ Counted
  BY <1>2 DEF Walking, Timers!OwnersExist, Counted
<1> QED BY <1>1, <1>3, <1>4 DEF TimerInv

LEMMA TimerAddKeeps ==
    ASSUME TimerInv, NEW cmd \in Programs, NEW a \in Accts,
           NEW interval \in Intervals, NEW times \in Times,
           Timers!timer_add(cmd, a, interval, times)
    PROVE  TimerInv'
<1> DEFINE entry == [command |-> cmd, acct |-> a, since |-> 0,
                     interval |-> interval, times |-> times, all |-> times]
<1> USE DEF TimerInv
<1>1. PICK new \in Timers!Refnums :
         /\ new = last_refnum /\ last_refnum' = new + 1
         /\ new \notin Timers!Listed /\ cur # new /\ ran[new] = 0
  BY TimersAssumption DEF Timers!timer_add, Timers!TypeOK, Unused, Timers!Refnums
<1>2. /\ Timers!Listed' = Timers!Listed \cup {new}
      /\ timer_list'[new] = entry
      /\ \A r \in Timers!Listed : timer_list'[r] = timer_list[r]
      /\ timer_list' = [r \in Timers!Listed' |-> timer_list'[r]]
  BY <1>1 DEF Timers!timer_add, Timers!Listed
<1>3. entry \in Timers!Timer
  BY TimesAssumption DEF Timers!Timer
<1>4. Timers!TypeOK'
  <2>1. timer_list' \in [Timers!Listed' -> Timers!Timer]
    BY <1>1, <1>2, <1>3 DEF Timers!TypeOK
  <2> QED BY <1>1, <1>2, <2>1, TimersAssumption DEF Timers!TypeOK, Timers!timer_add, Timers!walk, Timers!Refnums
<1>5. Unused'
  BY <1>1, <1>2, TimersAssumption DEF Unused, Timers!timer_add, Timers!walk, Timers!TypeOK, Timers!Refnums, Timers!None
<1>6. Walking'
  BY <1>1, <1>2 DEF Walking, Timers!timer_add, Timers!walk
<1>7. Timers!OwnersExist'
  BY <1>1, <1>2 DEF Timers!OwnersExist, Timers!timer_add
<1>8. Counted'
  <2>1. ASSUME NEW r \in Timers!Listed PROVE Going(r)' = Going(r) /\ ran'[r] = ran[r]
    BY DEF Going, Timers!timer_add, Timers!walk
  <2>2. Going(new)' = 0 /\ ran'[new] = 0 /\ times \in Nat
    BY <1>1, TimesAssumption DEF Going, Timers!timer_add, Timers!walk
  <2> SUFFICES ASSUME NEW r \in Timers!Listed', timer_list'[r].all > 0
               PROVE  /\ timer_list'[r].times > 0
                      /\ ran'[r] + timer_list'[r].times = timer_list'[r].all + Going(r)'
    BY DEF Counted
  <2>3. CASE r = new
    BY <1>2, <2>2, <2>3
  <2>4. CASE r \in Timers!Listed
    BY <1>2, <2>1, <2>4 DEF Counted
  <2> QED BY <1>2, <2>3, <2>4
<1> QED BY <1>4, <1>5, <1>6, <1>7, <1>8

LEMMA TimerDeleteKeeps ==
    ASSUME TimerInv, NEW R, TimersDeleted(R)
    PROVE  TimerInv'
<1> USE DEF TimerInv
<1>1. /\ Timers!Listed' = Timers!Listed \ R
      /\ \A r \in Timers!Listed' : timer_list'[r] = timer_list[r]
      /\ timer_list' = [r \in Timers!Listed' |-> timer_list'[r]]
  BY DEF TimersDeleted, Timers!Free, Timers!Kept, Timers!Listed
<1>2. /\ lost' = (lost \/ R \cap Timers!Needed # {})
      /\ UNCHANGED <<last_refnum, passed, pc, cur, next, ran>>
      /\ online' \subseteq online /\ pc \in {"main", "command"}
  BY DEF TimersDeleted, Timers!Free, Timers!walk, Timers!Commanding
<1>3. Timers!TypeOK'
  <2>1. timer_list' \in [Timers!Listed' -> Timers!Timer]
    BY <1>1 DEF Timers!TypeOK
  <2> QED BY <1>1, <1>2, <2>1 DEF Timers!TypeOK
<1>4. Unused'
  BY <1>1, <1>2 DEF Unused
<1>5. Walking'
  BY <1>1, <1>2 DEF Walking, Timers!Needed
<1>6. Timers!OwnersExist'
  BY <1>1 DEF Timers!OwnersExist, TimersDeleted, Timers!OwnedBy
<1>7. Counted'
  BY <1>1, <1>2 DEF Counted, Going
<1> QED BY <1>3, <1>4, <1>5, <1>6, <1>7

LEMMA TimerTickKeeps == TimerInv /\ Timers!Tick => TimerInv'
<1> SUFFICES ASSUME TimerInv, Timers!Tick PROVE TimerInv'
  OBVIOUS
<1> USE DEF TimerInv
<1>1. /\ Timers!Listed' = Timers!Listed
      /\ UNCHANGED <<last_refnum, online, pc, cur, next, lost, ran>>
      /\ passed' = TRUE
  BY DEF Timers!Tick, Timers!walk, Timers!Listed
<1>2. ASSUME NEW r \in Timers!Listed
      PROVE  /\ timer_list'[r] \in Timers!Timer
             /\ timer_list'[r].acct = timer_list[r].acct
             /\ timer_list'[r].all = timer_list[r].all
             /\ timer_list'[r].times = timer_list[r].times
  <2>1. timer_list[r] \in Timers!Timer
    BY DEF Timers!TypeOK
  <2>2. timer_list'[r] = [timer_list[r] EXCEPT
                            !.since = IF @ < Timers!Horizon THEN @ + 1 ELSE @]
    BY DEF Timers!Tick
  <2> QED BY <2>1, <2>2 DEF Timers!Timer
<1>3. Timers!TypeOK'
  <2>1. timer_list' \in [Timers!Listed' -> Timers!Timer]
    BY <1>1, <1>2 DEF Timers!Tick
  <2> QED BY <1>1, <2>1 DEF Timers!TypeOK
<1>4. Unused' /\ Walking'
  BY <1>1 DEF Unused, Walking
<1>5. Timers!OwnersExist' /\ Counted'
  BY <1>1, <1>2 DEF Timers!OwnersExist, Counted, Going
<1> QED BY <1>3, <1>4, <1>5

LEMMA TimerWalkKeeps == TimerInv /\ Timers!timer_run => TimerInv'
<1> SUFFICES ASSUME TimerInv, Timers!timer_run PROVE TimerInv'
  OBVIOUS
<1> USE DEF TimerInv
<1>1. /\ UNCHANGED <<timer_list, last_refnum, online, ran>>
      /\ Timers!Listed' = Timers!Listed
      /\ pc = "main" /\ pc' = "walk" /\ ~lost' /\ ~passed' /\ next' = -1
  BY DEF Timers!timer_run, Timers!Listed, Timers!None
<1>2. cur' \in Timers!Listed \cup {Timers!None} /\ cur' < last_refnum
  <2>1. cur' \in Timers!Listed \cup {Timers!None}
    BY FirstOfIn DEF Timers!timer_run, Timers!TypeOK
  <2> QED BY <2>1, TimersAssumption DEF Unused, Timers!None, Timers!TypeOK
<1>3. Timers!TypeOK'
  BY <1>1, <1>2, TimersAssumption DEF Timers!TypeOK, Timers!None, Timers!timer_run
<1>4. Unused'
  BY <1>1, <1>2, TimersAssumption DEF Unused, Timers!TypeOK
<1>5. Walking' /\ Timers!OwnersExist'
  BY <1>1, <1>2 DEF Walking, Timers!OwnersExist
<1>6. Counted'
  BY <1>1 DEF Counted, Going
<1> QED BY <1>3, <1>4, <1>5, <1>6

LEMMA TimerVisitKeeps == TimerInv /\ Timers!Visit => TimerInv'
<1> SUFFICES ASSUME TimerInv, Timers!Visit PROVE TimerInv'
  OBVIOUS
<1> USE DEF TimerInv
<1>1. /\ UNCHANGED <<timer_list, last_refnum, online, passed, lost>>
      /\ Timers!Listed' = Timers!Listed /\ pc = "walk" /\ cur \in Timers!Listed /\ cur \in Timers!Refnums
      /\ timer_list[cur] \in Timers!Timer
  BY DEF Timers!Visit, Timers!Listed, Timers!TypeOK
<1>2. Timers!NextOf(cur) \in {q \in Timers!Listed : q < cur} \cup {Timers!None}
  BY <1>1, NextOfIn DEF Timers!TypeOK
<1>3. Timers!NextOf(cur) \in Timers!Refnums \cup {Timers!None} /\ Timers!NextOf(cur) < cur
  <2>1. CASE Timers!NextOf(cur) = Timers!None
    BY <1>1, <2>1, TimersAssumption DEF Timers!None, Timers!Refnums
  <2>2. CASE Timers!NextOf(cur) \in Timers!Listed /\ Timers!NextOf(cur) < cur
    BY <2>2 DEF Timers!TypeOK
  <2> QED BY <1>2, <2>1, <2>2
<1>4. CASE Timers!Due(cur)
  <2>1. CASE /\ pc' = "command" /\ next' = Timers!NextOf(cur) /\ cur' = cur
             /\ ran' = [ran EXCEPT ![cur] = IF @ <= timer_list[cur].all THEN @ + 1 ELSE @]
    <3>1. /\ ran' \in [Timers!Refnums -> Nat]
          /\ \A r \in Timers!Refnums : r # cur => ran'[r] = ran[r]
      BY <1>1, <2>1 DEF Timers!TypeOK
    <3>2. Timers!TypeOK'
      BY <1>1, <1>3, <2>1, <3>1 DEF Timers!TypeOK
    <3>3. Unused'
      BY <1>1, <1>3, <2>1, <3>1, TimersAssumption DEF Unused, Timers!TypeOK, Timers!Refnums, Timers!None
    <3>4. Walking' /\ Timers!OwnersExist'
      BY <1>1, <1>2, <1>3, <2>1, TimersAssumption DEF Walking, Timers!OwnersExist, Timers!Refnums, Timers!None
    <3>5. ASSUME NEW r \in Timers!Listed, timer_list[r].all > 0
          PROVE  /\ timer_list[r].times > 0
                 /\ ran'[r] + timer_list[r].times = timer_list[r].all + Going(r)'
      <4>1. /\ timer_list[r].times \in Nat /\ timer_list[r].all \in Nat
            /\ r \in Timers!Refnums /\ ran[r] \in Nat
        BY TimesAssumption DEF Timers!TypeOK, Timers!Timer
      <4>2. /\ timer_list[r].times > 0
            /\ ran[r] + timer_list[r].times = timer_list[r].all
        BY <1>1, <3>5, <4>1 DEF Counted, Going
      <4>3. CASE r = cur
        <5>1. ran[r] <= timer_list[r].all
          BY <4>1, <4>2
        <5>2. ran'[r] = ran[r] + 1 /\ Going(r)' = 1
          BY <2>1, <4>1, <4>3, <5>1 DEF Going, Timers!TypeOK
        <5> QED BY <4>1, <4>2, <5>2
      <4>4. CASE r # cur
        BY <2>1, <3>1, <4>1, <4>2, <4>4 DEF Going
      <4> QED BY <4>3, <4>4
    <3>6. Counted'
      BY <1>1, <3>5 DEF Counted
    <3> QED BY <3>2, <3>3, <3>4, <3>6
  <2> QED BY <1>4, <2>1 DEF Timers!Visit
<1>5. CASE ~Timers!Due(cur)
  <2>1. cur' = Timers!NextOf(cur) /\ UNCHANGED <<pc, next, ran>>
    BY <1>5 DEF Timers!Visit
  <2> QED BY <1>1, <1>2, <1>3, <2>1, TimersAssumption
          DEF Timers!TypeOK, Unused, Walking, Timers!OwnersExist, Counted, Going, Timers!Refnums, Timers!None
<1> QED BY <1>4, <1>5

LEMMA AgainGood ==
    ASSUME NEW t \in Timers!Timer
    PROVE  /\ Timers!Again(t) \in Timers!Timer /\ Timers!Again(t).acct = t.acct /\ Timers!Again(t).all = t.all
           /\ Timers!Again(t).times = IF t.times > 1 THEN t.times - 1 ELSE t.times
<1> DEFINE n == IF t.times > 1 THEN t.times - 1 ELSE t.times
<1>1. Timers!Again(t) = [t EXCEPT !.since = 0, !.times = n]
  BY DEF Timers!Again, Timers!Timer
<1>2. n \in Nat
  BY DEF Timers!Timer
<1> HIDE DEF n
<1>3. /\ [t EXCEPT !.since = 0, !.times = n] \in Timers!Timer
      /\ [t EXCEPT !.since = 0, !.times = n].acct = t.acct
      /\ [t EXCEPT !.since = 0, !.times = n].all = t.all
      /\ [t EXCEPT !.since = 0, !.times = n].times = n
  BY <1>2 DEF Timers!Timer
<1> QED BY <1>1, <1>3 DEF n

LEMMA TimerReturnKeeps == TimerInv /\ Timers!Return => TimerInv'
<1> SUFFICES ASSUME TimerInv, Timers!Return PROVE TimerInv'
  OBVIOUS
<1> USE DEF TimerInv
<1>1. /\ UNCHANGED <<last_refnum, online, passed, lost, ran>>
      /\ pc = "command" /\ pc' = "walk" /\ cur' = next /\ next' = Timers!None
      /\ cur \in Timers!Listed /\ cur \in Timers!Refnums /\ next < cur
      /\ timer_list[cur] \in Timers!Timer
  BY DEF Timers!Return, Timers!TypeOK, Walking
<1>2. ASSUME NEW r \in Timers!Listed', r # cur
      PROVE  r \in Timers!Listed /\ timer_list'[r] = timer_list[r]
  <2>1. CASE Timers!Over(cur)
    BY <1>2, <2>1 DEF Timers!Return, Timers!Kept, Timers!Listed
  <2>2. CASE ~Timers!Over(cur)
    BY <1>2, <2>2 DEF Timers!Return, Timers!Listed
  <2> QED BY <2>1, <2>2
<1>3. CASE Timers!Over(cur)
  <2>1. /\ Timers!Listed' = Timers!Listed \ {cur}
        /\ timer_list' = [r \in Timers!Listed' |-> timer_list[r]]
    BY <1>3 DEF Timers!Return, Timers!Kept, Timers!Listed
  <2>2. Timers!TypeOK'
    BY <1>1, <2>1, TimersAssumption DEF Timers!TypeOK, Timers!None
  <2>3. Unused'
    BY <1>1, <2>1, TimersAssumption DEF Unused, Timers!TypeOK, Timers!None
  <2>4. Walking'
    <3>1. next # cur
      BY <1>1 DEF Timers!Refnums
    <3> QED BY <1>1, <2>1, <3>1 DEF Walking
  <2>5. Timers!OwnersExist'
    BY <1>1, <2>1 DEF Timers!OwnersExist
  <2>6. Counted'
    BY <1>1, <2>1 DEF Counted, Going
  <2> QED BY <2>2, <2>3, <2>4, <2>5, <2>6
<1>4. CASE ~Timers!Over(cur)
  <2>1. /\ Timers!Listed' = Timers!Listed
        /\ timer_list' = [timer_list EXCEPT ![cur] = Timers!Again(@)]
    BY <1>4 DEF Timers!Return, Timers!Listed
  <2>2. /\ timer_list'[cur] = Timers!Again(timer_list[cur])
        /\ Timers!Again(timer_list[cur]) \in Timers!Timer
        /\ timer_list'[cur].acct = timer_list[cur].acct
        /\ timer_list'[cur].all = timer_list[cur].all
        /\ timer_list'[cur].times = IF timer_list[cur].times > 1
                                    THEN timer_list[cur].times - 1
                                    ELSE timer_list[cur].times
    <3> DEFINE t == timer_list[cur]
    <3>1. timer_list'[cur] = Timers!Again(t)
      BY <1>1, <2>1 DEF Timers!TypeOK
    <3>2. t \in Timers!Timer /\ t.times \in Nat
      BY <1>1 DEF Timers!Timer
    <3>3. /\ Timers!Again(t) \in Timers!Timer /\ Timers!Again(t).acct = t.acct /\ Timers!Again(t).all = t.all
          /\ Timers!Again(t).times = IF t.times > 1 THEN t.times - 1 ELSE t.times
      BY <1>1, AgainGood
    <3> QED BY <3>1, <3>3
  <2>3. Timers!TypeOK'
    BY <1>1, <2>1, <2>2, TimersAssumption DEF Timers!TypeOK, Timers!None
  <2>4. Unused'
    BY <1>1, <2>1, TimersAssumption DEF Unused, Timers!TypeOK, Timers!None
  <2>5. Walking'
    BY <1>1, <2>1 DEF Walking
  <2>6. Timers!OwnersExist'
    BY <1>1, <1>2, <2>1, <2>2 DEF Timers!OwnersExist
  <2>7. Counted'
    <3> SUFFICES ASSUME NEW r \in Timers!Listed, timer_list'[r].all > 0
                 PROVE  /\ timer_list'[r].times > 0
                        /\ ran'[r] + timer_list'[r].times = timer_list'[r].all + Going(r)'
      BY <2>1 DEF Counted
    <3>1. /\ timer_list[r].times \in Nat /\ timer_list[r].all \in Nat
          /\ r \in Timers!Refnums /\ ran[r] \in Nat
      BY TimesAssumption DEF Timers!TypeOK, Timers!Timer
    <3>2. Going(r)' = 0 /\ ran'[r] = ran[r]
      BY <1>1 DEF Going
    <3>3. CASE r = cur
      <4>1. /\ timer_list[r].times > 1
            /\ ran[r] + timer_list[r].times = timer_list[r].all + 1
        BY <1>1, <1>4, <2>2, <3>1, <3>3 DEF Counted, Going, Timers!Over
      <4> QED BY <2>2, <3>1, <3>2, <3>3, <4>1
    <3>4. CASE r # cur
      BY <1>1, <1>2, <2>1, <3>1, <3>2, <3>4 DEF Counted, Going
    <3> QED BY <3>3, <3>4
  <2> QED BY <2>3, <2>4, <2>5, <2>6, <2>7
<1> QED BY <1>3, <1>4

LEMMA TimerWalkEndKeeps == TimerInv /\ Timers!WalkEnd => TimerInv'
<1> SUFFICES ASSUME TimerInv, Timers!WalkEnd PROVE TimerInv'
  OBVIOUS
<1>1. /\ UNCHANGED <<timer_list, last_refnum, online, passed, cur, next, lost, ran>>
      /\ Timers!Listed' = Timers!Listed /\ pc = "walk" /\ pc' = "main"
  BY DEF Timers!WalkEnd, Timers!Listed
<1> QED BY <1>1 DEF TimerInv, Timers!TypeOK, Unused, Walking, Timers!OwnersExist, Counted, Going

LEMMA TimerStrayKeeps == TimerInv /\ Timers!Stray => TimerInv'
<1> SUFFICES ASSUME TimerInv, Timers!Stray PROVE TimerInv'
  OBVIOUS
<1>1. /\ UNCHANGED <<timer_list, last_refnum, online, passed, cur, next, lost, ran>>
      /\ Timers!Listed' = Timers!Listed /\ pc \in {"walk", "command"} /\ pc' = "undefined"
      /\ cur \notin Timers!Listed \cup {Timers!None}
  BY DEF Timers!Stray, Timers!Listed
<1>2. Timers!TypeOK' /\ Unused' /\ Timers!OwnersExist'
  BY <1>1 DEF TimerInv, Timers!TypeOK, Unused, Timers!OwnersExist
<1>3. Walking' /\ Counted'
  BY <1>1 DEF TimerInv, Walking, Counted, Going
<1> QED BY <1>2, <1>3 DEF TimerInv

LEMMA TimerStutterKeeps == TimerInv /\ UNCHANGED Timers!vars => TimerInv'
BY DEF TimerInv, Timers!TypeOK, Unused, Walking, Timers!OwnersExist, Counted, Going, Timers!Listed, Timers!vars

LEMMA TimerStepKeeps == TimerInv /\ [Timers!Next]_(Timers!vars) => TimerInv'
<1> SUFFICES ASSUME TimerInv, [Timers!Next]_(Timers!vars) PROVE TimerInv'
  OBVIOUS
<1>1. CASE \E cmd \in Programs, a \in Accts, i \in Intervals, n \in Times :
              Timers!timer_add(cmd, a, i, n)
  BY <1>1, TimerAddKeeps
<1>2. CASE \/ \E cmd \in Programs : Timers!timer_del(cmd)
           \/ \E r \in Timers!Refnums : Timers!timer_del_refnum(r)
           \/ Timers!timer_destroy
           \/ \E a \in Accts : Timers!pork_acct_free(a)
  <2>1. Timers!TypeOK
    BY DEF TimerInv
  <2>2. PICK R : TimersDeleted(R)
    BY <1>2, <2>1, DeletionsDelete
  <2> QED BY <2>2, TimerDeleteKeeps
<1>3. CASE Timers!Step
  BY <1>3, TimerWalkKeeps, TimerVisitKeeps, TimerWalkEndKeeps, TimerReturnKeeps, TimerStrayKeeps DEF Timers!Step
<1>4. CASE Timers!Tick
  BY <1>4, TimerTickKeeps
<1>5. CASE UNCHANGED Timers!vars
  BY <1>5, TimerStutterKeeps
<1> QED BY <1>1, <1>2, <1>3, <1>4, <1>5 DEF Timers!Next, Timers!Command

LEMMA TimersInvariant == Timers!Spec => []TimerInv
BY TimerInit, TimerStepKeeps, PTL DEF Timers!Spec

-----------------------------------------------------------------------------
(* Every variable has its type.                                            *)
THEOREM TimersTypeOK == Timers!Spec => []Timers!TypeOK
<1>1. TimerInv => Timers!TypeOK
  BY DEF TimerInv
<1> QED BY <1>1, TimersInvariant, PTL

(* timer_run touches freed memory only after a command has deleted the     *)
(* timer it was run for, or the next one, however long the list is.        *)
THEOREM StraysOnlyIfLost == Timers!Spec => []StrayOnlyIfLost
<1>1. TimerInv => StrayOnlyIfLost
  BY DEF TimerInv, Walking, StrayOnlyIfLost, Timers!StrayOnlyIfLost
<1> QED BY <1>1, TimersInvariant, PTL

(* No timer outlives its account (timer_del_owner in pork_acct_free).      *)
THEOREM TimersHaveOwners == Timers!Spec => []Timers!OwnersExist
<1>1. TimerInv => Timers!OwnersExist
  BY DEF TimerInv
<1> QED BY <1>1, TimersInvariant, PTL

(* A timer never runs its command more often than it was asked to.         *)
THEOREM RunsAsAsked == Timers!Spec => []NeverTooOften
<1>1. TimerInv => NeverTooOften
  <2> SUFFICES ASSUME TimerInv, NEW r \in Timers!Listed, timer_list[r].all > 0
               PROVE  ran[r] <= timer_list[r].all
    BY DEF NeverTooOften, Timers!NeverTooOften
  <2>1. /\ timer_list[r].times \in Nat /\ timer_list[r].all \in Nat
        /\ r \in Timers!Refnums /\ ran[r] \in Nat
    BY TimesAssumption DEF TimerInv, Timers!TypeOK, Timers!Timer
  <2>2. /\ timer_list[r].times > 0 /\ Going(r) \in 0 .. 1
        /\ ran[r] + timer_list[r].times = timer_list[r].all + Going(r)
    BY DEF TimerInv, Counted, Going
  <2> QED BY <2>1, <2>2
<1> QED BY <1>1, TimersInvariant, PTL
=============================================================================
