------------------------------- MODULE AimSsi -------------------------------
(***************************************************************************)
(* The list of buddies that the AIM server keeps (libfaim/ssi.c) and what  *)
(* pork does with it (pork_aim.c, pork_aim_proto.c).                       *)
(*                                                                         *)
(* The client has two copies, both ordered by the group and buddy numbers  *)
(* of their items: official, meant to be what the server has, and local,   *)
(* which every edit changes at once.  aim_ssi_sync sends what differs, one *)
(* kind of change at a time, and waits for the answer.  Requests wait with *)
(* pointers to items, so an item has an address here, and the memory of a  *)
(* freed one may be given to a new one (reuse).                            *)
(*                                                                         *)
(* The server and another client of the same account are external: they    *)
(* are what the code assumes of them.  Names are normalized.               *)
(***************************************************************************)
EXTENDS Integers, SequencesExt

CONSTANTS Names,        \* screen names
          Groups,       \* names of groups
          Orphans,      \* the group "orphans"
          Aliases,      \* what a buddy may be called
          Plain,        \* the alias of a buddy that was given none: its name
          Modes,        \* privacy modes
          Null,         \* NULL
          Starts        \* the list of the server at the start, with two bounds: ops, on
                        \* the commands of the user, and trouble, on changes refused,
                        \* edits by another client and lost connections

ASSUME SsiNames == Orphans \in Groups /\ Plain \in Aliases
                   /\ Null \notin Names \cup Groups \cup Aliases

VARIABLES ssi,      \* the session and, in ssi.pork, the lists of the account
          told,     \* what the server has sent
          srv,      \* the list of the server: a set of items
          left,     \* what is left of the two bounds
          past      \* what has happened since the connection was made

vars == <<ssi, told, srv, left, past>>

Unset == -1         \* 0xffff: the number is to be chosen
NoData == << >>
Idle(on) == [x \in {"idle"} |-> on]

(* What goes over the wire has no address.                                 *)
Bare(i)   == [name |-> i.name, gid |-> i.gid, bid |-> i.bid, type |-> i.type, data |-> i.data]
Key(i)    == <<i.gid, i.bid>>
Keys(s)   == {Key(s[i]) : i \in DOMAIN s}
First(s)  == IF s = << >> THEN Null ELSE s[1]
At(s, a)  == First(SelectSeq(s, LAMBDA i : i.at = a))
Others(s, a) == SelectSeq(s, LAMBDA i : i.at # a)
Addresses(s) == {s[i].at : i \in DOMAIN s}

-----------------------------------------------------------------------------
(* The operations on a list of items.                                      *)

Find(list, gid, bid) == First(SelectSeq(list, LAMBDA i : Key(i) = <<gid, bid>>))

InGroup(list, i, gn) ==
    \E j \in DOMAIN list : /\ list[j].type = "group"
                           /\ list[j].gid = i.gid /\ list[j].name = gn

FindItem(list, gn, sn, type) ==
    First(SelectSeq(list, LAMBDA i :
        /\ i.type = type
        /\ CASE gn # Null /\ sn # Null -> i.name = sn /\ InGroup(list, i, gn)
             [] gn # Null /\ sn = Null -> i.bid = 0 /\ i.name = gn
             [] gn = Null /\ sn # Null -> i.name = sn
             [] OTHER                  -> i.name = Null))

Exists(list, sn) == FindItem(list, Null, sn, "buddy") # Null

ParentName(list, sn) ==
    LET cur   == FindItem(list, Null, sn, "buddy")
        group == IF cur = Null THEN Null ELSE Find(list, cur.gid, 0)
    IN  IF group = Null THEN Null ELSE group.name

Tag(item, tag) ==
    IF item # Null /\ tag \in DOMAIN item.data THEN item.data[tag] ELSE Null

GetAlias(list, gn, sn) == Tag(FindItem(list, gn, sn, "buddy"), "alias")

Replaced(data, tag, value) ==
    [t \in DOMAIN data \cup {tag} |-> IF t = tag THEN value ELSE data[t]]

Before(a, b) == a.gid < b.gid \/ (a.gid = b.gid /\ a.bid < b.bid)

(* The place of a new item; of equal ones the first keeps its place only   *)
(* at the head of the list.                                                *)
Inserted(list, new) ==
    IF list = << >> \/ Before(new, list[1]) THEN <<new>> \o list
    ELSE InsertAt(list, Min({Len(list) + 1}
                            \cup {i \in 2 .. Len(list) : ~Before(list[i], new)}), new)

FreeGid(list) ==
    Min((0 .. Len(list)) \ {list[i].gid : i \in {j \in DOMAIN list : list[j].type = "group"}})
FreeBid(list, gid) ==
    Min((0 .. Len(list)) \ {list[i].bid : i \in {j \in DOMAIN list : list[j].gid = gid}})

(* mutant of ItemlistAdd: the number of a buddy is the number of buddies   *)
ItemlistAddCounting(list, item) ==
    Inserted(list, IF item.bid = Unset
                   THEN [item EXCEPT !.bid = Len(SelectSeq(list, LAMBDA i : i.gid = item.gid))]
                   ELSE IF item.gid = Unset THEN [item EXCEPT !.gid = FreeGid(list)] ELSE item)

ItemlistAdd(list, item) ==
    LET gid == IF item.type = "group" /\ item.gid = Unset /\ item.name # Null
               THEN FreeGid(list) ELSE item.gid
        bid == IF item.type # "group" /\ item.bid = Unset
               THEN FreeBid(list, gid) ELSE item.bid
    IN  Inserted(list, [item EXCEPT !.gid = gid, !.bid = bid])

(* The members of a group are listed in its data; a group that has none    *)
(* left keeps the list it had.                                             *)
RebuildGroup(list, name) ==
    LET group == FindItem(list, name, Null, "group")
        kids  == IF group.gid = 0
                 THEN SelectSeq(list, LAMBDA i : i.type = "group" /\ i.gid # 0)
                 ELSE SelectSeq(list, LAMBDA i : i.type = "buddy" /\ i.gid = group.gid)
        ids   == [i \in DOMAIN kids |-> IF group.gid = 0 THEN kids[i].gid ELSE kids[i].bid]
    IN  IF group = Null \/ kids = << >> THEN list
        ELSE [i \in DOMAIN list |->
                IF list[i].at = group.at
                THEN [list[i] EXCEPT !.data = Replaced(@, "kids", ids)] ELSE list[i]]

(* malloc: an address that is not in use.                                  *)
Fresh(S) ==
    LET used     == Addresses(S.local) \cup Addresses(S.official)
        dangling == Addresses(S.pending) \ used
    IN  IF S.reuse /\ dangling # {} THEN Min(dangling)
        ELSE Min((1 .. Cardinality(used \cup dangling) + 1) \ (used \cup dangling))

LocalAdd(S, name, gid, bid, type, data) ==
    [S EXCEPT !.local = ItemlistAdd(@, [at |-> Fresh(S), name |-> name, gid |-> gid,
                                        bid |-> bid, type |-> type, data |-> data])]
OfficialAdd(S, item) ==
    [S EXCEPT !.official = ItemlistAdd(@, Replaced(item, "at", Fresh(S)))]
LocalCopy(S, item) == LocalAdd(S, item.name, item.gid, item.bid, item.type, item.data)

(* The name and the data of the item at address a become those of item.    *)
Overwritten(list, a, item) ==
    [i \in DOMAIN list |->
        IF list[i].at = a THEN [list[i] EXCEPT !.name = item.name, !.data = item.data]
        ELSE list[i]]

-----------------------------------------------------------------------------
(* aim_ssi_sync and aim_ssi_addmoddel.                                     *)

Lacking(a, b) == SelectSeq(a, LAMBDA i : Key(i) \notin Keys(b))
Differing(a, b) ==
    SelectSeq(a, LAMBDA i : LET o == Find(b, i.gid, i.bid)
                            IN  o # Null /\ Bare(i) # Bare(o))

Asked(action, items) ==
    [action |-> action, items |-> [i \in DOMAIN items |-> Bare(items[i])]]

(* What was asked is kept for the properties: the code keeps the pointer.  *)
(* Without a connection nothing is sent, and nothing takes it back.        *)
Request(S, action, items) ==
    [S EXCEPT !.waiting = TRUE,
              !.pending = [i \in DOMAIN items |-> [action |-> action, at |-> items[i].at,
                                                   asked |-> Bare(items[i])]],
              !.out = IF S.phase = "down" THEN @ ELSE Append(@, Asked(action, items))]

(* mutant of Sync: does not wait for the answer to the request before      *)
SyncAtOnce(S) ==
    LET adds == Lacking(S.local, S.official)
        dels == Lacking(S.official, S.local)
        mods == Differing(S.local, S.official)
    IN  CASE adds # << >> -> Request(S, "add", adds)
          [] adds = << >> /\ dels # << >> -> Request(S, "del", dels)
          [] adds = << >> /\ dels = << >> /\ mods # << >> -> Request(S, "mod", mods)
          [] OTHER -> S

(* mutant of Sync: modifications are forgotten                             *)
SyncNoMods(S) ==
    LET adds == Lacking(S.local, S.official)
        dels == Lacking(S.official, S.local)
    IN  CASE S.waiting -> S
          [] ~S.waiting /\ adds # << >> -> Request(S, "add", adds)
          [] ~S.waiting /\ adds = << >> /\ dels # << >> -> Request(S, "del", dels)
          [] OTHER -> S

Sync(S) ==
    LET adds == Lacking(S.local, S.official)
        dels == Lacking(S.official, S.local)
        mods == Differing(S.local, S.official)
    IN  CASE S.waiting -> S
          [] ~S.waiting /\ adds # << >> -> Request(S, "add", adds)
          [] ~S.waiting /\ adds = << >> /\ dels # << >> -> Request(S, "del", dels)
          [] ~S.waiting /\ adds = << >> /\ dels = << >> /\ mods # << >> ->
                Request(S, "mod", mods)
          [] OTHER -> S

-----------------------------------------------------------------------------
(* The edits.                                                              *)

Regrouped(S, group) == [S EXCEPT !.local = RebuildGroup(@, group)]

WithMaster(S) ==
    IF Find(S.local, 0, 0) # Null THEN S ELSE LocalAdd(S, Null, 0, 0, "group", NoData)
WithGroup(S, group) ==
    IF FindItem(S.local, group, Null, "group") # Null THEN S
    ELSE Regrouped(LocalAdd(WithMaster(S), group, Unset, 0, "group", NoData), Null)
WithBuddy(S, name, group, data) ==
    LocalAdd(S, name, FindItem(S.local, group, Null, "group").gid, Unset, "buddy", data)

AddBuddy(S, name, group, alias) ==
    LET data == IF alias = Null THEN NoData ELSE Replaced(NoData, "alias", alias)
    IN  Sync(Regrouped(WithBuddy(WithGroup(S, group), name, group, data), group))

AddRight(S, name, type) == Sync(LocalAdd(S, name, 0, Unset, type, NoData))

WithoutEmpty(list, item) ==
    IF item # Null /\ item.data = NoData THEN Others(list, item.at) ELSE list

WithoutMaster(list) == WithoutEmpty(list, Find(list, 0, 0))
WithoutGroup(list, g) ==
    IF g = Null \/ g.data # NoData THEN list
    ELSE WithoutMaster(RebuildGroup(Others(list, g.at), Null))
LessBuddy(list, group) == WithoutGroup(list, FindItem(list, group, Null, "group"))

DelBuddy(S, name, group) ==
    LET del == FindItem(S.local, group, name, "buddy")
    IN  IF del = Null THEN S
        ELSE Sync([S EXCEPT !.local =
                LessBuddy(RebuildGroup(Others(@, del.at), group), group)])

DelRight(S, name, type) ==
    LET del == FindItem(S.local, Null, name, type)
    IN  IF del = Null THEN S ELSE Sync([S EXCEPT !.local = Others(@, del.at)])

WithTag(S, item, tag, value) ==
    [S EXCEPT !.local = Overwritten(@, item.at,
                                    [item EXCEPT !.data = Replaced(@, tag, value)])]

AliasBuddy(S, name, group, alias) ==
    LET item == FindItem(S.local, group, name, "buddy")
    IN  IF item = Null THEN S ELSE Sync(WithTag(S, item, "alias", alias))

(* aim_ssi_setpermdeny and aim_ssi_setpresence: the item without a name of *)
(* that type, made when there is none.                                     *)
WithUnnamed(S, type) ==
    IF FindItem(S.local, Null, Null, type) # Null THEN S
    ELSE LocalAdd(S, Null, 0, Unset, type, NoData)
Tagged(S, type, tag, value) ==
    Sync(WithTag(S, FindItem(S.local, Null, Null, type), tag, value))
SetTag(S, type, tag, value) == Tagged(WithUnnamed(S, type), type, tag, value)

SetPermDeny(S, mode) == SetTag(S, "pdinfo", "mode", mode)
SetPresence(S, on)   == SetTag(S, "presence", "idle", on)

(* aim_report_idle: the other bits of the mask stay.                       *)
ReportIdle(S, on) == SetPresence([S EXCEPT !.pork.idle = on], on)

-----------------------------------------------------------------------------
(* aim_ssi_cleanlist.  The walk goes on at the item that was next before   *)
(* the list was changed.                                                   *)

Homeless(list, i) == i.type = "buddy" /\ (i.gid = 0 \/ Find(list, i.gid, 0) = Null)

Homed(S, i) ==
    CASE i.name = Null /\ i.type = "buddy" -> DelBuddy(S, Null, Null)
      [] i.name = Null /\ i.type \in {"permit", "deny"} -> DelRight(S, Null, i.type)
      [] i.name # Null /\ Homeless(S.local, i) ->
            DelBuddy(AddBuddy(S, i.name, Orphans, GetAlias(S.local, Null, i.name)),
                     i.name, Null)
      [] OTHER -> S

RECURSIVE HomeFrom(_, _)
HomeFrom(S, a) ==
    LET i    == SelectInSeq(S.local, LAMBDA x : x.at = a)
        next == IF i = Len(S.local) THEN 0 ELSE S.local[i + 1].at
    IN  IF i = 0 THEN S ELSE HomeFrom(Homed(S, S.local[i]), next)

Double(list, i) ==
    /\ list[i].type \in {"buddy", "permit", "deny"} /\ list[i].name # Null
    /\ \E j \in 1 .. i - 1 : /\ list[j].type = list[i].type
                             /\ list[j].gid = list[i].gid
                             /\ list[j].name = list[i].name

Single(list) == LET keep == {i \in DOMAIN list : ~Double(list, i)}
                IN  [n \in 1 .. Cardinality(keep) |->
                        list[CHOOSE i \in keep : Cardinality(keep \cap (1 .. i)) = n]]

Filled(list) ==
    WithoutMaster(SelectSeq(list, LAMBDA i : i.type = "group" => "kids" \in DOMAIN i.data))

CleanList(S) ==
    Sync(IF S.local = << >> THEN S
         ELSE [HomeFrom(S, S.local[1].at) EXCEPT !.local = Filled(Single(@))])

-----------------------------------------------------------------------------
(* aim_ssi_recv_list: the list of the server and the list of pork become   *)
(* one.                                                                    *)

PorkHas(P, name) == \E i \in DOMAIN P.buddies : P.buddies[i].name = name
PorkAliased(P, name, alias) ==
    [P EXCEPT !.buddies = [i \in DOMAIN @ |->
        IF @[i].name = name THEN [@[i] EXCEPT !.alias = alias] ELSE @[i]]]
PorkGroup(P, g) == IF Contains(P.groups, g) THEN P ELSE [P EXCEPT !.groups = Append(@, g)]
PorkAdd(P, name, g, alias) ==
    [PorkGroup(P, g) EXCEPT !.buddies =
        Append(@, [name |-> name, group |-> g, alias |-> alias])]
PorkRight(P, name) ==
    IF Contains(P.rights, name) THEN P ELSE [P EXCEPT !.rights = Append(@, name)]

BuddyFromServer(P, list, name) ==
    LET parent == ParentName(list, name)
        alias  == GetAlias(list, parent, name)
        called == IF alias = Null THEN Plain ELSE alias
    IN  CASE PorkHas(P, name) /\ alias # Null -> PorkAliased(P, name, alias)
          [] PorkHas(P, name) /\ alias = Null -> P
          [] OTHER -> PorkAdd(P, name, IF parent = Null THEN Orphans ELSE parent, called)

FromServer(P, list) ==
    FoldLeft(LAMBDA Q, i :
        CASE i.type = "buddy" /\ i.name # Null -> BuddyFromServer(Q, list, i.name)
          [] i.type = "permit" /\ i.name # Null -> PorkRight(Q, i.name)
          [] i.type = "pdinfo"   -> [Q EXCEPT !.mode = Tag(i, "mode")]
          [] i.type = "presence" -> [Q EXCEPT !.idle = Tag(i, "idle")]
          [] OTHER -> Q, P, list)

(* aim_send_buddy_list: group after group, one edit for each buddy.        *)
SendBuddy(S, b) ==
    LET alias == GetAlias(S.local, b.group, b.name)
    IN  CASE ~Exists(S.local, b.name) -> AddBuddy(S, b.name, b.group, b.alias)
          [] Exists(S.local, b.name) /\ alias # Null ->
                [S EXCEPT !.pork = PorkAliased(@, b.name, alias)]
          [] OTHER -> AliasBuddy(S, b.name, b.group, b.alias)

ByGroup(P) ==
    FlattenSeq([g \in DOMAIN P.groups |->
                 SelectSeq(P.buddies, LAMBDA b : b.group = P.groups[g])])

(* mutant of SendBuddyList: not sent                                       *)
SendNothing(S) == S
SendBuddyList(S) == FoldLeft(SendBuddy, S, ByGroup(S.pork))

(* aim_send_permit_list, and aim_send_block_list: all of them, those that  *)
(* came from the server too.                                               *)
SendRights(S) == FoldLeft(LAMBDA T, n : AddRight(T, n, "permit"), S, S.pork.rights)

FromLocal(S)  == [S EXCEPT !.pork = FromServer(@, S.local)]
SendIdle(S)   == ReportIdle(S, S.pork.idle)
SendMode(S)   == SetPermDeny(S, S.pork.mode)
RecvList(S)   == SendRights(SendBuddyList(SendMode(SendIdle(FromLocal(CleanList(S))))))

-----------------------------------------------------------------------------
(* What the server sends.                                                  *)

(* aim_ssi_freelist and the request for the list: waiting stays.           *)
ReqData(S) ==
    [S EXCEPT !.local = << >>, !.official = << >>, !.pending = << >>,
              !.phase = "asked", !.out = Append(@, Asked("list", << >>))]

(* What comes is put into official one by one, and all of it into local.   *)
LocalFromOfficial(S) == FoldLeft(LocalCopy, S, S.official)
ParseData(S, items) ==
    RecvList(LocalFromOfficial(
        FoldLeft(LAMBDA T, i : OfficialAdd(T, i), [S EXCEPT !.phase = "ready"], items)))

(* Another client has changed the list.                                    *)
ParseAdd(S, item) == OfficialAdd(LocalCopy(S, item), item)

Without(list, key) ==
    LET del == Find(list, key[1], key[2])
    IN  IF del = Null THEN list ELSE Others(list, del.at)
ParseDel(S, item) == [S EXCEPT !.local = Without(@, Key(item)),
                               !.official = Without(@, Key(item))]

Modified(list, item) ==
    LET old == Find(list, item.gid, item.bid)
    IN  IF old = Null THEN list
        ELSE [i \in DOMAIN list |->
                IF list[i].at = old.at THEN Replaced(item, "at", old.at) ELSE list[i]]
ParseMod(S, item) == [S EXCEPT !.local = Modified(@, item), !.official = Modified(@, item)]

(* parseack, for one request that was answered; the types of items stay.   *)
With(list, item) ==
    LET old == Find(list, item.gid, item.bid)
    IN  IF old = Null THEN list ELSE Overwritten(list, old.at, item)

Accepted(S, p) ==
    LET mine == At(S.local, p.at)
    IN  CASE p.action = "add" /\ mine # Null -> OfficialAdd(S, mine)
          [] p.action = "mod" /\ mine # Null -> [S EXCEPT !.official = With(@, mine)]
          [] p.action = "del" -> [S EXCEPT !.official = Others(@, p.at)]
          [] OTHER -> S

Refused(S, p) ==
    LET mine   == At(S.local, p.at)
        theirs == At(S.official, p.at)
        before == Find(S.official, mine.gid, mine.bid)
    IN  CASE p.action = "add" -> [S EXCEPT !.local = Others(@, p.at)]
          [] p.action = "mod" /\ mine # Null /\ before # Null ->
                [S EXCEPT !.local = Overwritten(@, p.at, before)]
          [] p.action = "del" /\ theirs # Null -> LocalCopy(S, theirs)
          [] OTHER -> S

Answer(S, ok) ==
    LET p == Head(S.pending)
    IN  [IF ok THEN Accepted(S, p) ELSE Refused(S, p) EXCEPT !.pending = Tail(@)]
Answered(S, acks) ==
    FoldLeft(Answer, S, SubSeq(acks, 1, Min({Len(acks), Len(S.pending)})))

(* mutant of GoOn: goes on before waiting is cleared                       *)
GoOnTooEarly(S) == IF S.pending # << >> THEN S ELSE Sync(S)

GoOn(S) == IF S.pending # << >> THEN S ELSE Sync([S EXCEPT !.waiting = FALSE])

ParseAck(S, acks) == GoOn(Answered(S, acks))

-----------------------------------------------------------------------------
(* The actions.                                                            *)

(* crossed: an item changed while a request about it was under way.        *)
(* strange: the server refused something or another client wrote.          *)
(* early: a command that needs no list came before the list was asked for. *)
NothingYet == [crossed |-> FALSE, strange |-> FALSE, early |-> FALSE]

NewPork == [groups |-> << >>, buddies |-> << >>, rights |-> << >>,
            mode |-> 0, idle |-> FALSE]

(* aim_setup: a session that was never used.                               *)
NewSession(P) == [phase |-> "down", local |-> << >>, official |-> << >>,
                  pending |-> << >>, waiting |-> FALSE, out |-> << >>,
                  reuse |-> FALSE, pork |-> P]

Init == /\ ssi = NewSession(NewPork)
        /\ told = << >>
        /\ \E start \in Starts : /\ srv = start.list
                                 /\ left = [ops |-> start.ops, trouble |-> start.trouble]
        /\ past = NothingYet

Spent(what, n) == left' = [left EXCEPT ![what] = @ - n]

(* An item is not what it was when the request about it was sent.          *)
Crosses(S) ==
    \E i \in DOMAIN S.pending :
        LET p    == S.pending[i]
            item == At(IF p.action = "del" THEN S.official ELSE S.local, p.at)
        IN  item = Null \/ Bare(item) # p.asked

Now(S) == ssi' = [S EXCEPT !.reuse = FALSE]
Crossing(S) == past' = [past EXCEPT !.crossed = @ \/ Crosses(S)]

(* The handler of the rights of the BOS connection asks for the list, some *)
(* time after the connection is there.                                     *)
ConnUp == /\ ssi.phase = "down"
          /\ ssi' = [ssi EXCEPT !.phase = "up"]
          /\ UNCHANGED <<told, srv, left, past>>
AskList == /\ ssi.phase = "up"
           /\ ssi' = ReqData(ssi)
           /\ UNCHANGED <<told, srv, left, past>>

(* aim_connect_abort: what was under way is lost.                          *)
Lost == /\ ssi.phase # "down" /\ left.trouble > 0
        /\ Spent("trouble", 1)
        /\ ssi' = NewSession(ssi.pork)
        /\ told' = << >> /\ past' = NothingYet
        /\ UNCHANGED srv

(* The commands of the user.  What they change in the lists of pork is     *)
(* kept whether or not it could be sent.                                   *)
Edit(S, E) == /\ left.ops > 0 /\ Spent("ops", 1)
              /\ LET R == IF S.phase = "ready" THEN E ELSE S IN Now(R) /\ Crossing(R)
              /\ UNCHANGED <<told, srv>>

Again == {[ssi EXCEPT !.reuse = r] : r \in {FALSE, Addresses(ssi.pending) # {}}}

UserGroup(g) ==
    /\ ~Contains(ssi.pork.groups, g) /\ left.ops > 0 /\ g # Orphans
    /\ ssi' = [ssi EXCEPT !.pork = PorkGroup(@, g)]
    /\ UNCHANGED <<told, srv, left, past>>

UserAdds(n, g) ==
    /\ ~PorkHas(ssi.pork, n) /\ Contains(ssi.pork.groups, g)
    /\ \E A \in Again : LET S == [A EXCEPT !.pork = PorkAdd(@, n, g, Plain)]
                        IN  Edit(S, IF Exists(S.local, n) THEN S ELSE AddBuddy(S, n, g, Plain))

Removed(P, n) == [P EXCEPT !.buddies = SelectSeq(@, LAMBDA b : b.name # n)]
GroupOf(P, n) == First(SelectSeq(P.buddies, LAMBDA b : b.name = n)).group
UserRemoves(n) ==
    /\ PorkHas(ssi.pork, n)
    /\ LET S == [ssi EXCEPT !.pork = Removed(@, n)]
       IN  Edit(S, DelBuddy(S, n, GroupOf(ssi.pork, n)))

UserAliases(n, a) ==
    /\ PorkHas(ssi.pork, n)
    /\ First(SelectSeq(ssi.pork.buddies, LAMBDA b : b.name = n)).alias # a
    /\ LET S == [ssi EXCEPT !.pork = PorkAliased(@, n, a)]
       IN  Edit(S, AliasBuddy(S, n, GroupOf(S.pork, n), a))

UserPermits(n) ==
    /\ ~Contains(ssi.pork.rights, n)
    /\ \E A \in Again : LET S == [A EXCEPT !.pork = PorkRight(@, n)]
                        IN  Edit(S, AddRight(S, n, "permit"))
UserForbids(n) ==
    /\ Contains(ssi.pork.rights, n)
    /\ LET S == [ssi EXCEPT !.pork.rights = Remove(@, n)]
       IN  Edit(S, DelRight(S, n, "permit"))

(* The two commands that do not ask whether the list is there.             *)
Anytime(S) ==
    /\ left.ops > 0 /\ Spent("ops", 1)
    /\ Now(S)
    /\ past' = [past EXCEPT !.crossed = @ \/ Crosses(S),
                             !.early = @ \/ ssi.phase \in {"down", "up"}]
    /\ UNCHANGED <<told, srv>>
UserMode(m) == /\ m # ssi.pork.mode
               /\ Anytime(SetPermDeny([ssi EXCEPT !.pork.mode = m], m))
UserIdle(on) == on # ssi.pork.idle /\ Anytime(ReportIdle(ssi, on))

-----------------------------------------------------------------------------
(* The server, and another client.                                         *)

SrvHas(s, i) == \E j \in s : Key(j) = Key(i)
SrvDoes(s, action, i) ==
    CASE action = "add" -> s \cup {i}
      [] action = "del" -> {j \in s : Key(j) # Key(i)}
      [] action = "mod" -> {IF Key(j) = Key(i) THEN i ELSE j : j \in s}
Possible(s, action, i) == SrvHas(s, i) <=> action # "add"

(* One change after the other; those in no are refused in any case.        *)
Outcome(s, request, no) ==
    FoldLeft(LAMBDA r, i :
        LET item == request.items[i]
            ok   == Possible(r.srv, request.action, item) /\ i \notin no
        IN  [srv  |-> IF ok THEN SrvDoes(r.srv, request.action, item) ELSE r.srv,
             acks |-> Append(r.acks, ok)],
        [srv |-> s, acks |-> << >>], [i \in DOMAIN request.items |-> i])

Ack(acks) == [kind |-> "ack", acks |-> acks]
Tell(message) == told' = Append(told, message)

(* The order of the list of the server.                                    *)
Listed(s) == FoldSet(LAMBDA i, list : Inserted(list, i), << >>, s)

SrvList == /\ ssi.out # << >> /\ Head(ssi.out).action = "list"
           /\ Tell([kind |-> "list", items |-> Listed(srv)])
           /\ ssi' = [ssi EXCEPT !.out = Tail(@)]
           /\ past' = [past EXCEPT !.strange = FALSE]
           /\ UNCHANGED <<srv, left>>

(* The answers may come in one piece or in two.                            *)
SrvAnswers ==
    /\ ssi.out # << >> /\ Head(ssi.out).action # "list"
    /\ \E no \in SUBSET DOMAIN Head(ssi.out).items :
        /\ Cardinality(no) <= left.trouble /\ Spent("trouble", Cardinality(no))
        /\ LET r == Outcome(srv, Head(ssi.out), no)
               n == Len(r.acks)
           IN  /\ srv' = r.srv
               /\ past' = [past EXCEPT !.strange = @ \/ FALSE \in Range(r.acks)]
               /\ \/ Tell(Ack(r.acks))
                  \/ /\ n > 1
                     /\ told' = told \o <<Ack(SubSeq(r.acks, 1, 1)), Ack(SubSeq(r.acks, 2, n))>>
    /\ ssi' = [ssi EXCEPT !.out = Tail(@)]

(* The other client is told of to a client that has asked for the list.    *)
Watching == /\ ssi.phase \in {"asked", "ready"}
            /\ \A i \in DOMAIN ssi.out : ssi.out[i].action # "list"
Foreign(action, item) ==
    /\ left.trouble > 0 /\ Spent("trouble", 1)
    /\ srv' = SrvDoes(srv, action, item)
    /\ IF Watching THEN Tell([kind |-> action, item |-> item]) ELSE UNCHANGED told
    /\ past' = [past EXCEPT !.strange = TRUE]
    /\ UNCHANGED ssi

SrvFree(gid) == Min((0 .. Cardinality(srv)) \ {i.bid : i \in {j \in srv : j.gid = gid}})
ForeignAdds(n, g) ==
    \E i \in srv : /\ i.type = "group" /\ i.name = g
                   /\ ~\E j \in srv : j.name = n /\ j.type = "buddy"
                   /\ Foreign("add", [name |-> n, gid |-> i.gid, bid |-> SrvFree(i.gid),
                                      type |-> "buddy", data |-> NoData])
ForeignRemoves == \E i \in srv : i.type = "buddy" /\ Foreign("del", i)
ForeignAliases(a) ==
    \E i \in srv : /\ i.type = "buddy" /\ Tag(i, "alias") # a
                   /\ Foreign("mod", [i EXCEPT !.data = Replaced(@, "alias", a)])

-----------------------------------------------------------------------------
Heard(T) == /\ Now(T) /\ Crossing(T)
            /\ told' = Tail(told) /\ UNCHANGED <<srv, left>>

(* ssi_snachandler.                                                        *)
RecvData == /\ told # << >> /\ Head(told).kind = "list"
            /\ Now(ParseData(ssi, Head(told).items))
            /\ past' = [past EXCEPT !.crossed = Crosses(ssi')]
            /\ told' = Tail(told) /\ UNCHANGED <<srv, left>>
RecvAck == /\ told # << >> /\ Head(told).kind = "ack"
           /\ \E A \in Again : Heard(ParseAck(A, Head(told).acks))
RecvAdd == /\ told # << >> /\ Head(told).kind = "add"
           /\ \E A \in Again : Heard(ParseAdd(A, Head(told).item))
RecvMod == /\ told # << >> /\ Head(told).kind = "mod"
           /\ Heard(ParseMod(ssi, Head(told).item))
RecvDel == /\ told # << >> /\ Head(told).kind = "del"
           /\ Heard(ParseDel(ssi, Head(told).item))

User == \/ \E g \in Groups : UserGroup(g) \/ \E n \in Names : UserAdds(n, g)
        \/ \E n \in Names : UserRemoves(n) \/ UserPermits(n) \/ UserForbids(n)
        \/ \E n \in Names, a \in Aliases : UserAliases(n, a)
        \/ \E m \in Modes : UserMode(m)
        \/ \E on \in BOOLEAN : UserIdle(on)
Client == ConnUp \/ AskList \/ RecvData \/ RecvAck \/ RecvAdd \/ RecvMod \/ RecvDel
Server == SrvList \/ SrvAnswers
Another == \/ ForeignRemoves
           \/ \E n \in Names, g \in Groups : ForeignAdds(n, g)
           \/ \E a \in Aliases : ForeignAliases(a)

Next == User \/ Client \/ Server \/ Another \/ Lost

(* The connection is made again, the server answers, and what it sends is  *)
(* read: every Recv takes the head of told, both Srv that of ssi.out.      *)
Reads   == told # << >> /\ told' = Tail(told)
Answers == ssi.out # << >> /\ ssi' = [ssi EXCEPT !.out = Tail(@)]

Spec == /\ Init /\ [][Next]_vars
        /\ WF_vars(ConnUp) /\ WF_vars(AskList) /\ WF_told(Reads) /\ WF_ssi(Answers)

-----------------------------------------------------------------------------
Same(a, b) == {Bare(a[i]) : i \in DOMAIN a} = {Bare(b[i]) : i \in DOMAIN b}
NoTwins(a) == \A i, j \in DOMAIN a : Key(a[i]) = Key(a[j]) => i = j

Quiet == ssi.phase = "ready" /\ ~ssi.waiting /\ told = << >> /\ ssi.out = << >>

(* Group and buddy numbers name one item, unless another client wrote, the *)
(* server refused something, or an item went while it was being added: its *)
(* memory may be that of another item when the answer comes.               *)
NumbersName == ~past.strange /\ ~past.crossed => NoTwins(ssi.official) /\ (Quiet => NoTwins(ssi.local))

(* When nothing is asked for, the two copies are equal: no edit is         *)
(* forgotten.                                                              *)
NothingForgotten ==
    /\ ssi.phase = "ready" /\ ~ssi.waiting
    /\ NoTwins(ssi.official) /\ NoTwins(ssi.local)
    /\ ~(past.crossed /\ past.strange)
    => Same(ssi.local, ssi.official)

(* "An exact copy of what is stored on the AIM servers", once everything   *)
(* is answered, unless an item changed while a request about it was under  *)
(* way.                                                                    *)
OfficialExact ==
    Quiet /\ ~past.crossed => {Bare(ssi.official[i]) : i \in DOMAIN ssi.official} = srv

(* The copy of the server's list is one, and whatever the client asks for  *)
(* brings its own list and the copy together (aim_ssi_sync): the three.    *)
CopySound == NumbersName /\ OfficialExact /\ NothingForgotten

(* Who is listed or permitted in pork is so on the server, unless another  *)
(* client wrote or the server refused.  Not the other way round: what the  *)
(* server has twice is removed once.                                       *)
Shows ==
    Quiet /\ ~past.crossed /\ ~past.strange =>
        /\ {ssi.pork.buddies[i].name : i \in DOMAIN ssi.pork.buddies}
           \subseteq {i.name : i \in {j \in srv : j.type = "buddy"}}
        /\ Range(ssi.pork.rights) \subseteq {i.name : i \in {j \in srv : j.type = "permit"}}

(* The copy, the server's list and what pork shows agree: both of them.    *)
ListsAgree == CopySound /\ Shows

(* An answer copies name and data and never the type: items of one number  *)
(* and two types are changed for ever.                                     *)
Misfits == \E i \in DOMAIN ssi.local, j \in DOMAIN ssi.official :
    /\ Key(ssi.local[i]) = Key(ssi.official[j])
    /\ ssi.local[i].type # ssi.official[j].type

(* Every request is answered and the client comes to rest, unless a        *)
(* command came before the list was asked for or numbers name two items.   *)
Settles ==
    []<>(\/ ~ssi.waiting \/ past.early \/ Misfits
         \/ ~NoTwins(ssi.local) \/ ~NoTwins(ssi.official))
=============================================================================
