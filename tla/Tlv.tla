-------------------------------- MODULE Tlv --------------------------------
(* The byte streams of libfaim (bstream.c, the put and get of util.c), its *)
(* chains of type-length-value elements (tlv.c) and the capability blocks  *)
(* (locate.c), as functions.  A stream that is read is its data and the    *)
(* offset; one that is written has room for so many bytes, and all is      *)
(* written at its end.  What does not fit is dropped without a word, and a *)
(* number that is not there is 0: both are "XXX throw an exception".       *)
EXTENDS Integers, Sequences, SequencesExt

(* No value: a pointer that is NULL.                                       *)
NULL == <<-1>>

(* The number that is read behind the end of what was allocated.           *)
Undefined == -1

-----------------------------------------------------------------------------
(* Numbers in network order.                                               *)

Octets(v, n) == [i \in 1 .. n |-> (v \div (256 ^ (n - i))) % 256]

Number(bytes) ==
    LET value[i \in 0 .. Len(bytes)] == IF i = 0 THEN 0 ELSE 256 * value[i - 1] + bytes[i]
    IN  value[Len(bytes)]

-----------------------------------------------------------------------------
(* Reading.                                                                *)

aim_bstream_init(data) == [data |-> data, off |-> 0]

aim_bstream_empty(bs) == Len(bs.data) - bs.off

aim_bstream_setpos(bs, off) ==
    IF off > Len(bs.data) THEN bs ELSE [bs EXCEPT !.off = off]

aim_bstream_advance(bs, n) ==
    IF bs.off + n < 0 \/ aim_bstream_empty(bs) < n THEN bs ELSE [bs EXCEPT !.off = @ + n]

Bytes(bs, n) == SubSeq(bs.data, bs.off + 1, bs.off + n)

(* aimbs_get8, aimbs_get16 and aimbs_get32; the stream goes on by Past.    *)
aimbs_get(bs, n) == IF aim_bstream_empty(bs) < n THEN 0 ELSE Number(Bytes(bs, n))
Past(bs, n) == aim_bstream_advance(bs, n)

aimbs_getraw(bs, n) == IF aim_bstream_empty(bs) < n THEN NULL ELSE Bytes(bs, n)

-----------------------------------------------------------------------------
(* Writing.                                                                *)

Room(n) == [data |-> <<>>, room |-> n]

aimbs_putraw(bs, bytes) ==
    IF bs.room - Len(bs.data) < Len(bytes) THEN bs ELSE [bs EXCEPT !.data = @ \o bytes]

aimbs_put8(bs, v)  == aimbs_putraw(bs, Octets(v, 1))
aimbs_put16(bs, v) == aimbs_putraw(bs, Octets(v, 2))
aimbs_put32(bs, v) == aimbs_putraw(bs, Octets(v, 4))

-----------------------------------------------------------------------------
(* Chains.                                                                 *)

createtlv(type, value) == [type |-> type, value |-> value]

aim_tlvlist_count(list) == Len(list)

aim_tlvlist_size(list) == FoldLeft(LAMBDA n, tlv : n + 4 + Len(tlv.value), 0, list)

aim_tlvlist_add_raw(list, type, value) == Append(list, createtlv(type, value))
aim_tlvlist_add_8(list, type, v)       == aim_tlvlist_add_raw(list, type, Octets(v, 1))
aim_tlvlist_add_16(list, type, v)      == aim_tlvlist_add_raw(list, type, Octets(v, 2))
aim_tlvlist_add_32(list, type, v)      == aim_tlvlist_add_raw(list, type, Octets(v, 4))
aim_tlvlist_add_noval(list, type)      == aim_tlvlist_add_raw(list, type, <<>>)

(* The first of the type, or 0.                                            *)
FirstOf(list, type) == SelectInSeq(list, LAMBDA tlv : tlv.type = type)

aim_tlvlist_replace_raw(list, type, value) ==
    IF FirstOf(list, type) = 0 THEN aim_tlvlist_add_raw(list, type, value)
    ELSE [list EXCEPT ![FirstOf(list, type)].value = value]

aim_tlvlist_replace_8(list, type, v)  == aim_tlvlist_replace_raw(list, type, Octets(v, 1))
aim_tlvlist_replace_32(list, type, v) == aim_tlvlist_replace_raw(list, type, Octets(v, 4))
aim_tlvlist_replace_noval(list, type) == aim_tlvlist_replace_raw(list, type, <<>>)

(* mutant of aim_tlvlist_remove: the last of the type                      *)
RemoveLast(list, type) ==
    LET at == SelectLastInSeq(list, LAMBDA tlv : tlv.type = type)
    IN  IF at = 0 THEN list ELSE RemoveAt(list, at)

aim_tlvlist_remove(list, type) ==
    IF FirstOf(list, type) = 0 THEN list ELSE RemoveAt(list, FirstOf(list, type))

(* The nth of the type, or 0; the nth count from 1.                        *)
aim_tlv_gettlv(list, type, nth) ==
    SelectInSeq([i \in DOMAIN list |->
                    Len(SelectSeq(SubSeq(list, 1, i), LAMBDA tlv : tlv.type = type))],
                LAMBDA n : n >= nth)

aim_tlv_getlength(list, type, nth) ==
    LET at == aim_tlv_gettlv(list, type, nth) IN IF at = 0 THEN -1 ELSE Len(list[at].value)

aim_tlv_getstr(list, type, nth) ==
    LET at == aim_tlv_gettlv(list, type, nth) IN IF at = 0 THEN NULL ELSE list[at].value

Get(list, type, nth, n) ==
    LET at == aim_tlv_gettlv(list, type, nth)
    IN  IF at = 0 THEN 0
        ELSE IF Len(list[at].value) < n THEN Undefined
        ELSE Number(SubSeq(list[at].value, 1, n))

aim_tlv_get8(list, type, nth)  == Get(list, type, nth, 1)
aim_tlv_get16(list, type, nth) == Get(list, type, nth, 2)
aim_tlv_get32(list, type, nth) == Get(list, type, nth, 4)

(* All or nothing.                                                         *)
aim_tlvlist_write(bs, list) ==
    IF aim_tlvlist_size(list) > bs.room - Len(bs.data) THEN bs
    ELSE FoldLeft(LAMBDA b, tlv :
             aimbs_putraw(aimbs_put16(aimbs_put16(b, tlv.type), Len(tlv.value)), tlv.value),
             bs, list)

Written(list) == aim_tlvlist_write(Room(aim_tlvlist_size(list)), list).data

aim_tlvlist_copy(orig) ==
    FoldLeft(LAMBDA new, tlv : aim_tlvlist_add_raw(new, tlv.type, tlv.value), <<>>, orig)

(* TRUE when the lists are the same, where the code returns 0.             *)
aim_tlvlist_cmp(one, two) ==
    aim_tlvlist_size(one) = aim_tlvlist_size(two) /\ Written(one) = Written(two)

aim_tlvlist_add_frozentlvlist(list, type, tl) ==
    IF tl = <<>> THEN list ELSE aim_tlvlist_add_raw(list, type, Written(tl))

aim_tlvlist_add_chatroom(list, type, exchange, roomname, instance) ==
    LET buf == aimbs_put16(aimbs_putraw(aimbs_put8(aimbs_put16(Room(5 + Len(roomname)), exchange),
                                                   Len(roomname)), roomname), instance)
    IN  aim_tlvlist_add_raw(list, type, buf.data)

-----------------------------------------------------------------------------
(* Reading a chain: every element is put in front of those before it.      *)

Unlimited == -1

(* One element: bad when it says that it is longer than what is left.      *)
ReadTlv(bs) ==
    LET type   == aimbs_get(bs, 2)
        length == aimbs_get(Past(bs, 2), 2)
        value  == Past(Past(bs, 2), 2)
    IN  IF length > aim_bstream_empty(value) THEN [bad |-> TRUE]
        ELSE [bad |-> FALSE, bs |-> Past(value, length),
              tlv |-> createtlv(type, aimbs_getraw(value, length))]

(* The numbers of elements and of bytes that are still wanted; the latter  *)
(* is an unsigned number of 16 bits.                                       *)
Spent(left, tlv) ==
    [tlvs  |-> IF left.tlvs > 0 THEN left.tlvs - 1 ELSE left.tlvs,
     bytes |-> IF left.bytes = Unlimited THEN Unlimited
               ELSE (left.bytes - aim_tlvlist_size(<<tlv>>)) % 65536]

(* A byte that is left alone is never read: without a number of elements   *)
(* the loop goes on until there is no memory.                              *)
Endless == <<createtlv(-1, NULL)>>

RECURSIVE ReadTlvs(_, _, _)
ReadTlvs(bs, list, left) ==
    IF aim_bstream_empty(bs) = 0 \/ left.tlvs = 0 \/ left.bytes = 0
    THEN [list |-> list, bs |-> bs]
    ELSE IF aim_bstream_empty(bs) = 1 /\ left.tlvs = Unlimited
    THEN [list |-> Endless, bs |-> bs]
    ELSE LET r == ReadTlv(bs)
         IN  IF r.bad THEN [list |-> <<>>, bs |-> Past(Past(bs, 2), 2)]
             ELSE ReadTlvs(r.bs, <<r.tlv>> \o list, Spent(left, r.tlv))

(* mutant of aim_tlvlist_readlen: the head of an element is not counted    *)
ReadLenOfValues(bs, len) ==
    ReadTlvs(bs, <<>>, [tlvs |-> Unlimited, bytes |-> len + 4])

aim_tlvlist_read(bs) == ReadTlvs(bs, <<>>, [tlvs |-> Unlimited, bytes |-> Unlimited])
aim_tlvlist_readnum(bs, num) == ReadTlvs(bs, <<>>, [tlvs |-> num, bytes |-> Unlimited])
aim_tlvlist_readlen(bs, len) == ReadTlvs(bs, <<>>, [tlvs |-> Unlimited, bytes |-> len])

-----------------------------------------------------------------------------
(* Capabilities: some of the table, each with its block of 16 bytes; there *)
(* is more than one unknown one.                                           *)

Cap(flag, code) == [flag |-> flag, data |-> [i \in 1 .. 16 |-> code]]

aim_caps == <<Cap("sendfile", 65), Cap("unknown", 66), Cap("unknown", 67), Cap("chat", 68)>>

aimbs_putcaps(bs, caps) ==
    FoldLeft(LAMBDA b, cap : IF cap.flag \in caps THEN aimbs_putraw(b, cap.data) ELSE b,
             bs, aim_caps)

(* As many blocks as begin before the length is over.                      *)
Blocks(bs, len, n) ==
    LET most == IF len < aim_bstream_empty(bs) THEN len ELSE aim_bstream_empty(bs)
    IN  [i \in 1 .. (most + n - 1) \div n |-> aimbs_getraw(Past(bs, n * (i - 1)), n)]

Known(block) == {aim_caps[i].flag : i \in {j \in DOMAIN aim_caps : aim_caps[j].data = block}}

aim_locate_getcaps(bs, len) == UNION {Known(b) : b \in ToSet(Blocks(bs, len, 16))}

aim_tlvlist_add_caps(list, type, caps) ==
    IF caps = {} THEN list
    ELSE aim_tlvlist_add_raw(list, type, aimbs_putcaps(Room(256), caps).data)
=============================================================================
