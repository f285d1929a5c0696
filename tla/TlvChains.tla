----------------------------- MODULE TlvChains -----------------------------
(* A chain (tlv.c) that is built and edited as the messages, the profile   *)
(* and the items of the server's list are, wrapped into an element of      *)
(* another chain, and read again from what was sent.                       *)
(*                                                                         *)
(* dict is what the chain stands for: the values of each type, in order.   *)
EXTENDS Tlv

CONSTANTS Types, MaxTlvs

VARIABLES chain, dict
vars == <<chain, dict>>

(* A value that has no bytes, one of one byte and one that looks like a TLV. *)
Values == {<<>>, <<7>>, <<0, 1, 0, 0>>}

ValuesOf(list, type) ==
    LET own == SelectSeq(list, LAMBDA tlv : tlv.type = type)
    IN  [i \in DOMAIN own |-> own[i].value]

Init == chain = <<>> /\ dict = [t \in Types |-> <<>>]

Put(t, v) == dict' = [dict EXCEPT ![t] = Append(@, v)]

Add ==
    /\ Len(chain) < MaxTlvs
    /\ \E t \in Types :
          \/ \E v \in Values : chain' = aim_tlvlist_add_raw(chain, t, v) /\ Put(t, v)
          \/ chain' = aim_tlvlist_add_8(chain, t, 200) /\ Put(t, <<200>>)
          \/ chain' = aim_tlvlist_add_16(chain, t, 513) /\ Put(t, <<2, 1>>)
          \/ chain' = aim_tlvlist_add_32(chain, t, 65538) /\ Put(t, <<0, 1, 0, 2>>)
          \/ chain' = aim_tlvlist_add_noval(chain, t) /\ Put(t, <<>>)

Set(t, v) == dict' = [dict EXCEPT ![t] = IF @ = <<>> THEN <<v>> ELSE <<v>> \o Tail(@)]

Replace ==
    \E t \in Types :
        /\ Len(chain) < MaxTlvs \/ dict[t] # <<>>
        /\ \/ \E v \in Values : chain' = aim_tlvlist_replace_raw(chain, t, v) /\ Set(t, v)
           \/ chain' = aim_tlvlist_replace_8(chain, t, 200) /\ Set(t, <<200>>)
           \/ chain' = aim_tlvlist_replace_32(chain, t, 65538) /\ Set(t, <<0, 1, 0, 2>>)
           \/ chain' = aim_tlvlist_replace_noval(chain, t) /\ Set(t, <<>>)

TakeOut ==
    \E t \in Types :
        /\ chain' = aim_tlvlist_remove(chain, t)
        /\ dict' = [dict EXCEPT ![t] = IF @ = <<>> THEN @ ELSE Tail(@)]

(* The server sends it back: it is read in the other order.                *)
Echo ==
    /\ chain' = aim_tlvlist_read(aim_bstream_init(Written(chain))).list
    /\ dict' = [t \in Types |-> Reverse(dict[t])]

Next == Add \/ Replace \/ TakeOut \/ Echo

Spec == Init /\ [][Next]_vars

-----------------------------------------------------------------------------
(* What was put into the chain is found in it, under its type and place.   *)
Found ==
    \A t \in Types :
        /\ ValuesOf(chain, t) = dict[t]
        /\ \A n \in 1 .. Len(dict[t]) :
              /\ aim_tlv_getstr(chain, t, n) = dict[t][n]
              /\ aim_tlv_getlength(chain, t, n) = Len(dict[t][n])
              /\ Len(dict[t][n]) = 4 => aim_tlv_get32(chain, t, n) = Number(dict[t][n])
        /\ aim_tlv_gettlv(chain, t, Len(dict[t]) + 1) = 0

(* What is written fills what was reserved for it, and is read back alone, *)
(* by number or by length in front of something else, and inside another   *)
(* chain; and what follows is still there to be read.                      *)
ReadBack ==
    LET bytes  == Written(chain)
        behind == aim_bstream_init(bytes \o <<9, 9, 9>>)
        rest   == aim_bstream_setpos(behind, Len(bytes))
        frozen == aim_tlvlist_add_frozentlvlist(<<>>, 5, chain)
    IN  /\ Len(bytes) = aim_tlvlist_size(chain)
        /\ aim_tlvlist_read(aim_bstream_init(bytes)).list = Reverse(chain)
        /\ aim_tlvlist_readnum(behind, aim_tlvlist_count(chain))
              = [list |-> Reverse(chain), bs |-> rest]
        /\ aim_tlvlist_readlen(behind, Len(bytes)) = [list |-> Reverse(chain), bs |-> rest]
        /\ chain # <<>> =>
              aim_tlvlist_read(aim_bstream_init(aim_tlv_getstr(frozen, 5, 1))).list = Reverse(chain)

(* Two chains compare equal only when they are, and a copy does.           *)
Compared ==
    /\ aim_tlvlist_cmp(chain, aim_tlvlist_copy(chain))
    /\ \A t \in Types : LET less == aim_tlvlist_remove(chain, t)
                        IN  aim_tlvlist_cmp(chain, less) <=> chain = less
    /\ aim_tlvlist_cmp(chain, Reverse(chain)) <=> chain = Reverse(chain)

(* Of a stream that ends in the middle of a value nothing is read.         *)
CutShort ==
    LET bytes == Written(chain)
        ends  == {Len(Written(SubSeq(chain, 1, i))) : i \in 0 .. Len(chain)}
        heads == UNION {{e + 1, e + 2, e + 3} : e \in ends}
    IN  \A k \in (0 .. Len(bytes)) \ (ends \cup heads) :
            aim_tlvlist_read(aim_bstream_init(SubSeq(bytes, 1, k))).list = <<>>

(* Room that is too small by a byte gets nothing, and a chain that does    *)
(* not fit leaves what was written before it.                              *)
AllOrNothing ==
    LET bs == aimbs_put16([data |-> <<>>, room |-> aim_tlvlist_size(chain) + 1], 3)
    IN  chain # <<>> => aim_tlvlist_write(bs, chain) = bs

(* The chains of tlv.c stand for what was put into them, in the program    *)
(* and on the wire.                                                        *)
TlvSound == Found /\ ReadBack /\ Compared /\ CutShort /\ AllOrNothing
=============================================================================
