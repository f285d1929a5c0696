---------------------------- MODULE OftChecksum -----------------------------
(* The checksum of a file that is transferred over AIM (libfaim/ft.c).     *)
EXTENDS Integers, SequencesExt

CONSTANTS Texts,      \* files, as bytes
          Block       \* 1024, which a file is read by

(* It is kept in the upper half of a word: a difference of 16 bits that    *)
(* borrows, in 32, and is folded twice.                                    *)
Half == 65536

Borrowed(old, new) == IF old >= 0 /\ new < 0 THEN new - 1 ELSE new

Folded(c) == (c % Half) + ((c \div Half) % Half)

(* The first byte of what is given counts for the upper one, wherever it   *)
(* was in the file.                                                        *)
aim_oft_checksum_chunk(bytes, check) ==
    Folded(Folded(FoldLeftDomain(
        LAMBDA c, i : Borrowed(c, c - (IF i % 2 = 0 THEN bytes[i] ELSE bytes[i] * 256)),
        check, bytes)))

(* mutant of Blocks: what is left at the end is not read                   *)
WholeBlocks(text) ==
    [i \in 1 .. Len(text) \div Block |-> SubSeq(text, Block * (i - 1) + 1, Block * i)]

Blocks(text) ==
    [i \in 1 .. (Len(text) + Block - 1) \div Block |->
        SubSeq(text, Block * (i - 1) + 1, IF Block * i < Len(text) THEN Block * i ELSE Len(text))]

aim_oft_checksum_file(text) ==
    FoldLeft(LAMBDA c, bytes : aim_oft_checksum_chunk(bytes, c), Half - 1, Blocks(text))

(* The checksum of a file is that of its parts, if they are of even        *)
(* length: aim_oft_checksum_chunk promises as much of any (ft.c:116).      *)
SumOfParts ==
    \A text \in Texts : \A k \in 0 .. Len(text) :
       LET sum(t, c) == aim_oft_checksum_chunk(t, c)
       IN  k % 2 = 0 =>
              aim_oft_checksum_file(text)
                 = sum(SubSeq(text, k + 1, Len(text)), sum(SubSeq(text, 1, k), Half - 1))
=============================================================================
