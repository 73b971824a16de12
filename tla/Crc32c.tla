------------------------------- MODULE Crc32c -------------------------------
(***************************************************************************)
(* src/crc32c.cc.  A word is the set of its bits that are 1, bit 0 the     *)
(* least significant; exclusive or is symmetric difference.                *)
(***************************************************************************)
EXTENDS Integers, Sequences

Xor(v, w) == {i \in v \cup w : (i \in v) # (i \in w)}

ShiftRight(v, n) == {i - n : i \in {j \in v : j >= n}}

ShiftLeft(v, n) == {i + n : i \in v}

Byte == SUBSET (0 .. 7)

(* 0x82F63B78 *)
kPoly == {3, 4, 5, 6, 8, 9, 11, 12, 13, 17, 18, 20, 21, 22, 23, 25, 31}

(* One step of the division: (crc & 1) ? (crc >> 1) ^ kPoly : crc >> 1. *)
DivideBit(crc) == IF 0 \in crc THEN Xor(ShiftRight(crc, 1), kPoly) ELSE ShiftRight(crc, 1)

(* n steps.  (Here and below, UNION {F(s) : s \in {e}} is F(e), with e      *)
(* evaluated once.)                                                        *)
DivideBits(crc, n) ==
    LET d[i \in 0 .. n] == IF i = 0 THEN crc ELSE UNION {DivideBit(c) : c \in {d[i - 1]}} IN d[n]

(* Fault: seven steps for a byte. *)
make_table_short == [b \in Byte |-> DivideBits(b, 7)]

make_table == [b \in Byte |-> DivideBits(b, 8)]

kTable == make_table

crc32c_init == 0 .. 31

crc32c_update(state, data) ==
    LET st[i \in 0 .. Len(data)] ==
            IF i = 0 THEN state
            ELSE UNION {Xor(kTable[Xor(s, data[i]) \cap 0 .. 7], ShiftRight(s, 8)) : s \in {st[i - 1]}}
    IN  st[Len(data)]

crc32c_final(state) == Xor(state, 0 .. 31)

crc32c(data) == LET s == crc32c_update(crc32c_init, data) IN crc32c_final(s)

(* The reference: the message bit by bit, byte by byte from its least      *)
(* significant bit, with no table.                                         *)
BitSerial(data) ==
    LET st[i \in 0 .. Len(data)] ==
            IF i = 0 THEN 0 .. 31 ELSE UNION {DivideBits(s, 8) : s \in {Xor(st[i - 1], data[i])}}
    IN  Xor(st[Len(data)], 0 .. 31)

=============================================================================
