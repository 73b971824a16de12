------------------------------- MODULE Codec --------------------------------
(***************************************************************************)
(* src/codec.cc: encode and decode of a datagram, with a network between   *)
(* them that changes it.  A field is the set of its bits (Crc32c), so that *)
(* "little-endian" says which byte a bit goes to.                          *)
(***************************************************************************)
EXTENDS Crc32c, FiniteSetsExt, TLC

CONSTANTS
    Packets,   \* what is encoded
    Bursts     \* lengths of the runs of bits that the network inverts

kMagic0 == {1, 3, 4, 5, 6}        \* 0x7A
kMagic1 == {0, 2, 4, 5, 6}        \* 0x75
kVersion == {0}                   \* 1
kBaseHeaderSize == 21
kSackSize == 8
kMaxDatagram == 1200
kCrcOffset == 17
SackPresent == 0                  \* the bit of Flag::SackPresent

Num(bits) == FoldSet(LAMBDA i, n : 2 ^ i + n, 0, bits)

Bits(n) == {i \in 0 .. 15 : (n \div 2 ^ i) % 2 = 1}

(* store_u8 to store_u64_le: n bytes, the least significant first. *)
Store(v, n) == [j \in 1 .. n |-> ShiftRight(v \cap 8 * (j - 1) .. 8 * j - 1, 8 * (j - 1))]

(* load_u8 to load_u64_le, from offset off. *)
Load(b, off, n) == UNION {ShiftLeft(b[off + j], 8 * (j - 1)) : j \in 1 .. n}

HeaderLen(flags) == kBaseHeaderSize + (IF SackPresent \in flags THEN kSackSize ELSE 0)

(* encode: the bytes written, none when the packet is refused. *)
encode(pkt) ==
    LET sack  == SackPresent \in pkt.flags
        total == HeaderLen(pkt.flags) + Len(pkt.payload)
        head  == <<kMagic0, kMagic1, ShiftLeft(kVersion, 4) \cup (pkt.type \cap 0 .. 3), pkt.flags, pkt.cls>>
                 \o Store(pkt.seq, 4) \o Store(pkt.cum_ack, 4) \o Store(pkt.adv_window, 2)
                 \o Store(Bits(Len(pkt.payload)), 2)
        rest  == (IF sack THEN Store(pkt.sack, 8) ELSE <<>>) \o pkt.payload
        crc   == crc32c(head \o Store({}, 4) \o rest)
    IN  IF pkt.flags \ {SackPresent} # {} \/ total > kMaxDatagram THEN <<>>
        ELSE head \o Store(crc, 4) \o rest

(* Fault: bytes after the payload are ignored. *)
SizeOk_loose(in, total) == total <= kMaxDatagram /\ Len(in) >= total

SizeOk(in, total) == total <= kMaxDatagram /\ Len(in) = total

(* Three pieces: before the CRC field, four zero bytes, and all after it. *)
Checksum(in, header, total) ==
    LET s1 == crc32c_update(crc32c_init, SubSeq(in, 1, kCrcOffset))
        s2 == crc32c_update(s1, Store({}, 4))
        s3 == crc32c_update(s2, SubSeq(in, kBaseHeaderSize + 1, total))
    IN  crc32c_final(s3)

Rejected(why) == [error |-> why]

(* decode: the packet, or why there is none. *)
decode(in) ==
    IF Len(in) < kBaseHeaderSize THEN Rejected("TooShort")
    ELSE IF in[1] # kMagic0 \/ in[2] # kMagic1 THEN Rejected("BadMagic")
    ELSE IF ShiftRight(in[3], 4) # kVersion THEN Rejected("BadVersion")
    ELSE LET flags   == in[4]
             header  == HeaderLen(flags)
             payload == Num(Load(in, 15, 2))
             total   == header + payload
         IN  IF Len(in) < header THEN Rejected("TooShort")
             ELSE IF ~ SizeOk(in, total) THEN Rejected("LengthOverrun")
             ELSE IF Checksum(in, header, total) # Load(in, kCrcOffset, 4) THEN Rejected("BadCrc")
             ELSE IF flags \ {SackPresent} # {} \/ Num(in[5]) > 2 THEN Rejected("Unsupported")
             ELSE [error |-> "Ok", type |-> in[3] \cap 0 .. 3, flags |-> flags, cls |-> in[5],
                   seq |-> Load(in, 5, 4), cum_ack |-> Load(in, 9, 4), adv_window |-> Load(in, 13, 2),
                   sack |-> IF SackPresent \in flags THEN Load(in, kBaseHeaderSize, 8) ELSE {},
                   payload |-> SubSeq(in, header + 1, total)]

-----------------------------------------------------------------------------
VARIABLES
    packet,    \* what was sent
    datagram,  \* on the wire
    intact     \* the network has not touched it

codecVars == <<packet, datagram, intact>>

Init == /\ packet \in Packets
        /\ datagram = encode(packet)
        /\ intact = TRUE

(* A run of bits is inverted. *)
Invert == \E n \in Bursts : \E i \in 0 .. 8 * Len(datagram) - n :
             datagram' = [k \in DOMAIN datagram |->
                            Xor(datagram[k], {j \in 0 .. 7 : 8 * (k - 1) + j \in i .. i + n - 1})]

(* The end is cut off, or bytes are appended. *)
Resize == \/ \E n \in 0 .. Len(datagram) - 1 : datagram' = SubSeq(datagram, 1, n)
          \/ \E b \in {{}, 0 .. 7} : \E n \in 1 .. 8 : datagram' = datagram \o [i \in 1 .. n |-> b]

Damage == /\ intact /\ datagram # <<>>
          /\ intact' = FALSE
          /\ Invert \/ Resize
          /\ UNCHANGED packet

Next == Damage

Spec == Init /\ [][Next]_codecVars

-----------------------------------------------------------------------------
(* Properties.                                                             *)

(* What encode writes decode reads back, field by field, with and without  *)
(* a SACK section and payload; and nothing else: "A corrupted bit0 makes   *)
(* header_len/total wrong, so decode fails ... never a misparse".  No      *)
(* datagram that lost its end, gained one, or had a run of bits inverted   *)
(* is accepted, also when the bits are those that say how much the         *)
(* checksum covers.                                                        *)
NeverMisparsed ==
    datagram # <<>> =>
        IF intact
        THEN decode(datagram) = [error |-> "Ok"] @@ [packet EXCEPT !.sack = IF SackPresent \in packet.flags THEN @ ELSE {}]
        ELSE decode(datagram).error # "Ok"

(* The table-driven checksum is the remainder of the division bit by bit,  *)
(* for every run of four bytes of a datagram that is sent.                 *)
CrcIsRemainder ==
    intact => \A i \in 1 .. Len(datagram) - 3 :
                LET run == SubSeq(datagram, i, i + 3) IN crc32c(run) = BitSerial(run)

=============================================================================
