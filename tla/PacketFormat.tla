---------------------------- MODULE PacketFormat ----------------------------
(***************************************************************************)
(* Project04, pcap-process.c: what processPacket and insert take from the  *)
(* bytes of a packet: whether it is looked at, where its payload starts,   *)
(* and what memcmp makes of it and a packet that is in the table.          *)
(*                                                                         *)
(* Offsets and lengths are those of the code; a byte at offset o of the    *)
(* packet is Byte(x, o).                                                   *)
(***************************************************************************)
EXTENDS Integers, Sequences

CONSTANTS Packets,       (* what main.c pops from its stack, with Data # NULL *)
          Data           (* the LengthIncluded bytes read for each of them    *)

ASSUME DataAssumption == Data \in [Packets -> Seq(0..255)]

MIN_PKT_SIZE == 128
LengthIncluded == [x \in Packets |-> Len(Data[x])]
Byte(x, o) == Data[x][o + 1]

IsTCP(x) == Byte(x, 14 + 9) = 6
IsUDP(x) == Byte(x, 14 + 9) = 17

\* Those processPacket discards: too short, not IPv4, or neither TCP nor UDP.
Ignored ==
    {x \in Packets : \/ LengthIncluded[x] <= MIN_PKT_SIZE
                     \/ Byte(x, 12) # 8 \/ Byte(x, 13) # 0
                     \/ Byte(x, 14) # 69
                     \/ ~IsTCP(x) /\ ~IsUDP(x)}

\* The packets insert is called with.
Inserted == Packets \ Ignored

\* Where the payload starts.  Offset 14 + 9 + 12 is the low byte of the source
\* port, not the data offset of the TCP header.
PayloadOffset ==
    [x \in Inserted |->
        14 + IF IsTCP(x) THEN 20 + (Byte(x, 14 + 9 + 12) \div 16) * 4 ELSE 28]

\* getNetPayloadSize, and the PayloadSize processPacket stores.  The offset is
\* at most 94, so that a packet of more than 128 bytes has a payload.
PayloadSize == [x \in Inserted |-> LengthIncluded[x] - PayloadOffset[x]]

Payload(x) == SubSeq(Data[x], PayloadOffset[x] + 1, LengthIncluded[x])

-----------------------------------------------------------------------------
(* memcmp(old->Data + offset, new->Data + offset, size - offset), where the *)
(* offset and the size are those of the new packet.                        *)

\* The length is unsigned: a payload smaller than its offset makes it larger
\* than any buffer.
Overruns(new) == PayloadSize[new] < PayloadOffset[new]

\* Variant of ComparedOffsets: no more bytes than the payload's offset counts.
ComparedOffsetsHeader(new) == PayloadOffset[new]..(2 * PayloadOffset[new] - 1)

\* The offsets memcmp compares while it is in the packet it was given.
ComparedOffsets(new) ==
    PayloadOffset[new]..(IF Overruns(new) THEN LengthIncluded[new] - 1
                                          ELSE PayloadSize[new] - 1)

\* memcmp finds a difference before it leaves either packet.
Differ(old, new) ==
    \E o \in ComparedOffsets(new) :
        o < LengthIncluded[old] /\ Byte(old, o) # Byte(new, o)

Pairs == Inserted \X Inserted      \* <<old, new>>
Differing == {p \in Pairs : Differ(p[1], p[2])}

\* The bytes read do not differ, and memcmp reads on in what the buffers hold
\* behind the packets; if it overruns, behind the buffers.
ReadingOn ==
    {p \in Pairs \ Differing :
        Overruns(p[2]) \/ PayloadSize[p[2]] > LengthIncluded[p[1]]}

=============================================================================
