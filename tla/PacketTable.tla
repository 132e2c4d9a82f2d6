----------------------------- MODULE PacketTable -----------------------------
(***************************************************************************)
(* Project04, pcap-process.c: the hash table in which the consumers look   *)
(* for packets whose payload they have seen, with its hit counters.        *)
(*                                                                         *)
(* insert looks at a slot without HashLock and takes the lock only for the *)
(* update it has decided on; so every look is a step, and so is every      *)
(* update.  gPacketSeenCount has no lock at all.  A packet that is freed   *)
(* while somebody still compares with it compares as anything, or ends the *)
(* process; so does memory behind the bytes of a packet.  What the packets *)
(* hold is PacketFormat's.                                                 *)
(***************************************************************************)
EXTENDS PacketFormat, FiniteSets, FiniteSetsExt

CONSTANTS Consumers,
          Indexes,       (* 0..TABLE_SIZE - 1                                 *)
          hashData,      (* the slot of a packet's payload                    *)
          NoPacket, NoConsumer

ASSUME TableAssumption ==
    /\ IsFiniteSet(Consumers) /\ Consumers # {} /\ NoConsumer \notin Consumers
    /\ IsFiniteSet(Packets) /\ NoPacket \notin Packets
    /\ IsFiniteSet(Indexes)
    /\ hashData \in [Inserted -> Indexes]
    /\ \A x, y \in Inserted :
          Payload(x) = Payload(y) => hashData[x] = hashData[y]

VARIABLES HashLock, TheHash,
          gPacketSeenCount, gPacketHitCount, gPacketHitBytes,
          unread,       (* packets no consumer has popped                     *)
          freed,        (* packets given to discardPacket                     *)
          hits,         (* packets discarded as duplicates                    *)
          lost,         (* packets that were overwritten in the table         *)
          unsure,       (* packets compared with memory nobody has written    *)
          pPacket,      (* the packet a consumer processes                    *)
          entry,        (* the pointer it has loaded from its slot, while it  *)
                        (* still uses it                                      *)
          reg,          (* the gPacketSeenCount it has loaded, likewise       *)
          pc,
          ended

hitTotals == <<gPacketHitCount, gPacketHitBytes>>
counts == <<gPacketSeenCount, hitTotals>>
fates == <<freed, hits, lost, unsure>>
vars == <<HashLock, TheHash, counts, unread, fates, pPacket, entry, reg, pc, ended>>

initializeProcessing ==
    /\ HashLock = NoConsumer
    /\ TheHash = [i \in Indexes |->
          [ThePacket |-> NoPacket, HitCount |-> 0, RedundantBytes |-> 0]]
    /\ gPacketSeenCount = 0
    /\ gPacketHitCount = 0
    /\ gPacketHitBytes = 0

Init ==
    /\ initializeProcessing
    /\ unread = Packets
    /\ freed = {}
    /\ hits = {}
    /\ lost = {}
    /\ unsure = {}
    /\ pPacket = [c \in Consumers |-> NoPacket]
    /\ entry = [c \in Consumers |-> NoPacket]
    /\ reg = [c \in Consumers |-> 0]
    /\ pc = [c \in Consumers |-> "pop"]
    /\ ended = "no"

At(c, l) == ended = "no" /\ pc[c] = l
Goto(c, l) == pc' = [pc EXCEPT ![c] = l]
Slot(c) == hashData[pPacket[c]]

\* The end of processPacket.
Return(c) ==
    /\ pPacket' = [pPacket EXCEPT ![c] = NoPacket]
    /\ entry' = [entry EXCEPT ![c] = NoPacket]
    /\ Goto(c, "pop")

discardPacket(x) == freed' = freed \cup ({x} \ {NoPacket})

-----------------------------------------------------------------------------
(* processPacket                                                           *)

\* The stack hands the packets out in no particular order, each once; and the
\* load of gPacketSeenCount++.  (Nothing another consumer does depends on when
\* this one has popped, so that the two can be one step.)
Pop(c) ==
    /\ At(c, "pop")
    /\ \E x \in unread :
          /\ unread' = unread \ {x}
          /\ pPacket' = [pPacket EXCEPT ![c] = x]
    /\ reg' = [reg EXCEPT ![c] = gPacketSeenCount]
    /\ Goto(c, "count")
    /\ UNCHANGED <<HashLock, TheHash, counts, fates, entry, ended>>

\* Variant of CountSeen: a packet that is not ignored is counted twice.
CountSeenTwice(c) ==
    /\ At(c, "count")
    /\ IF pPacket[c] \in Ignored
       THEN gPacketSeenCount' = reg[c] + 1 /\ discardPacket(pPacket[c]) /\ Return(c)
       ELSE /\ gPacketSeenCount' = reg[c] + 2
            /\ Goto(c, "empty")
            /\ UNCHANGED <<freed, pPacket, entry>>
    /\ reg' = [reg EXCEPT ![c] = 0]
    /\ UNCHANGED <<HashLock, TheHash, hitTotals, unread, hits, lost, unsure, ended>>

\* Its store, and the tests that make processPacket ignore the packet.
CountSeen(c) ==
    /\ At(c, "count")
    /\ gPacketSeenCount' = reg[c] + 1
    /\ IF pPacket[c] \in Ignored
       THEN discardPacket(pPacket[c]) /\ Return(c)
       ELSE Goto(c, "empty") /\ UNCHANGED <<freed, pPacket, entry>>
    /\ reg' = [reg EXCEPT ![c] = 0]
    /\ UNCHANGED <<HashLock, TheHash, hitTotals, unread, hits, lost, unsure, ended>>

-----------------------------------------------------------------------------
(* insert: what it looks at without HashLock                               *)

\* Variant of TestEmpty: a slot without hits is taken for an empty one.
TestEmptyByHits(c) ==
    /\ At(c, "empty")
    /\ Goto(c, IF TheHash[Slot(c)].HitCount = 0 THEN "lockInsert" ELSE "loadSize")
    /\ UNCHANGED <<HashLock, TheHash, counts, unread, fates, pPacket, entry, reg, ended>>

TestEmpty(c) ==
    /\ At(c, "empty")
    /\ Goto(c, IF TheHash[Slot(c)].ThePacket = NoPacket THEN "lockInsert" ELSE "loadSize")
    /\ UNCHANGED <<HashLock, TheHash, counts, unread, fates, pPacket, entry, reg, ended>>

\* The pointer is loaded once for the size and once for the data.
LoadEntry(c) ==
    /\ \/ At(c, "loadSize") /\ Goto(c, "size")
       \/ At(c, "loadData") /\ Goto(c, "data")
    /\ entry' = [entry EXCEPT ![c] = TheHash[Slot(c)].ThePacket]
    /\ UNCHANGED <<HashLock, TheHash, counts, unread, fates, pPacket, reg, ended>>

\* A comparison that reads memory nobody has written may go either way, and
\* one that leaves the buffers (or finds its packet freed) may end the process.
Compare(c, equal, unwritten, faults, same, different) ==
    /\ unsure' = IF unwritten THEN unsure \cup {pPacket[c]} ELSE unsure
    /\ \/ /\ equal \/ unwritten
          /\ Goto(c, same)
          /\ UNCHANGED ended
       \/ /\ ~equal \/ unwritten
          /\ Goto(c, different)
          /\ UNCHANGED ended
       \/ /\ faults
          /\ ended' = "segfault"
          /\ UNCHANGED pc
    /\ entry' = [entry EXCEPT ![c] = NoPacket]
    /\ UNCHANGED <<HashLock, TheHash, counts, unread, freed, hits, lost, pPacket, reg>>

CompareSize(c) ==
    /\ At(c, "size")
    /\ LET dangling == entry[c] \in freed
       IN Compare(c, PayloadSize[entry[c]] = PayloadSize[pPacket[c]],
                  dangling, dangling, "loadData", "hitCount")

CompareData(c) ==
    /\ At(c, "data")
    /\ LET dangling == entry[c] \in freed
           both == <<entry[c], pPacket[c]>>
       IN Compare(c, both \notin Differing,
                  dangling \/ both \in ReadingOn,
                  dangling \/ (both \in ReadingOn /\ Overruns(pPacket[c])),
                  "lockHit", "hitCount")

\* "evict the existing packet if the hit count is less than 1, otherwise evict
\* the new packet"
TestHitCount(c) ==
    /\ At(c, "hitCount")
    /\ IF TheHash[Slot(c)].HitCount < 1
       THEN Goto(c, "lockReplace") /\ UNCHANGED <<freed, pPacket, entry>>
       ELSE discardPacket(pPacket[c]) /\ Return(c)
    /\ UNCHANGED <<HashLock, TheHash, counts, unread, hits, lost, unsure, reg, ended>>

-----------------------------------------------------------------------------
(* insert: what it does under HashLock                                     *)

Lock(c) ==
    /\ HashLock = NoConsumer
    /\ HashLock' = c
    /\ \/ At(c, "lockInsert") /\ Goto(c, "insert")
       \/ At(c, "lockHit") /\ Goto(c, "hit")
       \/ At(c, "lockReplace") /\ Goto(c, "replace")
    /\ UNCHANGED <<TheHash, counts, unread, fates, pPacket, entry, reg, ended>>

\* The slot was empty when it was tested; what is in it now is overwritten, its
\* counters are not.
Insert(c) ==
    /\ At(c, "insert")
    /\ TheHash' = [TheHash EXCEPT ![Slot(c)].ThePacket = pPacket[c]]
    /\ lost' = lost \cup ({TheHash[Slot(c)].ThePacket} \ {NoPacket})
    /\ HashLock' = NoConsumer
    /\ Return(c)
    /\ UNCHANGED <<counts, unread, freed, hits, unsure, reg, ended>>

\* The duplicate is counted for whatever packet the slot holds now.
Hit(c) ==
    /\ At(c, "hit")
    /\ TheHash' = [TheHash EXCEPT ![Slot(c)].HitCount = @ + 1,
                                  ![Slot(c)].RedundantBytes = @ + PayloadSize[pPacket[c]]]
    /\ hits' = hits \cup {pPacket[c]}
    /\ discardPacket(pPacket[c])
    /\ HashLock' = NoConsumer
    /\ Return(c)
    /\ UNCHANGED <<counts, unread, lost, unsure, reg, ended>>

\* Variant of ReplaceEntry: only the count of the evicted packet is saved.
ReplaceEntryForgetsBytes(c) ==
    /\ At(c, "replace")
    /\ gPacketHitCount' = gPacketHitCount + TheHash[Slot(c)].HitCount
    /\ TheHash' = [TheHash EXCEPT ![Slot(c)].ThePacket = pPacket[c]]
    /\ entry' = [entry EXCEPT ![c] = TheHash[Slot(c)].ThePacket]
    /\ Goto(c, "reset")
    /\ UNCHANGED <<HashLock, gPacketSeenCount, gPacketHitBytes, unread, fates,
                   pPacket, reg, ended>>

\* replaceSaveEntry up to the new pointer ...
ReplaceEntry(c) ==
    /\ At(c, "replace")
    /\ gPacketHitCount' = gPacketHitCount + TheHash[Slot(c)].HitCount
    /\ gPacketHitBytes' = gPacketHitBytes + TheHash[Slot(c)].RedundantBytes
    /\ TheHash' = [TheHash EXCEPT ![Slot(c)].ThePacket = pPacket[c]]
    /\ entry' = [entry EXCEPT ![c] = TheHash[Slot(c)].ThePacket]
    /\ Goto(c, "reset")
    /\ UNCHANGED <<HashLock, gPacketSeenCount, unread, fates, pPacket, reg, ended>>

\* Variant of ResetEntry: the new packet is discarded, not the old one.
ResetEntryFreesNew(c) ==
    /\ At(c, "reset")
    /\ TheHash' = [TheHash EXCEPT ![Slot(c)].HitCount = 0, ![Slot(c)].RedundantBytes = 0]
    /\ discardPacket(pPacket[c])
    /\ HashLock' = NoConsumer
    /\ Return(c)
    /\ UNCHANGED <<counts, unread, hits, lost, unsure, reg, ended>>

\* ... and the rest of it: the counters, the old packet and the unlock.
ResetEntry(c) ==
    /\ At(c, "reset")
    /\ TheHash' = [TheHash EXCEPT ![Slot(c)].HitCount = 0, ![Slot(c)].RedundantBytes = 0]
    /\ discardPacket(entry[c])
    /\ HashLock' = NoConsumer
    /\ Return(c)
    /\ UNCHANGED <<counts, unread, hits, lost, unsure, reg, ended>>

-----------------------------------------------------------------------------
\* main has joined the consumers: the counters left in the table are added up,
\* and its packets freed.
tallyProcessing ==
    /\ ended = "no"
    /\ unread = {}
    /\ \A c \in Consumers : pc[c] = "pop"
    /\ LET used == {i \in Indexes : TheHash[i].ThePacket # NoPacket}
       IN /\ gPacketHitCount' = gPacketHitCount
                + MapThenSumSet(LAMBDA i : TheHash[i].HitCount, used)
          /\ gPacketHitBytes' = gPacketHitBytes
                + MapThenSumSet(LAMBDA i : TheHash[i].RedundantBytes, used)
          /\ freed' = freed \cup {TheHash[i].ThePacket : i \in used}
    /\ ended' = "tallied"
    /\ UNCHANGED <<HashLock, TheHash, gPacketSeenCount, unread, hits, lost, unsure,
                   pPacket, entry, reg, pc>>

Terminated == ended # "no" /\ UNCHANGED vars

Step(c) ==
    \/ Pop(c) \/ CountSeen(c)
    \/ TestEmpty(c) \/ LoadEntry(c) \/ CompareSize(c) \/ CompareData(c)
    \/ TestHitCount(c) \/ Lock(c)
    \/ Insert(c) \/ Hit(c) \/ ReplaceEntry(c) \/ ResetEntry(c)

Next ==
    \/ \E c \in Consumers : Step(c)
    \/ tallyProcessing
    \/ Terminated

Spec == Init /\ [][Next]_vars

-----------------------------------------------------------------------------
(* Where every packet is.                                                  *)

\* Consumers whose packet is theirs; from "reset" on it is the table's.
Owners == {c \in Consumers : pc[c] \notin {"pop", "reset"}}
Replacers == {c \in Consumers : pc[c] = "reset"}

Held == {pPacket[c] : c \in Owners}
InTable == {TheHash[i].ThePacket : i \in Indexes} \ {NoPacket}
Evicted == {entry[c] : c \in Replacers} \ {NoPacket}

Pcs == {"pop", "count", "empty", "loadSize", "size", "loadData", "data",
        "hitCount", "lockInsert", "lockHit", "lockReplace", "insert", "hit",
        "replace", "reset"}

(* Every variable has its type; the totals main prints are the subject of  *)
(* HitsConserved.                                                          *)
TypeOK ==
    /\ HashLock \in Consumers \cup {NoConsumer}
    /\ TheHash \in [Indexes -> [ThePacket : Packets \cup {NoPacket},
                                HitCount : Nat, RedundantBytes : Nat]]
    /\ gPacketSeenCount \in 0..Cardinality(Packets)
    /\ ended # "tallied" => gPacketHitCount \in Nat /\ gPacketHitBytes \in Nat
    /\ unread \subseteq Packets /\ freed \subseteq Packets
    /\ hits \subseteq freed /\ lost \subseteq Packets /\ unsure \subseteq Packets
    /\ pPacket \in [Consumers -> Packets \cup {NoPacket}]
    /\ entry \in [Consumers -> Packets \cup {NoPacket}]
    /\ reg \in [Consumers -> 0..Cardinality(Packets)]
    /\ pc \in [Consumers -> Pcs]
    /\ ended \in {"no", "tallied", "segfault"}

(* However the consumers race for a slot, a packet has one owner: it is    *)
(* unread, one consumer's, in the table once, being evicted by one         *)
(* consumer, lost, or freed.  So discardPacket frees no packet twice and   *)
(* the table never keeps one that is freed.                                *)
OneOwner ==
    ended = "no" =>
        /\ \A c, d \in Owners : pPacket[c] = pPacket[d] => c = d
        /\ \A i, j \in Indexes :
              TheHash[i].ThePacket = TheHash[j].ThePacket =>
                  i = j \/ TheHash[i].ThePacket = NoPacket
        /\ Packets = unread \cup Held \cup InTable \cup Evicted \cup lost \cup freed
        /\ unread \cap (Held \cup InTable \cup Evicted \cup lost \cup freed) = {}
        /\ Held \cap (InTable \cup Evicted \cup lost \cup freed) = {}
        /\ InTable \cap (Evicted \cup lost \cup freed) = {}
        /\ Evicted \cap (lost \cup freed) = {}
        /\ lost \cap freed = {}

(* No duplicate is counted twice or forgotten, although it may be counted  *)
(* for a packet that has taken the place of the one it was compared with:  *)
(* whenever HashLock is free, the hits and bytes saved and those in the    *)
(* table are those of the packets discarded as duplicates, and so are the  *)
(* printed totals.                                                         *)
HitsConserved ==
    LET bytes == MapThenSumSet(LAMBDA x : PayloadSize[x], hits)
    IN /\ ended = "tallied" =>
            gPacketHitCount = Cardinality(hits) /\ gPacketHitBytes = bytes
       /\ ended = "no" /\ HashLock = NoConsumer =>
            /\ gPacketHitCount + MapThenSumSet(LAMBDA i : TheHash[i].HitCount, Indexes)
                  = Cardinality(hits)
            /\ gPacketHitBytes + MapThenSumSet(LAMBDA i : TheHash[i].RedundantBytes, Indexes)
                  = bytes

\* y has the payload bytes of x, but for the last of them, as many as the
\* headers of x take.
LikeButTheEnd(y, x) ==
    \A o \in PayloadOffset[x]..(LengthIncluded[x] - PayloadOffset[x] - 1) :
        o < LengthIncluded[y] /\ Byte(y, o) = Byte(x, o)
AlikeButTheEnd == {p \in Pairs : LikeButTheEnd(p[1], p[2])}

(* What "size and data payloads are the same" comes down to.  A packet     *)
(* counted as a duplicate has met in its slot a packet of its payload size *)
(* and a packet that agrees with it but for the end of the payload.  They  *)
(* are one packet, unless the first was overwritten or freed between the   *)
(* two looks.                                                              *)
HitsAreRepeats ==
    \A x \in hits \ unsure :
        LET met == {y \in Inserted \ (unread \cup {x}) : hashData[y] = hashData[x]}
        IN \E y, z \in met :
              /\ PayloadSize[y] = PayloadSize[x]
              /\ <<z, x>> \in AlikeButTheEnd
              /\ y = z \/ y \in lost \cup freed

(* Consumers that find the same slot empty overwrite each other's packet,  *)
(* which is then never freed: in any slot at most one packet less than     *)
(* there are consumers is lost that way, however long the program runs.    *)
LossBounded ==
    \A i \in Indexes :
        Cardinality({x \in lost : hashData[x] = i}) < Cardinality(Consumers)

=============================================================================
