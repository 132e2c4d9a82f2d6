-------------------------- MODULE PacketTableProofs --------------------------
(***************************************************************************)
(* Proofs about PacketTable, for any number of consumers, packets and      *)
(* slots, and whatever the packets hold: every packet has one owner, no    *)
(* slot loses as many packets as there are consumers, the unlocked counter *)
(* never exceeds the packets, a hit is a repeat of an earlier payload, and *)
(* the statistics count each hit once.                                     *)
(***************************************************************************)
EXTENDS PacketTable, FiniteSums

Locking == {"insert", "hit", "replace", "reset"}

\* HashLock belongs to whoever is in one of its sections.
Locks == \A c \in Consumers : pc[c] \in Locking <=> HashLock = c

\* What a consumer processes, and that a packet is in the slot of its payload.
InPlace ==
    /\ \A c \in Consumers :
          /\ pc[c] = "count" => pPacket[c] \in Packets
          /\ pc[c] \notin {"pop", "count"} => pPacket[c] \in Inserted
    /\ \A i \in Indexes :
          TheHash[i].ThePacket # NoPacket =>
             /\ TheHash[i].ThePacket \in Inserted
             /\ hashData[TheHash[i].ThePacket] = i

-----------------------------------------------------------------------------
(* A packet that is inserted has a payload, whatever its headers say: the  *)
(* subtraction in processPacket does not wrap.                             *)
LEMMA PayloadFits ==
    ASSUME NEW x \in Inserted
    PROVE  PayloadOffset[x] \in 34..94 /\ PayloadSize[x] \in Nat
<1>1. x \in Packets /\ Data[x] \in Seq(0..255) /\ LengthIncluded[x] = Len(Data[x])
  BY DataAssumption DEF Inserted, LengthIncluded
<1>2. Len(Data[x]) > 128 /\ Len(Data[x]) \in Nat
  BY <1>1 DEF Inserted, Ignored, MIN_PKT_SIZE
<1>3. Byte(x, 35) \in 0..255
  <2>1. ASSUME NEW S, NEW s \in Seq(S), NEW k \in 1..Len(s)
        PROVE  s[k] \in S
    OBVIOUS
  <2>2. 35 + 1 \in 1..Len(Data[x])
    BY <1>2
  <2> QED
    BY <1>1, <2>1, <2>2 DEF Byte
<1>4. Byte(x, 35) \div 16 \in 0..15
  BY <1>3
<1>5. PayloadOffset[x] \in 34..94
  BY <1>4 DEF PayloadOffset
<1>6. PayloadSize[x] = Len(Data[x]) - PayloadOffset[x]
  BY <1>1 DEF PayloadSize
<1>7. \A a \in Nat, b \in 34..94 : a > 128 => a - b \in Nat
  OBVIOUS
<1> QED
  BY <1>2, <1>5, <1>6, <1>7

(* What the proofs need to know of the constants.                          *)
LEMMA Constants ==
    /\ IsFiniteSet(Consumers) /\ Consumers # {} /\ NoConsumer \notin Consumers
    /\ IsFiniteSet(Packets) /\ NoPacket \notin Packets
    /\ Inserted \subseteq Packets /\ Ignored \subseteq Packets
    /\ hashData \in [Inserted -> Indexes]
BY TableAssumption DEF Inserted, Ignored

-----------------------------------------------------------------------------
(* Types.                                                                  *)

TypeCore ==
    /\ HashLock \in Consumers \cup {NoConsumer}
    /\ TheHash \in [Indexes -> [ThePacket : Packets \cup {NoPacket},
                                HitCount : Nat, RedundantBytes : Nat]]
    /\ gPacketSeenCount \in Nat
    /\ ended # "tallied" => gPacketHitCount \in Nat /\ gPacketHitBytes \in Nat
    /\ unread \subseteq Packets /\ freed \subseteq Packets
    /\ hits \subseteq freed /\ lost \subseteq Packets /\ unsure \subseteq Packets
    /\ pPacket \in [Consumers -> Packets \cup {NoPacket}]
    /\ entry \in [Consumers -> Packets \cup {NoPacket}]
    /\ reg \in [Consumers -> Nat]
    /\ pc \in [Consumers -> Pcs]
    /\ ended \in {"no", "tallied", "segfault"}

(* A consumer that has passed CountSeen has the slot of its packet.        *)
LEMMA SlotIndex ==
    ASSUME InPlace, NEW c \in Consumers, pc[c] \notin {"pop", "count"}
    PROVE  Slot(c) \in Indexes /\ pPacket[c] \in Inserted /\ pPacket[c] \in Packets
BY Constants DEF InPlace, Slot

LEMMA TypeStep ==
    ASSUME TypeCore, InPlace, Next
    PROVE  TypeCore'
<1>1. CASE Terminated
  BY <1>1 DEF Terminated, vars, counts, hitTotals, fates, TypeCore
<1>2. CASE tallyProcessing
  BY <1>2 DEF tallyProcessing, TypeCore
<1>3. ASSUME NEW c \in Consumers, Step(c)
      PROVE  TypeCore'
  <2> USE DEF TypeCore, At, Goto, Return, discardPacket, counts, hitTotals, fates, Pcs
  <2>1. CASE Pop(c)
    BY <2>1, Constants DEF Pop
  <2>2. CASE CountSeen(c)
    BY <2>2, Constants DEF CountSeen, InPlace
  <2>3. CASE TestEmpty(c)
    BY <2>3, Constants DEF TestEmpty
  <2>4. CASE LoadEntry(c)
    BY <2>4, SlotIndex DEF LoadEntry
  <2>5. CASE CompareSize(c)
    BY <2>5, SlotIndex DEF CompareSize, Compare
  <2>6. CASE CompareData(c)
    BY <2>6, SlotIndex DEF CompareData, Compare
  <2>7. CASE TestHitCount(c)
    BY <2>7, SlotIndex, Constants DEF TestHitCount
  <2>8. CASE Lock(c)
    BY <2>8 DEF Lock
  <2>9. CASE Insert(c)
    BY <2>9, SlotIndex DEF Insert
  <2>10. CASE Hit(c)
    <3> DEFINE i == Slot(c)
               n == PayloadSize[pPacket[c]]
    <3>1. i \in Indexes /\ pPacket[c] \in Packets /\ n \in Nat
      BY <2>10, SlotIndex, PayloadFits DEF Hit
    <3>2. TheHash[i].HitCount + 1 \in Nat /\ TheHash[i].RedundantBytes + n \in Nat
      BY <3>1
    <3>3. TheHash' = [TheHash EXCEPT ![i] =
                        [TheHash[i] EXCEPT !.HitCount = TheHash[i].HitCount + 1,
                                           !.RedundantBytes = TheHash[i].RedundantBytes + n]]
      BY <2>10, <3>1 DEF Hit
    <3>4. TheHash' \in [Indexes -> [ThePacket : Packets \cup {NoPacket},
                                    HitCount : Nat, RedundantBytes : Nat]]
      BY <3>1, <3>2, <3>3
    <3>5. freed' = freed \cup {pPacket[c]} /\ hits' = hits \cup {pPacket[c]}
      BY <2>10, <3>1, Constants DEF Hit
    <3>6. freed' \subseteq Packets /\ hits' \subseteq freed'
      BY <3>1, <3>5
    <3>7. pPacket' \in [Consumers -> Packets \cup {NoPacket}]
          /\ entry' \in [Consumers -> Packets \cup {NoPacket}]
          /\ pc' \in [Consumers -> Pcs]
      BY <2>10 DEF Hit
    <3> QED
      BY <2>10, <3>4, <3>6, <3>7 DEF Hit
  <2>11. CASE ReplaceEntry(c)
    BY <2>11, SlotIndex DEF ReplaceEntry
  <2>12. CASE ResetEntry(c)
    BY <2>12, SlotIndex DEF ResetEntry
  <2> QED
    BY <1>3, <2>1, <2>2, <2>3, <2>4, <2>5, <2>6, <2>7, <2>8, <2>9, <2>10, <2>11,
       <2>12 DEF Step
<1> QED
  BY <1>1, <1>2, <1>3 DEF Next

(* The sections of HashLock exclude each other.                            *)
LEMMA LockStep ==
    ASSUME TypeCore, Locks, Next
    PROVE  Locks'
<1> USE DEF TypeCore, Locks, Locking, At, Goto, Return, counts, hitTotals, fates
<1>1. CASE Terminated
  BY <1>1 DEF Terminated, vars
<1>2. CASE tallyProcessing
  BY <1>2 DEF tallyProcessing
<1>3. ASSUME NEW c \in Consumers, Step(c)
      PROVE  Locks'
  <2>1. CASE Pop(c)
    BY <2>1 DEF Pop
  <2>2. CASE CountSeen(c)
    BY <2>2 DEF CountSeen
  <2>3. CASE TestEmpty(c)
    BY <2>3 DEF TestEmpty
  <2>4. CASE LoadEntry(c)
    BY <2>4 DEF LoadEntry
  <2>5. CASE CompareSize(c)
    BY <2>5 DEF CompareSize, Compare
  <2>6. CASE CompareData(c)
    BY <2>6 DEF CompareData, Compare
  <2>7. CASE TestHitCount(c)
    BY <2>7 DEF TestHitCount
  <2>8. CASE Lock(c)
    BY <2>8, Constants DEF Lock
  <2>9. CASE Insert(c)
    BY <2>9, Constants DEF Insert
  <2>10. CASE Hit(c)
    BY <2>10, Constants DEF Hit
  <2>11. CASE ReplaceEntry(c)
    BY <2>11 DEF ReplaceEntry
  <2>12. CASE ResetEntry(c)
    BY <2>12, Constants DEF ResetEntry
  <2> QED
    BY <1>3, <2>1, <2>2, <2>3, <2>4, <2>5, <2>6, <2>7, <2>8, <2>9, <2>10, <2>11,
       <2>12 DEF Step
<1> QED
  BY <1>1, <1>2, <1>3 DEF Next

-----------------------------------------------------------------------------
(* What the steps do to the table: only Insert and ReplaceEntry change the *)
(* packet of a slot, and they put the consumer's own there.                *)

Puts(c) == Insert(c) \/ ReplaceEntry(c)

LEMMA SamePackets ==
    ASSUME TypeCore, InPlace, NEW c \in Consumers, Step(c), ~Puts(c),
           NEW i \in Indexes
    PROVE  TheHash'[i].ThePacket = TheHash[i].ThePacket
<1>1. CASE Hit(c)
  BY <1>1, SlotIndex DEF Hit, TypeCore, At
<1>2. CASE ResetEntry(c)
  BY <1>2, SlotIndex DEF ResetEntry, TypeCore, At
<1>3. CASE ~Hit(c) /\ ~ResetEntry(c)
  <2>1. UNCHANGED TheHash
    BY <1>3 DEF Step, Puts, Pop, CountSeen, TestEmpty, LoadEntry, CompareSize,
                CompareData, Compare, TestHitCount, Lock
  <2> QED
    BY <2>1
<1> QED
  BY <1>1, <1>2, <1>3

LEMMA PacketPut ==
    ASSUME TypeCore, InPlace, NEW c \in Consumers, Puts(c)
    PROVE  /\ Slot(c) \in Indexes /\ pPacket[c] \in Inserted
           /\ TheHash'[Slot(c)].ThePacket = pPacket[c]
           /\ \A i \in Indexes \ {Slot(c)} : TheHash'[i] = TheHash[i]
BY SlotIndex DEF Puts, Insert, ReplaceEntry, TypeCore, At

LEMMA PlaceStep ==
    ASSUME TypeCore, InPlace, Next
    PROVE  InPlace'
<1>1. CASE Terminated
  BY <1>1 DEF Terminated, vars, counts, hitTotals, fates, InPlace
<1>2. CASE tallyProcessing
  BY <1>2 DEF tallyProcessing, InPlace
<1>3. ASSUME NEW c \in Consumers, Step(c)
      PROVE  InPlace'
  <2>1. ASSUME NEW d \in Consumers
        PROVE  /\ pc'[d] = "count" => pPacket'[d] \in Packets
               /\ pc'[d] \notin {"pop", "count"} => pPacket'[d] \in Inserted
    <3> USE DEF TypeCore, InPlace, At, Goto, Return
    <3>1. CASE Pop(c)
      BY <3>1 DEF Pop
    <3>2. CASE CountSeen(c)
      BY <3>2 DEF CountSeen, Inserted
    <3>3. CASE TestEmpty(c) \/ LoadEntry(c) \/ Lock(c)
      BY <3>3 DEF TestEmpty, LoadEntry, Lock
    <3>4. CASE CompareSize(c) \/ CompareData(c)
      BY <3>4 DEF CompareSize, CompareData, Compare
    <3>5. CASE TestHitCount(c)
      BY <3>5 DEF TestHitCount
    <3>6. CASE Insert(c) \/ Hit(c) \/ ReplaceEntry(c) \/ ResetEntry(c)
      BY <3>6 DEF Insert, Hit, ReplaceEntry, ResetEntry
    <3> QED
      BY <1>3, <3>1, <3>2, <3>3, <3>4, <3>5, <3>6 DEF Step
  <2>2. ASSUME NEW i \in Indexes, TheHash'[i].ThePacket # NoPacket
        PROVE  TheHash'[i].ThePacket \in Inserted /\ hashData[TheHash'[i].ThePacket] = i
    <3>1. CASE Puts(c)
      BY <2>2, <3>1, PacketPut DEF InPlace, Slot
    <3>2. CASE ~Puts(c)
      BY <1>3, <2>2, <3>2, SamePackets DEF InPlace
    <3> QED
      BY <3>1, <3>2
  <2> QED
    BY <2>1, <2>2 DEF InPlace
<1> QED
  BY <1>1, <1>2, <1>3 DEF Next

-----------------------------------------------------------------------------
(* The owner of a packet.  A step is of one of six kinds, by what it does  *)
(* to the sets of OneOwner; a lemma for each kind says so.                 *)

\* Everything but what c holds stays with its consumer.
OthersKeep(c) ==
    /\ \A d \in Owners \ {c} : d \in Owners' /\ pPacket'[d] = pPacket[d]
    /\ Owners' \subseteq Owners \cup {c}
    /\ \A d \in Replacers \ {c} : d \in Replacers' /\ entry'[d] = entry[d]
    /\ Replacers' \subseteq Replacers \cup {c}

LEMMA OthersKept ==
    ASSUME TypeCore, NEW c \in Consumers, Step(c)
    PROVE  OthersKeep(c)
<1>1. \A d \in Consumers \ {c} :
         pc'[d] = pc[d] /\ pPacket'[d] = pPacket[d] /\ entry'[d] = entry[d]
  BY DEF TypeCore, Step, Pop, CountSeen, TestEmpty, LoadEntry, CompareSize,
         CompareData, Compare, TestHitCount, Lock, Insert, Hit, ReplaceEntry,
         ResetEntry, Return, Goto
<1> QED
  BY <1>1 DEF OthersKeep, Owners, Replacers

LEMMA HeldKept ==
    ASSUME NEW c \in Owners, OthersKeep(c), c \in Owners', pPacket'[c] = pPacket[c]
    PROVE  Held' = Held /\ Owners' = Owners
<1>1. Owners' = Owners
  BY DEF OthersKeep
<1>2. \A d \in Owners : pPacket'[d] = pPacket[d]
  BY DEF OthersKeep
<1> QED
  BY <1>1, <1>2 DEF Held

LEMMA HeldGivenUp ==
    ASSUME NEW c \in Owners, OthersKeep(c), c \notin Owners',
           \A d \in Owners : pPacket[c] = pPacket[d] => c = d
    PROVE  Held' = Held \ {pPacket[c]} /\ Owners' = Owners \ {c}
<1>1. Owners' = Owners \ {c}
  BY DEF OthersKeep
<1>2. \A d \in Owners \ {c} : pPacket'[d] = pPacket[d] /\ pPacket[d] # pPacket[c]
  BY DEF OthersKeep
<1>3. Held' = {pPacket[d] : d \in Owners \ {c}}
  BY <1>1, <1>2 DEF Held
<1> QED
  BY <1>1, <1>2, <1>3 DEF Held

LEMMA EvictedKept ==
    ASSUME NEW c, OthersKeep(c), c \notin Replacers, c \notin Replacers'
    PROVE  Evicted' = Evicted
<1>1. Replacers' = Replacers
  BY DEF OthersKeep
<1>2. \A d \in Replacers : entry'[d] = entry[d]
  BY DEF OthersKeep
<1> QED
  BY <1>1, <1>2 DEF Evicted

LEMMA TableKept ==
    ASSUME \A i \in Indexes : TheHash'[i].ThePacket = TheHash[i].ThePacket
    PROVE  InTable' = InTable
BY DEF InTable

(* Who holds HashLock is the only one that evicts.                         *)
LEMMA OneReplacer ==
    ASSUME Locks, NEW c \in Consumers, pc[c] \in Locking
    PROVE  /\ pc[c] # "reset" => Replacers = {} /\ Evicted = {}
           /\ pc[c] = "reset" => Replacers = {c} /\ Evicted = {entry[c]} \ {NoPacket}
<1>1. \A d \in Replacers : d = c
  BY DEF Locks, Locking, Replacers
<1>2. pc[c] = "reset" => Replacers = {c}
  BY <1>1 DEF Replacers
<1>3. pc[c] # "reset" => Replacers = {}
  BY <1>1 DEF Replacers
<1> QED
  BY <1>2, <1>3 DEF Evicted

\* OneOwner, piece by piece and without its condition.
Singly ==
    /\ \A c, d \in Owners : pPacket[c] = pPacket[d] => c = d
    /\ \A i, j \in Indexes :
          TheHash[i].ThePacket = TheHash[j].ThePacket =>
              i = j \/ TheHash[i].ThePacket = NoPacket

Apart ==
    /\ Packets = unread \cup Held \cup InTable \cup Evicted \cup lost \cup freed
    /\ unread \cap (Held \cup InTable \cup Evicted \cup lost \cup freed) = {}
    /\ Held \cap (InTable \cup Evicted \cup lost \cup freed) = {}
    /\ InTable \cap (Evicted \cup lost \cup freed) = {}
    /\ Evicted \cap (lost \cup freed) = {}
    /\ lost \cap freed = {}

LEMMA OwnerParts == OneOwner <=> (ended = "no" => Singly /\ Apart)
BY DEF OneOwner, Singly, Apart

\* A consumer works on with its packet.
WorksOn(c) ==
    \/ CountSeen(c) /\ pPacket[c] \notin Ignored
    \/ TestEmpty(c) \/ LoadEntry(c) \/ CompareSize(c) \/ CompareData(c)
    \/ TestHitCount(c) /\ pc'[c] = "lockReplace"
    \/ Lock(c)

\* A consumer frees its packet.
Discards(c) ==
    \/ CountSeen(c) /\ pPacket[c] \in Ignored
    \/ TestHitCount(c) /\ pc'[c] = "pop"
    \/ Hit(c)

LEMMA Kinds ==
    ASSUME TypeCore, NEW c \in Consumers, Step(c)
    PROVE  \/ WorksOn(c) \/ Discards(c) \/ Pop(c)
           \/ Insert(c) \/ ReplaceEntry(c) \/ ResetEntry(c)
<1>1. TestHitCount(c) => pc'[c] \in {"lockReplace", "pop"}
  BY DEF TestHitCount, Goto, Return, TypeCore
<1> QED
  BY <1>1 DEF Step, WorksOn, Discards

LEMMA WorksOnKeeps ==
    ASSUME TypeCore, InPlace, Singly, Apart, NEW c \in Consumers, WorksOn(c)
    PROVE  Singly' /\ Apart'
<1>1. Step(c) /\ ~Puts(c)
  BY DEF WorksOn, Step, Puts, CountSeen, TestEmpty, LoadEntry, CompareSize, CompareData,
         TestHitCount, Lock, Insert, ReplaceEntry, At
<1>2. /\ c \in Owners /\ c \in Owners' /\ c \notin Replacers /\ c \notin Replacers'
      /\ UNCHANGED <<unread, lost, freed, pPacket>>
  BY DEF WorksOn, CountSeen, TestEmpty, LoadEntry, CompareSize, CompareData, Compare,
         TestHitCount, Lock, At, Goto, Owners, Replacers, TypeCore, counts, fates, Return
<1>3. OthersKeep(c)
  BY <1>1, OthersKept
<1>4. \A i \in Indexes : TheHash'[i].ThePacket = TheHash[i].ThePacket
  BY <1>1, SamePackets
<1>5. Held' = Held /\ Owners' = Owners /\ InTable' = InTable /\ Evicted' = Evicted
  BY <1>2, <1>3, <1>4, HeldKept, TableKept, EvictedKept
<1>6. Singly'
  BY <1>2, <1>4, <1>5 DEF Singly
<1> QED
  BY <1>2, <1>5, <1>6 DEF Apart

LEMMA DiscardFrees ==
    ASSUME TypeCore, InPlace, Singly, Apart, NEW c \in Consumers, Discards(c)
    PROVE  Singly' /\ Apart'
<1>1. Step(c) /\ ~Puts(c)
  BY DEF Discards, Step, Puts, CountSeen, TestHitCount, Hit, Insert, ReplaceEntry, At
<1>2. pPacket[c] \in Packets
  BY SlotIndex DEF Discards, CountSeen, TestHitCount, Hit, At, InPlace
<1>3. /\ c \in Owners /\ c \notin Owners' /\ c \notin Replacers /\ c \notin Replacers'
      /\ UNCHANGED <<unread, lost>>
  BY DEF Discards, CountSeen, TestHitCount, Hit, At, Goto, Return, Owners, Replacers,
         TypeCore, fates, counts
<1>4. freed' = freed \cup {pPacket[c]}
  BY <1>2, Constants DEF Discards, CountSeen, TestHitCount, Hit, discardPacket, Goto, At,
         Return, TypeCore
<1>5. OthersKeep(c)
  BY <1>1, OthersKept
<1>6. \A i \in Indexes : TheHash'[i].ThePacket = TheHash[i].ThePacket
  BY <1>1, SamePackets
<1>7. /\ Held' = Held \ {pPacket[c]} /\ Owners' = Owners \ {c}
      /\ InTable' = InTable /\ Evicted' = Evicted
  BY <1>3, <1>5, <1>6, HeldGivenUp, TableKept, EvictedKept DEF Singly
<1>8. pPacket[c] \in Held
  BY <1>3 DEF Held
<1>9. Singly'
  BY <1>5, <1>6, <1>7 DEF Singly, OthersKeep
<1> QED
  BY <1>3, <1>4, <1>7, <1>8, <1>9 DEF Apart

LEMMA PopTakes ==
    ASSUME TypeCore, InPlace, Singly, Apart, NEW c \in Consumers, Pop(c)
    PROVE  Singly' /\ Apart'
<1>1. Step(c) /\ ~Puts(c)
  BY DEF Pop, Step, Puts, Insert, ReplaceEntry, At
<1>2. OthersKeep(c)
  BY <1>1, OthersKept
<1>3. PICK x \in unread : unread' = unread \ {x} /\ pPacket' = [pPacket EXCEPT ![c] = x]
  BY DEF Pop
<1>4. /\ c \notin Owners /\ c \in Owners' /\ c \notin Replacers /\ c \notin Replacers'
      /\ pPacket'[c] = x /\ UNCHANGED <<lost, freed>>
  BY <1>3 DEF Pop, At, Goto, Owners, Replacers, TypeCore, fates
<1>5. \A i \in Indexes : TheHash'[i].ThePacket = TheHash[i].ThePacket
  BY <1>1, SamePackets
<1>6. InTable' = InTable /\ Evicted' = Evicted
  BY <1>2, <1>4, <1>5, TableKept, EvictedKept
<1>7. Owners' = Owners \cup {c} /\ \A d \in Owners : pPacket'[d] = pPacket[d]
  BY <1>2, <1>4 DEF OthersKeep
<1>8. Held' = Held \cup {x}
  BY <1>4, <1>7 DEF Held
<1>9. \A d \in Owners : pPacket[d] # x
  BY <1>3 DEF Apart, Held
<1>10. Singly'
  BY <1>4, <1>5, <1>7, <1>9 DEF Singly
<1> QED
  BY <1>3, <1>4, <1>6, <1>8, <1>10 DEF Apart

(* A packet put in a slot is in the table instead of the one before it.    *)
LEMMA PutInTable ==
    ASSUME TypeCore, InPlace, Singly, Apart, NEW c \in Consumers, Puts(c)
    PROVE  /\ InTable' = (InTable \ {TheHash[Slot(c)].ThePacket}) \cup {pPacket[c]}
           /\ \A i, j \in Indexes :
                 TheHash'[i].ThePacket = TheHash'[j].ThePacket =>
                     i = j \/ TheHash'[i].ThePacket = NoPacket
           /\ Held' = Held \ {pPacket[c]} /\ Owners' = Owners \ {c}
           /\ pPacket[c] \in Held /\ UNCHANGED <<unread, freed>>
<1> DEFINE s == Slot(c)
<1>1. /\ s \in Indexes /\ pPacket[c] \in Inserted
      /\ TheHash'[s].ThePacket = pPacket[c]
      /\ \A i \in Indexes \ {s} : TheHash'[i] = TheHash[i]
  BY PacketPut
<1>2. Step(c) /\ OthersKeep(c)
  BY OthersKept DEF Puts, Step
<1>3. /\ c \in Owners /\ c \notin Owners' /\ UNCHANGED <<unread, freed>>
  BY DEF Puts, Insert, ReplaceEntry, At, Goto, Return, Owners, TypeCore, fates
<1>4. pPacket[c] \in Held /\ Held' = Held \ {pPacket[c]} /\ Owners' = Owners \ {c}
  BY <1>2, <1>3, HeldGivenUp DEF Held, Singly
<1>5. pPacket[c] # NoPacket /\ pPacket[c] \notin InTable
  BY <1>1, <1>4, Constants DEF Apart
<1>6. \A i \in Indexes : TheHash[i].ThePacket # pPacket[c]
  BY <1>5 DEF InTable
<1>7. \A i, j \in Indexes :
        TheHash'[i].ThePacket = TheHash'[j].ThePacket =>
            i = j \/ TheHash'[i].ThePacket = NoPacket
  BY <1>1, <1>6 DEF Singly
<1>8. \A i \in Indexes \ {s} :
        TheHash[i].ThePacket # NoPacket => TheHash[i].ThePacket # TheHash[s].ThePacket
  BY <1>1 DEF Singly
<1>9. InTable' = (InTable \ {TheHash[s].ThePacket}) \cup {pPacket[c]}
  <2>1. ASSUME NEW x \in InTable'
        PROVE  x \in (InTable \ {TheHash[s].ThePacket}) \cup {pPacket[c]}
    <3>1. PICK i \in Indexes : x = TheHash'[i].ThePacket /\ x # NoPacket
      BY <2>1 DEF InTable
    <3> QED
      BY <3>1, <1>1, <1>8 DEF InTable
  <2>2. ASSUME NEW x \in InTable, x # TheHash[s].ThePacket
        PROVE  x \in InTable'
    <3>1. PICK i \in Indexes : x = TheHash[i].ThePacket /\ x # NoPacket
      BY <2>2 DEF InTable
    <3>2. x = TheHash'[i].ThePacket
      BY <3>1, <2>2, <1>1
    <3> QED
      BY <3>1, <3>2 DEF InTable
  <2>3. pPacket[c] \in InTable'
    BY <1>1, <1>5 DEF InTable
  <2> QED
    BY <2>1, <2>2, <2>3
<1> QED
  BY <1>3, <1>4, <1>7, <1>9

LEMMA InsertLoses ==
    ASSUME TypeCore, InPlace, Singly, Apart, NEW c \in Consumers, Insert(c)
    PROVE  Singly' /\ Apart'
<1> DEFINE y == TheHash[Slot(c)].ThePacket
<1>1. Puts(c) /\ Step(c) /\ OthersKeep(c)
  BY OthersKept DEF Puts, Step
<1>2. c \notin Replacers /\ c \notin Replacers' /\ lost' = lost \cup ({y} \ {NoPacket})
  BY DEF Insert, At, Goto, Return, Replacers, TypeCore
<1>3. Evicted' = Evicted
  BY <1>1, <1>2, EvictedKept
<1>4. /\ InTable' = (InTable \ {y}) \cup {pPacket[c]}
      /\ Held' = Held \ {pPacket[c]} /\ Owners' = Owners \ {c}
      /\ pPacket[c] \in Held /\ UNCHANGED <<unread, freed>>
  BY <1>1, PutInTable
<1>5. Slot(c) \in Indexes
  BY <1>1, PacketPut
<1>6. y # NoPacket => y \in InTable
  BY <1>5 DEF InTable
<1>7. NoPacket \notin InTable
  BY DEF InTable
<1>8. Singly'
  BY <1>1, <1>4, PutInTable DEF Singly, OthersKeep
<1>9. CASE y = NoPacket
  BY <1>2, <1>3, <1>4, <1>7, <1>8, <1>9 DEF Apart
<1>10. CASE y # NoPacket
  BY <1>2, <1>3, <1>4, <1>6, <1>8, <1>10 DEF Apart
<1> QED
  BY <1>9, <1>10

LEMMA ReplaceEvicts ==
    ASSUME TypeCore, Locks, InPlace, Singly, Apart, NEW c \in Consumers, ReplaceEntry(c)
    PROVE  Singly' /\ Apart'
<1> DEFINE y == TheHash[Slot(c)].ThePacket
<1>1. Puts(c) /\ Step(c) /\ OthersKeep(c)
  BY OthersKept DEF Puts, Step
<1>2. Replacers = {} /\ Evicted = {}
  BY OneReplacer DEF ReplaceEntry, At, Locking
<1>3. c \in Replacers' /\ entry'[c] = y /\ lost' = lost
  BY DEF ReplaceEntry, At, Goto, Replacers, TypeCore, fates
<1>4. Replacers' = {c}
  BY <1>1, <1>2, <1>3 DEF OthersKeep
<1>5. Evicted' = {y} \ {NoPacket}
  BY <1>3, <1>4 DEF Evicted
<1>6. /\ InTable' = (InTable \ {y}) \cup {pPacket[c]}
      /\ Held' = Held \ {pPacket[c]} /\ Owners' = Owners \ {c}
      /\ pPacket[c] \in Held /\ UNCHANGED <<unread, freed>>
  BY <1>1, PutInTable
<1>7. Slot(c) \in Indexes
  BY <1>1, PacketPut
<1>8. y # NoPacket => y \in InTable
  BY <1>7 DEF InTable
<1>9. NoPacket \notin InTable
  BY DEF InTable
<1>10. Singly'
  BY <1>1, <1>6, PutInTable DEF Singly, OthersKeep
<1>11. CASE y = NoPacket
  BY <1>2, <1>3, <1>5, <1>6, <1>9, <1>10, <1>11 DEF Apart
<1>12. CASE y # NoPacket
  BY <1>2, <1>3, <1>5, <1>6, <1>8, <1>10, <1>12 DEF Apart
<1> QED
  BY <1>11, <1>12

LEMMA ResetFrees ==
    ASSUME TypeCore, Locks, InPlace, Singly, Apart, NEW c \in Consumers, ResetEntry(c)
    PROVE  Singly' /\ Apart'
<1>1. Step(c) /\ ~Puts(c) /\ OthersKeep(c)
  BY OthersKept DEF Step, Puts, ResetEntry, Insert, ReplaceEntry, At
<1>2. Replacers = {c} /\ Evicted = {entry[c]} \ {NoPacket}
  BY OneReplacer DEF ResetEntry, At, Locking
<1>3. /\ c \notin Owners /\ c \notin Owners' /\ c \notin Replacers'
      /\ UNCHANGED <<unread, lost>> /\ freed' = freed \cup ({entry[c]} \ {NoPacket})
  BY DEF ResetEntry, At, Goto, Return, Owners, Replacers, TypeCore, discardPacket
<1>4. Replacers' = {} /\ Evicted' = {}
  BY <1>1, <1>2, <1>3 DEF OthersKeep, Evicted
<1>5. Owners' = Owners /\ \A d \in Owners : pPacket'[d] = pPacket[d]
  BY <1>1, <1>3 DEF OthersKeep
<1>6. Held' = Held
  BY <1>5 DEF Held
<1>7. \A i \in Indexes : TheHash'[i].ThePacket = TheHash[i].ThePacket
  BY <1>1, SamePackets
<1>8. InTable' = InTable
  BY <1>7, TableKept
<1>9. Singly'
  BY <1>5, <1>7 DEF Singly
<1> QED
  BY <1>2, <1>3, <1>4, <1>6, <1>8, <1>9 DEF Apart

LEMMA OwnerStep ==
    ASSUME TypeCore, Locks, InPlace, OneOwner, Next
    PROVE  OneOwner'
<1>1. CASE Terminated \/ tallyProcessing
  BY <1>1, OwnerParts DEF Terminated, tallyProcessing, OneOwner, vars
<1>2. ASSUME NEW c \in Consumers, Step(c)
      PROVE  OneOwner'
  <2>1. ended = "no"
    BY <1>2 DEF Step, Pop, CountSeen, TestEmpty, LoadEntry, CompareSize, CompareData,
                TestHitCount, Lock, Insert, Hit, ReplaceEntry, ResetEntry, At
  <2>2. Singly /\ Apart
    BY <2>1, OwnerParts
  <2>3. Singly' /\ Apart'
    BY <1>2, <2>2, Kinds, WorksOnKeeps, DiscardFrees, PopTakes, InsertLoses,
       ReplaceEvicts, ResetFrees
  <2> QED
    BY <2>3 DEF Singly, Apart, OneOwner
<1> QED
  BY <1>1, <1>2 DEF Next

-----------------------------------------------------------------------------
(* gPacketSeenCount.  Its increments get lost, but none is of a packet     *)
(* twice, and a value that a consumer is about to store is one from a time *)
(* when no more packets were counted.                                      *)

Counting == {c \in Consumers : pc[c] = "count"}
Counted == Packets \ (unread \cup {pPacket[c] : c \in Counting})

SeenBounded ==
    ended = "no" =>
        /\ gPacketSeenCount <= Cardinality(Counted)
        /\ \A c \in Counting : reg[c] <= Cardinality(Counted)

LEMMA CountedFinite ==
    /\ IsFiniteSet(Counted) /\ Cardinality(Counted) \in Nat
    /\ Cardinality(Counted) <= Cardinality(Packets) /\ Cardinality(Packets) \in Nat
BY Constants, FS_Subset, FS_CardinalityType DEF Counted

(* Every step but CountSeen leaves the counted packets and the counter.    *)
LEMMA CountedKept ==
    ASSUME TypeCore, NEW c \in Consumers, Step(c), ~CountSeen(c)
    PROVE  /\ Counted' = Counted /\ gPacketSeenCount' = gPacketSeenCount
           /\ \A d \in Counting' :
                 (d \in Counting /\ reg'[d] = reg[d]) \/ reg'[d] = gPacketSeenCount
<1>1. gPacketSeenCount' = gPacketSeenCount
  BY DEF Step, Pop, TestEmpty, LoadEntry, CompareSize, CompareData, Compare,
         TestHitCount, Lock, Insert, Hit, ReplaceEntry, ResetEntry, counts
<1>2. CASE Pop(c)
  <2>1. PICK x \in unread : unread' = unread \ {x} /\ pPacket' = [pPacket EXCEPT ![c] = x]
    BY <1>2 DEF Pop
  <2>2. Counting' = Counting \cup {c} /\ c \notin Counting
    BY <1>2 DEF Pop, At, Goto, Counting, TypeCore
  <2>3. pPacket'[c] = x /\ \A d \in Counting : pPacket'[d] = pPacket[d]
    BY <2>1, <2>2 DEF TypeCore, Counting
  <2>4. {pPacket'[d] : d \in Counting'} = {pPacket[d] : d \in Counting} \cup {x}
    BY <2>2, <2>3
  <2>5. Counted' = Counted
    BY <2>1, <2>4 DEF Counted
  <2>6. reg' = [reg EXCEPT ![c] = gPacketSeenCount]
    BY <1>2 DEF Pop
  <2>7. ASSUME NEW d \in Counting'
        PROVE  (d \in Counting /\ reg'[d] = reg[d]) \/ reg'[d] = gPacketSeenCount
    BY <2>2, <2>6 DEF TypeCore, Counting
  <2> QED
    BY <1>1, <2>5, <2>7
<1>3. CASE ~Pop(c)
  <2>1. /\ Counting' = Counting /\ unread' = unread /\ reg' = reg
        /\ \A d \in Counting : pPacket'[d] = pPacket[d]
    BY <1>3 DEF Step, TestEmpty, LoadEntry, CompareSize, CompareData, Compare, At, Goto,
           TestHitCount, Lock, Insert, Hit, ReplaceEntry, ResetEntry, Return, Counting,
           TypeCore
  <2>2. Counted' = Counted
    BY <2>1 DEF Counted
  <2> QED
    BY <1>1, <2>1, <2>2
<1> QED
  BY <1>2, <1>3

(* CountSeen counts one packet more, its own.                              *)
LEMMA CountedMore ==
    ASSUME TypeCore, InPlace, Singly, Apart, NEW c \in Consumers, CountSeen(c)
    PROVE  /\ Cardinality(Counted') = Cardinality(Counted) + 1
           /\ gPacketSeenCount' = reg[c] + 1 /\ c \in Counting
           /\ \A d \in Counting' : d \in Counting /\ reg'[d] = reg[d]
<1>1. c \in Counting /\ c \in Owners /\ pPacket[c] \in Packets
  BY DEF CountSeen, At, Counting, Owners, InPlace
<1>2. /\ Counting' = Counting \ {c} /\ unread' = unread
      /\ gPacketSeenCount' = reg[c] + 1
      /\ \A d \in Counting \ {c} : pPacket'[d] = pPacket[d] /\ reg'[d] = reg[d]
  BY DEF CountSeen, At, Goto, Return, Counting, TypeCore
<1>3. \A d \in Counting \ {c} : pPacket[d] # pPacket[c]
  BY <1>1 DEF Singly, Owners, Counting
<1>4. pPacket[c] \notin unread
  BY <1>1 DEF Apart, Held
<1>5. {pPacket'[d] : d \in Counting'} = {pPacket[d] : d \in Counting} \ {pPacket[c]}
  BY <1>2, <1>3
<1>6. Counted' = Counted \cup {pPacket[c]} /\ pPacket[c] \notin Counted
  BY <1>1, <1>2, <1>4, <1>5 DEF Counted
<1>7. Cardinality(Counted') = Cardinality(Counted) + 1
  BY <1>6, CountedFinite, FS_AddElement
<1> QED
  BY <1>1, <1>2, <1>7

LEMMA SeenStep ==
    ASSUME TypeCore, InPlace, OneOwner, SeenBounded, Next
    PROVE  SeenBounded'
<1>1. CASE Terminated \/ tallyProcessing
  BY <1>1 DEF Terminated, tallyProcessing, SeenBounded, vars
<1>2. ASSUME NEW c \in Consumers, Step(c)
      PROVE  SeenBounded'
  <2>1. ended = "no"
    BY <1>2 DEF Step, Pop, CountSeen, TestEmpty, LoadEntry, CompareSize, CompareData,
                TestHitCount, Lock, Insert, Hit, ReplaceEntry, ResetEntry, At
  <2>2. CASE CountSeen(c)
    <3>1. /\ Cardinality(Counted') = Cardinality(Counted) + 1
          /\ gPacketSeenCount' = reg[c] + 1 /\ c \in Counting
          /\ \A d \in Counting' : d \in Counting /\ reg'[d] = reg[d]
      BY <2>1, <2>2, OwnerParts, CountedMore
    <3>2. PICK n \in Nat : n = Cardinality(Counted')
      BY <3>1, CountedFinite
    <3>3. \A d \in Counting : reg[d] \in Nat /\ reg[d] + 1 <= n
      BY <2>1, <3>1, <3>2, CountedFinite DEF SeenBounded, TypeCore, Counting
    <3>4. gPacketSeenCount' <= n /\ \A d \in Counting' : reg'[d] <= n
      BY <3>1, <3>3
    <3> QED
      BY <3>2, <3>4 DEF SeenBounded
  <2>3. CASE ~CountSeen(c)
    BY <1>2, <2>1, <2>3, CountedKept DEF SeenBounded
  <2> QED
    BY <2>2, <2>3
<1> QED
  BY <1>1, <1>2 DEF Next

-----------------------------------------------------------------------------
(* The packets a slot loses.  Once a slot has a packet, no consumer joins  *)
(* those that are about to insert there, and each of them loses one packet *)
(* at most; the first of them, or whoever put a packet there, loses none.  *)

Lost(i) == {x \in lost : hashData[x] = i}
Pending(i) == {c \in Consumers : pc[c] \in {"lockInsert", "insert"} /\ Slot(c) = i}

LossesLeft ==
    \A i \in Indexes :
        IF TheHash[i].ThePacket = NoPacket
        THEN Lost(i) = {}
        ELSE Cardinality(Lost(i)) + Cardinality(Pending(i)) < Cardinality(Consumers)

LEMMA LossFinite ==
    ASSUME TypeCore, NEW i \in Indexes
    PROVE  /\ IsFiniteSet(Lost(i)) /\ Cardinality(Lost(i)) \in Nat
           /\ IsFiniteSet(Pending(i)) /\ Cardinality(Pending(i)) \in Nat
           /\ Cardinality(Consumers) \in Nat
<1>1. IsFiniteSet(Lost(i))
  BY Constants, FS_Subset DEF Lost, TypeCore
<1>2. IsFiniteSet(Pending(i))
  BY Constants, FS_Subset DEF Pending
<1> QED
  BY <1>1, <1>2, Constants, FS_CardinalityType

(* Some consumer is not about to insert: so far there is a loss to spare.  *)
LEMMA FewerPending ==
    ASSUME NEW P, P \subseteq Consumers, NEW c \in Consumers, c \notin P
    PROVE  Cardinality(P) < Cardinality(Consumers)
<1>1. IsFiniteSet(P)
  BY Constants, FS_Subset
<1>2. P \subseteq Consumers /\ P # Consumers
  OBVIOUS
<1> QED
  BY <1>1, <1>2, Constants, FS_Subset, FS_CardinalityType

LEMMA OneMore ==
    ASSUME NEW L, NEW M, NEW x, IsFiniteSet(L), M = L \cup {x}
    PROVE  Cardinality(M) <= Cardinality(L) + 1 /\ Cardinality(M) \in Nat
<1>1. /\ IsFiniteSet(L \cup {x})
      /\ Cardinality(L \cup {x}) = IF x \in L THEN Cardinality(L) ELSE Cardinality(L) + 1
  BY FS_AddElement
<1>2. Cardinality(L) \in Nat /\ Cardinality(M) \in Nat
  BY <1>1, FS_CardinalityType
<1> QED
  BY <1>1, <1>2

(* What a step that puts nothing in the table does to a slot.              *)
LEMMA LossKept ==
    ASSUME TypeCore, InPlace, LossesLeft, NEW i \in Indexes,
           TheHash'[i].ThePacket = TheHash[i].ThePacket, Lost(i)' = Lost(i),
           TheHash[i].ThePacket # NoPacket => Pending(i)' \subseteq Pending(i)
    PROVE  IF TheHash'[i].ThePacket = NoPacket
           THEN Lost(i)' = {}
           ELSE Cardinality(Lost(i)') + Cardinality(Pending(i)') < Cardinality(Consumers)
<1>1. CASE TheHash[i].ThePacket = NoPacket
  BY <1>1 DEF LossesLeft
<1>2. CASE TheHash[i].ThePacket # NoPacket
  <2>1. Cardinality(Lost(i)) + Cardinality(Pending(i)) < Cardinality(Consumers)
    BY <1>2 DEF LossesLeft
  <2>2. IsFiniteSet(Pending(i)) /\ Pending(i)' \subseteq Pending(i)
    BY <1>2, LossFinite
  <2>3. /\ Cardinality(Pending(i)') <= Cardinality(Pending(i))
        /\ Cardinality(Pending(i)') \in Nat
    BY <2>2, FS_Subset, FS_CardinalityType
  <2> QED
    BY <1>2, <2>1, <2>3, LossFinite
<1> QED
  BY <1>1, <1>2

(* Only a consumer that finds its slot empty joins those about to insert.  *)
LEMMA PendingShrinks ==
    ASSUME TypeCore, NEW c \in Consumers, Step(c), NEW i \in Indexes,
           TheHash[i].ThePacket # NoPacket
    PROVE  Pending(i)' \subseteq Pending(i)
<1>1. ASSUME NEW d \in Consumers, pc'[d] \in {"lockInsert", "insert"}
      PROVE  /\ pPacket'[d] = pPacket[d]
             /\ pc[d] \in {"lockInsert", "insert"}
                \/ (d = c /\ TheHash[Slot(c)].ThePacket = NoPacket)
  <2> USE DEF TypeCore, At, Goto, Return, fates
  <2>1. CASE Pop(c)
    BY <1>1, <2>1 DEF Pop
  <2>2. CASE CountSeen(c)
    BY <1>1, <2>2 DEF CountSeen
  <2>3. CASE TestEmpty(c)
    BY <1>1, <2>3 DEF TestEmpty
  <2>4. CASE LoadEntry(c)
    BY <1>1, <2>4 DEF LoadEntry
  <2>5. CASE CompareSize(c) \/ CompareData(c)
    BY <1>1, <2>5 DEF CompareSize, CompareData, Compare
  <2>6. CASE TestHitCount(c)
    BY <1>1, <2>6 DEF TestHitCount
  <2>7. CASE Lock(c)
    BY <1>1, <2>7 DEF Lock
  <2>8. CASE Insert(c) \/ Hit(c) \/ ReplaceEntry(c) \/ ResetEntry(c)
    BY <1>1, <2>8 DEF Insert, Hit, ReplaceEntry, ResetEntry
  <2> QED
    BY <2>1, <2>2, <2>3, <2>4, <2>5, <2>6, <2>7, <2>8 DEF Step
<1> QED
  BY <1>1 DEF Pending, Slot

(* Whoever puts a packet in a slot is then not about to insert.            *)
LEMMA PutsAndLeaves ==
    ASSUME TypeCore, NEW c \in Consumers, Puts(c), NEW i \in Indexes
    PROVE  Pending(i)' = Pending(i) \ {c}
<1>1. pc'[c] \in {"pop", "reset"}
      /\ \A d \in Consumers \ {c} : pc'[d] = pc[d] /\ pPacket'[d] = pPacket[d]
  BY DEF Puts, Insert, ReplaceEntry, Goto, Return, TypeCore
<1> QED
  BY <1>1 DEF Pending, Slot

LEMMA LossStep ==
    ASSUME TypeCore, InPlace, OneOwner, LossesLeft, Next
    PROVE  LossesLeft'
<1>1. CASE Terminated \/ tallyProcessing
  BY <1>1 DEF Terminated, tallyProcessing, LossesLeft, Lost, Pending, Slot, vars, counts,
              hitTotals, fates
<1>2. ASSUME NEW c \in Consumers, Step(c), NEW i \in Indexes
      PROVE  IF TheHash'[i].ThePacket = NoPacket
             THEN Lost(i)' = {}
             ELSE Cardinality(Lost(i)') + Cardinality(Pending(i)')
                      < Cardinality(Consumers)
  <2>1. TheHash[i].ThePacket # NoPacket => Pending(i)' \subseteq Pending(i)
    BY <1>2, PendingShrinks
  <2>2. CASE ~Puts(c)
    <3>1. lost' = lost
      BY <1>2, <2>2 DEF Step, Puts, Pop, CountSeen, TestEmpty, LoadEntry, CompareSize,
                        CompareData, Compare, TestHitCount, Lock, Hit, ResetEntry, fates
    <3>2. Lost(i)' = Lost(i)
      BY <3>1 DEF Lost
    <3> QED
      BY <1>2, <2>1, <2>2, <3>2, SamePackets, LossKept
  <2>3. CASE Puts(c)
    <3> DEFINE s == Slot(c)
               y == TheHash[s].ThePacket
    <3>1. /\ s \in Indexes /\ pPacket[c] \in Inserted /\ TheHash'[s].ThePacket = pPacket[c]
          /\ \A j \in Indexes \ {s} : TheHash'[j] = TheHash[j]
      BY <2>3, PacketPut
    <3>2. pPacket[c] # NoPacket /\ (y # NoPacket => hashData[y] = s)
      BY <3>1, Constants DEF InPlace
    <3>3. lost' = lost \cup ({y} \ {NoPacket}) \/ (ReplaceEntry(c) /\ lost' = lost)
      BY <2>3 DEF Puts, Insert, ReplaceEntry, fates
    <3>4. i # s => Lost(i)' = Lost(i)
      BY <3>2, <3>3 DEF Lost
    <3>5. CASE i # s
      BY <2>1, <3>1, <3>4, <3>5, LossKept
    <3>6. CASE i = s /\ y = NoPacket
      <4>1. lost' = lost /\ Lost(i) = {}
        BY <3>3, <3>6 DEF LossesLeft
      <4>2. Lost(i)' = {}
        BY <4>1 DEF Lost
      <4>3. Cardinality({}) = 0
        BY FS_EmptySet
      <4>4. Pending(i)' \subseteq Consumers /\ c \notin Pending(i)'
        BY <2>3, PutsAndLeaves DEF Pending
      <4>5. Cardinality(Pending(i)') < Cardinality(Consumers)
        BY <4>4, FewerPending
      <4>6. IsFiniteSet(Pending(i)')
        BY <4>4, Constants, FS_Subset
      <4>7. Cardinality(Pending(i)') \in Nat
        BY <4>6, FS_CardinalityType
      <4> QED
        BY <3>1, <3>2, <3>6, <4>2, <4>3, <4>5, <4>7
    <3>7. CASE i = s /\ y # NoPacket /\ ReplaceEntry(c)
      <4>1. lost' = lost
        BY <3>7 DEF ReplaceEntry, fates
      <4>2. Lost(i)' = Lost(i)
        BY <4>1 DEF Lost
      <4>3. IsFiniteSet(Pending(i)) /\ Pending(i)' \subseteq Pending(i)
        BY <2>1, <3>7, LossFinite
      <4>4. /\ Cardinality(Pending(i)') <= Cardinality(Pending(i))
            /\ Cardinality(Pending(i)') \in Nat
        BY <4>3, FS_Subset, FS_CardinalityType
      <4>5. Cardinality(Lost(i)) + Cardinality(Pending(i)) < Cardinality(Consumers)
        BY <3>7 DEF LossesLeft
      <4> QED
        BY <3>1, <3>2, <3>7, <4>2, <4>4, <4>5, LossFinite
    <3>8. CASE i = s /\ y # NoPacket /\ Insert(c)
      <4>1. lost' = lost \cup {y}
        BY <3>8 DEF Insert
      <4>2. Lost(i)' = Lost(i) \cup {y}
        BY <3>2, <3>8, <4>1 DEF Lost
      <4>3. Cardinality(Lost(i)') <= Cardinality(Lost(i)) + 1
            /\ Cardinality(Lost(i)') \in Nat
        BY <4>2, LossFinite, OneMore
      <4>4. c \in Pending(i) /\ Pending(i)' = Pending(i) \ {c}
        BY <2>3, <3>8, PutsAndLeaves DEF Pending, Insert, At
      <4>5. Cardinality(Pending(i)') = Cardinality(Pending(i)) - 1
        BY <4>4, LossFinite, FS_RemoveElement
      <4>6. Cardinality(Lost(i)) + Cardinality(Pending(i)) < Cardinality(Consumers)
        BY <3>8 DEF LossesLeft
      <4>7. PICK m \in Nat : m = Cardinality(Lost(i)')
        BY <4>3
      <4>8. PICK n \in Int : n = Cardinality(Pending(i)')
        BY <4>5, LossFinite
      <4>9. m + n < Cardinality(Consumers)
        BY <4>3, <4>5, <4>6, <4>7, <4>8, LossFinite
      <4> QED
        BY <3>1, <3>2, <3>8, <4>7, <4>8, <4>9
    <3> QED
      BY <2>3, <3>5, <3>6, <3>7, <3>8 DEF Puts
  <2> QED
    BY <2>2, <2>3
<1>3. (\E c \in Consumers : Step(c)) => LossesLeft'
  BY <1>2 DEF LossesLeft
<1> QED
  BY <1>1, <1>3 DEF Next

(* A slot without a packet has lost none, one with a packet few enough.    *)
LEMMA LossesLeftBound ==
    ASSUME TypeCore, LossesLeft
    PROVE  LossBounded
<1>1. ASSUME NEW i \in Indexes
      PROVE  Cardinality(Lost(i)) < Cardinality(Consumers)
  <2>1. CASE TheHash[i].ThePacket = NoPacket
    <3>1. Lost(i) = {}
      BY <2>1 DEF LossesLeft
    <3>2. PICK c \in Consumers : TRUE
      BY Constants
    <3> QED
      BY <3>1, <3>2, FewerPending
  <2>2. CASE TheHash[i].ThePacket # NoPacket
    BY <2>2, LossFinite DEF LossesLeft
  <2> QED
    BY <2>1, <2>2
<1> QED
  BY <1>1 DEF LossBounded, Lost

-----------------------------------------------------------------------------
(* What TypeOK says of the counter and the registers at all times.         *)

SeenAtMost ==
    /\ gPacketSeenCount <= Cardinality(Packets)
    /\ \A c \in Consumers : reg[c] <= Cardinality(Packets)

LEMMA SeenAtMostStep ==
    ASSUME TypeCore, InPlace, OneOwner, SeenBounded, SeenAtMost, Next
    PROVE  SeenAtMost'
<1> USE DEF SeenAtMost
<1>1. CASE Terminated \/ tallyProcessing
  BY <1>1 DEF Terminated, tallyProcessing, vars, counts
<1>2. ASSUME NEW c \in Consumers, Step(c)
      PROVE  SeenAtMost'
  <2>1. CASE CountSeen(c)
    <3>1. ended = "no" /\ gPacketSeenCount' = reg[c] + 1 /\ reg' = [reg EXCEPT ![c] = 0]
      BY <2>1 DEF CountSeen, At
    <3>2. /\ Cardinality(Counted') = Cardinality(Counted) + 1 /\ c \in Counting
      BY <2>1, <3>1, OwnerParts, CountedMore
    <3>3. reg[c] <= Cardinality(Counted) /\ reg[c] \in Nat
      BY <3>1, <3>2 DEF SeenBounded, TypeCore
    <3>4. IsFiniteSet(Counted') /\ Counted' \in SUBSET Packets
      BY Constants, FS_Subset DEF Counted
    <3>5. Cardinality(Counted') <= Cardinality(Packets)
      BY <3>4, Constants, FS_Subset
    <3>6. PICK n \in Nat : n = Cardinality(Packets)
      BY CountedFinite
    <3>7. reg[c] + 1 <= n
      BY <3>2, <3>3, <3>5, <3>6, CountedFinite
    <3>8. \A d \in Consumers : reg'[d] <= n
      BY <3>1, <3>6 DEF TypeCore
    <3> QED
      BY <3>1, <3>6, <3>7, <3>8
  <2>2. CASE ~CountSeen(c)
    <3>1. gPacketSeenCount' = gPacketSeenCount
      BY <1>2, <2>2, CountedKept
    <3>2. \A d \in Consumers : reg'[d] \in {reg[d], gPacketSeenCount}
      BY <1>2, <2>2 DEF Step, Pop, TestEmpty, LoadEntry, CompareSize, CompareData,
         Compare, TestHitCount, Lock, Insert, Hit, ReplaceEntry, ResetEntry, TypeCore
    <3> QED
      BY <3>1, <3>2
  <2> QED
    BY <2>1, <2>2
<1> QED
  BY <1>1, <1>2 DEF Next

LEMMA TypeFromCore ==
    ASSUME TypeCore, SeenAtMost
    PROVE  TypeOK
<1>1. PICK n \in Nat : n = Cardinality(Packets)
  BY CountedFinite
<1>2. gPacketSeenCount \in 0..n
  BY <1>1 DEF TypeCore, SeenAtMost
<1>3. \A c \in Consumers : reg[c] \in 0..n
  BY <1>1 DEF TypeCore, SeenAtMost
<1>4. reg \in [Consumers -> 0..n]
  BY <1>3 DEF TypeCore
<1> QED
  BY <1>1, <1>2, <1>4 DEF TypeCore, TypeOK

-----------------------------------------------------------------------------
(* What the hits repeat.  A packet that was in the table stays behind, in  *)
(* the table or lost or freed, so what a consumer has met in its slot can  *)
(* still be told when it counts the hit.                                   *)

Past == Packets \ (unread \cup Held)
Out == Packets \ (unread \cup Held \cup InTable)

\* Those that were put in the slot of x, and what x has in common with some.
Earlier(x) == {y \in Inserted \cap Past : hashData[y] = hashData[x]}
SizeSeen(x) == {y \in Earlier(x) : PayloadSize[y] = PayloadSize[x]}
BytesSeen(x) == {z \in Earlier(x) : <<z, x>> \in AlikeButTheEnd}
Met(x) == \E y \in SizeSeen(x), z \in BytesSeen(x) : y = z \/ y \in Out

\* What a consumer has found out, if it has not read unwritten memory.
Looks(c) ==
    LET x == pPacket[c]
    IN /\ pc[c] \in {"loadSize", "size", "loadData", "data", "lockHit", "hit"} =>
             TheHash[Slot(c)].ThePacket # NoPacket
       /\ pc[c] \in {"size", "data"} => entry[c] \in Earlier(x)
       /\ pc[c] = "loadData" /\ x \notin unsure => SizeSeen(x) # {}
       /\ pc[c] = "data" /\ x \notin unsure =>
             \E y \in SizeSeen(x) : y = entry[c] \/ y \in Out
       /\ pc[c] \in {"lockHit", "hit"} /\ x \notin unsure => Met(x)

Looking == ended = "no" => \A c \in Consumers : Looks(c)

(* Packets go from the unread ones to a consumer and from there to the     *)
(* table, and nothing else comes to these places.                          *)
LEMMA OneWay ==
    ASSUME TypeCore, InPlace, NEW c \in Consumers, Step(c)
    PROVE  /\ unread' \subseteq unread /\ Held' \subseteq Held \cup unread
           /\ InTable' \subseteq InTable \cup Held
           /\ unsure \subseteq unsure' /\ lost \subseteq lost' /\ freed \subseteq freed'
<1>1. /\ unread' \subseteq unread
      /\ unsure \subseteq unsure' /\ lost \subseteq lost' /\ freed \subseteq freed'
  BY DEF Step, Pop, CountSeen, TestEmpty, LoadEntry, CompareSize, CompareData, Compare,
         TestHitCount, Lock, Insert, Hit, ReplaceEntry, ResetEntry, Return, discardPacket,
         fates
<1>2. ASSUME NEW x \in Held'
      PROVE  x \in Held \cup unread
  <2>1. PICK d \in Owners' : x = pPacket'[d]
    BY <1>2 DEF Held
  <2>2. CASE d # c
    BY <2>1, <2>2, OthersKept DEF OthersKeep, Held
  <2>3. CASE d = c /\ Pop(c)
    BY <2>1, <2>3 DEF Pop, TypeCore
  <2>4. CASE d = c /\ ~Pop(c)
    <3>1. c \in Owners /\ pPacket'[c] = pPacket[c]
      BY <2>1, <2>4 DEF Step, CountSeen, TestEmpty, LoadEntry, CompareSize, CompareData,
         Compare, TestHitCount, Lock, Insert, Hit, ReplaceEntry, ResetEntry, Return, At,
         Goto, Owners, TypeCore
    <3> QED
      BY <2>1, <2>4, <3>1 DEF Held
  <2> QED
    BY <2>2, <2>3, <2>4
<1>3. ASSUME NEW x \in InTable'
      PROVE  x \in InTable \cup Held
  <2>1. PICK i \in Indexes : x = TheHash'[i].ThePacket /\ x # NoPacket
    BY <1>3 DEF InTable
  <2>2. CASE ~Puts(c)
    BY <2>1, <2>2, SamePackets DEF InTable
  <2>3. CASE Puts(c)
    <3>1. c \in Owners
      BY <2>3 DEF Puts, Insert, ReplaceEntry, At, Owners
    <3>2. x = pPacket[c] \/ x = TheHash[i].ThePacket
      BY <2>1, <2>3, PacketPut
    <3> QED
      BY <2>1, <3>1, <3>2 DEF InTable, Held
  <2> QED
    BY <2>2, <2>3
<1> QED
  BY <1>1, <1>2, <1>3

(* So what was in a slot remains so, and a slot is never empty again.      *)
LEMMA StaysBehind ==
    ASSUME TypeCore, InPlace, NEW c \in Consumers, Step(c)
    PROVE  /\ Out \subseteq Out' /\ unsure \subseteq unsure'
           /\ \A x : Earlier(x) \subseteq Earlier(x)'
           /\ \A i \in Indexes :
                 TheHash[i].ThePacket # NoPacket => TheHash'[i].ThePacket # NoPacket
<1>1. Past \subseteq Past' /\ Out \subseteq Out' /\ unsure \subseteq unsure'
  BY OneWay DEF Past, Out
<1>2. ASSUME NEW i \in Indexes, TheHash[i].ThePacket # NoPacket
      PROVE  TheHash'[i].ThePacket # NoPacket
  <2>1. CASE ~Puts(c)
    BY <1>2, <2>1, SamePackets
  <2>2. CASE Puts(c)
    BY <1>2, <2>2, PacketPut, Constants
  <2> QED
    BY <2>1, <2>2
<1> QED
  BY <1>1, <1>2 DEF Earlier

(* What a consumer has found out holds while it does not move.             *)
LEMMA LooksKept ==
    ASSUME TypeCore, InPlace, NEW c \in Consumers, Step(c), NEW d \in Consumers, Looks(d),
           pPacket'[d] = pPacket[d],
           \/ pc'[d] = pc[d] /\ entry'[d] = entry[d]
           \/ pc[d] = "lockHit" /\ pc'[d] = "hit"
    PROVE  Looks(d)'
<1>1. PICK x : x = pPacket[d] /\ x = pPacket'[d]
  OBVIOUS
<1>2. PICK e : e = entry[d] /\ (pc'[d] = pc[d] => e = entry'[d])
  OBVIOUS
<1>3. /\ Out \subseteq Out' /\ unsure \subseteq unsure' /\ Earlier(x) \subseteq Earlier(x)'
  BY StaysBehind
<1>4. SizeSeen(x) \subseteq SizeSeen(x)' /\ BytesSeen(x) \subseteq BytesSeen(x)'
  BY <1>3 DEF SizeSeen, BytesSeen
<1>5. Met(x) => Met(x)'
  BY <1>3, <1>4 DEF Met
<1>6. pc'[d] \in {"loadSize", "size", "loadData", "data", "lockHit", "hit"} =>
         TheHash'[Slot(d)'].ThePacket # NoPacket
  <2>1. Slot(d)' = Slot(d)
    BY DEF Slot
  <2>2. pc[d] \notin {"pop", "count"} => Slot(d) \in Indexes
    BY SlotIndex
  <2> QED
    BY <2>1, <2>2, StaysBehind DEF Looks
<1>7. pc'[d] \in {"size", "data"} => entry'[d] \in Earlier(x)'
  BY <1>1, <1>3 DEF Looks
<1>8. pc'[d] = "loadData" /\ x \notin unsure' => SizeSeen(x)' # {}
  BY <1>1, <1>3, <1>4 DEF Looks
<1>9. pc'[d] = "data" /\ x \notin unsure' =>
         \E y \in SizeSeen(x)' : y = entry'[d] \/ y \in Out'
  BY <1>1, <1>2, <1>3, <1>4 DEF Looks
<1>10. pc'[d] \in {"lockHit", "hit"} /\ x \notin unsure' => Met(x)'
  BY <1>1, <1>3, <1>5 DEF Looks
<1> QED
  BY <1>1, <1>6, <1>7, <1>8, <1>9, <1>10 DEF Looks

(* The packet of a slot is one that was put there earlier.                 *)
LEMMA InSlot ==
    ASSUME TypeCore, InPlace, Apart, NEW c \in Consumers, pc[c] \notin {"pop", "count"},
           TheHash[Slot(c)].ThePacket # NoPacket
    PROVE  /\ TheHash[Slot(c)].ThePacket \in Earlier(pPacket[c])
           /\ \A y \in Earlier(pPacket[c]) :
                 y = TheHash[Slot(c)].ThePacket \/ y \in Out
<1> DEFINE e == TheHash[Slot(c)].ThePacket
<1>1. Slot(c) \in Indexes /\ Slot(c) = hashData[pPacket[c]]
  BY SlotIndex DEF Slot
<1>2. e \in Inserted /\ hashData[e] = Slot(c) /\ e \in InTable
  BY <1>1 DEF InPlace, InTable
<1>3. e \in Past
  BY <1>2, Constants DEF Past, Apart
<1>4. ASSUME NEW y \in Earlier(pPacket[c]), y \in InTable
      PROVE  y = e
  <2>1. PICK i \in Indexes : y = TheHash[i].ThePacket /\ y # NoPacket
    BY <1>4 DEF InTable
  <2>2. i = Slot(c)
    BY <1>1, <2>1 DEF InPlace, Earlier
  <2> QED
    BY <2>1, <2>2
<1>5. \A y \in Earlier(pPacket[c]) : y \in InTable \/ y \in Out
  BY DEF Earlier, Past, Out
<1> QED
  BY <1>1, <1>2, <1>3, <1>4, <1>5 DEF Earlier

(* A comparison that finds no difference in written memory has compared    *)
(* all of the payload but its end: as many bytes as the offset are missing.*)
LEMMA NoDifference ==
    ASSUME NEW z \in Inserted, NEW x \in Inserted,
           <<z, x>> \notin Differing, <<z, x>> \notin ReadingOn
    PROVE  <<z, x>> \in AlikeButTheEnd
<1>1. <<z, x>> \in Pairs
  BY DEF Pairs
<1>2. /\ ~Differ(z, x) /\ ~Overruns(x)
      /\ ~(PayloadSize[x] > LengthIncluded[z])
  BY <1>1 DEF Differing, ReadingOn
<1>3. PICK p, n \in Int : p = PayloadOffset[x] /\ n = PayloadSize[x]
  BY PayloadFits
<1>4. PICK m, l \in Int : m = LengthIncluded[z] /\ l = LengthIncluded[x]
  BY DataAssumption DEF LengthIncluded, Inserted
<1>5. n = l - p
  BY <1>3, <1>4 DEF PayloadSize
<1>6. ASSUME NEW o \in p..(l - p - 1)
      PROVE  o < m /\ Byte(z, o) = Byte(x, o)
  <2>1. ComparedOffsets(x) = p..(n - 1)
    BY <1>2, <1>3 DEF ComparedOffsets
  <2>2. o \in p..(n - 1) /\ n <= m
    BY <1>2, <1>3, <1>4, <1>5
  <2>3. o < m
    BY <1>3, <1>4, <2>2
  <2> QED
    BY <1>2, <1>4, <2>1, <2>2, <2>3 DEF Differ
<1>7. LikeButTheEnd(z, x)
  BY <1>3, <1>4, <1>6 DEF LikeButTheEnd
<1> QED
  BY <1>1, <1>7 DEF AlikeButTheEnd

(* A step of the consumer itself.                                          *)
LEMMA LooksOn ==
    ASSUME TypeCore, InPlace, Apart, NEW c \in Consumers, Step(c), Looks(c), ended' = "no"
    PROVE  Looks(c)'
<1> DEFINE x == pPacket[c]
           Asked == {"loadSize", "size", "loadData", "data", "lockHit", "hit"}
<1>1. CASE pc'[c] \notin Asked
  BY <1>1 DEF Looks
<1>2. CASE TestEmpty(c) /\ pc'[c] = "loadSize"
  <2>1. TheHash[Slot(c)].ThePacket # NoPacket /\ UNCHANGED <<TheHash, pPacket>>
    BY <1>2 DEF TestEmpty, Goto, TypeCore
  <2> QED
    BY <1>2, <2>1 DEF Looks, Slot
<1>3. CASE LoadEntry(c)
  <2> DEFINE e == TheHash[Slot(c)].ThePacket
  <2>1. \/ pc[c] = "loadSize" /\ pc'[c] = "size"
        \/ pc[c] = "loadData" /\ pc'[c] = "data"
    BY <1>3 DEF LoadEntry, At, Goto, TypeCore, fates
  <2>2. entry'[c] = e /\ UNCHANGED <<TheHash, pPacket, unsure>>
    BY <1>3 DEF LoadEntry, TypeCore, fates
  <2>3. e # NoPacket
    BY <2>1 DEF Looks
  <2>4. e \in Earlier(x) /\ \A y \in Earlier(x) : y = e \/ y \in Out
    BY <2>1, <2>3, InSlot
  <2>5. PICK w : w = x /\ w = pPacket'[c]
    BY <2>2
  <2>6. Out \subseteq Out' /\ Earlier(w) \subseteq Earlier(w)'
    BY StaysBehind
  <2>7. entry'[c] \in Earlier(w)'
    BY <2>2, <2>4, <2>5, <2>6
  <2>8. pc[c] = "loadData" /\ w \notin unsure =>
           \E y \in SizeSeen(w)' : y = entry'[c] \/ y \in Out'
    BY <2>2, <2>4, <2>5, <2>6 DEF Looks, SizeSeen
  <2>9. TheHash'[Slot(c)'].ThePacket # NoPacket
    BY <2>2, <2>3 DEF Slot
  <2> QED
    BY <2>1, <2>2, <2>5, <2>7, <2>8, <2>9 DEF Looks
<1>4. CASE CompareSize(c)
  <2>1. /\ pc[c] = "size" /\ pc'[c] \in {"loadData", "hitCount"}
        /\ UNCHANGED <<TheHash, pPacket>>
    BY <1>4 DEF CompareSize, Compare, At, Goto, TypeCore
  <2>2. CASE pc'[c] = "loadData"
    <3>1. PICK w : w = x /\ w = pPacket'[c]
      BY <2>1
    <3>2. w \notin unsure' => PayloadSize[entry[c]] = PayloadSize[w]
      BY <1>4, <2>2, <3>1 DEF CompareSize, Compare, Goto, TypeCore
    <3>3. entry[c] \in Earlier(w)
      BY <2>1, <3>1 DEF Looks
    <3>4. Earlier(w) \subseteq Earlier(w)'
      BY StaysBehind
    <3>5. w \notin unsure' => SizeSeen(w)' # {}
      BY <3>2, <3>3, <3>4 DEF SizeSeen
    <3>6. TheHash'[Slot(c)'].ThePacket # NoPacket
      BY <2>1 DEF Looks, Slot
    <3> QED
      BY <2>2, <3>1, <3>5, <3>6 DEF Looks
  <2> QED
    BY <1>1, <2>1, <2>2
<1>5. CASE CompareData(c)
  <2>1. /\ pc[c] = "data" /\ pc'[c] \in {"lockHit", "hitCount"}
        /\ UNCHANGED <<TheHash, pPacket>>
    BY <1>5 DEF CompareData, Compare, At, Goto, TypeCore
  <2>2. CASE pc'[c] = "lockHit"
    <3>1. PICK w : w = x /\ w = pPacket'[c]
      BY <2>1
    <3>2. w \notin unsure' =>
             /\ <<entry[c], w>> \notin Differing /\ <<entry[c], w>> \notin ReadingOn
             /\ w \notin unsure
      BY <1>5, <2>2, <3>1 DEF CompareData, Compare, Goto, TypeCore
    <3>3. entry[c] \in Earlier(w) /\ w \in Inserted
      BY <2>1, <3>1, SlotIndex DEF Looks
    <3>4. w \notin unsure' => entry[c] \in BytesSeen(w)
      BY <3>2, <3>3, NoDifference DEF Earlier, BytesSeen
    <3>5. w \notin unsure' => \E y \in SizeSeen(w) : y = entry[c] \/ y \in Out
      BY <2>1, <3>1, <3>2 DEF Looks
    <3>6. w \notin unsure' => Met(w)
      BY <3>4, <3>5 DEF Met
    <3>7. Out \subseteq Out' /\ Earlier(w) \subseteq Earlier(w)'
      BY StaysBehind
    <3>8. w \notin unsure' => Met(w)'
      BY <3>6, <3>7 DEF Met, SizeSeen, BytesSeen
    <3>9. TheHash'[Slot(c)'].ThePacket # NoPacket
      BY <2>1 DEF Looks, Slot
    <3> QED
      BY <2>2, <3>1, <3>8, <3>9 DEF Looks
  <2> QED
    BY <1>1, <2>1, <2>2
<1>6. CASE Lock(c) /\ pc[c] = "lockHit"
  <2>1. pc'[c] = "hit" /\ pPacket' = pPacket
    BY <1>6 DEF Lock, At, Goto, TypeCore
  <2> QED
    BY <1>6, <2>1, LooksKept
<1> QED
  <2>1. \/ pc'[c] \notin Asked
        \/ TestEmpty(c) /\ pc'[c] = "loadSize"
        \/ LoadEntry(c) \/ CompareSize(c) \/ CompareData(c)
        \/ Lock(c) /\ pc[c] = "lockHit"
    BY DEF Step, Pop, CountSeen, TestEmpty, TestHitCount, Lock, Insert, Hit, ReplaceEntry,
           ResetEntry, Return, At, Goto, TypeCore
  <2> QED
    BY <2>1, <1>1, <1>2, <1>3, <1>4, <1>5, <1>6

LEMMA LookingStep ==
    ASSUME TypeCore, InPlace, OneOwner, Looking, Next
    PROVE  Looking'
<1>1. CASE Terminated \/ tallyProcessing
  BY <1>1 DEF Terminated, tallyProcessing, Looking, vars
<1>2. ASSUME NEW c \in Consumers, Step(c), ended' = "no", NEW d \in Consumers
      PROVE  Looks(d)'
  <2>1. ended = "no"
    BY <1>2 DEF Step, Pop, CountSeen, TestEmpty, LoadEntry, CompareSize, CompareData,
                TestHitCount, Lock, Insert, Hit, ReplaceEntry, ResetEntry, At
  <2>2. Apart /\ Looks(c) /\ Looks(d)
    BY <2>1, OwnerParts DEF Looking
  <2>3. CASE d = c
    BY <1>2, <2>2, <2>3, LooksOn
  <2>4. CASE d # c
    <3>1. pc'[d] = pc[d] /\ pPacket'[d] = pPacket[d] /\ entry'[d] = entry[d]
      BY <1>2, <2>4 DEF TypeCore, Step, Pop, CountSeen, TestEmpty, LoadEntry, CompareSize,
         CompareData, Compare, TestHitCount, Lock, Insert, Hit, ReplaceEntry, ResetEntry,
         Return, Goto
    <3> QED
      BY <1>2, <2>2, <3>1, LooksKept
  <2> QED
    BY <2>3, <2>4
<1> QED
  BY <1>1, <1>2 DEF Next, Looking

(* A hit is one of what its consumer has met, and stays so.                *)
LEMMA RepeatsKept ==
    ASSUME HitsAreRepeats, unread' \subseteq unread, unsure \subseteq unsure',
           lost \subseteq lost', freed \subseteq freed', NEW x \in hits \ unsure'
    PROVE  \E y, z \in {w \in Inserted \ (unread' \cup {x}) : hashData[w] = hashData[x]} :
              /\ PayloadSize[y] = PayloadSize[x]
              /\ <<z, x>> \in AlikeButTheEnd
              /\ y = z \/ y \in lost' \cup freed'
<1>1. PICK y, z \in {w \in Inserted \ (unread \cup {x}) : hashData[w] = hashData[x]} :
              /\ PayloadSize[y] = PayloadSize[x]
              /\ <<z, x>> \in AlikeButTheEnd
              /\ y = z \/ y \in lost \cup freed
  BY DEF HitsAreRepeats
<1> QED
  BY <1>1

LEMMA RepeatsStep ==
    ASSUME TypeCore, Locks, InPlace, OneOwner, Looking, HitsAreRepeats, Next
    PROVE  HitsAreRepeats'
<1>1. CASE Terminated \/ tallyProcessing
  <2>1. /\ unread' \subseteq unread /\ unsure \subseteq unsure' /\ lost \subseteq lost'
        /\ freed \subseteq freed' /\ hits' = hits
    BY <1>1 DEF Terminated, tallyProcessing, vars, fates
  <2> QED
    BY <2>1, RepeatsKept DEF HitsAreRepeats
<1>2. ASSUME NEW c \in Consumers, Step(c)
      PROVE  HitsAreRepeats'
  <2>1. /\ unread' \subseteq unread /\ unsure \subseteq unsure' /\ lost \subseteq lost'
        /\ freed \subseteq freed'
    BY <1>2, OneWay
  <2>2. CASE ~Hit(c)
    <3>1. hits' = hits
      BY <1>2, <2>2 DEF Step, Pop, CountSeen, TestEmpty, LoadEntry, CompareSize,
         CompareData, Compare, TestHitCount, Lock, Insert, ReplaceEntry, ResetEntry, fates
    <3> QED
      BY <2>1, <3>1, RepeatsKept DEF HitsAreRepeats
  <2>3. CASE Hit(c)
    <3> DEFINE x == pPacket[c]
    <3>1. ended = "no" /\ pc[c] = "hit" /\ hits' = hits \cup {x} /\ unsure' = unsure
      BY <2>3 DEF Hit, At
    <3>2. Looks(c) /\ Apart
      BY <3>1, OwnerParts DEF Looking
    <3>3. Evicted = {}
      BY <3>1, OneReplacer DEF Locking
    <3>4. x \in Held
      BY <3>1 DEF Held, Owners
    <3>5. ASSUME x \notin unsure
          PROVE  \E y, z \in {w \in Inserted \ (unread' \cup {x}) : hashData[w] = hashData[x]} :
                    /\ PayloadSize[y] = PayloadSize[x]
                    /\ <<z, x>> \in AlikeButTheEnd
                    /\ y = z \/ y \in lost' \cup freed'
      <4>1. PICK y \in SizeSeen(x), z \in BytesSeen(x) : y = z \/ y \in Out
        BY <3>1, <3>2, <3>5 DEF Looks, Met
      <4>2. \A w \in Earlier(x) :
               w \in {v \in Inserted \ (unread' \cup {x}) : hashData[v] = hashData[x]}
        BY <2>1, <3>4 DEF Earlier, Past
      <4>3. Out \subseteq lost' \cup freed'
        BY <2>1, <3>2, <3>3 DEF Out, Apart
      <4> QED
        BY <4>1, <4>2, <4>3 DEF SizeSeen, BytesSeen
    <3>6. ASSUME NEW w \in hits' \ unsure'
          PROVE  \E y, z \in {v \in Inserted \ (unread' \cup {w}) : hashData[v] = hashData[w]} :
                    /\ PayloadSize[y] = PayloadSize[w]
                    /\ <<z, w>> \in AlikeButTheEnd
                    /\ y = z \/ y \in lost' \cup freed'
      <4>1. CASE w \in hits
        BY <2>1, <4>1, RepeatsKept
      <4>2. CASE w = x
        BY <3>1, <3>5, <4>2
      <4> QED
        BY <3>1, <4>1, <4>2
    <3> QED
      BY <3>6 DEF HitsAreRepeats
  <2> QED
    BY <2>2, <2>3
<1> QED
  BY <1>1, <1>2 DEF Next

-----------------------------------------------------------------------------
(* The hits and bytes.  What a slot has counted is the table's until       *)
(* ReplaceEntry has added it to the totals, and is there once more until   *)
(* ResetEntry has cleared it.                                              *)

HitCounts == [i \in Indexes |-> TheHash[i].HitCount]
ByteCounts == [i \in Indexes |-> TheHash[i].RedundantBytes]

Balanced ==
    /\ hits \subseteq Inserted
    /\ ended = "no" =>
          /\ \A i \in Indexes :
                TheHash[i].ThePacket = NoPacket => HitCounts[i] = 0 /\ ByteCounts[i] = 0
          /\ Replacers = {} =>
                /\ gPacketHitCount + Sum(HitCounts, Indexes) = Cardinality(hits)
                /\ gPacketHitBytes + Sum(ByteCounts, Indexes) = Sum(PayloadSize, hits)
          /\ \A c \in Replacers :
                /\ gPacketHitCount + Sum(HitCounts, Indexes)
                      = Cardinality(hits) + HitCounts[Slot(c)]
                /\ gPacketHitBytes + Sum(ByteCounts, Indexes)
                      = Sum(PayloadSize, hits) + ByteCounts[Slot(c)]
    /\ ended = "tallied" =>
          gPacketHitCount = Cardinality(hits) /\ gPacketHitBytes = Sum(PayloadSize, hits)

(* The sums of the model, over the counters of the slots.                  *)
HitSum(S) == MapThenSumSet(LAMBDA i : TheHash[i].HitCount, S)
ByteSum(S) == MapThenSumSet(LAMBDA i : TheHash[i].RedundantBytes, S)
PayloadSum == MapThenSumSet(LAMBDA x : PayloadSize[x], hits)

LEMMA HitSumIs ==
    ASSUME TypeCore, NEW S \in SUBSET Indexes
    PROVE  HitSum(S) = Sum(HitCounts, S)
<1> DEFINE P(g) == g = [s \in SUBSET S |->
                          IF s = {} THEN 0 ELSE TheHash[Taken(s)].HitCount + g[s \ {Taken(s)}]]
<1>1. \A s \in SUBSET S : s # {} => HitCounts[Taken(s)] = TheHash[Taken(s)].HitCount
  BY DEF Taken, HitCounts
<1>2. ASSUME NEW g
      PROVE  Sums(g, HitCounts, S) <=> P(g)
  BY <1>1 DEF Sums, Take
<1>3. IsFiniteSet(S) /\ \A i \in S : HitCounts[i] \in Nat
  BY TableAssumption, FS_Subset DEF HitCounts, TypeCore
<1>4. \E g : Sums(g, HitCounts, S)
  BY <1>3, SumsExist
<1>5. \E g : P(g)
  BY <1>2, <1>4
<1>6. PICK g : P(g) /\ HitSum(S) = g[S]
  BY <1>5, Zenon DEF HitSum, Taken, MapThenSumSet, MapThenFoldSet
<1>7. PICK h : Sums(h, HitCounts, S) /\ Sum(HitCounts, S) = h[S]
  BY <1>4, SumOfSums
<1>8. Sums(g, HitCounts, S)
  BY <1>2, <1>6
<1>9. g[S] = h[S]
  <2> HIDE DEF P
  <2> QED
    BY <1>3, <1>7, <1>8, SumsAgree
<1> QED
  BY <1>6, <1>7, <1>9

LEMMA ByteSumIs ==
    ASSUME TypeCore, NEW S \in SUBSET Indexes
    PROVE  ByteSum(S) = Sum(ByteCounts, S)
<1> DEFINE P(g) == g = [s \in SUBSET S |->
                          IF s = {} THEN 0
                          ELSE TheHash[Taken(s)].RedundantBytes + g[s \ {Taken(s)}]]
<1>1. \A s \in SUBSET S : s # {} => ByteCounts[Taken(s)] = TheHash[Taken(s)].RedundantBytes
  BY DEF Taken, ByteCounts
<1>2. ASSUME NEW g
      PROVE  Sums(g, ByteCounts, S) <=> P(g)
  BY <1>1 DEF Sums, Take
<1>3. IsFiniteSet(S) /\ \A i \in S : ByteCounts[i] \in Nat
  BY TableAssumption, FS_Subset DEF ByteCounts, TypeCore
<1>4. \E g : Sums(g, ByteCounts, S)
  BY <1>3, SumsExist
<1>5. \E g : P(g)
  BY <1>2, <1>4
<1>6. PICK g : P(g) /\ ByteSum(S) = g[S]
  BY <1>5, Zenon DEF ByteSum, Taken, MapThenSumSet, MapThenFoldSet
<1>7. PICK h : Sums(h, ByteCounts, S) /\ Sum(ByteCounts, S) = h[S]
  BY <1>4, SumOfSums
<1>8. Sums(g, ByteCounts, S)
  BY <1>2, <1>6
<1>9. g[S] = h[S]
  <2> HIDE DEF P
  <2> QED
    BY <1>3, <1>7, <1>8, SumsAgree
<1> QED
  BY <1>6, <1>7, <1>9

LEMMA PayloadSumIs == PayloadSum = Sum(PayloadSize, hits)
BY Zenon DEF PayloadSum, Sum

(* The counters, their sums and the bytes of the hits are numbers.         *)
LEMMA CountersType ==
    ASSUME TypeCore, hits \subseteq Inserted
    PROVE  /\ \A i \in Indexes : HitCounts[i] \in Nat /\ ByteCounts[i] \in Nat
           /\ IsFiniteSet(Indexes)
           /\ Sum(HitCounts, Indexes) \in Nat /\ Sum(ByteCounts, Indexes) \in Nat
           /\ IsFiniteSet(hits) /\ Cardinality(hits) \in Nat
           /\ \A x \in hits : PayloadSize[x] \in Nat
           /\ Sum(PayloadSize, hits) \in Nat
<1>1. IsFiniteSet(Indexes) /\ \A i \in Indexes : HitCounts[i] \in Nat /\ ByteCounts[i] \in Nat
  BY TableAssumption DEF HitCounts, ByteCounts, TypeCore
<1>2. IsFiniteSet(hits) /\ \A x \in hits : PayloadSize[x] \in Nat
  BY Constants, PayloadFits, FS_Subset
<1> QED
  BY <1>1, <1>2, SumNat, FS_CardinalityType

(* Steps that neither count nor put a packet in the table.                 *)
LEMMA BalanceKept ==
    ASSUME TypeCore, Balanced, NEW c \in Consumers, Step(c), ~Puts(c), ~Hit(c), ~ResetEntry(c)
    PROVE  Balanced'
<1>1. /\ UNCHANGED <<TheHash, gPacketHitCount, gPacketHitBytes, hits>>
      /\ ended = "no" /\ ended' \in {"no", "segfault"}
  BY DEF Step, Puts, Pop, CountSeen, TestEmpty, LoadEntry, CompareSize, CompareData,
         Compare, TestHitCount, Lock, At, counts, hitTotals, fates
<1>2. Replacers' = Replacers /\ \A d \in Replacers : pPacket'[d] = pPacket[d]
  BY DEF Step, Puts, Pop, CountSeen, TestEmpty, LoadEntry, CompareSize, CompareData,
         Compare, TestHitCount, Lock, At, Goto, Return, Replacers, TypeCore
<1>3. HitCounts' = HitCounts /\ ByteCounts' = ByteCounts
  BY <1>1 DEF HitCounts, ByteCounts
<1>4. \A d \in Replacers : Slot(d)' = Slot(d)
  BY <1>2 DEF Slot
<1> QED
  BY <1>1, <1>2, <1>3, <1>4 DEF Balanced

(* Insert overwrites the packet of a slot, not what it has counted.        *)
LEMMA BalanceInsert ==
    ASSUME TypeCore, Locks, InPlace, Balanced, NEW c \in Consumers, Insert(c)
    PROVE  Balanced'
<1> DEFINE s == Slot(c)
<1>1. Puts(c) /\ s \in Indexes /\ pPacket[c] # NoPacket
  BY PacketPut, Constants DEF Puts
<1>2. /\ TheHash' = [TheHash EXCEPT ![s].ThePacket = pPacket[c]]
      /\ UNCHANGED <<gPacketHitCount, gPacketHitBytes, hits, ended>>
      /\ ended = "no" /\ pc[c] = "insert" /\ pc' = [pc EXCEPT ![c] = "pop"]
  BY DEF Insert, At, counts, hitTotals, Return, Goto
<1>3. \A i \in Indexes : /\ TheHash'[i].HitCount = TheHash[i].HitCount
                         /\ TheHash'[i].RedundantBytes = TheHash[i].RedundantBytes
                         /\ i # s => TheHash'[i].ThePacket = TheHash[i].ThePacket
                         /\ TheHash'[s].ThePacket = pPacket[c]
  BY <1>1, <1>2 DEF TypeCore
<1>4. HitCounts' = HitCounts /\ ByteCounts' = ByteCounts
  BY <1>3 DEF HitCounts, ByteCounts
<1>5. Replacers = {}
  BY <1>2, OneReplacer DEF Locking
<1>6. Replacers' = {}
  BY <1>2, <1>5 DEF Replacers, TypeCore
<1> QED
  BY <1>1, <1>2, <1>3, <1>4, <1>5, <1>6 DEF Balanced

LEMMA BalanceHit ==
    ASSUME TypeCore, Locks, InPlace, OneOwner, Looking, Balanced, NEW c \in Consumers, Hit(c)
    PROVE  Balanced'
<1> DEFINE s == Slot(c)
           x == pPacket[c]
           n == PayloadSize[x]
<1>1. /\ pc[c] = "hit" /\ ended = "no" /\ ended' = ended /\ hits' = hits \cup {x}
      /\ UNCHANGED <<gPacketHitCount, gPacketHitBytes>> /\ pc' = [pc EXCEPT ![c] = "pop"]
      /\ TheHash' = [TheHash EXCEPT ![s].HitCount = @ + 1, ![s].RedundantBytes = @ + n]
  BY DEF Hit, At, counts, hitTotals, Return, Goto
<1>2. s \in Indexes /\ x \in Inserted /\ n \in Nat
  BY <1>1, SlotIndex, PayloadFits
<1>3. TheHash[s].ThePacket # NoPacket
  BY <1>1 DEF Looking, Looks
<1>4. x \notin hits
  <2>1. x \in Held /\ Apart
    BY <1>1, OwnerParts DEF Held, Owners
  <2> QED
    BY <2>1 DEF Apart, TypeCore
<1>5. Replacers = {}
  BY <1>1, OneReplacer DEF Locking
<1>6. Replacers' = {}
  BY <1>1, <1>5 DEF Replacers, TypeCore
<1>7. /\ \A i \in Indexes \ {s} : TheHash'[i] = TheHash[i]
      /\ TheHash'[s].ThePacket = TheHash[s].ThePacket
      /\ TheHash'[s].HitCount = TheHash[s].HitCount + 1
      /\ TheHash'[s].RedundantBytes = TheHash[s].RedundantBytes + n
  BY <1>1, <1>2 DEF TypeCore
<1>8. /\ \A i \in Indexes : HitCounts[i] \in Nat /\ ByteCounts[i] \in Nat
      /\ IsFiniteSet(Indexes) /\ IsFiniteSet(hits) /\ Cardinality(hits) \in Nat
      /\ \A y \in hits : PayloadSize[y] \in Nat
      /\ Sum(HitCounts, Indexes) \in Nat /\ Sum(ByteCounts, Indexes) \in Nat
      /\ Sum(PayloadSize, hits) \in Nat
  BY CountersType DEF Balanced
<1>9. /\ HitCounts'[s] = HitCounts[s] + 1 /\ ByteCounts'[s] = ByteCounts[s] + n
      /\ \A i \in Indexes \ {s} : HitCounts'[i] = HitCounts[i] /\ ByteCounts'[i] = ByteCounts[i]
  BY <1>2, <1>7 DEF HitCounts, ByteCounts
<1>10. \A i \in Indexes : HitCounts'[i] \in Nat /\ ByteCounts'[i] \in Nat
  <2>1. HitCounts[s] + 1 \in Nat /\ ByteCounts[s] + n \in Nat
    BY <1>2, <1>8
  <2> QED
    BY <1>8, <1>9, <2>1
<1>11. Sum(HitCounts', Indexes) = Sum(HitCounts, Indexes) + 1
  <2>1. /\ Sum(HitCounts', Indexes) + HitCounts[s] = Sum(HitCounts, Indexes) + HitCounts'[s]
        /\ Sum(HitCounts', Indexes) \in Nat /\ HitCounts[s] \in Nat
    BY <1>2, <1>8, <1>9, <1>10, SumChange, SumNat
  <2> QED
    BY <1>8, <1>9, <2>1
<1>12. Sum(ByteCounts', Indexes) = Sum(ByteCounts, Indexes) + n
  <2>1. /\ Sum(ByteCounts', Indexes) + ByteCounts[s] = Sum(ByteCounts, Indexes) + ByteCounts'[s]
        /\ Sum(ByteCounts', Indexes) \in Nat /\ ByteCounts[s] \in Nat
    BY <1>2, <1>8, <1>9, <1>10, SumChange, SumNat
  <2> QED
    BY <1>2, <1>8, <1>9, <2>1
<1>13. Cardinality(hits') = Cardinality(hits) + 1
  BY <1>1, <1>4, <1>8, FS_AddElement
<1>14. Sum(PayloadSize, hits') = n + Sum(PayloadSize, hits)
  BY <1>1, <1>2, <1>4, <1>8, SumAdd
<1>15. /\ gPacketHitCount \in Nat /\ gPacketHitBytes \in Nat
       /\ gPacketHitCount + Sum(HitCounts, Indexes) = Cardinality(hits)
       /\ gPacketHitBytes + Sum(ByteCounts, Indexes) = Sum(PayloadSize, hits)
  BY <1>1, <1>5 DEF Balanced, TypeCore
<1>16. /\ gPacketHitCount' + Sum(HitCounts', Indexes) = Cardinality(hits')
       /\ gPacketHitBytes' + Sum(ByteCounts', Indexes) = Sum(PayloadSize, hits')
  BY <1>1, <1>2, <1>8, <1>11, <1>12, <1>13, <1>14, <1>15
<1>17. \A i \in Indexes :
          TheHash'[i].ThePacket = NoPacket => HitCounts'[i] = 0 /\ ByteCounts'[i] = 0
  BY <1>1, <1>3, <1>7, <1>9 DEF Balanced
<1>18. hits' \subseteq Inserted
  BY <1>1, <1>2 DEF Balanced
<1> QED
  BY <1>1, <1>6, <1>16, <1>17, <1>18 DEF Balanced

LEMMA BalanceReplace ==
    ASSUME TypeCore, Locks, InPlace, Balanced, NEW c \in Consumers, ReplaceEntry(c)
    PROVE  Balanced'
<1> DEFINE s == Slot(c)
<1>1. Puts(c) /\ s \in Indexes /\ pPacket[c] # NoPacket
  BY PacketPut, Constants DEF Puts
<1>2. /\ TheHash' = [TheHash EXCEPT ![s].ThePacket = pPacket[c]]
      /\ gPacketHitCount' = gPacketHitCount + TheHash[s].HitCount
      /\ gPacketHitBytes' = gPacketHitBytes + TheHash[s].RedundantBytes
      /\ UNCHANGED <<hits, ended, pPacket>>
      /\ ended = "no" /\ pc[c] = "replace" /\ pc' = [pc EXCEPT ![c] = "reset"]
  BY DEF ReplaceEntry, At, fates, Goto
<1>3. \A i \in Indexes : /\ TheHash'[i].HitCount = TheHash[i].HitCount
                         /\ TheHash'[i].RedundantBytes = TheHash[i].RedundantBytes
                         /\ i # s => TheHash'[i].ThePacket = TheHash[i].ThePacket
                         /\ TheHash'[s].ThePacket = pPacket[c]
  BY <1>1, <1>2 DEF TypeCore
<1>4. HitCounts' = HitCounts /\ ByteCounts' = ByteCounts
  BY <1>3 DEF HitCounts, ByteCounts
<1>5. Replacers = {}
  BY <1>2, OneReplacer DEF Locking
<1>6. Replacers' = {c} /\ Slot(c)' = s
  BY <1>2, <1>5 DEF Replacers, TypeCore, Slot
<1>7. /\ \A i \in Indexes : HitCounts[i] \in Nat /\ ByteCounts[i] \in Nat
      /\ Cardinality(hits) \in Nat /\ Sum(PayloadSize, hits) \in Nat
      /\ Sum(HitCounts, Indexes) \in Nat /\ Sum(ByteCounts, Indexes) \in Nat
  BY CountersType DEF Balanced
<1>8. /\ gPacketHitCount \in Nat /\ gPacketHitBytes \in Nat
      /\ gPacketHitCount + Sum(HitCounts, Indexes) = Cardinality(hits)
      /\ gPacketHitBytes + Sum(ByteCounts, Indexes) = Sum(PayloadSize, hits)
  BY <1>2, <1>5 DEF Balanced, TypeCore
<1>9. /\ gPacketHitCount' = gPacketHitCount + HitCounts[s]
      /\ gPacketHitBytes' = gPacketHitBytes + ByteCounts[s]
      /\ HitCounts[s] \in Nat /\ ByteCounts[s] \in Nat
  BY <1>1, <1>2, <1>7 DEF HitCounts, ByteCounts
<1>10. /\ gPacketHitCount' + Sum(HitCounts, Indexes) = Cardinality(hits) + HitCounts[s]
       /\ gPacketHitBytes' + Sum(ByteCounts, Indexes) = Sum(PayloadSize, hits) + ByteCounts[s]
  BY <1>7, <1>8, <1>9
<1>11. \A i \in Indexes :
          TheHash'[i].ThePacket = NoPacket => HitCounts'[i] = 0 /\ ByteCounts'[i] = 0
  BY <1>1, <1>2, <1>3, <1>4 DEF Balanced
<1> QED
  BY <1>2, <1>4, <1>6, <1>10, <1>11 DEF Balanced

LEMMA BalanceReset ==
    ASSUME TypeCore, Locks, InPlace, Balanced, NEW c \in Consumers, ResetEntry(c)
    PROVE  Balanced'
<1> DEFINE s == Slot(c)
<1>1. /\ TheHash' = [TheHash EXCEPT ![s].HitCount = 0, ![s].RedundantBytes = 0]
      /\ UNCHANGED <<gPacketHitCount, gPacketHitBytes, hits, ended>>
      /\ ended = "no" /\ pc[c] = "reset" /\ pc' = [pc EXCEPT ![c] = "pop"]
  BY DEF ResetEntry, At, counts, hitTotals, Return, Goto
<1>2. s \in Indexes
  BY <1>1, SlotIndex
<1>3. Replacers = {c}
  BY <1>1, OneReplacer DEF Locking
<1>4. Replacers' = {}
  BY <1>1, <1>3 DEF Replacers, TypeCore
<1>5. /\ \A i \in Indexes \ {s} : TheHash'[i] = TheHash[i]
      /\ TheHash'[s].ThePacket = TheHash[s].ThePacket
      /\ TheHash'[s].HitCount = 0 /\ TheHash'[s].RedundantBytes = 0
  BY <1>1, <1>2 DEF TypeCore
<1>6. /\ \A i \in Indexes : HitCounts[i] \in Nat /\ ByteCounts[i] \in Nat
      /\ IsFiniteSet(Indexes)
      /\ Cardinality(hits) \in Nat /\ Sum(PayloadSize, hits) \in Nat
      /\ Sum(HitCounts, Indexes) \in Nat /\ Sum(ByteCounts, Indexes) \in Nat
  BY CountersType DEF Balanced
<1>7. /\ HitCounts'[s] = 0 /\ ByteCounts'[s] = 0
      /\ \A i \in Indexes \ {s} : HitCounts'[i] = HitCounts[i] /\ ByteCounts'[i] = ByteCounts[i]
  BY <1>2, <1>5 DEF HitCounts, ByteCounts
<1>8. \A i \in Indexes : HitCounts'[i] \in Nat /\ ByteCounts'[i] \in Nat
  BY <1>6, <1>7
<1>9. /\ Sum(HitCounts', Indexes) + HitCounts[s] = Sum(HitCounts, Indexes) + 0
      /\ Sum(HitCounts', Indexes) \in Nat /\ HitCounts[s] \in Nat
  BY <1>2, <1>6, <1>7, <1>8, SumChange, SumNat
<1>10. /\ Sum(ByteCounts', Indexes) + ByteCounts[s] = Sum(ByteCounts, Indexes) + 0
       /\ Sum(ByteCounts', Indexes) \in Nat /\ ByteCounts[s] \in Nat
  BY <1>2, <1>6, <1>7, <1>8, SumChange, SumNat
<1>11. /\ gPacketHitCount \in Nat /\ gPacketHitBytes \in Nat
       /\ gPacketHitCount + Sum(HitCounts, Indexes) = Cardinality(hits) + HitCounts[s]
       /\ gPacketHitBytes + Sum(ByteCounts, Indexes) = Sum(PayloadSize, hits) + ByteCounts[s]
  BY <1>1, <1>3 DEF Balanced, TypeCore
<1>12. gPacketHitCount + Sum(HitCounts', Indexes) = Cardinality(hits)
  <2>1. PICK a, b, h \in Nat :
           a = Sum(HitCounts', Indexes) /\ b = Sum(HitCounts, Indexes) /\ h = HitCounts[s]
    BY <1>6, <1>9
  <2>2. a + h = b
    BY <1>9, <2>1
  <2>3. gPacketHitCount + b = Cardinality(hits) + h /\ gPacketHitCount \in Nat
    BY <1>11, <2>1
  <2>4. gPacketHitCount + a = Cardinality(hits)
    BY <1>6, <2>1, <2>2, <2>3
  <2> QED
    BY <2>1, <2>4
<1>13. gPacketHitBytes + Sum(ByteCounts', Indexes) = Sum(PayloadSize, hits)
  BY <1>6, <1>10, <1>11
<1>14. \A i \in Indexes :
          TheHash'[i].ThePacket = NoPacket => HitCounts'[i] = 0 /\ ByteCounts'[i] = 0
  BY <1>1, <1>5, <1>7 DEF Balanced
<1> QED
  BY <1>1, <1>4, <1>12, <1>13, <1>14 DEF Balanced

(* main leaves out the slots without a packet: they have counted nothing.  *)
LEMMA BalanceTally ==
    ASSUME TypeCore, Balanced, tallyProcessing
    PROVE  Balanced'
<1> DEFINE used == {i \in Indexes : TheHash[i].ThePacket # NoPacket}
<1>1. /\ gPacketHitCount' = gPacketHitCount + HitSum(used)
      /\ gPacketHitBytes' = gPacketHitBytes + ByteSum(used)
  BY Zenon DEF tallyProcessing, HitSum, ByteSum
<1>2. /\ ended = "no" /\ ended' = "tallied" /\ hits' = hits
      /\ Replacers = {}
  BY DEF tallyProcessing, Replacers
<1>3. used \in SUBSET Indexes
  OBVIOUS
<1>4. HitSum(used) = Sum(HitCounts, used) /\ ByteSum(used) = Sum(ByteCounts, used)
  <2> HIDE DEF used
  <2> QED
    BY <1>3, HitSumIs, ByteSumIs
<1>5. \A i \in Indexes \ used : HitCounts[i] = 0 /\ ByteCounts[i] = 0
  BY <1>2 DEF Balanced
<1>6. IsFiniteSet(Indexes) /\ \A i \in Indexes : HitCounts[i] \in Nat /\ ByteCounts[i] \in Nat
  BY CountersType DEF Balanced
<1>7. /\ Sum(HitCounts, Indexes) = Sum(HitCounts, used)
      /\ Sum(ByteCounts, Indexes) = Sum(ByteCounts, used)
  <2> HIDE DEF used
  <2> QED
    BY <1>3, <1>5, <1>6, SumNonzero
<1>8. /\ gPacketHitCount' = Cardinality(hits)
      /\ gPacketHitBytes' = Sum(PayloadSize, hits)
  BY <1>1, <1>2, <1>4, <1>7 DEF Balanced
<1> QED
  BY <1>2, <1>8 DEF Balanced

LEMMA BalanceStutter ==
    ASSUME Balanced, UNCHANGED vars
    PROVE  Balanced'
<1>1. UNCHANGED <<TheHash, gPacketHitCount, gPacketHitBytes, hits, pPacket, pc, ended>>
  BY DEF vars, counts, hitTotals, fates
<1>2. HitCounts' = HitCounts /\ ByteCounts' = ByteCounts /\ Replacers' = Replacers
  BY <1>1 DEF HitCounts, ByteCounts, Replacers
<1>3. \A c \in Replacers : Slot(c)' = Slot(c)
  BY <1>1 DEF Slot
<1> QED
  BY <1>1, <1>2, <1>3 DEF Balanced

LEMMA BalanceStep ==
    ASSUME TypeCore, Locks, InPlace, OneOwner, Looking, Balanced, Next
    PROVE  Balanced'
<1>1. ASSUME NEW c \in Consumers, Step(c)
      PROVE  Balanced'
  BY <1>1, BalanceKept, BalanceInsert, BalanceHit, BalanceReplace, BalanceReset DEF Puts
<1> QED
  BY <1>1, BalanceTally, BalanceStutter DEF Next, Terminated

(* Nobody is between ReplaceEntry and ResetEntry while HashLock is free.   *)
LEMMA BalancedConserves ==
    ASSUME TypeCore, Locks, Balanced
    PROVE  HitsConserved
<1>1. HitSum(Indexes) = Sum(HitCounts, Indexes) /\ ByteSum(Indexes) = Sum(ByteCounts, Indexes)
  BY HitSumIs, ByteSumIs
<1>2. HashLock = NoConsumer => Replacers = {}
  BY Constants DEF Locks, Locking, Replacers
<1>3. /\ ended = "tallied" =>
            gPacketHitCount = Cardinality(hits) /\ gPacketHitBytes = PayloadSum
      /\ ended = "no" /\ HashLock = NoConsumer =>
            /\ gPacketHitCount + HitSum(Indexes) = Cardinality(hits)
            /\ gPacketHitBytes + ByteSum(Indexes) = PayloadSum
  BY <1>1, <1>2, PayloadSumIs DEF Balanced
<1> QED
  BY <1>3, Zenon DEF HitsConserved, PayloadSum, HitSum, ByteSum

-----------------------------------------------------------------------------
(* The invariant.                                                          *)

IInv ==
    /\ TypeCore /\ Locks /\ InPlace /\ OneOwner
    /\ SeenBounded /\ SeenAtMost /\ LossesLeft
    /\ Looking /\ HitsAreRepeats /\ Balanced

LEMMA InitIInv == Init => IInv
<1> SUFFICES ASSUME Init
             PROVE  IInv
  OBVIOUS
<1> USE DEF Init, initializeProcessing
<1>1. TypeCore
  BY DEF TypeCore, Pcs
<1>2. Locks
  BY Constants DEF Locks, Locking
<1>3. InPlace
  BY DEF InPlace
<1>4. Owners = {} /\ Replacers = {} /\ Counting = Consumers \ Consumers
  BY DEF Owners, Replacers, Counting
<1>5. Held = {} /\ InTable = {} /\ Evicted = {}
  BY <1>4 DEF Held, InTable, Evicted
<1>6. Singly
  BY <1>4 DEF Singly
<1>7. Apart
  BY <1>5 DEF Apart
<1>8. OneOwner
  BY <1>6, <1>7, OwnerParts
<1>9. SeenBounded
  <2>1. PICK n \in Nat : n = Cardinality(Counted)
    BY CountedFinite
  <2> QED
    BY <1>4, <2>1 DEF SeenBounded
<1>10. SeenAtMost
  <2>1. PICK n \in Nat : n = Cardinality(Packets)
    BY CountedFinite
  <2> QED
    BY <2>1 DEF SeenAtMost
<1>11. LossesLeft
  BY DEF LossesLeft, Lost
<1>12. Looking
  BY DEF Looking, Looks
<1>13. HitsAreRepeats
  BY DEF HitsAreRepeats
<1>14. Balanced
  <2>1. /\ \A i \in Indexes : HitCounts[i] = 0 /\ ByteCounts[i] = 0
        /\ IsFiniteSet(Indexes)
    BY TableAssumption DEF HitCounts, ByteCounts
  <2>2. Sum(HitCounts, Indexes) = 0 /\ Sum(ByteCounts, Indexes) = 0
    BY <2>1, SumZero
  <2>3. Sum(PayloadSize, {}) = 0 /\ Cardinality({}) = 0
    BY SumEmpty, FS_EmptySet
  <2> QED
    BY <1>4, <2>1, <2>2, <2>3 DEF Balanced
<1> QED
  BY <1>1, <1>2, <1>3, <1>8, <1>9, <1>10, <1>11, <1>12, <1>13, <1>14 DEF IInv

LEMMA NextIInv == IInv /\ [Next]_vars => IInv'
<1> SUFFICES ASSUME IInv, [Next]_vars
             PROVE  IInv'
  OBVIOUS
<1>1. CASE Next
  <2>1. TypeCore' /\ Locks' /\ InPlace'
    BY <1>1, TypeStep, LockStep, PlaceStep DEF IInv
  <2>2. OneOwner'
    BY <1>1, OwnerStep DEF IInv
  <2>3. SeenBounded' /\ SeenAtMost'
    BY <1>1, SeenStep, SeenAtMostStep DEF IInv
  <2>4. LossesLeft'
    BY <1>1, LossStep DEF IInv
  <2>5. Looking' /\ HitsAreRepeats'
    BY <1>1, LookingStep, RepeatsStep DEF IInv
  <2>6. Balanced'
    BY <1>1, BalanceStep DEF IInv
  <2> QED
    BY <2>1, <2>2, <2>3, <2>4, <2>5, <2>6 DEF IInv
<1>2. CASE UNCHANGED vars
  <2> USE <1>2 DEF vars, counts, hitTotals, fates
  <2>1. TypeCore' /\ Locks' /\ InPlace'
    BY DEF IInv, TypeCore, Locks, InPlace
  <2>2. OneOwner'
    BY DEF IInv, OneOwner, Owners, Replacers, Held, InTable, Evicted
  <2>3. SeenBounded' /\ SeenAtMost'
    BY DEF IInv, SeenBounded, SeenAtMost, Counted, Counting
  <2>4. LossesLeft'
    BY DEF IInv, LossesLeft, Lost, Pending, Slot
  <2>5. Looking' /\ HitsAreRepeats'
    <3>1. \A x : Earlier(x)' = Earlier(x)
      BY DEF Earlier, Past, Held, Owners
    <3>2. \A x : SizeSeen(x)' = SizeSeen(x) /\ BytesSeen(x)' = BytesSeen(x)
      BY <3>1 DEF SizeSeen, BytesSeen
    <3>3. Out' = Out
      BY DEF Out, Held, Owners, InTable
    <3>4. \A x : Met(x)' = Met(x)
      BY <3>2, <3>3 DEF Met
    <3>5. \A c \in Consumers : Looks(c)' = Looks(c)
      BY <3>1, <3>2, <3>3, <3>4 DEF Looks, Slot
    <3> QED
      BY <3>5 DEF IInv, Looking, HitsAreRepeats
  <2>6. Balanced'
    BY <1>2, BalanceStutter DEF IInv
  <2> QED
    BY <2>1, <2>2, <2>3, <2>4, <2>5, <2>6 DEF IInv
<1> QED
  BY <1>1, <1>2

LEMMA Invariant == Spec => []IInv
BY InitIInv, NextIInv, PTL DEF Spec

(* Every variable keeps its type whatever the consumers do and the packets *)
(* hold; gPacketSeenCount, which has no lock, may miss packets but never   *)
(* exceeds their number.                                                   *)
THEOREM TypeCorrect == Spec => []TypeOK
<1>1. IInv => TypeOK
  BY TypeFromCore DEF IInv
<1> QED
  BY <1>1, Invariant, PTL

(* A packet has one owner at any time: insert and replaceSaveEntry free no *)
(* packet twice, and none that is in the table, although they look at the  *)
(* slots without HashLock.                                                 *)
THEOREM SingleOwner == Spec => []OneOwner
<1>1. IInv => OneOwner
  BY DEF IInv
<1> QED
  BY <1>1, Invariant, PTL

(* The unlocked test for an empty slot loses at most one packet less than  *)
(* there are consumers in any slot, for any number of packets.             *)
THEOREM LossIsBounded == Spec => []LossBounded
<1>1. IInv => LossBounded
  BY LossesLeftBound DEF IInv
<1> QED
  BY <1>1, Invariant, PTL

(* What a hit comes down to, however the looks of a consumer interleave    *)
(* with the updates of the others: unless insert has read memory nobody    *)
(* has written, the packet it counts as a duplicate has met in its slot    *)
(* one of its payload size and one with its bytes but for the last, and    *)
(* they are one packet or the first is lost or freed.                      *)
THEOREM HitsRepeat == Spec => []HitsAreRepeats
<1>1. IInv => HitsAreRepeats
  BY DEF IInv
<1> QED
  BY <1>1, Invariant, PTL

(* The totals main prints, and at any moment with HashLock free those in   *)
(* the table and those saved, are the number and the bytes of the packets  *)
(* that were discarded as duplicates: replaceSaveEntry and                 *)
(* tallyProcessing neither forget nor repeat one.                          *)
THEOREM HitsAreConserved == Spec => []HitsConserved
<1>1. IInv => HitsConserved
  BY BalancedConserves DEF IInv
<1> QED
  BY <1>1, Invariant, PTL

=============================================================================
