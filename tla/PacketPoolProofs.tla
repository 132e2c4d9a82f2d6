-------------------------- MODULE PacketPoolProofs --------------------------
(***************************************************************************)
(* Proofs about PacketPool, for any numbers of threads, files, packets and *)
(* slots that main can start with: however isdone++ races, files have one  *)
(* reader and no consumer leaves before they are read; the stack has one   *)
(* thread at a time until the first stray unlock; until the first file is  *)
(* finished every packet of redextract is in one place; and with one       *)
(* producer, one consumer and one file redextract implements the work pool *)
(* to its end.                                                             *)
(***************************************************************************)
EXTENDS PacketPool, FiniteSetTheorems, TLAPS

USE ThreadsAssumption, FilesAssumption

\* A producer with one of these pcs has a file; with Idle ones it has none.
Pushing == {"open", "read", "lock", "check", "wait", "asleep", "store", "load",
            "commit", "unlock"}
Finishing == {"close", "count"}
Idle == {"loop", "claim", "finish"}
Leaving == {"exit", "exited"}

(* What relates the files to the producers' places and to isdone.  A       *)
(* producer that is about to store isdone + 1 may hold a value that is out *)
(* of date, but one from a time when no more files were counted.           *)
FileStates ==
    /\ \A p \in Producers :
          /\ pc[p] \in Pushing \cup Finishing => fileOf[p] # NoFile
          /\ pc[p] \in Idle => fileOf[p] = NoFile
          /\ pc[p] \in Finishing => reads[fileOf[p]] = Reads[fileOf[p]]
          /\ pc[p] = "count" => reg[p] \in Nat /\ reg[p] <= Cardinality(Counted)
    /\ \A f \in Counted : reads[f] = Reads[f]
    /\ isdone <= Cardinality(Counted)

Inv == TypeOK /\ OneReaderPerFile /\ FileStates /\ ConsumersLeaveLast

-----------------------------------------------------------------------------
(* Counting files.                                                         *)

LEMMA FilesFinite == IsFiniteSet(Files) /\ Cardinality(Files) = NumPcapFiles
<1>1. NumPcapFiles \in Nat /\ 0 \in Int /\ NumPcapFiles - 1 \in Int
  OBVIOUS
<1> QED
  BY <1>1, FS_Interval DEF Files

(* The counted files are among the files, and all of them once there are   *)
(* as many.                                                                *)
LEMMA CountedFiles ==
    ASSUME TypeOK
    PROVE  /\ Counted \subseteq Files
           /\ IsFiniteSet(Counted)
           /\ Cardinality(Counted) \in 0..NumPcapFiles
           /\ Cardinality(Counted) = NumPcapFiles => Counted = Files
<1>1. Counted \subseteq Files
  BY DEF TypeOK, Counted, Claimed, Files
<1>2. IsFiniteSet(Counted) /\ Cardinality(Counted) <= NumPcapFiles
  BY <1>1, FilesFinite, FS_Subset
<1>3. Cardinality(Counted) \in Nat
  BY <1>2, FS_CardinalityType
<1>4. Cardinality(Counted) = NumPcapFiles => Counted = Files
  BY <1>1, FilesFinite, FS_Subset
<1> QED
  BY <1>1, <1>2, <1>3, <1>4

-----------------------------------------------------------------------------
(* Types.                                                                  *)

LEMMA ReadPacketType ==
    ASSUME TypeOK, NEW f \in Files, reads[f] # Reads[f]
    PROVE  readNextPacket(f) \in Packets
<1>1. reads[f] + 1 \in 1..Reads[f]
  BY DEF TypeOK
<1>2. readNextPacket(f) \in {f} \X (1..Reads[f])
  BY <1>1 DEF readNextPacket
<1> QED
  BY <1>2 DEF Packets

LEMMA InitTypeOK == Init => TypeOK
<1> SUFFICES ASSUME Init PROVE TypeOK
  OBVIOUS
<1>1. stack \in [0..(STACK_MAX_SIZE - 1) -> Packets \cup {NoPacket}]
  BY DEF Init
<1>2. /\ reads \in [Files -> Nat] /\ fileOf \in [Producers -> Files \cup {NoFile}]
      /\ \A f \in Files : reads[f] <= Reads[f]
  BY DEF Init
<1>3. /\ isdone \in 0..NumPcapFiles /\ fileIndex \in 0..NumPcapFiles
      /\ stackSize \in Int
  BY DEF Init
<1>4. /\ pPacket \in [Threads -> Packets \cup {NoPacket}]
      /\ reg \in [Threads -> Int]
  BY DEF Init
<1>5. /\ pc \in [Threads -> ProducerPcs \cup ConsumerPcs]
      /\ \A p \in Producers : pc[p] \in ProducerPcs
      /\ \A c \in Consumers : pc[c] \in ConsumerPcs
  BY DEF Init, Threads, ProducerPcs, ConsumerPcs
<1>6. StackLock \in BOOLEAN /\ ended \in Endings
  BY DEF Init, Endings
<1> QED
  BY <1>1, <1>2, <1>3, <1>4, <1>5, <1>6 DEF TypeOK

LEMMA StackTypes ==
    ASSUME TypeOK, NEW t \in Threads,
           \/ Acquire(t) \/ CondWait(t) \/ SpuriousWakeup(t) \/ LoadStackSize(t)
    PROVE  TypeOK'
<1> USE DEF Running, Goto, stackVars, fileVars
<1>1. CASE Acquire(t)
  BY <1>1 DEF Acquire, TypeOK, Threads, ProducerPcs, ConsumerPcs
<1>2. CASE CondWait(t)
  BY <1>2 DEF CondWait, TypeOK, Threads, ProducerPcs, ConsumerPcs
<1>3. CASE SpuriousWakeup(t)
  BY <1>3 DEF SpuriousWakeup, TypeOK, Threads, ProducerPcs, ConsumerPcs
<1>4. CASE LoadStackSize(t)
  BY <1>4 DEF LoadStackSize, TypeOK, Threads, ProducerPcs, ConsumerPcs
<1> QED
  BY <1>1, <1>2, <1>3, <1>4

LEMMA ProducerTypes ==
    ASSUME Inv, NEW p \in Producers, Producer(p)
    PROVE  TypeOK'
<1> USE DEF Running, Goto, stackVars, fileVars
<1>0. TypeOK /\ FileStates /\ p \in Threads /\ p \notin Consumers
  BY DEF Inv, Threads
<1>1. CASE ProducerLoop(p)
  BY <1>0, <1>1 DEF ProducerLoop, TypeOK, Threads, ProducerPcs, ConsumerPcs
<1>2. CASE ClaimFile(p)
  <2>1. /\ fileIndex' \in 0..NumPcapFiles
        /\ fileOf' \in [Producers -> Files \cup {NoFile}]
    <3>1. CASE fileIndex = NumPcapFiles
      BY <1>0, <1>2, <3>1 DEF ClaimFile, TypeOK
    <3>2. CASE fileIndex # NumPcapFiles
      <4>1. fileIndex \in Files /\ fileIndex + 1 \in 0..NumPcapFiles
        BY <1>0, <3>2 DEF TypeOK, Files
      <4> QED
        BY <1>0, <1>2, <3>2, <4>1 DEF ClaimFile, TypeOK
    <3> QED
      BY <3>1, <3>2
  <2>2. /\ pc' \in [Threads -> ProducerPcs \cup ConsumerPcs]
        /\ \A q \in Producers : pc'[q] \in ProducerPcs
        /\ \A c \in Consumers : pc'[c] \in ConsumerPcs
    <3>1. PICK l \in ProducerPcs : pc' = [pc EXCEPT ![p] = l]
      <4>1. pc' = [pc EXCEPT ![p] = "returned"] \/ pc' = [pc EXCEPT ![p] = "open"]
        BY <1>2 DEF ClaimFile
      <4> QED
        BY <4>1 DEF ProducerPcs
    <3>2. /\ pc \in [Threads -> ProducerPcs \cup ConsumerPcs]
          /\ \A q \in Producers : pc[q] \in ProducerPcs
          /\ \A c \in Consumers : pc[c] \in ConsumerPcs
      BY <1>0 DEF TypeOK
    <3>3. pc' \in [Threads -> ProducerPcs \cup ConsumerPcs]
      BY <3>1, <3>2
    <3> QED
      BY <1>0, <3>1, <3>2, <3>3 DEF Threads
  <2>3. UNCHANGED <<StackLock, stack, stackSize, isdone, reads, pPacket, reg, ended>>
    BY <1>2 DEF ClaimFile
  <2> QED
    BY <1>0, <2>1, <2>2, <2>3 DEF TypeOK
<1>3. CASE OpenFile(p)
  BY <1>0, <1>3 DEF OpenFile, parsePcapFileStart, TypeOK, Threads, ProducerPcs,
                    ConsumerPcs, Endings
<1>4. CASE ReadPacket(p)
  <2>1. fileOf[p] \in Files
    BY <1>0, <1>4 DEF ReadPacket, FileStates, Pushing, TypeOK
  <2>2. UNCHANGED <<StackLock, stack, stackSize, isdone, fileIndex, fileOf, reg, ended>>
    BY <1>4 DEF ReadPacket
  <2>a. PICK l \in ProducerPcs : pc' = [pc EXCEPT ![p] = l]
    BY <1>4 DEF ReadPacket, ProducerPcs
  <2>b. /\ pc \in [Threads -> ProducerPcs \cup ConsumerPcs]
        /\ \A q \in Producers : pc[q] \in ProducerPcs
        /\ \A c \in Consumers : pc[c] \in ConsumerPcs
    BY <1>0 DEF TypeOK
  <2>3. pc' \in [Threads -> ProducerPcs \cup ConsumerPcs]
    BY <2>a, <2>b
  <2>4. /\ \A q \in Producers : pc'[q] \in ProducerPcs
        /\ \A c \in Consumers : pc'[c] \in ConsumerPcs
    BY <1>0, <2>a, <2>b DEF Threads
  <2>5. reads' \in [Files -> Nat] /\ \A f \in Files : reads'[f] <= Reads[f]
    <3>1. CASE reads[fileOf[p]] = Reads[fileOf[p]]
      BY <1>0, <1>4, <3>1 DEF ReadPacket, TypeOK
    <3>2. CASE reads[fileOf[p]] # Reads[fileOf[p]]
      <4>1. reads' = [reads EXCEPT ![fileOf[p]] = @ + 1]
        BY <1>4, <3>2 DEF ReadPacket
      <4>2. reads[fileOf[p]] + 1 <= Reads[fileOf[p]]
        BY <1>0, <2>1, <3>2 DEF TypeOK
      <4> QED
        BY <1>0, <2>1, <4>1, <4>2 DEF TypeOK
    <3> QED
      BY <3>1, <3>2
  <2>6. pPacket' \in [Threads -> Packets \cup {NoPacket}]
    <3>1. CASE reads[fileOf[p]] = Reads[fileOf[p]]
      BY <1>0, <1>4, <3>1 DEF ReadPacket, TypeOK
    <3>2. CASE reads[fileOf[p]] # Reads[fileOf[p]]
      <4>1. pPacket' = [pPacket EXCEPT ![p] = readNextPacket(fileOf[p])]
        BY <1>4, <3>2 DEF ReadPacket
      <4>2. readNextPacket(fileOf[p]) \in Packets
        BY <1>0, <2>1, <3>2, ReadPacketType
      <4> QED
        BY <1>0, <4>1, <4>2 DEF TypeOK
    <3> QED
      BY <3>1, <3>2
  <2> QED
    BY <1>0, <2>2, <2>3, <2>4, <2>5, <2>6 DEF TypeOK
<1>5. CASE PushCheck(p)
  BY <1>0, <1>5 DEF PushCheck, TypeOK, Threads, ProducerPcs, ConsumerPcs
<1>6. CASE PushStore(p)
  BY <1>0, <1>6 DEF PushStore, TypeOK, Threads, ProducerPcs, ConsumerPcs, Endings
<1>7. CASE PushCommit(p)
  BY <1>0, <1>7 DEF PushCommit, TypeOK, Threads, ProducerPcs, ConsumerPcs
<1>8. CASE PushUnlock(p)
  BY <1>0, <1>8 DEF PushUnlock, Broadcast, TypeOK, Threads, ProducerPcs, ConsumerPcs
<1>9. CASE CloseFile(p)
  BY <1>0, <1>9 DEF CloseFile, TypeOK, Threads, ProducerPcs, ConsumerPcs
<1>10. CASE CountFile(p)
  <2>1. fileOf[p] \in Files /\ fileOf[p] \notin Counted
    BY <1>0, <1>10 DEF CountFile, FileStates, Finishing, TypeOK, Counted, Active
  <2>2. reg[p] \in Nat /\ reg[p] <= Cardinality(Counted)
    BY <1>0, <1>10 DEF CountFile, FileStates
  <2>3. Cardinality(Counted) \in 0..NumPcapFiles /\ Cardinality(Counted) # NumPcapFiles
    BY <1>0, <2>1, CountedFiles
  <2>4. isdone' \in 0..NumPcapFiles
    BY <1>10, <2>2, <2>3 DEF CountFile
  <2> QED
    BY <1>0, <1>10, <2>4 DEF CountFile, TypeOK, Threads, ProducerPcs, ConsumerPcs
<1>11. CASE FinishFile(p)
  BY <1>0, <1>11 DEF FinishFile, Broadcast, TypeOK, Threads, ProducerPcs, ConsumerPcs
<1> QED
  BY <1>1, <1>2, <1>3, <1>4, <1>5, <1>6, <1>7, <1>8, <1>9, <1>10, <1>11 DEF Producer

LEMMA ConsumerTypes ==
    ASSUME TypeOK, NEW c \in Consumers, Consumer(c)
    PROVE  TypeOK'
<1> USE DEF Running, Goto, stackVars, fileVars
<1>0. c \in Threads /\ c \notin Producers
  BY DEF Threads
<1>1. CASE PopCheck(c)
  BY <1>0, <1>1 DEF PopCheck, TypeOK, Threads, ProducerPcs, ConsumerPcs
<1>2. CASE PopCheckDone(c)
  BY <1>0, <1>2 DEF PopCheckDone, TypeOK, Threads, ProducerPcs, ConsumerPcs
<1>3. CASE PopTest(c)
  BY <1>0, <1>3 DEF PopTest, TypeOK, Threads, ProducerPcs, ConsumerPcs
<1>4. CASE PopTake(c)
  <2>1. pPacket' \in [Threads -> Packets \cup {NoPacket}]
    BY <1>0, <1>4 DEF PopTake, TypeOK
  <2>2. /\ pc' \in [Threads -> ProducerPcs \cup ConsumerPcs]
        /\ \A p \in Producers : pc'[p] \in ProducerPcs
        /\ \A d \in Consumers : pc'[d] \in ConsumerPcs
    BY <1>0, <1>4 DEF PopTake, TypeOK, Threads, ProducerPcs, ConsumerPcs
  <2>3. /\ UNCHANGED <<StackLock, stack, stackSize, isdone, fileIndex, reads, fileOf, reg>>
        /\ ended' \in Endings
    BY <1>4 DEF PopTake, TypeOK, Endings
  <2> QED
    BY <2>1, <2>2, <2>3 DEF TypeOK
<1>5. CASE PopCommit(c)
  BY <1>0, <1>5 DEF PopCommit, TypeOK, Threads, ProducerPcs, ConsumerPcs
<1>6. CASE PopUnlock(c)
  BY <1>0, <1>6 DEF PopUnlock, Broadcast, TypeOK, Threads, ProducerPcs, ConsumerPcs
<1>7. CASE Process(c)
  BY <1>0, <1>7 DEF Process, TypeOK, Threads, ProducerPcs, ConsumerPcs, Endings
<1>8. CASE ConsumerExit(c)
  BY <1>0, <1>8 DEF ConsumerExit, Broadcast, TypeOK, Threads, ProducerPcs, ConsumerPcs
<1> QED
  BY <1>1, <1>2, <1>3, <1>4, <1>5, <1>6, <1>7, <1>8 DEF Consumer

LEMMA NextTypes ==
    ASSUME Inv, [Next]_vars PROVE TypeOK'
<1>1. ASSUME NEW t \in Threads, Step(t) PROVE TypeOK'
  BY <1>1, StackTypes, ProducerTypes, ConsumerTypes DEF Step, Inv
<1>2. ASSUME NEW t \in Threads, SpuriousWakeup(t) PROVE TypeOK'
  BY <1>2, StackTypes DEF Inv
<1>3. CASE MainReport
  BY <1>3 DEF MainReport, Inv, TypeOK, stackVars, fileVars, Endings
<1>4. CASE UNCHANGED vars
  BY <1>4 DEF vars, Inv, TypeOK
<1> QED
  BY <1>1, <1>2, <1>3, <1>4 DEF Next, Terminated

-----------------------------------------------------------------------------
(* The files.                                                              *)

(* Steps that leave the files alone, and take no producer to or from a     *)
(* place where it matters which file it has, and no consumer out of its    *)
(* loop.                                                                   *)
Quiet ==
    /\ UNCHANGED fileVars
    /\ \A p \in Producers :
          \/ pc'[p] = pc[p] /\ reg'[p] = reg[p]
          \/ pc[p] \in Pushing /\ pc'[p] \in Pushing \cup {"returned"}
    /\ \A c \in Consumers : pc'[c] \in Leaving => pc[c] \in Leaving

LEMMA QuietKeeps ==
    ASSUME Inv, Quiet
    PROVE  OneReaderPerFile' /\ FileStates' /\ ConsumersLeaveLast'
<1> USE DEF Inv, Quiet, fileVars
<1>1. Counted' = Counted /\ Active' = Active /\ Claimed' = Claimed
  BY DEF Counted, Active, Claimed
<1>2. OneReaderPerFile'
  BY <1>1 DEF OneReaderPerFile
<1>3. FileStates'
  BY <1>1 DEF FileStates, Pushing, Finishing, Idle
<1>4. ConsumersLeaveLast'
  BY <1>1 DEF ConsumersLeaveLast, Leaving
<1> QED
  BY <1>2, <1>3, <1>4

LEMMA QuietSteps ==
    ASSUME Inv, NEW t \in Threads,
           \/ Acquire(t) \/ CondWait(t) \/ SpuriousWakeup(t) \/ LoadStackSize(t)
           \/ t \in Producers /\ (OpenFile(t) \/ PushCheck(t) \/ PushStore(t)
                                    \/ PushCommit(t) \/ PushUnlock(t))
           \/ t \in Consumers /\ (PopCheck(t) \/ PopCheckDone(t) \/ PopTake(t)
                                    \/ PopCommit(t) \/ PopUnlock(t) \/ Process(t)
                                    \/ ConsumerExit(t))
    PROVE  Quiet
<1> USE DEF Quiet, Running, Goto, fileVars, Pushing, Leaving
<1>0. /\ pc \in [Threads -> ProducerPcs \cup ConsumerPcs]
      /\ reg \in [Threads -> Int]
      /\ Threads = Producers \cup Consumers /\ Producers \cap Consumers = {}
  BY DEF Inv, TypeOK, Threads
<1>1. CASE Acquire(t) \/ CondWait(t) \/ SpuriousWakeup(t)
  BY <1>0, <1>1 DEF Acquire, CondWait, SpuriousWakeup
<1>2. CASE LoadStackSize(t)
  BY <1>0, <1>2 DEF LoadStackSize
<1>3. CASE t \in Producers /\ OpenFile(t)
  BY <1>0, <1>3 DEF OpenFile
<1>4. CASE t \in Producers /\ (PushCheck(t) \/ PushStore(t) \/ PushCommit(t))
  BY <1>0, <1>4 DEF PushCheck, PushStore, PushCommit
<1>5. CASE t \in Producers /\ PushUnlock(t)
  BY <1>0, <1>5 DEF PushUnlock, Broadcast
<1>6. CASE t \in Consumers /\ (PopCheck(t) \/ PopCheckDone(t) \/ PopTake(t))
  BY <1>0, <1>6 DEF PopCheck, PopCheckDone, PopTake
<1>7. CASE t \in Consumers /\ (PopCommit(t) \/ Process(t))
  BY <1>0, <1>7 DEF PopCommit, Process
<1>8. CASE t \in Consumers /\ (PopUnlock(t) \/ ConsumerExit(t))
  BY <1>0, <1>8 DEF PopUnlock, ConsumerExit, Broadcast
<1> QED
  BY <1>1, <1>2, <1>3, <1>4, <1>5, <1>6, <1>7, <1>8

LEMMA ProducerLoopFiles ==
    ASSUME Inv, NEW p \in Producers, ProducerLoop(p)
    PROVE  OneReaderPerFile' /\ FileStates' /\ ConsumersLeaveLast'
<1> USE DEF Inv, ProducerLoop, Running, Goto, fileVars
<1>0. pc \in [Threads -> ProducerPcs \cup ConsumerPcs] /\ p \in Threads /\ p \notin Consumers
  BY DEF TypeOK, Threads
<1>1. Counted' = Counted /\ Active' = Active /\ Claimed' = Claimed
  BY DEF Counted, Active, Claimed
<1>2. OneReaderPerFile'
  BY <1>1 DEF OneReaderPerFile
<1>3. FileStates'
  BY <1>0, <1>1 DEF FileStates, Pushing, Finishing, Idle, Threads
<1>4. ConsumersLeaveLast'
  BY <1>0, <1>1 DEF ConsumersLeaveLast, Threads
<1> QED
  BY <1>2, <1>3, <1>4

(* A claimed file is counted by nobody yet, and is claimed by nobody else. *)
LEMMA ClaimFileFiles ==
    ASSUME Inv, NEW p \in Producers, ClaimFile(p)
    PROVE  OneReaderPerFile' /\ FileStates' /\ ConsumersLeaveLast'
<1> USE DEF Inv, ClaimFile, Running, Goto
<1>0. /\ pc \in [Threads -> ProducerPcs \cup ConsumerPcs] /\ p \in Threads /\ p \notin Consumers
      /\ Producers \subseteq Threads /\ Consumers \subseteq Threads
      /\ fileOf \in [Producers -> Files \cup {NoFile}]
      /\ fileIndex \in Nat /\ fileOf[p] = NoFile
  BY DEF TypeOK, Threads, FileStates, Idle
<1>a. CASE fileIndex = NumPcapFiles
  <2>1. Counted' = Counted /\ Active' = Active /\ Claimed' = Claimed
    BY <1>a DEF Counted, Active, Claimed
  <2>2. OneReaderPerFile'
    BY <1>a, <2>1 DEF OneReaderPerFile
  <2>3. FileStates'
    BY <1>0, <1>a, <2>1 DEF FileStates, Pushing, Finishing, Idle
  <2>4. ConsumersLeaveLast'
    BY <1>0, <1>a, <2>1 DEF ConsumersLeaveLast
  <2> QED
    BY <2>2, <2>3, <2>4
<1>b. CASE fileIndex # NumPcapFiles
  <2>0. fileIndex \in Files
    BY <1>b DEF TypeOK, Files
  <2>1. Claimed' = Claimed \cup {fileIndex} /\ fileIndex \notin Claimed
    BY <1>0, <1>b DEF Claimed
  <2>2. Active' = Active \cup {fileIndex}
    BY <1>0, <1>b, <2>0 DEF Active
  <2>3. Counted' = Counted
    BY <2>1, <2>2 DEF Counted
  <2>4. \A q \in Producers : fileOf[q] # fileIndex
    BY <2>0, <2>1 DEF OneReaderPerFile, Active
  <2>5. OneReaderPerFile'
    BY <1>0, <1>b, <2>0, <2>1, <2>2, <2>4 DEF OneReaderPerFile
  <2>6. FileStates'
    BY <1>0, <1>b, <2>0, <2>3 DEF FileStates, Pushing, Finishing, Idle
  <2>7. ConsumersLeaveLast'
    BY <1>0, <1>b, <2>3 DEF ConsumersLeaveLast
  <2> QED
    BY <2>5, <2>6, <2>7
<1> QED
  BY <1>a, <1>b

(* A counted file is read no further: its reader has let go of it.         *)
LEMMA ReadPacketFiles ==
    ASSUME Inv, NEW p \in Producers, ReadPacket(p)
    PROVE  OneReaderPerFile' /\ FileStates' /\ ConsumersLeaveLast'
<1> USE DEF Inv, ReadPacket, Running, Goto
<1>0. /\ pc \in [Threads -> ProducerPcs \cup ConsumerPcs] /\ p \in Threads /\ p \notin Consumers
      /\ Producers \subseteq Threads /\ Consumers \subseteq Threads
      /\ reads \in [Files -> Nat] /\ fileOf[p] \in Files
  BY DEF TypeOK, Threads, FileStates, Pushing
<1>1. Counted' = Counted /\ Active' = Active /\ Claimed' = Claimed
  BY DEF Counted, Active, Claimed
<1>2. OneReaderPerFile'
  BY <1>1 DEF OneReaderPerFile
<1>3. PICK l \in {"close", "lock"} :
          /\ pc' = [pc EXCEPT ![p] = l]
          /\ l = "close" => reads[fileOf[p]] = Reads[fileOf[p]]
          /\ \A f \in Files : f # fileOf[p] => reads'[f] = reads[f]
          /\ l = "close" => reads' = reads
  BY <1>0
<1>4. \A f \in Counted : f # fileOf[p] /\ f \in Files
  BY <1>0, CountedFiles DEF Counted, Active
<1>5. \A f \in Counted : reads'[f] = Reads[f]
  BY <1>3, <1>4 DEF FileStates
<1>6. ASSUME NEW q \in Producers, q # p, pc[q] \in Finishing
      PROVE  reads'[fileOf[q]] = Reads[fileOf[q]]
  <2>1. fileOf[q] # NoFile /\ fileOf[q] \in Files
    BY <1>6 DEF FileStates, TypeOK
  <2>2. fileOf[q] # fileOf[p]
    BY <1>6, <2>1 DEF OneReaderPerFile
  <2> QED
    BY <1>3, <1>6, <2>1, <2>2 DEF FileStates
<1>7. FileStates'
  <2>1. ASSUME NEW q \in Producers PROVE
           /\ pc'[q] \in Pushing \cup Finishing => fileOf[q] # NoFile
           /\ pc'[q] \in Idle => fileOf[q] = NoFile
           /\ pc'[q] \in Finishing => reads'[fileOf[q]] = Reads[fileOf[q]]
           /\ pc'[q] = "count" => reg[q] \in Nat /\ reg[q] <= Cardinality(Counted)
    <3>1. CASE q = p
      BY <1>0, <1>3, <3>1 DEF FileStates, Pushing, Finishing, Idle
    <3>2. CASE q # p
      BY <1>0, <1>3, <1>6, <3>2 DEF FileStates
    <3> QED
      BY <3>1, <3>2
  <2>2. fileOf' = fileOf /\ reg' = reg /\ isdone' = isdone
    OBVIOUS
  <2> QED
    BY <1>1, <1>5, <2>1, <2>2 DEF FileStates
<1>8. ConsumersLeaveLast'
  BY <1>0, <1>1, <1>3, <1>4, <1>5 DEF ConsumersLeaveLast
<1> QED
  BY <1>2, <1>7, <1>8

LEMMA CloseFileFiles ==
    ASSUME Inv, NEW p \in Producers, CloseFile(p)
    PROVE  OneReaderPerFile' /\ FileStates' /\ ConsumersLeaveLast'
<1> USE DEF Inv, CloseFile, Running, Goto, fileVars
<1>0. /\ pc \in [Threads -> ProducerPcs \cup ConsumerPcs] /\ p \in Threads /\ p \notin Consumers
      /\ Producers \subseteq Threads /\ Consumers \subseteq Threads
      /\ reg \in [Threads -> Int] /\ isdone \in Nat
  BY DEF TypeOK, Threads
<1>1. Counted' = Counted /\ Active' = Active /\ Claimed' = Claimed
  BY DEF Counted, Active, Claimed
<1>2. OneReaderPerFile'
  BY <1>1 DEF OneReaderPerFile
<1>3. FileStates'
  BY <1>0, <1>1 DEF FileStates, Pushing, Finishing, Idle
<1>4. ConsumersLeaveLast'
  BY <1>0, <1>1 DEF ConsumersLeaveLast
<1> QED
  BY <1>2, <1>3, <1>4

(* The store of isdone++: one more file is counted, and isdone is at most  *)
(* one more than a value that was at most the number before.               *)
LEMMA CountFileFiles ==
    ASSUME Inv, NEW p \in Producers, CountFile(p)
    PROVE  OneReaderPerFile' /\ FileStates' /\ ConsumersLeaveLast'
<1> USE DEF Inv, CountFile, Running, Goto
<1>0. /\ pc \in [Threads -> ProducerPcs \cup ConsumerPcs] /\ p \in Threads /\ p \notin Consumers
      /\ Producers \subseteq Threads /\ Consumers \subseteq Threads
      /\ fileOf \in [Producers -> Files \cup {NoFile}]
      /\ fileOf[p] \in Files /\ fileOf[p] # NoFile
  BY DEF TypeOK, Threads, FileStates, Finishing
<1>1. Claimed' = Claimed /\ fileOf[p] \in Active /\ fileOf[p] \in Claimed
  BY <1>0 DEF Claimed, Active, OneReaderPerFile
<1>2. Active' = Active \ {fileOf[p]}
  BY <1>0 DEF Active, OneReaderPerFile
<1>3. Counted' = Counted \cup {fileOf[p]} /\ fileOf[p] \notin Counted
  BY <1>1, <1>2 DEF Counted
<1>4. /\ Cardinality(Counted) \in Nat
      /\ Cardinality(Counted') = Cardinality(Counted) + 1
  <2>1. IsFiniteSet(Counted) /\ Cardinality(Counted) \in Nat
    BY CountedFiles
  <2>2. Cardinality(Counted \cup {fileOf[p]}) = Cardinality(Counted) + 1
    BY <1>3, <2>1, FS_AddElement
  <2> QED
    BY <1>3, <2>1, <2>2
<1>5. OneReaderPerFile'
  BY <1>0, <1>1, <1>2 DEF OneReaderPerFile
<1>6. reads[fileOf[p]] = Reads[fileOf[p]] /\ reads' = reads
  BY DEF FileStates, Finishing
<1>7. FileStates'
  BY <1>0, <1>3, <1>4, <1>6 DEF FileStates, Pushing, Finishing, Idle
<1>8. ConsumersLeaveLast'
  BY <1>0, <1>3, <1>6 DEF ConsumersLeaveLast
<1> QED
  BY <1>5, <1>7, <1>8

LEMMA FinishFileFiles ==
    ASSUME Inv, NEW p \in Producers, FinishFile(p)
    PROVE  OneReaderPerFile' /\ FileStates' /\ ConsumersLeaveLast'
<1> USE DEF Inv, FinishFile, Running, Goto, Broadcast, fileVars
<1>0. /\ pc \in [Threads -> ProducerPcs \cup ConsumerPcs] /\ p \in Threads /\ p \notin Consumers
      /\ Threads = Producers \cup Consumers /\ Producers \cap Consumers = {}
  BY DEF TypeOK, Threads
<1>1. Counted' = Counted /\ Active' = Active /\ Claimed' = Claimed
  BY DEF Counted, Active, Claimed
<1>2. OneReaderPerFile'
  BY <1>1 DEF OneReaderPerFile
<1>3. FileStates'
  <2>1. fileOf[p] = NoFile /\ pc'[p] = "loop"
    BY <1>0 DEF FileStates, Idle
  <2>2. \A q \in Producers : q # p => pc'[q] = pc[q]
    BY <1>0
  <2> QED
    BY <1>1, <2>1, <2>2 DEF FileStates, Pushing, Finishing, Idle
<1>4. ConsumersLeaveLast'
  BY <1>0, <1>1 DEF ConsumersLeaveLast
<1> QED
  BY <1>2, <1>3, <1>4

(* A consumer leaves when isdone is numPcapFiles: then all are counted.    *)
LEMMA PopTestFiles ==
    ASSUME Inv, NEW c \in Consumers, PopTest(c)
    PROVE  OneReaderPerFile' /\ FileStates' /\ ConsumersLeaveLast'
<1> USE DEF Inv, PopTest, Running, Goto, fileVars
<1>0. /\ pc \in [Threads -> ProducerPcs \cup ConsumerPcs] /\ c \in Threads /\ c \notin Producers
      /\ Producers \subseteq Threads /\ Consumers \subseteq Threads
  BY DEF TypeOK, Threads
<1>1. Counted' = Counted /\ Active' = Active /\ Claimed' = Claimed
  BY DEF Counted, Active, Claimed
<1>2. OneReaderPerFile'
  BY <1>1 DEF OneReaderPerFile
<1>3. FileStates'
  BY <1>0, <1>1 DEF FileStates, Pushing, Finishing, Idle
<1>4. ConsumersLeaveLast'
  <2>1. CASE isdone = NumPcapFiles
    <3>1. Cardinality(Counted) = NumPcapFiles
      BY <2>1, CountedFiles DEF FileStates
    <3>2. Counted = Files /\ \A f \in Files : reads[f] = Reads[f]
      BY <3>1, CountedFiles DEF FileStates
    <3> QED
      BY <1>1, <3>2 DEF ConsumersLeaveLast
  <2>2. CASE isdone # NumPcapFiles
    BY <1>0, <1>1, <2>2 DEF ConsumersLeaveLast
  <2> QED
    BY <2>1, <2>2
<1> QED
  BY <1>2, <1>3, <1>4

LEMMA StepFiles ==
    ASSUME Inv, [Next]_vars
    PROVE  OneReaderPerFile' /\ FileStates' /\ ConsumersLeaveLast'
<1>1. ASSUME NEW t \in Threads, Step(t) \/ SpuriousWakeup(t)
      PROVE  OneReaderPerFile' /\ FileStates' /\ ConsumersLeaveLast'
  BY <1>1, QuietSteps, QuietKeeps, ProducerLoopFiles, ClaimFileFiles, ReadPacketFiles,
     CloseFileFiles, CountFileFiles, FinishFileFiles, PopTestFiles
     DEF Step, Producer, Consumer
<1>2. CASE MainReport \/ UNCHANGED vars
  <2>1. Quiet
    BY <1>2 DEF MainReport, vars, Quiet, fileVars
  <2> QED
    BY <2>1, QuietKeeps
<1> QED
  BY <1>1, <1>2 DEF Next, Terminated

LEMMA InitFiles == Init => OneReaderPerFile /\ FileStates /\ ConsumersLeaveLast
<1> SUFFICES ASSUME Init PROVE OneReaderPerFile /\ FileStates /\ ConsumersLeaveLast
  OBVIOUS
<1>0. Threads = Producers \cup Consumers /\ Producers \cap Consumers = {}
  BY DEF Threads
<1>1. Claimed = {} /\ Active = {} /\ Counted = {}
  BY DEF Init, Claimed, Active, Counted
<1>2. OneReaderPerFile /\ ConsumersLeaveLast
  BY <1>0, <1>1 DEF Init, OneReaderPerFile, ConsumersLeaveLast
<1>3. FileStates
  BY <1>0, <1>1, FS_EmptySet DEF Init, FileStates, Pushing, Finishing, Idle
<1> QED
  BY <1>2, <1>3

LEMMA Invariance == Spec => []Inv
<1>1. Init => Inv
  BY InitTypeOK, InitFiles DEF Inv
<1>2. Inv /\ [Next]_vars => Inv'
  BY NextTypes, StepFiles DEF Inv
<1> QED
  BY <1>1, <1>2, PTL DEF Spec

(* Every variable keeps its type; in particular the racing increments      *)
(* never take isdone past numPcapFiles.                                    *)
THEOREM TypeCorrect == Spec => []TypeOK
BY Invariance, PTL DEF Inv

(* A pcap file never has two readers.                                      *)
THEOREM SingleReader == Spec => []OneReaderPerFile
BY Invariance, PTL DEF Inv

(* A consumer that leaves leaves no file unread, whatever increments of    *)
(* isdone have been lost or undone.                                        *)
THEOREM NoEarlyExit == Spec => []ConsumersLeaveLast
BY Invariance, PTL DEF Inv

-----------------------------------------------------------------------------
(* The mutex, until the first stray unlock.                                *)

(* One thread is between lock and unlock when the mutex is locked, none    *)
(* when it is free, and no producer is at the stray unlock.                *)
Alone == \A t, u \in Threads : pc[t] \in InStack /\ pc[u] \in InStack => t = u

Exclusive ==
    Counted = {} =>
        /\ Alone
        /\ StackLock <=> \E t \in Threads : pc[t] \in InStack
        /\ \A p \in Producers : pc[p] # "finish"

(* A counted file stays counted.                                           *)
LEMMA CountedGrows ==
    ASSUME Inv, [Next]_vars PROVE Counted \subseteq Counted'
<1> USE DEF Inv
<1>1. ASSUME UNCHANGED <<fileIndex, fileOf>> PROVE Counted \subseteq Counted'
  BY <1>1 DEF Counted, Claimed, Active
<1>2. ASSUME NEW p \in Producers, ClaimFile(p) PROVE Counted \subseteq Counted'
  <2>1. fileIndex \in Nat /\ fileOf \in [Producers -> Files \cup {NoFile}]
    BY DEF TypeOK
  <2>2. fileIndex \notin Claimed
    BY <2>1 DEF Claimed
  <2>3. Claimed \subseteq Claimed' /\ Active' \subseteq Active \cup {fileIndex}
    BY <1>2, <2>1 DEF ClaimFile, Claimed, Active
  <2> QED
    BY <2>2, <2>3 DEF Counted
<1>3. ASSUME NEW p \in Producers, CountFile(p) PROVE Counted \subseteq Counted'
  <2>1. fileOf \in [Producers -> Files \cup {NoFile}]
    BY DEF TypeOK
  <2>2. Claimed' = Claimed /\ Active' \subseteq Active
    BY <1>3, <2>1 DEF CountFile, Claimed, Active
  <2> QED
    BY <2>2 DEF Counted
<1>4. ASSUME NEW t \in Threads, Step(t) \/ SpuriousWakeup(t),
             ~(t \in Producers /\ (ClaimFile(t) \/ CountFile(t)))
      PROVE  UNCHANGED <<fileIndex, fileOf>>
  <2> USE DEF fileVars
  <2>1. CASE Acquire(t) \/ CondWait(t) \/ SpuriousWakeup(t) \/ LoadStackSize(t)
    BY <2>1 DEF Acquire, CondWait, SpuriousWakeup, LoadStackSize
  <2>2. CASE t \in Producers /\ Producer(t)
    BY <1>4, <2>2 DEF Producer, ProducerLoop, OpenFile, ReadPacket, PushCheck, PushStore,
       PushCommit, PushUnlock, CloseFile, FinishFile
  <2>3. CASE t \in Consumers /\ Consumer(t)
    BY <2>3 DEF Consumer, PopCheck, PopCheckDone, PopTest, PopTake, PopCommit, PopUnlock,
       Process, ConsumerExit
  <2> QED
    BY <1>4, <2>1, <2>2, <2>3 DEF Step
<1>5. CASE MainReport \/ UNCHANGED vars
  BY <1>1, <1>5 DEF MainReport, vars, fileVars
<1> QED
  BY <1>1, <1>2, <1>3, <1>4, <1>5 DEF Next, Terminated

LEMMA CountFileCounts ==
    ASSUME Inv, NEW p \in Producers, CountFile(p) PROVE Counted' # {}
<1>1. fileOf \in [Producers -> Files \cup {NoFile}] /\ fileOf[p] \in Claimed
  BY DEF CountFile, Running, Inv, TypeOK, FileStates, Finishing, OneReaderPerFile, Active
<1>2. \A q \in Producers : fileOf'[q] # fileOf[p]
  BY <1>1 DEF CountFile, Running, Inv, FileStates, Finishing, OneReaderPerFile
<1>3. fileOf[p] \in Counted'
  BY <1>1, <1>2 DEF CountFile, Counted, Claimed, Active
<1> QED
  BY <1>3

LEMMA ExclusiveKept ==
    ASSUME Inv, Exclusive, [Next]_vars PROVE Exclusive'
<1> SUFFICES ASSUME Counted' = {}
             PROVE  /\ Alone'
                    /\ StackLock' <=> \E t \in Threads : pc'[t] \in InStack
                    /\ \A p \in Producers : pc'[p] # "finish"
  BY DEF Exclusive
<1> DEFINE Locked == StackLock <=> \E t \in Threads : pc[t] \in InStack
           NoFinish == \A p \in Producers : pc[p] # "finish"
<1>0. /\ Alone /\ Locked /\ NoFinish
      /\ pc \in [Threads -> ProducerPcs \cup ConsumerPcs]
      /\ Threads = Producers \cup Consumers /\ Producers \cap Consumers = {}
  BY CountedGrows DEF Exclusive, Inv, TypeOK, Threads
<1> USE DEF Alone
<1>1. ASSUME NEW t \in Threads, Acquire(t) PROVE Alone' /\ Locked' /\ NoFinish'
  BY <1>0, <1>1 DEF Acquire, Running, Goto, InStack
<1>2. ASSUME NEW t \in Threads, CondWait(t) PROVE Alone' /\ Locked' /\ NoFinish'
  BY <1>0, <1>2 DEF CondWait, Running, Goto, InStack
<1>3. ASSUME NEW t \in Threads, SpuriousWakeup(t) \/ LoadStackSize(t)
      PROVE  Alone' /\ Locked' /\ NoFinish'
  BY <1>0, <1>3 DEF SpuriousWakeup, LoadStackSize, Running, Goto, InStack
<1>4. ASSUME NEW p \in Producers, ProducerLoop(p) \/ ClaimFile(p) \/ OpenFile(p)
      PROVE  Alone' /\ Locked' /\ NoFinish'
  BY <1>0, <1>4 DEF ProducerLoop, ClaimFile, OpenFile, Running, Goto, InStack
<1>5. ASSUME NEW p \in Producers, ReadPacket(p) \/ CloseFile(p)
      PROVE  Alone' /\ Locked' /\ NoFinish'
  BY <1>0, <1>5 DEF ReadPacket, CloseFile, Running, Goto, InStack
<1>6. ASSUME NEW p \in Producers, PushCheck(p) \/ PushStore(p) \/ PushCommit(p)
      PROVE  Alone' /\ Locked' /\ NoFinish'
  BY <1>0, <1>6 DEF PushCheck, PushStore, PushCommit, Running, Goto, InStack
<1>7. ASSUME NEW p \in Producers, PushUnlock(p) PROVE Alone' /\ Locked' /\ NoFinish'
  BY <1>0, <1>7 DEF PushUnlock, Broadcast, Running, Goto, InStack
<1>8. ASSUME NEW p \in Producers PROVE ~CountFile(p) /\ ~FinishFile(p)
  <2>1. ~CountFile(p)
    BY CountFileCounts
  <2>2. ~FinishFile(p)
    BY <1>0 DEF FinishFile, Running
  <2> QED
    BY <2>1, <2>2
<1>9. ASSUME NEW c \in Consumers, PopCheck(c) \/ PopCheckDone(c) \/ PopTake(c) \/ PopCommit(c)
      PROVE  Alone' /\ Locked' /\ NoFinish'
  BY <1>0, <1>9 DEF PopCheck, PopCheckDone, PopTake, PopCommit, Running, Goto, InStack
<1>10. ASSUME NEW c \in Consumers, PopTest(c) PROVE Alone' /\ Locked' /\ NoFinish'
  BY <1>0, <1>10 DEF PopTest, Running, Goto, InStack
<1>11. ASSUME NEW c \in Consumers, PopUnlock(c) PROVE Alone' /\ Locked' /\ NoFinish'
  BY <1>0, <1>11 DEF PopUnlock, Broadcast, Running, Goto, InStack
<1>12. ASSUME NEW c \in Consumers, Process(c) \/ ConsumerExit(c)
       PROVE  Alone' /\ Locked' /\ NoFinish'
  BY <1>0, <1>12 DEF Process, ConsumerExit, Broadcast, Running, Goto, InStack
<1>13. ASSUME MainReport \/ UNCHANGED vars PROVE Alone' /\ Locked' /\ NoFinish'
  BY <1>0, <1>13 DEF MainReport, vars
<1> HIDE DEF Alone, Locked, NoFinish
<1>14. ASSUME NEW t \in Threads, Step(t) \/ SpuriousWakeup(t)
       PROVE  Alone' /\ Locked' /\ NoFinish'
  BY <1>14, <1>1, <1>2, <1>3, <1>4, <1>5, <1>6, <1>7, <1>8, <1>9, <1>10, <1>11, <1>12
     DEF Step, Producer, Consumer
<1>15. Alone' /\ Locked' /\ NoFinish'
  BY <1>13, <1>14 DEF Next, Terminated
<1> QED
  BY <1>15 DEF Alone, Locked, NoFinish

LEMMA InitExclusive == Init => Exclusive
<1> SUFFICES ASSUME Init PROVE Exclusive
  OBVIOUS
<1>1. \A t \in Threads : pc[t] \in {"loop", "lock"}
  BY DEF Init
<1> QED
  BY <1>1 DEF Init, Exclusive, Alone, InStack, Threads

(* The critical section of StackLock holds one thread at a time until a    *)
(* file is finished, and the mutex then says whether it does.              *)
THEOREM ExclusionUntilFinished == Spec => []ExclusiveUntilFinished
<1>1. Init => Exclusive
  BY InitExclusive
<1>2. Inv /\ Exclusive /\ [Next]_vars => Exclusive'
  BY ExclusiveKept
<1>3. Inv /\ Exclusive => ExclusiveUntilFinished
  <2> SUFFICES ASSUME Inv, Exclusive, Counted = {}
               PROVE  Cardinality(Inside) = IF StackLock THEN 1 ELSE 0
    BY DEF ExclusiveUntilFinished
  <2>1. CASE StackLock
    <3>1. PICK t \in Threads : pc[t] \in InStack
      BY <2>1 DEF Exclusive
    <3>2. Inside = {t}
      BY <3>1 DEF Exclusive, Alone, Inside
    <3> QED
      BY <2>1, <3>2, FS_Singleton
  <2>2. CASE ~StackLock
    <3>1. Inside = {}
      BY <2>2 DEF Exclusive, Inside
    <3> QED
      BY <2>2, <3>1, FS_EmptySet
  <2> QED
    BY <2>1, <2>2
<1> QED
  BY <1>1, <1>2, <1>3, Invariance, PTL DEF Spec

-----------------------------------------------------------------------------
\* A producer with one of these pcs has a packet.
Carrying == {"lock", "check", "wait", "asleep", "store", "load", "commit"}

Unread == {x \in Packets : x[2] > reads[x[1]]}

(* What a thread knows of the stack and of its packet.  At "test" a        *)
(* consumer has seen a packet, or has seen that all files are done.        *)
ThreadOK(t) ==
    /\ t \in Producers => (pPacket[t] # NoPacket <=> pc[t] \in Carrying)
    /\ t \in Takers => pPacket[t] # NoPacket
    /\ pc[t] = "store" => stackSize < STACK_MAX_SIZE
    /\ pc[t] \in {"load", "commit"} =>
          IF t \in Producers
          THEN stackSize < STACK_MAX_SIZE /\ stack[stackSize] = pPacket[t]
          ELSE stackSize > 0 /\ stack[stackSize - 1] = pPacket[t]
    /\ pc[t] = "commit" => reg[t] = stackSize
    /\ pc[t] = "test" => stackSize > 0 \/ isdone = NumPcapFiles
    /\ pc[t] = "take" => stackSize > 0

\* No packet twice in one place ...
Singly ==
    /\ \A p, q \in Producers : pPacket[p] = pPacket[q] => p = q \/ pPacket[p] = NoPacket
    /\ \A c, d \in Takers : pPacket[c] = pPacket[d] => c = d
    /\ \A i, j \in Slots : stack[i] = stack[j] => i = j
    /\ NoPacket \notin Stacked

\* ... or in two places.
Apart ==
    /\ Unread \cap (Held(Producers) \cup Stacked \cup Taken) = {}
    /\ Held(Producers) \cap (Stacked \cup Taken) = {}
    /\ Stacked \cap Taken = {}

Placed ==
    /\ stackSize \in 0..STACK_MAX_SIZE
    /\ \A t \in Threads : ThreadOK(t)
    /\ Singly
    /\ Apart

Accounts == Counted = {} => Placed

\* The places of the packets, as long as the critical section has one thread.
PInv == Inv /\ Alone /\ Placed

-----------------------------------------------------------------------------
(* The threads.                                                            *)

(* A step changes nothing of another thread but that it may be woken.      *)
LEMMA OthersKept ==
    ASSUME TypeOK, NEW t \in Threads, Step(t) \/ SpuriousWakeup(t),
           NEW u \in Threads \ {t}
    PROVE  /\ pPacket'[u] = pPacket[u] /\ reg'[u] = reg[u]
           /\ pc'[u] = pc[u] \/ (pc[u] = "asleep" /\ pc'[u] = "lock")
<1>0. /\ pc \in [Threads -> ProducerPcs \cup ConsumerPcs]
      /\ pPacket \in [Threads -> Packets \cup {NoPacket}] /\ reg \in [Threads -> Int]
  BY DEF TypeOK
<1> USE <1>0 DEF Goto, Broadcast
<1>1. CASE Acquire(t) \/ CondWait(t) \/ SpuriousWakeup(t) \/ LoadStackSize(t)
  BY <1>1 DEF Acquire, CondWait, SpuriousWakeup, LoadStackSize
<1>2. CASE t \in Producers /\ Producer(t)
  BY <1>2 DEF Producer, ProducerLoop, ClaimFile, OpenFile, ReadPacket, PushCheck,
     PushStore, PushCommit, PushUnlock, CloseFile, CountFile, FinishFile
<1>3. CASE t \in Consumers /\ Consumer(t)
  BY <1>3 DEF Consumer, PopCheck, PopCheckDone, PopTest, PopTake, PopCommit, PopUnlock,
     Process, ConsumerExit
<1> QED
  BY <1>1, <1>2, <1>3 DEF Step

(* Only the thread inside the critical section changes the stack.          *)
StackSteps(t) ==
    \/ t \in Producers /\ (PushStore(t) \/ PushCommit(t))
    \/ t \in Consumers /\ PopCommit(t)

LEMMA StackKept ==
    ASSUME NEW t \in Threads, Step(t) \/ SpuriousWakeup(t), ~StackSteps(t)
    PROVE  UNCHANGED stackVars
BY DEF StackSteps, Step, Producer, Consumer, Acquire, CondWait, SpuriousWakeup,
       LoadStackSize, ProducerLoop, ClaimFile, OpenFile, ReadPacket, PushCheck, PushUnlock,
       CloseFile, CountFile, FinishFile, PopCheck, PopCheckDone, PopTest, PopTake,
       PopUnlock, Process, ConsumerExit, stackVars

(* Once isdone is numPcapFiles no producer has a file left to count.       *)
LEMMA NobodyPushes ==
    ASSUME Inv, Counted = Files, NEW p \in Producers
    PROVE  pc[p] \notin Pushing \cup Finishing
<1>1. ASSUME pc[p] \in Pushing \cup Finishing PROVE fileOf[p] \in Files \cap Active
  BY <1>1 DEF Inv, TypeOK, FileStates, Active
<1> QED
  BY <1>1 DEF Counted

LEMMA AllDoneStays ==
    ASSUME Inv, isdone = NumPcapFiles, NEW t \in Threads, Step(t) \/ SpuriousWakeup(t)
    PROVE  isdone' = isdone
<1>1. Counted = Files
  BY CountedFiles DEF Inv, FileStates
<1>2. ~(t \in Producers /\ CountFile(t))
  BY <1>1, NobodyPushes DEF CountFile, Running, Finishing
<1> QED
  BY <1>2 DEF Step, Producer, Consumer, Acquire, CondWait, SpuriousWakeup,
     LoadStackSize, ProducerLoop, ClaimFile, OpenFile, ReadPacket, PushCheck, PushStore,
     PushCommit, PushUnlock, CloseFile, FinishFile, PopCheck, PopCheckDone, PopTest,
     PopTake, PopCommit, PopUnlock, Process, ConsumerExit, fileVars

LEMMA OthersOK ==
    ASSUME PInv, NEW t \in Threads, Step(t) \/ SpuriousWakeup(t),
           NEW u \in Threads \ {t}
    PROVE  ThreadOK(u)'
<1>1. ThreadOK(u) /\ TypeOK
  BY DEF PInv, Placed, Inv
<1>2. /\ pPacket'[u] = pPacket[u] /\ reg'[u] = reg[u]
      /\ pc'[u] = pc[u] \/ (pc[u] = "asleep" /\ pc'[u] = "lock")
  BY <1>1, OthersKept
<1>3. CASE StackSteps(t)
  <2>1. pc[t] \in InStack
    BY <1>3 DEF StackSteps, PushStore, PushCommit, PopCommit, Running, InStack
  <2>2. pc[u] \notin InStack
    BY <2>1 DEF PInv, Alone
  <2> QED
    BY <1>1, <1>2, <2>2 DEF ThreadOK, InStack, Takers, Carrying
<1>4. CASE UNCHANGED stackVars
  <2>1. isdone = NumPcapFiles => isdone' = NumPcapFiles
    BY AllDoneStays DEF PInv
  <2> QED
    BY <1>1, <1>2, <1>4, <2>1 DEF ThreadOK, Takers, Carrying, stackVars
<1> QED
  BY <1>3, <1>4, StackKept

LEMMA ActorOK ==
    ASSUME PInv, NEW t \in Threads, Step(t) \/ SpuriousWakeup(t)
    PROVE  ThreadOK(t)' /\ stackSize' \in 0..STACK_MAX_SIZE
<1>a. TypeOK /\ FileStates /\ ThreadOK(t) /\ stackSize \in 0..STACK_MAX_SIZE
  BY DEF PInv, Placed, Inv
<1>b. /\ pc \in [Threads -> ProducerPcs \cup ConsumerPcs]
      /\ pPacket \in [Threads -> Packets \cup {NoPacket}] /\ reg \in [Threads -> Int]
      /\ stack \in [0..(STACK_MAX_SIZE - 1) -> Packets \cup {NoPacket}]
  BY <1>a DEF TypeOK
<1>c. /\ Threads = Producers \cup Consumers /\ Producers \cap Consumers = {}
      /\ NoPacket \notin Packets /\ STACK_MAX_SIZE \in Nat
  BY DEF Threads
<1> USE <1>a, <1>b, <1>c DEF Running, Goto, stackVars, fileVars, Takers, Carrying
<1>1. CASE Acquire(t) \/ CondWait(t) \/ SpuriousWakeup(t)
  BY <1>1 DEF Acquire, CondWait, SpuriousWakeup, ThreadOK
<1>2. CASE LoadStackSize(t)
  BY <1>2 DEF LoadStackSize, ThreadOK
<1>3. CASE t \in Producers /\ Producer(t)
  <2> USE <1>3
  <2>1. CASE ProducerLoop(t) \/ ClaimFile(t) \/ OpenFile(t)
    BY <2>1 DEF ProducerLoop, ClaimFile, OpenFile, ThreadOK
  <2>2. CASE ReadPacket(t)
    <3>1. fileOf[t] \in Files
      BY <2>2 DEF ReadPacket, FileStates, Pushing, TypeOK
    <3>2. reads[fileOf[t]] # Reads[fileOf[t]] => readNextPacket(fileOf[t]) # NoPacket
      BY <3>1, ReadPacketType
    <3> QED
      BY <2>2, <3>2 DEF ReadPacket, ThreadOK
  <2>3. CASE PushCheck(t)
    BY <2>3 DEF PushCheck, ThreadOK
  <2>4. CASE PushStore(t)
    BY <2>4 DEF PushStore, ThreadOK
  <2>5. CASE PushCommit(t)
    BY <2>5 DEF PushCommit, ThreadOK
  <2>6. CASE PushUnlock(t) \/ FinishFile(t)
    BY <2>6 DEF PushUnlock, FinishFile, Broadcast, ThreadOK
  <2>7. CASE CloseFile(t) \/ CountFile(t)
    BY <2>7 DEF CloseFile, CountFile, ThreadOK
  <2> QED
    BY <2>1, <2>2, <2>3, <2>4, <2>5, <2>6, <2>7 DEF Producer
<1>4. CASE t \in Consumers /\ Consumer(t)
  <2> USE <1>4
  <2>1. CASE PopCheck(t) \/ PopCheckDone(t)
    BY <2>1 DEF PopCheck, PopCheckDone, ThreadOK
  <2>2. CASE PopTest(t)
    BY <2>2 DEF PopTest, ThreadOK
  <2>3. CASE PopTake(t)
    BY <2>3 DEF PopTake, ThreadOK
  <2>4. CASE PopCommit(t)
    <3>1. stackSize - 1 \in Slots /\ pPacket[t] = stack[stackSize - 1]
      BY <2>4 DEF PopCommit, ThreadOK, Slots
    <3>2. pPacket[t] # NoPacket
      BY <3>1 DEF PInv, Placed, Singly, Stacked
    <3> QED
      BY <2>4, <3>1, <3>2 DEF PopCommit, ThreadOK
  <2>5. CASE PopUnlock(t) \/ ConsumerExit(t)
    BY <2>5 DEF PopUnlock, ConsumerExit, Broadcast, ThreadOK
  <2>6. CASE Process(t)
    BY <2>6 DEF Process, ThreadOK
  <2> QED
    BY <2>1, <2>2, <2>3, <2>4, <2>5, <2>6 DEF Consumer
<1> QED
  BY <1>1, <1>2, <1>3, <1>4 DEF Step

-----------------------------------------------------------------------------
(* The packets.  Four steps move one, from one place to the next; the      *)
(* first of them from the file to the hands of its reader.                 *)
Stays == Unpushed' = Unpushed /\ Stacked' = Stacked /\ Taken' = Taken

LEMMA QuietPlaces ==
    ASSUME Singly, Apart, reads' = reads,
           \A p \in Producers : pPacket'[p] = pPacket[p],
           Slots' = Slots, \A i \in Slots : stack'[i] = stack[i],
           Takers' = Takers, \A c \in Takers : pPacket'[c] = pPacket[c]
    PROVE  Singly' /\ Apart' /\ Stays
<1>1. Unread' = Unread
  BY DEF Unread
<1>2. Held(Producers)' = Held(Producers)
  BY DEF Held
<1>3. Stacked' = Stacked
  BY DEF Stacked
<1>4. Taken' = Taken
  BY DEF Taken, Held
<1>5. Singly'
  BY <1>3 DEF Singly
<1> QED
  BY <1>1, <1>2, <1>3, <1>4, <1>5 DEF Apart, Stays, Unpushed, Unread

LEMMA ReadMoves ==
    ASSUME PInv, NEW p \in Producers, ReadPacket(p),
           reads[fileOf[p]] # Reads[fileOf[p]]
    PROVE  Singly' /\ Apart' /\ Stays
<1> DEFINE f == fileOf[p]
           x == readNextPacket(f)
<1>1. /\ pPacket \in [Threads -> Packets \cup {NoPacket}] /\ p \in Threads
      /\ pc \in [Threads -> ProducerPcs \cup ConsumerPcs]
      /\ reads \in [Files -> Nat] /\ f \in Files /\ x \in Packets
      /\ NoPacket \notin Packets /\ Threads = Producers \cup Consumers
      /\ Producers \cap Consumers = {}
  <2>1. f \in Files
    BY DEF PInv, Inv, ReadPacket, Running, FileStates, Pushing, TypeOK
  <2>2. x \in Packets
    BY <2>1, ReadPacketType DEF PInv, Inv
  <2> QED
    BY <2>1, <2>2 DEF PInv, Inv, TypeOK, Threads
<1>2. /\ reads' = [reads EXCEPT ![f] = @ + 1] /\ pPacket' = [pPacket EXCEPT ![p] = x]
      /\ stack' = stack /\ stackSize' = stackSize /\ pc' = [pc EXCEPT ![p] = "lock"]
      /\ pPacket[p] = NoPacket
  BY DEF ReadPacket, Running, Goto, stackVars, PInv, Placed, ThreadOK, Carrying, Threads
<1>3. x = <<f, reads[f] + 1>>
  BY DEF readNextPacket
<1>4. x \in Unread /\ Unread' = Unread \ {x}
  <2>1. x \in Unread
    BY <1>1, <1>3 DEF Unread
  <2>2. ASSUME NEW y \in Unread'
        PROVE  y \in Unread /\ y # x
    <3>1. y \in Packets /\ y[2] > reads'[y[1]]
      BY <2>2 DEF Unread
    <3>2. PICK g \in Files : y \in {g} \X (1..Reads[g])
      BY <3>1 DEF Packets
    <3>3. y[1] \in Files /\ y[2] \in Nat
      BY <3>2
    <3>4. CASE y[1] = f
      <4>1. y[2] > reads[f] + 1
        BY <1>1, <1>2, <3>1, <3>4
      <4> QED
        BY <1>1, <1>3, <3>1, <3>3, <3>4, <4>1 DEF Unread
    <3>5. CASE y[1] # f
      <4>1. reads'[y[1]] = reads[y[1]]
        BY <1>1, <1>2, <3>3, <3>5
      <4> QED
        BY <1>3, <3>1, <3>5, <4>1 DEF Unread
    <3> QED
      BY <3>4, <3>5
  <2>3. ASSUME NEW y \in Unread, y # x
        PROVE  y \in Unread'
    <3>1. y \in Packets /\ y[2] > reads[y[1]]
      BY DEF Unread
    <3>2. PICK g \in Files : y \in {g} \X (1..Reads[g])
      BY <3>1 DEF Packets
    <3>3. y = <<y[1], y[2]>> /\ y[1] \in Files /\ y[2] \in Nat
      BY <3>2
    <3>4. y[1] = f => y[2] # reads[f] + 1
      BY <1>3, <2>3, <3>3
    <3>5. y[2] > reads'[y[1]]
      BY <1>1, <1>2, <3>1, <3>3, <3>4
    <3> QED
      BY <3>1, <3>5 DEF Unread
  <2> QED
    BY <2>1, <2>2, <2>3
<1>5. /\ Takers' = Takers /\ \A c \in Takers : pPacket'[c] = pPacket[c]
      /\ Slots' = Slots
  BY <1>1, <1>2 DEF Takers, Slots
<1>6. Stacked' = Stacked /\ Taken' = Taken
  BY <1>2, <1>5 DEF Stacked, Taken, Held
<1>7. pPacket'[p] = x /\ \A q \in Producers \ {p} : pPacket'[q] = pPacket[q]
  BY <1>1, <1>2
<1>8. Held(Producers)' = Held(Producers) \cup {x}
  BY <1>1, <1>2, <1>7 DEF Held
<1>9. Singly /\ Apart
  BY DEF PInv, Placed
<1>10. \A q \in Producers : pPacket[q] # x
  BY <1>1, <1>4, <1>9 DEF Apart, Held
<1>11. Singly'
  BY <1>2, <1>5, <1>6, <1>7, <1>9, <1>10 DEF Singly
<1>12. Stays
  BY <1>4, <1>6, <1>8 DEF Stays, Unpushed, Unread
<1> QED
  BY <1>4, <1>6, <1>8, <1>9, <1>11, <1>12 DEF Apart

LEMMA PushMoves ==
    ASSUME PInv, NEW p \in Producers, PushCommit(p)
    PROVE  /\ Singly' /\ Apart' /\ stackSize < STACK_MAX_SIZE
           /\ pPacket[p] \in Unpushed /\ Unpushed' = Unpushed \ {pPacket[p]}
           /\ Stacked' = Stacked \cup {pPacket[p]} /\ Taken' = Taken
<1> DEFINE x == pPacket[p]
<1>1. /\ pPacket \in [Threads -> Packets \cup {NoPacket}] /\ p \in Threads
      /\ pc \in [Threads -> ProducerPcs \cup ConsumerPcs]
      /\ stack \in [0..(STACK_MAX_SIZE - 1) -> Packets \cup {NoPacket}]
      /\ Threads = Producers \cup Consumers /\ Producers \cap Consumers = {}
      /\ STACK_MAX_SIZE \in Nat
  BY DEF PInv, Inv, TypeOK, Threads
<1>2. ThreadOK(p) /\ Singly /\ Apart /\ stackSize \in 0..STACK_MAX_SIZE
  BY <1>1 DEF PInv, Placed
<1>3. /\ stackSize < STACK_MAX_SIZE /\ stack[stackSize] = x /\ x # NoPacket
      /\ reg[p] = stackSize
  BY <1>2 DEF PushCommit, Running, ThreadOK, Carrying
<1>4. /\ stackSize' = stackSize + 1 /\ pPacket' = [pPacket EXCEPT ![p] = NoPacket]
      /\ pc' = [pc EXCEPT ![p] = "unlock"] /\ stack' = stack /\ reads' = reads
  BY <1>3 DEF PushCommit, Goto, fileVars
<1>5. Slots' = Slots \cup {stackSize}
  BY <1>1, <1>2, <1>3, <1>4 DEF Slots
<1>6. Stacked' = Stacked \cup {x}
  BY <1>3, <1>4, <1>5 DEF Stacked
<1>7. Takers' = Takers /\ \A c \in Takers : pPacket'[c] = pPacket[c]
  BY <1>1, <1>4 DEF Takers
<1>8. Taken' = Taken /\ Unread' = Unread
  BY <1>4, <1>7 DEF Taken, Held, Unread
<1>9. pPacket'[p] = NoPacket /\ \A q \in Producers \ {p} : pPacket'[q] = pPacket[q]
  BY <1>1, <1>4
<1>10. \A q \in Producers \ {p} : pPacket[q] # x
  BY <1>2, <1>3 DEF Singly
<1>11. Held(Producers)' = Held(Producers) \ {x} /\ x \in Held(Producers)
  BY <1>3, <1>9, <1>10 DEF Held
<1>12. \A i \in Slots : stack[i] # x
  BY <1>2, <1>11 DEF Apart, Stacked
<1>13. Singly'
  BY <1>2, <1>3, <1>4, <1>5, <1>6, <1>7, <1>9, <1>12 DEF Singly
<1>14. x \in Unpushed /\ Unpushed' = Unpushed \ {x}
  BY <1>2, <1>8, <1>11 DEF Unpushed, Unread, Apart
<1> QED
  BY <1>2, <1>3, <1>6, <1>8, <1>11, <1>13, <1>14 DEF Apart

LEMMA PopMoves ==
    ASSUME PInv, NEW c \in Consumers, PopCommit(c)
    PROVE  /\ Singly' /\ Apart' /\ Unpushed' = Unpushed
           /\ pPacket[c] \in Stacked /\ Stacked' = Stacked \ {pPacket[c]}
           /\ Taken' = Taken \cup {pPacket[c]}
<1> DEFINE x == pPacket[c]
           i == stackSize - 1
<1>1. /\ pc \in [Threads -> ProducerPcs \cup ConsumerPcs] /\ c \in Threads
      /\ stack \in [0..(STACK_MAX_SIZE - 1) -> Packets \cup {NoPacket}]
      /\ Threads = Producers \cup Consumers /\ Producers \cap Consumers = {}
      /\ STACK_MAX_SIZE \in Nat
  BY DEF PInv, Inv, TypeOK, Threads
<1>2. ThreadOK(c) /\ Singly /\ Apart /\ stackSize \in 0..STACK_MAX_SIZE
  BY <1>1 DEF PInv, Placed
<1>3. /\ i \in Slots /\ stack[i] = x /\ reg[c] = stackSize /\ pc[c] = "commit"
  BY <1>1, <1>2 DEF PopCommit, Running, ThreadOK, Slots
<1>4. /\ stackSize' = i /\ pPacket' = pPacket
      /\ pc' = [pc EXCEPT ![c] = "unlock"] /\ stack' = stack /\ reads' = reads
  BY <1>3 DEF PopCommit, Goto, fileVars
<1>5. Slots' = Slots \ {i}
  BY <1>1, <1>2, <1>3, <1>4 DEF Slots
<1>6. \A j \in Slots \ {i} : stack[j] # x
  BY <1>2, <1>3 DEF Singly
<1>7. Stacked' = Stacked \ {x} /\ x \in Stacked
  BY <1>3, <1>4, <1>5, <1>6 DEF Stacked
<1>8. x # NoPacket
  BY <1>2, <1>7 DEF Singly
<1>9. Takers' = Takers \cup {c} /\ c \notin Takers
  BY <1>1, <1>3, <1>4 DEF Takers
<1>10. Taken' = Taken \cup {x}
  BY <1>4, <1>8, <1>9 DEF Taken, Held
<1>11. Held(Producers)' = Held(Producers) /\ Unread' = Unread
  BY <1>4 DEF Held, Unread
<1>12. \A d \in Takers : pPacket[d] # x
  BY <1>2, <1>7, <1>8 DEF Apart, Taken, Held
<1>13. Singly'
  BY <1>2, <1>4, <1>5, <1>7, <1>9, <1>12 DEF Singly
<1>14. Unpushed' = Unpushed
  BY <1>11 DEF Unpushed, Unread
<1> QED
  BY <1>2, <1>7, <1>10, <1>11, <1>13, <1>14 DEF Apart

LEMMA ProcessMoves ==
    ASSUME PInv, NEW c \in Consumers, Process(c), ~IsNull(pPacket[c])
    PROVE  /\ Singly' /\ Apart' /\ Unpushed' = Unpushed /\ Stacked' = Stacked
           /\ pPacket[c] \in Taken /\ Taken' = Taken \ {pPacket[c]}
<1> DEFINE x == pPacket[c]
<1>1. /\ pc \in [Threads -> ProducerPcs \cup ConsumerPcs] /\ c \in Threads
      /\ pPacket \in [Threads -> Packets \cup {NoPacket}]
      /\ Threads = Producers \cup Consumers /\ Producers \cap Consumers = {}
  BY DEF PInv, Inv, TypeOK, Threads
<1>2. Singly /\ Apart /\ ThreadOK(c)
  BY <1>1 DEF PInv, Placed
<1>3. /\ pPacket' = [pPacket EXCEPT ![c] = NoPacket] /\ pc' = [pc EXCEPT ![c] = "lock"]
      /\ c \in Takers /\ UNCHANGED <<stack, stackSize, reads>>
  BY DEF Process, Running, Goto, Takers, stackVars, fileVars
<1>4. Takers' = Takers \ {c} /\ \A d \in Takers \ {c} : pPacket'[d] = pPacket[d]
  BY <1>1, <1>3 DEF Takers
<1>5. x \in Taken /\ Taken' = Taken \ {x}
  <2>1. x # NoPacket
    BY <1>2, <1>3 DEF ThreadOK
  <2>2. \A d \in Takers \ {c} : pPacket[d] # x
    BY <1>2, <1>3 DEF Singly
  <2> QED
    BY <1>3, <1>4, <2>1, <2>2 DEF Taken, Held
<1>6. Slots' = Slots /\ Unread' = Unread
  BY <1>3 DEF Slots, Unread
<1>7. \A p \in Producers : pPacket'[p] = pPacket[p]
  BY <1>1, <1>3
<1>8. Held(Producers)' = Held(Producers)
  BY <1>7 DEF Held
<1>9. Stacked' = Stacked
  BY <1>3, <1>6 DEF Stacked
<1>10. Singly'
  BY <1>2, <1>3, <1>4, <1>6, <1>7, <1>9 DEF Singly
<1>11. Unpushed' = Unpushed
  BY <1>6, <1>8 DEF Unpushed, Unread
<1> QED
  BY <1>2, <1>5, <1>6, <1>8, <1>9, <1>10, <1>11 DEF Apart

(* All other steps leave every packet where it is.                         *)
Moves(t) ==
    \/ t \in Producers /\ ReadPacket(t) /\ reads[fileOf[t]] # Reads[fileOf[t]]
    \/ t \in Producers /\ PushCommit(t)
    \/ t \in Consumers /\ PopCommit(t)
    \/ t \in Consumers /\ Process(t) /\ ~IsNull(pPacket[t])

LEMMA OthersMoveNothing ==
    ASSUME PInv, NEW t \in Threads, Step(t) \/ SpuriousWakeup(t), ~Moves(t)
    PROVE  Singly' /\ Apart' /\ Stays
<1>1. /\ pc \in [Threads -> ProducerPcs \cup ConsumerPcs]
      /\ pPacket \in [Threads -> Packets \cup {NoPacket}]
      /\ stack \in [0..(STACK_MAX_SIZE - 1) -> Packets \cup {NoPacket}]
      /\ Threads = Producers \cup Consumers /\ Producers \cap Consumers = {}
      /\ STACK_MAX_SIZE \in Nat
  BY DEF PInv, Inv, TypeOK, Threads
<1>2. Singly /\ Apart /\ stackSize \in 0..STACK_MAX_SIZE
  BY DEF PInv, Placed
<1> DEFINE Same == /\ reads' = reads /\ stackSize' = stackSize
                   /\ \A p \in Producers : pPacket'[p] = pPacket[p]
                   /\ Takers' = Takers /\ \A c \in Takers : pPacket'[c] = pPacket[c]
<1>3. Same
  <2> USE <1>1 DEF Running, Goto, Broadcast, Takers, stackVars, fileVars
  <2>1. CASE Acquire(t) \/ CondWait(t) \/ SpuriousWakeup(t) \/ LoadStackSize(t)
    BY <2>1 DEF Acquire, CondWait, SpuriousWakeup, LoadStackSize
  <2>2. CASE t \in Producers /\ Producer(t)
    <3> USE <2>2
    <3>1. CASE ProducerLoop(t) \/ ClaimFile(t) \/ OpenFile(t) \/ PushCheck(t)
      BY <3>1 DEF ProducerLoop, ClaimFile, OpenFile, PushCheck
    <3>2. CASE ReadPacket(t)
      BY <3>2 DEF ReadPacket, Moves
    <3>3. CASE PushStore(t) \/ CloseFile(t) \/ CountFile(t)
      BY <3>3 DEF PushStore, CloseFile, CountFile
    <3>4. CASE PushUnlock(t) \/ FinishFile(t)
      BY <3>4 DEF PushUnlock, FinishFile
    <3>5. ~PushCommit(t)
      BY DEF Moves
    <3> QED
      BY <3>1, <3>2, <3>3, <3>4, <3>5 DEF Producer
  <2>3. CASE t \in Consumers /\ Consumer(t)
    <3> USE <2>3
    <3>1. CASE PopCheck(t) \/ PopCheckDone(t) \/ PopTest(t) \/ PopTake(t)
      BY <3>1 DEF PopCheck, PopCheckDone, PopTest, PopTake
    <3>2. CASE PopUnlock(t) \/ ConsumerExit(t)
      BY <3>2 DEF PopUnlock, ConsumerExit
    <3>3. CASE Process(t)
      BY <3>3 DEF Process, Moves
    <3>4. ~PopCommit(t)
      BY DEF Moves
    <3> QED
      BY <3>1, <3>2, <3>3, <3>4 DEF Consumer
  <2> QED
    BY <2>1, <2>2, <2>3 DEF Step
<1> HIDE DEF Same
<1>4. CASE t \in Producers /\ PushStore(t)
  <2>1. stackSize \notin Slots
    BY <1>2 DEF Slots
  <2>2. Slots' = Slots /\ \A i \in Slots : stack'[i] = stack[i]
    BY <1>1, <1>4, <2>1 DEF PushStore, Slots
  <2> QED
    BY <1>2, <1>3, <2>2, QuietPlaces DEF Same
<1>5. CASE ~(t \in Producers /\ PushStore(t))
  <2>1. ~StackSteps(t)
    BY <1>5 DEF StackSteps, Moves
  <2>2. UNCHANGED stackVars
    BY <2>1, StackKept
  <2>3. Slots' = Slots /\ \A i \in Slots : stack'[i] = stack[i]
    BY <2>2 DEF Slots, stackVars
  <2> QED
    BY <1>2, <1>3, <2>3, QuietPlaces DEF Same
<1> QED
  BY <1>4, <1>5

-----------------------------------------------------------------------------
(* As long as the critical section has one thread, every step leaves every *)
(* packet in one place.                                                    *)
LEMMA PlacedKept ==
    ASSUME PInv, [Next]_vars PROVE Placed'
<1>1. ASSUME NEW t \in Threads, Step(t) \/ SpuriousWakeup(t)
      PROVE  Placed'
  <2>1. \A u \in Threads : ThreadOK(u)'
    BY <1>1, OthersOK, ActorOK
  <2>2. stackSize' \in 0..STACK_MAX_SIZE
    BY <1>1, ActorOK
  <2>3. Singly' /\ Apart'
    BY <1>1, OthersMoveNothing, ReadMoves, PushMoves, PopMoves, ProcessMoves DEF Moves
  <2> QED
    BY <2>1, <2>2, <2>3 DEF Placed
<1>2. CASE MainReport \/ UNCHANGED vars
  <2>1. UNCHANGED <<stack, stackSize, isdone, pPacket, reg, pc, reads>>
    BY <1>2 DEF MainReport, vars, stackVars, fileVars
  <2>2. Placed
    BY DEF PInv
  <2>3. \A t \in Threads : ThreadOK(t)'
    BY <2>1, <2>2 DEF ThreadOK, Takers, Placed
  <2>4. Slots' = Slots /\ Takers' = Takers
    BY <2>1 DEF Slots, Takers
  <2>5. Singly' /\ Apart'
    BY <2>1, <2>2, <2>4, QuietPlaces DEF Placed
  <2> QED
    BY <2>1, <2>2, <2>3, <2>5 DEF Placed
<1> QED
  BY <1>1, <1>2 DEF Next, Terminated

LEMMA AccountsKept ==
    ASSUME Inv, Exclusive, Accounts, [Next]_vars PROVE Accounts'
BY CountedGrows, PlacedKept DEF Accounts, Exclusive, PInv

LEMMA InitPlaced == Init => Placed
<1> SUFFICES ASSUME Init PROVE Placed
  OBVIOUS
<1>0. Threads = Producers \cup Consumers /\ Producers \cap Consumers = {}
  BY DEF Threads
<1>1. stackSize \in 0..STACK_MAX_SIZE
  BY DEF Init
<1>2. Slots = {} /\ Takers = {} /\ \A t \in Threads : pPacket[t] = NoPacket
  BY <1>0 DEF Init, Slots, Takers
<1>3. Stacked = {} /\ Taken = {} /\ Held(Producers) = {}
  BY <1>0, <1>2 DEF Stacked, Taken, Held
<1>4. \A t \in Threads : ThreadOK(t)
  BY <1>0, <1>2 DEF Init, ThreadOK, Carrying
<1>5. Singly /\ Apart
  BY <1>0, <1>2, <1>3 DEF Singly, Apart
<1> QED
  BY <1>1, <1>4, <1>5 DEF Placed

(* Until the first file is finished, every packet is unread or in a        *)
(* producer's hands, in one slot of the stack, in one consumer's hands, or *)
(* processed, and stackSize stays within the stack.                        *)
THEOREM AccountingHolds == Spec => []AccountingUntilFinished
<1>1. Inv /\ Exclusive /\ Accounts => AccountingUntilFinished
  BY DEF Accounts, Placed, Singly, Apart, Unread, Unpushed, AccountingUntilFinished
<1>2. Inv /\ Exclusive /\ Accounts /\ [Next]_vars => Accounts'
  BY AccountsKept
<1>3. Inv /\ Exclusive /\ [Next]_vars => Exclusive'
  BY ExclusiveKept
<1>4. Init => Exclusive
  BY InitExclusive
<1>5. Init => Accounts
  BY InitPlaced DEF Accounts
<1> QED
  BY <1>1, <1>2, <1>3, <1>4, <1>5, Invariance, PTL DEF Spec

-----------------------------------------------------------------------------
(* One producer, one consumer and one file: the stray unlock comes when    *)
(* the lone producer has nothing left to push, so the critical section     *)
(* keeps its one thread, and the program implements the work pool.         *)
Solo == NThreads = 2 /\ NumPcapFiles = 1

LEMMA SoloThreads ==
    ASSUME Solo
    PROVE  /\ \E p : Producers = {p}
           /\ \E c : Consumers = {c}
           /\ Files = {0}
<1>1. Cardinality(Producers) = 1 /\ Cardinality(Consumers) = 1
  BY DEF Solo, nThreadsProducers, nThreadsConsumers
<1>2. Files = {0}
  BY DEF Solo, Files
<1> QED
  BY <1>1, <1>2, FS_Singleton

LEMMA SoloAlone ==
    ASSUME Solo, Inv, Exclusive
    PROVE  Alone
<1>1. CASE Counted = {}
  BY <1>1 DEF Exclusive
<1>2. CASE Counted # {}
  <2>1. Counted = Files
    BY <1>2, SoloThreads, CountedFiles DEF Inv
  <2>2. ASSUME NEW p \in Producers PROVE pc[p] \notin InStack
    BY <2>1, NobodyPushes DEF Inv, TypeOK, ProducerPcs, InStack, Pushing
  <2>3. PICK c : Consumers = {c}
    BY SoloThreads
  <2> QED
    BY <2>2, <2>3 DEF Alone, Threads
<1> QED
  BY <1>1, <1>2

\* A consumer that leaves leaves nothing on the stack.
Emptied == (\E c \in Consumers : pc[c] \in Leaving) => stackSize <= 0

LEMMA EmptiedKept ==
    ASSUME PInv, Emptied, [Next]_vars
    PROVE  Emptied'
<1>0. /\ pc \in [Threads -> ProducerPcs \cup ConsumerPcs] /\ Inv
      /\ Threads = Producers \cup Consumers /\ Producers \cap Consumers = {}
  BY DEF PInv, Inv, TypeOK, Threads
<1>1. ASSUME NEW p \in Producers, PushCommit(p)
      PROVE  Emptied'
  <2>1. \A c \in Consumers : pc[c] \notin Leaving
    BY <1>0, <1>1, NobodyPushes DEF Inv, ConsumersLeaveLast, Leaving, PushCommit, Running, Pushing
  <2> QED
    BY <1>0, <1>1, <2>1 DEF PushCommit, Goto, Emptied, Leaving
<1>2. ASSUME NEW c \in Consumers, PopCommit(c)
      PROVE  Emptied'
  <2>1. stackSize \in Nat /\ stackSize' = stackSize - 1
    BY <1>2 DEF PInv, Placed, ThreadOK, PopCommit, Running, Threads
  <2>2. \A d \in Consumers : pc'[d] \in Leaving => pc[d] \in Leaving
    BY <1>0, <1>2 DEF PopCommit, Goto, Leaving
  <2> QED
    BY <2>1, <2>2 DEF Emptied
<1>3. ASSUME NEW c \in Consumers, PopTest(c)
      PROVE  Emptied'
  BY <1>0, <1>3 DEF PopTest, Goto, Emptied, Leaving, stackVars
<1>4. ASSUME NEW t \in Threads, Step(t) \/ SpuriousWakeup(t),
             ~(t \in Producers /\ PushCommit(t)),
             ~(t \in Consumers /\ (PopCommit(t) \/ PopTest(t)))
      PROVE  Emptied'
  <2>1. stackSize' = stackSize
    BY <1>4, StackKept DEF StackSteps, PushStore, stackVars
  <2>2. CASE t \in Producers /\ (ProducerLoop(t) \/ ClaimFile(t) \/ ReadPacket(t)
                                   \/ CloseFile(t) \/ CountFile(t) \/ FinishFile(t))
    BY <1>0, <2>1, <2>2 DEF ProducerLoop, ClaimFile, ReadPacket, CloseFile, CountFile, FinishFile,
       Goto, Broadcast, Emptied, Leaving
  <2>3. CASE Quiet
    BY <2>1, <2>3 DEF Quiet, Emptied
  <2> QED
    BY <1>0, <1>4, <2>2, <2>3, QuietSteps DEF Step, Producer, Consumer
<1>5. CASE MainReport \/ UNCHANGED vars
  BY <1>5 DEF MainReport, vars, stackVars, Emptied
<1> QED
  BY <1>1, <1>2, <1>3, <1>4, <1>5 DEF Next, Terminated

-----------------------------------------------------------------------------
(* Each step of the program is one of the work pool's, or none of them.    *)

\* There are no more packets on the stack than filled slots.
LEMMA StackedSize ==
    ASSUME PInv PROVE Cardinality(Stacked) \in Nat /\ Cardinality(Stacked) <= stackSize
<1>1. stackSize \in 0..STACK_MAX_SIZE /\ DOMAIN stack = 0..(STACK_MAX_SIZE - 1)
  BY DEF PInv, Placed, Inv, TypeOK
<1>2. Slots = 0..(stackSize - 1)
  BY <1>1 DEF Slots
<1>3. IsFiniteSet(Slots) /\ Cardinality(Slots) = stackSize
  BY <1>1, <1>2, FS_Interval
<1> DEFINE f == [i \in Slots |-> stack[i]]
<1>4. f \in Surjection(Slots, Stacked)
  BY DEF Surjection, Stacked
<1>5. IsFiniteSet(Stacked) /\ Cardinality(Stacked) <= Cardinality(Slots)
  BY <1>3, <1>4, FS_Surjection
<1> QED
  BY <1>3, <1>5, FS_CardinalityType

\* The work pool counts as this module does.
LEMMA PoolCardinality == \A S : Pool!Cardinality(S) = Cardinality(S)
BY DEF Pool!Cardinality, Cardinality

LEMMA StepsRun ==
    ASSUME NEW t \in Threads, Step(t) \/ SpuriousWakeup(t)
    PROVE  ended = "no" /\ ended' # "reported"
<1> USE DEF Running
<1>1. CASE Acquire(t) \/ CondWait(t) \/ SpuriousWakeup(t) \/ LoadStackSize(t)
  BY <1>1 DEF Acquire, CondWait, SpuriousWakeup, LoadStackSize
<1>2. CASE t \in Producers /\ Producer(t)
  BY <1>2 DEF Producer, ProducerLoop, ClaimFile, OpenFile, ReadPacket, PushCheck,
     PushStore, PushCommit, PushUnlock, CloseFile, CountFile, FinishFile
<1>3. CASE t \in Consumers /\ Consumer(t)
  BY <1>3 DEF Consumer, PopCheck, PopCheckDone, PopTest, PopTake, PopCommit, PopUnlock,
     Process, ConsumerExit
<1> QED
  BY <1>1, <1>2, <1>3 DEF Step

(* A thread's step submits, takes or finishes one packet, or does nothing  *)
(* to the work pool.                                                       *)
LEMMA StepSimulates ==
    ASSUME PInv, NEW t \in Threads, Step(t) \/ SpuriousWakeup(t)
    PROVE  [Pool!WPNext]_Pool!wpVars
<1> DEFINE x == pPacket[t]
<1>1. (ended = "reported") = FALSE /\ (ended' = "reported") = FALSE
  BY StepsRun
<1>2. Apart /\ Apart' /\ x \in Packets \cup {NoPacket} /\ NoPacket \notin Packets
  BY OthersMoveNothing, ReadMoves, PushMoves, PopMoves, ProcessMoves
     DEF Moves, PInv, Placed, Inv, TypeOK
<1>3. CASE Stays
  BY <1>1, <1>3 DEF Stays, Done, Pool!wpVars
<1>4. CASE t \in Producers /\ PushCommit(t)
  <2>1. Unpushed \subseteq Packets \cup {NoPacket}
    BY DEF PInv, Inv, TypeOK, Unpushed, Held, Threads
  <2>2. /\ x \in Unpushed /\ Unpushed' = Unpushed \ {x}
        /\ Stacked' = Stacked \cup {x} /\ Taken' = Taken
    BY <1>4, PushMoves
  <2>3. x \in Packets
    BY <1>2, <2>2 DEF Unpushed, Held
  <2>4. Cardinality(Stacked) < STACK_MAX_SIZE
    <3>1. stackSize \in Nat /\ stackSize < STACK_MAX_SIZE
      BY <1>4, PushMoves DEF PInv, Placed
    <3> QED
      BY <3>1, StackedSize
  <2>5. Done' = Done
    BY <2>2 DEF Done
  <2>6. Pool!Submit(x)
    BY <1>1, <2>2, <2>4, <2>5, PoolCardinality DEF Pool!Submit
  <2> QED
    BY <2>3, <2>6 DEF Pool!WPNext
<1>5. CASE t \in Consumers /\ PopCommit(t)
  <2>1. /\ x \in Stacked /\ Stacked' = Stacked \ {x}
        /\ Taken' = Taken \cup {x} /\ Unpushed' = Unpushed
    BY <1>5, PopMoves
  <2>2. x \in Packets
    BY <1>2, <2>1 DEF PInv, Placed, Singly
  <2>3. Done' = Done
    BY <2>1 DEF Done
  <2>4. Pool!Take(x)
    BY <1>1, <2>1, <2>3 DEF Pool!Take
  <2> QED
    BY <2>2, <2>4 DEF Pool!WPNext
<1>6. CASE t \in Consumers /\ Process(t) /\ ~IsNull(x)
  <2>1. /\ x \in Taken /\ Taken' = Taken \ {x}
        /\ Unpushed' = Unpushed /\ Stacked' = Stacked
    BY <1>6, ProcessMoves
  <2>2. x \in Packets
    BY <1>2, <2>1 DEF Taken, Held
  <2>3. x \notin Unpushed /\ x \notin Stacked
    BY <1>2, <2>1 DEF Apart, Unpushed, Unread
  <2>4. Done' = Done \cup {x}
    BY <2>1, <2>2, <2>3 DEF Done
  <2>5. Pool!Finish(x)
    BY <1>1, <2>1, <2>4 DEF Pool!Finish
  <2> QED
    BY <2>2, <2>5 DEF Pool!WPNext
<1> QED
  BY <1>3, <1>4, <1>5, <1>6, OthersMoveNothing, ReadMoves DEF Moves

(* main reports when the consumers have left: by then every packet has     *)
(* been read, pushed, taken and processed.                                 *)
LEMMA ReportSimulates ==
    ASSUME Solo, PInv, Emptied, MainReport
    PROVE  Pool!Report
<1>1. /\ \A c \in Consumers : pc[c] = "exited"
      /\ ended = "no" /\ ended' = "reported"
      /\ UNCHANGED <<stack, stackSize, pPacket, reads, pc>>
  BY DEF MainReport, stackVars, fileVars
<1>2. PICK c : c \in Consumers
  BY SoloThreads
<1>3. Counted = Files /\ \A f \in Files : reads[f] = Reads[f]
  BY <1>1, <1>2 DEF PInv, Inv, ConsumersLeaveLast
<1>4. Unread = {}
  <2> SUFFICES ASSUME NEW y \in Unread PROVE FALSE
    OBVIOUS
  <2>1. y \in Packets /\ y[2] > reads[y[1]]
    BY DEF Unread
  <2>2. PICK f \in Files : y \in {f} \X (1..Reads[f])
    BY <2>1 DEF Packets
  <2>3. y[1] = f /\ y[2] \in 1..Reads[f] /\ Reads[f] \in Nat
    BY <2>2
  <2> QED
    BY <1>3, <2>1, <2>3
<1>5. Held(Producers) = {}
  <2>1. ASSUME NEW p \in Producers PROVE pPacket[p] = NoPacket
    <3>1. pc[p] \notin Carrying
      BY <1>3, NobodyPushes DEF PInv, Carrying, Pushing
    <3> QED
      BY <3>1 DEF PInv, Placed, ThreadOK, Threads
  <2> QED
    BY <2>1 DEF Held
<1>6. Stacked = {}
  <2>1. stackSize <= 0 /\ DOMAIN stack = 0..(STACK_MAX_SIZE - 1) /\ stackSize \in Int
    BY <1>1, <1>2 DEF Emptied, Leaving, PInv, Inv, TypeOK
  <2>2. Slots = {}
    BY <2>1 DEF Slots
  <2> QED
    BY <2>2 DEF Stacked
<1>7. Taken = {}
  BY <1>1 DEF Takers, Taken, Held
<1>8. Done = Packets
  BY <1>4, <1>5, <1>6, <1>7 DEF Done, Unpushed, Unread
<1>9. Stays
  BY <1>1 DEF Stays, Unpushed, Held, Stacked, Slots, Taken, Takers
<1>10. Done' = Done
  BY <1>9 DEF Stays, Done
<1> QED
  BY <1>1, <1>8, <1>9, <1>10 DEF Pool!Report, Stays

LEMMA InitSimulates == Init => Pool!WPInit
<1> SUFFICES ASSUME Init PROVE Pool!WPInit
  OBVIOUS
<1>1. Held(Producers) = {} /\ Taken = {}
  BY DEF Init, Held, Taken, Takers, Threads
<1>2. Stacked = {}
  BY DEF Init, Stacked, Slots
<1>3. Unread = Packets
  BY DEF Init, Unread, Packets
<1>4. Unpushed = Packets
  BY <1>1, <1>3 DEF Unpushed, Unread
<1>5. Done = {}
  BY <1>4 DEF Done
<1> QED
  BY <1>1, <1>2, <1>4, <1>5 DEF Pool!WPInit, Init

LEMMA NextSimulates ==
    ASSUME Solo, PInv, Emptied, [Next]_vars
    PROVE  [Pool!WPNext]_Pool!wpVars
<1>1. CASE UNCHANGED vars
  <2>1. Stays
    BY <1>1 DEF vars, Stays, Unpushed, Held, Stacked, Slots, Taken, Takers
  <2>2. Done' = Done /\ ended' = ended
    BY <1>1, <2>1 DEF vars, Stays, Done
  <2> QED
    BY <2>1, <2>2 DEF Stays, Pool!wpVars
<1>2. CASE MainReport
  BY <1>2, ReportSimulates DEF Pool!WPNext
<1> QED
  BY <1>1, <1>2, StepSimulates DEF Next, Terminated

(* With one producer, one consumer and one file redextract implements the  *)
(* bounded work pool: every packet goes through the stack once, no more    *)
(* than STACK_MAX_SIZE of them at a time, is processed at most once, and   *)
(* the summary is printed only when all of them have been.                 *)
THEOREM Refinement == Solo => (Spec => RefinesWorkPool)
<1> SUFFICES ASSUME Solo PROVE Spec => RefinesWorkPool
  OBVIOUS
<1>1. Init => Exclusive /\ Placed /\ Emptied /\ Pool!WPInit
  <2>1. Init => Emptied
    BY DEF Init, Emptied
  <2> QED
    BY <2>1, InitExclusive, InitPlaced, InitSimulates
<1>2. Inv /\ Exclusive /\ Placed => PInv
  BY SoloAlone DEF PInv
<1>3. Inv /\ Exclusive /\ [Next]_vars => Exclusive'
  BY ExclusiveKept
<1>4. PInv /\ [Next]_vars => Placed'
  BY PlacedKept
<1>5. PInv /\ Emptied /\ [Next]_vars => Emptied'
  BY EmptiedKept
<1>6. PInv /\ Emptied /\ [Next]_vars => [Pool!WPNext]_Pool!wpVars
  BY NextSimulates
<1> QED
  BY <1>1, <1>2, <1>3, <1>4, <1>5, <1>6, Invariance, PTL
     DEF Spec, RefinesWorkPool, Pool!WPSpec

=============================================================================
