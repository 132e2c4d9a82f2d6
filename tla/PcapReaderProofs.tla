--------------------------- MODULE PcapReaderProofs ---------------------------
(***************************************************************************)
(* What main and the readers promise, for every command line, any number   *)
(* of files and whatever they hold: the assumptions PacketPool makes of    *)
(* the split, that only names from malloc are given to free, that the list *)
(* has the names the user gave, that the counters of theInfo are those of  *)
(* the packets, and that a legible file is delivered record by record.     *)
(***************************************************************************)
EXTENDS PcapReader, FiniteSums

Infos == 0..(MAX_PCAP_FILES - 1)
Fields == {"FileName", "allocated", "EndianFlip", "Packets", "BytesRead"}

ListOK ==
    /\ numPcapFiles \in 0..MAX_PCAP_FILES
    /\ DOMAIN theInfo = Infos
    /\ \A k \in Infos : DOMAIN theInfo[k] = Fields
    /\ ~isPcapFile => \A k \in 0..(numPcapFiles - 1) : theInfo[k].allocated

ArgumentsOK ==
    /\ argv \in CommandLines
    /\ i \in Nat \ {0}
    /\ nThreads \in 2..8

\* main frees once, at its end, and all of the list or none.
FreedOK ==
    freed = {} \/ (mainPc = "reported" /\ ~isPcapFile /\ freed = 0..(numPcapFiles - 1))

IInv == ListOK /\ ArgumentsOK /\ FreedOK /\ StartsAsAssumed

-----------------------------------------------------------------------------

(* An entry that is written has all its fields, and is allocated as told.  *)
LEMMA EntryFields ==
    ASSUME NEW name, NEW b \in BOOLEAN
    PROVE  DOMAIN Entry(name, b) = Fields /\ Entry(name, b).allocated = b
BY DEF Entry, NoEntry, Fields

(* An argument of the list that ends in .pcap is one of argv.              *)
LEMMA ArgumentInDomain ==
    ASSUME NEW l, ArgumentsOK, Argument(l)
    PROVE  i \in DOMAIN argv
BY ArgumentsAssumption DEF ArgumentsOK, Argument

LEMMA InitIInv == Init => IInv
<1> SUFFICES ASSUME Init PROVE IInv
  OBVIOUS
<1>1. ListOK
  BY ArgumentsAssumption DEF Init, InitMain, ListOK, Infos, Fields, NoEntry
<1>2. ArgumentsOK
  BY DEF Init, InitMain, ArgumentsOK
<1>3. FreedOK
  BY DEF Init, InitMain, FreedOK
<1>4. StartsAsAssumed
  BY DEF Init, InitMain, StartsAsAssumed
<1> QED
  BY <1>1, <1>2, <1>3, <1>4 DEF IInv

(* A step that writes one entry with its fields keeps the list.            *)
LEMMA EntryWritten ==
    ASSUME ListOK, NEW name, NEW b \in BOOLEAN,
           numPcapFiles < MAX_PCAP_FILES,
           theInfo' = [theInfo EXCEPT ![numPcapFiles] = Entry(name, b)],
           numPcapFiles' = numPcapFiles + 1,
           ~isPcapFile' => ~isPcapFile /\ b
    PROVE  ListOK'
<1>1. numPcapFiles \in Infos
  BY ArgumentsAssumption DEF ListOK, Infos
<1>2. numPcapFiles' \in 0..MAX_PCAP_FILES
  BY ArgumentsAssumption DEF ListOK
<1>3. DOMAIN theInfo' = Infos
  BY DEF ListOK
<1>4. \A k \in Infos : theInfo'[k] = IF k = numPcapFiles THEN Entry(name, b) ELSE theInfo[k]
  BY <1>1 DEF ListOK
<1>5. \A k \in Infos : DOMAIN theInfo'[k] = Fields
  BY <1>4, EntryFields DEF ListOK
<1>6. ASSUME ~isPcapFile', NEW k \in 0..(numPcapFiles' - 1)
      PROVE  theInfo'[k].allocated
  <2>1. k \in Infos /\ (k # numPcapFiles => k \in 0..(numPcapFiles - 1))
    BY <1>2, ArgumentsAssumption DEF ListOK, Infos
  <2>2. Entry(name, b).allocated
    BY <1>6, EntryFields
  <2> QED
    BY <1>4, <1>6, <2>1, <2>2 DEF ListOK
<1> QED
  BY <1>2, <1>3, <1>5, <1>6 DEF ListOK

LEMMA PcapArgumentIInv == IInv /\ PcapArgument => IInv'
<1> SUFFICES ASSUME IInv, PcapArgument PROVE IInv'
  OBVIOUS
<1> USE DEF IInv
<1>0. i \in DOMAIN argv
  BY ArgumentInDomain DEF PcapArgument
<1>1. CASE numPcapFiles < MAX_PCAP_FILES
  <2>1. ListOK'
    BY <1>1, EntryWritten DEF PcapArgument
  <2>2. ArgumentsOK'
    BY <1>1 DEF PcapArgument, ArgumentsOK, NextArgument, threadVars
  <2>3. FreedOK'
    BY <1>1 DEF PcapArgument, Argument, FreedOK, NextArgument
  <2>4. StartsAsAssumed'
    BY <1>1 DEF PcapArgument, Argument, StartsAsAssumed, NextArgument
  <2> QED
    BY <2>1, <2>2, <2>3, <2>4
<1>2. CASE ~(numPcapFiles < MAX_PCAP_FILES)
  <2>1. ListOK'
    BY <1>2 DEF PcapArgument, ListOK, listVars
  <2>2. ArgumentsOK'
    BY <1>2 DEF PcapArgument, ArgumentsOK, threadVars
  <2>3. FreedOK'
    BY <1>2 DEF PcapArgument, Argument, FreedOK
  <2>4. StartsAsAssumed'
    BY <1>0, <1>2 DEF PcapArgument, Argument, StartsAsAssumed
  <2> QED
    BY <2>1, <2>2, <2>3, <2>4
<1> QED
  BY <1>1, <1>2

LEMMA ReadLineIInv == IInv /\ ReadLine => IInv'
<1> SUFFICES ASSUME IInv, ReadLine PROVE IInv'
  OBVIOUS
<1> USE DEF IInv
<1>0. /\ mainPc = "lines"
      /\ mainPc' \in {"lines", "arguments"}
      /\ i' \in {i, i + 1}
      /\ UNCHANGED <<argv, isPcapFile, nThreads, freed>>
  <2> DEFINE lines == TextFiles[argv[i]]
             atEnd == at.line > Len(lines) \/ numPcapFiles = MAX_PCAP_FILES
  <2>1. CASE atEnd
    BY <2>1 DEF ReadLine, Argument, threadVars
  <2>2. CASE ~atEnd
    BY <2>2 DEF ReadLine, Argument, threadVars
  <2> QED
    BY <2>1, <2>2
<1>1. ArgumentsOK'
  BY <1>0 DEF ArgumentsOK
<1>2. FreedOK'
  BY <1>0 DEF FreedOK
<1>3. StartsAsAssumed'
  BY <1>0 DEF StartsAsAssumed
<1>4. ListOK'
  <2>1. CASE UNCHANGED listVars
    BY <2>1 DEF ReadLine, ListOK, listVars
  <2>2. CASE ~UNCHANGED listVars
    <3> DEFINE name == Piece(TextFiles[argv[i]][at.line])
    <3>1. /\ theInfo' = [theInfo EXCEPT ![numPcapFiles] = Entry(name, TRUE)]
          /\ numPcapFiles' = numPcapFiles + 1
          /\ numPcapFiles # MAX_PCAP_FILES
      BY <2>2 DEF ReadLine, listVars
    <3> HIDE DEF name
    <3>2. numPcapFiles < MAX_PCAP_FILES
      BY <3>1, ArgumentsAssumption DEF ListOK
    <3>3. isPcapFile' = isPcapFile
      BY DEF ReadLine
    <3> QED
      BY <3>1, <3>2, <3>3, EntryWritten
  <2> QED
    BY <2>1, <2>2
<1> QED
  BY <1>1, <1>2, <1>3, <1>4

LEMMA ThreadsOptionIInv == IInv /\ ThreadsOption => IInv'
<1> SUFFICES ASSUME IInv, ThreadsOption PROVE IInv'
  OBVIOUS
<1> USE DEF IInv
<1>1. ListOK'
  BY DEF ThreadsOption, Option, ListOK, listVars
<1>2. ArgumentsOK'
  BY DEF ThreadsOption, Option, Argument, ArgumentsOK, Fail
<1>3. FreedOK'
  BY DEF ThreadsOption, Option, Argument, FreedOK, Fail
<1>4. StartsAsAssumed'
  BY DEF ThreadsOption, Option, Argument, StartsAsAssumed, Fail
<1> QED
  BY <1>1, <1>2, <1>3, <1>4

(* The other steps of main before the threads leave the list as it is.     *)
LEMMA OtherArgumentsIInv ==
    IInv /\ (TextArgument \/ WindowOption \/ Usage \/ NoInput) => IInv'
<1> SUFFICES ASSUME IInv, TextArgument \/ WindowOption \/ Usage \/ NoInput PROVE IInv'
  OBVIOUS
<1>1. /\ mainPc = "arguments"
      /\ mainPc' \in {"arguments", "lines", "usage", "exit(-1)"}
      /\ i' \in {i, i + 2}
      /\ UNCHANGED <<argv, numPcapFiles, theInfo, isPcapFile, nThreads, freed>>
  <2>1. CASE TextArgument
    BY <2>1 DEF TextArgument, Argument, Fail, listVars, threadVars
  <2>2. CASE WindowOption
    BY <2>2 DEF WindowOption, Option, Argument, Fail, listVars
  <2>3. CASE Usage
    BY <2>3 DEF Usage, Argument, listVars, threadVars
  <2>4. CASE NoInput
    BY <2>4 DEF NoInput, Fail, listVars, threadVars
  <2> QED
    BY <2>1, <2>2, <2>3, <2>4
<1>2. ListOK'
  BY <1>1 DEF IInv, ListOK
<1>3. ArgumentsOK'
  BY <1>1 DEF IInv, ArgumentsOK
<1>4. FreedOK'
  BY <1>1 DEF IInv, FreedOK
<1>5. StartsAsAssumed'
  BY <1>1 DEF StartsAsAssumed
<1> QED
  BY <1>2, <1>3, <1>4, <1>5 DEF IInv

LEMMA StartThreadsIInv == IInv /\ StartThreads => IInv'
<1> SUFFICES ASSUME IInv, StartThreads PROVE IInv'
  OBVIOUS
<1> USE DEF IInv
<1>1. ListOK'
  BY DEF StartThreads, ListOK, listVars
<1>2. ArgumentsOK'
  BY DEF StartThreads, ArgumentsOK
<1>3. FreedOK'
  BY DEF StartThreads, FreedOK
<1>4. StartsAsAssumed'
  <2>1. /\ numPcapFiles \in Nat /\ MAX_PCAP_FILES \in Nat
        /\ numPcapFiles <= MAX_PCAP_FILES
        /\ nThreads \in 2..8
    BY ArgumentsAssumption DEF ListOK, ArgumentsOK
  <2>2. numPcapFiles' = numPcapFiles /\ nThreads' = nThreads /\ mainPc' = "threads"
    BY DEF StartThreads, listVars
  <2>3. /\ nThreadsProducers' \in 0..numPcapFiles
        /\ nThreadsProducers' < nThreads
        /\ numPcapFiles > 0 => nThreadsProducers' > 0
        /\ nThreadsConsumers' = nThreads - nThreadsProducers'
    BY <2>1 DEF StartThreads, Split
  <2>4. PICK p \in 0..numPcapFiles : p = nThreadsProducers'
    BY <2>3
  <2>5. nThreadsConsumers' = nThreads - p /\ p < nThreads
    BY <2>3, <2>4
  <2>6. /\ nThreads - p \in 1..nThreads
        /\ p + (nThreads - p) = nThreads
    BY <2>1, <2>5
  <2>7. nThreads' \in 2..8 /\ nThreadsConsumers' \in 1..nThreads'
    BY <2>1, <2>2, <2>5, <2>6, Zenon
  <2>8. nThreadsProducers' + nThreadsConsumers' = nThreads'
    BY <2>2, <2>4, <2>5, <2>6, Zenon
  <2>9. /\ nThreadsProducers' \in 0..numPcapFiles'
        /\ numPcapFiles' > 0 => nThreadsProducers' > 0
        /\ numPcapFiles' \in 0..MAX_PCAP_FILES
    <3>1. numPcapFiles \in 0..MAX_PCAP_FILES
      BY <2>1
    <3> QED
      BY <2>2, <2>3, <3>1, Zenon
  <2> QED
    BY <2>2, <2>7, <2>8, <2>9, Zenon DEF StartsAsAssumed
<1> QED
  BY <1>1, <1>2, <1>3, <1>4

LEMMA FinishIInv == IInv /\ Finish => IInv'
<1> SUFFICES ASSUME IInv, Finish PROVE IInv'
  OBVIOUS
<1> USE DEF IInv, Finish, Report
<1>1. ListOK'
  BY DEF ListOK, listVars
<1>2. ArgumentsOK'
  BY DEF ArgumentsOK, threadVars
<1>3. FreedOK'
  BY DEF FreedOK, listVars
<1>4. StartsAsAssumed'
  BY DEF StartsAsAssumed, listVars, threadVars
<1> QED
  BY <1>1, <1>2, <1>3, <1>4

LEMMA DereferenceIInv == ASSUME NEW f, IInv, Dereference(f) PROVE IInv'
<1> USE DEF IInv, Dereference
<1>1. ListOK'
  BY DEF ListOK, listVars
<1>2. ArgumentsOK'
  BY DEF ArgumentsOK, threadVars
<1>3. FreedOK'
  BY DEF FreedOK
<1>4. StartsAsAssumed'
  BY DEF StartsAsAssumed
<1> QED
  BY <1>1, <1>2, <1>3, <1>4

(* While the threads run, readers change the counters of an entry only.    *)
LEMMA CountersChange ==
    ASSUME IInv, mainPc = "threads", mainPc' \in {"threads", "exit(-2)"},
           UNCHANGED <<argv, i, numPcapFiles, isPcapFile, threadVars, freed>>,
           NEW f \in Infos, NEW e,
           DOMAIN e = Fields, e.allocated = theInfo[f].allocated,
           theInfo' = [theInfo EXCEPT ![f] = e] \/ theInfo' = theInfo
    PROVE  IInv'
<1>1. /\ DOMAIN theInfo' = Infos
      /\ \A k \in Infos : /\ DOMAIN theInfo'[k] = Fields
                          /\ theInfo'[k].allocated = theInfo[k].allocated
  BY DEF IInv, ListOK
<1>2. 0..(numPcapFiles - 1) \subseteq Infos
  BY ArgumentsAssumption DEF IInv, ListOK, Infos
<1>3. ListOK'
  BY <1>1, <1>2 DEF IInv, ListOK
<1>4. ArgumentsOK'
  BY DEF IInv, ArgumentsOK, threadVars
<1>5. FreedOK'
  BY DEF IInv, FreedOK
<1>6. StartsAsAssumed'
  BY DEF IInv, StartsAsAssumed, threadVars
<1> QED
  BY <1>3, <1>4, <1>5, <1>6 DEF IInv

LEMMA OpenFileIInv == IInv /\ fileIndex \in Nat /\ OpenFile => IInv'
<1> SUFFICES ASSUME IInv, fileIndex \in Nat, OpenFile PROVE IInv'
  OBVIOUS
<1>1. fileIndex \in Infos
  BY ArgumentsAssumption DEF IInv, ListOK, OpenFile, Infos
<1>2. DOMAIN theInfo[fileIndex] = Fields /\ DOMAIN theInfo = Infos
  BY <1>1 DEF IInv, ListOK
<1> DEFINE opened(flip) ==
        [theInfo[fileIndex] EXCEPT !.EndianFlip = flip, !.Packets = 0, !.BytesRead = 0]
<1>3. \A flip : /\ DOMAIN opened(flip) = Fields
                /\ opened(flip).allocated = theInfo[fileIndex].allocated
  BY <1>2 DEF Fields
<1>4. \/ theInfo' = theInfo
      \/ \E flip : theInfo' = [theInfo EXCEPT ![fileIndex] = opened(flip)]
  <2>1. CASE theInfo[fileIndex].FileName \notin DOMAIN PcapFiles
    BY <2>1 DEF OpenFile, Open
  <2>2. CASE theInfo[fileIndex].FileName \in DOMAIN PcapFiles
    <3>1. PICK magic \in nMagicNum(fileIndex) :
             theInfo' = [theInfo EXCEPT ![fileIndex].EndianFlip = (magic = "swapped"),
                                        ![fileIndex].Packets = 0,
                                        ![fileIndex].BytesRead = 0]
      BY <2>2 DEF OpenFile, Open
    <3>2. theInfo' = [theInfo EXCEPT ![fileIndex] = opened(magic = "swapped")]
      BY <1>1, <1>2, <3>1
    <3> QED
      BY <3>2
  <2> QED
    BY <2>1, <2>2
<1>5. /\ mainPc = "threads" /\ mainPc' \in {"threads", "exit(-2)"}
      /\ UNCHANGED <<argv, i, numPcapFiles, isPcapFile, threadVars, freed>>
  BY DEF OpenFile, Open
<1> HIDE DEF opened
<1>6. CASE theInfo' = theInfo
  BY <1>1, <1>2, <1>5, <1>6, CountersChange
<1>7. CASE \E flip : theInfo' = [theInfo EXCEPT ![fileIndex] = opened(flip)]
  <2>1. PICK flip : theInfo' = [theInfo EXCEPT ![fileIndex] = opened(flip)]
    BY <1>7
  <2> QED
    BY <1>1, <1>3, <1>5, <2>1, CountersChange
<1> QED
  BY <1>4, <1>6, <1>7

LEMMA ReadPacketIInv == ASSUME NEW f \in Infos, IInv, ReadPacket(f) PROVE IInv'
<1>1. DOMAIN theInfo[f] = Fields /\ DOMAIN theInfo = Infos
  BY DEF IInv, ListOK
<1> DEFINE counted(n) ==
        [theInfo[f] EXCEPT !.Packets = @ + 1, !.BytesRead = @ + n]
<1>2. \A n : /\ DOMAIN counted(n) = Fields
             /\ counted(n).allocated = theInfo[f].allocated
  BY <1>1 DEF Fields
<1>3. \/ theInfo' = theInfo
      \/ \E n : theInfo' = [theInfo EXCEPT ![f] = counted(n)]
  BY <1>1 DEF ReadPacket, readNextPacket, Skip
<1>4. /\ mainPc = "threads" /\ mainPc' = "threads"
      /\ UNCHANGED <<argv, i, numPcapFiles, isPcapFile, threadVars, freed>>
  BY DEF ReadPacket
<1> HIDE DEF counted
<1>5. CASE theInfo' = theInfo
  BY <1>1, <1>4, <1>5, CountersChange
<1>6. CASE \E n : theInfo' = [theInfo EXCEPT ![f] = counted(n)]
  <2>1. PICK n : theInfo' = [theInfo EXCEPT ![f] = counted(n)]
    BY <1>6
  <2> QED
    BY <1>2, <1>4, <2>1, CountersChange
<1> QED
  BY <1>3, <1>5, <1>6

(* A reader that closes its file, and a step that changes nothing.         *)
LEMMA StutterIInv == IInv /\ UNCHANGED mainVars => IInv'
BY DEF mainVars, listVars, threadVars, IInv, ListOK, ArgumentsOK, FreedOK,
       StartsAsAssumed

LEMMA NextIInv == IInv /\ fileIndex \in Nat /\ [Next]_vars => IInv'
<1> SUFFICES ASSUME IInv, fileIndex \in Nat, [Next]_vars PROVE IInv'
  OBVIOUS
<1>1. CASE ReadArguments
  BY <1>1, PcapArgumentIInv, ReadLineIInv, ThreadsOptionIInv, OtherArgumentsIInv,
     StartThreadsIInv DEF ReadArguments
<1>2. CASE OpenFile
  BY <1>2, OpenFileIInv
<1>3. CASE \E f \in Infos : ReadPacket(f)
  BY <1>3, ReadPacketIInv
<1>4. CASE \E f \in Infos : CloseFile(f)
  BY <1>4, StutterIInv DEF CloseFile
<1>5. CASE Finish \/ \E f \in Infos : Dereference(f)
  BY <1>5, FinishIInv, DereferenceIInv
<1>6. CASE UNCHANGED vars
  BY <1>6, StutterIInv DEF vars
<1> QED
  BY <1>1, <1>2, <1>3, <1>4, <1>5, <1>6 DEF Next, Stopped, Infos

LEMMA NextFileIndex == fileIndex \in Nat /\ [Next]_vars => fileIndex' \in Nat
<1> SUFFICES ASSUME fileIndex \in Nat, [Next]_vars PROVE fileIndex' \in Nat
  OBVIOUS
<1>1. CASE OpenFile
  <2>1. fileIndex' = fileIndex + 1
    BY <1>1, Zenon DEF OpenFile, Open
  <2> QED
    BY <2>1
<1>2. ASSUME NEW f, ReadPacket(f) \/ CloseFile(f)
      PROVE  UNCHANGED fileIndex
  BY <1>2 DEF ReadPacket, CloseFile
<1>3. CASE UNCHANGED readerVars \/ UNCHANGED vars
  BY <1>3 DEF vars, readerVars
<1> QED
  BY <1>1, <1>2, <1>3 DEF Next, Finish, Dereference, Stopped

LEMMA Invariance == Spec => [](IInv /\ fileIndex \in Nat)
<1>1. Init => IInv /\ fileIndex \in Nat
  BY InitIInv DEF Init
<1>2. IInv /\ fileIndex \in Nat /\ [Next]_vars => (IInv /\ fileIndex \in Nat)'
  BY NextIInv, NextFileIndex
<1> QED
  BY <1>1, <1>2, PTL DEF Spec

(* For every command line, every content of the lists and every size of    *)
(* theInfo, the threads main starts are as PacketPool assumes them: the    *)
(* if-chain that splits them leaves no consumer and no reader out.         *)
THEOREM SplitIsSound == Spec => []StartsAsAssumed
<1>1. IInv => StartsAsAssumed
  BY DEF IInv
<1> QED
  BY <1>1, Invariance, PTL

(* For all of them, too, main frees only what it has allocated: isPcapFile *)
(* remembers a name from argv for as long as one is in the list.           *)
THEOREM FreeIsSound == Spec => []FreesItsOwn
<1>1. IInv => FreesItsOwn
  BY DEF IInv, FreedOK, ListOK, FreesItsOwn
<1> QED
  BY <1>1, Invariance, PTL
-----------------------------------------------------------------------------
(* Where the records of a file are.                                        *)

IsFile(file) ==
    /\ file.records \in Seq(Nat)
    /\ file.size \in 0..End(file)

LEMMA NamedFile == ASSUME NEW name \in DOMAIN PcapFiles PROVE IsFile(PcapFiles[name])
BY FilesAssumption DEF IsFile

\* Where a record begins, from where the one before it does.
Begins(s, records, k) ==
    IF k = 1 THEN FileHeader ELSE s[k - 1] + RecordHeader + records[k - 1]

LEMMA BeginningsExist ==
    ASSUME NEW records \in Seq(Nat)
    PROVE  \E s : s = [k \in 1..(Len(records) + 1) |-> Begins(s, records, k)]
<1> DEFINE Until(s, n) == /\ s \in [1..(Len(records) + 1) -> Nat]
                          /\ \A k \in 1..(Len(records) + 1) :
                                k <= n => s[k] = Begins(s, records, k)
           Bad == {n \in Nat : ~\E s : Until(s, n)}
<1>0. Len(records) \in Nat /\ \A k \in 1..Len(records) : records[k] \in Nat
  OBVIOUS
<1>1. Bad = {}
  <2> SUFFICES ASSUME Bad # {}
               PROVE  FALSE
    OBVIOUS
  <2>1. Bad \in SUBSET Nat
    OBVIOUS
  <2>2. PICK n \in Bad : \A m \in Bad : n <= m
    <3> HIDE DEF Bad
    <3> QED
      BY <2>1, Smallest
  <2>3. n \in Nat /\ ~\E s : Until(s, n)
    BY <2>2
  <2>4. CASE n = 0
    <3>1. Until([k \in 1..(Len(records) + 1) |-> 0], 0)
      BY <1>0
    <3> QED
      BY <2>3, <2>4, <3>1
  <2>5. CASE n # 0
    <3>1. n - 1 \in Nat /\ ~(n <= n - 1)
      BY <2>3, <2>5
    <3>2. PICK s : Until(s, n - 1)
      BY <2>2, <3>1
    <3> DEFINE t == [k \in 1..(Len(records) + 1) |-> Begins(s, records, k)]
    <3>3. \A k \in 1..(Len(records) + 1) :
             k # 1 => k - 1 \in 1..(Len(records) + 1) /\ records[k - 1] \in Nat
      BY <1>0
    <3>4. t \in [1..(Len(records) + 1) -> Nat]
      BY <3>2, <3>3 DEF Begins, FileHeader, RecordHeader
    <3>5. ASSUME NEW k \in 1..(Len(records) + 1), k <= n
          PROVE  t[k] = Begins(t, records, k)
      <4>1. CASE k = 1
        BY <4>1 DEF Begins
      <4>2. CASE k # 1
        <5>1. k - 1 \in 1..(Len(records) + 1) /\ k - 1 <= n - 1
          BY <1>0, <2>3, <3>5, <4>2
        <5>2. t[k - 1] = s[k - 1]
          BY <3>2, <5>1
        <5> QED
          BY <4>2, <5>2 DEF Begins
      <4> QED
        BY <4>1, <4>2
    <3>6. Until(t, n)
      BY <3>4, <3>5
    <3> QED
      BY <2>3, <3>6
  <2> QED
    BY <2>4, <2>5
<1>2. Len(records) + 1 \in Nat
  BY <1>0
<1>3. PICK s : Until(s, Len(records) + 1)
  BY <1>1, <1>2
<1>4. s = [k \in 1..(Len(records) + 1) |-> Begins(s, records, k)]
  BY <1>2, <1>3
<1> QED
  BY <1>4

LEMMA StartUnfolds ==
    ASSUME NEW file,
           \E s : s = [k \in 1..(Len(file.records) + 1) |-> Begins(s, file.records, k)]
    PROVE  Start(file) = [k \in 1..(Len(file.records) + 1)
                            |-> Begins(Start(file), file.records, k)]
BY Zenon DEF Start, Begins

(* Records follow one another, and the last one ends with the file.        *)
LEMMA StartsInOrder ==
    ASSUME NEW file, file.records \in Seq(Nat)
    PROVE  /\ Start(file) \in [1..(Len(file.records) + 1) -> Nat]
           /\ Start(file)[1] = FileHeader
           /\ \A k \in 1..Len(file.records) :
                 Start(file)[k + 1] = Start(file)[k] + RecordHeader + file.records[k]
           /\ \A k \in 1..(Len(file.records) + 1) : \A j \in 1..k :
                 Start(file)[j] <= Start(file)[k]
<1> DEFINE n == Len(file.records) + 1
           s == Start(file)
<1>0. n \in Nat /\ 1 \in 1..n /\ Len(file.records) \in Nat
      /\ \A k \in 1..Len(file.records) : file.records[k] \in Nat
  OBVIOUS
<1>1. s = [k \in 1..n |-> Begins(s, file.records, k)]
  BY BeginningsExist, StartUnfolds
<1> HIDE DEF s
<1>2. s[1] = FileHeader /\ DOMAIN s = 1..n
  BY <1>0, <1>1 DEF Begins
<1>3. \A k \in 1..n : k # 1 => /\ k - 1 \in 1..n /\ k - 1 \in 1..Len(file.records)
                               /\ s[k] = s[k - 1] + RecordHeader + file.records[k - 1]
  <2>1. \A k \in 1..n : k # 1 => k - 1 \in 1..n /\ k - 1 \in 1..Len(file.records)
    BY <1>0
  <2>2. \A k \in 1..n : k # 1 => s[k] = s[k - 1] + RecordHeader + file.records[k - 1]
    <3> HIDE DEF n
    <3> QED
      BY <1>1, Zenon DEF Begins
  <2> QED
    BY <2>1, <2>2
<1> HIDE DEF n
<1> DEFINE Bad == {k \in 1..n : ~(s[k] \in Nat /\ \A j \in 1..k : s[j] <= s[k])}
<1>4. Bad = {}
  <2> SUFFICES ASSUME Bad # {}
               PROVE  FALSE
    OBVIOUS
  <2>1. Bad \in SUBSET Nat
    OBVIOUS
  <2>2. PICK k \in Bad : \A m \in Bad : k <= m
    <3> HIDE DEF Bad
    <3> QED
      BY <2>1, Smallest
  <2>3. k \in 1..n /\ ~(s[k] \in Nat /\ \A j \in 1..k : s[j] <= s[k])
    BY <2>2
  <2>4. k # 1
    BY <1>2, <2>3 DEF FileHeader
  <2>5. /\ k - 1 \in 1..n /\ file.records[k - 1] \in Nat
        /\ s[k] = s[k - 1] + RecordHeader + file.records[k - 1]
    BY <1>0, <1>3, <2>3, <2>4
  <2>6. k - 1 \notin Bad
    BY <2>2, <2>3
  <2>7. s[k - 1] \in Nat /\ \A j \in 1..(k - 1) : s[j] <= s[k - 1]
    BY <2>5, <2>6
  <2>8. s[k] \in Nat /\ s[k - 1] <= s[k]
    BY <2>5, <2>7 DEF RecordHeader
  <2>9. ASSUME NEW j \in 1..k
        PROVE  s[j] <= s[k]
    <3>1. CASE j = k
      BY <2>8, <3>1
    <3>2. CASE j # k
      <4>1. j \in 1..(k - 1)
        BY <2>3, <3>2
      <4>2. s[j] \in Nat
        <5>1. j \in 1..n /\ j < k
          BY <1>0, <2>3, <4>1
        <5>2. j \notin Bad
          BY <2>2, <2>3, <5>1
        <5> QED
          BY <5>1, <5>2
      <4> QED
        BY <2>7, <2>8, <4>1, <4>2
    <3> QED
      BY <3>1, <3>2
  <2> QED
    BY <2>3, <2>8, <2>9
<1>5. s \in [1..n -> Nat]
  BY <1>1, <1>4
<1>6. \A k \in 1..Len(file.records) : k + 1 \in 1..n /\ k + 1 # 1 /\ (k + 1) - 1 = k
  BY <1>0 DEF n
<1>7. \A k \in 1..Len(file.records) : s[k + 1] = s[k] + RecordHeader + file.records[k]
  BY <1>3, <1>6
<1> QED
  BY <1>2, <1>4, <1>5, <1>7 DEF n, s

-----------------------------------------------------------------------------
(* What a reader has done with its file.                                   *)

Packet == [at : Nat, LengthIncluded : Nat, read : Nat]
Reader == [state : {"unopened", "refused", "reading", "closed"}, pos : Nat, eof : BOOLEAN]
Active == In("reading") \cup In("closed")

\* What is known of a file besides the packets that were delivered.
Known(f) ==
    /\ reader[f].state = "unopened" => packets[f] = <<>>
    /\ reader[f].state \in {"reading", "closed"} =>
          /\ theInfo[f].FileName \in DOMAIN PcapFiles
          /\ theInfo[f].EndianFlip \in BOOLEAN
          /\ reader[f].pos >= FileHeader
    /\ reader[f].state = "closed" => reader[f].eof

(* Files are opened in their order, and not before the threads start.      *)
Opening ==
    /\ fileIndex \in Nat
    /\ mainPc \in {"arguments", "lines"} => fileIndex = 0
    /\ reader \in [Infos -> Reader]
    /\ packets \in [Infos -> Seq(Packet)]
    /\ \A f \in Infos : (f >= fileIndex => reader[f] = Unopened) /\ Known(f)

Real(ps) == {k \in DOMAIN ps : ps[k] # NULL}
Lengths(ps) == [k \in DOMAIN ps |-> ps[k].LengthIncluded]

\* InfoAgrees of one file; r is its reader and ps its packets.
Agrees(info, r, ps) ==
    /\ info.Packets = Cardinality(Real(ps))
    /\ info.BytesRead = Sum(Lengths(ps), Real(ps))
    /\ \A k \in Real(ps) :
          /\ ps[k].LengthIncluded <= DEFAULT_READ_BUFFER
          /\ ps[k].at + ps[k].read <= r.pos
          /\ \A l \in Real(ps) : k < l => ps[k].at + ps[k].read <= ps[l].at

\* Got and LengthsIncluded in terms of the file.
GotOf(file, pos, n) ==
    LET rest == file.size - pos
    IN  IF rest <= 0 THEN 0 ELSE IF rest < n THEN rest ELSE n

LengthsOf(file, flip, pos) ==
    LET bytes == GotOf(file, pos + IncludedAt, 4)
        records == {k \in DOMAIN file.records : Start(file)[k] = pos}
        words == IF records = {} THEN Noise ELSE {file.records[k] : k \in records}
    IN  IF bytes = 0 THEN {0}
        ELSE {IF flip THEN endianfixl(n, bytes) ELSE LowBytes(n, bytes) : n \in words}

\* What reading a packet whose length is n does to info, r and ps.
Reads(file, n, info, r, ps, info2, r2, ps2) ==
    LET header == GotOf(file, r.pos, RecordHeader)
        data == r.pos + header
        read == GotOf(file, data, n)
    IN  IF DEFAULT_READ_BUFFER < n
        THEN /\ ps2 = Append(ps, NULL)
             /\ \E m \in Nat : r2 = [r EXCEPT !.pos = data + m, !.eof = FALSE]
             /\ info2 = info
        ELSE /\ ps2 = Append(ps, [at |-> data, LengthIncluded |-> n, read |-> read])
             /\ r2 = [r EXCEPT !.pos = data + read,
                               !.eof = header < RecordHeader \/ read < n]
             /\ info2 = [info EXCEPT !.Packets = @ + 1, !.BytesRead = @ + n]

LEMMA GotIsNat ==
    ASSUME NEW file, file.size \in Nat, NEW pos \in Nat, NEW n \in Nat
    PROVE  /\ GotOf(file, pos, n) \in Nat
           /\ GotOf(file, pos, n) <= n
           /\ file.size <= pos => GotOf(file, pos, n) = 0
           /\ pos + n <= file.size => GotOf(file, pos, n) = n
           /\ ~(pos + n <= file.size) /\ pos <= file.size =>
                 GotOf(file, pos, n) = file.size - pos
BY DEF GotOf

LEMMA FileSize ==
    ASSUME NEW file, IsFile(file)
    PROVE  /\ file.records \in Seq(Nat) /\ Len(file.records) \in Nat
           /\ file.size \in Nat
           /\ End(file) \in Nat /\ file.size <= End(file)
           /\ End(file) = Start(file)[Len(file.records) + 1]
<1>1. file.records \in Seq(Nat) /\ Len(file.records) \in Nat
  BY DEF IsFile
<1>2. End(file) = Start(file)[Len(file.records) + 1]
  BY DEF End
<1>3. Len(file.records) + 1 \in 1..(Len(file.records) + 1)
  BY <1>1
<1>4. End(file) \in Nat
  BY <1>1, <1>2, <1>3, StartsInOrder
<1>5. file.size \in 0..End(file)
  BY DEF IsFile
<1> QED
  BY <1>1, <1>2, <1>4, <1>5

LEMMA LengthIsNat ==
    ASSUME NEW file, IsFile(file), NEW pos \in Nat, NEW flip \in BOOLEAN,
           NEW n \in LengthsOf(file, flip, pos)
    PROVE  n \in Nat
<1>1. file.size \in Nat /\ file.records \in Seq(Nat)
  BY FileSize
<1> DEFINE bytes == GotOf(file, pos + IncludedAt, 4)
<1>2. bytes \in Nat /\ bytes <= 4
  <2>1. pos + IncludedAt \in Nat /\ 4 \in Nat
    BY DEF IncludedAt
  <2> QED
    BY <1>1, <2>1, GotIsNat
<1> HIDE DEF bytes
<1>3. ASSUME NEW m \in Nat, bytes # 0
      PROVE  endianfixl(m, bytes) \in Nat /\ LowBytes(m, bytes) \in Nat
  <2>1. endianfixl(m, bytes) \in Nat
    BY <1>3 DEF endianfixl
  <2>2. bytes \in {1, 2, 3, 4}
    BY <1>2, <1>3
  <2>3. \A w \in {256, 65536, 16777216} : m % w \in Nat
    BY <1>3
  <2>4. bytes # 4 => <<256, 65536, 16777216>>[bytes] \in {256, 65536, 16777216}
    BY <2>2
  <2>5. LowBytes(m, bytes) \in Nat
    BY <2>3, <2>4 DEF LowBytes
  <2> QED
    BY <2>1, <2>5
<1>4. \A m \in Noise : m \in Nat
  BY FilesAssumption
<1>5. \A k \in DOMAIN file.records : file.records[k] \in Nat
  BY <1>1
<1>6. CASE bytes = 0
  BY <1>6 DEF LengthsOf, bytes
<1>7. CASE bytes # 0
  <2> DEFINE records == {k \in DOMAIN file.records : Start(file)[k] = pos}
             words == IF records = {} THEN Noise ELSE {file.records[k] : k \in records}
  <2>1. PICK m \in words : n = IF flip THEN endianfixl(m, bytes) ELSE LowBytes(m, bytes)
    BY <1>7 DEF LengthsOf, bytes
  <2>2. m \in Nat
    BY <1>4, <1>5
  <2> QED
    BY <1>3, <1>7, <2>1, <2>2
<1> QED
  BY <1>6, <1>7

(* What a read leaves has its type, and the position does not go back.     *)
LEMMA ReadsTypes ==
    ASSUME NEW file, IsFile(file), NEW n \in Nat,
           NEW info, NEW r \in Reader, NEW ps \in Seq(Packet),
           NEW info2, NEW r2, NEW ps2, Reads(file, n, info, r, ps, info2, r2, ps2)
    PROVE  /\ r2 \in Reader /\ ps2 \in Seq(Packet)
           /\ r2.state = r.state /\ r.pos <= r2.pos
           /\ GotOf(file, r.pos, RecordHeader) \in Nat
           /\ GotOf(file, r.pos + GotOf(file, r.pos, RecordHeader), n) \in Nat
<1> DEFINE header == GotOf(file, r.pos, RecordHeader)
           data == r.pos + header
           read == GotOf(file, data, n)
<1>1. file.size \in Nat /\ r.pos \in Nat
  BY FileSize DEF Reader
<1>2. header \in Nat
  BY <1>1, GotIsNat DEF RecordHeader
<1> HIDE DEF header
<1>3. data \in Nat /\ r.pos <= data
  BY <1>1, <1>2
<1> HIDE DEF data
<1>4. read \in Nat
  BY <1>1, <1>3, GotIsNat
<1> HIDE DEF read
<1>5. /\ \A m \in Nat : data + m \in Nat /\ r.pos <= data + m
      /\ data + read \in Nat /\ r.pos <= data + read
  BY <1>1, <1>3, <1>4
<1>6. NULL \in Packet /\ [at |-> data, LengthIncluded |-> n, read |-> read] \in Packet
  BY <1>3, <1>4 DEF NULL, Packet
<1>7. /\ \/ \E m \in Nat : r2 = [r EXCEPT !.pos = data + m, !.eof = FALSE]
         \/ r2 = [r EXCEPT !.pos = data + read, !.eof = header < RecordHeader \/ read < n]
      /\ ps2 \in {Append(ps, NULL),
                  Append(ps, [at |-> data, LengthIncluded |-> n, read |-> read])}
  BY DEF Reads, read, data, header
<1>8. r2 \in Reader /\ r2.state = r.state /\ r.pos <= r2.pos
  BY <1>5, <1>7 DEF Reader
<1>9. \A packet \in Packet : Append(ps, packet) \in Seq(Packet)
  OBVIOUS
<1>10. ps2 \in Seq(Packet)
  <2>1. ps2 = Append(ps, NULL)
        \/ ps2 = Append(ps, [at |-> data, LengthIncluded |-> n, read |-> read])
    BY <1>7
  <2> HIDE DEF read
  <2> QED
    BY <1>6, <1>9, <2>1
<1> QED
  BY <1>2, <1>4, <1>8, <1>10 DEF read, data, header

(* The packets of a file that count are so many, and have these lengths.   *)
LEMMA RealIsFinite ==
    ASSUME NEW ps \in Seq(Packet)
    PROVE  /\ IsFiniteSet(Real(ps)) /\ Real(ps) \in SUBSET (1..Len(ps))
           /\ Cardinality(Real(ps)) \in Nat
           /\ \A k \in Real(ps) : ps[k] \in Packet /\ Lengths(ps)[k] \in Nat
                                  /\ Lengths(ps)[k] = ps[k].LengthIncluded
           /\ Sum(Lengths(ps), Real(ps)) \in Nat
<1>1. Real(ps) \in SUBSET (1..Len(ps)) /\ Len(ps) \in Nat
  BY DEF Real
<1>2. IsFiniteSet(1..Len(ps))
  BY <1>1, FS_Interval
<1>3. IsFiniteSet(Real(ps)) /\ Cardinality(Real(ps)) \in Nat
  BY <1>1, <1>2, FS_Subset, FS_CardinalityType
<1>4. \A k \in Real(ps) : ps[k] \in Packet /\ k \in DOMAIN ps
  BY DEF Real
<1>5. \A k \in Real(ps) : Lengths(ps)[k] \in Nat /\ Lengths(ps)[k] = ps[k].LengthIncluded
  BY <1>4 DEF Lengths, Packet
<1>6. Sum(Lengths(ps), Real(ps)) \in Nat
  BY <1>3, <1>5, SumNat
<1> QED
  BY <1>1, <1>3, <1>4, <1>5, <1>6

Appended(ps2, ps, p) == ps2 = Append(ps, p)

LEMMA RealAfter ==
    ASSUME NEW ps \in Seq(Packet), NEW p \in Packet,
           NEW ps2, Appended(ps2, ps, p)
    PROVE  /\ ps2 \in Seq(Packet) /\ Len(ps) + 1 \notin Real(ps)
           /\ p = NULL => Real(ps2) = Real(ps)
           /\ p # NULL => Real(ps2) = Real(ps) \cup {Len(ps) + 1}
           /\ ps2[Len(ps) + 1] = p
           /\ \A k \in Real(ps) : ps2[k] = ps[k] /\ Lengths(ps2)[k] = Lengths(ps)[k]
           /\ Lengths(ps2)[Len(ps) + 1] = p.LengthIncluded
<1>1. /\ Len(ps) \in Nat /\ DOMAIN ps = 1..Len(ps)
      /\ ps2 \in Seq(Packet) /\ DOMAIN ps2 = 1..(Len(ps) + 1)
      /\ ps2[Len(ps) + 1] = p
      /\ \A k \in 1..Len(ps) : ps2[k] = ps[k]
  BY DEF Appended
<1>2. /\ DOMAIN ps2 = DOMAIN ps \cup {Len(ps) + 1} /\ Len(ps) + 1 \notin DOMAIN ps
      /\ \A k \in DOMAIN ps : ps2[k] = ps[k]
  BY <1>1
<1>3. /\ p = NULL => Real(ps2) = Real(ps)
      /\ p # NULL => Real(ps2) = Real(ps) \cup {Len(ps) + 1}
  BY <1>1, <1>2 DEF Real
<1>4. \A k \in Real(ps) : ps2[k] = ps[k] /\ Lengths(ps2)[k] = Lengths(ps)[k]
  BY <1>2 DEF Real, Lengths
<1>5. Lengths(ps2)[Len(ps) + 1] = p.LengthIncluded
  BY <1>1, <1>2 DEF Lengths
<1> QED
  BY <1>1, <1>2, <1>3, <1>4, <1>5 DEF Real

(* The counters agree with the packets after a read too.                   *)
LEMMA AgreesAfter ==
    ASSUME NEW file, IsFile(file), NEW n \in Nat,
           NEW info, DOMAIN info = Fields, NEW r \in Reader, r.pos >= FileHeader,
           NEW ps \in Seq(Packet), Agrees(info, r, ps),
           NEW info2, NEW r2, NEW ps2, Reads(file, n, info, r, ps, info2, r2, ps2)
    PROVE  Agrees(info2, r2, ps2)
<1> DEFINE header == GotOf(file, r.pos, RecordHeader)
           data == r.pos + header
           read == GotOf(file, data, n)
           packet == [at |-> data, LengthIncluded |-> n, read |-> read]
<1>1. /\ r.pos \in Nat /\ r.pos <= r2.pos /\ r2 \in Reader /\ header \in Nat /\ read \in Nat
      /\ r.pos >= 24
  BY ReadsTypes DEF Reader, FileHeader
<1>2. data \in Nat /\ data >= 24 /\ r.pos <= data
  BY <1>1
<1>3. ASSUME NEW k \in Real(ps)
      PROVE  /\ ps[k].LengthIncluded <= DEFAULT_READ_BUFFER
             /\ ps[k].at + ps[k].read <= r2.pos
             /\ ps[k].at + ps[k].read <= data
             /\ \A l \in Real(ps) : k < l => ps[k].at + ps[k].read <= ps[l].at
  <2>1. /\ ps[k].LengthIncluded <= DEFAULT_READ_BUFFER
        /\ ps[k].at + ps[k].read <= r.pos
        /\ \A l \in Real(ps) : k < l => ps[k].at + ps[k].read <= ps[l].at
    BY DEF Agrees
  <2>2. PICK e \in Nat : e = ps[k].at + ps[k].read
    <3>1. ps[k] \in Packet
      BY RealIsFinite
    <3>2. ps[k].at \in Nat /\ ps[k].read \in Nat
      BY <3>1 DEF Packet
    <3> QED
      BY <3>2
  <2>3. r2.pos \in Nat
    BY <1>1 DEF Reader
  <2> HIDE DEF data
  <2>4. e <= r2.pos /\ e <= data
    BY <1>1, <1>2, <2>1, <2>2, <2>3
  <2> QED
    BY <2>1, <2>2, <2>4
<1>4. CASE DEFAULT_READ_BUFFER < n
  <2>1. ps2 = Append(ps, NULL) /\ info2 = info
    BY <1>4 DEF Reads
  <2>2. NULL \in Packet
    BY DEF NULL, Packet
  <2>3. /\ Real(ps2) = Real(ps)
        /\ \A k \in Real(ps) : ps2[k] = ps[k] /\ Lengths(ps2)[k] = Lengths(ps)[k]
    <3>1. Appended(ps2, ps, NULL)
      BY <2>1 DEF Appended
    <3> QED
      BY <2>2, <3>1, RealAfter
  <2>4. Sum(Lengths(ps2), Real(ps2)) = Sum(Lengths(ps), Real(ps))
    BY <2>3, RealIsFinite, SumSame
  <2>5. info2.Packets = Cardinality(Real(ps2)) /\ info2.BytesRead = Sum(Lengths(ps2), Real(ps2))
    BY <2>1, <2>3, <2>4 DEF Agrees
  <2> QED
    BY <1>3, <2>3, <2>5 DEF Agrees
<1>5. CASE ~(DEFAULT_READ_BUFFER < n)
  <2>1. /\ ps2 = Append(ps, packet)
        /\ r2 = [r EXCEPT !.pos = data + read, !.eof = header < RecordHeader \/ read < n]
        /\ info2 = [info EXCEPT !.Packets = @ + 1, !.BytesRead = @ + n]
    BY <1>5 DEF Reads
  <2>2. packet \in Packet /\ packet # NULL
    <3>1. packet.at = data /\ NULL.at = 0
      BY DEF NULL
    <3> HIDE DEF data
    <3>2. packet \in Packet
      BY <1>1, <1>2 DEF Packet
    <3>3. data # 0
      BY <1>2
    <3> QED
      BY <3>1, <3>2, <3>3
  <2> DEFINE last == Len(ps) + 1
  <2>3. packet.at = data /\ packet.LengthIncluded = n /\ packet.read = read
    OBVIOUS
  <2>4. r2.pos = data + read
    BY <2>1 DEF Reader
  <2> HIDE DEF packet, data, read, header
  <2>5. /\ ps2 \in Seq(Packet) /\ last \notin Real(ps)
        /\ Real(ps2) = Real(ps) \cup {last} /\ ps2[last] = packet
        /\ \A k \in Real(ps) : ps2[k] = ps[k] /\ Lengths(ps2)[k] = Lengths(ps)[k]
        /\ Lengths(ps2)[last] = n
    <3>1. Appended(ps2, ps, packet) /\ packet \in Packet /\ packet # NULL
      BY <2>1, <2>2 DEF Appended
    <3>2. packet.LengthIncluded = n
      BY <2>3
    <3> QED
      BY <3>1, <3>2, RealAfter
  <2> HIDE DEF last
  <2>6. info2.Packets = Cardinality(Real(ps2))
    <3>1. Cardinality(Real(ps2)) = Cardinality(Real(ps)) + 1
      BY <2>5, RealIsFinite, FS_AddElement
    <3>2. info2.Packets = info.Packets + 1
      BY <2>1 DEF Fields
    <3> QED
      BY <3>1, <3>2 DEF Agrees
  <2>7. info2.BytesRead = Sum(Lengths(ps2), Real(ps2))
    <3>1. Sum(Lengths(ps2), Real(ps)) = Sum(Lengths(ps), Real(ps))
      BY <2>5, RealIsFinite, SumSame
    <3>2. \A k \in Real(ps) \cup {last} : Lengths(ps2)[k] \in Nat
      BY <2>5, RealIsFinite
    <3>3. Sum(Lengths(ps2), Real(ps) \cup {last}) = Lengths(ps2)[last] + Sum(Lengths(ps2), Real(ps))
      BY <2>5, <3>2, RealIsFinite, SumAdd
    <3>4. info2.BytesRead = info.BytesRead + n
      BY <2>1 DEF Fields
    <3>5. info.BytesRead = Sum(Lengths(ps), Real(ps)) /\ Sum(Lengths(ps), Real(ps)) \in Nat
      BY RealIsFinite DEF Agrees
    <3>6. PICK m \in Nat : m = Sum(Lengths(ps), Real(ps))
      BY <3>5
    <3> QED
      BY <2>5, <3>1, <3>3, <3>4, <3>5, <3>6
  <2>8. /\ ps2[last].LengthIncluded <= DEFAULT_READ_BUFFER
        /\ ps2[last].at + ps2[last].read <= r2.pos
    <3>1. n <= DEFAULT_READ_BUFFER /\ data + read <= data + read
      BY <1>1, <1>2, <1>5, FilesAssumption
    <3> QED
      BY <2>3, <2>4, <2>5, <3>1
  <2>9. /\ \A k \in Real(ps) : k < last /\ k \in Nat
        /\ ~(last < last)
    BY RealIsFinite DEF last
  <2>10. ASSUME NEW k \in Real(ps2), NEW l \in Real(ps2), k < l
         PROVE  ps2[k].at + ps2[k].read <= ps2[l].at
    <3>1. CASE l \in Real(ps)
      <4>1. k # last
        <5>1. l \in Nat /\ l < last /\ last \in Nat
          BY <2>9, <3>1 DEF last
        <5> QED
          BY <2>10, <5>1
      <4> QED
        BY <1>3, <2>5, <2>10, <3>1, <4>1
    <3>2. CASE l = last
      <4>1. k \in Real(ps)
        BY <2>5, <2>9, <2>10, <3>2
      <4> QED
        BY <1>3, <2>3, <2>5, <3>2, <4>1
    <3> QED
      BY <2>5, <3>1, <3>2
  <2>11. ASSUME NEW k \in Real(ps2)
         PROVE  /\ ps2[k].LengthIncluded <= DEFAULT_READ_BUFFER
                /\ ps2[k].at + ps2[k].read <= r2.pos
    BY <1>3, <2>5, <2>8
  <2> QED
    BY <2>6, <2>7, <2>10, <2>11 DEF Agrees
<1> QED
  BY <1>4, <1>5

-----------------------------------------------------------------------------
(* Legible files are delivered record by record.                           *)

Plain(file, flip) == flip => \A k \in DOMAIN file.records : file.records[k] < 256

\* What is delivered for a record that begins at from and has this length.
Due(file, from, length) ==
    IF length > DEFAULT_READ_BUFFER THEN NULL
    ELSE [at |-> from + RecordHeader, LengthIncluded |-> length,
          read |-> GotOf(file, from + RecordHeader, length)]

(* Before its end a reader that has delivered m packets, and met no record *)
(* that does not fit, stands where the next one begins; or a length that   *)
(* was cut off has taken it beyond the end of a file in which no record    *)
(* begins there any more.                                                  *)
Stands(file, r, m) ==
    /\ m <= Len(file.records)
    /\ \/ r.pos = Start(file)[m + 1]
       \/ r.pos >= file.size /\ Start(file)[m + 1] > file.size

Delivered(file, r, ps) ==
    /\ \A k \in 1..Len(ps) :
          /\ k <= Len(file.records) /\ Start(file)[k] + RecordHeader <= file.size
          /\ Fit(file, k - 1)
          => ps[k] = Due(file, Start(file)[k], file.records[k])
    /\ Fit(file, Len(file.records)) =>
          /\ Len(ps) <= Len(file.records) + 1
          /\ r.eof /\ file.size = End(file) =>
                /\ Len(ps) = Len(file.records) + 1
                /\ ps[Len(file.records) + 1].read = 0
    /\ ~r.eof /\ Fit(file, Len(ps)) => Stands(file, r, Len(ps))

(* In the same terms for a file with a name.                              *)
LEMMA FileStarts ==
    ASSUME NEW file, IsFile(file)
    PROVE  /\ \A k \in 1..(Len(file.records) + 1) :
                 Start(file)[k] \in Nat /\ Start(file)[k] <= End(file)
           /\ \A k \in 1..Len(file.records) :
                 /\ k \in 1..(Len(file.records) + 1) /\ k + 1 \in 1..(Len(file.records) + 1)
                 /\ file.records[k] \in Nat
                 /\ Start(file)[k + 1] = Start(file)[k] + RecordHeader + file.records[k]
           /\ \A a \in 1..Len(file.records) : \A b \in 1..Len(file.records) :
                 a < b => Start(file)[a] < Start(file)[b]
<1> DEFINE N == Len(file.records)
           s == Start(file)
<1>1. N \in Nat /\ file.records \in Seq(Nat) /\ End(file) = s[N + 1]
  BY FileSize
<1>2. \A k \in 1..N : k \in 1..(N + 1) /\ k + 1 \in 1..(N + 1) /\ file.records[k] \in Nat
  BY <1>1
<1>3. /\ s \in [1..(N + 1) -> Nat]
      /\ \A k \in 1..N : s[k + 1] = s[k] + RecordHeader + file.records[k]
      /\ \A k \in 1..(N + 1) : \A j \in 1..k : s[j] <= s[k]
  BY <1>1, StartsInOrder
<1> HIDE DEF N, s
<1>4. \A k \in 1..(N + 1) : s[k] \in Nat /\ s[k] <= s[N + 1]
  <2>1. ASSUME NEW k \in 1..(N + 1)
        PROVE  k \in 1..(N + 1) /\ N + 1 \in 1..(N + 1)
    BY <1>1
  <2> QED
    BY <1>3, <2>1
<1>5. ASSUME NEW a \in 1..N, NEW b \in 1..N, a < b
      PROVE  s[a] < s[b]
  <2>1. a + 1 \in 1..b /\ b \in 1..(N + 1)
    BY <1>1, <1>5
  <2>2. s[a + 1] <= s[b] /\ s[b] \in Nat
    BY <1>3, <1>4, <2>1
  <2>3. s[a] \in Nat /\ file.records[a] \in Nat /\ s[a + 1] = s[a] + 16 + file.records[a]
    BY <1>2, <1>3, <1>4 DEF RecordHeader
  <2>4. PICK x, y, z \in Nat : x = s[a] /\ y = s[b] /\ z = file.records[a]
    BY <2>2, <2>3
  <2>5. x + 16 + z <= y
    BY <2>2, <2>3, <2>4
  <2>6. x < y
    BY <2>5
  <2> QED
    BY <2>4, <2>6
<1> QED
  BY <1>1, <1>2, <1>3, <1>4, <1>5 DEF N, s

(* Beyond the end there is no length.                                      *)
LEMMA LengthBeyond ==
    ASSUME NEW file, IsFile(file), NEW flip, NEW pos \in Nat, file.size <= pos,
           NEW n \in LengthsOf(file, flip, pos)
    PROVE  /\ n = 0
           /\ GotOf(file, pos, RecordHeader) = 0
           /\ GotOf(file, pos, n) = 0
<1>1. file.size \in Nat
  BY FileSize
<1>2. pos + IncludedAt \in Nat /\ file.size <= pos + IncludedAt
  BY <1>1 DEF IncludedAt
<1>3. GotOf(file, pos + IncludedAt, 4) = 0
  BY <1>1, <1>2, GotIsNat
<1>4. n = 0
  BY <1>3 DEF LengthsOf
<1> QED
  BY <1>1, <1>4, GotIsNat DEF RecordHeader

(* At the beginning of a record it is the record's.                        *)
LEMMA LengthOfRecord ==
    ASSUME NEW file, IsFile(file), NEW flip \in BOOLEAN, Plain(file, flip),
           NEW k \in 1..Len(file.records),
           Start(file)[k] + RecordHeader <= file.size,
           NEW n \in LengthsOf(file, flip, Start(file)[k])
    PROVE  /\ n = file.records[k]
           /\ GotOf(file, Start(file)[k], RecordHeader) = RecordHeader
<1>1. /\ file.size \in Nat /\ file.records \in Seq(Nat) /\ Len(file.records) \in Nat
      /\ DOMAIN file.records = 1..Len(file.records)
      /\ \A j \in 1..Len(file.records) : file.records[j] \in Nat
  <2>1. file.size \in Nat /\ file.records \in Seq(Nat)
    BY FileSize
  <2> QED
    BY <2>1
<1>2. PICK pos \in Nat : pos = Start(file)[k]
  BY <1>1, FileStarts
<1>3. pos + IncludedAt \in Nat /\ (pos + IncludedAt) + 4 <= file.size /\ 4 \in Nat
      /\ pos + 16 <= file.size
  <2>1. pos + 16 <= file.size
    BY <1>2 DEF RecordHeader
  <2> QED
    BY <1>1, <2>1 DEF IncludedAt
<1>4. GotOf(file, pos + IncludedAt, 4) = 4 /\ GotOf(file, pos, 16) = 16
  BY <1>1, <1>3, GotIsNat
<1>5. ASSUME NEW a \in 1..Len(file.records), NEW b \in 1..Len(file.records), a < b
      PROVE  Start(file)[a] # Start(file)[b]
  <2>1. Start(file)[a] < Start(file)[b]
    BY <1>5, FileStarts
  <2>2. Start(file)[a] \in Nat
    BY FileStarts
  <2> QED
    BY <2>1, <2>2
<1>6. ASSUME NEW j \in DOMAIN file.records, Start(file)[j] = Start(file)[k]
      PROVE  j = k
  <2>1. j \in Nat /\ k \in Nat /\ j \in 1..Len(file.records)
    BY <1>1
  <2>2. ~(j < k) /\ ~(k < j)
    BY <1>5, <1>6, <2>1
  <2> QED
    BY <2>1, <2>2
<1>7. {j \in DOMAIN file.records : Start(file)[j] = pos} = {k}
  BY <1>1, <1>2, <1>6
<1>8. n = IF flip THEN endianfixl(file.records[k], 4) ELSE LowBytes(file.records[k], 4)
  <2> DEFINE bytes == GotOf(file, pos + IncludedAt, 4)
             records == {j \in DOMAIN file.records : Start(file)[j] = pos}
             words == IF records = {} THEN Noise ELSE {file.records[j] : j \in records}
  <2>1. n \in IF bytes = 0 THEN {0}
              ELSE {IF flip THEN endianfixl(m, bytes) ELSE LowBytes(m, bytes) : m \in words}
    BY <1>2, Zenon DEF LengthsOf
  <2>2. bytes = 4 /\ words = {file.records[k]}
    BY <1>4, <1>7
  <2> HIDE DEF bytes, words
  <2>3. n \in {IF flip THEN endianfixl(m, 4) ELSE LowBytes(m, 4) : m \in {file.records[k]}}
    BY <2>1, <2>2
  <2> QED
    BY <2>3
<1>9. file.records[k] \in Nat /\ (flip => file.records[k] < 256)
  BY <1>1 DEF Plain
<1>10. flip => endianfixl(file.records[k], 4) = file.records[k]
  BY <1>9 DEF endianfixl
<1>11. LowBytes(file.records[k], 4) = file.records[k]
  BY DEF LowBytes
<1> QED
  BY <1>2, <1>4, <1>8, <1>10, <1>11 DEF RecordHeader

(* Fewer records fit if more do, and from the last on it is the same.      *)
LEMMA FitFewer ==
    ASSUME NEW file, file.records \in Seq(Nat), NEW k \in Nat, NEW l \in Nat, Fit(file, l),
           k <= l \/ l = Len(file.records)
    PROVE  Fit(file, k)
BY DEF Fit

(* One more packet, if it is as it should be.  Of what comes behind a      *)
(* record that does not fit nothing is asked.                              *)
LEMMA OneMoreDelivered ==
    ASSUME NEW file, IsFile(file), NEW r, NEW ps \in Seq(Packet), NEW p \in Packet,
           Delivered(file, r, ps), ~r.eof,
           NEW r2, NEW ps2, Appended(ps2, ps, p),
           NEW k, k = Len(ps) + 1,
           Fit(file, Len(ps)) =>
              /\ k <= Len(file.records) /\ Start(file)[k] + RecordHeader <= file.size =>
                    p = Due(file, Start(file)[k], file.records[k])
              /\ r2.eof /\ file.size = End(file) => k = Len(file.records) + 1 /\ p.read = 0
              /\ ~r2.eof /\ Fit(file, k) =>
                    /\ k <= Len(file.records)
                    /\ \/ r2.pos = Start(file)[k + 1]
                       \/ r2.pos >= file.size /\ Start(file)[k + 1] > file.size
    PROVE  Delivered(file, r2, ps2)
<1>1. /\ Len(ps) \in Nat /\ Len(ps2) = Len(ps) + 1 /\ ps2[Len(ps) + 1] = p
      /\ \A j \in 1..Len(ps) : ps2[j] = ps[j]
  BY DEF Appended
<1>2. Len(file.records) \in Nat /\ file.records \in Seq(Nat)
  BY FileSize
<1>3. Fit(file, Len(ps)) => Len(ps) <= Len(file.records)
  BY DEF Delivered, Stands
<1>4. Fit(file, Len(file.records)) \/ Fit(file, k) => Fit(file, Len(ps))
  <2>1. k \in Nat /\ Len(ps) <= k
    BY <1>1
  <2> QED
    BY <1>1, <1>2, <2>1, FitFewer
<1>5. \A j \in 1..Len(ps2) : j \in 1..Len(ps) \/ j = k
  BY <1>1
<1>6. ASSUME NEW j \in 1..Len(ps2), j <= Len(file.records),
             Start(file)[j] + RecordHeader <= file.size, Fit(file, j - 1)
      PROVE  ps2[j] = Due(file, Start(file)[j], file.records[j])
  <2>1. CASE j \in 1..Len(ps)
    BY <1>1, <1>6, <2>1 DEF Delivered
  <2>2. CASE j = k
    <3>1. j - 1 = Len(ps)
      BY <1>1, <2>2
    <3> QED
      BY <1>1, <1>6, <2>2, <3>1
  <2> QED
    BY <1>5, <2>1, <2>2
<1>7. Fit(file, Len(file.records)) =>
         /\ Len(ps2) <= Len(file.records) + 1
         /\ r2.eof /\ file.size = End(file) =>
               /\ Len(ps2) = Len(file.records) + 1
               /\ ps2[Len(file.records) + 1].read = 0
  BY <1>1, <1>2, <1>3, <1>4
<1>8. ~r2.eof /\ Fit(file, Len(ps2)) => Stands(file, r2, Len(ps2))
  <2>1. Len(ps2) = k
    BY <1>1
  <2> QED
    BY <1>4, <2>1 DEF Stands
<1> QED
  BY <1>6, <1>7, <1>8 DEF Delivered

LEMMA DeliveredAfter ==
    ASSUME NEW file, IsFile(file), NEW flip \in BOOLEAN, Plain(file, flip),
           NEW info, NEW r \in Reader, NEW ps \in Seq(Packet),
           Delivered(file, r, ps), ~r.eof,
           NEW n \in LengthsOf(file, flip, r.pos),
           NEW info2, NEW r2, NEW ps2, Reads(file, n, info, r, ps, info2, r2, ps2)
    PROVE  Delivered(file, r2, ps2)
<1> DEFINE header == GotOf(file, r.pos, RecordHeader)
           data == r.pos + header
           read == GotOf(file, data, n)
           skipped == DEFAULT_READ_BUFFER < n
           p == IF skipped THEN NULL ELSE [at |-> data, LengthIncluded |-> n, read |-> read]
           k == Len(ps) + 1
           N == Len(file.records)
           s == Start(file)
<1>1. /\ r.pos \in Nat /\ file.size \in Nat /\ N \in Nat /\ k \in Nat /\ DEFAULT_READ_BUFFER \in Nat
      /\ End(file) \in Nat /\ file.size <= End(file) /\ End(file) = s[N + 1]
  BY FileSize, FilesAssumption DEF Reader
<1>2. n \in Nat
  BY <1>1, LengthIsNat
<1>3. header \in Nat /\ read \in Nat /\ data \in Nat
  BY <1>1, <1>2, ReadsTypes
<1>4. /\ Appended(ps2, ps, p)
      /\ skipped => ~r2.eof /\ \E m \in Nat : r2.pos = data + m
      /\ ~skipped => /\ r2.pos = data + read
                     /\ r2.eof <=> (header < RecordHeader \/ read < n)
  <2>1. CASE skipped
    <3>1. ps2 = Append(ps, NULL)
      BY <2>1 DEF Reads
    <3>2. PICK m \in Nat : r2 = [r EXCEPT !.pos = data + m, !.eof = FALSE]
      BY <2>1 DEF Reads
    <3>3. r2.pos = data + m /\ ~r2.eof
      BY <3>2 DEF Reader
    <3> QED
      BY <2>1, <3>1, <3>3 DEF Appended
  <2>2. CASE ~skipped
    <3>1. /\ ps2 = Append(ps, [at |-> data, LengthIncluded |-> n, read |-> read])
          /\ r2 = [r EXCEPT !.pos = data + read, !.eof = header < RecordHeader \/ read < n]
      BY <2>2 DEF Reads
    <3> QED
      BY <2>2, <3>1 DEF Appended, Reader
  <2> QED
    BY <2>1, <2>2
<1>5. p \in Packet
  BY <1>2, <1>3 DEF Packet, NULL
\* What there is to show of the packet and the place it leaves.
<1>6. SUFFICES ASSUME Fit(file, Len(ps))
               PROVE  /\ k <= N /\ s[k] + 16 <= file.size => p = Due(file, s[k], file.records[k])
                      /\ r2.eof /\ file.size = End(file) => k = N + 1 /\ p.read = 0
                      /\ ~r2.eof /\ Fit(file, k) =>
                            /\ k <= N
                            /\ \/ r2.pos = s[k + 1]
                               \/ r2.pos >= file.size /\ s[k + 1] > file.size
  <2> HIDE DEF p
  <2> QED
    BY <1>4, <1>5, OneMoreDelivered DEF RecordHeader
<1>7. /\ k \in 1..(N + 1)
      /\ r.pos = s[k] \/ (r.pos >= file.size /\ s[k] > file.size)
  <2>1. Len(ps) \in Nat
    OBVIOUS
  <2>2. Len(ps) <= N /\ (r.pos = s[k] \/ (r.pos >= file.size /\ s[k] > file.size))
    <3>1. Stands(file, r, Len(ps))
      BY <1>6, Zenon DEF Delivered
    <3> QED
      BY <3>1 DEF Stands
  <2>3. k \in 1..(N + 1)
    <3> HIDE DEF N
    <3> QED
      BY <1>1, <2>1, <2>2
  <2> QED
    BY <2>2, <2>3
<1>8. s[k] \in Nat /\ s[k] <= End(file)
  BY <1>7, FileStarts
<1>9. k <= N => /\ k \in 1..N /\ k + 1 \in 1..(N + 1) /\ file.records[k] \in Nat
                /\ s[k + 1] = s[k] + 16 + file.records[k]
                /\ s[k + 1] \in Nat /\ s[k + 1] <= End(file)
  <2>1. k <= N => k \in 1..N
    BY <1>1, <1>7
  <2> QED
    BY <2>1, FileStarts DEF RecordHeader
<1>10. ASSUME file.size <= r.pos
       PROVE  n = 0 /\ header = 0 /\ read = 0 /\ data = r.pos /\ ~skipped /\ r2.eof
              /\ p.read = 0
  <2>1. n = 0 /\ header = 0
    BY <1>1, <1>10, LengthBeyond
  <2> HIDE DEF header
  <2>2. data = r.pos
    BY <1>1, <2>1
  <2>3. read = 0
    BY <1>1, <1>10, <2>2, LengthBeyond
  <2>4. ~skipped
    BY <1>1, <2>1
  <2> HIDE DEF read, data, skipped
  <2> QED
    BY <1>4, <2>1, <2>2, <2>3, <2>4 DEF RecordHeader
<1> HIDE DEF header, read, p, N, k, s
<1>11. CASE r.pos = s[k] /\ k <= N /\ s[k] + 16 <= file.size
  <2>1. n = file.records[k] /\ header = 16
    <3>1. k \in 1..Len(file.records)
      BY <1>9, <1>11 DEF N
    <3>2. /\ Start(file)[k] + RecordHeader <= file.size
          /\ n \in LengthsOf(file, flip, Start(file)[k])
      BY <1>11 DEF s, RecordHeader
    <3>3. n = file.records[k] /\ GotOf(file, Start(file)[k], RecordHeader) = RecordHeader
      BY <3>1, <3>2, LengthOfRecord
    <3> QED
      BY <1>11, <3>3 DEF header, s, RecordHeader
  <2>2. data = s[k] + 16
    BY <1>11, <2>1
  <2>3. p = Due(file, s[k], file.records[k])
    BY <2>1, <2>2 DEF p, Due, read, RecordHeader
  <2>4. r2.eof => ~skipped /\ read < n
    BY <1>4, <2>1 DEF RecordHeader
  <2>5. s[k + 1] = data + n /\ s[k + 1] <= End(file)
    BY <1>9, <1>11, <2>1, <2>2
  <2>6. data + n <= file.size => read = n
    BY <1>1, <1>2, <1>3, GotIsNat DEF read
  <2> HIDE DEF data
  <2>7. r2.eof => file.size # End(file)
    BY <1>1, <1>2, <1>3, <2>4, <2>5, <2>6
  <2>8. read <= n
    BY <1>1, <1>2, <1>3, GotIsNat DEF read
  <2>9. ~r2.eof /\ Fit(file, k) => r2.pos = s[k + 1]
    <3>1. CASE skipped
      <4>1. k \in DOMAIN file.records
        <5>1. file.records \in Seq(Nat)
          BY FileSize
        <5> QED
          BY <1>9, <1>11, <5>1 DEF N
      <4>2. ~(n <= DEFAULT_READ_BUFFER)
        BY <1>1, <1>2, <3>1
      <4>3. k <= k
        BY <1>1
      <4>4. ~Fit(file, k)
        BY <2>1, <4>1, <4>2, <4>3 DEF Fit
      <4> QED
        BY <4>4
    <3>2. CASE ~skipped /\ ~r2.eof
      <4>1. read = n
        BY <1>2, <1>3, <1>4, <2>8, <3>2
      <4> QED
        BY <1>4, <2>5, <3>2, <4>1
    <3> QED
      BY <3>1, <3>2
  <2> QED
    BY <1>11, <2>3, <2>7, <2>9
<1>12. CASE r.pos = s[k] /\ k <= N /\ ~(s[k] + 16 <= file.size)
  <2>1. PICK x, m \in Nat : x = s[k] /\ m = file.records[k]
    BY <1>8, <1>9, <1>12
  <2>2. s[k + 1] > file.size /\ file.size # End(file)
    <3>1. s[k + 1] = x + 16 + m /\ s[k + 1] <= End(file) /\ ~(x + 16 <= file.size)
      BY <1>9, <1>12, <2>1
    <3>2. x + 16 + m > file.size
      BY <1>1, <2>1, <3>1
    <3> QED
      BY <1>1, <2>1, <3>1, <3>2
  <2>3. header < 16 /\ data >= file.size
    <3>1. CASE file.size <= r.pos
      BY <1>1, <1>10, <3>1
    <3>2. CASE ~(file.size <= r.pos)
      <4>1. header = file.size - r.pos
        BY <1>1, <1>12, <3>2, GotIsNat DEF header, RecordHeader
      <4> QED
        BY <1>1, <1>12, <3>2, <4>1
    <3> QED
      BY <3>1, <3>2
  <2>4. ~r2.eof => r2.pos >= file.size
    <3>1. ~r2.eof => \E l \in Nat : r2.pos = data + l
      BY <1>4, <2>3 DEF RecordHeader
    <3> HIDE DEF data
    <3> QED
      BY <1>1, <1>3, <2>3, <3>1
  <2> QED
    BY <1>12, <2>2, <2>4
<1>13. CASE r.pos = s[k] /\ ~(k <= N)
  <2>1. k = N + 1
    BY <1>1, <1>7, <1>13
  <2>2. r.pos = End(file)
    BY <1>1, <1>13, <2>1
  <2> QED
    BY <1>1, <1>10, <1>13, <2>1, <2>2
<1>14. CASE r.pos >= file.size /\ s[k] > file.size
  <2>1. r2.eof
    BY <1>1, <1>10, <1>14
  <2>2. file.size # End(file) /\ ~(s[k] + 16 <= file.size)
    BY <1>1, <1>8, <1>14
  <2> QED
    BY <2>1, <2>2
<1> QED
  BY <1>7, <1>11, <1>12, <1>13, <1>14

-----------------------------------------------------------------------------
(* What the steps do to the files.                                         *)

Same(f) == /\ theInfo'[f] = theInfo[f]
           /\ reader'[f] = reader[f]
           /\ packets'[f] = packets[f]

\* What a file is like just after it has been opened.
Fresh(f) ==
    /\ theInfo[f].FileName \in DOMAIN PcapFiles
    /\ theInfo[f].EndianFlip \in BOOLEAN
    /\ theInfo[f].Packets = 0 /\ theInfo[f].BytesRead = 0
    /\ reader[f].state \in {"refused", "reading"}
    /\ reader[f].pos = FileHeader
    /\ reader[f].eof <=> FileOf(f).size < FileHeader

LEMMA OpenFileEffect ==
    ASSUME IInv, Opening, OpenFile, NEW f, f = fileIndex
    PROVE  /\ f \in Infos /\ fileIndex' = f + 1
           /\ mainPc' \in {"threads", "exit(-2)"}
           /\ packets' = packets /\ reader' \in [Infos -> Reader]
           /\ \A g \in Infos \ {f} : Same(g)
           /\ Same(f) \/ Fresh(f)'
<1>1. f \in Infos /\ f \in Nat
  BY ArgumentsAssumption DEF IInv, ListOK, OpenFile, Infos, Opening
<1>2. DOMAIN theInfo[f] = Fields /\ DOMAIN theInfo = Infos
  BY <1>1 DEF IInv, ListOK
<1>3. reader \in [Infos -> Reader]
  BY DEF Opening
<1>4. /\ fileIndex' = f + 1 /\ packets' = packets /\ mainPc = "threads"
  BY Zenon DEF OpenFile, Open
<1>5. CASE theInfo[f].FileName \notin DOMAIN PcapFiles
  <2>1. mainPc' = "exit(-2)" /\ UNCHANGED <<theInfo, reader>>
    BY <1>5 DEF OpenFile, Open
  <2> QED
    BY <1>1, <1>3, <1>4, <2>1 DEF Same
<1>6. CASE theInfo[f].FileName \in DOMAIN PcapFiles
  <2> DEFINE short == Got(f, 0, FileHeader) < FileHeader
  <2>1. PICK magic \in nMagicNum(f) :
          /\ reader' = [reader EXCEPT ![f] =
                [state |-> IF magic = "other" THEN "refused" ELSE "reading",
                 pos |-> FileHeader, eof |-> short]]
          /\ theInfo' = [theInfo EXCEPT ![f].EndianFlip = (magic = "swapped"),
                                        ![f].Packets = 0,
                                        ![f].BytesRead = 0]
          /\ mainPc' = mainPc
    BY <1>6 DEF OpenFile, Open
  <2> HIDE DEF short
  <2>2. FileOf(f).size \in Nat /\ short \in BOOLEAN
    BY <1>6, NamedFile, FileSize DEF FileOf, short
  <2>3. short <=> FileOf(f).size < FileHeader
    BY <2>2 DEF short, Got, FileHeader
  <2> DEFINE opened == [state |-> IF magic = "other" THEN "refused" ELSE "reading",
                        pos |-> FileHeader, eof |-> short]
  <2>4. /\ opened \in Reader /\ opened.state \in {"refused", "reading"}
        /\ opened.pos = FileHeader /\ opened.eof = short
    BY <2>2 DEF Reader, FileHeader
  <2>5. reader' = [reader EXCEPT ![f] = opened]
    BY <2>1
  <2> HIDE DEF opened
  <2>6. reader' \in [Infos -> Reader] /\ reader'[f] = opened
    BY <1>1, <1>3, <2>4, <2>5
  <2>7. \A g \in Infos \ {f} : Same(g)
    BY <1>1, <1>2, <1>3, <1>4, <2>1, <2>5 DEF Same
  <2>8. theInfo' = [theInfo EXCEPT ![f] =
           [theInfo[f] EXCEPT !.EndianFlip = (magic = "swapped"),
                                      !.Packets = 0, !.BytesRead = 0]]
    BY <1>1, <1>2, <2>1
  <2>9. /\ theInfo'[f].FileName = theInfo[f].FileName
        /\ theInfo'[f].EndianFlip \in BOOLEAN
        /\ theInfo'[f].Packets = 0 /\ theInfo'[f].BytesRead = 0
    BY <1>1, <1>2, <2>8 DEF Fields
  <2>10. FileOf(f)' = FileOf(f)
    BY <2>9 DEF FileOf
  <2>11. Fresh(f)'
    BY <1>6, <2>3, <2>4, <2>6, <2>9, <2>10 DEF Fresh
  <2> QED
    BY <1>1, <1>4, <2>1, <2>6, <2>7, <2>11
<1> QED
  BY <1>5, <1>6

LEMMA ReadPacketEffect ==
    ASSUME IInv, Opening, NEW f \in Infos, ReadPacket(f)
    PROVE  /\ mainPc = "threads" /\ UNCHANGED <<mainPc, fileIndex>>
           /\ f \in Active /\ reader[f].state = "reading" /\ ~reader[f].eof
           /\ reader' \in [Infos -> Reader] /\ packets' \in [Infos -> Seq(Packet)]
           /\ \A g \in Infos \ {f} : Same(g)
           /\ UNCHANGED <<theInfo[f].FileName, theInfo[f].EndianFlip>>
           /\ \E n \in LengthsOf(FileOf(f), theInfo[f].EndianFlip, reader[f].pos) :
                 /\ n \in Nat
                 /\ Reads(FileOf(f), n, theInfo[f], reader[f], packets[f],
                          theInfo'[f], reader'[f], packets'[f])
<1>1. /\ f \in In("reading") /\ ~reader[f].eof /\ readNextPacket(f)
      /\ mainPc = "threads" /\ UNCHANGED <<mainPc, fileIndex>>
  BY DEF ReadPacket
<1>2. /\ f \in Active /\ reader[f].state = "reading"
  BY <1>1 DEF In, Active
<1>3. /\ reader \in [Infos -> Reader] /\ packets \in [Infos -> Seq(Packet)]
      /\ DOMAIN theInfo = Infos /\ DOMAIN theInfo[f] = Fields
      /\ IsFile(FileOf(f)) /\ theInfo[f].EndianFlip \in BOOLEAN /\ reader[f].pos \in Nat
  BY <1>2, NamedFile DEF Opening, Known, IInv, ListOK, FileOf, Reader
<1> DEFINE file == FileOf(f)
           header == GotOf(file, reader[f].pos, RecordHeader)
           data == reader[f].pos + header
<1>4. LengthsIncluded(f, reader[f].pos) = LengthsOf(file, theInfo[f].EndianFlip, reader[f].pos)
  BY DEF LengthsIncluded, LengthsOf, Got, GotOf
<1>5. PICK n \in LengthsOf(file, theInfo[f].EndianFlip, reader[f].pos) :
         IF DEFAULT_READ_BUFFER < n
         THEN Skip(f, data, n)
         ELSE /\ Deliver(f, [at |-> data, LengthIncluded |-> n, read |-> GotOf(file, data, n)])
              /\ reader' = [reader EXCEPT
                    ![f].pos = data + GotOf(file, data, n),
                    ![f].eof = header < RecordHeader \/ GotOf(file, data, n) < n]
              /\ theInfo' = [theInfo EXCEPT ![f].Packets = @ + 1,
                                            ![f].BytesRead = @ + n]
  BY <1>1, <1>4 DEF readNextPacket, Got, GotOf
<1>6. n \in Nat
  BY <1>3, LengthIsNat
<1> HIDE DEF file, data, header
<1> DEFINE read == GotOf(file, data, n)
<1>7. CASE DEFAULT_READ_BUFFER < n
  <2>0. PICK m \in Freed \cup {n} :
           reader' = [reader EXCEPT ![f].pos = data + m, ![f].eof = FALSE]
    BY <1>5, <1>7 DEF Skip
  <2> DEFINE r2 == [reader[f] EXCEPT !.pos = data + m, !.eof = FALSE]
  <2>1. /\ packets' = [packets EXCEPT ![f] = Append(packets[f], NULL)]
        /\ reader' = [reader EXCEPT ![f] = r2]
        /\ theInfo' = theInfo /\ m \in Nat
    BY <1>3, <1>5, <1>6, <1>7, <2>0, FilesAssumption DEF Skip, Deliver
  <2> HIDE DEF r2
  <2>2. /\ packets'[f] = Append(packets[f], NULL) /\ reader'[f] = r2
        /\ \A g \in Infos \ {f} : Same(g)
        /\ UNCHANGED <<theInfo[f].FileName, theInfo[f].EndianFlip>>
    BY <1>3, <2>1 DEF Same
  <2>3. Reads(file, n, theInfo[f], reader[f], packets[f], theInfo'[f], reader'[f], packets'[f])
    BY <1>7, <2>1, <2>2 DEF Reads, r2, data, header
  <2>4. reader'[f] \in Reader /\ packets'[f] \in Seq(Packet)
    BY <1>3, <1>6, <2>3, ReadsTypes DEF file
  <2>5. reader' \in [Infos -> Reader] /\ packets' \in [Infos -> Seq(Packet)]
    BY <1>3, <2>1, <2>2, <2>4
  <2> QED
    BY <1>1, <1>2, <1>6, <2>2, <2>3, <2>5 DEF file
<1>8. CASE ~(DEFAULT_READ_BUFFER < n)
  <2> DEFINE packet == [at |-> data, LengthIncluded |-> n, read |-> read]
             r2 == [reader[f] EXCEPT !.pos = data + read,
                                     !.eof = header < RecordHeader \/ read < n]
             info2 == [theInfo[f] EXCEPT !.Packets = @ + 1, !.BytesRead = @ + n]
  <2>1. /\ packets' = [packets EXCEPT ![f] = Append(packets[f], packet)]
        /\ reader' = [reader EXCEPT ![f] = r2]
        /\ theInfo' = [theInfo EXCEPT ![f] = info2]
    <3>1. packets' = [packets EXCEPT ![f] = Append(packets[f], packet)]
      BY <1>3, <1>5, <1>8 DEF Deliver
    <3>2. reader' = [reader EXCEPT ![f] = r2]
      BY <1>3, <1>5, <1>8
    <3>3. theInfo' = [theInfo EXCEPT ![f] = info2]
      BY <1>3, <1>5, <1>8
    <3> QED
      BY <3>1, <3>2, <3>3
  <2>2. info2.FileName = theInfo[f].FileName /\ info2.EndianFlip = theInfo[f].EndianFlip
    BY <1>3 DEF Fields
  <2> HIDE DEF r2, packet, info2
  <2>3. /\ packets'[f] = Append(packets[f], packet) /\ reader'[f] = r2
        /\ theInfo'[f] = info2
        /\ \A g \in Infos \ {f} : Same(g)
    BY <1>3, <2>1 DEF Same
  <2>4. Reads(file, n, theInfo[f], reader[f], packets[f], theInfo'[f], reader'[f], packets'[f])
    BY <1>8, <2>3 DEF Reads, r2, packet, info2, data, header
  <2>5. reader'[f] \in Reader /\ packets'[f] \in Seq(Packet)
    BY <1>3, <1>6, <2>4, ReadsTypes DEF file
  <2>6. reader' \in [Infos -> Reader] /\ packets' \in [Infos -> Seq(Packet)]
    BY <1>3, <2>1, <2>3, <2>5
  <2> QED
    BY <1>1, <1>2, <1>6, <2>2, <2>3, <2>4, <2>6 DEF file
<1> QED
  BY <1>7, <1>8

LEMMA CloseFileEffect ==
    ASSUME Opening, NEW f \in Infos, CloseFile(f)
    PROVE  /\ mainPc = "threads" /\ UNCHANGED <<mainPc, fileIndex, packets, theInfo>>
           /\ f \in Active /\ reader[f].eof
           /\ reader' = [reader EXCEPT ![f].state = "closed"]
BY DEF CloseFile, mainVars, listVars, In, Active

(* The other steps leave the files alone, and main is done with the list   *)
(* before the first is opened.                                             *)
LEMMA OtherEffect ==
    ASSUME Opening,
           \/ ReadArguments /\ UNCHANGED readerVars
           \/ Finish
           \/ \E f \in Infos : Dereference(f)
           \/ UNCHANGED vars
    PROVE  /\ UNCHANGED readerVars
           /\ mainPc' \in {"arguments", "lines"} => mainPc \in {"arguments", "lines"}
           /\ Active # {} => theInfo' = theInfo
<1>1. CASE ReadArguments /\ UNCHANGED readerVars
  <2>1. mainPc \in {"arguments", "lines"}
    BY <1>1 DEF ReadArguments, PcapArgument, TextArgument, ReadLine, ThreadsOption,
       WindowOption, Option, Usage, NoInput, StartThreads, Argument
  <2>2. ASSUME NEW f \in Infos
        PROVE  reader[f].state = "unopened"
    <3>1. f \in Nat /\ fileIndex = 0
      BY <2>1 DEF Opening, Infos
    <3>2. reader[f] = Unopened
      BY <3>1 DEF Opening
    <3> QED
      BY <3>2 DEF Unopened
  <2>3. Active = {}
    BY <2>2 DEF Active, In, Opening
  <2> QED
    BY <1>1, <2>1, <2>3
<1>2. CASE Finish \/ \E f \in Infos : Dereference(f)
  BY <1>2 DEF Finish, Report, Dereference, listVars
<1>3. CASE UNCHANGED vars
  BY <1>3 DEF vars, readerVars, mainVars, listVars
<1> QED
  BY <1>1, <1>2, <1>3

-----------------------------------------------------------------------------
(* What the packets of a file are, as long as it is read and afterwards.   *)

ReadOK(f) ==
    reader[f].state \in {"reading", "closed"} =>
        /\ Agrees(theInfo[f], reader[f], packets[f])
        /\ Plain(FileOf(f), theInfo[f].EndianFlip) =>
              Delivered(FileOf(f), reader[f], packets[f])

RInv == Opening /\ \A f \in Infos : ReadOK(f)

LEMMA ActiveStates ==
    ASSUME Opening
    PROVE  Active = {f \in Infos : reader[f].state \in {"reading", "closed"}}
BY DEF Opening, Active, In

LEMMA SameKept ==
    ASSUME NEW f, Same(f), Known(f), ReadOK(f)
    PROVE  Known(f)' /\ ReadOK(f)'
BY DEF Same, Known, ReadOK, FileOf

LEMMA FreshIsOK ==
    ASSUME NEW f, Fresh(f)', packets'[f] = <<>>
    PROVE  Known(f)' /\ ReadOK(f)'
<1> DEFINE info == theInfo'[f]
           r == reader'[f]
           file == PcapFiles[info.FileName]
<1>1. /\ info.FileName \in DOMAIN PcapFiles /\ info.EndianFlip \in BOOLEAN
      /\ info.Packets = 0 /\ info.BytesRead = 0
      /\ r.state \in {"refused", "reading"} /\ r.pos = FileHeader
      /\ r.eof <=> file.size < FileHeader
  BY DEF Fresh, FileOf
<1>2. Known(f)'
  BY <1>1 DEF Known, FileHeader
<1>3. Agrees(info, r, <<>>)
  <2>1. Real(<<>>) = {}
    BY DEF Real
  <2>2. Cardinality({}) = 0 /\ Sum(Lengths(<<>>), {}) = 0
    BY FS_EmptySet, SumEmpty
  <2> QED
    BY <1>1, <2>1, <2>2 DEF Agrees
<1>4. Delivered(file, r, <<>>)
  <2>1. IsFile(file)
    BY <1>1, NamedFile
  <2>2. /\ file.size \in Nat /\ Len(file.records) \in Nat
        /\ End(file) \in Nat /\ file.size <= End(file)
    BY <2>1, FileSize
  <2>3. Start(file)[1] = FileHeader /\ FileHeader <= End(file)
    <3>1. 1 \in 1..(Len(file.records) + 1)
      BY <2>2
    <3>2. Start(file)[1] = FileHeader
      BY <2>1, FileSize, StartsInOrder
    <3> QED
      BY <2>1, <3>1, <3>2, FileStarts
  <2>4. Len(<<>>) = 0
    OBVIOUS
  <2>5. Stands(file, r, 0)
    BY <1>1, <2>2, <2>3 DEF Stands
  <2>6. r.eof => file.size # End(file)
    BY <1>1, <2>2, <2>3 DEF FileHeader
  <2> QED
    BY <2>2, <2>4, <2>5, <2>6 DEF Delivered
<1>5. ReadOK(f)'
  BY <1>3, <1>4 DEF ReadOK, FileOf
<1> QED
  BY <1>2, <1>5

LEMMA OpenFileRInv == IInv /\ RInv /\ OpenFile => RInv'
<1> SUFFICES ASSUME IInv, RInv, OpenFile PROVE RInv'
  OBVIOUS
<1>1. PICK f : f = fileIndex
  OBVIOUS
<1>2. /\ f \in Infos /\ fileIndex' = f + 1 /\ mainPc' \in {"threads", "exit(-2)"}
      /\ packets' = packets /\ reader' \in [Infos -> Reader]
      /\ \A g \in Infos \ {f} : Same(g)
      /\ Same(f) \/ Fresh(f)'
  BY <1>1, OpenFileEffect DEF RInv
<1>3. reader[f] = Unopened /\ packets[f] = <<>>
  BY <1>1, <1>2 DEF RInv, Opening, Known, Unopened, Infos
<1>4. ASSUME NEW g \in Infos
      PROVE  Known(g)' /\ ReadOK(g)'
  <2>1. CASE Same(g)
    BY <2>1, SameKept DEF RInv, Opening
  <2>2. CASE g = f /\ Fresh(f)'
    BY <1>2, <1>3, <2>2, FreshIsOK
  <2> QED
    BY <1>2, <2>1, <2>2
<1>5. ASSUME NEW g \in Infos, g >= fileIndex'
      PROVE  reader'[g] = Unopened
  <2>1. g # f /\ g >= fileIndex
    BY <1>1, <1>2, <1>5 DEF Infos
  <2> QED
    BY <1>2, <2>1 DEF RInv, Opening, Same
<1>6. fileIndex' \in Nat /\ packets' \in [Infos -> Seq(Packet)]
  BY <1>2 DEF Infos, RInv, Opening
<1> QED
  BY <1>2, <1>4, <1>5, <1>6 DEF RInv, Opening

LEMMA ReadPacketRInv == ASSUME NEW f \in Infos, IInv, RInv, ReadPacket(f) PROVE RInv'
<1> DEFINE file == FileOf(f)
           flip == theInfo[f].EndianFlip
<1>1. /\ mainPc = "threads" /\ UNCHANGED <<mainPc, fileIndex>>
      /\ reader[f].state = "reading" /\ ~reader[f].eof
      /\ reader' \in [Infos -> Reader] /\ packets' \in [Infos -> Seq(Packet)]
      /\ \A g \in Infos \ {f} : Same(g)
      /\ UNCHANGED <<theInfo[f].FileName, theInfo[f].EndianFlip>>
  BY ReadPacketEffect DEF RInv
<1>2. PICK n \in LengthsOf(file, flip, reader[f].pos) :
         /\ n \in Nat
         /\ Reads(file, n, theInfo[f], reader[f], packets[f],
                  theInfo'[f], reader'[f], packets'[f])
  BY ReadPacketEffect DEF RInv
<1>3. /\ reader[f] \in Reader /\ packets[f] \in Seq(Packet) /\ reader[f] # Unopened
      /\ theInfo[f].FileName \in DOMAIN PcapFiles /\ flip \in BOOLEAN
      /\ reader[f].pos >= FileHeader /\ DOMAIN theInfo[f] = Fields
      /\ Agrees(theInfo[f], reader[f], packets[f])
      /\ Plain(file, flip) => Delivered(file, reader[f], packets[f])
  BY <1>1 DEF RInv, Opening, Known, ReadOK, Unopened, IInv, ListOK
<1>4. IsFile(file) /\ FileOf(f)' = file
  BY <1>1, <1>3, NamedFile DEF FileOf
<1> HIDE DEF file, flip
<1>5. reader'[f].state = reader[f].state /\ reader[f].pos <= reader'[f].pos
      /\ reader'[f] \in Reader
  BY <1>2, <1>3, <1>4, ReadsTypes
<1>6. Known(f)'
  <2>1. reader[f].pos \in Nat /\ reader'[f].pos \in Nat
    BY <1>3, <1>5 DEF Reader
  <2>2. reader'[f].pos >= FileHeader
    BY <1>3, <1>5, <2>1 DEF FileHeader
  <2> QED
    BY <1>1, <1>3, <1>5, <2>2 DEF Known, flip
<1>7. Agrees(theInfo'[f], reader'[f], packets'[f])
  BY <1>2, <1>3, <1>4, AgreesAfter
<1>8. Plain(file, flip) => Delivered(file, reader'[f], packets'[f])
  BY <1>1, <1>2, <1>3, <1>4, DeliveredAfter
<1>9. ReadOK(f)'
  BY <1>1, <1>4, <1>7, <1>8 DEF ReadOK, flip
<1>10. ASSUME NEW g \in Infos
       PROVE  Known(g)' /\ ReadOK(g)' /\ (g >= fileIndex' => reader'[g] = Unopened)
  <2>1. CASE g = f
    BY <1>1, <1>3, <1>6, <1>9, <2>1 DEF RInv, Opening
  <2>2. CASE g # f
    <3>1. Same(g)
      BY <1>1, <2>2
    <3> QED
      BY <1>1, <3>1, SameKept DEF RInv, Opening, Same
  <2> QED
    BY <2>1, <2>2
<1>11. fileIndex' \in Nat
  BY <1>1 DEF RInv, Opening
<1> QED
  BY <1>1, <1>10, <1>11 DEF RInv, Opening

LEMMA CloseFileRInv == ASSUME NEW f \in Infos, RInv, CloseFile(f) PROVE RInv'
<1>1. /\ mainPc = "threads" /\ UNCHANGED <<mainPc, fileIndex, packets, theInfo>>
      /\ f \in Active /\ reader[f].eof
      /\ reader' = [reader EXCEPT ![f].state = "closed"]
  BY CloseFileEffect DEF RInv
<1>2. reader \in [Infos -> Reader] /\ reader[f] \in Reader
  BY DEF RInv, Opening
<1>3. /\ reader'[f].pos = reader[f].pos /\ reader'[f].eof = reader[f].eof
      /\ reader'[f].state = "closed" /\ reader'[f] \in Reader
  BY <1>1, <1>2 DEF Reader
<1>4. reader' \in [Infos -> Reader] /\ \A g \in Infos \ {f} : reader'[g] = reader[g]
  BY <1>1, <1>2, <1>3
<1>5. reader[f].state \in {"reading", "closed"}
  BY <1>1, ActiveStates DEF RInv
<1>6. Known(f)' /\ ReadOK(f)'
  <2>1. Known(f) /\ ReadOK(f)
    BY DEF RInv, Opening
  <2>2. Known(f)'
    BY <1>1, <1>3, <1>5, <2>1 DEF Known
  <2>3. Agrees(theInfo[f], reader'[f], packets[f])
    BY <1>3, <1>5, <2>1 DEF ReadOK, Agrees
  <2>4. Plain(FileOf(f), theInfo[f].EndianFlip) =>
           Delivered(FileOf(f), reader'[f], packets[f])
    BY <1>3, <1>5, <2>1 DEF ReadOK, Delivered, Stands
  <2> QED
    BY <1>1, <2>2, <2>3, <2>4 DEF ReadOK, FileOf
<1>7. ASSUME NEW g \in Infos
      PROVE  Known(g)' /\ ReadOK(g)' /\ (g >= fileIndex' => reader'[g] = Unopened)
  <2>1. CASE g = f
    BY <1>1, <1>5, <1>6, <2>1 DEF RInv, Opening, Unopened
  <2>2. CASE g # f
    <3>1. Same(g)
      BY <1>1, <1>4, <2>2 DEF Same
    <3> QED
      BY <1>1, <3>1, SameKept DEF RInv, Opening, Same
  <2> QED
    BY <2>1, <2>2
<1> QED
  BY <1>1, <1>4, <1>7 DEF RInv, Opening

LEMMA OtherRInv ==
    ASSUME RInv,
           \/ ReadArguments /\ UNCHANGED readerVars
           \/ Finish
           \/ \E f \in Infos : Dereference(f)
           \/ UNCHANGED vars
    PROVE  RInv'
<1>1. /\ UNCHANGED readerVars
      /\ mainPc' \in {"arguments", "lines"} => mainPc \in {"arguments", "lines"}
      /\ Active # {} => theInfo' = theInfo
  BY OtherEffect DEF RInv
<1>2. ASSUME NEW f \in Infos
      PROVE  Known(f)' /\ ReadOK(f)'
  <2>1. CASE f \in Active
    <3>1. Same(f)
      BY <1>1, <2>1 DEF Same, readerVars
    <3> QED
      BY <3>1, SameKept DEF RInv, Opening
  <2>2. CASE f \notin Active
    <3>1. reader'[f].state \notin {"reading", "closed"}
      BY <1>1, <2>2, ActiveStates DEF RInv, readerVars
    <3> QED
      BY <1>1, <3>1 DEF RInv, Opening, Known, ReadOK, readerVars
  <2> QED
    BY <2>1, <2>2
<1> QED
  BY <1>1, <1>2 DEF RInv, Opening, readerVars

LEMMA InitRInv == Init => RInv
<1> SUFFICES ASSUME Init PROVE RInv
  OBVIOUS
<1>1. /\ fileIndex = 0
      /\ reader = [f \in Infos |-> Unopened]
      /\ packets = [f \in Infos |-> <<>>]
  BY DEF Init, Infos
<1>2. Unopened \in Reader /\ Unopened.state = "unopened"
  BY DEF Unopened, Reader
<1>3. <<>> \in Seq(Packet)
  OBVIOUS
<1>4. reader \in [Infos -> Reader] /\ packets \in [Infos -> Seq(Packet)]
  BY <1>1, <1>2, <1>3
<1>5. \A f \in Infos : reader[f] = Unopened /\ Known(f) /\ ReadOK(f)
  BY <1>1, <1>2 DEF Known, ReadOK
<1> QED
  BY <1>1, <1>4, <1>5 DEF RInv, Opening

LEMMA ReadersInvariance == Spec => []RInv
<1>1. IInv /\ RInv /\ [Next]_vars => RInv'
  <2> SUFFICES ASSUME IInv, RInv, [Next]_vars PROVE RInv'
    OBVIOUS
  <2>1. CASE OpenFile
    BY <2>1, OpenFileRInv
  <2>2. CASE \E f \in Infos : ReadPacket(f) \/ CloseFile(f)
    BY <2>2, ReadPacketRInv, CloseFileRInv
  <2>3. CASE \/ ReadArguments /\ UNCHANGED readerVars
             \/ Finish
             \/ \E f \in Infos : Dereference(f)
             \/ UNCHANGED vars
    BY <2>3, OtherRInv
  <2> QED
    BY <2>1, <2>2, <2>3 DEF Next, Stopped, Infos
<1>2. Spec => []IInv
  BY Invariance, PTL
<1> QED
  BY <1>1, <1>2, InitRInv, PTL DEF Spec

\* The sum of the lengths as InfoAgrees has it.
LengthSum(ps, U) == MapThenSumSet(LAMBDA k : ps[k].LengthIncluded, U)

LengthSums(g, ps, U) ==
    g = [s \in SUBSET U |-> IF s = {} THEN 0
                            ELSE ps[Taken(s)].LengthIncluded + g[s \ {Taken(s)}]]

LEMMA SumOfLengthSums ==
    ASSUME NEW ps, NEW U, \E g : LengthSums(g, ps, U)
    PROVE  \E g : LengthSums(g, ps, U)
                  /\ LengthSum(ps, U) = g[U]
BY Zenon DEF LengthSum, LengthSums, Taken, MapThenSumSet, MapThenFoldSet

LEMMA SumOfLengths ==
    ASSUME NEW ps \in Seq(Packet)
    PROVE  LengthSum(ps, Real(ps)) = Sum(Lengths(ps), Real(ps))
<1> DEFINE U == Real(ps)
<1>1. IsFiniteSet(U) /\ \A k \in U : Lengths(ps)[k] \in Nat
                                    /\ Lengths(ps)[k] = ps[k].LengthIncluded
  BY RealIsFinite
<1> HIDE DEF U
<1>2. \A s \in SUBSET U : s # {} => Taken(s) \in U
  BY DEF Taken
<1>3. ASSUME NEW g
      PROVE  Sums(g, Lengths(ps), U) <=> LengthSums(g, ps, U)
  <2>1. \A s \in SUBSET U :
           Take(g, Lengths(ps), s)
             = IF s = {} THEN 0 ELSE ps[Taken(s)].LengthIncluded + g[s \ {Taken(s)}]
    BY <1>1, <1>2 DEF Take
  <2> QED
    BY <2>1, Zenon DEF Sums, LengthSums
<1>4. \E g : Sums(g, Lengths(ps), U)
  BY <1>1, SumsExist
<1>5. PICK h : LengthSums(h, ps, U)
               /\ LengthSum(ps, U) = h[U]
  BY <1>3, <1>4, SumOfLengthSums
<1>6. PICK g : Sums(g, Lengths(ps), U) /\ Sum(Lengths(ps), U) = g[U]
  BY <1>4, SumOfSums
<1>7. g[U] = h[U]
  BY <1>1, <1>3, <1>5, <1>6, SumsAgree
<1> QED
  BY <1>5, <1>6, <1>7, Zenon DEF U

(* For files of any number, length and byte order: the counters of theInfo *)
(* are those of the packets delivered, none longer than its buffer, and no *)
(* byte of a file is delivered twice, however its end is cut off.          *)
THEOREM InfoIs == Spec => []InfoAgrees
<1>1. ASSUME RInv PROVE InfoAgrees
  <2> SUFFICES ASSUME NEW f \in Active
               PROVE  LET real == {k \in DOMAIN packets[f] : packets[f][k] # NULL}
                      IN  /\ theInfo[f].Packets = Cardinality(real)
                          /\ theInfo[f].BytesRead =
                                MapThenSumSet(LAMBDA k : packets[f][k].LengthIncluded, real)
                          /\ \A k \in real :
                                /\ packets[f][k].LengthIncluded <= DEFAULT_READ_BUFFER
                                /\ \A l \in real : k < l =>
                                      packets[f][k].at + packets[f][k].read <= packets[f][l].at
    BY Zenon DEF InfoAgrees, Active
  <2>1. Agrees(theInfo[f], reader[f], packets[f]) /\ packets[f] \in Seq(Packet)
    BY <1>1, ActiveStates DEF RInv, Opening, ReadOK
  <2>2. Sum(Lengths(packets[f]), Real(packets[f])) = LengthSum(packets[f], Real(packets[f]))
    BY <2>1, SumOfLengths
  <2>3. /\ theInfo[f].Packets = Cardinality(Real(packets[f]))
        /\ theInfo[f].BytesRead = LengthSum(packets[f], Real(packets[f]))
        /\ \A k \in Real(packets[f]) :
              /\ packets[f][k].LengthIncluded <= DEFAULT_READ_BUFFER
              /\ \A l \in Real(packets[f]) : k < l =>
                    packets[f][k].at + packets[f][k].read <= packets[f][l].at
    BY <2>1, <2>2 DEF Agrees
  <2> QED
    BY <2>3, Zenon DEF LengthSum, Real
<1> QED
  BY <1>1, ReadersInvariance, PTL

(* For files of any number and length, cut off anywhere, that are of this  *)
(* byte order or have short records, and for any value freed memory may    *)
(* have: each record is delivered once, from its place and with its        *)
(* length, up to the first that does not fit, and a whole file in which    *)
(* all fit gives every record and not a byte more.                         *)
THEOREM RecordsAreDelivered == Spec => []RecordsDelivered
<1>1. ASSUME RInv PROVE RecordsDelivered
  <2> SUFFICES ASSUME NEW f \in Active, Legible(f)
               PROVE  LET file == FileOf(f)
                          n == Len(file.records)
                          m == Len(packets[f])
                      IN  /\ \A k \in 1..m :
                                LET from == Start(file)[k] + RecordHeader
                                IN  k <= n /\ from <= file.size /\ Fit(file, k - 1) =>
                                       packets[f][k] =
                                          IF file.records[k] > DEFAULT_READ_BUFFER THEN NULL
                                          ELSE [at |-> from,
                                                LengthIncluded |-> file.records[k],
                                                read |-> Got(f, from, file.records[k])]
                          /\ Fit(file, n) => m <= n + 1
                          /\ Fit(file, n) /\ reader[f].state = "closed" /\ file.size = End(file)
                             => m >= n /\ (m > n => packets[f][n + 1].read = 0)
    BY Zenon DEF RecordsDelivered, Active
  <2>1. /\ Plain(FileOf(f), theInfo[f].EndianFlip)
        /\ reader[f].state = "closed" => reader[f].eof
    BY <1>1, ActiveStates DEF RInv, Opening, Known, Legible, Plain
  <2>2. Delivered(FileOf(f), reader[f], packets[f])
    BY <1>1, <2>1, ActiveStates DEF RInv, Opening, ReadOK
  <2>3. \A k : GotOf(FileOf(f), Start(FileOf(f))[k] + RecordHeader, FileOf(f).records[k])
                 = Got(f, Start(FileOf(f))[k] + RecordHeader, FileOf(f).records[k])
    BY Zenon DEF Got, GotOf
  <2>4. Len(FileOf(f).records) \in Nat
    <3>1. IsFile(FileOf(f))
      BY <1>1, ActiveStates, NamedFile DEF RInv, Opening, Known, FileOf
    <3> QED
      BY <3>1, FileSize
  <2> QED
    BY <2>1, <2>2, <2>3, <2>4 DEF Delivered, Due
<1> QED
  BY <1>1, ReadersInvariance, PTL

-----------------------------------------------------------------------------
(* Where the parts of a flattened sequence are.                            *)

\* Sequence k of seqs is behind off[k] elements.
OffsetsOf(seqs, off) ==
    /\ off \in [1..(Len(seqs) + 1) -> Nat]
    /\ off[1] = 0
    /\ \A k \in 1..Len(seqs) : off[k + 1] = off[k] + Len(seqs[k])
    /\ \A k \in 1..(Len(seqs) + 1) : \A j \in 1..k : off[j] <= off[k]

Placed(flat, seqs, off) ==
    /\ Len(flat) = off[Len(seqs) + 1]
    /\ \A k \in 1..Len(seqs) : \A j \in 1..Len(seqs[k]) : flat[off[k] + j] = seqs[k][j]

Joined(t, s, u) == t = s \o u

LEMMA Joins ==
    ASSUME NEW S, NEW s \in Seq(S), NEW u \in Seq(S), NEW t, Joined(t, s, u)
    PROVE  /\ t \in Seq(S) /\ Len(s) \in Nat /\ Len(u) \in Nat
           /\ Len(t) = Len(s) + Len(u)
           /\ \A k \in 1..Len(s) : t[k] = s[k]
           /\ \A k \in 1..Len(u) : t[Len(s) + k] = u[k]
BY DEF Joined

\* What FlattenSeq computes for the first k sequences.
Flat(f, seqs, k) == IF k = 1 THEN seqs[k] ELSE f[k - 1] \o seqs[k]

Flats(f, seqs, n) == f = [k \in 1..n |-> Flat(f, seqs, k)]

LEMMA FlatsExist ==
    ASSUME NEW S, NEW n \in Nat, NEW seqs \in [1..n -> Seq(S)]
    PROVE  \E f : Flats(f, seqs, n)
<1> DEFINE Until(f, m) == /\ f \in [1..n -> Seq(S)]
                          /\ \A k \in 1..n : k <= m => f[k] = Flat(f, seqs, k)
           Bad == {m \in Nat : ~\E f : Until(f, m)}
<1>1. Bad = {}
  <2> SUFFICES ASSUME Bad # {}
               PROVE  FALSE
    OBVIOUS
  <2>1. Bad \in SUBSET Nat
    OBVIOUS
  <2>2. PICK m \in Bad : \A l \in Bad : m <= l
    <3> HIDE DEF Bad
    <3> QED
      BY <2>1, Smallest
  <2>3. m \in Nat /\ ~\E f : Until(f, m)
    BY <2>2
  <2>4. CASE m = 0
    <3>1. Until(seqs, 0)
      OBVIOUS
    <3> QED
      BY <2>3, <2>4, <3>1
  <2>5. CASE m # 0
    <3>1. m - 1 \in Nat /\ ~(m <= m - 1)
      BY <2>3, <2>5
    <3>2. PICK f : Until(f, m - 1)
      BY <2>2, <3>1
    <3> DEFINE g == [k \in 1..n |-> Flat(f, seqs, k)]
    <3>3. g \in [1..n -> Seq(S)]
      <4>1. ASSUME NEW k \in 1..n
            PROVE  Flat(f, seqs, k) \in Seq(S)
        <5>1. CASE k = 1
          BY <5>1 DEF Flat
        <5>2. CASE k # 1
          <6>1. k - 1 \in 1..n
            BY <5>2
          <6>2. f[k - 1] \in Seq(S) /\ seqs[k] \in Seq(S)
            BY <3>2, <6>1
          <6>3. PICK a, b \in Seq(S) : a = f[k - 1] /\ b = seqs[k]
            BY <6>2
          <6>4. a \o b \in Seq(S)
            OBVIOUS
          <6> QED
            BY <5>2, <6>3, <6>4, Zenon DEF Flat
        <5> QED
          BY <5>1, <5>2
      <4> QED
        BY <4>1
    <3>4. ASSUME NEW k \in 1..n, k <= m
          PROVE  g[k] = Flat(g, seqs, k)
      <4>1. CASE k = 1
        BY <4>1 DEF Flat
      <4>2. CASE k # 1
        <5>1. k - 1 \in 1..n /\ k - 1 <= m - 1
          BY <2>3, <3>4, <4>2
        <5>2. g[k - 1] = f[k - 1]
          BY <3>2, <5>1
        <5>3. g[k] = f[k - 1] \o seqs[k]
          BY <4>2, Zenon DEF Flat
        <5> QED
          BY <4>2, <5>2, <5>3, Zenon DEF Flat
      <4> QED
        BY <4>1, <4>2
    <3>5. Until(g, m)
      BY <3>3, <3>4
    <3> QED
      BY <2>3, <3>5
  <2> QED
    BY <2>4, <2>5
<1>2. PICK f : Until(f, n)
  BY <1>1
<1>3. Flats(f, seqs, n)
  BY <1>2 DEF Flats
<1> QED
  BY <1>3

LEMMA FlattenUnfolds ==
    ASSUME NEW seqs, Len(seqs) # 0,
           \E f : Flats(f, seqs, Len(seqs))
    PROVE  \E f : Flats(f, seqs, Len(seqs)) /\ FlattenSeq(seqs) = f[Len(seqs)]
BY Zenon DEF FlattenSeq, Flats, Flat

LEMMA FlatsInOrder ==
    ASSUME NEW S, NEW n \in Nat \ {0}, NEW seqs \in [1..n -> Seq(S)],
           NEW f, Flats(f, seqs, n)
    PROVE  /\ f \in [1..n -> Seq(S)]
           /\ f[1] = seqs[1]
           /\ \A k \in 1..n : k # 1 => k - 1 \in 1..n /\ Joined(f[k], f[k - 1], seqs[k])
<1>1. f[1] = seqs[1] /\ 1 \in 1..n
  BY DEF Flat, Flats
<1>2. \A k \in 1..n : k # 1 => Joined(f[k], f[k - 1], seqs[k])
  BY Zenon DEF Flat, Flats, Joined
<1>3. \A k \in 1..n : k # 1 => k - 1 \in 1..n
  OBVIOUS
<1> DEFINE Bad == {k \in 1..n : f[k] \notin Seq(S)}
<1>4. Bad = {}
  <2> SUFFICES ASSUME Bad # {}
               PROVE  FALSE
    OBVIOUS
  <2>1. Bad \in SUBSET Nat
    OBVIOUS
  <2>2. PICK k \in Bad : \A m \in Bad : k <= m
    <3> HIDE DEF Bad
    <3> QED
      BY <2>1, Smallest
  <2>3. k # 1
    BY <1>1, <2>2
  <2>4. k - 1 \in 1..n /\ k - 1 \notin Bad
    BY <1>3, <2>2, <2>3
  <2>5. f[k - 1] \in Seq(S) /\ seqs[k] \in Seq(S) /\ Joined(f[k], f[k - 1], seqs[k])
    BY <1>2, <2>2, <2>3, <2>4
  <2>6. f[k] \in Seq(S)
    BY <2>5, Joins
  <2> QED
    BY <2>2, <2>6
<1>5. f \in [1..n -> Seq(S)]
  BY <1>4 DEF Flats
<1> QED
  BY <1>1, <1>2, <1>3, <1>5

LEMMA OffsetsExist ==
    ASSUME NEW S, NEW n \in Nat, NEW seqs \in [1..n -> Seq(S)], Len(seqs) = n
    PROVE  /\ FlattenSeq(seqs) \in Seq(S)
           /\ \E off : OffsetsOf(seqs, off) /\ Placed(FlattenSeq(seqs), seqs, off)
<1>1. CASE n = 0
  <2> DEFINE off == [k \in 1..(0 + 1) |-> 0]
  <2>1. FlattenSeq(seqs) = seqs
    BY <1>1 DEF FlattenSeq
  <2>2. OffsetsOf(seqs, off)
    BY <1>1 DEF OffsetsOf
  <2>3. Placed(seqs, seqs, off)
    BY <1>1 DEF Placed
  <2>4. seqs \in Seq(S)
    <3>1. seqs \in [1..0 -> S]
      BY <1>1
    <3> QED
      BY <3>1
  <2> QED
    BY <2>1, <2>2, <2>3, <2>4
<1>2. CASE n # 0
  <2>1. PICK f : Flats(f, seqs, n) /\ FlattenSeq(seqs) = f[n]
    BY <1>2, FlatsExist, FlattenUnfolds
  <2>2. /\ f \in [1..n -> Seq(S)] /\ f[1] = seqs[1] /\ n \in Nat /\ n >= 1
        /\ \A k \in 1..n : k # 1 => k - 1 \in 1..n /\ Joined(f[k], f[k - 1], seqs[k])
    <3>1. n \in Nat \ {0} /\ n >= 1
      BY <1>2
    <3>2. Flats(f, seqs, n)
      BY <2>1
    <3>3. /\ f \in [1..n -> Seq(S)]
          /\ f[1] = seqs[1]
          /\ \A k \in 1..n : k # 1 => k - 1 \in 1..n /\ Joined(f[k], f[k - 1], seqs[k])
      BY <3>1, <3>2, FlatsInOrder, Zenon
    <3> QED
      BY <3>1, <3>3, Zenon
  <2> DEFINE off == [k \in 1..(n + 1) |-> IF k = 1 THEN 0 ELSE Len(f[k - 1])]
  <2>3. \A k \in 1..(n + 1) : k # 1 => k - 1 \in 1..n /\ off[k] = Len(f[k - 1])
    BY <2>2
  <2>4. \A k \in 1..n : /\ Len(f[k]) \in Nat /\ Len(seqs[k]) \in Nat
                        /\ k + 1 \in 1..(n + 1) /\ k \in 1..(n + 1) /\ off[k + 1] = Len(f[k])
    BY <2>2
  <2>5. off \in [1..(n + 1) -> Nat] /\ off[1] = 0 /\ DOMAIN off = 1..(n + 1)
    BY <2>2
  <2> HIDE DEF off
  <2>6. ASSUME NEW k \in 1..n
        PROVE  /\ off[k + 1] = off[k] + Len(seqs[k])
               /\ \A j \in 1..Len(seqs[k]) : f[k][off[k] + j] = seqs[k][j]
               /\ k # 1 => \A x \in 1..off[k] : f[k][x] = f[k - 1][x]
    <3>1. CASE k = 1
      BY <2>2, <2>4, <2>5, <3>1
    <3>2. CASE k # 1
      <4>1. k - 1 \in 1..n /\ Joined(f[k], f[k - 1], seqs[k]) /\ off[k] = Len(f[k - 1])
        BY <2>2, <2>3, <2>4, <3>2
      <4>2. /\ Len(f[k]) = Len(f[k - 1]) + Len(seqs[k])
            /\ \A x \in 1..Len(f[k - 1]) : f[k][x] = f[k - 1][x]
            /\ \A x \in 1..Len(seqs[k]) : f[k][Len(f[k - 1]) + x] = seqs[k][x]
        <5>1. f[k - 1] \in Seq(S) /\ seqs[k] \in Seq(S)
          BY <2>2, <4>1
        <5>2. PICK a, b, t : /\ a = f[k - 1] /\ b = seqs[k] /\ t = f[k]
                             /\ a \in Seq(S) /\ b \in Seq(S) /\ Joined(t, a, b)
          BY <4>1, <5>1, Zenon
        <5>3. /\ Len(t) = Len(a) + Len(b)
              /\ \A x \in 1..Len(a) : t[x] = a[x]
              /\ \A x \in 1..Len(b) : t[Len(a) + x] = b[x]
          <6>1. a \in Seq(S) /\ b \in Seq(S) /\ t = a \o b
            BY <5>2 DEF Joined
          <6> QED
            BY <6>1
        <5>4. Len(f[k]) = Len(f[k - 1]) + Len(seqs[k])
          BY <5>2, <5>3
        <5>5. ASSUME NEW x \in 1..Len(f[k - 1])
              PROVE  f[k][x] = f[k - 1][x]
          BY <5>2, <5>3
        <5>6. ASSUME NEW x \in 1..Len(seqs[k])
              PROVE  f[k][Len(f[k - 1]) + x] = seqs[k][x]
          BY <5>2, <5>3
        <5> QED
          BY <5>4, <5>5, <5>6
      <4> QED
        BY <2>4, <4>1, <4>2
    <3> QED
      BY <3>1, <3>2
  <2> DEFINE Bad == {k \in 1..(n + 1) : \E j \in 1..k : ~(off[j] <= off[k])}
  <2>7. Bad = {}
    <3> SUFFICES ASSUME Bad # {}
                 PROVE  FALSE
      OBVIOUS
    <3>1. Bad \in SUBSET Nat
      OBVIOUS
    <3>2. PICK k \in Bad : \A m \in Bad : k <= m
      <4> HIDE DEF Bad
      <4> QED
        BY <3>1, Smallest
    <3>3. PICK j \in 1..k : ~(off[j] <= off[k])
      BY <3>2
    <3>4. k \in 1..(n + 1) /\ off[k] \in Nat
      BY <2>5, <3>2
    <3>5. j # k
      BY <3>3, <3>4
    <3>6. j \in 1..(k - 1) /\ k - 1 \in 1..n /\ k - 1 \in 1..(n + 1) /\ (k - 1) + 1 = k
          /\ ~(k <= k - 1)
      BY <2>2, <3>3, <3>4, <3>5
    <3>7. off[j] <= off[k - 1]
      BY <3>2, <3>6
    <3>8. off[k] = off[k - 1] + Len(seqs[k - 1])
      BY <2>6, <3>6
    <3>9. off[j] \in Nat /\ off[k - 1] \in Nat /\ Len(seqs[k - 1]) \in Nat
      <4>1. j \in 1..(n + 1)
        BY <2>2, <3>6
      <4> QED
        BY <2>4, <2>5, <3>6, <4>1
    <3>10. PICK x, y, z \in Nat : x = off[j] /\ y = off[k - 1] /\ z = Len(seqs[k - 1])
      BY <3>9
    <3> QED
      BY <3>3, <3>7, <3>8, <3>10
  <2> DEFINE Wrong == {m \in 1..n : \E k \in 1..m : \E j \in 1..Len(seqs[k]) :
                                       f[m][off[k] + j] # seqs[k][j]}
  <2>8. Wrong = {}
    <3> SUFFICES ASSUME Wrong # {}
                 PROVE  FALSE
      OBVIOUS
    <3>1. Wrong \in SUBSET Nat
      OBVIOUS
    <3>2. PICK m \in Wrong : \A l \in Wrong : m <= l
      <4> HIDE DEF Wrong
      <4> QED
        BY <3>1, Smallest
    <3>33. PICK k \in 1..m : \E j \in 1..Len(seqs[k]) : f[m][off[k] + j] # seqs[k][j]
      BY <3>2
    <3>3. PICK j \in 1..Len(seqs[k]) : f[m][off[k] + j] # seqs[k][j]
      BY <3>33
    <3>4. m \in 1..n /\ k # m
      <4>1. m \in 1..n
        BY <3>2
      <4>2. k = m => f[m][off[k] + j] = seqs[k][j]
        BY <2>6, <4>1
      <4> QED
        BY <3>3, <4>1, <4>2
    <3>5. m # 1 /\ m - 1 \in 1..n /\ k \in 1..(m - 1) /\ k \in 1..n /\ ~(m <= m - 1)
          /\ k + 1 \in 1..m /\ m \in 1..(n + 1)
      BY <2>2, <3>3, <3>4
    <3>6. f[m - 1][off[k] + j] = seqs[k][j]
      <4>1. m - 1 \notin Wrong
        <5> HIDE DEF Wrong
        <5> QED
          BY <3>2, <3>5
      <4> QED
        BY <3>5, <4>1
    <3>7. off[k + 1] = off[k] + Len(seqs[k]) /\ off[k + 1] <= off[m]
      BY <2>6, <2>7, <3>5
    <3>8. off[k] \in Nat /\ off[m] \in Nat /\ Len(seqs[k]) \in Nat
      BY <2>4, <2>5, <3>5
    <3>9. off[k] + j \in 1..off[m]
      <4>1. PICK x, y, z \in Nat : x = off[k] /\ y = off[m] /\ z = Len(seqs[k])
        BY <3>8
      <4>2. j \in 1..z /\ x + z <= y
        BY <3>7, <4>1
      <4>3. x + j \in 1..y
        BY <4>2
      <4> QED
        BY <4>1, <4>3
    <3>10. f[m][off[k] + j] = f[m - 1][off[k] + j]
      BY <2>6, <3>4, <3>5, <3>9
    <3> QED
      BY <3>3, <3>6, <3>10
  <2>9. OffsetsOf(seqs, off)
    BY <2>5, <2>6, <2>7 DEF OffsetsOf
  <2>10. Placed(f[n], seqs, off)
    <3>1. n \in 1..n
      BY <2>2
    <3>2. Len(f[n]) = off[n + 1]
      BY <2>4, <3>1
    <3> QED
      <4>1. \A k \in 1..n : \A j \in 1..Len(seqs[k]) : f[n][off[k] + j] = seqs[k][j]
        <5>1. n \notin Wrong
          <6> HIDE DEF Wrong
          <6> QED
            BY <2>8
        <5> QED
          BY <3>1, <5>1, Zenon
      <4> QED
        BY <3>2, <4>1 DEF Placed
  <2>11. f[n] \in Seq(S)
    BY <2>2
  <2> QED
    BY <2>1, <2>9, <2>10, <2>11
<1> QED
  BY <1>1, <1>2

-----------------------------------------------------------------------------
(* The list of names while main reads its arguments.                       *)

\* How many names a line has given when so many of its characters are read.
PiecesUpTo(char) == (char + MAX_FILE_LEN - 2) \div (MAX_FILE_LEN - 1)

LEMMA QuotientIs ==
    ASSUME NEW a \in Nat, NEW m \in Nat \ {0}, NEW q \in Nat, NEW p \in Nat,
           p = m * q, p <= a, a < p + m
    PROVE  a \div m = q
<1>1. PICK x \in Nat, r \in 0..(m - 1) : x = a \div m /\ a = m * x + r
  OBVIOUS
<1>2. CASE x < q
  <2>1. m * (x + 1) <= m * q /\ m * (x + 1) = m * x + m
    BY <1>2
  <2>2. PICK y \in Nat : y = m * x
    OBVIOUS
  <2>3. y + m <= p /\ a = y + r
    BY <1>1, <2>1, <2>2
  <2> QED
    BY <2>3
<1>3. CASE q < x
  <2>1. m * (q + 1) <= m * x /\ m * (q + 1) = m * q + m
    BY <1>3
  <2>2. PICK y \in Nat : y = m * x
    OBVIOUS
  <2>3. p + m <= y /\ a = y + r
    BY <1>1, <2>1, <2>2
  <2> QED
    BY <2>3
<1> QED
  BY <1>1, <1>2, <1>3

(* A buffer is one name, whether it is full or holds the end of the line.  *)
LEMMA OnePiece ==
    ASSUME NEW c \in Nat, c % (MAX_FILE_LEN - 1) = 0
    PROVE  /\ PiecesUpTo(0) = 0
           /\ PiecesUpTo(c) \in Nat
           /\ (c + MAX_FILE_LEN - 1) % (MAX_FILE_LEN - 1) = 0
           /\ \A d \in Nat : c < d /\ d <= c + MAX_FILE_LEN - 1 =>
                 PiecesUpTo(d) = PiecesUpTo(c) + 1
<1> DEFINE m == MAX_FILE_LEN - 1
<1>1. m \in Nat \ {0} /\ MAX_FILE_LEN \in Nat /\ MAX_FILE_LEN = m + 1
  BY ArgumentsAssumption
<1>2. \A d : d + MAX_FILE_LEN - 2 = d + MAX_FILE_LEN - 2
  OBVIOUS
<1> HIDE DEF m
<1>3. PICK q \in Nat, p \in Nat : c = p /\ p = m * q
  <2>1. PICK q \in Nat, r \in 0..(m - 1) : q = c \div m /\ r = c % m /\ c = m * q + r
    BY <1>1
  <2>2. r = 0
    BY <2>1 DEF m
  <2>3. m * q \in Nat
    BY <1>1
  <2>4. c = m * q
    BY <2>1, <2>2, <2>3
  <2> QED
    BY <2>3, <2>4
<1>4. ASSUME NEW d \in Nat
      PROVE  PiecesUpTo(d) = (d + m - 1) \div m /\ d + m - 1 \in Nat
  BY <1>1 DEF PiecesUpTo, m
<1>5. PiecesUpTo(0) = 0
  <2>1. 0 + m - 1 \in Nat /\ 0 <= 0 + m - 1 /\ 0 + m - 1 < 0 + m /\ m * 0 = 0
    BY <1>1
  <2> QED
    BY <1>1, <1>4, <2>1, QuotientIs
<1>6. PiecesUpTo(c) = q
  <2>1. c + m - 1 \in Nat /\ p <= c + m - 1 /\ c + m - 1 < p + m
    BY <1>1, <1>3
  <2> QED
    BY <1>1, <1>3, <1>4, <2>1, QuotientIs
<1>7. ASSUME NEW d \in Nat, c < d, d <= c + MAX_FILE_LEN - 1
      PROVE  PiecesUpTo(d) = q + 1
  <2>1. p + m = m * (q + 1) /\ p + m \in Nat /\ q + 1 \in Nat
    BY <1>1, <1>3
  <2>2. d + m - 1 \in Nat /\ p + m <= d + m - 1 /\ d + m - 1 < (p + m) + m
    BY <1>1, <1>3, <1>7
  <2> QED
    BY <1>1, <1>4, <2>1, <2>2, QuotientIs
<1>8. (c + MAX_FILE_LEN - 1) % (MAX_FILE_LEN - 1) = 0
  <2>1. c + MAX_FILE_LEN - 1 = p + m /\ MAX_FILE_LEN - 1 = m
    BY <1>1, <1>3 DEF m
  <2>2. (p + m) % m = 0
    <3>1. p + m = m * (q + 1) /\ p + m \in Nat /\ q + 1 \in Nat
      BY <1>1, <1>3
    <3>2. PICK x \in Nat, r \in 0..(m - 1) : x = (p + m) \div m /\ r = (p + m) % m /\ p + m = m * x + r
      BY <1>1, <3>1
    <3>3. x = q + 1
      <4>1. p + m < (p + m) + m
        BY <1>1, <3>1
      <4> QED
        <5>1. (p + m) \div m = q + 1
          BY <1>1, <3>1, <4>1, QuotientIs
        <5> QED
          BY <3>2, <5>1
    <3>4. p + m = (p + m) + r
      BY <3>1, <3>2, <3>3
    <3> QED
      BY <1>1, <3>1, <3>2, <3>4
  <2> QED
    BY <2>1, <2>2
<1> QED
  BY <1>5, <1>6, <1>7, <1>8

(* The pieces do not get fewer as a line is read.                          *)
LEMMA PiecesGrow ==
    ASSUME NEW c \in Nat, NEW d \in Nat, c <= d
    PROVE  PiecesUpTo(c) \in Nat /\ PiecesUpTo(d) \in Nat /\ PiecesUpTo(c) <= PiecesUpTo(d)
<1>1. PICK m \in Nat \ {0} : m = MAX_FILE_LEN - 1 /\ MAX_FILE_LEN = m + 1
  BY ArgumentsAssumption
<1>2. PICK a \in Nat, b \in Nat : /\ a = c + MAX_FILE_LEN - 2 /\ b = d + MAX_FILE_LEN - 2
                                  /\ a <= b
  BY <1>1
<1>3. PICK x \in Nat, r \in 0..(m - 1) : x = a \div m /\ a = m * x + r
  OBVIOUS
<1>4. PICK y \in Nat, s \in 0..(m - 1) : y = b \div m /\ b = m * y + s
  OBVIOUS
<1>5. ~(y < x)
  <2> SUFFICES ASSUME y < x PROVE FALSE
    OBVIOUS
  <2>1. m * (y + 1) <= m * x /\ m * (y + 1) = m * y + m
    OBVIOUS
  <2>2. PICK u, v \in Nat : u = m * x /\ v = m * y
    OBVIOUS
  <2>3. v + m <= u /\ a = u + r /\ b = v + s
    BY <1>3, <1>4, <2>1, <2>2
  <2> QED
    BY <1>2, <2>3
<1> QED
  BY <1>1, <1>2, <1>3, <1>4, <1>5 DEF PiecesUpTo

\* Where FlattenSeq(seqs) has the parts of seqs.
Offsets(seqs) == CHOOSE off : OffsetsOf(seqs, off) /\ Placed(FlattenSeq(seqs), seqs, off)

\* flat holds the n sequences of seqs one behind the other, each where off says.
LaidOut(flat, off, seqs, n) ==
    /\ Len(flat) \in Nat
    /\ off \in [1..(n + 1) -> Nat] /\ off[1] = 0 /\ off[n + 1] = Len(flat)
    /\ \A k \in 1..n : /\ Len(seqs[k]) \in Nat
                       /\ off[k + 1] = off[k] + Len(seqs[k])
                       /\ off[k + 1] <= Len(flat)
    /\ \A k \in 1..n : \A j \in 1..Len(seqs[k]) : flat[off[k] + j] = seqs[k][j]

LEMMA Laid ==
    ASSUME NEW S, NEW n \in Nat, NEW seqs \in [1..n -> Seq(S)], Len(seqs) = n
    PROVE  /\ FlattenSeq(seqs) \in Seq(S)
           /\ LaidOut(FlattenSeq(seqs), Offsets(seqs), seqs, n)
<1> DEFINE flat == FlattenSeq(seqs)
           off == Offsets(seqs)
<1>1. flat \in Seq(S) /\ \E o : OffsetsOf(seqs, o) /\ Placed(flat, seqs, o)
  BY OffsetsExist
<1>2. OffsetsOf(seqs, off) /\ Placed(flat, seqs, off)
  BY <1>1, Zenon DEF Offsets
<1> HIDE DEF flat, off
<1>3. /\ off \in [1..(n + 1) -> Nat] /\ off[1] = 0 /\ off[n + 1] = Len(flat)
      /\ \A k \in 1..n : off[k + 1] = off[k] + Len(seqs[k])
      /\ \A k \in 1..n : \A j \in 1..Len(seqs[k]) : flat[off[k] + j] = seqs[k][j]
  BY <1>2, Zenon DEF OffsetsOf, Placed
<1>4. ASSUME NEW k \in 1..n
      PROVE  off[k + 1] <= Len(flat) /\ Len(seqs[k]) \in Nat
  <2>1. n + 1 \in 1..(n + 1) /\ k + 1 \in 1..(n + 1)
    OBVIOUS
  <2>2. off[k + 1] <= off[n + 1]
    BY <1>2, <2>1 DEF OffsetsOf
  <2> QED
    BY <1>3, <2>2
<1>5. Len(flat) \in Nat
  BY <1>1
<1> QED
  BY <1>1, <1>3, <1>4, <1>5, Zenon DEF flat, off, LaidOut

\* What the lines of a list of names give, each by itself.
LinesOf(lines) ==
    [l \in DOMAIN lines |-> [p \in 1..Pieces(lines[l]) |-> Piece(lines[l])]]

\* NamesOf for a command line that is given.
NamesIn(a, k) ==
    IF k > 1 /\ a[k - 1] \in OptionNames THEN <<>>
    ELSE IF extension(a[k]) = <<"pcap">> THEN <<a[k]>>
    ELSE IF extension(a[k]) = <<"txt">> /\ a[k] \in DOMAIN TextFiles
    THEN FlattenSeq(LinesOf(TextFiles[a[k]]))
    ELSE <<>>

ByArgument(a) == [k \in DOMAIN a |-> NamesIn(a, k)]

LEMMA LineNames ==
    ASSUME NEW t \in DOMAIN TextFiles
    PROVE  LET lines == TextFiles[t]
               flat == FlattenSeq(LinesOf(lines))
               off == Offsets(LinesOf(lines))
               n == Len(lines)
           IN  /\ flat \in Seq({Piece(lines[l]) : l \in 1..n})
               /\ Len(flat) \in Nat /\ n \in Nat /\ DOMAIN lines = 1..n
               /\ off \in [1..(n + 1) -> Nat] /\ off[1] = 0 /\ off[n + 1] = Len(flat)
               /\ \A l \in 1..n : /\ lines[l].length \in Nat
                                  /\ PiecesUpTo(lines[l].length) \in Nat
                                  /\ off[l + 1] = off[l] + PiecesUpTo(lines[l].length)
                                  /\ off[l + 1] <= Len(flat)
               /\ \A l \in 1..n : \A p \in 1..PiecesUpTo(lines[l].length) :
                     flat[off[l] + p] = Piece(lines[l])
<1> DEFINE lines == TextFiles[t]
           n == Len(lines)
           S == {Piece(lines[l]) : l \in 1..n}
           seqs == LinesOf(lines)
<1>1. n \in Nat /\ DOMAIN lines = 1..n /\ \A l \in 1..n : lines[l].length \in Nat
  BY ArgumentsAssumption
<1>2. \A l \in 1..n : /\ Pieces(lines[l]) = PiecesUpTo(lines[l].length)
                      /\ PiecesUpTo(lines[l].length) \in Nat
  <2>1. \A line : Pieces(line) = PiecesUpTo(line.length)
    BY Zenon DEF Pieces, PiecesUpTo
  <2>2. ASSUME NEW l \in 1..n
        PROVE  PiecesUpTo(lines[l].length) \in Nat
    <3>1. PICK c \in Nat : c = lines[l].length
      BY <1>1
    <3>2. PiecesUpTo(c) \in Nat
      BY PiecesGrow
    <3> QED
      BY <3>1, <3>2
  <2> QED
    BY <2>1, <2>2
<1>3. ASSUME NEW l \in 1..n
      PROVE  /\ seqs[l] \in Seq(S) /\ Len(seqs[l]) = PiecesUpTo(lines[l].length)
             /\ \A p \in 1..PiecesUpTo(lines[l].length) : seqs[l][p] = Piece(lines[l])
  <2>1. PICK x, m : x = Piece(lines[l]) /\ x \in S /\ m \in Nat /\ m = PiecesUpTo(lines[l].length)
    BY <1>2
  <2>2. seqs[l] = [p \in 1..m |-> x]
    BY <1>1, <1>2, <2>1 DEF LinesOf
  <2> QED
    BY <2>1, <2>2
<1>4. seqs \in [1..n -> Seq(S)] /\ Len(seqs) = n
  <2>1. DOMAIN seqs = 1..n /\ seqs = [l \in 1..n |-> seqs[l]]
    BY <1>1 DEF LinesOf
  <2> HIDE DEF seqs, S
  <2>2. seqs \in [1..n -> Seq(S)]
    BY <1>3, <2>1
  <2> QED
    BY <1>1, <2>2
<1> HIDE DEF seqs, S, n, lines
<1>5. FlattenSeq(seqs) \in Seq(S) /\ LaidOut(FlattenSeq(seqs), Offsets(seqs), seqs, n)
  BY <1>1, <1>4, Laid
<1>6. LET flat == FlattenSeq(seqs)
          off == Offsets(seqs)
      IN  /\ flat \in Seq(S)
          /\ Len(flat) \in Nat /\ n \in Nat /\ DOMAIN lines = 1..n
          /\ off \in [1..(n + 1) -> Nat] /\ off[1] = 0 /\ off[n + 1] = Len(flat)
          /\ \A l \in 1..n : /\ lines[l].length \in Nat
                             /\ PiecesUpTo(lines[l].length) \in Nat
                             /\ off[l + 1] = off[l] + PiecesUpTo(lines[l].length)
                             /\ off[l + 1] <= Len(flat)
          /\ \A l \in 1..n : \A p \in 1..PiecesUpTo(lines[l].length) :
                flat[off[l] + p] = Piece(lines[l])
  BY <1>1, <1>2, <1>3, <1>5 DEF LaidOut
<1> QED
  BY <1>6, Zenon DEF seqs, S, n, lines

LEMMA OptionsHaveNoDot ==
    ASSUME NEW a \in OptionNames
    PROVE  extension(a) = <<>>
<1>1. CASE a = <<"-threads">>
  BY <1>1 DEF extension
<1>2. CASE a = <<"-window">>
  BY <1>2 DEF extension
<1> QED
  BY <1>1, <1>2 DEF OptionNames

LEMMA ArgumentNames ==
    ASSUME NEW a \in CommandLines
    PROVE  LET flat == FlattenSeq(ByArgument(a))
               off == Offsets(ByArgument(a))
               n == Len(a)
           IN  /\ Len(flat) \in Nat /\ n \in Nat /\ DOMAIN a = 1..n
               /\ off \in [1..(n + 1) -> Nat] /\ off[1] = 0 /\ off[n + 1] = Len(flat)
               /\ \A k \in 1..n : /\ Len(NamesIn(a, k)) \in Nat
                                  /\ off[k + 1] = off[k] + Len(NamesIn(a, k))
                                  /\ off[k + 1] <= Len(flat)
               /\ \A k \in 1..n : \A j \in 1..Len(NamesIn(a, k)) :
                     flat[off[k] + j] = NamesIn(a, k)[j]
<1> DEFINE n == Len(a)
           T == UNION {{Piece(TextFiles[t][l]) : l \in 1..Len(TextFiles[t])} : t \in DOMAIN TextFiles}
           S == {a[k] : k \in 1..n} \cup T
           seqs == ByArgument(a)
<1>1. n \in Nat /\ DOMAIN a = 1..n
  BY ArgumentsAssumption
<1>2. ASSUME NEW k \in 1..n
      PROVE  NamesIn(a, k) \in Seq(S)
  <2>1. a[k] \in S
    OBVIOUS
  <2>2. <<>> \in Seq(S) /\ <<a[k]>> \in Seq(S)
    BY <2>1
  <2>3. ASSUME a[k] \in DOMAIN TextFiles
        PROVE  FlattenSeq(LinesOf(TextFiles[a[k]])) \in Seq(S)
    <3>1. PICK t \in DOMAIN TextFiles : t = a[k]
      BY <2>3
    <3>2. FlattenSeq(LinesOf(TextFiles[t])) \in Seq({Piece(TextFiles[t][l]) : l \in 1..Len(TextFiles[t])})
      BY LineNames
    <3>3. {Piece(TextFiles[t][l]) : l \in 1..Len(TextFiles[t])} \subseteq S
      OBVIOUS
    <3>4. PICK P, q : /\ P = {Piece(TextFiles[t][l]) : l \in 1..Len(TextFiles[t])}
                      /\ q = FlattenSeq(LinesOf(TextFiles[t])) /\ q \in Seq(P) /\ P \subseteq S
      BY <3>2, <3>3
    <3> HIDE DEF S
    <3> QED
      BY <3>1, <3>4
  <2> HIDE DEF S
  <2> QED
    BY <2>2, <2>3 DEF NamesIn
<1>3. seqs \in [1..n -> Seq(S)] /\ Len(seqs) = n
  <2>1. DOMAIN seqs = 1..n /\ \A k \in 1..n : seqs[k] = NamesIn(a, k)
    BY <1>1 DEF ByArgument
  <2>2. seqs = [k \in 1..n |-> seqs[k]]
    BY <1>1 DEF ByArgument
  <2> HIDE DEF seqs, S
  <2>3. seqs \in [1..n -> Seq(S)]
    BY <1>2, <2>1, <2>2
  <2> QED
    BY <1>1, <2>3
<1>4. \A k \in 1..n : seqs[k] = NamesIn(a, k)
  BY <1>1 DEF ByArgument
<1> HIDE DEF seqs, S, n
<1>5. FlattenSeq(seqs) \in Seq(S) /\ LaidOut(FlattenSeq(seqs), Offsets(seqs), seqs, n)
  BY <1>1, <1>3, Laid
<1>6. LET flat == FlattenSeq(seqs)
          off == Offsets(seqs)
      IN  /\ Len(flat) \in Nat /\ n \in Nat /\ DOMAIN a = 1..n
          /\ off \in [1..(n + 1) -> Nat] /\ off[1] = 0 /\ off[n + 1] = Len(flat)
          /\ \A k \in 1..n : /\ Len(NamesIn(a, k)) \in Nat
                             /\ off[k + 1] = off[k] + Len(NamesIn(a, k))
                             /\ off[k + 1] <= Len(flat)
          /\ \A k \in 1..n : \A j \in 1..Len(NamesIn(a, k)) :
                flat[off[k] + j] = NamesIn(a, k)[j]
  BY <1>1, <1>4, <1>5 DEF LaidOut
<1> QED
  BY <1>6, Zenon DEF seqs, n

\* All names of a command line, and how many come before argument k.
Listed(a) == FlattenSeq(ByArgument(a))
Behind(a) == Offsets(ByArgument(a))

\* The list holds the first c names that a gives, or as many as fit.
Lists(a, number, info, c) ==
    /\ c \in 0..Len(Listed(a))
    /\ number = IF c < MAX_PCAP_FILES THEN c ELSE MAX_PCAP_FILES
    /\ \A k \in 1..number : info[k - 1].FileName = Listed(a)[k]

\* An argument that main looks at by itself is no option's number.
Looked(a, k) == k \in 1..(Len(a) + 1) /\ (k > 1 => a[k - 1] \notin OptionNames)

\* fgets stops behind a full buffer or behind a line.
Inside(lines, p) ==
    /\ p \in [line : Nat \ {0}, char : Nat]
    /\ p.line <= Len(lines) + 1
    /\ p.char % (MAX_FILE_LEN - 1) = 0
    /\ p.line <= Len(lines) => p.char <= lines[p.line].length
    /\ p.line = Len(lines) + 1 => p.char = 0

\* How many names a list has given so far.
Given(lines, p) == Offsets(LinesOf(lines))[p.line] + PiecesUpTo(p.char)

IsText(a, k) ==
    k \in 1..Len(a) /\ extension(a[k]) = <<"txt">> /\ a[k] \in DOMAIN TextFiles

ListInv ==
    /\ mainPc = "arguments" =>
          Looked(argv, i) /\ Lists(argv, numPcapFiles, theInfo, Behind(argv)[i])
    /\ mainPc = "lines" =>
          /\ Looked(argv, i) /\ IsText(argv, i) /\ Inside(TextFiles[argv[i]], at)
          /\ Lists(argv, numPcapFiles, theInfo,
                   Behind(argv)[i] + Given(TextFiles[argv[i]], at))
    /\ mainPc \in {"threads", "reported"} =>
          Lists(argv, numPcapFiles, theInfo, Len(Listed(argv)))

-----------------------------------------------------------------------------

(* A list with room takes the next name.                                   *)
LEMMA OneMoreListed ==
    ASSUME NEW a, NEW c, NEW name, NEW b, Lists(a, numPcapFiles, theInfo, c),
           ListOK, Len(Listed(a)) \in Nat,
           numPcapFiles < MAX_PCAP_FILES,
           c + 1 <= Len(Listed(a)), Listed(a)[c + 1] = name,
           numPcapFiles' = numPcapFiles + 1,
           theInfo' = [theInfo EXCEPT ![numPcapFiles] = Entry(name, b)]
    PROVE  Lists(a, numPcapFiles', theInfo', c + 1)
<1> DEFINE names == Listed(a)
<1> HIDE DEF names
<1>1. /\ c \in Nat /\ c <= Len(names) /\ Len(names) \in Nat
      /\ numPcapFiles = IF c < MAX_PCAP_FILES THEN c ELSE MAX_PCAP_FILES
      /\ \A k \in 1..numPcapFiles : theInfo[k - 1].FileName = names[k]
      /\ c + 1 <= Len(names) /\ names[c + 1] = name
  BY DEF Lists, names
<1>2. MAX_PCAP_FILES \in Nat /\ numPcapFiles = c /\ c < MAX_PCAP_FILES
  BY <1>1, ArgumentsAssumption
<1>3. Entry(name, b).FileName = name
  BY DEF Entry, NoEntry
<1>4. ASSUME NEW k \in 1..(c + 1)
      PROVE  theInfo'[k - 1].FileName = names[k]
  <2>1. k - 1 \in DOMAIN theInfo /\ numPcapFiles \in DOMAIN theInfo
    BY <1>1, <1>2 DEF ListOK, Infos
  <2>2. CASE k = c + 1
    <3>1. theInfo'[k - 1] = Entry(name, b)
      BY <1>1, <1>2, <2>1, <2>2
    <3> QED
      BY <1>1, <1>3, <2>2, <3>1
  <2>3. CASE k # c + 1
    <3>1. k \in 1..numPcapFiles /\ k - 1 # numPcapFiles
      BY <1>1, <1>2, <2>3
    <3>2. theInfo'[k - 1] = theInfo[k - 1]
      BY <2>1, <3>1
    <3> QED
      BY <1>1, <3>1, <3>2
  <2> QED
    BY <2>2, <2>3
<1>5. c + 1 \in 0..Len(names) /\ numPcapFiles' = c + 1
  BY <1>1, <1>2
<1>6. numPcapFiles' = IF c + 1 < MAX_PCAP_FILES THEN c + 1 ELSE MAX_PCAP_FILES
  BY <1>1, <1>2, <1>5
<1> QED
  BY <1>4, <1>5, <1>6 DEF Lists, names

(* A full list stays what it is, whatever names are left.                  *)
LEMMA FullStays ==
    ASSUME NEW a, NEW c, NEW d \in 0..Len(Listed(a)), NEW number, NEW info,
           Lists(a, number, info, c), Len(Listed(a)) \in Nat,
           number = MAX_PCAP_FILES \/ c = d, c <= d
    PROVE  Lists(a, number, info, d)
<1>1. c \in Nat /\ d \in Nat /\ MAX_PCAP_FILES \in Nat
  BY ArgumentsAssumption DEF Lists
<1>2. number = IF c < MAX_PCAP_FILES THEN c ELSE MAX_PCAP_FILES
  BY DEF Lists
<1>3. number = IF d < MAX_PCAP_FILES THEN d ELSE MAX_PCAP_FILES
  BY <1>1, <1>2
<1> QED
  BY <1>3 DEF Lists

(* Argument k is behind the names of those before it.                      *)
LEMMA NamesInPlace ==
    ASSUME NEW a \in CommandLines, NEW k \in 1..Len(a)
    PROVE  /\ Len(Listed(a)) \in Nat /\ Len(a) \in Nat
           /\ Behind(a)[k] \in Nat /\ Len(NamesIn(a, k)) \in Nat
           /\ Behind(a)[k + 1] = Behind(a)[k] + Len(NamesIn(a, k))
           /\ Behind(a)[k + 1] \in 0..Len(Listed(a))
           /\ Behind(a)[k + 1] <= Len(Listed(a))
           /\ \A j \in 1..Len(NamesIn(a, k)) : Listed(a)[Behind(a)[k] + j] = NamesIn(a, k)[j]
<1> DEFINE flat == Listed(a)
           off == Behind(a)
           n == Len(a)
<1>1. /\ Len(flat) \in Nat /\ n \in Nat
      /\ off \in [1..(n + 1) -> Nat]
      /\ \A l \in 1..n : /\ Len(NamesIn(a, l)) \in Nat
                         /\ off[l + 1] = off[l] + Len(NamesIn(a, l))
                         /\ off[l + 1] <= Len(flat)
      /\ \A l \in 1..n : \A j \in 1..Len(NamesIn(a, l)) :
            flat[off[l] + j] = NamesIn(a, l)[j]
  BY ArgumentNames, Zenon DEF Listed, Behind
<1> HIDE DEF flat, off
<1>2. k \in 1..(n + 1) /\ k + 1 \in 1..(n + 1)
  BY <1>1
<1>3. off[k] \in Nat /\ off[k + 1] \in Nat
  BY <1>1, <1>2
<1>4. off[k + 1] \in 0..Len(flat)
  BY <1>1, <1>3
<1> QED
  BY <1>1, <1>3, <1>4, Zenon DEF flat, off, n

(* An argument without names puts nothing on the list.                     *)
LEMMA NothingListed ==
    ASSUME NEW a \in CommandLines, NEW k \in 1..Len(a), NEW number, NEW info,
           NamesIn(a, k) = <<>>,
           Lists(a, number, info, Behind(a)[k])
    PROVE  Lists(a, number, info, Behind(a)[k + 1])
<1>1. Len(NamesIn(a, k)) = 0
  OBVIOUS
<1>2. Behind(a)[k] \in Nat /\ Behind(a)[k + 1] = Behind(a)[k] + Len(NamesIn(a, k))
  BY NamesInPlace
<1>3. Behind(a)[k + 1] = Behind(a)[k]
  BY <1>1, <1>2
<1> QED
  BY <1>3, Zenon

(* What fgets does to the place in a list of names.                        *)
NextPlace(lines, p) ==
    IF lines[p.line].length - p.char < MAX_FILE_LEN - 1
    THEN [line |-> p.line + 1, char |-> 0]
    ELSE [p EXCEPT !.char = @ + MAX_FILE_LEN - 1]

(* A buffer gives the next name of the list, unless it holds the end of a  *)
(* line alone.                                                             *)
LEMMA LineRead ==
    ASSUME NEW t \in DOMAIN TextFiles, NEW p, Inside(TextFiles[t], p),
           ~(p.line > Len(TextFiles[t]))
    PROVE  LET lines == TextFiles[t]
               flat == FlattenSeq(LinesOf(lines))
               q == NextPlace(lines, p)
           IN  /\ Inside(lines, q)
               /\ Given(lines, p) \in Nat /\ Given(lines, q) \in Nat
               /\ p.char = lines[p.line].length => Given(lines, q) = Given(lines, p)
               /\ p.char # lines[p.line].length =>
                     /\ Given(lines, q) = Given(lines, p) + 1
                     /\ Given(lines, p) + 1 \in 1..Len(flat)
                     /\ flat[Given(lines, p) + 1] = Piece(lines[p.line])
<1> DEFINE lines == TextFiles[t]
           flat == FlattenSeq(LinesOf(lines))
           off == Offsets(LinesOf(lines))
           n == Len(lines)
           line == lines[p.line]
           q == NextPlace(lines, p)
<1>1. /\ n \in Nat /\ Len(flat) \in Nat
      /\ off \in [1..(n + 1) -> Nat]
      /\ \A l \in 1..n : /\ lines[l].length \in Nat
                         /\ PiecesUpTo(lines[l].length) \in Nat
                         /\ off[l + 1] = off[l] + PiecesUpTo(lines[l].length)
                         /\ off[l + 1] <= Len(flat)
      /\ \A l \in 1..n : \A x \in 1..PiecesUpTo(lines[l].length) :
            flat[off[l] + x] = Piece(lines[l])
  BY LineNames, Zenon
<1>2. /\ p \in [line : Nat \ {0}, char : Nat] /\ p.line <= n + 1
      /\ p.char % (MAX_FILE_LEN - 1) = 0
      /\ p.line <= n => p.char <= line.length
      /\ ~(p.line > n)
  BY DEF Inside
<1>3. Given(lines, p) = off[p.line] + PiecesUpTo(p.char) /\ Given(lines, q) = off[q.line] + PiecesUpTo(q.char)
  BY DEF Given
<1>4. /\ q = IF line.length - p.char < MAX_FILE_LEN - 1
             THEN [line |-> p.line + 1, char |-> 0]
             ELSE [p EXCEPT !.char = @ + MAX_FILE_LEN - 1]
  BY DEF NextPlace
<1> HIDE DEF lines, flat, off, n, q
<1>5. PICK l \in 1..n, c \in Nat, len \in Nat, m \in Nat \ {0} :
         l = p.line /\ c = p.char /\ len = line.length /\ m = MAX_FILE_LEN - 1
  <2>1. MAX_FILE_LEN - 1 \in Nat \ {0}
    BY ArgumentsAssumption
  <2>2. p.line \in 1..n /\ p.char \in Nat
    BY <1>1, <1>2
  <2>3. line.length \in Nat
    BY <1>1, <2>2
  <2> QED
    BY <2>1, <2>2, <2>3, Zenon
<1>0. c <= len /\ MAX_FILE_LEN = m + 1
  <2>1. p.line <= n
    BY <1>1, <1>2
  <2> QED
    BY <1>2, <1>5, <2>1, ArgumentsAssumption
<1>6. /\ off[l] \in Nat /\ off[l + 1] = off[l] + PiecesUpTo(len) /\ off[l + 1] <= Len(flat)
      /\ off[l + 1] \in Nat
      /\ \A x \in 1..PiecesUpTo(len) : flat[off[l] + x] = Piece(lines[l])
  <2>1. l \in 1..(n + 1) /\ l + 1 \in 1..(n + 1)
    BY <1>1
  <2>2. off[l] \in Nat /\ off[l + 1] \in Nat
    BY <1>1, <2>1
  <2>3. len = lines[l].length
    BY <1>5
  <2> QED
    BY <1>1, <2>2, <2>3, Zenon
<1>7. /\ PiecesUpTo(0) = 0 /\ PiecesUpTo(c) \in Nat /\ (c + m) % (MAX_FILE_LEN - 1) = 0
      /\ \A d \in Nat : c < d /\ d <= c + m => PiecesUpTo(d) = PiecesUpTo(c) + 1
  <2>1. c + MAX_FILE_LEN - 1 = c + m
    BY <1>0
  <2>2. c % (MAX_FILE_LEN - 1) = 0
    BY <1>2, <1>5
  <2> QED
    BY <2>1, <2>2, OnePiece
<1>8. PiecesUpTo(len) \in Nat /\ \A d \in Nat : d <= len => PiecesUpTo(d) <= PiecesUpTo(len)
  BY PiecesGrow
<1>9. CASE len - c < m
  <2>1. q = [line |-> l + 1, char |-> 0]
    BY <1>4, <1>5, <1>9
  <2>2. q.line = l + 1 /\ q.char = 0 /\ q \in [line : Nat \ {0}, char : Nat]
    BY <2>1
  <2>3. Given(lines, q) = off[l + 1] /\ Given(lines, p) = off[l] + PiecesUpTo(c)
    BY <1>3, <1>5, <1>6, <1>7, <2>2
  <2>4. c # len => PiecesUpTo(len) = PiecesUpTo(c) + 1
    <3>1. c # len => c < len /\ len <= c + m
      BY <1>0, <1>9
    <3> QED
      BY <1>7, <3>1
  <2>5. Inside(lines, q)
    <3>1. 0 % (MAX_FILE_LEN - 1) = 0
      <4>1. 0 % m = 0
        OBVIOUS
      <4> QED
        BY <1>5, <4>1
    <3>2. l + 1 <= n => 0 <= lines[l + 1].length
      <4> SUFFICES ASSUME l + 1 <= n
                   PROVE  lines[l + 1].length \in Nat
        OBVIOUS
      <4>1. l + 1 \in 1..n
        BY <1>1
      <4> QED
        BY <1>1, <4>1
    <3> QED
      BY <1>1, <1>5, <2>2, <3>1, <3>2 DEF Inside, n
  <2>6. c # len =>
           /\ Given(lines, p) + 1 \in 1..Len(flat)
           /\ flat[Given(lines, p) + 1] = Piece(lines[l])
    <3> SUFFICES ASSUME c # len
                 PROVE  /\ Given(lines, p) + 1 \in 1..Len(flat)
                        /\ flat[Given(lines, p) + 1] = Piece(lines[l])
      OBVIOUS
    <3>1. PICK x, y \in Nat : x = off[l] /\ y = PiecesUpTo(c)
      BY <1>6, <1>7
    <3>2. PICK z, f \in Nat : z = PiecesUpTo(len) /\ f = Len(flat)
      BY <1>1, <1>8
    <3>4. z = y + 1 /\ x + z <= f /\ Given(lines, p) = x + y
      BY <1>6, <2>3, <2>4, <3>1, <3>2
    <3>5. y + 1 \in 1..z /\ Given(lines, p) + 1 = x + (y + 1) /\ x + (y + 1) \in 1..f
      BY <3>4
    <3>3. flat[x + (y + 1)] = Piece(lines[l])
      BY <1>6, <3>1, <3>2, <3>5
    <3> QED
      BY <3>2, <3>3, <3>5
  <2> QED
    BY <1>5, <1>6, <1>7, <2>3, <2>4, <2>5, <2>6 DEF lines, flat, q
<1>10. CASE ~(len - c < m)
  <2>1. q = [p EXCEPT !.char = c + m]
    <3>1. c + MAX_FILE_LEN - 1 = c + m
      BY <1>5, ArgumentsAssumption
    <3> QED
      BY <1>4, <1>5, <1>10, <3>1
  <2>2. q.line = l /\ q.char = c + m /\ q \in [line : Nat \ {0}, char : Nat]
    BY <1>2, <1>5, <2>1
  <2>3. c + m \in Nat /\ c < c + m /\ c + m <= len /\ c # len
    BY <1>0, <1>10
  <2>4. PiecesUpTo(c + m) = PiecesUpTo(c) + 1 /\ PiecesUpTo(c + m) <= PiecesUpTo(len)
    BY <1>7, <1>8, <2>3
  <2>5. Given(lines, q) = off[l] + PiecesUpTo(c + m) /\ Given(lines, p) = off[l] + PiecesUpTo(c)
    BY <1>3, <1>5, <2>2
  <2>6. Inside(lines, q)
    <3>1. l <= n + 1 /\ l # n + 1
      BY <1>1
    <3> QED
      BY <1>1, <1>5, <1>7, <2>2, <2>3, <3>1 DEF Inside, n
  <2>7. /\ Given(lines, p) + 1 \in 1..Len(flat)
        /\ flat[Given(lines, p) + 1] = Piece(lines[l])
    <3>1. PICK x, y \in Nat : x = off[l] /\ y = PiecesUpTo(c)
      BY <1>6, <1>7
    <3>2. PICK z, f \in Nat : z = PiecesUpTo(len) /\ f = Len(flat)
      BY <1>1, <1>8
    <3>4. y + 1 <= z /\ x + z <= f /\ Given(lines, p) = x + y
      BY <1>6, <2>4, <2>5, <3>1, <3>2
    <3>5. y + 1 \in 1..z /\ Given(lines, p) + 1 = x + (y + 1) /\ x + (y + 1) \in 1..f
      BY <3>4
    <3>3. flat[x + (y + 1)] = Piece(lines[l])
      BY <1>6, <3>1, <3>2, <3>5
    <3> QED
      BY <3>2, <3>3, <3>5
  <2>8. /\ Given(lines, p) \in Nat /\ Given(lines, q) \in Nat
        /\ Given(lines, q) = Given(lines, p) + 1
    <3>1. PICK x, y \in Nat : x = off[l] /\ y = PiecesUpTo(c)
      BY <1>6, <1>7
    <3>2. Given(lines, q) = x + (y + 1) /\ Given(lines, p) = x + y
      BY <2>4, <2>5, <3>1
    <3> QED
      BY <3>2
  <2> QED
    BY <1>5, <2>3, <2>6, <2>7, <2>8 DEF lines, flat, q
<1> QED
  BY <1>9, <1>10

(* No list gives more names than it has.                                   *)
LEMMA GivenIsBounded ==
    ASSUME NEW t \in DOMAIN TextFiles, NEW p, Inside(TextFiles[t], p)
    PROVE  LET lines == TextFiles[t]
               flat == FlattenSeq(LinesOf(lines))
           IN  /\ Given(lines, p) \in Nat /\ Len(flat) \in Nat
               /\ Given(lines, p) <= Len(flat)
               /\ p.line > Len(lines) => Given(lines, p) = Len(flat)
<1> DEFINE lines == TextFiles[t]
           flat == FlattenSeq(LinesOf(lines))
           off == Offsets(LinesOf(lines))
           n == Len(lines)
<1>1. /\ n \in Nat /\ Len(flat) \in Nat
      /\ off \in [1..(n + 1) -> Nat] /\ off[n + 1] = Len(flat)
      /\ \A l \in 1..n : /\ lines[l].length \in Nat
                         /\ PiecesUpTo(lines[l].length) \in Nat
                         /\ off[l + 1] = off[l] + PiecesUpTo(lines[l].length)
                         /\ off[l + 1] <= Len(flat)
  BY LineNames, Zenon
<1>2. /\ p.line \in Nat \ {0} /\ p.char \in Nat /\ p.line <= n + 1
      /\ p.line <= n => p.char <= lines[p.line].length
      /\ p.line = n + 1 => p.char = 0
  BY DEF Inside
<1>3. Given(lines, p) = off[p.line] + PiecesUpTo(p.char)
  BY DEF Given
<1> HIDE DEF lines, flat, off, n
<1>4. CASE p.line <= n
  <2>1. p.line \in 1..n /\ p.line \in 1..(n + 1)
    BY <1>1, <1>2, <1>4
  <2>2. lines[p.line].length \in Nat /\ p.char <= lines[p.line].length
    BY <1>1, <1>2, <1>4, <2>1
  <2>3. /\ PiecesUpTo(p.char) \in Nat
        /\ PiecesUpTo(p.char) <= PiecesUpTo(lines[p.line].length)
    BY <1>2, <2>2, PiecesGrow
  <2>4. off[p.line] \in Nat /\ off[p.line] + PiecesUpTo(lines[p.line].length) <= Len(flat)
    BY <1>1, <2>1
  <2>5. PiecesUpTo(lines[p.line].length) \in Nat
    BY <1>1, <2>1
  <2>6. Given(lines, p) \in Nat /\ Given(lines, p) <= Len(flat)
    BY <1>1, <1>3, <2>3, <2>4, <2>5
  <2> QED
    BY <1>1, <1>2, <1>4, <2>6 DEF lines, flat, n
<1>5. CASE ~(p.line <= n)
  <2>1. p.line = n + 1 /\ p.char = 0
    BY <1>1, <1>2, <1>5
  <2>2. PiecesUpTo(0) = 0
    <3>1. 0 % (MAX_FILE_LEN - 1) = 0
      BY ArgumentsAssumption
    <3> QED
      BY <3>1, OnePiece
  <2>3. Given(lines, p) = Len(flat)
    BY <1>1, <1>3, <2>1, <2>2
  <2> QED
    BY <1>1, <2>3 DEF lines, flat, n
<1> QED
  BY <1>4, <1>5

-----------------------------------------------------------------------------

LEMMA InitListInv == Init => ListInv
<1> SUFFICES ASSUME Init PROVE ListInv
  OBVIOUS
<1>1. mainPc = "arguments" /\ i = 1 /\ numPcapFiles = 0 /\ argv \in CommandLines
  BY DEF Init, InitMain
<1>2. Len(Listed(argv)) \in Nat /\ Len(argv) \in Nat /\ Behind(argv)[1] = 0
  BY <1>1, ArgumentNames DEF Listed, Behind
<1>3. Lists(argv, 0, theInfo, 0)
  BY <1>2, ArgumentsAssumption DEF Lists
<1>4. Looked(argv, 1)
  BY <1>2 DEF Looked
<1> QED
  BY <1>1, <1>2, <1>3, <1>4 DEF ListInv

LEMMA PcapArgumentListInv == IInv /\ ListInv /\ PcapArgument => ListInv'
<1> SUFFICES ASSUME IInv, ListInv, PcapArgument PROVE ListInv'
  OBVIOUS
<1>1. /\ mainPc = "arguments" /\ i \in 1..Len(argv) /\ argv \in CommandLines /\ argv' = argv
      /\ Looked(argv, i) /\ Lists(argv, numPcapFiles, theInfo, Behind(argv)[i])
      /\ extension(argv[i]) = <<"pcap">>
  <2>1. i <= Len(argv) /\ mainPc = "arguments" /\ argv' = argv /\ extension(argv[i]) = <<"pcap">>
    BY DEF PcapArgument, Argument
  <2>2. Looked(argv, i) /\ Lists(argv, numPcapFiles, theInfo, Behind(argv)[i])
    BY <2>1 DEF ListInv
  <2>3. argv \in CommandLines /\ Len(argv) \in Nat
    BY ArgumentsAssumption DEF IInv, ArgumentsOK
  <2> QED
    BY <2>1, <2>2, <2>3 DEF Looked
<1>2. CASE numPcapFiles < MAX_PCAP_FILES
  <2>1. /\ theInfo' = [theInfo EXCEPT ![numPcapFiles] = Entry(argv[i], FALSE)]
        /\ numPcapFiles' = numPcapFiles + 1 /\ i' = i + 1 /\ mainPc' = "arguments"
    BY <1>1, <1>2 DEF PcapArgument, NextArgument
  <2>2. NamesIn(argv, i) = <<argv[i]>>
    BY <1>1 DEF NamesIn, Looked
  <2>3. Len(NamesIn(argv, i)) = 1 /\ NamesIn(argv, i)[1] = argv[i]
    BY <2>2
  <2>4. PICK c \in Nat : /\ c = Behind(argv)[i] /\ Behind(argv)[i + 1] = c + 1
                         /\ c + 1 <= Len(Listed(argv)) /\ Listed(argv)[c + 1] = argv[i]
                         /\ Len(Listed(argv)) \in Nat /\ Len(argv) \in Nat
    <3>1. /\ Len(Listed(argv)) \in Nat /\ Len(argv) \in Nat
          /\ Behind(argv)[i] \in Nat
          /\ Behind(argv)[i + 1] = Behind(argv)[i] + Len(NamesIn(argv, i))
          /\ Behind(argv)[i + 1] <= Len(Listed(argv))
          /\ \A j \in 1..Len(NamesIn(argv, i)) :
                Listed(argv)[Behind(argv)[i] + j] = NamesIn(argv, i)[j]
      BY <1>1, NamesInPlace
    <3> QED
      BY <2>3, <3>1
  <2>5. Lists(argv, numPcapFiles, theInfo, c) /\ ListOK
    BY <1>1, <2>4 DEF IInv
  <2>6. Lists(argv, numPcapFiles', theInfo', c + 1)
    BY <1>2, <2>1, <2>4, <2>5, OneMoreListed
  <2>7. Looked(argv, i + 1)
    <3>1. argv[i] \notin OptionNames
      BY <1>1, OptionsHaveNoDot
    <3> QED
      BY <1>1, <2>4, <3>1 DEF Looked
  <2> QED
    BY <1>1, <2>1, <2>4, <2>6, <2>7 DEF ListInv
<1>3. CASE ~(numPcapFiles < MAX_PCAP_FILES)
  <2>1. mainPc' = "outOfBounds"
    BY <1>3 DEF PcapArgument
  <2> QED
    BY <2>1 DEF ListInv
<1> QED
  BY <1>2, <1>3

LEMMA TextArgumentListInv == IInv /\ ListInv /\ TextArgument => ListInv'
<1> SUFFICES ASSUME IInv, ListInv, TextArgument PROVE ListInv'
  OBVIOUS
<1>1. /\ mainPc = "arguments" /\ i \in 1..Len(argv) /\ argv \in CommandLines /\ argv' = argv
      /\ Looked(argv, i) /\ Lists(argv, numPcapFiles, theInfo, Behind(argv)[i])
      /\ extension(argv[i]) = <<"txt">>
      /\ numPcapFiles' = numPcapFiles /\ theInfo' = theInfo
  <2>1. /\ i <= Len(argv) /\ mainPc = "arguments" /\ argv' = argv /\ extension(argv[i]) = <<"txt">>
        /\ numPcapFiles' = numPcapFiles /\ theInfo' = theInfo
    BY DEF TextArgument, Argument, listVars
  <2>2. Looked(argv, i) /\ Lists(argv, numPcapFiles, theInfo, Behind(argv)[i])
    BY <2>1 DEF ListInv
  <2>3. argv \in CommandLines /\ Len(argv) \in Nat
    BY ArgumentsAssumption DEF IInv, ArgumentsOK
  <2> QED
    BY <2>1, <2>2, <2>3 DEF Looked
<1>2. CASE argv[i] \in DOMAIN TextFiles
  <2>1. i' = i /\ mainPc' = "lines" /\ at' = [line |-> 1, char |-> 0]
    BY <1>2 DEF TextArgument
  <2>2. IsText(argv, i)
    BY <1>1, <1>2 DEF IsText
  <2>3. Inside(TextFiles[argv[i]], [line |-> 1, char |-> 0])
    <3>1. 0 % (MAX_FILE_LEN - 1) = 0
      BY ArgumentsAssumption
    <3>2. Len(TextFiles[argv[i]]) \in Nat /\ DOMAIN TextFiles[argv[i]] = 1..Len(TextFiles[argv[i]])
          /\ \A k \in DOMAIN TextFiles[argv[i]] : TextFiles[argv[i]][k].length \in Nat
      BY <1>2, ArgumentsAssumption
    <3>3. 1 <= Len(TextFiles[argv[i]]) => 0 <= TextFiles[argv[i]][1].length
      BY <3>2
    <3> QED
      BY <3>1, <3>2, <3>3 DEF Inside
  <2>4. Given(TextFiles[argv[i]], [line |-> 1, char |-> 0]) = 0
    <3>1. PICK t \in DOMAIN TextFiles : t = argv[i]
      BY <1>2
    <3>2. Offsets(LinesOf(TextFiles[t]))[1] = 0
      BY LineNames
    <3>3. PiecesUpTo(0) = 0
      <4>1. 0 % (MAX_FILE_LEN - 1) = 0
        BY ArgumentsAssumption
      <4> QED
        BY <4>1, OnePiece
    <3> QED
      BY <3>1, <3>2, <3>3 DEF Given
  <2>5. Behind(argv)[i] + 0 = Behind(argv)[i]
    BY <1>1, NamesInPlace
  <2> QED
    BY <1>1, <2>1, <2>2, <2>3, <2>4, <2>5 DEF ListInv
<1>3. CASE argv[i] \notin DOMAIN TextFiles
  <2>1. mainPc' = "exit(-1)"
    BY <1>3 DEF TextArgument, Fail
  <2> QED
    BY <2>1 DEF ListInv
<1> QED
  BY <1>2, <1>3

LEMMA ReadLineListInv == IInv /\ ListInv /\ ReadLine => ListInv'
<1> SUFFICES ASSUME IInv, ListInv, ReadLine PROVE ListInv'
  OBVIOUS
<1> DEFINE lines == TextFiles[argv[i]]
           flat == FlattenSeq(LinesOf(lines))
           atEnd == at.line > Len(lines) \/ numPcapFiles = MAX_PCAP_FILES
<1>1. /\ mainPc = "lines" /\ argv \in CommandLines /\ argv' = argv
      /\ Looked(argv, i) /\ IsText(argv, i) /\ Inside(lines, at)
      /\ Lists(argv, numPcapFiles, theInfo, Behind(argv)[i] + Given(lines, at))
  <2>1. mainPc = "lines" /\ argv' = argv
    BY DEF ReadLine, Argument
  <2> QED
    BY <2>1 DEF ListInv, IInv, ArgumentsOK
<1>2. i \in 1..Len(argv) /\ argv[i] \in DOMAIN TextFiles /\ extension(argv[i]) = <<"txt">>
  BY <1>1 DEF IsText
<1>3. NamesIn(argv, i) = flat
  BY <1>1, <1>2 DEF NamesIn, Looked
<1> HIDE DEF flat
<1>4. PICK b, g, f, m \in Nat :
         /\ b = Behind(argv)[i] /\ g = Given(lines, at) /\ f = Len(flat) /\ m = Len(Listed(argv))
         /\ Behind(argv)[i + 1] = b + f /\ b + f <= m /\ g <= f
         /\ at.line > Len(lines) => g = f
         /\ \A j \in 1..f : Listed(argv)[b + j] = flat[j]
  <2>1. /\ Len(Listed(argv)) \in Nat /\ Behind(argv)[i] \in Nat
        /\ Behind(argv)[i + 1] = Behind(argv)[i] + Len(flat)
        /\ Behind(argv)[i + 1] <= Len(Listed(argv))
        /\ \A j \in 1..Len(flat) : Listed(argv)[Behind(argv)[i] + j] = flat[j]
    BY <1>1, <1>2, <1>3, NamesInPlace
  <2>2. /\ Given(lines, at) \in Nat /\ Len(flat) \in Nat /\ Given(lines, at) <= Len(flat)
        /\ at.line > Len(lines) => Given(lines, at) = Len(flat)
    BY <1>1, <1>2, GivenIsBounded DEF flat
  <2>3. Behind(argv)[i] + Len(flat) <= Len(Listed(argv))
    BY <2>1
  <2> QED
    BY <2>1, <2>2, <2>3, Zenon
<1>5. Len(argv) \in Nat /\ i + 1 \in 1..(Len(argv) + 1) /\ i \in Nat
  BY <1>1, <1>2, ArgumentsAssumption
<1>6. CASE atEnd
  <2>1. mainPc' = "arguments" /\ i' = i + 1 /\ numPcapFiles' = numPcapFiles /\ theInfo' = theInfo
    BY <1>6 DEF ReadLine, listVars
  <2>2. Looked(argv, i + 1)
    <3>1. argv[i] \notin OptionNames
      BY <1>2, OptionsHaveNoDot
    <3> QED
      BY <1>5, <3>1 DEF Looked
  <2>3. Lists(argv, numPcapFiles, theInfo, b + g)
    BY <1>1, <1>4
  <2>4. Lists(argv, numPcapFiles, theInfo, b + f)
    <3>1. b + f \in 0..Len(Listed(argv)) /\ b + g <= b + f /\ Len(Listed(argv)) \in Nat
      BY <1>4
    <3>2. numPcapFiles = MAX_PCAP_FILES \/ b + g = b + f
      BY <1>4, <1>6
    <3> QED
      BY <2>3, <3>1, <3>2, FullStays
  <2> QED
    BY <1>1, <1>4, <2>1, <2>2, <2>4 DEF ListInv
<1>7. CASE ~atEnd
  <2> DEFINE q == NextPlace(lines, at)
             whole == at.char = lines[at.line].length
  <2>1. /\ mainPc' = "lines" /\ i' = i /\ at' = q
        /\ whole => numPcapFiles' = numPcapFiles /\ theInfo' = theInfo
        /\ ~whole =>
              /\ theInfo' = [theInfo EXCEPT ![numPcapFiles] = Entry(Piece(lines[at.line]), TRUE)]
              /\ numPcapFiles' = numPcapFiles + 1
    BY <1>1, <1>7 DEF ReadLine, listVars, NextPlace
  <2>2. /\ Inside(lines, q)
        /\ whole => Given(lines, q) = Given(lines, at)
        /\ ~whole =>
              /\ Given(lines, q) = Given(lines, at) + 1
              /\ Given(lines, at) + 1 \in 1..Len(flat)
              /\ flat[Given(lines, at) + 1] = Piece(lines[at.line])
    <3>1. ~(at.line > Len(lines))
      BY <1>7
    <3> HIDE DEF atEnd
    <3> QED
      BY <1>1, <1>2, <3>1, LineRead DEF flat
  <2> HIDE DEF q
  <2>3. Lists(argv, numPcapFiles', theInfo', b + Given(lines, q))
    <3>1. CASE whole
      <4>1. Lists(argv, numPcapFiles, theInfo, b + Given(lines, q))
        BY <1>1, <1>4, <2>2, <3>1
      <4> QED
        BY <2>1, <3>1, <4>1
    <3>2. CASE ~whole
      <4> HIDE DEF whole
      <4>1. PICK c, name : c = b + g /\ name = Piece(lines[at.line])
        OBVIOUS
      <4>2. /\ c + 1 = b + Given(lines, q) /\ c + 1 <= Len(Listed(argv)) /\ Listed(argv)[c + 1] = name
            /\ Len(Listed(argv)) \in Nat
        <5>1. g + 1 \in 1..f /\ flat[g + 1] = name /\ Given(lines, q) = g + 1
          BY <1>4, <2>2, <3>2, <4>1
        <5>2. Listed(argv)[b + (g + 1)] = name
          BY <1>4, <5>1
        <5>3. c + 1 = b + (g + 1) /\ b + (g + 1) <= m
          BY <1>4, <4>1, <5>1
        <5> QED
          BY <1>4, <5>1, <5>2, <5>3
      <4>3. Lists(argv, numPcapFiles, theInfo, c)
        BY <1>1, <1>4, <4>1
      <4>4. numPcapFiles < MAX_PCAP_FILES /\ ListOK
        <5>1. numPcapFiles # MAX_PCAP_FILES
          BY <1>7
        <5>2. ListOK
          BY DEF IInv
        <5> QED
          BY <5>1, <5>2, ArgumentsAssumption DEF ListOK
      <4>5. /\ theInfo' = [theInfo EXCEPT ![numPcapFiles] = Entry(name, TRUE)]
            /\ numPcapFiles' = numPcapFiles + 1
        BY <2>1, <3>2, <4>1
      <4>6. Lists(argv, numPcapFiles', theInfo', c + 1)
        BY <4>2, <4>3, <4>4, <4>5, OneMoreListed
      <4> QED
        BY <4>2, <4>6
    <3> QED
      BY <3>1, <3>2
  <2> QED
    BY <1>1, <1>4, <2>1, <2>2, <2>3 DEF ListInv
<1> QED
  BY <1>6, <1>7

(* An option and its number give no name.                                  *)
LEMMA OptionListInv ==
    ASSUME IInv, ListInv, NEW name, NEW low \in Nat \ {0}, NEW high \in Nat,
           <<name>> \in OptionNames, Option(name, low, high)
    PROVE  ListInv'
<1>2. /\ mainPc = "arguments" /\ i \in 1..Len(argv) /\ argv \in CommandLines /\ argv' = argv
      /\ Looked(argv, i) /\ Lists(argv, numPcapFiles, theInfo, Behind(argv)[i])
      /\ argv[i] \in OptionNames /\ Len(argv) \in Nat
      /\ numPcapFiles' = numPcapFiles /\ theInfo' = theInfo
  <2>1. /\ i <= Len(argv) /\ mainPc = "arguments" /\ argv' = argv /\ argv[i] \in OptionNames
        /\ numPcapFiles' = numPcapFiles /\ theInfo' = theInfo
    BY DEF Option, Argument, listVars
  <2>2. Looked(argv, i) /\ Lists(argv, numPcapFiles, theInfo, Behind(argv)[i])
    BY <2>1 DEF ListInv
  <2>3. argv \in CommandLines /\ Len(argv) \in Nat
    BY ArgumentsAssumption DEF IInv, ArgumentsOK
  <2> QED
    BY <2>1, <2>2, <2>3 DEF Looked
<1>3. CASE i < Len(argv) /\ Atoi(argv[i + 1]) \in low..high
  <2>1. i' = i + 2 /\ mainPc' = "arguments"
    BY <1>2, <1>3 DEF Option
  <2>2. i + 1 \in 1..Len(argv) /\ i + 2 \in 1..(Len(argv) + 1) /\ (i + 1) - 1 = i /\ (i + 2) - 1 = i + 1
        /\ (i + 1) + 1 = i + 2 /\ i + 1 > 1
    BY <1>2, <1>3
  <2>3. NamesIn(argv, i) = <<>>
    <3>1. extension(argv[i]) = <<>>
      BY <1>2, OptionsHaveNoDot
    <3>2. <<>> # <<"pcap">> /\ <<>> # <<"txt">>
      OBVIOUS
    <3> QED
      BY <3>1, <3>2 DEF NamesIn
  <2>4. NamesIn(argv, i + 1) = <<>>
    BY <1>2, <2>2 DEF NamesIn
  <2>5. Lists(argv, numPcapFiles, theInfo, Behind(argv)[i + 1])
    BY <1>2, <2>3, NothingListed
  <2>6. Lists(argv, numPcapFiles, theInfo, Behind(argv)[i + 2])
    BY <1>2, <2>2, <2>4, <2>5, NothingListed
  <2>7. argv[i + 1] \notin OptionNames
    <3>1. Atoi(argv[i + 1]) # 0
      BY <1>3
    <3> QED
      BY <3>1, ArgumentsAssumption
  <2>8. Looked(argv, i + 2)
    BY <2>2, <2>7 DEF Looked
  <2> QED
    BY <1>2, <2>1, <2>6, <2>8 DEF ListInv
<1>4. CASE ~(i < Len(argv) /\ Atoi(argv[i + 1]) \in low..high)
  <2>1. mainPc' = "exit(-1)"
    BY <1>4 DEF Option, Fail
  <2> QED
    BY <2>1 DEF ListInv
<1> QED
  BY <1>3, <1>4

(* Every name is listed when the arguments are at their end.               *)
LEMMA StartThreadsListInv == IInv /\ ListInv /\ StartThreads => ListInv'
<1> SUFFICES ASSUME IInv, ListInv, StartThreads PROVE ListInv'
  OBVIOUS
<1>1. /\ mainPc = "arguments" /\ i > Len(argv) /\ argv' = argv /\ mainPc' = "threads"
      /\ numPcapFiles' = numPcapFiles /\ theInfo' = theInfo
  BY DEF StartThreads, listVars
<1>2. Looked(argv, i) /\ Lists(argv, numPcapFiles, theInfo, Behind(argv)[i])
  BY <1>1 DEF ListInv
<1>3. argv \in CommandLines /\ Len(argv) \in Nat
  BY ArgumentsAssumption DEF IInv, ArgumentsOK
<1>4. i = Len(argv) + 1
  BY <1>1, <1>2, <1>3 DEF Looked
<1>5. Behind(argv)[Len(argv) + 1] = Len(Listed(argv))
  BY <1>3, ArgumentNames DEF Listed, Behind
<1> QED
  BY <1>1, <1>2, <1>4, <1>5 DEF ListInv

\* The names of the list, which the readers do not change.
SameNames == /\ UNCHANGED <<argv, numPcapFiles>>
             /\ \A f \in Infos : theInfo'[f].FileName = theInfo[f].FileName

LEMMA SameNamesListInv ==
    ASSUME IInv, ListInv, SameNames,
           mainPc = "threads", mainPc' \notin {"arguments", "lines"}
    PROVE  ListInv'
<1>1. Lists(argv, numPcapFiles, theInfo, Len(Listed(argv)))
  BY DEF ListInv
<1>2. ASSUME NEW k \in 1..numPcapFiles
      PROVE  theInfo'[k - 1].FileName = theInfo[k - 1].FileName
  <2>1. numPcapFiles \in 0..MAX_PCAP_FILES /\ MAX_PCAP_FILES \in Nat
    BY ArgumentsAssumption DEF IInv, ListOK
  <2>2. k - 1 \in Infos
    BY <2>1 DEF Infos
  <2> QED
    BY <2>2 DEF SameNames
<1>3. Lists(argv, numPcapFiles, theInfo', Len(Listed(argv)))
  BY <1>1, <1>2 DEF Lists
<1> QED
  BY <1>3 DEF ListInv, SameNames

LEMMA OpenFileListInv == IInv /\ ListInv /\ fileIndex \in Nat /\ OpenFile => ListInv'
<1> SUFFICES ASSUME IInv, ListInv, fileIndex \in Nat, OpenFile PROVE ListInv'
  OBVIOUS
<1>1. mainPc = "threads" /\ mainPc' \in {"threads", "exit(-2)"} /\ UNCHANGED <<argv, numPcapFiles>>
  BY DEF OpenFile, Open
<1>2. \A f \in Infos : theInfo'[f].FileName = theInfo[f].FileName
  <2>1. CASE theInfo[fileIndex].FileName \notin DOMAIN PcapFiles
    BY <2>1 DEF OpenFile, Open
  <2>2. CASE theInfo[fileIndex].FileName \in DOMAIN PcapFiles
    <3>1. PICK magic : theInfo' = [theInfo EXCEPT ![fileIndex].EndianFlip = (magic = "swapped"),
                                   ![fileIndex].Packets = 0, ![fileIndex].BytesRead = 0]
      BY <2>2 DEF OpenFile, Open
    <3>2. \A f \in Infos : DOMAIN theInfo[f] = Fields /\ DOMAIN theInfo = Infos
      BY DEF IInv, ListOK
    <3>3. fileIndex \in Infos
      <4>1. numPcapFiles \in 0..MAX_PCAP_FILES /\ MAX_PCAP_FILES \in Nat
        BY ArgumentsAssumption DEF IInv, ListOK
      <4> QED
        BY <4>1 DEF OpenFile, Infos
    <3> QED
      BY <3>1, <3>2, <3>3 DEF Fields
  <2> QED
    BY <2>1, <2>2
<1> QED
  BY <1>1, <1>2, SameNamesListInv DEF SameNames

LEMMA ReadPacketListInv == ASSUME NEW f \in Infos, IInv, ListInv, ReadPacket(f) PROVE ListInv'
<1>1. mainPc = "threads" /\ mainPc' = "threads" /\ UNCHANGED <<argv, numPcapFiles>>
  BY DEF ReadPacket
<1>2. ASSUME NEW g \in Infos
      PROVE  theInfo'[g].FileName = theInfo[g].FileName
  <2>1. DOMAIN theInfo[f] = Fields /\ DOMAIN theInfo = Infos /\ DOMAIN theInfo[g] = Fields
    BY DEF IInv, ListOK
  <2>2. \/ theInfo' = theInfo
        \/ \E n : theInfo' = [theInfo EXCEPT ![f].Packets = @ + 1, ![f].BytesRead = @ + n]
    BY DEF ReadPacket, readNextPacket, Skip
  <2> QED
    BY <2>1, <2>2 DEF Fields
<1> QED
  BY <1>1, <1>2, SameNamesListInv DEF SameNames

LEMMA NextListInv == IInv /\ ListInv /\ fileIndex \in Nat /\ [Next]_vars => ListInv'
<1> SUFFICES ASSUME IInv, ListInv, fileIndex \in Nat, [Next]_vars PROVE ListInv'
  OBVIOUS
<1>1. ASSUME ReadArguments PROVE ListInv'
  <2>1. CASE Usage \/ NoInput
    <3>1. mainPc' \in {"usage", "exit(-1)"}
      BY <2>1 DEF Usage, NoInput, Fail
    <3> QED
      BY <3>1 DEF ListInv
  <2>2. CASE ThreadsOption
    BY <2>2, OptionListInv DEF ThreadsOption, OptionNames
  <2>3. CASE WindowOption
    BY <2>3, OptionListInv DEF WindowOption, OptionNames
  <2> QED
    BY <1>1, <2>1, <2>2, <2>3, PcapArgumentListInv, TextArgumentListInv, ReadLineListInv,
       StartThreadsListInv DEF ReadArguments
<1>2. CASE \E f \in Infos : ReadPacket(f)
  BY <1>2, ReadPacketListInv
<1>3. ASSUME NEW f \in Infos, CloseFile(f)
      PROVE  ListInv'
  BY <1>3 DEF CloseFile, mainVars, listVars, ListInv
<1>4. CASE Finish \/ \E f \in Infos : Dereference(f)
  <2>1. /\ mainPc = "threads" /\ mainPc' \in {"reported", "segfault"}
        /\ UNCHANGED <<argv, numPcapFiles, theInfo>>
    BY <1>4 DEF Finish, Report, Dereference, listVars
  <2> QED
    BY <2>1 DEF ListInv
<1>5. CASE UNCHANGED vars
  BY <1>5 DEF vars, mainVars, listVars, ListInv
<1> QED
  BY <1>1, <1>2, <1>3, <1>4, <1>5, OpenFileListInv DEF Next, Stopped, Infos

(* NamesListed, for any command lines and lists of names, any bound on the *)
(* list and any length of the buffer: the list has the names of the        *)
(* arguments main has looked at and of the buffers it has read, in their   *)
(* order and without a gap, or the first MAX_PCAP_FILES of them.           *)
THEOREM NamesAreListed == Spec => []NamesListed
<1>1. ASSUME ListInv PROVE NamesListed
  <2>1. [k \in DOMAIN argv |-> NamesOf(k)] = ByArgument(argv)
    BY Zenon DEF NamesOf, NamesIn, ByArgument, LinesOf
  <2>2. FlattenSeq([k \in DOMAIN argv |-> NamesOf(k)]) = Listed(argv)
    BY <2>1, Zenon DEF Listed
  <2>3. mainPc \in {"threads", "reported"} =>
           Lists(argv, numPcapFiles, theInfo, Len(Listed(argv)))
    BY <1>1 DEF ListInv
  <2> QED
    BY <2>2, <2>3, Zenon DEF NamesListed, Lists
<1> QED
  BY <1>1, InitListInv, NextListInv, Invariance, PTL DEF Spec

=============================================================================
