------------------------------ MODULE PcapReader ------------------------------
(***************************************************************************)
(* Project04, pcap-read.c and its use in thread_producer: the files that   *)
(* main has listed are opened in their order and read record by record.    *)
(* The queue that takes the packets away is PacketPool's; here a file's    *)
(* packets are kept as they were delivered.                                *)
(*                                                                         *)
(* A file is what its reader can tell apart: its magic number, the lengths *)
(* of its records, and its size, which is short if the end is cut off.     *)
(* Positions and lengths are in bytes.                                     *)
(***************************************************************************)
EXTENDS CommandLine, FiniteSetsExt

CONSTANTS PcapFiles,           (* the files that fopen finds, by name          *)
          Noise,               (* words that stand where no length is         *)
          Freed,               (* what freed memory may read as               *)
          DEFAULT_READ_BUFFER

FileHeader == 24               \* from the magic number to the link layer type
RecordHeader == 16             \* two words of time, two of length
IncludedAt == 8                \* where in it LengthIncluded is

\* Where record k of a file begins, and past the last one where it ends.
Start(file) ==
    LET start[k \in 1..(Len(file.records) + 1)] ==
            IF k = 1 THEN FileHeader
            ELSE start[k - 1] + RecordHeader + file.records[k - 1]
    IN  start

End(file) == Start(file)[Len(file.records) + 1]

ASSUME FilesAssumption ==
    /\ \A name \in DOMAIN PcapFiles :
          LET file == PcapFiles[name]
          IN  /\ file.magic \in {"native", "swapped", "other"}
              /\ file.records \in Seq(Nat)
              /\ file.size \in 0..End(file)
    /\ Noise \subseteq Nat /\ Freed \subseteq Nat
    /\ DEFAULT_READ_BUFFER \in Nat

VARIABLES fileIndex,
          reader,        (* by entry of theInfo: the FILE and how far it got  *)
          packets        (* by entry of theInfo: what readNextPacket returned *)

readerVars == <<fileIndex, reader, packets>>
vars == <<mainVars, readerVars>>

NULL == [at |-> 0, LengthIncluded |-> 0, read |-> 0]
Unopened == [state |-> "unopened", pos |-> 0, eof |-> FALSE]

Init ==
    /\ InitMain
    /\ fileIndex = 0
    /\ reader = [f \in 0..(MAX_PCAP_FILES - 1) |-> Unopened]
    /\ packets = [f \in 0..(MAX_PCAP_FILES - 1) |-> <<>>]

FileOf(f) == PcapFiles[theInfo[f].FileName]
In(state) == {f \in DOMAIN reader : reader[f].state = state}

\* How many of the n bytes at a position a fread gets.
Got(f, pos, n) ==
    LET rest == FileOf(f).size - pos
    IN  IF rest <= 0 THEN 0 ELSE IF rest < n THEN rest ELSE n

-----------------------------------------------------------------------------

\* The magic number, or what an earlier call left on the stack if the file is
\* too short to have one.
nMagicNum(f) ==
    IF Got(f, 0, 4) = 4 THEN {FileOf(f).magic} ELSE {"native", "swapped", "other"}

Open(f) ==
    /\ fileIndex' = fileIndex + 1
    /\ IF theInfo[f].FileName \notin DOMAIN PcapFiles
       THEN mainPc' = "exit(-2)" /\ UNCHANGED <<theInfo, reader>>
       ELSE \E magic \in nMagicNum(f) :
              /\ reader' = [reader EXCEPT ![f] =
                    [state |-> IF magic = "other" THEN "refused" ELSE "reading",
                     pos |-> FileHeader,
                     eof |-> Got(f, 0, FileHeader) < FileHeader]]
              /\ theInfo' = [theInfo EXCEPT ![f].EndianFlip = (magic = "swapped"),
                                            ![f].Packets = 0, ![f].BytesRead = 0]
              /\ UNCHANGED mainPc
    /\ UNCHANGED <<argv, i, numPcapFiles, isPcapFile, fileRead, threadVars, at,
                   freed, packets>>

\* Variant of OpenFile: a producer reads one file and returns.
OpenFileOnce ==
    /\ mainPc = "threads"
    /\ fileIndex < numPcapFiles
    /\ fileIndex < nThreadsProducers
    /\ Open(fileIndex)

\* A producer takes the next file.  One whose file has been refused is gone,
\* and one file that cannot be opened ends the process.
OpenFile ==
    /\ mainPc = "threads"
    /\ fileIndex < numPcapFiles
    /\ Cardinality(In("reading")) + Cardinality(In("refused")) < nThreadsProducers
    /\ Open(fileIndex)

\* A number of the other byte order, of which only some bytes may have been
\* read: the macro keeps the last of the four bytes and drops the others.
endianfixl(n, bytes) == IF bytes = 4 THEN n % 256 ELSE 0

\* A number of this machine's byte order, as far as it was read.
LowBytes(n, bytes) == IF bytes = 4 THEN n ELSE n % <<256, 65536, 16777216>>[bytes]

\* What LengthIncluded can become, as far as it was read: where a record begins
\* its length, elsewhere the bytes of the payload that stand in its place.
LengthsIncluded(f, pos) ==
    LET start == Start(FileOf(f))
        bytes == Got(f, pos + IncludedAt, 4)
        records == {k \in DOMAIN FileOf(f).records : start[k] = pos}
        words == IF records = {} THEN Noise ELSE {FileOf(f).records[k] : k \in records}
    IN  IF bytes = 0 THEN {0}
        ELSE {IF theInfo[f].EndianFlip THEN endianfixl(n, bytes) ELSE LowBytes(n, bytes) :
                 n \in words}

Deliver(f, packet) == packets' = [packets EXCEPT ![f] = Append(@, packet)]

\* Variant of Skip: the packet is counted before it is discarded.
SkipCounts(f, data, LengthIncluded) ==
    /\ Deliver(f, NULL)
    /\ reader' = [reader EXCEPT ![f].pos = data + LengthIncluded, ![f].eof = FALSE]
    /\ theInfo' = [theInfo EXCEPT ![f].Packets = @ + 1]

\* A packet too long is discarded, and then fseek takes the length to skip from
\* it: freed memory may still hold it, or anything else.  fseek succeeds beyond
\* the end of the file too, and clears the end-of-file mark.
Skip(f, data, LengthIncluded) ==
    /\ Deliver(f, NULL)
    /\ \E n \in Freed \cup {LengthIncluded} :
          reader' = [reader EXCEPT ![f].pos = data + n, ![f].eof = FALSE]
    /\ UNCHANGED theInfo

\* Variant of readNextPacket: a packet that just fits its buffer is skipped.
readNextPacketShorter(f) ==
    \E LengthIncluded \in LengthsIncluded(f, reader[f].pos) :
        LET header == Got(f, reader[f].pos, RecordHeader)
            data == reader[f].pos + header
            read == Got(f, data, LengthIncluded)
        IN  IF DEFAULT_READ_BUFFER <= LengthIncluded
            THEN Skip(f, data, LengthIncluded)
            ELSE /\ Deliver(f, [at |-> data, LengthIncluded |-> LengthIncluded,
                                read |-> read])
                 /\ reader' = [reader EXCEPT
                       ![f].pos = data + read,
                       ![f].eof = header < RecordHeader \/ read < LengthIncluded]
                 /\ theInfo' = [theInfo EXCEPT ![f].Packets = @ + 1,
                                               ![f].BytesRead = @ + LengthIncluded]

\* header is what could be read of the record's header.
readNextPacket(f) ==
    \E LengthIncluded \in LengthsIncluded(f, reader[f].pos) :
        LET header == Got(f, reader[f].pos, RecordHeader)
            data == reader[f].pos + header
            read == Got(f, data, LengthIncluded)
        IN  IF DEFAULT_READ_BUFFER < LengthIncluded
            THEN Skip(f, data, LengthIncluded)
            ELSE /\ Deliver(f, [at |-> data, LengthIncluded |-> LengthIncluded,
                                read |-> read])
                 /\ reader' = [reader EXCEPT
                       ![f].pos = data + read,
                       ![f].eof = header < RecordHeader \/ read < LengthIncluded]
                 /\ theInfo' = [theInfo EXCEPT ![f].Packets = @ + 1,
                                               ![f].BytesRead = @ + LengthIncluded]

\* while(!feof(pTheFile))
ReadPacket(f) ==
    /\ mainPc = "threads"
    /\ f \in In("reading")
    /\ ~reader[f].eof
    /\ readNextPacket(f)
    /\ UNCHANGED <<argv, i, mainPc, numPcapFiles, isPcapFile, fileRead, threadVars,
                   at, freed, fileIndex>>

CloseFile(f) ==
    /\ mainPc = "threads"
    /\ f \in In("reading")
    /\ reader[f].eof
    /\ reader' = [reader EXCEPT ![f].state = "closed"]
    /\ UNCHANGED <<mainVars, fileIndex, packets>>

HasNull(f) == \E k \in DOMAIN packets[f] : packets[f][k] = NULL

\* A consumer reads through a NULL that was delivered: the process ends.
Dereference(f) ==
    /\ mainPc = "threads"
    /\ HasNull(f)
    /\ mainPc' = "segfault"
    /\ UNCHANGED <<argv, i, listVars, isPcapFile, fileRead, threadVars, at, freed,
                   readerVars>>

\* main has joined every consumer.  None leaves before all files are read, as
\* PacketPool shows, and one that sleeps for ever never does.  A NULL ends the
\* process before that, unless the stray unlock has made the consumers lose it,
\* which takes a second file or a second consumer.
Finish ==
    /\ Cardinality(In("closed")) = numPcapFiles
    /\ (\E f \in In("closed") : HasNull(f)) => numPcapFiles > 1 \/ nThreadsConsumers > 1
    /\ Report
    /\ UNCHANGED readerVars

\* The process is over; or no producer is left and main waits for consumers.
Stopped ==
    /\ \/ mainPc \notin {"arguments", "lines", "threads"}
       \/ /\ mainPc = "threads"
          /\ In("reading") = {}
          /\ In("refused") # {} \/ Cardinality(In("closed")) = numPcapFiles
    /\ UNCHANGED vars

Next ==
    \/ ReadArguments /\ UNCHANGED readerVars
    \/ OpenFile
    \/ \E f \in 0..(MAX_PCAP_FILES - 1) : ReadPacket(f) \/ CloseFile(f) \/ Dereference(f)
    \/ Finish
    \/ Stopped

Spec == Init /\ [][Next]_vars

\* main gets to the threads, and every producer gets on: a stack that is full is
\* emptied at last.  PacketPool shows this of one file; with more of them the
\* stray unlock can put everyone to sleep, and here it is assumed.  Nothing makes
\* a consumer leave, or come to a NULL.
Fairness ==
    /\ WF_vars(ReadArguments /\ UNCHANGED readerVars)
    /\ WF_vars(OpenFile)
    /\ \A f \in 0..(MAX_PCAP_FILES - 1) : WF_vars(ReadPacket(f) \/ CloseFile(f))

FairSpec == Spec /\ Fairness

-----------------------------------------------------------------------------

\* The lengths survive the byte order.
Legible(f) ==
    \/ ~theInfo[f].EndianFlip
    \/ \A k \in DOMAIN FileOf(f).records : FileOf(f).records[k] < 256

\* The first k records of a file have room in a packet each.
Fit(file, k) ==
    \A j \in DOMAIN file.records : j <= k => file.records[j] <= DEFAULT_READ_BUFFER

(* A legible file is delivered record by record, to the first that does    *)
(* not fit: each packet has the length of its record and its bytes, all of *)
(* them unless the file is cut off, and the record that does not fit gives *)
(* NULL.  What is read behind that one depends on freed memory.  If all    *)
(* fit and the file is whole, none is missing when it is closed; the loop  *)
(* may make one more call, but gets no byte for it.                        *)
RecordsDelivered ==
    \A f \in In("reading") \cup In("closed") :
        Legible(f) =>
            LET file == FileOf(f)
                n == Len(file.records)
                m == Len(packets[f])
            IN  /\ \A k \in 1..m :
                      LET from == Start(file)[k] + RecordHeader
                      IN  k <= n /\ from <= file.size /\ Fit(file, k - 1) =>
                             packets[f][k] =
                                IF file.records[k] > DEFAULT_READ_BUFFER THEN NULL
                                ELSE [at |-> from,
                                      LengthIncluded |-> file.records[k],
                                      read |-> Got(f, from, file.records[k])]
                /\ Fit(file, n) => m <= n + 1
                /\ Fit(file, n) /\ reader[f].state = "closed" /\ file.size = End(file) =>
                      m >= n /\ (m > n => packets[f][n + 1].read = 0)

(* Legible or not, the counters of theInfo are those of the packets that   *)
(* were delivered, none of which is longer than its buffer, and no byte of *)
(* the file is delivered twice.                                            *)
InfoAgrees ==
    \A f \in In("reading") \cup In("closed") :
        LET real == {k \in DOMAIN packets[f] : packets[f][k] # NULL}
        IN  /\ theInfo[f].Packets = Cardinality(real)
            /\ theInfo[f].BytesRead =
                  MapThenSumSet(LAMBDA k : packets[f][k].LengthIncluded, real)
            /\ \A k \in real :
                  /\ packets[f][k].LengthIncluded <= DEFAULT_READ_BUFFER
                  /\ \A l \in real : k < l =>
                        packets[f][k].at + packets[f][k].read <= packets[f][l].at

(* Whatever the files hold and freed memory reads as, the producers read   *)
(* every file that main has listed to its end and close it, as long as the *)
(* stack takes their packets, unless a file cannot be opened, a bad header *)
(* takes a producer away or a consumer comes to a NULL.                    *)
AllFilesRead ==
    (mainPc = "threads") ~>
        \/ \A f \in 0..(numPcapFiles - 1) : reader[f].state = "closed"
        \/ mainPc \in {"exit(-2)", "segfault"}
        \/ In("refused") # {}

=============================================================================
