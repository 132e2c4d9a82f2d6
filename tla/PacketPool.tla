----------------------------- MODULE PacketPool -----------------------------
(***************************************************************************)
(* Project04, main.c of redextract: producers claim pcap files and push    *)
(* the packets they read on a shared bounded stack; consumers pop packets  *)
(* and process them until every file is done.                              *)
(*                                                                         *)
(* Two things make the steps small.  isdone is a plain int that producers  *)
(* increment and consumers read without a common lock.  And a producer     *)
(* that has finished a file unlocks StackLock without holding it: the      *)
(* default mutex does not check its owner and simply becomes free, so from *)
(* then on several threads may be inside the critical section, and each    *)
(* load and store of stackSize counts (the Makefile builds without -O, so  *)
(* stackSize++ reloads stackSize after the slot is written).               *)
(***************************************************************************)
EXTENDS Integers, FiniteSets

CONSTANTS Producers, Consumers,   (* the threads main creates                  *)
          NThreads,               (* nThreads, -threads on the command line    *)
          NumPcapFiles,           (* numPcapFiles                              *)
          Reads,                  (* calls of readNextPacket until feof, by file *)
          Oversize,               (* the calls among them that return NULL     *)
          STACK_MAX_SIZE,         (* slots of stack                            *)
          NoPacket, NoFile

Threads == Producers \cup Consumers
Files == 0..(NumPcapFiles - 1)

\* A packet is named by its file and its position in it.
Packets == UNION {{f} \X (1..Reads[f]) : f \in Files}

\* How main splits the threads: one producer per file when that leaves a
\* consumer, else all but one.
nThreadsProducers ==
    IF NumPcapFiles = 1 THEN 1
    ELSE IF NThreads > NumPcapFiles THEN NumPcapFiles ELSE NThreads - 1

nThreadsConsumers == NThreads - nThreadsProducers

ASSUME ThreadsAssumption ==
    /\ IsFiniteSet(Producers) /\ IsFiniteSet(Consumers)
    /\ Producers \cap Consumers = {}
    /\ NThreads \in 2..8
    /\ Cardinality(Producers) = nThreadsProducers
    /\ Cardinality(Consumers) = nThreadsConsumers

\* MAX_PCAP_FILES is 20.
ASSUME FilesAssumption ==
    /\ NumPcapFiles \in 0..20
    /\ Reads \in [Files -> Nat]
    /\ Oversize \subseteq Packets
    /\ STACK_MAX_SIZE \in Nat \ {0}
    /\ NoPacket \notin Packets
    /\ NoFile \notin Files

VARIABLES StackLock,      (* TRUE while locked; the owner is not recorded *)
          stack, stackSize, isdone, fileIndex,
          reads,          (* records read so far, by file                 *)
          fileOf,         (* the file a producer works on                 *)
          pPacket,        (* the packet a thread holds                    *)
          reg,            (* the value a thread has loaded for ++ or --   *)
          pc,
          ended           (* how the process has ended, or "no"           *)

vars == <<StackLock, stack, stackSize, isdone, fileIndex, reads, fileOf,
          pPacket, reg, pc, ended>>
stackVars == <<stack, stackSize>>
fileVars == <<isdone, fileIndex, reads, fileOf>>

Endings == {"no", "reported", "exit(-2)", "segfault", "outOfBounds"}

Init ==
    /\ StackLock = FALSE
    /\ stack = [i \in 0..(STACK_MAX_SIZE - 1) |-> NoPacket]
    /\ stackSize = 0
    /\ isdone = 0
    /\ fileIndex = 0
    /\ reads = [f \in Files |-> 0]
    /\ fileOf = [p \in Producers |-> NoFile]
    /\ pPacket = [t \in Threads |-> NoPacket]
    /\ reg = [t \in Threads |-> 0]
    /\ pc = [t \in Threads |-> IF t \in Producers THEN "loop" ELSE "lock"]
    /\ ended = "no"

Running(t, l) == ended = "no" /\ pc[t] = l
Goto(t, l) == pc' = [pc EXCEPT ![t] = l]
Broadcast(f, group) ==
    [t \in Threads |-> IF t \in group /\ f[t] = "asleep" THEN "lock" ELSE f[t]]

-----------------------------------------------------------------------------
(* StackLock and the condition variables                                   *)

Acquire(t) ==
    /\ Running(t, "lock")
    /\ ~StackLock
    /\ StackLock' = TRUE
    /\ Goto(t, "check")
    /\ UNCHANGED <<stackVars, fileVars, pPacket, reg, ended>>

CondWait(t) ==
    /\ Running(t, "wait")
    /\ StackLock' = FALSE
    /\ Goto(t, "asleep")
    /\ UNCHANGED <<stackVars, fileVars, pPacket, reg, ended>>

\* POSIX lets pthread_cond_wait return without a signal.
SpuriousWakeup(t) ==
    /\ Running(t, "asleep")
    /\ Goto(t, "lock")
    /\ UNCHANGED <<StackLock, stackVars, fileVars, pPacket, reg, ended>>

\* The load of stackSize++ and stackSize--.
LoadStackSize(t) ==
    /\ Running(t, "load")
    /\ reg' = [reg EXCEPT ![t] = stackSize]
    /\ Goto(t, "commit")
    /\ UNCHANGED <<StackLock, stackVars, fileVars, pPacket, ended>>

-----------------------------------------------------------------------------
(* thread_producer                                                         *)

ProducerLoop(p) ==
    /\ Running(p, "loop")
    /\ Goto(p, IF isdone # NumPcapFiles THEN "claim" ELSE "returned")
    /\ UNCHANGED <<StackLock, stackVars, fileVars, pPacket, reg, ended>>

\* Variant of ClaimFile: fileIndex++ is forgotten on the way out of the lock.
ClaimFileAgain(p) ==
    /\ Running(p, "claim")
    /\ IF fileIndex = NumPcapFiles
       THEN Goto(p, "returned") /\ UNCHANGED fileOf
       ELSE fileOf' = [fileOf EXCEPT ![p] = fileIndex] /\ Goto(p, "open")
    /\ UNCHANGED <<StackLock, stackVars, fileIndex, isdone, reads, pPacket, reg, ended>>

\* Variant of ClaimFile: isdone++ when the file is claimed.
ClaimFileCounts(p) ==
    /\ Running(p, "claim")
    /\ IF fileIndex = NumPcapFiles
       THEN Goto(p, "returned") /\ UNCHANGED <<fileIndex, fileOf, isdone>>
       ELSE /\ fileOf' = [fileOf EXCEPT ![p] = fileIndex]
            /\ fileIndex' = fileIndex + 1
            /\ isdone' = isdone + 1
            /\ Goto(p, "open")
    /\ UNCHANGED <<StackLock, stackVars, reads, pPacket, reg, ended>>

\* Under FileLock, which only guards fileIndex.
ClaimFile(p) ==
    /\ Running(p, "claim")
    /\ IF fileIndex = NumPcapFiles
       THEN Goto(p, "returned") /\ UNCHANGED <<fileIndex, fileOf>>
       ELSE /\ fileOf' = [fileOf EXCEPT ![p] = fileIndex]
            /\ fileIndex' = fileIndex + 1
            /\ Goto(p, "open")
    /\ UNCHANGED <<StackLock, stackVars, isdone, reads, pPacket, reg, ended>>

\* A file may have a header that cannot be read, or the wrong magic number.
parsePcapFileStart == BOOLEAN

\* A file that cannot be opened ends the process; one with a bad header ends
\* this producer, without isdone++.
OpenFile(p) ==
    /\ Running(p, "open")
    /\ \/ ended' = "exit(-2)" /\ UNCHANGED pc
       \/ /\ \E ok \in parsePcapFileStart : Goto(p, IF ok THEN "read" ELSE "returned")
          /\ UNCHANGED ended
    /\ UNCHANGED <<StackLock, stackVars, fileVars, pPacket, reg>>

\* The next packet of a file, one that reaches feof included: it is NULL when
\* the record is Oversize, whose payload is skipped.
readNextPacket(f) == <<f, reads[f] + 1>>

ReadPacket(p) ==
    /\ Running(p, "read")
    /\ LET f == fileOf[p] IN
       IF reads[f] = Reads[f]
       THEN Goto(p, "close") /\ UNCHANGED <<reads, pPacket>>
       ELSE /\ reads' = [reads EXCEPT ![f] = @ + 1]
            /\ pPacket' = [pPacket EXCEPT ![p] = readNextPacket(f)]
            /\ Goto(p, "lock")
    /\ UNCHANGED <<StackLock, stackVars, isdone, fileIndex, fileOf, reg, ended>>

PushCheck(p) ==
    /\ Running(p, "check")
    /\ Goto(p, IF stackSize >= STACK_MAX_SIZE THEN "wait" ELSE "store")
    /\ UNCHANGED <<StackLock, stackVars, fileVars, pPacket, reg, ended>>

\* Variant of PushStore: the mutex is given back before stackSize++.
PushStoreUnlocks(p) ==
    /\ Running(p, "store")
    /\ IF stackSize \in DOMAIN stack
       THEN /\ stack' = [stack EXCEPT ![stackSize] = pPacket[p]]
            /\ StackLock' = FALSE
            /\ Goto(p, "load")
            /\ UNCHANGED ended
       ELSE ended' = "outOfBounds" /\ UNCHANGED <<StackLock, stack, pc>>
    /\ UNCHANGED <<stackSize, fileVars, pPacket, reg>>

\* stack[stackSize] = pPacket, with the stackSize of this moment.
PushStore(p) ==
    /\ Running(p, "store")
    /\ IF stackSize \in DOMAIN stack
       THEN /\ stack' = [stack EXCEPT ![stackSize] = pPacket[p]]
            /\ Goto(p, "load")
            /\ UNCHANGED ended
       ELSE ended' = "outOfBounds" /\ UNCHANGED <<stack, pc>>
    /\ UNCHANGED <<StackLock, stackSize, fileVars, pPacket, reg>>

PushCommit(p) ==
    /\ Running(p, "commit")
    /\ stackSize' = reg[p] + 1
    /\ pPacket' = [pPacket EXCEPT ![p] = NoPacket]
    /\ Goto(p, "unlock")
    /\ UNCHANGED <<StackLock, stack, fileVars, reg, ended>>

PushUnlock(p) ==
    /\ Running(p, "unlock")
    /\ StackLock' = FALSE
    /\ pc' = Broadcast([pc EXCEPT ![p] = "read"], Consumers)
    /\ UNCHANGED <<stackVars, fileVars, pPacket, reg, ended>>

\* fclose, and the load of isdone++.
CloseFile(p) ==
    /\ Running(p, "close")
    /\ reg' = [reg EXCEPT ![p] = isdone]
    /\ Goto(p, "count")
    /\ UNCHANGED <<StackLock, stackVars, fileVars, pPacket, ended>>

\* The store of isdone++.
CountFile(p) ==
    /\ Running(p, "count")
    /\ isdone' = reg[p] + 1
    /\ fileOf' = [fileOf EXCEPT ![p] = NoFile]
    /\ Goto(p, "finish")
    /\ UNCHANGED <<StackLock, stackVars, fileIndex, reads, pPacket, reg, ended>>

\* The broadcast, and the unlock of a mutex this thread does not hold.
FinishFile(p) ==
    /\ Running(p, "finish")
    /\ StackLock' = FALSE
    /\ pc' = Broadcast([pc EXCEPT ![p] = "loop"], Consumers)
    /\ UNCHANGED <<stackVars, fileVars, pPacket, reg, ended>>

-----------------------------------------------------------------------------
(* thread_consumer                                                         *)

PopCheck(c) ==
    /\ Running(c, "check")
    /\ Goto(c, IF stackSize <= 0 THEN "checkDone" ELSE "test")
    /\ UNCHANGED <<StackLock, stackVars, fileVars, pPacket, reg, ended>>

\* The stack is empty: leave the wait loop once isdone says all is read.
PopCheckDone(c) ==
    /\ Running(c, "checkDone")
    /\ Goto(c, IF isdone = NumPcapFiles THEN "test" ELSE "wait")
    /\ UNCHANGED <<StackLock, stackVars, fileVars, pPacket, reg, ended>>

\* "exit when all producer threads are done reading files"
PopTest(c) ==
    /\ Running(c, "test")
    /\ IF isdone = NumPcapFiles /\ stackSize <= 0
       THEN StackLock' = FALSE /\ Goto(c, "exit")
       ELSE UNCHANGED StackLock /\ Goto(c, "take")
    /\ UNCHANGED <<stackVars, fileVars, pPacket, reg, ended>>

PopTake(c) ==
    /\ Running(c, "take")
    /\ IF stackSize - 1 \in DOMAIN stack
       THEN /\ pPacket' = [pPacket EXCEPT ![c] = stack[stackSize - 1]]
            /\ Goto(c, "load")
            /\ UNCHANGED ended
       ELSE ended' = "outOfBounds" /\ UNCHANGED <<pPacket, pc>>
    /\ UNCHANGED <<StackLock, stackVars, fileVars, reg>>

\* Variant of PopCommit: stackSize-- is forgotten.
PopCommitKeepsSize(c) ==
    /\ Running(c, "commit")
    /\ Goto(c, "unlock")
    /\ UNCHANGED <<StackLock, stackVars, fileVars, pPacket, reg, ended>>

PopCommit(c) ==
    /\ Running(c, "commit")
    /\ stackSize' = reg[c] - 1
    /\ Goto(c, "unlock")
    /\ UNCHANGED <<StackLock, stack, fileVars, pPacket, reg, ended>>

\* Variant of PopUnlock: no broadcast to the producers.
PopUnlockSilent(c) ==
    /\ Running(c, "unlock")
    /\ StackLock' = FALSE
    /\ Goto(c, "process")
    /\ UNCHANGED <<stackVars, fileVars, pPacket, reg, ended>>

PopUnlock(c) ==
    /\ Running(c, "unlock")
    /\ StackLock' = FALSE
    /\ pc' = Broadcast([pc EXCEPT ![c] = "process"], Producers)
    /\ UNCHANGED <<stackVars, fileVars, pPacket, reg, ended>>

IsNull(x) == x = NoPacket \/ x \in Oversize

\* `if(poc->Data != NULL) processPacket(poc)`: reading through NULL ends the
\* process.
Process(c) ==
    /\ Running(c, "process")
    /\ IF IsNull(pPacket[c])
       THEN ended' = "segfault" /\ UNCHANGED <<pPacket, pc>>
       ELSE /\ pPacket' = [pPacket EXCEPT ![c] = NoPacket]
            /\ Goto(c, "lock")
            /\ UNCHANGED ended
    /\ UNCHANGED <<StackLock, stackVars, fileVars, reg>>

ConsumerExit(c) ==
    /\ Running(c, "exit")
    /\ pc' = Broadcast([pc EXCEPT ![c] = "exited"], Consumers)
    /\ UNCHANGED <<StackLock, stackVars, fileVars, pPacket, reg, ended>>

-----------------------------------------------------------------------------
(* main joins the consumers, prints the summary and returns, which ends    *)
(* every thread.                                                           *)

\* Variant of MainReport: main joins the producers instead.
MainReportJoinsProducers ==
    /\ ended = "no"
    /\ \A p \in Producers : pc[p] = "returned"
    /\ ended' = "reported"
    /\ UNCHANGED <<StackLock, stackVars, fileVars, pPacket, reg, pc>>

MainReport ==
    /\ ended = "no"
    /\ \A c \in Consumers : pc[c] = "exited"
    /\ ended' = "reported"
    /\ UNCHANGED <<StackLock, stackVars, fileVars, pPacket, reg, pc>>

Terminated == ended # "no" /\ UNCHANGED vars

Producer(p) ==
    \/ ProducerLoop(p) \/ ClaimFile(p) \/ OpenFile(p) \/ ReadPacket(p)
    \/ PushCheck(p) \/ PushStore(p) \/ PushCommit(p) \/ PushUnlock(p)
    \/ CloseFile(p) \/ CountFile(p) \/ FinishFile(p)

Consumer(c) ==
    \/ PopCheck(c) \/ PopCheckDone(c) \/ PopTest(c) \/ PopTake(c)
    \/ PopCommit(c) \/ PopUnlock(c) \/ Process(c) \/ ConsumerExit(c)

Step(t) ==
    \/ Acquire(t) \/ CondWait(t) \/ LoadStackSize(t)
    \/ t \in Producers /\ Producer(t)
    \/ t \in Consumers /\ Consumer(t)

Next ==
    \/ \E t \in Threads : Step(t) \/ SpuriousWakeup(t)
    \/ MainReport
    \/ Terminated

Spec == Init /\ [][Next]_vars

\* Every runnable thread runs, and one that finds the mutex free again and
\* again gets it at last.  Spurious wakeups are never owed.
Fairness ==
    /\ \A t \in Threads : WF_vars(Step(t)) /\ SF_vars(Acquire(t))
    /\ WF_vars(MainReport)

FairSpec == Spec /\ Fairness

-----------------------------------------------------------------------------
(* Where every file and every packet is.                                   *)

Claimed == 0..(fileIndex - 1)
Active == {fileOf[p] : p \in Producers} \ {NoFile}

\* The files whose isdone++ has been stored.
Counted == Claimed \ Active

Held(ts) == {pPacket[t] : t \in ts} \ {NoPacket}

\* A packet leaves Unpushed when stackSize++ makes it visible, and Stacked when
\* stackSize-- hides it.
Unpushed == {x \in Packets : x[2] > reads[x[1]]} \cup Held(Producers)
Slots == {i \in DOMAIN stack : i < stackSize}
Stacked == {stack[i] : i \in Slots}
Takers == {c \in Consumers : pc[c] \in {"unlock", "process"}}
Taken == Held(Takers)
Done == Packets \ (Unpushed \cup Stacked \cup Taken)

InStack == {"check", "checkDone", "wait", "test", "take", "store", "load",
            "commit", "unlock"}
Inside == {t \in Threads : pc[t] \in InStack}

ProducerPcs == {"loop", "claim", "open", "read", "lock", "check", "wait",
                "asleep", "store", "load", "commit", "unlock", "close",
                "count", "finish", "returned"}
ConsumerPcs == {"lock", "check", "checkDone", "wait", "asleep", "test", "take",
                "load", "commit", "unlock", "process", "exit", "exited"}

(* Every variable has its type.  stackSize is only an integer: once the    *)
(* mutex is broken it can leave the array.                                 *)
TypeOK ==
    /\ StackLock \in BOOLEAN
    /\ stack \in [0..(STACK_MAX_SIZE - 1) -> Packets \cup {NoPacket}]
    /\ stackSize \in Int
    /\ isdone \in 0..NumPcapFiles
    /\ fileIndex \in 0..NumPcapFiles
    /\ reads \in [Files -> Nat]
    /\ \A f \in Files : reads[f] <= Reads[f]
    /\ fileOf \in [Producers -> Files \cup {NoFile}]
    /\ pPacket \in [Threads -> Packets \cup {NoPacket}]
    /\ reg \in [Threads -> Int]
    /\ pc \in [Threads -> ProducerPcs \cup ConsumerPcs]
    /\ \A p \in Producers : pc[p] \in ProducerPcs
    /\ \A c \in Consumers : pc[c] \in ConsumerPcs
    /\ ended \in Endings

(* No two producers work on one file, and the files before fileIndex are   *)
(* the ones that have been handed out: the counters in theInfo[f] have one *)
(* writer.                                                                 *)
OneReaderPerFile ==
    /\ Active \subseteq Claimed
    /\ \A p, q \in Producers :
          fileOf[p] = fileOf[q] /\ fileOf[p] # NoFile => p = q

(* isdone is incremented without a lock: increments are lost, and a late    *)
(* store can even take it back down; but it never runs ahead of the files  *)
(* that are read, so no consumer leaves (main.c:133 'exit when all         *)
(* producer threads are done reading files') while one is still open.      *)
ConsumersLeaveLast ==
    (\E c \in Consumers : pc[c] \in {"exit", "exited"}) =>
        Counted = Files /\ \A f \in Files : reads[f] = Reads[f]

(* Until the first file is finished nobody has run the stray unlock, and   *)
(* the critical section holds one thread at a time.                        *)
ExclusiveUntilFinished ==
    Counted = {} => Cardinality(Inside) = IF StackLock THEN 1 ELSE 0

(* Until then, too, every packet is in one place: unread or in a           *)
(* producer's hands, in one slot of the stack, in one consumer's hands, or *)
(* processed.                                                              *)
AccountingUntilFinished ==
    Counted = {} =>
        /\ stackSize \in 0..STACK_MAX_SIZE
        /\ Unpushed \cap Stacked = {}
        /\ Unpushed \cap Taken = {}
        /\ Stacked \cap Taken = {}
        /\ NoPacket \notin Stacked
        /\ \A i, j \in Slots : stack[i] = stack[j] => i = j
        /\ \A c, d \in Takers : pPacket[c] = pPacket[d] => c = d

Pool == INSTANCE WorkPool WITH
            Items <- Packets, Capacity <- STACK_MAX_SIZE,
            todo <- Unpushed, pooled <- Stacked, busy <- Taken,
            done <- Done, reported <- ended = "reported"

(* With one producer, one consumer and one file the program implements the *)
(* bounded work pool, whatever ends it, and the summary covers every       *)
(* packet.  With a second file it does not: the stray unlock after the     *)
(* first one lets the producer in beside the consumer.                     *)
RefinesWorkPool == Pool!WPSpec

(* There, too, every packet is processed, unless a file cannot be read or  *)
(* a NULL packet ends the process.                                         *)
Failed ==
    \/ ended \in {"exit(-2)", "segfault"}
    \/ \E p \in Producers : pc[p] = "returned" /\ fileOf[p] # NoFile

AllPacketsProcessed == <>(Done = Packets \/ Failed)

(* main.c:133 'exit when all producer threads are done reading files': a   *)
(* consumer that has waited for packets leaves once every file is read.    *)
ConsumersExit ==
    (ended = "no" /\ \A p \in Producers : pc[p] = "returned" /\ fileOf[p] = NoFile)
        ~> (ended # "no")

=============================================================================
