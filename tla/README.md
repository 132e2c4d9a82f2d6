# A TLA+ model of pcm4, redextract and SimpleFS

The repository holds three independent C programs of an operating-systems course:

| program | where | what it does |
|---|---|---|
| **pcm4** | `Milestone04` | producers push random text blocks on a shared stack, consumers pop them and count a search string |
| **redextract** | `Project04` | producers read packets from pcap files onto a shared stack, consumers look for repeated payloads in a hash table |
| **SimpleFS** | `Project06` (`Milestone06` is a byte-identical copy) | a shell over a small file system on an emulated disk |

The modules here follow the C code statement by statement where the order of
statements matters, and abstract the data that nothing depends on. TLC checks small
instances; TLAPS proves, for every instance, every invariant that a passing run checks - the
protocol of pcm4 and its count of matches, what redextract makes of its command line and
its files, what is left of its protocol under its broken mutex, the ownership and the
statistics of its table, the blocks of SimpleFS - and that pcm4 implements its work
pool and SimpleFS a store of whole files.

    tlc -workers 2 -config Pcm4Cv.cfg MCPcm4       # any run of PROJECT.json
    tlapm Pcm4Proofs.tla                           # the proofs of one module

`PROJECT.json` lists the runs, the source lines of every definition, the mutated
definitions that each property must reject, and the hazards.

## 1. Inventory

### pcm4 (`Milestone04/main.c`, `byteblock.c`)

*State.* `StackItems[0..STACK_MAX_SIZE-1]`, `StackSize` under `StackLock`;
`CountFound` under `FoundLock`; `CountDone` under `DoneLock`; `CountExpected` and
`KeepGoing`, which never change once the threads run; two condition variables
`ProducerWait` and `ConsumerWait` in the `USE_CONDITION_VARS` build. A thread has its
current block, and a producer its `IterationsToGo`.

*Operations.* `stack_ts_push`, `stack_ts_pop` (return at once on a full or empty
stack; the caller spins), `stack_ts_cv_push`, `stack_ts_cv_pop` (wait), the two thread
functions, and `main`, which creates the threads, joins the consumers, prints and
returns.

*What is hard.* Two builds of one protocol; `CountDone` is tested inside `StackLock`
but incremented outside it; the wakeups.

*Correct means.* Each block is searched exactly once, `CountFound` is exact, the
result is printed last, no thread sleeps on work it could do, the program ends.

### redextract (`Project04/main.c`, `pcap-read.c`, `pcap-process.c`, `packet.c`)

*Command line.* `main` turns its arguments, and the lines of `.txt` lists, into
`theInfo[0..numPcapFiles-1]`, then splits `nThreads` into producers and consumers; at
the end it frees the names it has allocated (`isPcapFile`).

*Reader.* Each entry of `theInfo` has `EndianFlip`, `Packets`, `BytesRead` and its FILE
with a position. `parsePcapFileStart` and `readNextPacket` advance it.

*Threads, files and stack.* `fileIndex` under `FileLock`; `stack`, `stackSize` under
`StackLock`; `isdone`, a plain `int` written by producers and read by consumers with
no common lock. `thread_producer` claims a file, reads its packets, pushes them,
and counts the file. At the end of each file it unlocks `StackLock`, *which it does
not hold*. `thread_consumer` pops and processes until `isdone = numPcapFiles` and the
stack is empty.

*Redundancy table.* `TheHash[index] = (ThePacket, HitCount, RedundantBytes)` and the
global counters. `processPacket` finds the payload of a packet in its headers.
`insert` examines a slot without `HashLock` and locks only for the update it has
decided on.

*What is hard.* The broken mutex, the unlocked counters, packets freed while another
consumer compares with them, consumers that replace each other's table entries.

Before the threads: lines cut by `fgets`, a list with a bound, names that are allocated
or not. In the reader: two byte orders, records too long for the buffer, files cut off,
an end of file that shows only after a failed read. In the table: offsets and lengths
computed from bytes of the packet.

*Correct means.* The list is what the user named, and the split of the threads one the
pool can work with; every listed file is read to its end, record by record. One reader
per file, no consumer leaves while a file is open, each packet processed once, one owner
for each packet, no hit lost, and a hit is a repetition.

### SimpleFS (`Project06/fs.c`, `shell.c`, `disk.c`)

*State.* On the disk: the superblock (block 0), a tenth of the blocks for inodes
(`isvalid`, `size`, 5 direct pointers, 1 indirect), the rest for data. In memory: the
bitmap `free_blocks` (where *marked* means used) and `is_mounted`.

*Operations.* `format`, `mount`, `create`, `delete`, `copyin` (`do_copyin` calls
`fs_write` for every 16 KiB), and `cat`, `copyout`, `debug`, `getsize`, which read.

*What is hard.* The bitmap is lost with the process and rebuilt by `mount`; one
`copyin` is a sequence of disk writes in which the process may die; long legal
sequences of commands (create, write, delete, create again ...).

*Correct means.* No block in two files, every block of a file marked while mounted,
no command or crash changes a file it was not given, a file reads as what was copied
into it, metadata stays metadata.

### How the parts interact

pcm4 and redextract are the same pattern twice, so both are measured against one
abstract module, `WorkPool`. Redextract is a chain: what `main` makes of its arguments
is what `PacketPool` assumes (`StartsAsAssumed`), what the reader delivers is what the
stack holds, and what the stack hands to a consumer is what the table is given.
SimpleFS is sequential; its concurrency is with the crash. The three programs share
no code.

### Hazards

`PROJECT.json` lists what can go wrong in this code and a test would hardly reach,
with its line and the properties that watch it. The ones without a property say why.

## 2. Modules

| module | models | EXTENDS / INSTANCE |
|---|---|---|
| `WorkPool` | abstract: items submitted to a bounded pool, taken once, finished once, reported last | |
| `Pcm4` | `Milestone04/main.c`, both builds | `INSTANCE WorkPool` |
| `Pcm4Search` | the texts of the blocks and the search loop | `Pcm4` |
| `CommandLine` | `main` of `Project04/main.c` up to the threads, and its report | |
| `PcapReader` | `Project04/pcap-read.c` and its use in `thread_producer` | `CommandLine` |
| `PacketPool` | the threads of `Project04/main.c` | `INSTANCE WorkPool` |
| `PacketFormat` | what `Project04/pcap-process.c` takes from the bytes of a packet | |
| `PacketTable` | the table of `Project04/pcap-process.c` | `PacketFormat` |
| `FileStore` | abstract: files as strings of units, one copied in at a time | |
| `SimpleFS` | `Project06/fs.c`, `do_copyin` and `do_copyout` of `shell.c`, `disk.c` | `INSTANCE FileStore` |
| `MC*` | values of constants for TLC | the module they are named after |
| `FiniteSums` | lemmas: sums over finite sets | TLAPS |
| `Pcm4Proofs` | theorems about `Pcm4` | `Pcm4`, TLAPS |
| `Pcm4CountProofs` | theorems about the numbers of `Pcm4` and `Pcm4Search` | `Pcm4Proofs`, `FiniteSums` |
| `PacketPoolProofs` | theorems about `PacketPool` | `PacketPool`, TLAPS |
| `PacketTableProofs` | theorems about `PacketTable` and `PacketFormat` | `PacketTable`, `FiniteSums` |
| `PcapReaderProofs` | theorems about `CommandLine` and `PcapReader` | `PcapReader`, `FiniteSums` |
| `SimpleFSProofs` | theorems about `SimpleFS`: the disk and who owns its blocks | `SimpleFS`, TLAPS |
| `SimpleFSStoreProofs` | theorems about `SimpleFS` and `FileStore` | `SimpleFSProofs` |

In every module an operator whose comment begins *Variant of* is a plausible bug in
the definition that follows it; `PROJECT.json` pairs it with the property that it
must break. Nothing in a specification uses a variant.

### Pcm4

`pc[t]` is where a thread stands; one action is one stretch of code whose shared reads
and writes no other thread can separate.

| action | code |
|---|---|
| `Acquire`, `CondWait`, `SpuriousWakeup` | `pthread_mutex_lock`, `pthread_cond_wait` |
| `ProducerLoop` | the `while` of `thread_producer` and the block it makes |
| `PushCheck`, `PushStore`, `PushCommit` | `stack_ts_push`, `stack_ts_cv_push`: the test of `StackSize`, the store to the slot, `StackSize++` with the broadcast and the unlock |
| `ConsumerLoop` | the test of `CountDone` under `DoneLock` |
| `PopCheck`, `PopNothingLeft`, `PopTake`, `PopDrop` | `stack_ts_pop`, `stack_ts_cv_pop`, in which `CountDone` is read twice |
| `SearchMatch`, `SearchDone` | `CountFound++` under `FoundLock`; `CountDone++` under `DoneLock` |
| `Exit` | the last broadcast of a thread |
| `MainReport` | the joins and the print; returning from `main` ends every thread |

`DoneLock` and `FoundLock` protect one counter each and are never held together with a
wait, so their sections are one step. (In the condition-variable pop, `CountDone` is
read *without* `DoneLock`; each read is a step of its own.) A block is named by its
producer and its position; `Matches` says how many matches the search finds in it. `Pcm4Search` says where that
number comes from: `Counted(b)` is the set of positions at which the loop of
`thread_consumer` finds "the" in the text of the block, and `Matches` its size.
`Occurrences(b)` are the positions at which the string does stand, against which
`ReportCounts` holds the printed number.

### CommandLine and PcapReader

`mainPc` is where `main` is: in the loop over `argv` (`PcapArgument`, `TextArgument`,
`ThreadsOption`, `WindowOption`, `Usage`), in the lines of a list (`ReadLine`, one call
of `fgets`), with its threads running (`StartThreads`, `Report`), or at one of its exits.
An argument is a sequence of pieces, because `extension` cares for its first dot; a line
is a name and a length, because `fgets` takes at most 39 characters of it at a time.
`NamesListed` goes by position: the argument behind `-threads` is a number for `main` even
when it ends in `.pcap`, and `atoi` takes `2.pcap` for 2.

`PcapReader` goes on from there. A file is its magic number, the lengths of its records
and its size; positions are in bytes. `OpenFile` claims the next file and reads the
header of it (every magic number, and that of an empty file, which is whatever was on
the stack); `ReadPacket` is one `readNextPacket`, in which the length is what the byte
order makes of it (`endianfixl` keeps the top byte), and, where no record begins, of
payload bytes (`Noise`). A record that does not fit is delivered as NULL and skipped by a
length that is read from the discarded packet: the record's own, or what freed memory may
say instead (`Freed`). `CloseFile` follows the first failed read. Claim and header are one
step here: that two producers never claim one file is `PacketPool`'s result, and nothing
else is shared.

Of the consumers there are two steps. `Dereference` is `poc->Data` with a NULL, which ends
the process at any time after the NULL was delivered. `Finish` is `main` behind its joins:
it needs all files closed, because no consumer leaves before, and, with one file and one
consumer, no NULL among the packets, because that consumer would have met it; otherwise
the stray unlock may have lost it. Nothing obliges either step to happen: a consumer may
sleep for ever (`pool_hang`), and then `main` waits (`Stopped`).

### PacketPool

Finer than `Pcm4`, because the stray unlock lets two threads into the critical section:
`stackSize++` and `stackSize--` are a load (`LoadStackSize`) and a store (`PushCommit`,
`PopCommit`); so is `isdone++` (`CloseFile`, `CountFile`). The mutex is a Boolean
without an owner: unlocking a default mutex that another thread holds is undefined,
and what the build produces is that it becomes free. A store or load outside `stack` ends the behaviour
(`ended = "outOfBounds"`), and so does reading through a NULL packet (`"segfault"`).
`Reads[f]` is how many times `readNextPacket` is called on a file before `feof`, the
last, incomplete call included; `Oversize` are the calls that return NULL. `OpenFile`
has all its outcomes: open fails (`exit(-2)`), bad header (the producer returns and
never counts the file), or success.

### PacketFormat and PacketTable

`PacketFormat` computes from the bytes of a packet which packets are `Ignored`,
`PayloadOffset`, `PayloadSize`, and, for two packets, what `memcmp` compares: the bytes
from the new packet's offset on, as many as its payload size *less its offset*.
`Differing` are the pairs in which it finds a difference; `ReadingOn` those in which
it reads behind the packets, `Overruns` those in which the length has wrapped.

`PacketTable` has the threads. `Pop` hands out each packet once, in any order, and loads
`gPacketSeenCount`; then come the store of it and the tests that ignore a packet, and
`insert`: `TestEmpty`, `LoadEntry` with `CompareSize` and again with `CompareData`,
`TestHitCount`, all without the lock; `Lock`, and the three updates `Insert`, `Hit`,
`ReplaceEntry`/`ResetEntry`. A comparison with a packet that has been freed, or with
what stands behind one, may come out either way, and may end the process if it leaves the
buffers. `hashData` is any function that gives equal payloads one slot. `hits`,
`lost` and `unsure` are history variables: packets discarded as duplicates, packets
overwritten by a second `Insert`, and packets compared with memory nobody has written.

### SimpleFS

Every `disk_write` is a step, and `Crash` may come between any two: it forgets the
bitmap, the mount and the command. `Format`/`FormatBlock`, `Mount`, `Create`,
`Delete` are the commands; `CopyIn` starts a `do_copyin`, whose calls of `fs_write` are
`WriteStart`, the loop (`AllocDirect`, `AllocIndirect`, `ReadIndirect`, `AllocEntry`,
`WriteData`, `WriteIndirect`, or `DiskFull`), `WriteEnd` and `WriteSave`. Blocks carry
what was written to them; read as pointers, a data block is text and no small number,
which sends `mount` and `delete` outside the bitmap (`pc = "dead"`). Sizes and offsets
are in units of four bytes (a pointer), so that a file may end within a block, and
`do_copyin` writes chunks of whole blocks and a rest, as the 16 KiB buffer does.

`Content(n)` is what `do_copyout` finds in a file with `fs_read`, and it is the refinement
mapping to `FileStore`, in which a file is a string, a chunk of a copy is appended at
once or not at all, and a crash loses the copy but no file.

Two history variables mark the defects found (section 4): `stale`, a `create` took
over an inode with old pointers; `skipped`, a `mount` met an indirect block. `Clean`
is neither, and is `intact` of `FileStore`. `NoSharedBlocks`, `BitmapSound`,
`OtherFilesKept` and `RefinesFileStore` are claimed for clean histories only: they say
that *nothing else* in the file system breaks them. A copy over a file that is not
empty is left open in `FileStore` too (`Overwrite`): the code adds new blocks to the old
size, and promises nothing a user could state.

## 3. Runs

| run | instance | checks |
|---|---|---|
| `pcm4_spin` | 2 producers × 2 blocks of 7 characters, 2 consumers, 1 slot | `TypeOK` (stack bounds), `MutualExclusion`, `BlockAccounting`, `FoundExact`, `RefinesWorkPool`, `MainReports` |
| `pcm4_cv` | the same threads, 2 slots, condition variables | `MutualExclusion`, `BlockAccounting`, `SleepersBlocked`, `RefinesWorkPool`, `AllBlocksSearched` |
| `input` | command lines of up to 3 files or lists with an option before or behind, 7 kinds of file, lists of 4 and 3 lines, a list bound of 3 | `StartsAsAssumed`, `NamesListed`, `FreesItsOwn`, `RecordsDelivered`, `InfoAgrees`, `AllFilesRead` |
| `pool_many` | 2 producers, 2 consumers, 2 files × 2 reads, 2 slots | `TypeOK`, `OneReaderPerFile`, `ConsumersLeaveLast`, `ExclusiveUntilFinished`, `AccountingUntilFinished` |
| `pool_single` | 1 producer, 1 consumer, 1 file × 4 reads, 2 slots | `RefinesWorkPool`, `AllPacketsProcessed` |
| `table` | 2 consumers, 6 packets, 5 of them in one slot | `TypeOK`, `OneOwner`, `HitsConserved`, `HitsAreRepeats`, `LossBounded` |
| `fs` | 6 blocks, 3 inodes, 1 direct pointer and an indirect block of 2 units, files of 1, 5 and 7 units, chunks of 4, at most 9 commands | `TypeOK`, `NoSharedBlocks`, `BitmapSound`, `OtherFilesKept`, `RefinesFileStore` |
| `pcm4_cv_hang`, `pcm4_count`, `pool_hang`, `fs_create`, `fs_mount` | | one property each, violated (section 4) |

**Bounds and why they suffice.** For the two stacks: two threads of each kind are the
least that race for a slot or a counter; with more blocks than slots the stack is full
and empty in every run, and thread identity beyond two adds no new pair of steps. With
two files for two producers each can read one, or one of them both, while the other's
increment of `isdone` is pending; a third file for two producers is covered by the
theorems. For the table: an empty slot, one with a packet that is equal as far as `memcmp`
looks, one that differs in what it compares (`u3`), one of another size, one that has
been hit, and a TCP packet whose compared length wraps; the packets have the program's
own offsets and more than the 128 bytes it asks for.

For the input: all lengths, offsets and buffer sizes are those of the code, except
`MAX_PCAP_FILES`, which is 3 so that both kinds of argument reach it. The files are one of
each kind: native with a record that just fits the buffer, native with one that does not
and another behind it, swapped with and without a length of two bytes, cut off in a
record, of no known magic number, empty. `Noise` is one word that makes a length and one
that does not fit; `Freed` is one number that leaves the reader inside the record it
meant to skip and one that takes it past the end of the file.

For the file system: one direct pointer and two indirect entries make a file of three
blocks use every kind of pointer; four data blocks cannot hold two such files and their
indirect blocks (so `DiskFull` happens at each allocation); a block is two units and a
length is odd, so that files end within a block; chunks of two blocks make the largest
file take two writes with a crash between them; and nine commands are enough to format,
mount, fill, delete, create again, crash and mount again. `MaxSize` bounds how far
repeated copies make a size grow, and is more than the pointers of an inode cover.

`pool_many` and `table` check invariants only and use the symmetry of threads of one kind
and, in `table`, of two pairs of packets that no comparison tells apart; no definition
chooses among them. The runs with temporal properties use no symmetry.

**Deadlock** is checked in every run. A program that has ended stutters in
`Terminated`; the shell always accepts a read-only command or a crash. A run that hangs
with a sleeping consumer is not a deadlock for TLC, because `SpuriousWakeup` is always
possible; the liveness runs find it, because a spurious wakeup is never owed.

**Fairness.** Weak fairness of `Step(t)` for each thread: the scheduler runs every
runnable thread. Strong fairness of `Acquire(t)`: a mutex that is free again and again
is obtained at last, which Linux mutexes do not guarantee formally but the spinning
build relies on: without it one producer can hold a full stack's lock for ever. Weak
fairness of `MainReport`: `main` is a thread too. In `PcapReader`, weak fairness of
`main`'s steps up to the threads, of opening the next file and of the steps on each open
file, but none of `Finish` and `Dereference`, which depend on the consumers. That a
producer gets on rests on a full stack being emptied: `AllPacketsProcessed` shows this for
one file; with several, the stray unlock can let a consumer miss the wakeup of the push
that fills the stack, and then everyone sleeps. `AllFilesRead` is a property of the
reader under the assumption that this does not happen. `PacketTable` and `SimpleFS` claim
no liveness, the first because its only wait is a short lock, the second because the
user need not type anything.

## 4. What the checks show

Both builds of pcm4 implement `WorkPool`, and the spinning one always reports. In
redextract with one producer, one consumer and one file the stray unlock is harmless: it
comes when the lone producer has nothing left to push, and the consumer inside the critical
section then shares it with nobody. A second file is enough to break this: the producer
comes back to push from it and finds the mutex free. With several producers, `isdone` can lose increments and go
down, but never ahead: consumers can hang, and cannot leave early. The table frees no
packet twice, loses no hit, and leaks at most *consumers − 1* packets per slot.

What pcm4 counts is exact for what its search compares; the search leaves out the last
position of a block. What `main`
of redextract builds from its arguments is always what the threads need, or it is a
list overrun by `.pcap` arguments; names are cut by the 39 characters of a line, but none
is skipped and none freed that was not allocated. A file in the machine's byte order, or
one without a length of 256 or more, is delivered record by record up to the first that
does not fit the buffer, and entirely if all do. What comes behind a record that does not
fit depends on freed memory, and a NULL in its place will end the process when a consumer
takes it. Whatever is in a file, it is read to its end with counters that agree with the
packets delivered, unless the process ends first, a producer is lost to a bad header or
the stack never empties. A hit in the table has the size and all but the last bytes of the
payload of a packet in its slot, or of two if one has gone between the looks, as long as
the comparison stayed within the packets. Every clean history of SimpleFS implements
`FileStore`: a file reads as the text copied into it, through crashes, partial blocks
and full disks.

Found while modelling, each with a run:

1. `pcm4_cv_hang`: the condition-variable pcm4 can lose its final wakeup
   (`main.c:110` against `285`/`290`); `main` then waits in `pthread_join` for ever.
2. `pool_hang`: the same in redextract (`main.c:129-130` against `116-117`).
3. `pcm4_count`: the search stops one position before the last one at which the string
   fits (`main.c:268`), so a block that ends with it counts one occurrence less than it
   has (267, 379); `ReportIs` proves that this is the whole of the error.
4. `fs_create`: `fs_create` clears direct pointers in a loop bounded by a size that it
   has just set to 0 (`fs.c:206`), so none is cleared.
5. `fs_mount`: `fs_mount` marks the blocks that `fs_debug` prints, except the indirect
   block itself (`fs.c:156-169` against 97-98).

Seen in the models or while reading, without a run of its own:

- a record longer than the buffer makes `readNextPacket` return NULL, which is pushed
  (`main.c:110`) and dereferenced (`main.c:147`) before `processPacket` can ignore it: the
  models have this as an ending of the program (`segfault`);
- `pcap-process.c:137` promises to evict only a packet without hits, but the hit count is
  tested outside the lock and a hit in between is evicted with it (counted, as
  `HitsConserved` shows);
- `pcap-process.c:129` says that size and payload are the same when a hit is counted, but
  `memcmp`'s length (127) is short by the offset, and wraps for a payload shorter than its
  offset;
- the size of the TCP header is read from byte 35 of the frame (`pcap-process.c:223`), the
  low byte of the source port, not from the header's data offset;
- `endianfixl` keeps only the top byte (`packet.h:46`), so lengths of 256 or more in a
  file of the other byte order are misread;
- `readNextPacket` takes the length to skip from a packet it has discarded
  (`pcap-read.c:150-153`), so what follows a record that does not fit depends on freed
  memory;
- `feof` is true only after a failed read (`main.c:100`), and for a read that gets nothing
  `readNextPacket` returns a packet of no bytes where `pcap-read.h:39` promises NULL. A file
  that is not cut off therefore ends with a packet that is not in it, which `theInfo`
  (`pcap-read.c:163`) and the total (`pcap-process.c:178`) count;
- `./x.pcap` is refused, because `extension` looks for the first dot (`main.c:51`);
- more than 20 `.pcap` arguments overrun `theInfo` (`main.c:197`);
- `fs_delete` compares the inumber with `>` for `>=`, the other operations not at all;
  `BITMAP_SIZE` is never compared with the size of the disk;
- the README of Project04 has as many producers as files, which the default of three
  threads is too few for.

## 5. What is proved

Every invariant below was strengthened to an inductive one, which TLC checked on the run's
instance wherever it can evaluate it (not `ListInv`, which chooses among all offsets).
Induction is by the least counterexample:
the set of numbers that fail is empty or has a smallest element. That reaches what
`CHOOSE` and recursive functions compute as well - the folds of the community modules,
`FlattenSeq`, `Start` of a pcap file: a first lemma shows that the recursive function
exists, a second how it unfolds, and the rest follows element by element. `FiniteSums`
does this for sums over finite sets (a sum grows by the value of a new element, does
not depend on the order, and splits over disjoint sets).

### pcm4

`Pcm4Proofs` proves, for any finite sets of producers and consumers (at least one
consumer), any number of iterations, any stack size and both builds:

| theorem | says |
|---|---|
| `TypeCorrect` | `Spec => []TypeOK`; `StackSize` never leaves the array |
| `Exclusion` | `Spec => []MutualExclusion` |
| `Accounting` | `Spec => []BlockAccounting`: a block is in one place, and `CountDone` counts the searched ones |
| `Sleepers` | `Spec => []SleepersBlocked` |
| `CompleteReport` | `Spec => []ReportComplete`: when `main` has printed, all blocks are searched |
| `Refinement` | `Spec => RefinesWorkPool` |
| `Pcm4CountProofs!FoundIsExact` | `Spec => []FoundExact` |
| `Pcm4CountProofs!ReportIs` | when `main` has printed, the number and the blocks that end with the string add up to all occurrences, so `ReportCounts` holds just when there is no such block |

*Assumptions.* The four named ASSUMEs of `Pcm4`, which TLC evaluates in its runs:
finite disjoint sets of threads, at least one consumer (`main` accepts none and then
reports at once), natural sizes and a stack of at least one slot, and a number of
matches for every block.

*The argument.* `MutualExclusion` and `BlockAccounting` are not inductive alone: to
know that `PushStore` stores into the array one must know that `StackSize <
STACK_MAX_SIZE` still holds since the test in `PushCheck`, and to know that `PopDrop`
hides the block it took, that the slot is the same. `ThreadStates` records for each `pc` what
the thread has established. `Inv == TypeOK /\ MutualExclusion /\ BlockAccounting /\
ThreadStates` is inductive. The proof is organised by how much a step moves: *quiet*
steps (only locks and `pc`s), for which one lemma shows that every set of
`BlockAccounting` is unchanged, and the three steps that move a block from one set to
another (`PushCommit`, `PopDrop`, `SearchDone`), for which `StepMoves` says exactly
which block leaves which set. The refinement theorem reads the same lemmas as steps of
`WorkPool`. `SleepersBlocked` needs one more conjunct about the threads that are about
to sleep, `Waiting`. `Exact` says of `CountFound` what `FoundExact` does and that a consumer
without a block has counted nothing; the sum over the searched blocks grows with each
`SearchDone` by the matches its consumer has counted. `ReportIs` then needs only how many
occurrences of a string the loop misses: one, if the block ends with it. It is no
correctness theorem but the measure of a defect, and says that the threads add nothing to it.

### redextract

`PacketPoolProofs` proves, for every split of 2 to 8 threads and up to 20 files of any
length (what `main` accepts, the ASSUMEs of `PacketPool`):

| theorem | says |
|---|---|
| `TypeCorrect` | `Spec => []TypeOK`; the racing increments never take `isdone` past `numPcapFiles` |
| `SingleReader` | `Spec => []OneReaderPerFile` |
| `NoEarlyExit` | `Spec => []ConsumersLeaveLast` |
| `ExclusionUntilFinished` | `Spec => []ExclusiveUntilFinished` |
| `AccountingHolds` | `Spec => []AccountingUntilFinished` |
| `Refinement` | `Solo => (Spec => RefinesWorkPool)`, where `Solo` is two threads and one file |

*The argument.* `isdone++` without a lock can lose and undo increments, so `isdone` equals
no function of the state; what survives is an upper bound. `FileStates` says that
`isdone`, and every value a producer has loaded in order to store its successor, is at
most the number of files counted, and that a counted file is read to its end. The file
a producer is about to count is not among the counted ones, so its store keeps the
bound. A consumer that sees `isdone = numPcapFiles` therefore sees all files counted,
and that is stable: nobody can claim another. Only seven actions touch files or the places
where they matter; the rest are `Quiet`. For the mutex, `Exclusive` adds that no producer
is at the stray unlock while no file is counted, and `CountedGrows` that a counted file
stays counted, so that the hypothesis of the invariant, once false, stays false.
`Accounts` says what each thread knows of the stack between its check and its commit
(`ThreadOK`): the slot it has filled or emptied is still the one at `stackSize`, because
only the thread inside the critical section changes the stack. Four steps move a packet
(`ReadMoves`, `PushMoves`, `PopMoves`, `ProcessMoves`), each from one place to the next.

What the four lemmas need of the mutex is only that one thread is in the critical section
(`Alone`), and `PlacedKept` holds as long as that does. `Exclusive` gives it until a file is
counted; with one producer, one consumer and one file it lasts (`SoloAlone`), because a
counted file is then the only one, so that the producer pushes no more (`NobodyPushes`). The
refinement maps `PushCommit` to `Submit`, `PopCommit` to `Take`, `Process` to `Finish`
and `MainReport` to `Report`; a read moves a packet from the file to the producer's hands, both of
which are `todo`. `main` may report because a consumer that leaves has seen the stack empty
and the file done, and nothing is pushed after that (`Emptied`). The hypothesis is not
for the proof's sake: TLC refutes the refinement with a second file or a second consumer.

### redextract's input

`PcapReaderProofs` proves, for every set of command lines, every `.txt` and `.pcap` file
and every bound of the list (the ASSUMEs of `CommandLine` and `PcapReader`; of `atoi`, that
it gives an integer, and 0 for the two options themselves):

| theorem | says |
|---|---|
| `SplitIsSound` | `Spec => []StartsAsAssumed`: what `main` starts meets the assumptions of `PacketPool` |
| `FreeIsSound` | `Spec => []FreesItsOwn` |
| `NamesAreListed` | `Spec => []NamesListed` |
| `InfoIs` | `Spec => []InfoAgrees` |
| `RecordsAreDelivered` | `Spec => []RecordsDelivered`, for any value of freed memory |

*The argument.* `IInv` adds to `StartsAsAssumed` what the loop over the arguments keeps:
`ListOK`, the entries below `numPcapFiles` are allocated unless `isPcapFile`;
`ArgumentsOK`, `nThreads` is within its bounds from the first option to the last; and
`FreedOK`, `main` frees once, all of the list or nothing. One lemma per action that
writes an entry, and one for the arithmetic of the split; the reader's actions change
no more of an entry than its counters.

For the names, `Laid` says where the parts of a flattened sequence are: part `k` begins
behind `Offsets[k]` elements. So the names of argument `k` have a place in the list the
user meant, and those of each line a place in the names of its file. `ListInv` says that the
list has the names before that place: before argument `i`, or in a `.txt` file as many more
as `at` has passed - whole lines, and of the current one a name for each
`MAX_FILE_LEN - 1` characters (`PiecesUpTo`). It needs `Looked`, that `main` never stands on the number of
an option, and `Inside`, that `fgets` stops behind a full buffer or a line.

For the files, `Opening` says which files are open and what is known of an open one
(`Known`), and for each file that is read or closed `Agrees` relates its counters to the
packets delivered so far, of which the last ends where the reader is; if its lengths survive the byte order
(`Plain`), `Stands` says that the reader stands where record *n + 1* begins after *n*
packets that fit, or has met the end, and `Delivered` that each packet is its record, up
to the first that does not fit, and that at most one packet without a byte comes after
them. `Agrees` holds wherever freed memory sends the reader, because it never goes back.
The step is one lemma about `readNextPacket` on one file (`Reads`); the others are left alone.

### redextract's table

`PacketTableProofs` proves, for any finite sets of consumers (at least one), packets and
slots, any bytes in the packets and any hash function (the ASSUMEs of `PacketFormat` and
`PacketTable`):

| theorem | says |
|---|---|
| `TypeCorrect` | `Spec => []TypeOK`; `gPacketSeenCount`, which has no lock, never exceeds the packets |
| `SingleOwner` | `Spec => []OneOwner` |
| `LossIsBounded` | `Spec => []LossBounded` |
| `HitsRepeat` | `Spec => []HitsAreRepeats` |
| `HitsAreConserved` | `Spec => []HitsConserved` |

*The argument.* `IInv` adds to `OneOwner` that `HashLock` belongs to whoever is in one of
its sections (`Locks`) and that a packet is in the slot of its payload (`InPlace`). A
consumer's step is then of one of six kinds by what it does to the sets of `OneOwner`:
it works on, discards its packet, pops one, inserts, evicts or frees what it evicted,
and a lemma for each kind names the packet that changes owner. What is read without the lock is
used only to decide, never to say which packet is freed: that is why the races do not
matter. For the counter, `SeenBounded` compares it and every value loaded but not stored with the number
of packets whose increment is complete (`Counted`); a packet being counted is not one of
them, so a late store keeps the bound. For the losses, `LossesLeft` counts the packets a slot has
lost together with the consumers that are about to insert there: once it has a packet
nobody joins these, and each loss uses one of them up. `PayloadFits` shows from the bytes
that the payload size of an inserted packet never wraps.

`HitsAreRepeats` is about looks at different times. `Looking` records what each look of a
consumer has established and no step of another can take back: that a packet of this size
has been in the slot, then one with the same bytes, and that either it is the same packet
or the first has left the table for good. The statement needs care where the code does:
only payload bytes that `memcmp` compares are known to agree, so it speaks of
`AlikeButTheEnd`, which leaves out what the short length leaves out. `Balanced` says that the
hits in the totals and in the table add up to the packets discarded, in number and in bytes,
and exceed them by those of one slot while a consumer that replaces its entry is between
adding them and clearing them: that consumer has `HashLock`, so nobody else moves a sum.

### SimpleFS

`SimpleFSProofs` and `SimpleFSStoreProofs` prove, for any geometry (numbers of blocks, of
inodes per block, of direct and indirect pointers), any texts and lengths, and any sequence
of commands with crashes between any two writes (`GeometryAssumption`: the bitmap has a bit for
every block of the disk, `do_copyin`'s buffer holds whole blocks, and text or the magic number read as a
pointer is no block number):

| theorem | says |
|---|---|
| `TypeCorrect` | `Spec => []TypeOK`: metadata stays metadata |
| `Ownership` | `Spec => []NoSharedBlocks` |
| `BitmapMarksOwned` | `Spec => []BitmapSound` |
| `OthersUnchanged` | `Spec => OtherFilesKept` |
| `Refinement` | `Spec => RefinesFileStore` |

*The argument* has three layers, each an invariant on top of the one before.

`TInv` is the form of things: every block of the disk holds what blocks of its place hold,
and `Progress` says for each place in `fs_write` that the pointers it is about to follow lead
to data blocks. It holds in every history, and gives `TypeCorrect`.

`OInv` is about who owns a block. `Files` says that two files share none and that, mounted,
all their blocks are marked; but while `fs_write` runs, the inode it fills in memory owns
more than the one on the disk. `Hand` therefore says the same of the inode in hand against all
other files, and that the block just taken from the bitmap is nobody's. `Covered` - a
pointer that is set is within the size - is what makes the next pointer free to be
overwritten; `Sound`, that an indirect block holds pointers, what makes its entries owned;
`Formatting` and `Rooted`, what a crash in the middle of `fs_format` leaves behind. All are
claimed for clean histories: one `create` over old pointers breaks `Covered`, one `mount` of an
indirect block breaks the marking, as the runs `fs_create` and `fs_mount` show.

`RInv` is about what a file reads as. `Paced` and `Sized` relate the offsets of `do_copyin`,
the size in the inode and the loop of `fs_write`; `Inner` says that the indirect
block of a file is not one of its data blocks as well; `InPlace`, that on the disk the file still reads as
the part of the text that was saved (`AtPrefix`), and that the blocks written since hold
what comes next; `Aim`, where the block in hand belongs. `OthersUnchanged` needs only `OInv`: a write goes to a block no other file owns.
For `Refinement` every step of `SimpleFS` is mapped to a step of `FileStore` or a
stutter: the steps inside `fs_write` leave `Content` alone, because the inode is written last;
`WriteSave` appends the whole chunk at once; a crash keeps every file because `Content`
depends on the disk alone.

## 6. What is only model-checked, and what is not modelled

*Only model-checked:* all liveness (`MainReports`, `AllBlocksSearched`,
`AllPacketsProcessed`, `AllFilesRead`), which is beyond the prover, as fairness and
`ENABLED` are. Every other property that a passing run checks is also proved.

*Not modelled:* a pcm4 or redextract with no consumer; `readPcapFile`, which nothing
calls; Jenkins' hash (any function of the payload stands for it) and `gPacketSeenBytes`;
inumbers outside the inode table and disks without an inode block; `fs_debug`, which only
prints; parsing in the shell; allocation failures; disk I/O errors. `Milestone06` is
`Project06`. A packet that the broken mutex of redextract hands to two consumers is out
of the reach of `PacketTable`, whose `Pop` gives each packet once: its results hold for
the traffic of one producer, one consumer and one file, or as long as no file is finished.

## 7. Plan

The order was: pcm4 first, because it is the pattern the other program varies and the
one worth proving; then redextract's stack, its table, and the file system; then the
input of redextract, the bytes of its packets, the text of pcm4's blocks, and the
abstract file store. To come:

1. **`Redextract`** - `PacketPool` and `PacketTable` composed through `processPacket`,
   to say what a packet popped twice does to ownership.
2. **`SimpleFS`** - blocks that hold whole inodes, to show what inumbers outside the
   table do to the text they read as an inode.
