------------------------------ MODULE SimpleFS ------------------------------
(***************************************************************************)
(* Project06, fs.c and the copyin command of shell.c: a file system on an  *)
(* emulated disk.  The disk survives a crash; the free-block bitmap, the   *)
(* mount flag and a command in progress do not.  Every disk_write is a     *)
(* step of its own, and the process may die between any two.               *)
(*                                                                         *)
(* A block is POINTERS_PER_BLOCK units of four bytes, the size of a        *)
(* pointer, and so sizes and offsets count units: files of whole units,    *)
(* which need not be whole blocks.  What a block was written as makes no   *)
(* difference to how it is read: text can be taken for pointers, and the   *)
(* pointers of a block that is used again for the end of a file.  Only the *)
(* inode blocks keep a shape of their own, because nothing else is ever    *)
(* written to them (TypeOK).                                               *)
(***************************************************************************)
EXTENDS Integers, Sequences, FiniteSets, FiniteSetsExt

CONSTANTS NBlocks,                (* thedisk->nblocks                          *)
          InodeShare,             (* 10: one block in so many holds inodes     *)
          INODES_PER_BLOCK, POINTERS_PER_INODE, POINTERS_PER_BLOCK,
          BITMAP_SIZE,
          ChunkSize,              (* units of do_copyin's buffer               *)
          Words,                  (* the texts that are copied in, each named  *)
                                  (* by its first unit                         *)
          Lengths,                (* how long they may be                      *)
          MAGIC,                  (* FS_MAGIC                                  *)
          MaxSize,                (* bound: units a file grows to              *)
          MaxCommands             (* bound: commands the user types            *)

NInodeBlocks == NBlocks \div InodeShare
InodeBlocks == 1..NInodeBlocks
Inumbers == 0..(NInodeBlocks * INODES_PER_BLOCK - 1)
DataBlocks == (NInodeBlocks + 1)..(NBlocks - 1)
Slots == 0..(INODES_PER_BLOCK - 1)
Directs == 0..(POINTERS_PER_INODE - 1)
Entries == 0..(POINTERS_PER_BLOCK - 1)
BLOCK_SIZE == POINTERS_PER_BLOCK
Pointers == {0} \cup DataBlocks      \* what a pointer is meant to be

\* Unit p of a text.
Text(x, p) == x + p
Texts == {Text(x, p) : x \in Words, p \in 0..MaxSize}

\* nblocks may exceed BITMAP_SIZE in the code, and must not; text is never a
\* small number when it is taken for a pointer.
ASSUME GeometryAssumption ==
    /\ NBlocks \in Nat /\ InodeShare \in Nat \ {0, 1}
    /\ INODES_PER_BLOCK \in Nat \ {0}
    /\ POINTERS_PER_INODE \in Nat \ {0}
    /\ POINTERS_PER_BLOCK \in Nat \ {0}
    /\ BITMAP_SIZE \in Nat /\ NBlocks \in 1..BITMAP_SIZE
    /\ ChunkSize \in Nat \ {0} /\ ChunkSize % BLOCK_SIZE = 0
    /\ Lengths \subseteq Nat \ {0}
    /\ MaxSize \in Nat /\ MaxCommands \in Nat
    /\ Words \subseteq Nat
    /\ Texts \cup {MAGIC} \subseteq Nat \ (0..BITMAP_SIZE)

EmptyInode == [isvalid |-> FALSE, size |-> 0,
               direct |-> [k \in Directs |-> 0], indirect |-> 0]

\* A block of zeros is also an empty inode table and an empty pointer block.
Zeros == [m \in Entries |-> 0]
EmptyTable == [j \in Slots |-> EmptyInode]
ZeroBlock(b) == IF b \in InodeBlocks THEN EmptyTable ELSE Zeros
SuperBlock == [m \in Entries |-> CASE m = 0 -> MAGIC
                                   [] m = 1 -> NBlocks
                                   [] m = 2 -> NInodeBlocks
                                   [] m = 3 -> NInodeBlocks * INODES_PER_BLOCK
                                   [] OTHER -> 0]

VARIABLES disk,
          free_blocks,   (* the blocks marked in use                        *)
          is_mounted,
          pc,            (* the command in progress                         *)
          w,             (* its locals                                      *)
          commands,      (* commands typed so far, for the bound            *)
          stale,         (* a create reused an inode that still had pointers *)
          skipped        (* a mount met an inode with an indirect block     *)

vars == <<disk, free_blocks, is_mounted, pc, w, commands, stale, skipped>>
memory == <<free_blocks, is_mounted>>
history == <<stale, skipped>>

BlockOf(inumber) == inumber \div INODES_PER_BLOCK + 1
SlotOf(inumber) == inumber % INODES_PER_BLOCK

ld_inode(d, inumber) == d[BlockOf(inumber)][SlotOf(inumber)]

\* Variant of save_inode: the slot is one off.
save_inode_next_slot(d, inumber, node) ==
    [d EXCEPT ![BlockOf(inumber)][(SlotOf(inumber) + 1) % INODES_PER_BLOCK] = node]

save_inode(d, inumber, node) ==
    [d EXCEPT ![BlockOf(inumber)][SlotOf(inumber)] = node]

Idle == [inumber |-> 0, inode |-> EmptyInode, word |-> 0, offset |-> 0,
         left |-> 0, i |-> 0, written |-> 0, block |-> 0, indirect |-> Zeros]

Init ==
    /\ disk = [b \in 0..(NBlocks - 1) |-> ZeroBlock(b)]
    /\ free_blocks = {}
    /\ is_mounted = FALSE
    /\ pc = "idle"
    /\ w = Idle
    /\ commands = 0
    /\ stale = FALSE
    /\ skipped = FALSE

\* The shell takes the next command.
Command ==
    /\ pc = "idle"
    /\ commands < MaxCommands
    /\ commands' = commands + 1

\* debug, getsize, cat, copyout and help change nothing, and nor does waiting.
ReadOnlyCommand == pc = "idle" /\ UNCHANGED vars

\* The process ends, in whatever it was doing, and the shell is started again.
Crash ==
    /\ is_mounted \/ pc # "idle"
    /\ free_blocks' = {}
    /\ is_mounted' = FALSE
    /\ pc' = "idle"
    /\ w' = Idle
    /\ UNCHANGED <<disk, commands, history>>

-----------------------------------------------------------------------------
(* fs_format                                                               *)

Format ==
    /\ Command
    /\ ~is_mounted
    /\ disk' = [disk EXCEPT ![0] = SuperBlock]
    /\ pc' = "format"
    /\ w' = [w EXCEPT !.i = 1]
    /\ UNCHANGED <<memory, history>>

FormatBlock ==
    /\ pc = "format"
    /\ IF w.i < NBlocks
       THEN /\ disk' = [disk EXCEPT ![w.i] = ZeroBlock(w.i)]
            /\ w' = [w EXCEPT !.i = @ + 1]
            /\ UNCHANGED <<pc, history>>
       ELSE /\ pc' = "idle"
            /\ w' = Idle
            /\ stale' = FALSE
            /\ skipped' = FALSE
            /\ UNCHANGED disk
    /\ UNCHANGED <<memory, commands>>

-----------------------------------------------------------------------------
(* fs_mount                                                                *)

ValidInodes(d) == {n \in Inumbers : ld_inode(d, n).isvalid}

\* Variant of Marks: the loop over the direct blocks counts whole blocks only.
MarksWholeBlocks(d, node) ==
    {node.direct[k] : k \in {j \in Directs : (j + 1) * BLOCK_SIZE <= node.size}}
      \cup
    {d[node.indirect][m] :
        m \in {e \in Entries : (e + POINTERS_PER_INODE + 1) * BLOCK_SIZE <= node.size}}

\* The entries of free_blocks that fs_mount sets for one inode: the blocks that
\* begin within its size.
Marks(d, node) ==
    {node.direct[k] : k \in {j \in Directs : j * BLOCK_SIZE < node.size}}
      \cup
    {d[node.indirect][m] :
        m \in {e \in Entries : (e + POINTERS_PER_INODE) * BLOCK_SIZE < node.size}}

\* A mark past the end of free_blocks is a wild write, and ends the process.
Mount ==
    /\ Command
    /\ ~is_mounted
    /\ disk[0] = SuperBlock
    /\ LET marks == UNION {Marks(disk, ld_inode(disk, n)) : n \in ValidInodes(disk)}
       IN  IF marks \subseteq 0..(BITMAP_SIZE - 1)
           THEN /\ free_blocks' = free_blocks \cup marks
                /\ is_mounted' = TRUE
                /\ UNCHANGED pc
           ELSE pc' = "dead" /\ UNCHANGED memory
    /\ skipped' = (skipped \/ \E n \in ValidInodes(disk) : ld_inode(disk, n).indirect # 0)
    /\ UNCHANGED <<disk, w, stale>>

-----------------------------------------------------------------------------
(* fs_create and fs_delete: one disk_write each                            *)

\* Slot 0 of every inode block is passed over.
Creatable(d) == {n \in Inumbers : SlotOf(n) # 0 /\ ~ld_inode(d, n).isvalid}

\* "clean out direct pointers" loops while k * BLOCK_SIZE < size, and size is 0.
Create ==
    /\ Command
    /\ is_mounted
    /\ Creatable(disk) # {}
    /\ LET n == Min(Creatable(disk))
           old == ld_inode(disk, n)
       IN  /\ disk' = save_inode(disk, n, [old EXCEPT !.isvalid = TRUE, !.size = 0])
           /\ stale' = (stale \/ old.indirect # 0 \/ \E k \in Directs : old.direct[k] # 0)
    /\ UNCHANGED <<memory, pc, w, skipped>>

\* The entries of free_blocks that fs_delete clears.
Releases(d, node) ==
    ({node.direct[k] : k \in Directs}
       \cup
     (IF node.indirect = 0 THEN {}
      ELSE {node.indirect} \cup {d[node.indirect][m] : m \in Entries}))
      \ {0}

Delete(n) ==
    /\ Command
    /\ is_mounted
    /\ n # 0
    /\ LET node == ld_inode(disk, n)
       IN  /\ node.isvalid
           /\ IF Releases(disk, node) \subseteq 0..(BITMAP_SIZE - 1)
              THEN /\ free_blocks' = free_blocks \ Releases(disk, node)
                   /\ disk' = save_inode(disk, n,
                                  [node EXCEPT !.isvalid = FALSE, !.size = 0])
                   /\ UNCHANGED pc
              ELSE pc' = "dead" /\ UNCHANGED <<disk, free_blocks>>
    /\ UNCHANGED <<is_mounted, w, history>>

-----------------------------------------------------------------------------
(* copyin: do_copyin and the fs_write it calls for every chunk             *)

\* Variant of Unmarked: the scan starts at block 1.
UnmarkedFromOne == (1..(NBlocks - 1)) \ free_blocks

\* scan_bitmap returns the first block of this set, or -1.
Unmarked == DataBlocks \ free_blocks

CopyIn(n, x, len) ==
    /\ Command
    /\ is_mounted
    /\ ld_inode(disk, n).size + len <= MaxSize
    /\ pc' = "chunk"
    /\ w' = [Idle EXCEPT !.inumber = n, !.word = x, !.left = len]
    /\ UNCHANGED <<disk, memory, history>>

\* What fread returns.
Length == IF w.left < ChunkSize THEN w.left ELSE ChunkSize

\* The end of the input ends the command, and so does fs_write's -1.
WriteStart ==
    /\ pc = "chunk"
    /\ LET node == ld_inode(disk, w.inumber)
       IN  IF w.left = 0 \/ ~node.isvalid
           THEN pc' = "idle" /\ w' = Idle
           ELSE /\ pc' = "loop"
                /\ w' = [w EXCEPT !.inode = node, !.i = w.offset \div BLOCK_SIZE, !.written = 0]
    /\ UNCHANGED <<disk, memory, commands, history>>

\* The loop is over: everything is written, or no pointer is left.
WriteEnd ==
    /\ pc = "loop"
    /\ \/ w.written = Length
       \/ w.i >= POINTERS_PER_BLOCK + POINTERS_PER_INODE
    /\ pc' = "save"
    /\ UNCHANGED <<disk, w, memory, commands, history>>

Looping ==
    w.written < Length /\ w.i < POINTERS_PER_BLOCK + POINTERS_PER_INODE

\* scan_bitmap returns -1.
DiskFull ==
    /\ \/ pc = "loop" /\ Looping /\ (w.i < POINTERS_PER_INODE \/ w.inode.indirect = 0)
       \/ pc = "entry"
    /\ Unmarked = {}
    /\ pc' = "save"
    /\ UNCHANGED <<disk, w, memory, commands, history>>

\* Variant of AllocDirect: scan_bitmap forgets to mark the block it returns.
AllocDirectUnmarked ==
    /\ pc = "loop" /\ Looping /\ w.i < POINTERS_PER_INODE
    /\ Unmarked # {}
    /\ LET b == Min(Unmarked)
       IN  w' = [w EXCEPT !.inode.direct[w.i] = b, !.block = b]
    /\ pc' = "data"
    /\ UNCHANGED <<disk, memory, commands, history>>

AllocDirect ==
    /\ pc = "loop" /\ Looping /\ w.i < POINTERS_PER_INODE
    /\ Unmarked # {}
    /\ LET b == Min(Unmarked)
       IN  /\ free_blocks' = free_blocks \cup {b}
           /\ w' = [w EXCEPT !.inode.direct[w.i] = b, !.block = b]
    /\ pc' = "data"
    /\ UNCHANGED <<disk, is_mounted, commands, history>>

\* The indirect block is found, zeroed on the disk and read back.
AllocIndirect ==
    /\ pc = "loop" /\ Looping /\ w.i >= POINTERS_PER_INODE
    /\ w.inode.indirect = 0
    /\ Unmarked # {}
    /\ LET b == Min(Unmarked)
       IN  /\ free_blocks' = free_blocks \cup {b}
           /\ disk' = [disk EXCEPT ![b] = Zeros]
           /\ w' = [w EXCEPT !.inode.indirect = b, !.indirect = Zeros]
    /\ pc' = "entry"
    /\ UNCHANGED <<is_mounted, commands, history>>

ReadIndirect ==
    /\ pc = "loop" /\ Looping /\ w.i >= POINTERS_PER_INODE
    /\ w.inode.indirect # 0
    /\ w' = [w EXCEPT !.indirect = disk[w.inode.indirect]]
    /\ pc' = "entry"
    /\ UNCHANGED <<disk, memory, commands, history>>

AllocEntry ==
    /\ pc = "entry"
    /\ Unmarked # {}
    /\ LET b == Min(Unmarked)
       IN  /\ free_blocks' = free_blocks \cup {b}
           /\ w' = [w EXCEPT !.indirect[w.i - POINTERS_PER_INODE] = b, !.block = b]
    /\ pc' = "data"
    /\ UNCHANGED <<disk, is_mounted, commands, history>>

newOffset == IF w.written = 0 THEN w.offset % BLOCK_SIZE ELSE 0
numToCopy == Min({BLOCK_SIZE - newOffset, Length - w.written})

\* Variant of Filled: the data is not advanced by what is already written.
FilledFromStart(b) ==
    [m \in Entries |->
        IF m \in newOffset..(newOffset + numToCopy - 1)
        THEN Text(w.word, w.offset + m - newOffset) ELSE b[m]]

\* A block that was read, with the next units of the text copied over it.
Filled(b) ==
    [m \in Entries |->
        IF m \in newOffset..(newOffset + numToCopy - 1)
        THEN Text(w.word, w.offset + w.written + m - newOffset) ELSE b[m]]

NextBlock ==
    /\ w' = [w EXCEPT !.written = @ + numToCopy, !.i = @ + 1]
    /\ pc' = "loop"

WriteData ==
    /\ pc = "data"
    /\ disk' = [disk EXCEPT ![w.block] = Filled(@)]
    /\ IF w.i < POINTERS_PER_INODE
       THEN NextBlock
       ELSE pc' = "indirect" /\ UNCHANGED w
    /\ UNCHANGED <<memory, commands, history>>

WriteIndirect ==
    /\ pc = "indirect"
    /\ disk' = [disk EXCEPT ![w.inode.indirect] = w.indirect]
    /\ NextBlock
    /\ UNCHANGED <<memory, commands, history>>

\* save_inode, and the return to do_copyin, which stops after a short write.
WriteSave ==
    /\ pc = "save"
    /\ disk' = save_inode(disk, w.inumber, [w.inode EXCEPT !.size = @ + w.written])
    /\ IF w.written # Length
       THEN pc' = "idle" /\ w' = Idle
       ELSE /\ pc' = "chunk"
            /\ w' = [w EXCEPT !.offset = @ + w.written, !.left = @ - w.written]
    /\ UNCHANGED <<memory, commands, history>>

Next ==
    \/ Crash \/ ReadOnlyCommand
    \/ Format \/ FormatBlock
    \/ Mount
    \/ Create
    \/ \E n \in Inumbers : Delete(n)
    \/ \E n \in Inumbers, x \in Words, len \in Lengths : CopyIn(n, x, len)
    \/ WriteStart \/ WriteEnd \/ DiskFull \/ AllocDirect \/ AllocIndirect
    \/ ReadIndirect \/ AllocEntry \/ WriteData \/ WriteIndirect \/ WriteSave

Spec == Init /\ [][Next]_vars

-----------------------------------------------------------------------------
(* What the disk says of its files                                         *)

\* Every block an inode points to, within its size or beyond it.
DirectBlocks(node) == {node.direct[k] : k \in Directs} \ {0}
IndirectBlocks(d, node) ==
    IF node.indirect = 0 THEN {} ELSE {d[node.indirect][m] : m \in Entries} \ {0}
Owned(d, node) ==
    DirectBlocks(node) \cup ({node.indirect} \ {0}) \cup IndirectBlocks(d, node)

\* Where fs_read finds block k of a file.  The buffer keeps whatever it held if
\* nothing is behind an indirect block, and so it does here for a pointer that
\* leads outside the disk, which aborts the read.
Uninitialized == [m \in Entries |-> -1]
ReadBlock(d, node, k) ==
    IF k < POINTERS_PER_INODE THEN d[node.direct[k]]
    ELSE LET b == IF node.indirect = 0 THEN 0
                  ELSE d[node.indirect][k - POINTERS_PER_INODE]
         IN  IF b \in DataBlocks THEN d[b] ELSE Uninitialized

NPointers == POINTERS_PER_BLOCK + POINTERS_PER_INODE

\* fs_read, for an offset within the size: the blocks from that offset on.
fs_read(d, node, length, offset) ==
    [q \in 1..Min({node.size - offset, length, NPointers * BLOCK_SIZE - offset}) |->
        LET u == offset + q - 1
        IN  ReadBlock(d, node, u \div BLOCK_SIZE)[u % BLOCK_SIZE]]

\* What cat and copyout show: do_copyout puts the chunks it reads one after the
\* other, and each is ChunkSize units or the rest of the file.
Content(d, node) == fs_read(d, node, node.size, 0)

\* The abstract store: a file is what is read back, a copy is under way between
\* the calls of fs_write, and the promise holds as long as no defect is met.
Copying == pc \in {"chunk", "loop", "entry", "data", "indirect", "save"}
Store == INSTANCE FileStore WITH
    files <- [n \in Inumbers |->
                 IF ld_inode(disk, n).isvalid THEN Content(disk, ld_inode(disk, n))
                 ELSE <<-1>>],
    copy <- IF Copying THEN [inumber |-> w.inumber, word |-> w.word, offset |-> w.offset]
            ELSE [inumber |-> -1, word |-> 0, offset |-> 0],
    mounted <- is_mounted,
    intact <- ~stale /\ ~skipped

Clean == ~stale /\ ~skipped

Pcs == {"idle", "dead", "format", "chunk", "loop", "entry", "data", "indirect", "save"}
InodeType == [isvalid : BOOLEAN, size : Nat, direct : [Directs -> Pointers],
              indirect : Pointers]

(* Types, and the metadata hazard with them: whatever sequence of commands *)
(* and crashes, file data and pointer blocks are written to data blocks    *)
(* only, so the superblock stays a superblock, inode blocks stay inode     *)
(* tables, and every pointer in an inode leads to a data block.            *)
TypeOK ==
    /\ DOMAIN disk = 0..(NBlocks - 1)
    /\ disk[0] \in {Zeros, SuperBlock}
    /\ \A b \in InodeBlocks : disk[b] \in [Slots -> InodeType]
    /\ \A b \in DataBlocks : disk[b] \in [Entries -> Pointers \cup Texts]
    /\ free_blocks \subseteq 0..(BITMAP_SIZE - 1)
    /\ is_mounted \in BOOLEAN
    /\ is_mounted => disk[0] = SuperBlock
    /\ pc \in Pcs
    /\ w.inode \in InodeType
    /\ pc = "data" => w.block \in DataBlocks
    /\ pc \in {"entry", "indirect"} => w.inode.indirect \in DataBlocks

(* While no create has reused an inode with old pointers and no mount has  *)
(* met an indirect block, no block belongs to two files, or to a file and  *)
(* to the one being written: crashes, deletes and overwrites included.     *)
NoSharedBlocks ==
    Clean => \A m, n \in ValidInodes(disk) :
        m # n => /\ Owned(disk, ld_inode(disk, m)) \cap Owned(disk, ld_inode(disk, n)) = {}
                 /\ (pc \in {"loop", "entry", "data", "indirect", "save"} /\ w.inumber = m) =>
                        DirectBlocks(w.inode) \cap Owned(disk, ld_inode(disk, n)) = {}

(* Under the same condition the bitmap marks every block a file points to, *)
(* so scan_bitmap never hands one out again.                               *)
BitmapSound ==
    Clean /\ is_mounted =>
        \A n \in ValidInodes(disk) : Owned(disk, ld_inode(disk, n)) \subseteq free_blocks

(* Under the same condition no step, a crash in the middle of a command    *)
(* included, changes what another file reads back: a copyin touches the    *)
(* contents of its own inode only, a create or delete of none.             *)
OtherFilesKept ==
    [][Clean' =>
         \A n \in ValidInodes(disk) \cap ValidInodes(disk') :
            (pc \in {"idle", "dead", "format"} \/ n # w.inumber) =>
                Content(disk', ld_inode(disk', n)) = Content(disk, ld_inode(disk, n))]_vars

(* The file system implements the store, block by block and with crashes:  *)
(* a file that is copied into an empty inode reads back as what was copied,*)
(* in its order and to its last unit; every call of fs_write happens       *)
(* entirely or not at all, because save_inode comes last; and mounting     *)
(* again brings back every file as it was.                                 *)
RefinesFileStore == Store!Spec

(* README 'in fs_create we initialize all directs to 0': a file of size 0  *)
(* has no direct blocks.                                                   *)
EmptyFileHasNoDirects ==
    \A n \in ValidInodes(disk) :
        ld_inode(disk, n).size = 0 => DirectBlocks(ld_inode(disk, n)) = {}

(* fs.c:139 'do debug but instead of print just update free_blocks': the   *)
(* indirect block, which fs_debug prints (fs.c:98) if the size is beyond   *)
(* the direct blocks (97), is marked once the disk is mounted.             *)
PrintedBlocksMarked ==
    is_mounted => \A n \in ValidInodes(disk) :
        LET node == ld_inode(disk, n)
        IN  node.size > POINTERS_PER_INODE * BLOCK_SIZE /\ node.indirect # 0 =>
                node.indirect \in free_blocks

=============================================================================
