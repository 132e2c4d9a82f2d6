--------------------------- MODULE SimpleFSProofs ---------------------------
(***************************************************************************)
(* Proofs about SimpleFS, for a disk of any geometry, files of any length  *)
(* and any sequence of commands and crashes: what is written where keeps   *)
(* the shape of the disk, so metadata is never overwritten by data; and as *)
(* long as no create has reused an inode with old pointers and no mount has*)
(* met an indirect block, no block has two owners and the bitmap marks what*)
(* is owned.                                                               *)
(***************************************************************************)
EXTENDS SimpleFS, WellFoundedInduction, TLAPS

Writing == pc \in {"loop", "entry", "data", "indirect", "save"}
Contents == [Entries -> Pointers \cup Texts]

\* The shape of a disk.
Formed(d) ==
    /\ d = [b \in 0..(NBlocks - 1) |-> d[b]]
    /\ d[0] \in {Zeros, SuperBlock}
    /\ \A b \in InodeBlocks : d[b] \in [Slots -> InodeType]
    /\ \A b \in DataBlocks : d[b] \in Contents

Locals == [inumber : Nat, inode : InodeType, word : Nat, offset : Nat,
           left : Nat, i : Nat, written : Nat, block : Nat, indirect : Contents]

\* What the command in progress has established at each pc.
Progress ==
    /\ pc = "format" => w.i >= 1 /\ ~is_mounted
    /\ Copying => /\ is_mounted
                  /\ w.inumber \in Inumbers
                  /\ w.word \in Words
                  /\ w.offset + w.left <= MaxSize
    /\ Writing => w.written <= Length
    /\ pc \in {"entry", "data", "indirect"} => w.written < Length /\ w.i < NPointers
    /\ pc \in {"entry", "indirect"} => w.i >= POINTERS_PER_INODE
    /\ pc \in {"entry", "indirect"} \/ (pc = "data" /\ w.i >= POINTERS_PER_INODE) =>
          w.inode.indirect \in DataBlocks
    /\ pc = "data" => w.block \in DataBlocks

TInv ==
    /\ Formed(disk)
    /\ free_blocks \subseteq 0..(BITMAP_SIZE - 1)
    /\ is_mounted \in BOOLEAN
    /\ is_mounted => disk[0] = SuperBlock
    /\ pc \in Pcs
    /\ w \in Locals
    /\ Progress

-----------------------------------------------------------------------------
(* Numbers.                                                                *)

(* Min, a choice, finds what it is asked for.                              *)
LEMMA LeastExists ==
    ASSUME NEW S \in SUBSET Nat, S # {}
    PROVE  Min(S) \in S /\ \A y \in S : Min(S) <= y
<1> DEFINE R == {ss \in Nat \X Nat : ss[1] < ss[2]}
<1>1. IsWellFoundedOn(R, Nat)
  BY NatLessThanWellFounded DEF OpToRel
<1>2. \E x \in S : \A y \in S : ~(<<y, x>> \in R)
  <2> HIDE DEF R
  <2> QED
    BY <1>1, WFMin
<1>3. PICK x \in S : \A y \in S : ~(<<y, x>> \in R)
  BY <1>2
<1>4. \A y \in S : x <= y
  <2> TAKE y \in S
  <2>1. <<y, x>> \in Nat \X Nat /\ ~(<<y, x>> \in R)
    BY <1>3
  <2> QED
    BY <2>1
<1> QED
  BY <1>3, <1>4 DEF Min

LEMMA Division ==
    ASSUME NEW a \in Nat, NEW b \in Nat \ {0}
    PROVE  a \div b \in Nat /\ a % b \in 0..(b - 1) /\ a = b * (a \div b) + (a % b)
OBVIOUS

LEMMA ProductGrows ==
    ASSUME NEW a \in Nat, NEW b \in Nat, NEW c \in Nat, a <= b
    PROVE  c * a <= c * b
OBVIOUS

LEMMA QuotientBound ==
    ASSUME NEW a \in Nat, NEW b \in Nat \ {0}, NEW c \in Nat
    PROVE  a < c * b <=> a \div b < c
<1>1. a \div b \in Nat /\ a % b \in 0..(b - 1) /\ a = b * (a \div b) + (a % b)
  BY Division
<1>2. CASE a \div b < c
  <2>1. a \div b + 1 <= c
    BY <1>1, <1>2
  <2>2. b * (a \div b + 1) <= b * c
    BY <2>1, <1>1, ProductGrows
  <2> QED
    BY <1>1, <1>2, <2>2
<1>3. CASE c <= a \div b
  <2>1. b * c <= b * (a \div b)
    BY <1>1, <1>3, ProductGrows
  <2> QED
    BY <1>1, <1>3, <2>1
<1> QED
  BY <1>1, <1>2, <1>3

-----------------------------------------------------------------------------
(* The geometry of the disk.                                               *)

LEMMA Geometry ==
    /\ NBlocks \in Nat \ {0}
    /\ NInodeBlocks \in Nat /\ NInodeBlocks < NBlocks
    /\ 0 \notin InodeBlocks /\ 0 \notin DataBlocks
    /\ InodeBlocks \cap DataBlocks = {}
    /\ 0..(NBlocks - 1) = {0} \cup InodeBlocks \cup DataBlocks
    /\ DataBlocks \subseteq Nat /\ InodeBlocks \subseteq Nat
    /\ DataBlocks \subseteq 0..(BITMAP_SIZE - 1)
<1>1. NBlocks \in Nat \ {0} /\ InodeShare \in Nat \ {0, 1} /\ NBlocks <= BITMAP_SIZE
      /\ BITMAP_SIZE \in Nat
  BY GeometryAssumption
<1>2. NInodeBlocks \in Nat
  BY <1>1, Division DEF NInodeBlocks
<1>3. NInodeBlocks < NBlocks
  <2>1. NBlocks < NBlocks * InodeShare
    <3>1. NBlocks * 2 <= NBlocks * InodeShare
      BY <1>1, ProductGrows
    <3>2. NBlocks * InodeShare \in Nat
      BY <1>1
    <3> QED
      BY <1>1, <3>1, <3>2
  <2> QED
    BY <1>1, <2>1, QuotientBound DEF NInodeBlocks
<1> QED
  BY <1>1, <1>2, <1>3 DEF InodeBlocks, DataBlocks

(* An inode number is the place of one inode.                              *)
LEMMA Places ==
    ASSUME NEW n \in Inumbers
    PROVE  /\ n \in Nat
           /\ BlockOf(n) \in InodeBlocks /\ SlotOf(n) \in Slots
           /\ \A m \in Inumbers : BlockOf(m) = BlockOf(n) /\ SlotOf(m) = SlotOf(n) => m = n
<1>1. INODES_PER_BLOCK \in Nat \ {0} /\ NInodeBlocks \in Nat
  BY GeometryAssumption, Geometry
<1>2. \A m \in Inumbers : m \in Nat /\ m < NInodeBlocks * INODES_PER_BLOCK
  <2>1. NInodeBlocks * INODES_PER_BLOCK \in Nat
    BY <1>1
  <2> QED
    BY <2>1 DEF Inumbers
<1>3. n \div INODES_PER_BLOCK \in Nat /\ n \div INODES_PER_BLOCK < NInodeBlocks
  BY <1>1, <1>2, QuotientBound, Division
<1>4. \A m \in Inumbers : /\ m % INODES_PER_BLOCK \in 0..(INODES_PER_BLOCK - 1)
                          /\ m \div INODES_PER_BLOCK \in Nat
                          /\ m = INODES_PER_BLOCK * (m \div INODES_PER_BLOCK)
                                  + (m % INODES_PER_BLOCK)
  BY <1>1, <1>2, Division
<1>5. BlockOf(n) \in InodeBlocks /\ SlotOf(n) \in Slots
  BY <1>1, <1>3, <1>4 DEF BlockOf, SlotOf, InodeBlocks, Slots
<1>6. ASSUME NEW m \in Inumbers, BlockOf(m) = BlockOf(n), SlotOf(m) = SlotOf(n)
      PROVE  m = n
  <2>1. m \div INODES_PER_BLOCK = n \div INODES_PER_BLOCK
    BY <1>4, <1>6 DEF BlockOf
  <2> QED
    BY <1>4, <1>6, <2>1 DEF SlotOf
<1> QED
  BY <1>2, <1>5, <1>6

(* Blocks that hold nothing have the shape of their place.                 *)
LEMMA EmptyBlocks ==
    /\ EmptyInode \in InodeType
    /\ Zeros \in Contents
    /\ EmptyTable \in [Slots -> InodeType]
BY Geometry DEF EmptyInode, InodeType, Pointers, Zeros, Contents, EmptyTable

disk_write(d, b, c) == [d EXCEPT ![b] = c]

(* Writing a data block.                                                   *)
LEMMA DataWritten ==
    ASSUME NEW d, Formed(d), NEW b \in DataBlocks, NEW c \in Contents,
           NEW dd, dd = disk_write(d, b, c)
    PROVE  /\ Formed(dd)
           /\ dd[b] = c
           /\ \A x \in 0..(NBlocks - 1) : x # b => dd[x] = d[x]
           /\ dd[0] = d[0]
           /\ \A n \in Inumbers : ld_inode(dd, n) = ld_inode(d, n)
<1>1. dd = [x \in 0..(NBlocks - 1) |-> IF x = b THEN c ELSE d[x]]
  BY Geometry DEF Formed, disk_write
<1>2. \A x \in 0..(NBlocks - 1) : dd[x] = IF x = b THEN c ELSE d[x]
  BY <1>1
<1>3. \A x \in {0} \cup InodeBlocks : dd[x] = d[x]
  BY <1>2, Geometry
<1>4. Formed(dd)
  BY <1>1, <1>2, <1>3, Geometry DEF Formed
<1>5. \A n \in Inumbers : ld_inode(dd, n) = ld_inode(d, n)
  BY <1>3, Places DEF ld_inode
<1> QED
  BY <1>2, <1>3, <1>4, <1>5, Geometry

LEMMA InodeFound ==
    ASSUME NEW d, Formed(d), NEW n \in Inumbers
    PROVE  ld_inode(d, n) \in InodeType
BY Places DEF Formed, ld_inode

(* Writing an inode: the block is read, changed in one slot, and written.  *)
LEMMA InodeWritten ==
    ASSUME NEW d, Formed(d), NEW n \in Inumbers, NEW node \in InodeType,
           NEW dd, dd = save_inode(d, n, node)
    PROVE  /\ Formed(dd)
           /\ \A x \in {0} \cup DataBlocks : dd[x] = d[x]
           /\ ld_inode(dd, n) = node
           /\ \A m \in Inumbers \ {n} : ld_inode(dd, m) = ld_inode(d, m)
<1> DEFINE table == [d[BlockOf(n)] EXCEPT ![SlotOf(n)] = node]
<1>1. BlockOf(n) \in InodeBlocks /\ SlotOf(n) \in Slots
  BY Places
<1>2. d[BlockOf(n)] \in [Slots -> InodeType]
  BY <1>1 DEF Formed
<1>3. table \in [Slots -> InodeType] /\ table[SlotOf(n)] = node
      /\ \A s \in Slots : s # SlotOf(n) => table[s] = d[BlockOf(n)][s]
  BY <1>1, <1>2
<1>4. dd = [x \in 0..(NBlocks - 1) |-> IF x = BlockOf(n) THEN table ELSE d[x]]
  BY <1>1, Geometry DEF Formed, save_inode
<1>5. \A x \in 0..(NBlocks - 1) : dd[x] = IF x = BlockOf(n) THEN table ELSE d[x]
  BY <1>4
<1> HIDE DEF table
<1>6. Formed(dd)
  BY <1>1, <1>3, <1>4, <1>5, Geometry DEF Formed
<1>7. ASSUME NEW m \in Inumbers \ {n}
      PROVE  ld_inode(dd, m) = ld_inode(d, m)
  <2>1. BlockOf(m) \in InodeBlocks /\ SlotOf(m) \in Slots
        /\ (BlockOf(m) # BlockOf(n) \/ SlotOf(m) # SlotOf(n))
    BY <1>7, Places
  <2>2. BlockOf(m) \in 0..(NBlocks - 1)
    BY <2>1, Geometry
  <2> QED
    BY <1>3, <1>5, <2>1, <2>2 DEF ld_inode
<1>8. ld_inode(dd, n) = node
  BY <1>1, <1>3, <1>5, Geometry DEF ld_inode
<1> QED
  BY <1>1, <1>5, <1>6, <1>7, <1>8, Geometry

(* scan_bitmap, when it finds a block.                                     *)
LEMMA BlockFound ==
    ASSUME Unmarked # {}
    PROVE  /\ Min(Unmarked) \in DataBlocks
           /\ Min(Unmarked) \notin free_blocks
<1>1. Unmarked \in SUBSET Nat
  BY Geometry DEF Unmarked
<1>2. Min(Unmarked) \in Unmarked
  BY <1>1, LeastExists
<1> QED
  BY <1>2 DEF Unmarked

-----------------------------------------------------------------------------
(* Types.                                                                  *)

LEMMA InitTInv == Init => TInv
<1> SUFFICES ASSUME Init PROVE TInv
  OBVIOUS
<1>1. \A b \in 0..(NBlocks - 1) : disk[b] = ZeroBlock(b)
  BY DEF Init
<1>2. disk = [b \in 0..(NBlocks - 1) |-> disk[b]]
  BY DEF Init
<1>3. disk[0] = Zeros
  BY <1>1, Geometry DEF ZeroBlock
<1>4. Formed(disk)
  BY <1>1, <1>2, <1>3, Geometry, EmptyBlocks DEF Formed, ZeroBlock
<1>5. Idle \in Locals
  BY EmptyBlocks DEF Idle, Locals
<1> QED
  BY <1>4, <1>5 DEF Init, TInv, Progress, Copying, Writing, Pcs

(* Nothing of the command survives when it ends.                           *)
LEMMA CommandEnds ==
    ASSUME TInv, pc' = "idle", w' = Idle, Formed(disk'),
           free_blocks' \subseteq 0..(BITMAP_SIZE - 1),
           is_mounted' \in BOOLEAN, is_mounted' => disk'[0] = SuperBlock
    PROVE  TInv'
<1>1. Idle \in Locals
  BY EmptyBlocks DEF Idle, Locals
<1> QED
  BY <1>1 DEF TInv, Progress, Copying, Writing, Pcs, Formed

(* The parts of TInv that a step of a copyin may disturb.                  *)
LEMMA CommandGoesOn ==
    ASSUME TInv, pc' \in {"chunk", "loop", "entry", "data", "indirect", "save"},
           Formed(disk'), disk'[0] = SuperBlock,
           free_blocks' \subseteq 0..(BITMAP_SIZE - 1), is_mounted' = TRUE,
           w' \in Locals, w'.inumber \in Inumbers, w'.word \in Words,
           w'.offset + w'.left <= MaxSize,
           pc' # "chunk" => w'.written <= Length',
           pc' \in {"entry", "data", "indirect"} =>
              w'.written < Length' /\ w'.i < NPointers,
           pc' \in {"entry", "indirect"} => w'.i >= POINTERS_PER_INODE,
           pc' \in {"entry", "indirect"} \/ (pc' = "data" /\ w'.i >= POINTERS_PER_INODE) =>
              w'.inode.indirect \in DataBlocks,
           pc' = "data" => w'.block \in DataBlocks
    PROVE  TInv'
<1>1. Progress'
  BY DEF Progress, Copying, Writing
<1>2. pc' \in Pcs
  BY DEF Pcs
<1> QED
  BY <1>1, <1>2 DEF TInv, Formed

LEMMA TFormat == ASSUME TInv, Format PROVE TInv'
<1>1. disk' = [b \in 0..(NBlocks - 1) |-> IF b = 0 THEN SuperBlock ELSE disk[b]]
  BY Geometry DEF Format, TInv, Formed
<1>2. Formed(disk')
  BY <1>1, Geometry DEF TInv, Formed
<1>3. w' \in Locals /\ w'.i = 1
  BY DEF TInv, Format, Locals
<1> QED
  BY <1>2, <1>3 DEF TInv, Format, Command, memory, Progress, Copying, Writing, Pcs, Formed

LEMMA TFormatBlock == ASSUME TInv, FormatBlock PROVE TInv'
<1>1. w.i \in Nat /\ w.i >= 1 /\ ~is_mounted
  BY DEF TInv, Progress, Locals, FormatBlock
<1>2. CASE w.i < NBlocks
  <2>1. w.i \in InodeBlocks \cup DataBlocks
    <3>1. w.i \in 0..(NBlocks - 1)
      BY <1>1, <1>2, Geometry
    <3> QED
      BY <1>1, <3>1, Geometry
  <2>2. disk' = [b \in 0..(NBlocks - 1) |-> IF b = w.i THEN ZeroBlock(w.i) ELSE disk[b]]
    BY <1>2, <2>1, Geometry DEF FormatBlock, TInv, Formed
  <2>3. Formed(disk')
    BY <2>1, <2>2, Geometry, EmptyBlocks DEF TInv, Formed, ZeroBlock
  <2>4. w' \in Locals /\ w'.i = w.i + 1
    BY <1>1, <1>2 DEF TInv, FormatBlock, Locals
  <2> QED
    BY <1>1, <1>2, <2>3, <2>4
    DEF TInv, FormatBlock, memory, history, Progress, Copying, Writing, Pcs, Formed
<1>3. CASE ~(w.i < NBlocks)
  BY <1>3, CommandEnds DEF FormatBlock, memory, TInv
<1> QED
  BY <1>2, <1>3

LEMMA TMount == ASSUME TInv, Mount PROVE TInv'
<1>1. free_blocks' \subseteq 0..(BITMAP_SIZE - 1) /\ is_mounted' \in BOOLEAN
  BY DEF Mount, TInv, memory
<1> QED
  BY <1>1 DEF Mount, Command, TInv, memory, Progress, Copying, Writing, Pcs, Formed

LEMMA TCreate == ASSUME TInv, Create PROVE TInv'
<1> DEFINE n == Min(Creatable(disk))
           node == [ld_inode(disk, n) EXCEPT !.isvalid = TRUE, !.size = 0]
<1>1. Creatable(disk) \in SUBSET Nat /\ Creatable(disk) \subseteq Inumbers
  BY Places DEF Creatable
<1>2. n \in Inumbers
  BY <1>1, LeastExists DEF Create
<1>3. node \in InodeType
  BY <1>2, InodeFound DEF TInv, InodeType
<1>4. disk' = save_inode(disk, n, node)
  BY DEF Create
<1> HIDE DEF n, node
<1>5. Formed(disk') /\ disk'[0] = disk[0]
  BY <1>2, <1>3, <1>4, InodeWritten DEF TInv
<1> QED
  BY <1>5 DEF Create, Command, TInv, memory, Progress, Copying, Writing, Pcs, Formed

LEMMA TDelete == ASSUME TInv, NEW n \in Inumbers, Delete(n) PROVE TInv'
<1> DEFINE node == ld_inode(disk, n)
           gone == [node EXCEPT !.isvalid = FALSE, !.size = 0]
<1>1. node \in InodeType /\ gone \in InodeType
  BY InodeFound DEF TInv, InodeType
<1>2. disk' = disk \/ disk' = save_inode(disk, n, gone)
  BY DEF Delete
<1>3. pc' \in {"idle", "dead"} /\ free_blocks' \subseteq free_blocks
  BY DEF Delete, Command
<1> HIDE DEF gone
<1>4. Formed(disk') /\ disk'[0] = disk[0]
  BY <1>1, <1>2, InodeWritten DEF TInv
<1> QED
  BY <1>3, <1>4 DEF Delete, TInv, Progress, Copying, Writing, Pcs, Formed

LEMMA TCopyIn ==
    ASSUME TInv, NEW n \in Inumbers, NEW x \in Words, NEW len \in Lengths, CopyIn(n, x, len)
    PROVE  TInv'
<1>1. x \in Nat /\ n \in Nat /\ len \in Nat /\ MaxSize \in Nat
  BY GeometryAssumption, Places
<1>2. ld_inode(disk, n).size \in Nat
  BY InodeFound DEF TInv, InodeType
<1>3. /\ w' \in Locals
      /\ w'.inumber = n /\ w'.word = x /\ w'.offset = 0 /\ w'.left = len
  BY <1>1, EmptyBlocks DEF CopyIn, Idle, Locals
<1>4. len <= MaxSize
  BY <1>1, <1>2 DEF CopyIn
<1> QED
  BY <1>1, <1>3, <1>4, CommandGoesOn DEF CopyIn, TInv, memory

(* One call of fs_write copies no more than a chunk, nor than is left.     *)
LEMMA Lengthy ==
    ASSUME w \in Locals
    PROVE  /\ Length \in Nat /\ Length <= w.left /\ Length <= ChunkSize
           /\ w.left # 0 => Length # 0
BY GeometryAssumption DEF Locals, Length

LEMMA TWriteStart == ASSUME TInv, WriteStart PROVE TInv'
<1>0. POINTERS_PER_BLOCK \in Nat \ {0} /\ w \in Locals /\ Length \in Nat
  BY GeometryAssumption, Lengthy DEF TInv
<1> DEFINE node == ld_inode(disk, w.inumber)
<1>1. w.inumber \in Inumbers /\ is_mounted
  BY DEF WriteStart, TInv, Progress, Copying
<1>2. node \in InodeType
  BY <1>1, InodeFound DEF TInv
<1>3. CASE w.left = 0 \/ ~node.isvalid
  BY <1>3, CommandEnds DEF WriteStart, TInv, memory
<1>4. CASE ~(w.left = 0 \/ ~node.isvalid)
  <2>1. w.offset \div BLOCK_SIZE \in Nat
    BY <1>0, Division DEF BLOCK_SIZE, Locals
  <2>2. /\ pc' = "loop"
        /\ w' = [w EXCEPT !.inode = node, !.i = w.offset \div BLOCK_SIZE, !.written = 0]
    BY <1>4 DEF WriteStart
  <2>3. w' \in Locals /\ w'.written = 0 /\ w'.left = w.left /\ w'.inumber = w.inumber
        /\ w'.word = w.word /\ w'.offset = w.offset
    BY <1>0, <1>2, <2>1, <2>2 DEF Locals
  <2>4. Length' = Length
    BY <2>3 DEF Length
  <2> QED
    BY <1>0, <1>1, <2>2, <2>3, <2>4, CommandGoesOn
    DEF WriteStart, TInv, memory, Progress, Copying
<1> QED
  BY <1>3, <1>4

LEMMA TQuiet == ASSUME TInv, WriteEnd \/ DiskFull PROVE TInv'
BY DEF WriteEnd, DiskFull, TInv, memory, Progress, Copying, Writing, Pcs, Formed, Length

(* The steps of fs_write up to the data: a block is found, or the indirect *)
(* block is read.                                                          *)
LEMMA TAllocDirect == ASSUME TInv, AllocDirect PROVE TInv'
<1> DEFINE b == Min(Unmarked)
<1>1. b \in DataBlocks /\ b \in 0..(BITMAP_SIZE - 1) /\ b \in Nat
  BY BlockFound, Geometry DEF AllocDirect
<1>2. w \in Locals /\ w.i \in Nat /\ w.i < POINTERS_PER_INODE /\ w.written < Length
      /\ POINTERS_PER_INODE \in Nat /\ POINTERS_PER_BLOCK \in Nat
  BY GeometryAssumption DEF TInv, AllocDirect, Looping, Locals
<1>3. w' = [w EXCEPT !.inode.direct[w.i] = b, !.block = b]
  BY DEF AllocDirect
<1>4. /\ free_blocks' = free_blocks \cup {b} /\ pc' = "data"
      /\ UNCHANGED <<disk, is_mounted>> /\ pc = "loop"
  BY DEF AllocDirect
<1> HIDE DEF b
<1>5. /\ w' \in Locals /\ w'.block = b
      /\ w'.i = w.i /\ w'.written = w.written /\ w'.left = w.left
      /\ w'.inumber = w.inumber /\ w'.word = w.word /\ w'.offset = w.offset
  <2>1. w.inode \in InodeType /\ w.i \in Directs
    BY <1>2 DEF Locals, Directs
  <2>2. [w.inode EXCEPT !.direct[w.i] = b] \in InodeType
    BY <1>1, <2>1 DEF InodeType, Pointers
  <2>3. w' = [w EXCEPT !.inode = [w.inode EXCEPT !.direct[w.i] = b], !.block = b]
    BY <1>2, <1>3 DEF Locals
  <2> QED
    BY <1>1, <1>2, <2>2, <2>3 DEF Locals
<1>6. Length' = Length
  BY <1>5 DEF Length
<1>7. w'.i < NPointers
  BY <1>2, <1>5 DEF NPointers
<1> QED
  BY <1>1, <1>2, <1>4, <1>5, <1>6, <1>7, CommandGoesOn
  DEF TInv, Progress, Copying, Writing

LEMMA TAllocIndirect == ASSUME TInv, AllocIndirect PROVE TInv'
<1> DEFINE b == Min(Unmarked)
<1>1. b \in DataBlocks /\ b \in 0..(BITMAP_SIZE - 1) /\ b \in Nat
  BY BlockFound, Geometry DEF AllocIndirect
<1>2. w \in Locals /\ w.i >= POINTERS_PER_INODE /\ w.i < NPointers /\ w.written < Length
  BY GeometryAssumption DEF TInv, AllocIndirect, Looping, Locals, NPointers
<1>3. /\ w' = [w EXCEPT !.inode.indirect = b, !.indirect = Zeros]
      /\ disk' = disk_write(disk, b, Zeros)
      /\ free_blocks' = free_blocks \cup {b} /\ pc' = "entry"
      /\ UNCHANGED is_mounted /\ pc = "loop"
  BY DEF AllocIndirect, disk_write
<1> HIDE DEF b
<1>4. Formed(disk') /\ disk'[0] = disk[0]
  BY <1>1, <1>3, DataWritten, EmptyBlocks DEF TInv
<1>5. /\ w' \in Locals /\ w'.inode.indirect = b
      /\ w'.i = w.i /\ w'.written = w.written /\ w'.left = w.left
      /\ w'.inumber = w.inumber /\ w'.word = w.word /\ w'.offset = w.offset
  BY <1>1, <1>2, <1>3, EmptyBlocks DEF Locals, InodeType, Pointers
<1>6. Length' = Length
  BY <1>5 DEF Length
<1> QED
  BY <1>1, <1>2, <1>3, <1>4, <1>5, <1>6, CommandGoesOn
  DEF TInv, Progress, Copying, Writing

LEMMA TReadIndirect == ASSUME TInv, ReadIndirect PROVE TInv'
<1>1. /\ w \in Locals /\ w.i >= POINTERS_PER_INODE /\ w.i < NPointers /\ w.written < Length
      /\ w.inode.indirect \in DataBlocks
  BY GeometryAssumption
  DEF TInv, ReadIndirect, Looping, Locals, NPointers, InodeType, Pointers
<1>2. disk[w.inode.indirect] \in Contents
  BY <1>1 DEF TInv, Formed
<1>3. /\ w' = [w EXCEPT !.indirect = disk[w.inode.indirect]]
      /\ pc' = "entry" /\ pc = "loop" /\ UNCHANGED <<disk, free_blocks, is_mounted>>
  BY DEF ReadIndirect, memory
<1>4. /\ w' \in Locals /\ w'.inode = w.inode
      /\ w'.i = w.i /\ w'.written = w.written /\ w'.left = w.left
      /\ w'.inumber = w.inumber /\ w'.word = w.word /\ w'.offset = w.offset
  BY <1>1, <1>2, <1>3 DEF Locals
<1>5. Length' = Length
  BY <1>4 DEF Length
<1> QED
  BY <1>1, <1>3, <1>4, <1>5, CommandGoesOn
  DEF TInv, Progress, Copying, Writing

LEMMA TAllocEntry == ASSUME TInv, AllocEntry PROVE TInv'
<1> DEFINE b == Min(Unmarked)
<1>1. b \in DataBlocks /\ b \in 0..(BITMAP_SIZE - 1) /\ b \in Nat
  BY BlockFound, Geometry DEF AllocEntry
<1>2. w \in Locals /\ w.i >= POINTERS_PER_INODE /\ w.i < NPointers /\ w.written < Length
      /\ w.inode.indirect \in DataBlocks
  BY DEF TInv, AllocEntry, Progress
<1>3. /\ w' = [w EXCEPT !.indirect[w.i - POINTERS_PER_INODE] = b, !.block = b]
      /\ free_blocks' = free_blocks \cup {b} /\ pc' = "data"
      /\ UNCHANGED <<disk, is_mounted>> /\ pc = "entry"
  BY DEF AllocEntry
<1> HIDE DEF b
<1>4. w' \in Locals /\ w'.inode = w.inode /\ w'.block = b
      /\ w'.i = w.i /\ w'.written = w.written /\ w'.left = w.left
      /\ w'.inumber = w.inumber /\ w'.word = w.word /\ w'.offset = w.offset
  <2>1. [w.indirect EXCEPT ![w.i - POINTERS_PER_INODE] = b] \in Contents
    BY <1>1, <1>2 DEF Locals, Contents, Pointers
  <2> QED
    BY <1>1, <1>2, <1>3, <2>1 DEF Locals
<1>5. Length' = Length
  BY <1>4 DEF Length
<1> QED
  BY <1>1, <1>2, <1>3, <1>4, <1>5, CommandGoesOn
  DEF TInv, Progress, Copying, Writing

(* How much of one block is filled, and that it stays in the block, in the *)
(* chunk and in what was given to fs_write.                                *)
LEMMA Amount ==
    ASSUME w \in Locals, w.written < Length
    PROVE  /\ newOffset \in Entries
           /\ numToCopy \in Nat \ {0}
           /\ newOffset + numToCopy <= BLOCK_SIZE
           /\ w.written + numToCopy <= Length
           /\ numToCopy \in {BLOCK_SIZE - newOffset, Length - w.written}
<1>1. BLOCK_SIZE \in Nat \ {0} /\ Length \in Nat /\ w.written \in Nat /\ w.offset \in Nat
  BY GeometryAssumption, Lengthy DEF BLOCK_SIZE, Locals
<1>2. newOffset \in 0..(BLOCK_SIZE - 1)
  <2>1. w.offset % BLOCK_SIZE \in 0..(BLOCK_SIZE - 1)
    BY <1>1, Division
  <2> QED
    BY <1>1, <2>1 DEF newOffset
<1> DEFINE S == {BLOCK_SIZE - newOffset, Length - w.written}
<1>3. S \in SUBSET (Nat \ {0})
  BY <1>1, <1>2
<1>4. numToCopy \in S /\ \A y \in S : numToCopy <= y
  <2>1. numToCopy = Min(S)
    BY DEF numToCopy
  <2>2. S \in SUBSET Nat /\ S # {}
    BY <1>3
  <2> HIDE DEF S
  <2> QED
    BY <2>1, <2>2, LeastExists
<1> QED
  BY <1>1, <1>2, <1>3, <1>4 DEF Entries, BLOCK_SIZE

(* What is written to a data block is text, where it was filled, and what  *)
(* was read from it elsewhere.                                             *)
LEMMA FilledBlock ==
    ASSUME TInv, pc = "data"
    PROVE  Filled(disk[w.block]) \in Contents
<1>1. /\ w \in Locals /\ w.written < Length /\ w.word \in Words
      /\ w.offset + w.left <= MaxSize /\ w.block \in DataBlocks
  BY DEF TInv, Progress, Copying
<1>2. disk[w.block] \in Contents
  BY <1>1 DEF TInv, Formed
<1>3. ASSUME NEW m \in Entries, m \in newOffset..(newOffset + numToCopy - 1)
      PROVE  Text(w.word, w.offset + w.written + m - newOffset) \in Texts
  <2>1. /\ newOffset \in Nat /\ numToCopy \in Nat /\ m \in Nat
        /\ w.offset \in Nat /\ w.written \in Nat /\ w.left \in Nat /\ MaxSize \in Nat
        /\ Length \in Nat /\ Length <= w.left /\ w.written + numToCopy <= Length
    BY <1>1, Amount, Lengthy, GeometryAssumption DEF Locals, Entries
  <2>2. w.offset + w.written + m - newOffset \in 0..MaxSize
    BY <1>1, <1>3, <2>1
  <2> QED
    BY <1>1, <2>2 DEF Texts
<1> QED
  BY <1>2, <1>3 DEF Filled, Contents

(* On to the next block.                                                   *)
LEMMA Advanced ==
    ASSUME w \in Locals, w.written < Length, NextBlock
    PROVE  /\ w' \in Locals /\ w'.written = w.written + numToCopy /\ w'.i = w.i + 1
           /\ w'.inumber = w.inumber /\ w'.word = w.word /\ w'.offset = w.offset
           /\ w'.left = w.left /\ w'.inode = w.inode
           /\ Length' = Length /\ w'.written <= Length'
           /\ pc' = "loop"
<1> DEFINE wr == w.written + numToCopy
           next == w.i + 1
<1>1. wr \in Nat /\ next \in Nat /\ wr <= Length
  BY Amount DEF Locals
<1>2. w' = [w EXCEPT !.written = wr, !.i = next] /\ pc' = "loop"
  BY DEF NextBlock, Locals
<1> HIDE DEF wr, next
<1>3. /\ w' \in Locals /\ w'.written = wr /\ w'.i = next
      /\ w'.inumber = w.inumber /\ w'.word = w.word /\ w'.offset = w.offset
      /\ w'.left = w.left /\ w'.inode = w.inode
  BY <1>1, <1>2 DEF Locals
<1>4. Length' = Length
  BY <1>3 DEF Length
<1> QED
  BY <1>1, <1>2, <1>3, <1>4 DEF wr, next

LEMMA TWriteData == ASSUME TInv, WriteData PROVE TInv'
<1>1. /\ pc = "data" /\ w \in Locals /\ w.written < Length /\ w.i < NPointers
      /\ w.block \in DataBlocks /\ is_mounted /\ is_mounted = TRUE /\ disk[0] = SuperBlock
      /\ w.inumber \in Inumbers /\ w.word \in Words /\ w.offset + w.left <= MaxSize
      /\ w.i >= POINTERS_PER_INODE => w.inode.indirect \in DataBlocks
      /\ UNCHANGED <<free_blocks, is_mounted>>
  BY DEF TInv, Progress, Copying, WriteData, memory
<1>2. disk' = disk_write(disk, w.block, Filled(disk[w.block]))
  BY DEF WriteData, disk_write
<1>3. Formed(disk') /\ disk'[0] = disk[0]
  BY <1>1, <1>2, FilledBlock, DataWritten DEF TInv
<1>4. CASE w.i < POINTERS_PER_INODE
  <2>1. NextBlock
    BY <1>4 DEF WriteData
  <2> QED
    BY <1>1, <1>3, <2>1, Advanced, CommandGoesOn DEF TInv
<1>5. CASE ~(w.i < POINTERS_PER_INODE)
  <2>1. pc' = "indirect" /\ w' = w
    BY <1>5 DEF WriteData
  <2>2. Length' = Length
    BY <2>1 DEF Length
  <2>3. w.i >= POINTERS_PER_INODE
    BY <1>1, <1>5, GeometryAssumption DEF Locals
  <2>4. w.written <= Length
    BY <1>1, Lengthy DEF Locals
  <2> QED
    BY <1>1, <1>3, <2>1, <2>2, <2>3, <2>4, CommandGoesOn DEF TInv
<1> QED
  BY <1>4, <1>5

LEMMA TWriteIndirect == ASSUME TInv, WriteIndirect PROVE TInv'
<1>1. /\ pc = "indirect" /\ w \in Locals /\ w.written < Length
      /\ w.inode.indirect \in DataBlocks /\ is_mounted /\ disk[0] = SuperBlock
      /\ w.inumber \in Inumbers /\ w.word \in Words /\ w.offset + w.left <= MaxSize
      /\ UNCHANGED <<free_blocks, is_mounted>>
      /\ NextBlock
  BY DEF TInv, Progress, Copying, WriteIndirect, memory
<1>2. disk' = disk_write(disk, w.inode.indirect, w.indirect)
  BY DEF WriteIndirect, disk_write
<1>3. Formed(disk') /\ disk'[0] = disk[0]
  BY <1>1, <1>2, DataWritten DEF TInv, Locals
<1> QED
  BY <1>1, <1>3, Advanced, CommandGoesOn DEF TInv

LEMMA TWriteSave == ASSUME TInv, WriteSave PROVE TInv'
<1> DEFINE node == [w.inode EXCEPT !.size = @ + w.written]
<1>1. /\ pc = "save" /\ w \in Locals /\ w.written <= Length
      /\ is_mounted /\ disk[0] = SuperBlock
      /\ w.inumber \in Inumbers /\ w.word \in Words /\ w.offset + w.left <= MaxSize
      /\ UNCHANGED <<free_blocks, is_mounted>>
      /\ free_blocks' \subseteq 0..(BITMAP_SIZE - 1)
  BY DEF TInv, Progress, Copying, Writing, WriteSave, memory
<1>2. node \in InodeType
  BY <1>1 DEF Locals, InodeType
<1>3. disk' = save_inode(disk, w.inumber, node)
  BY DEF WriteSave
<1> HIDE DEF node
<1>4. Formed(disk') /\ disk'[0] = SuperBlock
  BY <1>1, <1>2, <1>3, InodeWritten DEF TInv
<1>5. CASE w.written # Length
  BY <1>1, <1>4, <1>5, CommandEnds DEF WriteSave
<1>6. CASE w.written = Length
  <2> DEFINE begun == w.offset + w.written
             rest == w.left - w.written
  <2>1. pc' = "chunk" /\ w' = [w EXCEPT !.offset = begun, !.left = rest]
    BY <1>1, <1>6 DEF WriteSave, Locals
  <2>2. begun \in Nat /\ rest \in Nat /\ begun + rest <= MaxSize
    BY <1>1, <1>6, Lengthy DEF Locals
  <2> HIDE DEF begun, rest
  <2>3. /\ w' \in Locals /\ w'.offset = begun /\ w'.left = rest
        /\ w'.inumber = w.inumber /\ w'.word = w.word
    BY <1>1, <2>1, <2>2 DEF Locals
  <2>4. w'.offset + w'.left <= MaxSize
    BY <1>1, <2>2, <2>3
  <2> QED
    BY <1>1, <1>4, <2>1, <2>3, <2>4, CommandGoesOn
<1> QED
  BY <1>5, <1>6

LEMMA TCrash == ASSUME TInv, Crash PROVE TInv'
<1>1. Formed(disk') /\ free_blocks' \subseteq 0..(BITMAP_SIZE - 1)
  BY DEF TInv, Crash, Formed
<1> QED
  BY <1>1, CommandEnds DEF Crash

LEMMA NextTInv == ASSUME TInv, [Next]_vars PROVE TInv'
<1>1. CASE UNCHANGED vars
  BY <1>1 DEF vars, TInv, Formed, Progress, Copying, Writing, Length
<1>2. CASE ReadOnlyCommand
  BY <1>1, <1>2 DEF ReadOnlyCommand
<1> QED
  BY <1>1, <1>2, TCrash, TFormat, TFormatBlock, TMount, TCreate, TDelete, TCopyIn,
     TWriteStart, TQuiet, TAllocDirect, TAllocIndirect, TReadIndirect, TAllocEntry,
     TWriteData, TWriteIndirect, TWriteSave
  DEF Next

LEMMA TInvHolds == Spec => []TInv
<1>1. Init => TInv
  BY InitTInv
<1>2. TInv /\ [Next]_vars => TInv'
  BY NextTInv
<1> QED
  BY <1>1, <1>2, PTL DEF Spec

(* Whatever the commands and wherever they crash, the superblock is a      *)
(* superblock, the inode blocks hold inodes and their pointers lead to     *)
(* data blocks: fs_write never writes text or pointers over metadata.      *)
THEOREM TypeCorrect == Spec => []TypeOK
<1>1. TInv => TypeOK
  BY DEF TInv, TypeOK, Formed, Contents, Locals, Progress
<1> QED
  BY <1>1, TInvHolds, PTL

-----------------------------------------------------------------------------
PointerTables == [Entries -> Pointers]

\* A table of pointers is where the indirect pointer of an inode leads.
Sound(d, node) == node.indirect # 0 => d[node.indirect] \in PointerTables

\* No direct pointer lies beyond the size: fs_mount would not see it.
Covered(node) == \A k \in Directs : node.direct[k] # 0 => k * BLOCK_SIZE < node.size

Files ==
    /\ \A n \in ValidInodes(disk) :
          Sound(disk, ld_inode(disk, n)) /\ Covered(ld_inode(disk, n))
    /\ \A m, n \in ValidInodes(disk) :
          m # n => Owned(disk, ld_inode(disk, m)) \cap Owned(disk, ld_inode(disk, n)) = {}
    /\ is_mounted => \A n \in ValidInodes(disk) :
                        Owned(disk, ld_inode(disk, n)) \subseteq free_blocks

UsesIndirect ==
    pc \in {"entry", "indirect"} \/ (pc = "data" /\ w.i >= POINTERS_PER_INODE)

\* The blocks of the file being written, on the disk or in memory.
Held == Owned(disk, w.inode)
          \cup (IF UsesIndirect THEN {w.indirect[m] : m \in Entries} \ {0} ELSE {})
          \cup (IF pc = "data" THEN {w.block} ELSE {})

Hand ==
    /\ Held \subseteq free_blocks
    /\ \A n \in ValidInodes(disk) \ {w.inumber} :
          Held \cap Owned(disk, ld_inode(disk, n)) = {}
    /\ Sound(disk, w.inode)
    /\ UsesIndirect => w.indirect \in PointerTables
    /\ pc = "data" =>
          /\ w.block # w.inode.indirect
          /\ \A n \in ValidInodes(disk) : w.block \notin Owned(disk, ld_inode(disk, n))
    /\ \A k \in Directs : w.inode.direct[k] # 0 =>
          \/ k * BLOCK_SIZE < w.inode.size + w.written
          \/ pc = "data" /\ k = w.i
    /\ w.i * BLOCK_SIZE <= w.offset + w.written \/ w.written = Length
    /\ w.offset <= w.inode.size

\* What format has reached, and where files can be; what a copyin works on.
Formatting == pc = "format" => \A n \in ValidInodes(disk) : BlockOf(n) >= w.i
Rooted == ValidInodes(disk) # {} => disk[0] = SuperBlock
OnFile == Writing => w.inumber \in ValidInodes(disk) /\ w.inode.isvalid
Chunked == pc = "chunk" => w.offset <= ld_inode(disk, w.inumber).size

OInv ==
    /\ Formatting /\ Rooted /\ OnFile
    /\ Clean => Files /\ Chunked /\ (Writing => Hand)

-----------------------------------------------------------------------------
(* What a write does to the inodes and to what they own.                   *)

LEMMA OwnedSame ==
    ASSUME NEW d, NEW dd, NEW node, dd[node.indirect] = d[node.indirect] \/ node.indirect = 0
    PROVE  /\ Owned(dd, node) = Owned(d, node)
           /\ Sound(dd, node) <=> Sound(d, node)
BY DEF Owned, IndirectBlocks, Sound

(* A data block is written: inodes stay, and so does what they own unless  *)
(* it is their indirect block.                                             *)
LEMMA DataStep ==
    ASSUME TInv, NEW b \in DataBlocks, NEW c \in Contents, disk' = disk_write(disk, b, c)
    PROVE  /\ ValidInodes(disk') = ValidInodes(disk)
           /\ disk'[0] = disk[0]
           /\ \A n \in Inumbers :
                 /\ ld_inode(disk', n) = ld_inode(disk, n)
                 /\ ld_inode(disk, n).indirect # b =>
                       /\ Owned(disk', ld_inode(disk', n)) = Owned(disk, ld_inode(disk, n))
                       /\ Sound(disk', ld_inode(disk', n)) <=> Sound(disk, ld_inode(disk, n))
           /\ \A node \in InodeType : node.indirect # b =>
                 /\ Owned(disk', node) = Owned(disk, node)
                 /\ Sound(disk', node) <=> Sound(disk, node)
           /\ disk'[b] = c
<1>1. /\ disk'[b] = c /\ disk'[0] = disk[0]
      /\ \A x \in 0..(NBlocks - 1) : x # b => disk'[x] = disk[x]
      /\ \A n \in Inumbers : ld_inode(disk', n) = ld_inode(disk, n)
  BY DataWritten DEF TInv
<1>2. ASSUME NEW node \in InodeType, node.indirect # b
      PROVE  /\ Owned(disk', node) = Owned(disk, node)
             /\ Sound(disk', node) <=> Sound(disk, node)
  <2>1. node.indirect \in 0..(NBlocks - 1)
    BY Geometry DEF InodeType, Pointers
  <2>2. disk'[node.indirect] = disk[node.indirect]
    BY <1>1, <1>2, <2>1
  <2> QED
    BY <2>2, OwnedSame
<1>3. \A n \in Inumbers : ld_inode(disk, n) \in InodeType
  BY InodeFound DEF TInv
<1> QED
  BY <1>1, <1>2, <1>3 DEF ValidInodes

(* An inode is written: the others and what they own stay.                 *)
LEMMA InodeStep ==
    ASSUME TInv, NEW i \in Inumbers, NEW node \in InodeType, disk' = save_inode(disk, i, node)
    PROVE  /\ ValidInodes(disk') \ {i} = ValidInodes(disk) \ {i}
           /\ i \in ValidInodes(disk') <=> node.isvalid
           /\ disk'[0] = disk[0]
           /\ ld_inode(disk', i) = node
           /\ \A n \in Inumbers \ {i} :
                 /\ ld_inode(disk', n) = ld_inode(disk, n)
                 /\ Owned(disk', ld_inode(disk', n)) = Owned(disk, ld_inode(disk, n))
                 /\ Sound(disk', ld_inode(disk', n)) <=> Sound(disk, ld_inode(disk, n))
           /\ Owned(disk', node) = Owned(disk, node)
           /\ Sound(disk', node) <=> Sound(disk, node)
<1>1. /\ \A x \in {0} \cup DataBlocks : disk'[x] = disk[x]
      /\ ld_inode(disk', i) = node
      /\ \A m \in Inumbers \ {i} : ld_inode(disk', m) = ld_inode(disk, m)
  BY InodeWritten DEF TInv
<1>2. ASSUME NEW nn \in InodeType
      PROVE  /\ Owned(disk', nn) = Owned(disk, nn)
             /\ Sound(disk', nn) <=> Sound(disk, nn)
  <2>1. disk'[nn.indirect] = disk[nn.indirect]
    BY <1>1 DEF InodeType, Pointers
  <2> QED
    BY <2>1, OwnedSame
<1>3. \A n \in Inumbers : ld_inode(disk, n) \in InodeType
  BY InodeFound DEF TInv
<1> QED
  BY <1>1, <1>2, <1>3 DEF ValidInodes

-----------------------------------------------------------------------------
(* How Files is kept.  At most one file, f, gets blocks it did not have,   *)
(* all of them from a set that no other file has anything of.              *)
LEMMA FilesAfter ==
    ASSUME Files, NEW f, NEW given,
           \A n \in ValidInodes(disk') \ {f} :
              /\ n \in ValidInodes(disk)
              /\ Owned(disk', ld_inode(disk', n)) \subseteq Owned(disk, ld_inode(disk, n))
              /\ given \cap Owned(disk, ld_inode(disk, n)) = {},
           f \in ValidInodes(disk') => Owned(disk', ld_inode(disk', f)) \subseteq given,
           \A n \in ValidInodes(disk') :
              Sound(disk', ld_inode(disk', n)) /\ Covered(ld_inode(disk', n)),
           is_mounted' => \A n \in ValidInodes(disk') :
                             Owned(disk', ld_inode(disk', n)) \subseteq free_blocks'
    PROVE  Files'
<1>1. ASSUME NEW m \in ValidInodes(disk'), NEW n \in ValidInodes(disk'), m # n
      PROVE  Owned(disk', ld_inode(disk', m)) \cap Owned(disk', ld_inode(disk', n)) = {}
  <2>1. CASE m = f
    BY <1>1, <2>1
  <2>2. CASE n = f
    BY <1>1, <2>2
  <2>3. CASE m # f /\ n # f
    <3>1. Owned(disk, ld_inode(disk, m)) \cap Owned(disk, ld_inode(disk, n)) = {}
      BY <1>1, <2>3 DEF Files
    <3> QED
      BY <1>1, <2>3, <3>1
  <2> QED
    BY <2>1, <2>2, <2>3
<1> QED
  BY <1>1 DEF Files

(* The special case in which no file gets anything.                        *)
LEMMA FilesKept ==
    ASSUME Files,
           \A n \in ValidInodes(disk') :
              /\ n \in ValidInodes(disk)
              /\ Owned(disk', ld_inode(disk', n)) \subseteq Owned(disk, ld_inode(disk, n))
              /\ Sound(disk', ld_inode(disk', n)) /\ Covered(ld_inode(disk', n)),
           is_mounted' => \A n \in ValidInodes(disk') :
                             Owned(disk', ld_inode(disk', n)) \subseteq free_blocks'
    PROVE  Files'
<1>1. ASSUME NEW m \in ValidInodes(disk'), NEW n \in ValidInodes(disk'), m # n
      PROVE  Owned(disk', ld_inode(disk', m)) \cap Owned(disk', ld_inode(disk', n)) = {}
  <2>1. Owned(disk, ld_inode(disk, m)) \cap Owned(disk, ld_inode(disk, n)) = {}
    BY <1>1 DEF Files
  <2> QED
    BY <2>1
<1> QED
  BY <1>1 DEF Files

-----------------------------------------------------------------------------
(* The commands that write one block or none.                              *)

(* A step that changes neither the disk nor the command's locals, and      *)
(* marks what it must.                                                     *)
LEMMA FilesSame ==
    ASSUME Files, UNCHANGED disk,
           is_mounted' => is_mounted /\ free_blocks \subseteq free_blocks'
    PROVE  Files'
<1>1. \A n \in ValidInodes(disk') :
         is_mounted' => Owned(disk', ld_inode(disk', n)) \subseteq free_blocks'
  BY DEF Files
<1> QED
  BY <1>1, FilesKept DEF Files

LEMMA InitOInv == Init => OInv
<1> SUFFICES ASSUME Init PROVE OInv
  OBVIOUS
<1>1. ASSUME NEW n \in Inumbers
      PROVE  ld_inode(disk, n) = EmptyInode
  <2>1. BlockOf(n) \in InodeBlocks /\ SlotOf(n) \in Slots
    BY Places
  <2>2. disk[BlockOf(n)] = EmptyTable
    BY <2>1, Geometry DEF Init, ZeroBlock
  <2> QED
    BY <2>1, <2>2 DEF EmptyTable, ld_inode
<1>2. ValidInodes(disk) = {}
  BY <1>1 DEF ValidInodes, EmptyInode
<1> QED
  BY <1>2 DEF Init, OInv, Formatting, Rooted, OnFile, Chunked, Writing, Files

LEMMA OCrash == ASSUME TInv, OInv, Crash PROVE OInv'
<1>1. UNCHANGED <<disk, stale, skipped>> /\ pc' = "idle" /\ is_mounted' = FALSE
  BY DEF Crash, history
<1>2. Clean' => Files'
  BY <1>1, FilesSame DEF OInv, Clean
<1> QED
  BY <1>1, <1>2 DEF OInv, Formatting, Rooted, OnFile, Chunked, Writing

LEMMA OFormat == ASSUME TInv, OInv, Format PROVE OInv'
<1>1. /\ UNCHANGED <<free_blocks, is_mounted, stale, skipped>> /\ ~is_mounted
      /\ pc' = "format" /\ w'.i = 1
      /\ disk' = [disk EXCEPT ![0] = SuperBlock]
  BY DEF Format, memory, history, TInv, Locals
<1>2. /\ disk'[0] = SuperBlock
      /\ \A x \in 0..(NBlocks - 1) : x # 0 => disk'[x] = disk[x]
  <2>1. disk' = [x \in 0..(NBlocks - 1) |-> IF x = 0 THEN SuperBlock ELSE disk[x]]
    BY <1>1 DEF TInv, Formed
  <2> QED
    BY <2>1, Geometry
<1>3. \A n \in Inumbers : ld_inode(disk', n) = ld_inode(disk, n)
  BY <1>2, Places, Geometry DEF ld_inode
<1>4. ValidInodes(disk') = ValidInodes(disk)
  BY <1>3 DEF ValidInodes
<1>5. \A n \in ValidInodes(disk) :
         /\ Owned(disk', ld_inode(disk', n)) = Owned(disk, ld_inode(disk, n))
         /\ Sound(disk', ld_inode(disk', n)) <=> Sound(disk, ld_inode(disk, n))
  <2> TAKE n \in ValidInodes(disk)
  <2>1. n \in Inumbers /\ ld_inode(disk, n).indirect \in 0..(NBlocks - 1)
    BY InodeFound, Geometry DEF TInv, ValidInodes, InodeType, Pointers
  <2> QED
    BY <1>2, <1>3, <2>1, OwnedSame
<1>6. ASSUME Clean' PROVE Files'
  <2>1. Files
    BY <1>1, <1>6 DEF OInv, Clean
  <2>2. \A n \in ValidInodes(disk) : n \in Inumbers
    BY DEF ValidInodes
  <2> QED
    BY <1>1, <1>3, <1>4, <1>5, <2>1, <2>2, FilesKept DEF Files
<1>7. \A n \in ValidInodes(disk') : BlockOf(n) >= w'.i
  BY <1>1, Places DEF ValidInodes, InodeBlocks
<1> QED
  BY <1>1, <1>2, <1>6, <1>7 DEF OInv, Formatting, Rooted, OnFile, Chunked, Writing

(* Format zeroes the inode blocks first: an inode that is still there is   *)
(* in a block that is not reached, and when data blocks are zeroed there   *)
(* is none left.                                                           *)
LEMMA FormatStep ==
    ASSUME TInv, OInv, FormatBlock, w.i < NBlocks
    PROVE  /\ disk'[0] = disk[0]
           /\ ValidInodes(disk') \subseteq ValidInodes(disk)
           /\ \A n \in ValidInodes(disk') :
                 /\ BlockOf(n) >= w.i + 1
                 /\ ld_inode(disk', n) = ld_inode(disk, n)
                 /\ \A x \in {0} \cup DataBlocks : disk'[x] = disk[x]
<1>1. w.i \in Nat /\ w.i >= 1 /\ \A n \in ValidInodes(disk) : BlockOf(n) >= w.i
  BY DEF TInv, OInv, Progress, Locals, FormatBlock, Formatting
<1>2. w.i \in InodeBlocks \cup DataBlocks /\ w.i \in 0..(NBlocks - 1)
  <2>1. w.i \in 0..(NBlocks - 1)
    BY <1>1, Geometry
  <2> QED
    BY <1>1, <2>1, Geometry
<1>3. \A x \in 0..(NBlocks - 1) :
         disk'[x] = IF x = w.i THEN ZeroBlock(w.i) ELSE disk[x]
  <2>1. disk' = [x \in 0..(NBlocks - 1) |-> IF x = w.i THEN ZeroBlock(w.i) ELSE disk[x]]
    BY <1>2 DEF FormatBlock, TInv, Formed
  <2> QED
    BY <2>1
<1>4. disk'[0] = disk[0]
  BY <1>1, <1>3, Geometry
<1>5. \A n \in Inumbers : /\ BlockOf(n) \in InodeBlocks /\ BlockOf(n) \in 0..(NBlocks - 1)
                          /\ BlockOf(n) \in Nat /\ SlotOf(n) \in Slots
  BY Places, Geometry
<1>6. \A n \in Inumbers : BlockOf(n) # w.i => ld_inode(disk', n) = ld_inode(disk, n)
  BY <1>3, <1>5 DEF ld_inode
<1>7. \A n \in Inumbers : BlockOf(n) = w.i => ~ld_inode(disk', n).isvalid
  <2> TAKE n \in Inumbers
  <2> HAVE BlockOf(n) = w.i
  <2>1. disk'[BlockOf(n)] = EmptyTable
    BY <1>3, <1>5 DEF ZeroBlock
  <2> QED
    BY <1>5, <2>1 DEF ld_inode, EmptyTable, EmptyInode
<1>8. \A n \in ValidInodes(disk') : n \in Inumbers /\ BlockOf(n) # w.i /\ n \in ValidInodes(disk)
  BY <1>6, <1>7 DEF ValidInodes
<1>9. ASSUME NEW n \in ValidInodes(disk')
      PROVE  /\ BlockOf(n) >= w.i + 1
             /\ \A x \in {0} \cup DataBlocks : disk'[x] = disk[x]
  <2>1. BlockOf(n) >= w.i + 1 /\ BlockOf(n) \in InodeBlocks
    BY <1>1, <1>5, <1>8
  <2>2. w.i \in InodeBlocks
    BY <1>1, <1>2, <2>1, Geometry DEF InodeBlocks
  <2>3. w.i \notin {0} \cup DataBlocks
    BY <2>2, Geometry
  <2> QED
    BY <1>3, <2>1, <2>3, Geometry
<1> QED
  BY <1>4, <1>6, <1>8, <1>9

LEMMA OFormatBlock == ASSUME TInv, OInv, FormatBlock PROVE OInv'
<1>0. ~is_mounted /\ pc = "format" /\ UNCHANGED <<free_blocks, is_mounted>> /\ w \in Locals
  BY DEF TInv, Progress, FormatBlock, memory
<1>1. CASE w.i < NBlocks
  <2>1. /\ UNCHANGED <<stale, skipped, pc>> /\ w'.i = w.i + 1
    BY <1>0, <1>1 DEF FormatBlock, history, Locals
  <2>2. ASSUME Clean' PROVE Files'
    <3>1. Files
      BY <2>1, <2>2 DEF OInv, Clean
    <3>2. \A n \in ValidInodes(disk') :
             /\ Owned(disk', ld_inode(disk', n)) = Owned(disk, ld_inode(disk, n))
             /\ Sound(disk', ld_inode(disk', n)) <=> Sound(disk, ld_inode(disk, n))
      <4> TAKE n \in ValidInodes(disk')
      <4>1. /\ ld_inode(disk', n) = ld_inode(disk, n) /\ n \in Inumbers
            /\ \A x \in {0} \cup DataBlocks : disk'[x] = disk[x]
        BY <1>1, FormatStep DEF ValidInodes
      <4>2. ld_inode(disk, n).indirect \in {0} \cup DataBlocks
        BY <4>1, InodeFound DEF TInv, InodeType, Pointers
      <4> QED
        BY <4>1, <4>2, OwnedSame
    <3>3. /\ ValidInodes(disk') \subseteq ValidInodes(disk)
          /\ \A n \in ValidInodes(disk') : ld_inode(disk', n) = ld_inode(disk, n)
      BY <1>1, FormatStep
    <3> QED
      BY <1>0, <3>1, <3>2, <3>3, FilesKept DEF Files
  <2>3. Formatting' /\ Rooted'
    BY <1>1, <2>1, FormatStep DEF OInv, Formatting, Rooted
  <2> QED
    BY <1>0, <2>1, <2>2, <2>3 DEF OInv, OnFile, Chunked, Writing
<1>2. CASE ~(w.i < NBlocks)
  <2>1. pc' = "idle" /\ UNCHANGED <<disk, is_mounted>>
    BY <1>2 DEF FormatBlock, memory
  <2>2. ValidInodes(disk) = {}
    <3>1. ASSUME NEW n \in ValidInodes(disk) PROVE FALSE
      <4>1. BlockOf(n) >= w.i /\ BlockOf(n) \in InodeBlocks /\ w.i \in Nat
        BY <1>0, Places DEF OInv, Formatting, ValidInodes, Locals
      <4> QED
        BY <1>2, <4>1, Geometry DEF InodeBlocks
    <3> QED
      BY <3>1
  <2>3. Files'
    BY <1>0, <2>1, <2>2 DEF Files
  <2> QED
    BY <2>1, <2>2, <2>3 DEF OInv, Formatting, Rooted, OnFile, Chunked, Writing
<1> QED
  BY <1>1, <1>2

(* fs_mount marks the blocks within the size, and no other is owned.       *)
LEMMA OMount == ASSUME TInv, OInv, Mount PROVE OInv'
<1>1. /\ UNCHANGED <<disk, w, stale>> /\ ~is_mounted /\ pc' \in {"idle", "dead"}
      /\ disk[0] = SuperBlock
      /\ skipped' = (skipped \/ \E n \in ValidInodes(disk) : ld_inode(disk, n).indirect # 0)
  BY DEF Mount, Command
<1>2. ASSUME Clean' PROVE Files'
  <2>1. /\ ~skipped /\ ~stale /\ \A n \in ValidInodes(disk) : ld_inode(disk, n).indirect = 0
    BY <1>1, <1>2 DEF Clean
  <2>2. Files
    BY <2>1 DEF OInv, Clean
  <2>3. ASSUME is_mounted', NEW n \in ValidInodes(disk)
        PROVE  Owned(disk, ld_inode(disk, n)) \subseteq free_blocks'
    <3>1. Owned(disk, ld_inode(disk, n)) = DirectBlocks(ld_inode(disk, n))
      BY <2>1 DEF Owned, IndirectBlocks
    <3>2. DirectBlocks(ld_inode(disk, n)) \subseteq Marks(disk, ld_inode(disk, n))
      BY <2>2 DEF DirectBlocks, Marks, Files, Covered
    <3>3. Marks(disk, ld_inode(disk, n)) \subseteq free_blocks'
      BY <1>1, <2>3 DEF Mount, memory
    <3> QED
      BY <3>1, <3>2, <3>3
  <2> QED
    BY <1>1, <2>2, <2>3, FilesKept DEF Files
<1> QED
  BY <1>1, <1>2 DEF OInv, Formatting, Rooted, OnFile, Chunked, Writing

(* A file that is created in an inode without old pointers owns nothing.   *)
LEMMA OCreate == ASSUME TInv, OInv, Create PROVE OInv'
<1> DEFINE f == Min(Creatable(disk))
           old == ld_inode(disk, f)
           node == [old EXCEPT !.isvalid = TRUE, !.size = 0]
<1>1. Creatable(disk) \in SUBSET Nat /\ Creatable(disk) \subseteq Inumbers
  BY Places DEF Creatable
<1>2. f \in Creatable(disk)
  BY <1>1, LeastExists DEF Create
<1>3. f \in Inumbers /\ ~ld_inode(disk, f).isvalid
  BY <1>2 DEF Creatable
<1>4. node \in InodeType /\ node.isvalid /\ node.direct = old.direct /\ node.indirect = old.indirect
  BY <1>3, InodeFound DEF TInv, InodeType
<1>5. /\ disk' = save_inode(disk, f, node)
      /\ UNCHANGED <<free_blocks, is_mounted, pc, w, skipped>>
      /\ is_mounted /\ pc = "idle" /\ disk[0] = SuperBlock
      /\ stale' = (stale \/ old.indirect # 0 \/ \E k \in Directs : old.direct[k] # 0)
  BY DEF Create, Command, memory, TInv
<1> HIDE DEF f, node
<1>6. /\ ValidInodes(disk') \ {f} = ValidInodes(disk)
      /\ disk'[0] = disk[0]
      /\ ld_inode(disk', f) = node
      /\ \A n \in Inumbers \ {f} :
            /\ ld_inode(disk', n) = ld_inode(disk, n)
            /\ Owned(disk', ld_inode(disk', n)) = Owned(disk, ld_inode(disk, n))
            /\ Sound(disk', ld_inode(disk', n)) <=> Sound(disk, ld_inode(disk, n))
  <2>1. f \notin ValidInodes(disk)
    BY <1>3 DEF ValidInodes
  <2> QED
    BY <1>3, <1>4, <1>5, <2>1, InodeStep
<1>7. ASSUME Clean' PROVE Files'
  <2>1. Clean /\ old.indirect = 0 /\ \A k \in Directs : old.direct[k] = 0
    BY <1>5, <1>7 DEF Clean
  <2>2. Files
    BY <2>1 DEF OInv
  <2>3. Owned(disk', node) = {} /\ Sound(disk', node) /\ Covered(node)
    BY <1>4, <2>1 DEF Owned, DirectBlocks, IndirectBlocks, Sound, Covered
  <2>4. \A n \in ValidInodes(disk') : n = f \/ (n \in ValidInodes(disk) /\ n \in Inumbers \ {f})
    BY <1>6 DEF ValidInodes
  <2>5. ASSUME NEW n \in ValidInodes(disk')
        PROVE  /\ Sound(disk', ld_inode(disk', n)) /\ Covered(ld_inode(disk', n))
               /\ is_mounted' => Owned(disk', ld_inode(disk', n)) \subseteq free_blocks'
    <3>1. CASE n = f
      BY <1>6, <2>3, <3>1
    <3>2. CASE n # f
      BY <1>5, <1>6, <2>2, <2>4, <3>2 DEF Files
    <3> QED
      BY <3>1, <3>2
  <2> DEFINE given == {}
  <2>6. \A n \in ValidInodes(disk') \ {f} :
            /\ n \in ValidInodes(disk)
            /\ Owned(disk', ld_inode(disk', n)) \subseteq Owned(disk, ld_inode(disk, n))
            /\ given \cap Owned(disk, ld_inode(disk, n)) = {}
    BY <1>6, <2>4
  <2>7. Owned(disk', ld_inode(disk', f)) \subseteq given
    BY <1>6, <2>3
  <2> HIDE DEF given
  <2> QED
    BY <2>2, <2>5, <2>6, <2>7, FilesAfter
<1> QED
  BY <1>5, <1>6, <1>7 DEF OInv, Formatting, Rooted, OnFile, Chunked, Writing

(* fs_delete releases exactly what the file owns.                          *)
LEMMA ODelete == ASSUME TInv, OInv, NEW f \in Inumbers, Delete(f) PROVE OInv'
<1> DEFINE node == ld_inode(disk, f)
           gone == [node EXCEPT !.isvalid = FALSE, !.size = 0]
<1>1. /\ UNCHANGED <<is_mounted, w, stale, skipped>> /\ pc = "idle" /\ pc' \in {"idle", "dead"}
      /\ disk[0] = SuperBlock /\ node.isvalid
  BY DEF Delete, Command, history, TInv
<1>2. gone \in InodeType /\ ~gone.isvalid
  BY InodeFound DEF TInv, InodeType
<1>3. CASE UNCHANGED <<disk, free_blocks>>
  <2>1. Clean' => Files'
    BY <1>1, <1>3, FilesSame DEF OInv, Clean
  <2> QED
    BY <1>1, <1>3, <2>1 DEF OInv, Formatting, Rooted, OnFile, Chunked, Writing
<1>4. CASE /\ disk' = save_inode(disk, f, gone)
           /\ free_blocks' = free_blocks \ Releases(disk, node)
  <2> HIDE DEF gone
  <2>1. /\ ValidInodes(disk') \ {f} = ValidInodes(disk) \ {f}
        /\ f \notin ValidInodes(disk')
        /\ disk'[0] = disk[0]
        /\ \A n \in Inumbers \ {f} :
              /\ ld_inode(disk', n) = ld_inode(disk, n)
              /\ Owned(disk', ld_inode(disk', n)) = Owned(disk, ld_inode(disk, n))
              /\ Sound(disk', ld_inode(disk', n)) <=> Sound(disk, ld_inode(disk, n))
    BY <1>2, <1>4, InodeStep
  <2>2. \A n \in ValidInodes(disk') : n \in ValidInodes(disk) /\ n \in Inumbers \ {f}
    BY <2>1 DEF ValidInodes
  <2>3. Releases(disk, node) = Owned(disk, node)
    BY DEF Releases, Owned, DirectBlocks, IndirectBlocks
  <2>4. ASSUME Clean' PROVE Files'
    <3>1. Files /\ f \in ValidInodes(disk)
      BY <1>1, <2>4 DEF OInv, Clean, ValidInodes
    <3>2. ASSUME is_mounted', NEW n \in ValidInodes(disk')
          PROVE  Owned(disk', ld_inode(disk', n)) \subseteq free_blocks'
      <4>1. Owned(disk, ld_inode(disk, n)) \cap Owned(disk, node) = {}
        BY <2>2, <3>1, <3>2 DEF Files
      <4>2. Owned(disk, ld_inode(disk, n)) \subseteq free_blocks
        BY <1>1, <2>2, <3>1, <3>2 DEF Files
      <4> QED
        BY <1>4, <2>1, <2>2, <2>3, <3>2, <4>1, <4>2
    <3> QED
      BY <2>1, <2>2, <3>1, <3>2, FilesKept DEF Files
  <2> QED
    BY <1>1, <2>1, <2>4 DEF OInv, Formatting, Rooted, OnFile, Chunked, Writing
<1> QED
  BY <1>3, <1>4 DEF Delete

-----------------------------------------------------------------------------
(* A copyin.                                                               *)

LEMMA OCopyIn ==
    ASSUME TInv, OInv, NEW n \in Inumbers, NEW x \in Words, NEW len \in Lengths, CopyIn(n, x, len)
    PROVE  OInv'
<1>1. /\ UNCHANGED <<disk, free_blocks, is_mounted, stale, skipped>> /\ pc' = "chunk"
      /\ w'.offset = 0 /\ w'.inumber = n
  BY DEF CopyIn, memory, history, Idle
<1>2. ld_inode(disk, n).size \in Nat
  BY InodeFound DEF TInv, InodeType
<1>3. Clean' => Files'
  BY <1>1, FilesSame DEF OInv, Clean
<1>4. Chunked'
  BY <1>1, <1>2 DEF Chunked
<1> QED
  BY <1>1, <1>3, <1>4 DEF OInv, Formatting, Rooted, OnFile, Writing

(* fs_write starts from the inode on the disk, and has what it owns.       *)
LEMMA OWriteStart == ASSUME TInv, OInv, WriteStart PROVE OInv'
<1> DEFINE node == ld_inode(disk, w.inumber)
<1>1. /\ UNCHANGED <<disk, free_blocks, is_mounted, stale, skipped>> /\ pc = "chunk"
      /\ is_mounted /\ w.inumber \in Inumbers /\ w \in Locals
  BY DEF WriteStart, memory, history, TInv, Progress, Copying
<1>2. Clean' => Files'
  BY <1>1, FilesSame DEF OInv, Clean
<1>3. CASE w.left = 0 \/ ~node.isvalid
  <2>1. pc' = "idle"
    BY <1>3 DEF WriteStart
  <2> QED
    BY <1>1, <1>2, <2>1 DEF OInv, Formatting, Rooted, OnFile, Chunked, Writing
<1>4. CASE ~(w.left = 0 \/ ~node.isvalid)
  <2>1. /\ pc' = "loop"
        /\ w' = [w EXCEPT !.inode = node, !.i = w.offset \div BLOCK_SIZE, !.written = 0]
    BY <1>4 DEF WriteStart
  <2>2. /\ w'.inode = node /\ w'.i = w.offset \div BLOCK_SIZE /\ w'.written = 0
        /\ w'.inumber = w.inumber /\ w'.offset = w.offset
    BY <1>1, <2>1 DEF Locals
  <2>3. w.inumber \in ValidInodes(disk)
    BY <1>1, <1>4 DEF ValidInodes
  <2>4. ASSUME Clean' PROVE Hand'
    <3>1. Files /\ Chunked
      BY <1>1, <2>4 DEF OInv, Clean
    <3>2. Held' = Owned(disk, node)
      BY <1>1, <2>1, <2>2 DEF Held, UsesIndirect
    <3>3. node.size \in Nat
      BY <1>1, InodeFound DEF TInv, InodeType
    <3>4. w'.offset <= w'.inode.size
      BY <1>1, <2>2, <3>1 DEF Chunked
    <3>5. w'.i * BLOCK_SIZE <= w'.offset + w'.written
      <4>1. w.offset \in Nat /\ BLOCK_SIZE \in Nat \ {0}
        BY <1>1, GeometryAssumption DEF Locals, BLOCK_SIZE
      <4> DEFINE q == w.offset \div BLOCK_SIZE
                 r == w.offset % BLOCK_SIZE
      <4>2. q \in Nat /\ r \in 0..(BLOCK_SIZE - 1) /\ w.offset = BLOCK_SIZE * q + r
        BY <4>1, Division
      <4>3. w'.i = q
        BY <2>2
      <4> HIDE DEF q, r
      <4>4. BLOCK_SIZE * q = q * BLOCK_SIZE /\ q * BLOCK_SIZE \in Nat
        BY <4>1, <4>2
      <4> QED
        BY <2>2, <4>1, <4>2, <4>3, <4>4
    <3>6. Covered(node) /\ Sound(disk, node)
      BY <2>3, <3>1 DEF Files
    <3>7. \A k \in Directs : w'.inode.direct[k] # 0 =>
             k * BLOCK_SIZE < w'.inode.size + w'.written
      BY <2>2, <3>3, <3>6 DEF Covered
    <3>8. /\ Held' \subseteq free_blocks
          /\ \A n \in ValidInodes(disk) \ {w.inumber} :
                Held' \cap Owned(disk, ld_inode(disk, n)) = {}
      BY <1>1, <2>3, <3>1, <3>2 DEF Files
    <3> QED
      BY <1>1, <2>1, <2>2, <3>4, <3>5, <3>6, <3>7, <3>8 DEF Hand, UsesIndirect
  <2> QED
    BY <1>1, <1>2, <1>4, <2>1, <2>2, <2>3, <2>4
    DEF OInv, Formatting, Rooted, OnFile, Chunked, Writing
<1> QED
  BY <1>3, <1>4

LEMMA OWriteEnds == ASSUME TInv, OInv, WriteEnd \/ DiskFull PROVE OInv'
<1>1. /\ UNCHANGED <<disk, free_blocks, is_mounted, w, stale, skipped>>
      /\ pc \in {"loop", "entry"} /\ pc' = "save"
  BY DEF WriteEnd, DiskFull, memory, history
<1>2. Clean' => Files'
  BY <1>1, FilesSame DEF OInv, Clean
<1>3. ASSUME Clean' PROVE Hand'
  <2>1. Hand
    BY <1>1, <1>3 DEF OInv, Clean, Writing
  <2>2. Held' \subseteq Held
    BY <1>1 DEF Held, UsesIndirect
  <2> QED
    BY <1>1, <2>1, <2>2 DEF Hand, UsesIndirect, Length
<1> QED
  BY <1>1, <1>2, <1>3 DEF OInv, Formatting, Rooted, OnFile, Chunked, Writing

(* A block that scan_bitmap finds belongs to no file, nor to this one.     *)
LEMMA BlockIsNew ==
    ASSUME TInv, Files, Hand, is_mounted, NEW b \in DataBlocks, b \notin free_blocks
    PROVE  /\ b # 0 /\ b # w.inode.indirect
           /\ \A n \in ValidInodes(disk) :
                 b \notin Owned(disk, ld_inode(disk, n)) /\ ld_inode(disk, n).indirect # b
<1>1. b # 0
  BY Geometry
<1>2. \A n \in ValidInodes(disk) :
         b \notin Owned(disk, ld_inode(disk, n)) /\ ld_inode(disk, n).indirect # b
  BY <1>1 DEF Files, Owned
<1>3. b # w.inode.indirect
  BY <1>1 DEF Hand, Held, Owned
<1> QED
  BY <1>1, <1>2, <1>3

(* What the file being written holds grows by that block only.             *)
LEMMA HandTakes ==
    ASSUME TInv, Files, Hand, is_mounted, NEW b \in DataBlocks, b \notin free_blocks,
           free_blocks' = free_blocks \cup {b}, w'.inumber = w.inumber,
           ValidInodes(disk') = ValidInodes(disk),
           \A n \in ValidInodes(disk) :
              Owned(disk', ld_inode(disk', n)) = Owned(disk, ld_inode(disk, n)),
           Held' \subseteq Held \cup {b}
    PROVE  /\ Held' \subseteq free_blocks'
           /\ \A n \in ValidInodes(disk') \ {w'.inumber} :
                 Held' \cap Owned(disk', ld_inode(disk', n)) = {}
<1>1. \A n \in ValidInodes(disk) : b \notin Owned(disk, ld_inode(disk, n))
  BY BlockIsNew
<1> QED
  BY <1>1 DEF Hand

LEMMA OAllocDirect == ASSUME TInv, OInv, AllocDirect PROVE OInv'
<1> DEFINE b == Min(Unmarked)
           node == [w.inode EXCEPT !.direct[w.i] = b]
<1>1. b \in DataBlocks /\ b \notin free_blocks
  BY BlockFound DEF AllocDirect
<1>2. /\ w \in Locals /\ w.i < POINTERS_PER_INODE /\ w.i \in Directs
      /\ pc = "loop" /\ pc' = "data" /\ is_mounted
      /\ UNCHANGED <<disk, is_mounted, stale, skipped>>
      /\ free_blocks' = free_blocks \cup {b}
      /\ w.written < Length
  BY GeometryAssumption
  DEF TInv, AllocDirect, Looping, Locals, Directs, history, Progress, Copying
<1>3. w' = [w EXCEPT !.inode = node, !.block = b]
  BY <1>2 DEF AllocDirect, Locals
<1> HIDE DEF b
<1>4. /\ node.indirect = w.inode.indirect /\ node.size = w.inode.size
      /\ node.isvalid = w.inode.isvalid
      /\ \A k \in Directs : node.direct[k] = IF k = w.i THEN b ELSE w.inode.direct[k]
  BY <1>2 DEF Locals, InodeType
<1> HIDE DEF node
<1>5. /\ w'.inode = node /\ w'.block = b /\ w'.i = w.i /\ w'.written = w.written
      /\ w'.inumber = w.inumber /\ w'.offset = w.offset /\ w'.left = w.left
  BY <1>2, <1>3 DEF Locals
<1>6. Clean' => Files'
  BY <1>2, FilesSame DEF OInv, Clean
<1>7. ASSUME Clean' PROVE Hand'
  <2>1. Files /\ Hand
    BY <1>2, <1>7 DEF OInv, Clean, Writing
  <2>2. ~UsesIndirect'
    BY <1>2, <1>5, GeometryAssumption DEF UsesIndirect, Directs
  <2>3. DirectBlocks(node) \subseteq DirectBlocks(w.inode) \cup {b}
    BY <1>4 DEF DirectBlocks
  <2>4. Owned(disk, node) \subseteq Owned(disk, w.inode) \cup {b}
    BY <1>4, <2>3 DEF Owned, IndirectBlocks
  <2>5. Held' \subseteq Held \cup {b}
    BY <1>2, <1>5, <2>2, <2>4 DEF Held
  <2>6. /\ b # w.inode.indirect
        /\ \A n \in ValidInodes(disk) : b \notin Owned(disk, ld_inode(disk, n))
    BY <1>1, <1>2, <2>1, BlockIsNew
  <2>7. /\ Held' \subseteq free_blocks'
        /\ \A n \in ValidInodes(disk') \ {w'.inumber} :
              Held' \cap Owned(disk', ld_inode(disk', n)) = {}
    BY <1>1, <1>2, <1>5, <2>1, <2>5, HandTakes
  <2>8. Sound(disk, node)
    BY <1>4, <2>1 DEF Hand, Sound
  <2>9. \A k \in Directs : w'.inode.direct[k] # 0 =>
          \/ k * BLOCK_SIZE < w'.inode.size + w'.written
          \/ pc' = "data" /\ k = w'.i
    BY <1>2, <1>4, <1>5, <2>1 DEF Hand
  <2>10. Length' = Length
    BY <1>5 DEF Length
  <2> QED
    BY <1>2, <1>4, <1>5, <2>1, <2>2, <2>6, <2>7, <2>8, <2>9, <2>10 DEF Hand
<1> QED
  BY <1>2, <1>4, <1>5, <1>6, <1>7 DEF OInv, Formatting, Rooted, OnFile, Chunked, Writing

LEMMA OAllocIndirect == ASSUME TInv, OInv, AllocIndirect PROVE OInv'
<1> DEFINE b == Min(Unmarked)
           node == [w.inode EXCEPT !.indirect = b]
<1>1. b \in DataBlocks /\ b \notin free_blocks /\ b # 0
  BY BlockFound, Geometry DEF AllocIndirect
<1>2. /\ w \in Locals /\ w.inode.indirect = 0
      /\ pc = "loop" /\ pc' = "entry" /\ is_mounted
      /\ disk' = disk_write(disk, b, Zeros)
      /\ UNCHANGED <<is_mounted, stale, skipped>>
      /\ free_blocks' = free_blocks \cup {b}
  BY DEF TInv, AllocIndirect, history, Progress, Copying, disk_write
<1>3. w' = [w EXCEPT !.inode = node, !.indirect = Zeros]
  BY <1>2 DEF AllocIndirect, Locals
<1> HIDE DEF b
<1>4. /\ node.indirect = b /\ node.size = w.inode.size
      /\ node.isvalid = w.inode.isvalid /\ node.direct = w.inode.direct
  BY <1>2 DEF Locals, InodeType
<1> HIDE DEF node
<1>5. /\ w'.inode = node /\ w'.indirect = Zeros /\ w'.i = w.i /\ w'.written = w.written
      /\ w'.inumber = w.inumber /\ w'.offset = w.offset /\ w'.left = w.left
  BY <1>2, <1>3 DEF Locals
<1>6. /\ ValidInodes(disk') = ValidInodes(disk)
      /\ disk'[0] = disk[0]
      /\ disk'[b] = Zeros
      /\ \A n \in Inumbers :
            /\ ld_inode(disk', n) = ld_inode(disk, n)
            /\ ld_inode(disk, n).indirect # b =>
                  /\ Owned(disk', ld_inode(disk', n)) = Owned(disk, ld_inode(disk, n))
                  /\ Sound(disk', ld_inode(disk', n)) <=> Sound(disk, ld_inode(disk, n))
  BY <1>1, <1>2, EmptyBlocks, DataStep
<1>7. ASSUME Clean' PROVE Files' /\ Hand'
  <2>1. Files /\ Hand
    BY <1>2, <1>7 DEF OInv, Clean, Writing
  <2>2. \A n \in ValidInodes(disk) : ld_inode(disk, n).indirect # b
    BY <1>1, <1>2, <2>1, BlockIsNew
  <2>3. \A n \in ValidInodes(disk) : n \in Inumbers
    BY DEF ValidInodes
  <2>4. \A n \in ValidInodes(disk) :
           /\ Owned(disk', ld_inode(disk', n)) = Owned(disk, ld_inode(disk, n))
           /\ Sound(disk', ld_inode(disk', n)) <=> Sound(disk, ld_inode(disk, n))
    BY <1>6, <2>2, <2>3
  <2>5. Files'
    BY <1>2, <1>6, <2>1, <2>3, <2>4, FilesKept DEF Files
  <2>6. Owned(disk', node) \subseteq Owned(disk, w.inode) \cup {b}
    BY <1>4, <1>6 DEF Owned, DirectBlocks, IndirectBlocks, Zeros
  <2>7. Held' \subseteq Held \cup {b}
    BY <1>2, <1>5, <2>6 DEF Held, Zeros
  <2>8. /\ Held' \subseteq free_blocks'
        /\ \A n \in ValidInodes(disk') \ {w'.inumber} :
              Held' \cap Owned(disk', ld_inode(disk', n)) = {}
    BY <1>1, <1>2, <1>5, <1>6, <2>1, <2>4, <2>7, HandTakes
  <2>9. Zeros \in PointerTables
    BY DEF Zeros, PointerTables, Pointers
  <2>10. Sound(disk', node)
    BY <1>4, <1>6, <2>9 DEF Sound
  <2>11. Length' = Length
    BY <1>5 DEF Length
  <2>12. Hand'
    BY <1>2, <1>4, <1>5, <2>1, <2>8, <2>9, <2>10, <2>11 DEF Hand
  <2> QED
    BY <2>5, <2>12
<1> QED
  BY <1>2, <1>4, <1>5, <1>6, <1>7 DEF OInv, Formatting, Rooted, OnFile, Chunked, Writing

LEMMA OReadIndirect == ASSUME TInv, OInv, ReadIndirect PROVE OInv'
<1>1. /\ w \in Locals /\ w.inode.indirect # 0
      /\ pc = "loop" /\ pc' = "entry"
      /\ UNCHANGED <<disk, free_blocks, is_mounted, stale, skipped>>
      /\ w' = [w EXCEPT !.indirect = disk[w.inode.indirect]]
  BY DEF TInv, ReadIndirect, history, memory
<1>2. /\ w'.inode = w.inode /\ w'.indirect = disk[w.inode.indirect] /\ w'.i = w.i
      /\ w'.written = w.written
      /\ w'.inumber = w.inumber /\ w'.offset = w.offset /\ w'.left = w.left
  BY <1>1 DEF Locals
<1>3. Clean' => Files'
  BY <1>1, FilesSame DEF OInv, Clean
<1>4. ASSUME Clean' PROVE Hand'
  <2>1. Hand
    BY <1>1, <1>4 DEF OInv, Clean, Writing
  <2>2. Held' \subseteq Held
    BY <1>1, <1>2 DEF Held, Owned, IndirectBlocks
  <2>3. disk[w.inode.indirect] \in PointerTables
    BY <1>1, <2>1 DEF Hand, Sound
  <2>4. Length' = Length
    BY <1>2 DEF Length
  <2> QED
    BY <1>1, <1>2, <2>1, <2>2, <2>3, <2>4 DEF Hand
<1> QED
  BY <1>1, <1>2, <1>3, <1>4 DEF OInv, Formatting, Rooted, OnFile, Chunked, Writing

LEMMA OAllocEntry == ASSUME TInv, OInv, AllocEntry PROVE OInv'
<1> DEFINE b == Min(Unmarked)
           table == [w.indirect EXCEPT ![w.i - POINTERS_PER_INODE] = b]
<1>1. b \in DataBlocks /\ b \notin free_blocks
  BY BlockFound DEF AllocEntry
<1>2. /\ w \in Locals /\ w.i - POINTERS_PER_INODE \in Entries /\ w.i >= POINTERS_PER_INODE
      /\ pc = "entry" /\ pc' = "data" /\ is_mounted
      /\ UNCHANGED <<disk, is_mounted, stale, skipped>>
      /\ free_blocks' = free_blocks \cup {b}
      /\ w' = [w EXCEPT !.indirect = table, !.block = b]
  BY GeometryAssumption
  DEF TInv, AllocEntry, Locals, Entries, NPointers, history, Progress, Copying
<1> HIDE DEF b
<1>3. \A m \in Entries : table[m] = IF m = w.i - POINTERS_PER_INODE THEN b ELSE w.indirect[m]
  BY <1>2 DEF Locals, Contents
<1>4. w.indirect \in PointerTables => table \in PointerTables
  BY <1>1, <1>2 DEF PointerTables, Pointers
<1> HIDE DEF table
<1>5. /\ w'.inode = w.inode /\ w'.block = b /\ w'.i = w.i /\ w'.written = w.written
      /\ w'.inumber = w.inumber /\ w'.offset = w.offset /\ w'.left = w.left
      /\ w'.indirect = table
  BY <1>2 DEF Locals
<1>6. Clean' => Files'
  BY <1>2, FilesSame DEF OInv, Clean
<1>7. ASSUME Clean' PROVE Hand'
  <2>1. Files /\ Hand
    BY <1>2, <1>7 DEF OInv, Clean, Writing
  <2>2. UsesIndirect /\ UsesIndirect'
    BY <1>2, <1>5 DEF UsesIndirect
  <2>3. {table[m] : m \in Entries} \subseteq {w.indirect[m] : m \in Entries} \cup {b}
    BY <1>3
  <2>4. Held' \subseteq Held \cup {b}
    BY <1>2, <1>5, <2>2, <2>3 DEF Held
  <2>5. /\ b # w.inode.indirect
        /\ \A n \in ValidInodes(disk) : b \notin Owned(disk, ld_inode(disk, n))
    BY <1>1, <1>2, <2>1, BlockIsNew
  <2>6. /\ Held' \subseteq free_blocks'
        /\ \A n \in ValidInodes(disk') \ {w'.inumber} :
              Held' \cap Owned(disk', ld_inode(disk', n)) = {}
    BY <1>1, <1>2, <1>5, <2>1, <2>4, HandTakes
  <2>7. Length' = Length
    BY <1>5 DEF Length
  <2> QED
    BY <1>2, <1>4, <1>5, <2>1, <2>2, <2>5, <2>6, <2>7 DEF Hand
<1> QED
  BY <1>2, <1>5, <1>6, <1>7 DEF OInv, Formatting, Rooted, OnFile, Chunked, Writing

(* The arithmetic of the loop in fs_write: when a block is done, either    *)
(* the next one begins where the text goes on, or there is no more text.   *)
LEMMA NextBegins ==
    ASSUME w \in Locals, w.written < Length, w.i * BLOCK_SIZE <= w.offset + w.written
    PROVE  /\ w.i * BLOCK_SIZE < w.offset + w.written + numToCopy
           /\ \/ (w.i + 1) * BLOCK_SIZE <= w.offset + w.written + numToCopy
              \/ w.written + numToCopy = Length
<1>1. /\ BLOCK_SIZE \in Nat \ {0} /\ Length \in Nat /\ w.written \in Nat /\ w.offset \in Nat
      /\ w.i \in Nat /\ numToCopy \in Nat \ {0} /\ newOffset \in Nat
      /\ numToCopy \in {BLOCK_SIZE - newOffset, Length - w.written}
  BY GeometryAssumption, Lengthy, Amount DEF BLOCK_SIZE, Locals, Entries
<1>2. w.i * BLOCK_SIZE \in Nat /\ (w.i + 1) * BLOCK_SIZE = w.i * BLOCK_SIZE + BLOCK_SIZE
  BY <1>1
<1>3. ASSUME numToCopy = BLOCK_SIZE - newOffset
      PROVE  w.i * BLOCK_SIZE + newOffset <= w.offset + w.written
  <2>1. CASE w.written = 0
    <3> DEFINE q == w.offset \div BLOCK_SIZE
    <3>1. q \in Nat /\ w.offset % BLOCK_SIZE \in 0..(BLOCK_SIZE - 1)
          /\ w.offset = BLOCK_SIZE * q + (w.offset % BLOCK_SIZE)
      BY <1>1, Division
    <3>2. w.i <= q
      <4>1. w.offset < (q + 1) * BLOCK_SIZE
        BY <1>1, <3>1, QuotientBound
      <4>2. CASE q + 1 <= w.i
        <5> HIDE DEF q
        <5>1. BLOCK_SIZE * (q + 1) <= BLOCK_SIZE * w.i
          BY <1>1, <3>1, <4>2, ProductGrows
        <5>2. BLOCK_SIZE * (q + 1) = (q + 1) * BLOCK_SIZE /\ BLOCK_SIZE * w.i = w.i * BLOCK_SIZE
          BY <1>1, <3>1
        <5>3. (q + 1) * BLOCK_SIZE \in Nat
          BY <1>1, <3>1
        <5> QED
          BY <1>1, <1>2, <2>1, <4>1, <5>1, <5>2, <5>3
      <4> QED
        BY <1>1, <3>1, <4>2
    <3>3. BLOCK_SIZE * w.i <= BLOCK_SIZE * q
      BY <1>1, <3>1, <3>2, ProductGrows
    <3>4. BLOCK_SIZE * w.i = w.i * BLOCK_SIZE /\ BLOCK_SIZE * q \in Nat
      BY <1>1, <3>1
    <3>5. newOffset = w.offset % BLOCK_SIZE
      BY <2>1 DEF newOffset
    <3> HIDE DEF q
    <3> QED
      BY <1>1, <1>2, <2>1, <3>1, <3>3, <3>4, <3>5
  <2>2. CASE w.written # 0
    BY <1>1, <1>2, <2>2 DEF newOffset
  <2> QED
    BY <2>1, <2>2
<1> QED
  BY <1>1, <1>2, <1>3

(* After NextBlock the file being written holds what it held, and the      *)
(* block that was filled lies within what is written.                      *)
LEMMA HandAdvances ==
    ASSUME TInv, Hand, pc \in {"data", "indirect"}, w.written < Length, NextBlock,
           UNCHANGED free_blocks,
           ValidInodes(disk') = ValidInodes(disk),
           \A n \in ValidInodes(disk) \ {w.inumber} :
              Owned(disk', ld_inode(disk', n)) = Owned(disk, ld_inode(disk, n)),
           Owned(disk', w.inode) \subseteq Held,
           Sound(disk', w.inode)
    PROVE  Hand'
<1>1. w \in Locals
  BY DEF TInv
<1>2. /\ w' \in Locals /\ w'.written = w.written + numToCopy /\ w'.i = w.i + 1
      /\ w'.inumber = w.inumber /\ w'.offset = w.offset
      /\ w'.inode = w.inode /\ Length' = Length /\ pc' = "loop"
  BY <1>1, Advanced
<1>3. Held' \subseteq Held
  BY <1>2 DEF Held, UsesIndirect
<1>4. /\ w.written \in Nat /\ w.offset \in Nat /\ w.inode.size \in Nat /\ w.i \in Nat
      /\ numToCopy \in Nat \ {0} /\ BLOCK_SIZE \in Nat /\ Length \in Nat
      /\ w.written + numToCopy \in Nat
  BY <1>1, Amount, Lengthy, GeometryAssumption DEF Locals, InodeType, BLOCK_SIZE
<1>5. w.i * BLOCK_SIZE <= w.offset + w.written /\ w.offset <= w.inode.size
  BY <1>4 DEF Hand
<1>6. /\ w.i * BLOCK_SIZE < w.offset + w.written + numToCopy
      /\ \/ w'.i * BLOCK_SIZE <= w'.offset + w'.written
         \/ w'.written = Length'
  BY <1>1, <1>2, <1>4, <1>5, NextBegins
<1>7. ASSUME NEW k \in Directs, w'.inode.direct[k] # 0
      PROVE  k * BLOCK_SIZE < w'.inode.size + w'.written
  <2>1. k * BLOCK_SIZE \in Nat /\ w.i * BLOCK_SIZE \in Nat
    BY <1>4, GeometryAssumption DEF Directs
  <2>2. k * BLOCK_SIZE < w.inode.size + w.written \/ k = w.i
    BY <1>2, <1>7 DEF Hand
  <2> QED
    BY <1>2, <1>4, <1>5, <1>6, <2>1, <2>2
<1>8. /\ Held' \subseteq free_blocks'
      /\ \A n \in ValidInodes(disk') \ {w'.inumber} :
            Held' \cap Owned(disk', ld_inode(disk', n)) = {}
  BY <1>2, <1>3 DEF Hand
<1> QED
  BY <1>2, <1>5, <1>6, <1>7, <1>8 DEF Hand, UsesIndirect

(* The data goes to a block that is nobody's, on the disk.                 *)
LEMMA OWriteData == ASSUME TInv, OInv, WriteData PROVE OInv'
<1>1. /\ pc = "data" /\ w \in Locals /\ w.written < Length /\ is_mounted
      /\ w.block \in DataBlocks /\ w.inode \in InodeType
      /\ UNCHANGED <<free_blocks, is_mounted, stale, skipped>>
      /\ disk' = disk_write(disk, w.block, Filled(disk[w.block]))
  BY DEF TInv, Progress, Copying, WriteData, memory, history, disk_write, Locals
<1>2. Filled(disk[w.block]) \in Contents
  BY <1>1, FilledBlock
<1>3. /\ ValidInodes(disk') = ValidInodes(disk)
      /\ disk'[0] = disk[0]
      /\ \A n \in Inumbers :
            /\ ld_inode(disk', n) = ld_inode(disk, n)
            /\ ld_inode(disk, n).indirect # w.block =>
                  /\ Owned(disk', ld_inode(disk', n)) = Owned(disk, ld_inode(disk, n))
                  /\ Sound(disk', ld_inode(disk', n)) <=> Sound(disk, ld_inode(disk, n))
      /\ \A node \in InodeType : node.indirect # w.block =>
            /\ Owned(disk', node) = Owned(disk, node)
            /\ Sound(disk', node) <=> Sound(disk, node)
  BY <1>1, <1>2, DataStep
<1>4. \/ w.i < POINTERS_PER_INODE /\ NextBlock
      \/ ~(w.i < POINTERS_PER_INODE) /\ pc' = "indirect" /\ w' = w
  BY DEF WriteData
<1>5. pc' \in {"loop", "indirect"} /\ w'.inumber = w.inumber /\ w'.inode = w.inode
  BY <1>1, <1>4, Advanced
<1>6. ASSUME Clean' PROVE Files' /\ Hand'
  <2>1. Files /\ Hand
    BY <1>1, <1>6 DEF OInv, Clean, Writing
  <2>2. \A n \in ValidInodes(disk) : n \in Inumbers /\ ld_inode(disk, n).indirect # w.block
    BY <1>1, <2>1, Geometry DEF Hand, Owned, ValidInodes
  <2>3. \A n \in ValidInodes(disk) :
           /\ Owned(disk', ld_inode(disk', n)) = Owned(disk, ld_inode(disk, n))
           /\ Sound(disk', ld_inode(disk', n)) <=> Sound(disk, ld_inode(disk, n))
    BY <1>3, <2>2
  <2>4. Files'
    BY <1>1, <1>3, <2>1, <2>2, <2>3, FilesKept DEF Files
  <2>5. Owned(disk', w.inode) = Owned(disk, w.inode) /\ Sound(disk', w.inode)
    BY <1>1, <1>3, <2>1 DEF Hand
  <2>6. CASE NextBlock
    <3>1. Owned(disk', w.inode) \subseteq Held
      BY <2>5 DEF Held
    <3> QED
      BY <1>1, <1>3, <2>1, <2>3, <2>4, <2>5, <2>6, <3>1, HandAdvances
  <2>7. CASE ~(w.i < POINTERS_PER_INODE) /\ pc' = "indirect" /\ w' = w
    <3>1. UsesIndirect /\ UsesIndirect'
      BY <1>1, <2>7, GeometryAssumption DEF UsesIndirect, Locals
    <3>2. Held' \subseteq Held
      BY <1>1, <2>5, <2>7, <3>1 DEF Held
    <3>3. w.i * BLOCK_SIZE <= w.offset + w.written \/ w.written = Length
      BY <2>1 DEF Hand
    <3>4. Length' = Length
      BY <2>7 DEF Length
    <3>5. ASSUME NEW k \in Directs, w.inode.direct[k] # 0
          PROVE  k * BLOCK_SIZE < w.inode.size + w.written
      <4>1. k # w.i
        BY <1>1, <2>7, GeometryAssumption DEF Directs, Locals
      <4> QED
        BY <2>1, <3>5, <4>1 DEF Hand
    <3> QED
      BY <1>1, <1>3, <2>1, <2>3, <2>4, <2>5, <2>7, <3>1, <3>2, <3>4, <3>5 DEF Hand
  <2> QED
    BY <1>4, <2>6, <2>7
<1> QED
  BY <1>1, <1>3, <1>5, <1>6 DEF OInv, Formatting, Rooted, OnFile, Chunked, Writing

(* The table goes where the file's own indirect pointer leads.             *)
LEMMA OWriteIndirect == ASSUME TInv, OInv, WriteIndirect PROVE OInv'
<1> DEFINE x == w.inode.indirect
<1>1. /\ pc = "indirect" /\ w \in Locals /\ w.written < Length /\ is_mounted
      /\ x \in DataBlocks /\ x # 0 /\ w.inode \in InodeType /\ w.indirect \in Contents
      /\ UNCHANGED <<free_blocks, is_mounted, stale, skipped>>
      /\ disk' = disk_write(disk, x, w.indirect) /\ NextBlock
  BY Geometry
  DEF TInv, Progress, Copying, WriteIndirect, memory, history, disk_write, Locals
<1>2. /\ ValidInodes(disk') = ValidInodes(disk)
      /\ disk'[0] = disk[0] /\ disk'[x] = w.indirect
      /\ \A n \in Inumbers :
            /\ ld_inode(disk', n) = ld_inode(disk, n)
            /\ ld_inode(disk, n).indirect # x =>
                  /\ Owned(disk', ld_inode(disk', n)) = Owned(disk, ld_inode(disk, n))
                  /\ Sound(disk', ld_inode(disk', n)) <=> Sound(disk, ld_inode(disk, n))
  BY <1>1, DataStep
<1>3. pc' = "loop" /\ w'.inumber = w.inumber /\ w'.inode = w.inode
  BY <1>1, Advanced
<1>4. ASSUME Clean' PROVE Files' /\ Hand'
  <2>1. Files /\ Hand
    BY <1>1, <1>4 DEF OInv, Clean, Writing
  <2>2. x \in Held /\ Owned(disk', w.inode) \subseteq Held /\ UsesIndirect
    BY <1>1, <1>2 DEF Held, UsesIndirect, Owned, IndirectBlocks
  <2>3. w.indirect \in PointerTables
    BY <2>1, <2>2 DEF Hand
  <2>4. \A n \in ValidInodes(disk) \ {w.inumber} :
           n \in Inumbers /\ ld_inode(disk, n).indirect # x
    BY <1>1, <2>1, <2>2 DEF Hand, Owned, ValidInodes
  <2>5. \A n \in ValidInodes(disk) \ {w.inumber} :
           /\ ld_inode(disk', n) = ld_inode(disk, n)
           /\ Owned(disk', ld_inode(disk', n)) = Owned(disk, ld_inode(disk, n))
           /\ Sound(disk', ld_inode(disk', n)) <=> Sound(disk, ld_inode(disk, n))
    BY <1>2, <2>4
  <2>6. Sound(disk', w.inode)
    BY <1>2, <2>3 DEF Sound
  <2>7. Hand'
    BY <1>1, <1>2, <2>1, <2>2, <2>5, <2>6, HandAdvances
  <2> DEFINE f == w.inumber
             given == Owned(disk, ld_inode(disk, f)) \cup ({w.indirect[m] : m \in Entries} \ {0})
  <2>8. f \in ValidInodes(disk) /\ f \in Inumbers
    BY <1>1 DEF OInv, OnFile, Writing, ValidInodes
  <2>9. /\ ld_inode(disk', f) = ld_inode(disk, f)
        /\ Owned(disk', ld_inode(disk', f)) \subseteq given
        /\ Sound(disk', ld_inode(disk', f))
    <3>1. CASE ld_inode(disk, f).indirect = x
      BY <1>1, <1>2, <2>3, <2>8, <3>1 DEF Owned, IndirectBlocks, Sound
    <3>2. CASE ld_inode(disk, f).indirect # x
      BY <1>2, <2>1, <2>8, <3>2 DEF Files
    <3> QED
      BY <3>1, <3>2
  <2>10. \A n \in ValidInodes(disk) \ {f} : given \cap Owned(disk, ld_inode(disk, n)) = {}
    <3> TAKE n \in ValidInodes(disk) \ {f}
    <3>1. Owned(disk, ld_inode(disk, f)) \cap Owned(disk, ld_inode(disk, n)) = {}
      BY <2>1, <2>8 DEF Files
    <3>2. ({w.indirect[m] : m \in Entries} \ {0}) \cap Owned(disk, ld_inode(disk, n)) = {}
      BY <2>1, <2>2 DEF Hand, Held
    <3> QED
      BY <3>1, <3>2
  <2>11. given \subseteq free_blocks
    BY <1>1, <2>1, <2>2, <2>8 DEF Files, Hand, Held
  <2> HIDE DEF given
  <2>12. \A n \in ValidInodes(disk') :
            /\ Sound(disk', ld_inode(disk', n)) /\ Covered(ld_inode(disk', n))
            /\ Owned(disk', ld_inode(disk', n)) \subseteq free_blocks'
    BY <1>1, <1>2, <2>1, <2>5, <2>8, <2>9, <2>11 DEF Files
  <2>13. \A n \in ValidInodes(disk') \ {f} :
            /\ n \in ValidInodes(disk)
            /\ Owned(disk', ld_inode(disk', n)) \subseteq Owned(disk, ld_inode(disk, n))
            /\ given \cap Owned(disk, ld_inode(disk, n)) = {}
    BY <1>2, <2>5, <2>10
  <2> HIDE DEF f
  <2>14. Files'
    BY <2>1, <2>9, <2>12, <2>13, FilesAfter
  <2> QED
    BY <2>7, <2>14
<1>5. w.inumber \in Inumbers
  BY <1>1 DEF OInv, OnFile, Writing, ValidInodes
<1> QED
  BY <1>1, <1>2, <1>3, <1>4, <1>5 DEF OInv, Formatting, Rooted, OnFile, Chunked, Writing

(* save_inode gives the file what was in hand.                             *)
LEMMA OWriteSave == ASSUME TInv, OInv, WriteSave PROVE OInv'
<1> DEFINE node == [w.inode EXCEPT !.size = @ + w.written]
           f == w.inumber
<1>1. /\ pc = "save" /\ w \in Locals /\ is_mounted
      /\ f \in Inumbers /\ w.inode \in InodeType /\ w.inode.isvalid /\ f \in ValidInodes(disk)
      /\ w.written \in Nat /\ w.offset \in Nat /\ w.inode.size \in Nat
      /\ disk[0] = SuperBlock
      /\ UNCHANGED <<free_blocks, is_mounted, stale, skipped>>
  BY DEF TInv, Progress, Copying, Writing, WriteSave, memory, history, OInv, OnFile, Locals,
         InodeType
<1>2. /\ node \in InodeType /\ node.isvalid /\ node.direct = w.inode.direct
      /\ node.indirect = w.inode.indirect /\ node.size = w.inode.size + w.written
  BY <1>1 DEF InodeType
<1>3. disk' = save_inode(disk, f, node)
  BY DEF WriteSave
<1> HIDE DEF node
<1>4. /\ ValidInodes(disk') = ValidInodes(disk)
      /\ disk'[0] = disk[0]
      /\ ld_inode(disk', f) = node
      /\ \A n \in Inumbers \ {f} :
            /\ ld_inode(disk', n) = ld_inode(disk, n)
            /\ Owned(disk', ld_inode(disk', n)) = Owned(disk, ld_inode(disk, n))
            /\ Sound(disk', ld_inode(disk', n)) <=> Sound(disk, ld_inode(disk, n))
      /\ Owned(disk', node) = Owned(disk, node)
      /\ Sound(disk', node) <=> Sound(disk, node)
  <2>1. /\ ValidInodes(disk') \ {f} = ValidInodes(disk) \ {f}
        /\ f \in ValidInodes(disk')
    BY <1>1, <1>2, <1>3, InodeStep
  <2>2. ValidInodes(disk') = ValidInodes(disk)
    BY <1>1, <2>1
  <2> QED
    BY <1>1, <1>2, <1>3, <2>2, InodeStep
<1>5. ASSUME Clean' PROVE Files' /\ (w.offset <= w.inode.size)
  <2>1. Files /\ Hand
    BY <1>1, <1>5 DEF OInv, Clean, Writing
  <2>2. Owned(disk', node) \subseteq Held /\ Sound(disk', node)
    <3>1. Owned(disk, node) = Owned(disk, w.inode)
      BY <1>2 DEF Owned, DirectBlocks, IndirectBlocks
    <3>2. Sound(disk, node)
      BY <1>2, <2>1 DEF Hand, Sound
    <3> QED
      BY <1>4, <3>1, <3>2 DEF Held
  <2>3. Covered(node)
    BY <1>1, <1>2, <2>1 DEF Hand, Covered
  <2>4. \A n \in ValidInodes(disk) : n \in Inumbers
    BY DEF ValidInodes
  <2>5. \A n \in ValidInodes(disk') :
            /\ Sound(disk', ld_inode(disk', n)) /\ Covered(ld_inode(disk', n))
            /\ Owned(disk', ld_inode(disk', n)) \subseteq free_blocks'
    <3> TAKE n \in ValidInodes(disk')
    <3>1. CASE n = f
      BY <1>1, <1>4, <2>1, <2>2, <2>3, <3>1 DEF Hand
    <3>2. CASE n # f
      BY <1>1, <1>4, <2>1, <2>4, <3>2 DEF Files
    <3> QED
      BY <3>1, <3>2
  <2>6. \A n \in ValidInodes(disk') \ {f} :
           /\ n \in ValidInodes(disk)
           /\ Owned(disk', ld_inode(disk', n)) \subseteq Owned(disk, ld_inode(disk, n))
           /\ Held \cap Owned(disk, ld_inode(disk, n)) = {}
    BY <1>4, <2>1, <2>4 DEF Hand
  <2>7. Files'
    BY <1>4, <2>1, <2>2, <2>5, <2>6, FilesAfter
  <2> QED
    BY <2>1, <2>7 DEF Hand
<1>6. CASE w.written # Length
  <2>1. pc' = "idle"
    BY <1>6 DEF WriteSave
  <2> QED
    BY <1>1, <1>4, <1>5, <2>1 DEF OInv, Formatting, Rooted, OnFile, Chunked, Writing
<1>7. CASE w.written = Length
  <2>1. /\ pc' = "chunk"
        /\ w' = [w EXCEPT !.offset = @ + w.written, !.left = @ - w.written]
    BY <1>7 DEF WriteSave
  <2>2. w'.offset = w.offset + w.written /\ w'.inumber = f
    BY <1>1, <2>1 DEF Locals
  <2>3. Clean' => Chunked'
    BY <1>1, <1>2, <1>4, <1>5, <2>1, <2>2 DEF Chunked
  <2> QED
    BY <1>1, <1>4, <1>5, <2>1, <2>3 DEF OInv, Formatting, Rooted, OnFile, Writing
<1> QED
  BY <1>6, <1>7

-----------------------------------------------------------------------------
(* The theorems.                                                           *)

LEMMA NextOInv == ASSUME TInv, OInv, [Next]_vars PROVE OInv'
<1>1. CASE UNCHANGED vars
  BY <1>1
  DEF vars, OInv, Formatting, Rooted, OnFile, Chunked, Writing, Files, Hand, Held, UsesIndirect,
      Length, Clean
<1>2. CASE ReadOnlyCommand
  BY <1>1, <1>2 DEF ReadOnlyCommand
<1> QED
  BY <1>1, <1>2, OCrash, OFormat, OFormatBlock, OMount, OCreate, ODelete, OCopyIn,
     OWriteStart, OWriteEnds, OAllocDirect, OAllocIndirect, OReadIndirect, OAllocEntry,
     OWriteData, OWriteIndirect, OWriteSave
  DEF Next

LEMMA InvHolds == Spec => [](TInv /\ OInv)
<1>1. Init => TInv /\ OInv
  BY InitTInv, InitOInv
<1>2. TInv /\ OInv /\ [Next]_vars => TInv' /\ OInv'
  BY NextTInv, NextOInv
<1> QED
  BY <1>1, <1>2, PTL DEF Spec

(* No block belongs to two files, or to a file and to the one being        *)
(* written, through crashes between any two writes.                        *)
THEOREM Ownership == Spec => []NoSharedBlocks
<1>1. TInv /\ OInv => NoSharedBlocks
  <2> SUFFICES ASSUME TInv, OInv, Clean, NEW m \in ValidInodes(disk), NEW n \in ValidInodes(disk),
                      m # n
               PROVE  /\ Owned(disk, ld_inode(disk, m)) \cap Owned(disk, ld_inode(disk, n)) = {}
                      /\ Writing /\ w.inumber = m =>
                            DirectBlocks(w.inode) \cap Owned(disk, ld_inode(disk, n)) = {}
    BY DEF NoSharedBlocks, Writing
  <2>1. Owned(disk, ld_inode(disk, m)) \cap Owned(disk, ld_inode(disk, n)) = {}
    BY DEF OInv, Files
  <2>2. DirectBlocks(w.inode) \subseteq Held
    BY DEF Held, Owned
  <2> QED
    BY <2>1, <2>2 DEF OInv, Hand
<1> QED
  BY <1>1, InvHolds, PTL

(* The bitmap marks every block of every file, as soon as the disk is      *)
(* mounted and ever after.                                                 *)
THEOREM BitmapMarksOwned == Spec => []BitmapSound
<1>1. OInv => BitmapSound
  BY DEF OInv, Files, BitmapSound
<1> QED
  BY <1>1, InvHolds, PTL

=============================================================================
