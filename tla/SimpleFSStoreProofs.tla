------------------------- MODULE SimpleFSStoreProofs -------------------------
(***************************************************************************)
(* Proofs about SimpleFS: what its files read back, for any geometry and   *)
(* any sequence of commands and crashes.  A command changes no file but its*)
(* own, and block by block the commands are those of FileStore.            *)
(***************************************************************************)
EXTENDS SimpleFSProofs

(* The units that cat shows are within the reach of the pointers.          *)
LEMMA ReadLength ==
    ASSUME NEW node \in InodeType
    PROVE  /\ Min({node.size - 0, node.size, NPointers * BLOCK_SIZE - 0}) \in Nat
           /\ Min({node.size - 0, node.size, NPointers * BLOCK_SIZE - 0}) <= node.size
           /\ Min({node.size - 0, node.size, NPointers * BLOCK_SIZE - 0})
                 <= NPointers * BLOCK_SIZE
           /\ \/ Min({node.size - 0, node.size, NPointers * BLOCK_SIZE - 0}) = node.size
              \/ Min({node.size - 0, node.size, NPointers * BLOCK_SIZE - 0})
                    = NPointers * BLOCK_SIZE
<1>1. node.size \in Nat /\ NPointers * BLOCK_SIZE \in Nat
  BY GeometryAssumption DEF InodeType, NPointers, BLOCK_SIZE
<1> DEFINE S == {node.size - 0, node.size, NPointers * BLOCK_SIZE - 0}
<1>2. S \in SUBSET Nat /\ S # {} /\ S = {node.size, NPointers * BLOCK_SIZE}
  BY <1>1
<1>3. Min(S) \in S /\ \A y \in S : Min(S) <= y
  <2> HIDE DEF S
  <2> QED
    BY <1>2, LeastExists
<1> QED
  BY <1>1, <1>2, <1>3

(* A unit within the reach of the pointers is in a block of theirs.        *)
LEMMA UnitBlock ==
    ASSUME NEW u \in Nat, u < NPointers * BLOCK_SIZE
    PROVE  /\ u \div BLOCK_SIZE \in Nat /\ u \div BLOCK_SIZE < NPointers
           /\ u % BLOCK_SIZE \in Entries
           /\ u \div BLOCK_SIZE < POINTERS_PER_INODE => u \div BLOCK_SIZE \in Directs
           /\ ~(u \div BLOCK_SIZE < POINTERS_PER_INODE) =>
                 u \div BLOCK_SIZE - POINTERS_PER_INODE \in Entries
<1>1. /\ BLOCK_SIZE \in Nat \ {0} /\ POINTERS_PER_INODE \in Nat /\ POINTERS_PER_BLOCK \in Nat
      /\ NPointers = POINTERS_PER_BLOCK + POINTERS_PER_INODE
      /\ BLOCK_SIZE = POINTERS_PER_BLOCK
  BY GeometryAssumption DEF NPointers, BLOCK_SIZE
<1>2. NPointers \in Nat
  BY <1>1
<1>3. u \div BLOCK_SIZE \in Nat /\ u \div BLOCK_SIZE < NPointers
      /\ u % BLOCK_SIZE \in 0..(BLOCK_SIZE - 1)
  BY <1>1, <1>2, Division, QuotientBound
<1> QED
  BY <1>1, <1>3 DEF Directs, Entries

(* What a file reads back depends on its inode, on the blocks it owns and, *)
(* where a pointer is 0, on the superblock.                                *)
LEMMA ContentSame ==
    ASSUME NEW d, NEW dd, NEW node \in InodeType,
           dd[0] = d[0], \A b \in Owned(d, node) : dd[b] = d[b]
    PROVE  Content(dd, node) = Content(d, node)
<1> DEFINE len == Min({node.size - 0, node.size, NPointers * BLOCK_SIZE - 0})
<1>1. len \in Nat /\ len <= NPointers * BLOCK_SIZE /\ NPointers * BLOCK_SIZE \in Nat
  BY ReadLength, GeometryAssumption DEF NPointers, BLOCK_SIZE
<1>2. ASSUME NEW k \in Nat, k < POINTERS_PER_INODE => k \in Directs,
             ~(k < POINTERS_PER_INODE) => k - POINTERS_PER_INODE \in Entries
      PROVE  ReadBlock(dd, node, k) = ReadBlock(d, node, k)
  <2>1. CASE k < POINTERS_PER_INODE
    <3>1. node.direct[k] = 0 \/ node.direct[k] \in Owned(d, node)
      BY <1>2, <2>1 DEF Owned, DirectBlocks
    <3> QED
      BY <2>1, <3>1 DEF ReadBlock
  <2>2. CASE ~(k < POINTERS_PER_INODE) /\ node.indirect = 0
    BY <2>2, Geometry DEF ReadBlock
  <2>3. CASE ~(k < POINTERS_PER_INODE) /\ node.indirect # 0
    <3> DEFINE b == d[node.indirect][k - POINTERS_PER_INODE]
    <3>1. node.indirect \in Owned(d, node)
      BY <2>3 DEF Owned
    <3>2. b = dd[node.indirect][k - POINTERS_PER_INODE]
      BY <3>1
    <3>3. b \in DataBlocks => b \in Owned(d, node)
      BY <1>2, <2>3, Geometry DEF Owned, IndirectBlocks
    <3> QED
      BY <2>3, <3>2, <3>3 DEF ReadBlock
  <2> QED
    BY <2>1, <2>2, <2>3
<1>3. ASSUME NEW q \in 1..len
      PROVE  ReadBlock(dd, node, (0 + q - 1) \div BLOCK_SIZE)[(0 + q - 1) % BLOCK_SIZE]
               = ReadBlock(d, node, (0 + q - 1) \div BLOCK_SIZE)[(0 + q - 1) % BLOCK_SIZE]
  <2> DEFINE u == 0 + q - 1
  <2>1. u \in Nat /\ u < NPointers * BLOCK_SIZE
    <3> HIDE DEF len
    <3> QED
      BY <1>1
  <2> HIDE DEF u
  <2>2. ReadBlock(dd, node, u \div BLOCK_SIZE) = ReadBlock(d, node, u \div BLOCK_SIZE)
    BY <1>2, <2>1, UnitBlock
  <2> QED
    BY <2>2 DEF u
<1> QED
  BY <1>3 DEF Content, fs_read

(* Data is written to a block that the file does not own.                  *)
LEMMA DataElsewhere ==
    ASSUME TInv, NEW b \in DataBlocks, NEW c \in Contents, disk' = disk_write(disk, b, c),
           NEW n \in Inumbers, b \notin Owned(disk, ld_inode(disk, n)),
           Owned(disk, ld_inode(disk, n)) \subseteq 0..(NBlocks - 1)
    PROVE  Content(disk', ld_inode(disk', n)) = Content(disk, ld_inode(disk, n))
<1>1. /\ disk'[0] = disk[0] /\ ld_inode(disk', n) = ld_inode(disk, n)
      /\ \A x \in 0..(NBlocks - 1) : x # b => disk'[x] = disk[x]
  BY DataWritten DEF TInv
<1>2. ld_inode(disk, n) \in InodeType
  BY InodeFound DEF TInv
<1>3. \A x \in Owned(disk, ld_inode(disk, n)) : disk'[x] = disk[x]
  BY <1>1
<1> QED
  BY <1>1, <1>2, <1>3, ContentSame

LEMMA OwnedWhere ==
    ASSUME NEW d, NEW node \in InodeType, Sound(d, node)
    PROVE  Owned(d, node) \subseteq DataBlocks
<1>1. DirectBlocks(node) \subseteq DataBlocks /\ ({node.indirect} \ {0}) \subseteq DataBlocks
  BY DEF InodeType, Pointers, DirectBlocks
<1>2. IndirectBlocks(d, node) \subseteq DataBlocks
  BY DEF IndirectBlocks, Sound, PointerTables, Pointers
<1> QED
  BY <1>1, <1>2 DEF Owned

(* An inode is written that is not the file's.                             *)
LEMMA InodeElsewhere ==
    ASSUME TInv, NEW f \in Inumbers, NEW node \in InodeType, disk' = save_inode(disk, f, node),
           NEW n \in Inumbers, n # f, Sound(disk, ld_inode(disk, n))
    PROVE  Content(disk', ld_inode(disk', n)) = Content(disk, ld_inode(disk, n))
<1>1. /\ \A x \in {0} \cup DataBlocks : disk'[x] = disk[x]
      /\ ld_inode(disk', n) = ld_inode(disk, n)
  BY InodeWritten DEF TInv
<1>2. ld_inode(disk, n) \in InodeType
  BY InodeFound DEF TInv
<1>3. \A x \in Owned(disk, ld_inode(disk, n)) : disk'[x] = disk[x]
  BY <1>1, <1>2, OwnedWhere
<1> QED
  BY <1>1, <1>2, <1>3, ContentSame

-----------------------------------------------------------------------------
(* One step and a file that is not the one being copied in.                *)

Apart(n) == pc \in {"idle", "dead", "format"} \/ n # w.inumber

LEMMA FormatKeeps ==
    ASSUME TInv, OInv, Format, NEW n \in ValidInodes(disk)
    PROVE  Content(disk', ld_inode(disk', n)) = Content(disk, ld_inode(disk, n))
<1>1. disk[0] = SuperBlock
  BY DEF OInv, Rooted
<1>2. disk' = disk
  <2>1. disk' = [x \in 0..(NBlocks - 1) |-> IF x = 0 THEN SuperBlock ELSE disk[x]]
    BY DEF Format, TInv, Formed
  <2>2. disk' = [x \in 0..(NBlocks - 1) |-> disk[x]]
    BY <1>1, <2>1
  <2> QED
    BY <2>2 DEF TInv, Formed
<1> QED
  BY <1>2

LEMMA FormatBlockKeeps ==
    ASSUME TInv, OInv, FormatBlock, Clean', NEW n \in ValidInodes(disk) \cap ValidInodes(disk')
    PROVE  Content(disk', ld_inode(disk', n)) = Content(disk, ld_inode(disk, n))
<1>1. CASE w.i < NBlocks
  <2>1. /\ ld_inode(disk', n) = ld_inode(disk, n) /\ n \in Inumbers
        /\ \A x \in {0} \cup DataBlocks : disk'[x] = disk[x]
    BY <1>1, FormatStep DEF ValidInodes
  <2>2. Sound(disk, ld_inode(disk, n))
    BY <1>1 DEF FormatBlock, history, OInv, Clean, Files
  <2>3. ld_inode(disk, n) \in InodeType
    BY <2>1, InodeFound DEF TInv
  <2>4. \A x \in Owned(disk, ld_inode(disk, n)) : disk'[x] = disk[x]
    BY <2>1, <2>2, <2>3, OwnedWhere
  <2> QED
    BY <2>1, <2>3, <2>4, ContentSame
<1>2. CASE ~(w.i < NBlocks)
  BY <1>2 DEF FormatBlock
<1> QED
  BY <1>1, <1>2

LEMMA CreateKeeps ==
    ASSUME TInv, OInv, Create, Clean', NEW n \in ValidInodes(disk)
    PROVE  Content(disk', ld_inode(disk', n)) = Content(disk, ld_inode(disk, n))
<1> DEFINE f == Min(Creatable(disk))
           node == [ld_inode(disk, f) EXCEPT !.isvalid = TRUE, !.size = 0]
<1>1. Creatable(disk) \in SUBSET Nat
  BY Places DEF Creatable
<1>2. f \in Creatable(disk)
  BY <1>1, LeastExists DEF Create
<1>3. f \in Inumbers /\ n \in Inumbers /\ f # n
  BY <1>2 DEF Creatable, ValidInodes
<1>4. node \in InodeType
  BY <1>3, InodeFound DEF TInv, InodeType
<1>5. disk' = save_inode(disk, f, node) /\ Clean
  BY DEF Create, Clean
<1>6. Sound(disk, ld_inode(disk, n))
  BY <1>5 DEF OInv, Files
<1> HIDE DEF f, node
<1> QED
  BY <1>3, <1>4, <1>5, <1>6, InodeElsewhere

LEMMA DeleteKeeps ==
    ASSUME TInv, OInv, NEW f \in Inumbers, Delete(f), Clean',
           NEW n \in ValidInodes(disk) \cap ValidInodes(disk')
    PROVE  Content(disk', ld_inode(disk', n)) = Content(disk, ld_inode(disk, n))
<1> DEFINE node == ld_inode(disk, f)
           gone == [node EXCEPT !.isvalid = FALSE, !.size = 0]
<1>1. gone \in InodeType /\ ~gone.isvalid
  BY InodeFound DEF TInv, InodeType
<1>2. Clean /\ (disk' = disk \/ disk' = save_inode(disk, f, gone))
  BY DEF Delete, history, Clean
<1> HIDE DEF gone
<1>3. CASE disk' = save_inode(disk, f, gone)
  <2>1. n # f /\ n \in Inumbers
    BY <1>1, <1>3, InodeWritten DEF TInv, ValidInodes
  <2>2. Sound(disk, ld_inode(disk, n))
    BY <1>2 DEF OInv, Files
  <2> QED
    BY <1>1, <1>3, <2>1, <2>2, InodeElsewhere
<1> QED
  BY <1>2, <1>3

(* fs_write writes to three kinds of blocks, and another file owns none.   *)
LEMMA WriteKeeps ==
    ASSUME TInv, OInv, AllocIndirect \/ WriteData \/ WriteIndirect, Clean',
           NEW n \in ValidInodes(disk), n # w.inumber
    PROVE  Content(disk', ld_inode(disk', n)) = Content(disk, ld_inode(disk, n))
<1>1. Files /\ Hand /\ is_mounted /\ n \in Inumbers /\ w \in Locals
  BY DEF AllocIndirect, WriteData, WriteIndirect, history, OInv, Clean, Writing, TInv, Progress,
         Copying, ValidInodes
<1>2. Owned(disk, ld_inode(disk, n)) \subseteq 0..(NBlocks - 1)
  BY <1>1, InodeFound, OwnedWhere, Geometry DEF TInv, Files
<1>3. ASSUME AllocIndirect
      PROVE  \E b \in DataBlocks, c \in Contents :
                b \notin Owned(disk, ld_inode(disk, n)) /\ disk' = disk_write(disk, b, c)
  <2>1. Min(Unmarked) \in DataBlocks /\ Min(Unmarked) \notin free_blocks
    BY <1>3, BlockFound DEF AllocIndirect
  <2>2. disk' = disk_write(disk, Min(Unmarked), Zeros)
    BY <1>3 DEF AllocIndirect, disk_write
  <2> QED
    BY <1>1, <2>1, <2>2, BlockIsNew, EmptyBlocks
<1>4. ASSUME WriteData
      PROVE  \E b \in DataBlocks, c \in Contents :
                b \notin Owned(disk, ld_inode(disk, n)) /\ disk' = disk_write(disk, b, c)
  <2>1. w.block \in DataBlocks /\ Filled(disk[w.block]) \in Contents
    BY <1>4, FilledBlock DEF WriteData, TInv, Progress
  <2>2. disk' = disk_write(disk, w.block, Filled(disk[w.block]))
    BY <1>4 DEF WriteData, disk_write
  <2>3. w.block \notin Owned(disk, ld_inode(disk, n))
    BY <1>1, <1>4 DEF Hand, WriteData
  <2> QED
    BY <2>1, <2>2, <2>3
<1>5. ASSUME WriteIndirect
      PROVE  \E b \in DataBlocks, c \in Contents :
                b \notin Owned(disk, ld_inode(disk, n)) /\ disk' = disk_write(disk, b, c)
  <2>1. w.inode.indirect \in DataBlocks /\ w.indirect \in Contents
    BY <1>1, <1>5 DEF WriteIndirect, TInv, Progress, Locals
  <2>2. disk' = disk_write(disk, w.inode.indirect, w.indirect)
    BY <1>5 DEF WriteIndirect, disk_write
  <2>3. w.inode.indirect \in Held
    BY <2>1, Geometry DEF Held, Owned
  <2> QED
    BY <1>1, <2>1, <2>2, <2>3 DEF Hand
<1>6. PICK b \in DataBlocks, c \in Contents :
         b \notin Owned(disk, ld_inode(disk, n)) /\ disk' = disk_write(disk, b, c)
  BY <1>3, <1>4, <1>5
<1> QED
  BY <1>1, <1>2, <1>6, DataElsewhere

LEMMA SaveKeeps ==
    ASSUME TInv, OInv, WriteSave, Clean', NEW n \in ValidInodes(disk), n # w.inumber
    PROVE  Content(disk', ld_inode(disk', n)) = Content(disk, ld_inode(disk, n))
<1> DEFINE node == [w.inode EXCEPT !.size = @ + w.written]
<1>1. w \in Locals /\ w.inumber \in Inumbers /\ n \in Inumbers
  BY DEF WriteSave, TInv, Progress, Copying, ValidInodes
<1>2. node \in InodeType
  BY <1>1 DEF Locals, InodeType
<1>3. disk' = save_inode(disk, w.inumber, node)
  BY DEF WriteSave
<1>4. Sound(disk, ld_inode(disk, n))
  BY DEF WriteSave, history, OInv, Clean, Files
<1> HIDE DEF node
<1> QED
  BY <1>1, <1>2, <1>3, <1>4, InodeElsewhere

LEMMA StepKeeps ==
    ASSUME TInv, OInv, [Next]_vars, Clean', NEW n \in ValidInodes(disk) \cap ValidInodes(disk'),
           Apart(n)
    PROVE  Content(disk', ld_inode(disk', n)) = Content(disk, ld_inode(disk, n))
<1>1. CASE UNCHANGED disk
  BY <1>1
<1>2. WriteData \/ AllocIndirect \/ WriteIndirect \/ WriteSave => n # w.inumber
  BY DEF Apart, WriteData, AllocIndirect, WriteIndirect, WriteSave
<1>3. \/ UNCHANGED disk
      \/ Format \/ FormatBlock \/ Create \/ \E f \in Inumbers : Delete(f)
      \/ AllocIndirect \/ WriteData \/ WriteIndirect \/ WriteSave
  BY DEF Next, vars, Crash, ReadOnlyCommand, Mount, CopyIn, WriteStart, WriteEnd, DiskFull,
         AllocDirect, ReadIndirect, AllocEntry
<1> QED
  BY <1>1, <1>2, <1>3, FormatKeeps, FormatBlockKeeps, CreateKeeps, DeleteKeeps, WriteKeeps,
     SaveKeeps

(* No step changes what another file reads back: neither a write, nor a    *)
(* crash in the middle of a command, nor what comes after it.              *)
THEOREM OthersUnchanged == Spec => OtherFilesKept
<1>1. TInv /\ OInv /\ [Next]_vars =>
         [Clean' =>
            \A n \in ValidInodes(disk) \cap ValidInodes(disk') :
               (pc \in {"idle", "dead", "format"} \/ n # w.inumber) =>
                   Content(disk', ld_inode(disk', n)) = Content(disk, ld_inode(disk, n))]_vars
  BY StepKeeps DEF Apart
<1> QED
  BY <1>1, InvHolds, PTL DEF Spec, OtherFilesKept

-----------------------------------------------------------------------------
(* Units and the blocks they are in.                                       *)

LEMMA Sizes ==
    /\ BLOCK_SIZE \in Nat \ {0} /\ NPointers \in Nat /\ NPointers * BLOCK_SIZE \in Nat
    /\ POINTERS_PER_INODE \in Nat \ {0} /\ Entries = 0..(BLOCK_SIZE - 1)
    /\ NPointers = POINTERS_PER_BLOCK + POINTERS_PER_INODE /\ POINTERS_PER_BLOCK \in Nat
BY GeometryAssumption DEF NPointers, BLOCK_SIZE, Entries

LEMMA BlockBefore ==
    ASSUME NEW k \in Nat, NEW i \in Nat, NEW m \in Entries, k * BLOCK_SIZE + m < i * BLOCK_SIZE
    PROVE  k < i
<1>1. m \in Nat /\ BLOCK_SIZE \in Nat
  BY Sizes
<1>2. CASE i <= k
  <2>1. BLOCK_SIZE * i <= BLOCK_SIZE * k
    BY <1>1, <1>2, ProductGrows
  <2>2. BLOCK_SIZE * i = i * BLOCK_SIZE /\ BLOCK_SIZE * k = k * BLOCK_SIZE
        /\ k * BLOCK_SIZE \in Nat /\ i * BLOCK_SIZE \in Nat
    BY <1>1
  <2> QED
    BY <1>1, <2>1, <2>2
<1> QED
  BY <1>2

LEMMA Composed ==
    ASSUME NEW k \in Nat, NEW m \in Entries
    PROVE  /\ k * BLOCK_SIZE + m \in Nat
           /\ (k * BLOCK_SIZE + m) \div BLOCK_SIZE = k
           /\ (k * BLOCK_SIZE + m) % BLOCK_SIZE = m
<1> DEFINE a == k * BLOCK_SIZE + m
           q == a \div BLOCK_SIZE
           r == a % BLOCK_SIZE
<1>1. /\ m \in 0..(BLOCK_SIZE - 1) /\ BLOCK_SIZE \in Nat \ {0}
      /\ k * BLOCK_SIZE \in Nat /\ BLOCK_SIZE * k = k * BLOCK_SIZE
      /\ (k + 1) * BLOCK_SIZE = k * BLOCK_SIZE + BLOCK_SIZE
  BY Sizes
<1>2. a \in Nat /\ a = k * BLOCK_SIZE + m
  BY <1>1
<1> HIDE DEF a
<1>3. q \in Nat /\ r \in 0..(BLOCK_SIZE - 1) /\ a = BLOCK_SIZE * q + r
  BY <1>1, <1>2, Division
<1>4. q < k + 1
  BY <1>1, <1>2, QuotientBound
<1>5. ~(q < k)
  BY <1>1, <1>2, QuotientBound
<1>6. q = k
  BY <1>3, <1>4, <1>5
<1> HIDE DEF q, r
<1>7. r = m
  BY <1>1, <1>2, <1>3, <1>6
<1> QED
  BY <1>1, <1>2, <1>6, <1>7 DEF a, q, r

LEMMA Multiple ==
    ASSUME NEW a \in Nat, a % BLOCK_SIZE = 0
    PROVE  a \div BLOCK_SIZE \in Nat /\ a = BLOCK_SIZE * (a \div BLOCK_SIZE)
<1> DEFINE q == a \div BLOCK_SIZE
           r == a % BLOCK_SIZE
<1>1. q \in Nat /\ a = BLOCK_SIZE * q + r
  BY Sizes, Division
<1>2. r = 0
  OBVIOUS
<1> HIDE DEF q, r
<1>3. BLOCK_SIZE * q \in Nat
  BY <1>1, Sizes
<1>4. a = BLOCK_SIZE * q
  BY <1>1, <1>2, <1>3
<1> QED
  BY <1>1, <1>4 DEF q

\* What cat shows of a file is as long as this.
Shown(node) == Min({node.size - 0, node.size, NPointers * BLOCK_SIZE - 0})

\* The first units of a file are those of a text.
ReadsText(d, node, x, len) ==
    \A k \in Nat, m \in Entries :
       k * BLOCK_SIZE + m < len => ReadBlock(d, node, k)[m] = Text(x, k * BLOCK_SIZE + m)

LEMMA ContentReads ==
    ASSUME NEW d, NEW node \in InodeType, NEW x, NEW len \in Nat
    PROVE  Content(d, node) = Store!Prefix(x, len)
             <=> Shown(node) = len /\ ReadsText(d, node, x, len)
<1> DEFINE C == Content(d, node)
           P == Store!Prefix(x, len)
           unit(u) == ReadBlock(d, node, u \div BLOCK_SIZE)[u % BLOCK_SIZE]
<1>1. Shown(node) \in Nat
  BY ReadLength DEF Shown
<1>2. C = [q \in 1..Shown(node) |-> unit(0 + q - 1)]
  BY DEF Content, fs_read, Shown
<1>3. P = [q \in 1..len |-> Text(x, q - 1)]
  BY DEF Store!Prefix
<1>4. ASSUME NEW k \in Nat, NEW m \in Entries
      PROVE  unit(k * BLOCK_SIZE + m) = ReadBlock(d, node, k)[m]
  BY <1>4, Composed
<1>5. ASSUME NEW u \in Nat
      PROVE  \E k \in Nat, m \in Entries : u = k * BLOCK_SIZE + m
  <2> DEFINE k == u \div BLOCK_SIZE
             m == u % BLOCK_SIZE
  <2>1. k \in Nat /\ m \in 0..(BLOCK_SIZE - 1) /\ u = BLOCK_SIZE * k + m
    BY Sizes, Division
  <2> HIDE DEF k, m
  <2>2. BLOCK_SIZE * k = k * BLOCK_SIZE
    BY <2>1, Sizes
  <2> QED
    BY <2>1, <2>2, Sizes
<1> HIDE DEF C, P, unit
<1>6. ASSUME C = P PROVE Shown(node) = len /\ ReadsText(d, node, x, len)
  <2>1. 1..Shown(node) = 1..len
    <3>1. DOMAIN C = 1..Shown(node) /\ DOMAIN P = 1..len
      BY <1>2, <1>3
    <3> QED
      BY <1>6, <3>1
  <2>2. Shown(node) = len
    BY <1>1, <2>1
  <2>3. ASSUME NEW k \in Nat, NEW m \in Entries, k * BLOCK_SIZE + m < len
        PROVE  ReadBlock(d, node, k)[m] = Text(x, k * BLOCK_SIZE + m)
    <3> DEFINE u == k * BLOCK_SIZE + m
    <3>1. u \in Nat /\ u < len
      BY <2>3, Composed
    <3>2. ReadBlock(d, node, k)[m] = unit(u)
      BY <1>4
    <3> HIDE DEF u
    <3>3. u + 1 \in 1..len /\ 0 + (u + 1) - 1 = u /\ (u + 1) - 1 = u
      BY <3>1
    <3>4. C[u + 1] = unit(u) /\ P[u + 1] = Text(x, u)
      BY <1>2, <1>3, <2>2, <3>3
    <3>5. ReadBlock(d, node, k)[m] = Text(x, u)
      BY <1>6, <3>2, <3>4
    <3> QED
      BY <3>5 DEF u
  <2> QED
    BY <2>2, <2>3 DEF ReadsText
<1>7. ASSUME Shown(node) = len, ReadsText(d, node, x, len) PROVE C = P
  <2>1. ASSUME NEW q \in 1..len PROVE unit(0 + q - 1) = Text(x, q - 1)
    <3>1. 0 + q - 1 = q - 1 /\ q - 1 \in Nat /\ q - 1 < len
      OBVIOUS
    <3>2. PICK k \in Nat, m \in Entries : q - 1 = k * BLOCK_SIZE + m
      BY <1>5, <3>1
    <3>3. unit(q - 1) = ReadBlock(d, node, k)[m]
      BY <1>4, <3>2
    <3>4. ReadBlock(d, node, k)[m] = Text(x, q - 1)
      BY <1>7, <3>1, <3>2 DEF ReadsText
    <3> QED
      BY <3>1, <3>3, <3>4
  <2> QED
    BY <1>2, <1>3, <1>7, <2>1
<1> QED
  BY <1>6, <1>7 DEF C, P

(* A file is never mistaken for none: its first block is the superblock or *)
(* a data block, and no unit of these is negative.                         *)
LEMMA ContentIsFile ==
    ASSUME TInv, NEW n \in Inumbers
    PROVE  Content(disk, ld_inode(disk, n)) # Store!NoFile
<1> DEFINE node == ld_inode(disk, n)
<1>1. node \in InodeType
  BY InodeFound DEF TInv
<1>2. 0 \in Directs /\ 0 \in Entries /\ BLOCK_SIZE \in Nat \ {0}
  BY GeometryAssumption, Sizes DEF Directs
<1>3. node.direct[0] \in Pointers
  BY <1>1, <1>2 DEF InodeType
<1>4. disk[node.direct[0]][0] \in Nat
  <2>1. CASE node.direct[0] \in DataBlocks
    <3>1. disk[node.direct[0]][0] \in Pointers \cup Texts
      BY <1>2, <2>1 DEF TInv, Formed, Contents
    <3> QED
      BY <3>1, Geometry, GeometryAssumption DEF Pointers
  <2>2. CASE node.direct[0] = 0
    <3>1. disk[0] = Zeros \/ disk[0] = SuperBlock
      BY DEF TInv, Formed
    <3> QED
      BY <1>2, <2>2, <3>1, GeometryAssumption DEF Zeros, SuperBlock
  <2> QED
    BY <1>3, <2>1, <2>2 DEF Pointers
<1>5. 0 \div BLOCK_SIZE = 0 /\ 0 % BLOCK_SIZE = 0
  BY <1>2, Composed
<1>6. ReadBlock(disk, node, 0)[0] \in Nat
  BY <1>4, Sizes DEF ReadBlock
<1> HIDE DEF node
<1>7. ASSUME Content(disk, node) = <<-1>> PROVE FALSE
  <2>1. Shown(node) \in Nat
    BY <1>1, ReadLength DEF Shown
  <2>2. Content(disk, node)
          = [q \in 1..Shown(node) |->
                ReadBlock(disk, node, (0 + q - 1) \div BLOCK_SIZE)[(0 + q - 1) % BLOCK_SIZE]]
    BY DEF Content, fs_read, Shown
  <2>3. DOMAIN Content(disk, node) = 1..1 /\ Content(disk, node)[1] = -1
    BY <1>7
  <2>4. 1 \in 1..Shown(node)
    BY <2>1, <2>2, <2>3
  <2>5. Content(disk, node)[1] = ReadBlock(disk, node, 0)[0]
    BY <1>5, <2>2, <2>4
  <2> QED
    BY <1>6, <2>3, <2>5
<1> QED
  BY <1>7 DEF Store!NoFile, node

-----------------------------------------------------------------------------
(* The pace of the copy: chunks begin at blocks, and the loop of fs_write  *)
(* goes through the file block by block.                                   *)

Paced ==
    /\ pc = "chunk" => /\ w.offset <= NPointers * BLOCK_SIZE
                       /\ w.left = 0 \/ w.offset % BLOCK_SIZE = 0
    /\ Writing => /\ w.offset % BLOCK_SIZE = 0
                  /\ w.i <= NPointers
                  /\ w.offset + w.written <= w.i * BLOCK_SIZE
                  /\ w.written < Length => w.offset + w.written = w.i * BLOCK_SIZE

LEMMA PacedStart == ASSUME TInv, Paced, WriteStart PROVE Paced'
<1> DEFINE node == ld_inode(disk, w.inumber)
           q == w.offset \div BLOCK_SIZE
<1>1. CASE w.left = 0 \/ ~node.isvalid
  BY <1>1 DEF WriteStart, Paced, Writing
<1>2. CASE ~(w.left = 0 \/ ~node.isvalid)
  <2>1. w \in Locals /\ w.offset \in Nat /\ pc = "chunk"
    BY DEF TInv, Locals, WriteStart
  <2>2. /\ pc' = "loop" /\ w' = [w EXCEPT !.inode = node, !.i = q, !.written = 0]
    BY <1>2 DEF WriteStart
  <2>3. w.offset % BLOCK_SIZE = 0 /\ w.offset <= NPointers * BLOCK_SIZE
    BY <1>2, <2>1 DEF Paced
  <2>4. q \in Nat /\ w.offset = BLOCK_SIZE * q
    BY <2>1, <2>3, Multiple
  <2> HIDE DEF q
  <2>5. w'.offset = w.offset /\ w'.i = q /\ w'.written = 0
    BY <2>1, <2>2 DEF Locals
  <2>6. BLOCK_SIZE * q = q * BLOCK_SIZE
    BY <2>4, Sizes
  <2>7. q <= NPointers
    <3>1. CASE NPointers < q
      <4>1. NPointers * BLOCK_SIZE + 0 < q * BLOCK_SIZE
        <5>1. BLOCK_SIZE * (NPointers + 1) <= BLOCK_SIZE * q
          <6>1. NPointers + 1 \in Nat /\ NPointers + 1 <= q
            BY <2>4, <3>1, Sizes
          <6> QED
            BY <2>4, <6>1, Sizes, ProductGrows
        <5>2. BLOCK_SIZE * (NPointers + 1) = NPointers * BLOCK_SIZE + BLOCK_SIZE
          BY Sizes
        <5> QED
          BY <2>4, <2>6, <5>1, <5>2, Sizes
      <4> QED
        BY <2>1, <2>3, <2>4, <2>6, <4>1, Sizes
    <3> QED
      BY <2>4, <3>1, Sizes
  <2> QED
    BY <2>1, <2>2, <2>3, <2>4, <2>5, <2>6, <2>7 DEF Paced
<1> QED
  BY <1>1, <1>2

(* A block that is filled is filled from its first unit on.                *)
LEMMA FromTheStart ==
    ASSUME w \in Locals, Paced, Writing, w.written < Length
    PROVE  /\ newOffset = 0
           /\ numToCopy <= BLOCK_SIZE
           /\ numToCopy = BLOCK_SIZE \/ w.written + numToCopy = Length
<1>1. newOffset = 0
  BY DEF Paced, newOffset
<1>2. BLOCK_SIZE \in Nat /\ w.written \in Nat /\ Length \in Nat
  BY Sizes, Lengthy DEF Locals
<1> QED
  BY <1>1, <1>2, Amount

LEMMA PacedAdvance ==
    ASSUME TInv, Paced, pc \in {"data", "indirect"}, NextBlock
    PROVE  Paced'
<1>1. w \in Locals /\ w.written < Length /\ Writing /\ w.i < NPointers
  BY DEF TInv, Progress, Writing
<1>2. /\ w'.written = w.written + numToCopy /\ w'.i = w.i + 1 /\ w'.offset = w.offset
      /\ Length' = Length /\ w'.written <= Length' /\ pc' = "loop"
  BY <1>1, Advanced
<1>3. /\ numToCopy \in Nat \ {0} /\ numToCopy <= BLOCK_SIZE
      /\ numToCopy = BLOCK_SIZE \/ w.written + numToCopy = Length
  BY <1>1, FromTheStart, Amount
<1>4. /\ w.written \in Nat /\ w.offset \in Nat /\ w.i \in Nat /\ Length \in Nat
      /\ w.i * BLOCK_SIZE \in Nat
  BY <1>1, Sizes, Lengthy DEF Locals
<1> DEFINE here == w.i * BLOCK_SIZE
           next == w'.i * BLOCK_SIZE
<1>0. here \in Nat /\ next = here + BLOCK_SIZE
  BY <1>2, <1>4, Sizes
<1>5. /\ w.offset % BLOCK_SIZE = 0 /\ w.offset + w.written = w.i * BLOCK_SIZE
  BY <1>1 DEF Paced
<1>9. w.offset + w.written = here
  BY <1>5
<1> HIDE DEF here, next
<1>6. w'.offset + w'.written <= next
  BY <1>0, <1>2, <1>3, <1>4, <1>9, Sizes
<1>7. w'.written < Length' => w'.offset + w'.written = next
  BY <1>0, <1>2, <1>3, <1>4, <1>9, Sizes
<1>8. w'.i <= NPointers
  BY <1>1, <1>2, <1>4, Sizes
<1> QED
  BY <1>2, <1>5, <1>6, <1>7, <1>8 DEF Paced, next

(* After a whole chunk the next one begins at a block again.               *)
LEMMA PacedSave == ASSUME TInv, Paced, WriteSave PROVE Paced'
<1>1. /\ w \in Locals /\ pc = "save" /\ Writing /\ w.written \in Nat /\ w.offset \in Nat
      /\ w.left \in Nat /\ Length \in Nat /\ w.i \in Nat
  BY Lengthy DEF TInv, WriteSave, Writing, Locals
<1>2. CASE w.written # Length
  BY <1>2 DEF WriteSave, Paced, Writing
<1>3. CASE w.written = Length
  <2> DEFINE begun == w.offset + w.written
             rest == w.left - w.written
  <2>1. pc' = "chunk" /\ w' = [w EXCEPT !.offset = begun, !.left = rest]
    BY <1>1, <1>3 DEF WriteSave, Locals
  <2>2. w'.offset = begun /\ w'.left = rest
    BY <1>1, <2>1 DEF Locals
  <2>3. begun <= NPointers * BLOCK_SIZE
    <3>1. /\ w.offset + w.written <= w.i * BLOCK_SIZE /\ w.i <= NPointers
      BY <1>1 DEF Paced
    <3>2. BLOCK_SIZE * w.i <= BLOCK_SIZE * NPointers
      BY <1>1, <3>1, Sizes, ProductGrows
    <3>3. /\ BLOCK_SIZE * w.i = w.i * BLOCK_SIZE
          /\ BLOCK_SIZE * NPointers = NPointers * BLOCK_SIZE /\ w.i * BLOCK_SIZE \in Nat
      BY <1>1, Sizes
    <3> QED
      BY <1>1, <3>1, <3>2, <3>3, Sizes
  <2>4. rest = 0 \/ begun % BLOCK_SIZE = 0
    <3>1. CASE w.left < ChunkSize
      BY <1>1, <1>3, <3>1 DEF Length
    <3>2. CASE ~(w.left < ChunkSize)
      <4> DEFINE a == w.offset \div BLOCK_SIZE
                 c == ChunkSize \div BLOCK_SIZE
      <4>1. ChunkSize \in Nat /\ ChunkSize % BLOCK_SIZE = 0 /\ w.written = ChunkSize
        BY <1>3, <3>2, GeometryAssumption DEF Length
      <4>2. a \in Nat /\ w.offset = BLOCK_SIZE * a
        BY <1>1, Multiple DEF Paced
      <4>3. c \in Nat /\ ChunkSize = BLOCK_SIZE * c
        BY <4>1, Multiple
      <4> HIDE DEF a, c
      <4>4. BLOCK_SIZE * a + BLOCK_SIZE * c = (a + c) * BLOCK_SIZE + 0
        BY <4>2, <4>3, Sizes
      <4>5. a + c \in Nat /\ 0 \in Entries
        BY <4>2, <4>3, Sizes
      <4>6. ((a + c) * BLOCK_SIZE + 0) % BLOCK_SIZE = 0
        BY <4>5, Composed
      <4> QED
        BY <4>1, <4>2, <4>3, <4>4, <4>6
    <3> QED
      BY <3>1, <3>2
  <2> QED
    BY <2>1, <2>2, <2>3, <2>4 DEF Paced, Writing
<1> QED
  BY <1>2, <1>3

LEMMA PacedCopyIn ==
    ASSUME TInv, NEW n \in Inumbers, NEW x \in Words, NEW len \in Lengths, CopyIn(n, x, len)
    PROVE  Paced'
<1>1. pc' = "chunk" /\ w'.offset = 0
  BY DEF CopyIn, Idle
<1>2. 0 % BLOCK_SIZE = 0 /\ 0 <= NPointers * BLOCK_SIZE
  <2>1. 0 \in Entries /\ 0 * BLOCK_SIZE + 0 = 0
    BY Sizes
  <2>2. (0 * BLOCK_SIZE + 0) % BLOCK_SIZE = 0
    BY <2>1, Composed
  <2> QED
    BY <2>1, <2>2, Sizes
<1> QED
  BY <1>1, <1>2 DEF Paced, Writing

\* What the memory of a copyin says of its place, and a step leaves as it is.
Place == <<w.offset, w.left, w.written, w.i>>

LEMMA PacedSame ==
    ASSUME Paced, pc \in {"loop", "entry", "data", "indirect", "save"},
           pc' \in {"loop", "entry", "data", "indirect", "save"}, UNCHANGED Place
    PROVE  Paced'
<1>1. Length' = Length
  BY DEF Place, Length
<1> QED
  BY <1>1 DEF Paced, Writing, Place

LEMMA AllocKeepsPlace ==
    ASSUME TInv, AllocDirect \/ AllocIndirect \/ ReadIndirect \/ AllocEntry
    PROVE  UNCHANGED Place
<1>1. w \in Locals
  BY DEF TInv
<1>2. CASE AllocDirect
  <2>1. \E node, b : w' = [w EXCEPT !.inode = node, !.block = b]
    BY <1>1, <1>2 DEF AllocDirect, Locals
  <2> QED
    BY <1>1, <2>1 DEF Locals, Place
<1>3. CASE AllocIndirect
  <2>1. \E node, table : w' = [w EXCEPT !.inode = node, !.indirect = table]
    BY <1>1, <1>3 DEF AllocIndirect, Locals
  <2> QED
    BY <1>1, <2>1 DEF Locals, Place
<1>4. CASE ReadIndirect
  BY <1>1, <1>4 DEF ReadIndirect, Locals, Place
<1>5. CASE AllocEntry
  <2>1. \E table, b : w' = [w EXCEPT !.indirect = table, !.block = b]
    BY <1>1, <1>5 DEF AllocEntry, Locals
  <2> QED
    BY <1>1, <2>1 DEF Locals, Place
<1> QED
  BY <1>2, <1>3, <1>4, <1>5

LEMMA NextPaced == ASSUME TInv, Paced, [Next]_vars PROVE Paced'
<1>1. CASE UNCHANGED vars
  BY <1>1 DEF vars, Paced, Writing, Length
<1>2. CASE Crash \/ Format \/ FormatBlock \/ Mount \/ Create \/ (\E n \in Inumbers : Delete(n))
  <2>1. pc' \in {"idle", "dead", "format"}
    BY <1>2 DEF Crash, Format, FormatBlock, Mount, Create, Delete, Command
  <2> QED
    BY <2>1 DEF Paced, Writing
<1>3. CASE WriteEnd \/ DiskFull
  BY <1>3, PacedSame DEF WriteEnd, DiskFull, Place
<1>4. CASE AllocDirect \/ AllocIndirect \/ ReadIndirect \/ AllocEntry
  <2>1. UNCHANGED Place
    BY <1>4, AllocKeepsPlace
  <2>2. pc \in {"loop", "entry"} /\ pc' \in {"data", "entry"}
    BY <1>4 DEF AllocDirect, AllocIndirect, ReadIndirect, AllocEntry
  <2> QED
    BY <2>1, <2>2, PacedSame
<1>5. CASE WriteData \/ WriteIndirect
  <2>1. pc \in {"data", "indirect"} /\ (NextBlock \/ (w' = w /\ pc' = "indirect"))
    BY <1>5 DEF WriteData, WriteIndirect
  <2>2. CASE NextBlock
    BY <2>1, <2>2, PacedAdvance
  <2>3. CASE w' = w /\ pc' = "indirect"
    BY <2>1, <2>3, PacedSame DEF Place
  <2> QED
    BY <2>1, <2>2, <2>3
<1>6. CASE ReadOnlyCommand
  BY <1>1, <1>6 DEF ReadOnlyCommand
<1> QED
  BY <1>1, <1>2, <1>3, <1>4, <1>5, <1>6, PacedStart, PacedSave, PacedCopyIn DEF Next

-----------------------------------------------------------------------------
(* Within one file, and what the copy has achieved so far.                 *)

\* The indirect block is not also a block of data.
Inner(d, node) ==
    node.indirect # 0 =>
       node.indirect \notin DirectBlocks(node) \cup IndirectBlocks(d, node)

InnerFiles == \A n \in ValidInodes(disk) : Inner(disk, ld_inode(disk, n))

\* The inode on the disk of the file that is being written.
OnDisk == ld_inode(disk, w.inumber)

\* What is on the disk is what was copied up to this call of fs_write.
AtPrefix == Content(disk, OnDisk) = Store!Prefix(w.word, w.offset)

\* The block being filled is in its place in the inode or the table in memory,
\* and in no other.
InPlace ==
    /\ w.block \in DataBlocks /\ w.block # w.inode.indirect
    /\ w.block \notin IndirectBlocks(disk, w.inode)
    /\ \A k \in Directs : w.inode.direct[k] = w.block => k = w.i
    /\ w.i < POINTERS_PER_INODE => w.inode.direct[w.i] = w.block
    /\ UsesIndirect =>
          /\ w.indirect[w.i - POINTERS_PER_INODE] = w.block
          /\ \A m \in Entries \ {w.i - POINTERS_PER_INODE} :
                w.indirect[m] = disk[w.inode.indirect][m]

Aim ==
    /\ Inner(disk, w.inode)
    /\ w.inode.indirect # OnDisk.indirect => w.inode.indirect \notin Owned(disk, OnDisk)
    /\ pc = "entry" => w.indirect = disk[w.inode.indirect]
    /\ pc \in {"data", "indirect"} => InPlace
    /\ pc = "indirect" => \A m \in 0..(numToCopy - 1) :
                             disk[w.block][m] = Text(w.word, w.offset + w.written + m)
    /\ AtPrefix => ReadsText(disk, w.inode, w.word, w.offset + w.written)

\* Until it is saved, the size of the file is the one on the disk.
Sized == Writing => w.inode.size = OnDisk.size

RInv == Paced /\ Sized /\ (Clean => InnerFiles /\ (Writing => Aim))

LEMMA InnerSame ==
    ASSUME NEW d, NEW dd, NEW node, node.indirect = 0 \/ dd[node.indirect] = d[node.indirect]
    PROVE  Inner(dd, node) <=> Inner(d, node)
BY DEF Inner, IndirectBlocks

LEMMA InnerKept ==
    ASSUME InnerFiles,
           \A n \in ValidInodes(disk') :
              \/ Inner(disk', ld_inode(disk', n))
              \/ /\ n \in ValidInodes(disk) /\ ld_inode(disk', n) = ld_inode(disk, n)
                 /\ \/ ld_inode(disk, n).indirect = 0
                    \/ disk'[ld_inode(disk, n).indirect] = disk[ld_inode(disk, n).indirect]
    PROVE  InnerFiles'
BY InnerSame DEF InnerFiles

(* A block of a file reads the same when another block is written.         *)
LEMMA BlockElsewhere ==
    ASSUME TInv, NEW b \in DataBlocks, NEW c \in Contents, disk' = disk_write(disk, b, c),
           NEW node \in InodeType, NEW k \in Nat, k < NPointers,
           k < POINTERS_PER_INODE => node.direct[k] # b,
           ~(k < POINTERS_PER_INODE) =>
              b # node.indirect /\ b \notin IndirectBlocks(disk, node)
    PROVE  ReadBlock(disk', node, k) = ReadBlock(disk, node, k)
<1>1. \A x \in 0..(NBlocks - 1) : x # b => disk'[x] = disk[x]
  BY DataWritten DEF TInv
<1>2. CASE k < POINTERS_PER_INODE
  <2>1. node.direct[k] \in 0..(NBlocks - 1)
    <3>1. k \in Directs
      BY <1>2, Sizes DEF Directs
    <3> QED
      BY <3>1, Geometry DEF InodeType, Pointers
  <2> QED
    BY <1>1, <1>2, <2>1 DEF ReadBlock
<1>3. CASE ~(k < POINTERS_PER_INODE) /\ node.indirect = 0
  BY <1>3, Geometry DEF ReadBlock
<1>4. CASE ~(k < POINTERS_PER_INODE) /\ node.indirect # 0
  <2> DEFINE e == disk[node.indirect][k - POINTERS_PER_INODE]
  <2>1. k - POINTERS_PER_INODE \in Entries
    BY <1>4, Sizes DEF BLOCK_SIZE
  <2>2. node.indirect \in 0..(NBlocks - 1)
    BY Geometry DEF InodeType, Pointers
  <2>3. disk'[node.indirect] = disk[node.indirect]
    BY <1>1, <1>4, <2>2
  <2>4. e \in DataBlocks => e # b /\ e \in 0..(NBlocks - 1)
    BY <1>4, <2>1, Geometry DEF IndirectBlocks
  <2> QED
    BY <1>1, <1>4, <2>3, <2>4 DEF ReadBlock
<1> QED
  BY <1>2, <1>3, <1>4

(* The units of a text that are copied before block i are in the blocks    *)
(* before it, and those that are added are in block i.                     *)
LEMMA ReadsMore ==
    ASSUME NEW d, NEW node, NEW x, NEW i \in Nat, NEW n \in Nat, n <= BLOCK_SIZE,
           \A k \in Nat, m \in Entries :
              k < i /\ k * BLOCK_SIZE + m < i * BLOCK_SIZE =>
                 ReadBlock(d, node, k)[m] = Text(x, k * BLOCK_SIZE + m),
           \A m \in 0..(n - 1) : ReadBlock(d, node, i)[m] = Text(x, i * BLOCK_SIZE + m)
    PROVE  ReadsText(d, node, x, i * BLOCK_SIZE + n)
<1> SUFFICES ASSUME NEW k \in Nat, NEW m \in Entries, k * BLOCK_SIZE + m < i * BLOCK_SIZE + n
             PROVE  ReadBlock(d, node, k)[m] = Text(x, k * BLOCK_SIZE + m)
  BY DEF ReadsText
<1>1. m \in Nat /\ m < BLOCK_SIZE /\ k * BLOCK_SIZE \in Nat /\ i * BLOCK_SIZE \in Nat
      /\ (i + 1) * BLOCK_SIZE = i * BLOCK_SIZE + BLOCK_SIZE /\ BLOCK_SIZE \in Nat
  BY Sizes
<1>2. k < i + 1
  <2>1. k * BLOCK_SIZE + m < (i + 1) * BLOCK_SIZE
    BY <1>1
  <2> QED
    BY <2>1, BlockBefore
<1>3. CASE k = i
  <2>1. m \in 0..(n - 1)
    BY <1>1, <1>3
  <2> QED
    BY <1>3, <2>1
<1>4. CASE k < i
  <2>1. BLOCK_SIZE * (k + 1) <= BLOCK_SIZE * i
    BY <1>1, <1>4, ProductGrows
  <2>2. BLOCK_SIZE * (k + 1) = k * BLOCK_SIZE + BLOCK_SIZE /\ BLOCK_SIZE * i = i * BLOCK_SIZE
    BY <1>1
  <2>3. k * BLOCK_SIZE + m < i * BLOCK_SIZE
    BY <1>1, <2>1, <2>2
  <2> QED
    BY <1>4, <2>3
<1> QED
  BY <1>2, <1>3, <1>4

(* Files agree when their units do.                                        *)
LEMMA ContentByUnits ==
    ASSUME NEW d, NEW dd, NEW node \in InodeType,
           \A k \in Nat, m \in Entries : k * BLOCK_SIZE + m < Shown(node) =>
              ReadBlock(dd, node, k)[m] = ReadBlock(d, node, k)[m]
    PROVE  Content(dd, node) = Content(d, node)
<1> DEFINE unit(e, u) == ReadBlock(e, node, u \div BLOCK_SIZE)[u % BLOCK_SIZE]
<1>1. Shown(node) \in Nat
  BY ReadLength DEF Shown
<1>2. ASSUME NEW q \in 1..Shown(node) PROVE unit(dd, 0 + q - 1) = unit(d, 0 + q - 1)
  <2> DEFINE u == 0 + q - 1
             k == u \div BLOCK_SIZE
             m == u % BLOCK_SIZE
  <2>1. u \in Nat /\ u < Shown(node)
    BY <1>1
  <2> HIDE DEF u
  <2>2. k \in Nat /\ m \in 0..(BLOCK_SIZE - 1) /\ u = BLOCK_SIZE * k + m
    BY <2>1, Sizes, Division
  <2> HIDE DEF k, m
  <2>3. BLOCK_SIZE * k = k * BLOCK_SIZE /\ m \in Entries
    BY <2>2, Sizes
  <2>4. ReadBlock(dd, node, k)[m] = ReadBlock(d, node, k)[m]
    BY <2>1, <2>2, <2>3
  <2> QED
    BY <2>4 DEF u, k, m
<1> HIDE DEF unit
<1>3. /\ Content(dd, node) = [q \in 1..Shown(node) |-> unit(dd, 0 + q - 1)]
      /\ Content(d, node) = [q \in 1..Shown(node) |-> unit(d, 0 + q - 1)]
  BY DEF Content, fs_read, Shown, unit
<1> QED
  BY <1>2, <1>3

(* What is known in the middle of a clean copy.                            *)
LEMMA InTheMiddle ==
    ASSUME TInv, OInv, RInv, Writing, Clean
    PROVE  /\ Files /\ Hand /\ InnerFiles /\ Aim /\ Paced
           /\ w \in Locals /\ w.inode \in InodeType /\ OnDisk \in InodeType
           /\ w.inumber \in Inumbers /\ w.inumber \in ValidInodes(disk) /\ is_mounted
           /\ w.offset \in Nat /\ w.written \in Nat /\ w.i \in Nat /\ Length \in Nat
           /\ Owned(disk, OnDisk) \subseteq 0..(NBlocks - 1)
<1>1. /\ Files /\ Hand /\ InnerFiles /\ Aim /\ Paced
      /\ w \in Locals /\ w.inumber \in Inumbers /\ w.inumber \in ValidInodes(disk) /\ is_mounted
  BY DEF TInv, OInv, RInv, Progress, Copying, Writing, OnFile
<1>2. OnDisk \in InodeType
  BY <1>1, InodeFound DEF TInv, OnDisk
<1>3. Owned(disk, OnDisk) \subseteq DataBlocks
  BY <1>1, <1>2, OwnedWhere DEF Files, OnDisk
<1> QED
  BY <1>1, <1>2, <1>3, Geometry, Lengthy DEF Locals

LEMMA AStart == ASSUME TInv, OInv, RInv, WriteStart, Clean' PROVE InnerFiles' /\ (Writing' => Aim')
<1>1. /\ UNCHANGED <<disk, stale, skipped>> /\ pc = "chunk" /\ Clean
      /\ w \in Locals /\ w.inumber \in Inumbers
  BY DEF WriteStart, history, Clean, TInv, Progress, Copying
<1>2. InnerFiles /\ Files
  BY <1>1 DEF RInv, OInv
<1>3. InnerFiles'
  BY <1>1, <1>2 DEF InnerFiles
<1>4. ASSUME Writing' PROVE Aim'
  <2>1. /\ OnDisk.isvalid /\ pc' = "loop"
        /\ w' = [w EXCEPT !.inode = OnDisk, !.i = w.offset \div BLOCK_SIZE, !.written = 0]
    BY <1>4 DEF WriteStart, Writing, OnDisk
  <2>2. /\ w'.inode = OnDisk /\ w'.written = 0 /\ w'.inumber = w.inumber
        /\ w'.offset = w.offset /\ w'.word = w.word /\ w.offset \in Nat
    BY <1>1, <2>1 DEF Locals
  <2>3. OnDisk' = OnDisk
    BY <1>1, <2>2 DEF OnDisk
  <2>4. Inner(disk, OnDisk) /\ OnDisk \in InodeType
    BY <1>1, <1>2, <2>1, InodeFound DEF InnerFiles, ValidInodes, OnDisk, TInv
  <2>5. AtPrefix' => AtPrefix
    BY <1>1, <2>2, <2>3 DEF AtPrefix
  <2>6. AtPrefix => ReadsText(disk, OnDisk, w.word, w.offset)
    BY <2>2, <2>4, ContentReads DEF AtPrefix
  <2>7. w'.offset + w'.written = w.offset
    BY <2>2
  <2> QED
    BY <1>1, <2>1, <2>2, <2>3, <2>4, <2>5, <2>6, <2>7 DEF Aim
<1> QED
  BY <1>3, <1>4

LEMMA AEnds ==
    ASSUME TInv, OInv, RInv, WriteEnd \/ DiskFull, Clean'
    PROVE  InnerFiles' /\ (Writing' => Aim')
<1>1. /\ UNCHANGED <<disk, w, stale, skipped>> /\ pc \in {"loop", "entry"} /\ pc' = "save"
      /\ Clean /\ Writing
  BY DEF WriteEnd, DiskFull, history, Clean, Writing
<1>2. InnerFiles /\ Aim
  BY <1>1 DEF RInv
<1>3. OnDisk' = OnDisk
  BY <1>1 DEF OnDisk
<1>4. AtPrefix' => AtPrefix
  BY <1>1, <1>3 DEF AtPrefix
<1> QED
  BY <1>1, <1>2, <1>3, <1>4 DEF InnerFiles, Aim

\* The units that are copied lie in the blocks before block i.
LEMMA CopiedBefore ==
    ASSUME w \in Locals, Paced, Writing, NEW k \in Nat, NEW m \in Entries,
           k * BLOCK_SIZE + m < w.offset + w.written
    PROVE  k < w.i /\ k < NPointers
<1>1. /\ w.i \in Nat /\ w.offset \in Nat /\ w.written \in Nat /\ w.i * BLOCK_SIZE \in Nat
      /\ k * BLOCK_SIZE + m \in Nat
  <2>1. w.i \in Nat /\ w.offset \in Nat /\ w.written \in Nat
    BY DEF Locals
  <2>2. w.i * BLOCK_SIZE \in Nat
    BY <2>1, Sizes
  <2> QED
    BY <2>1, <2>2, Composed
<1>2. w.offset + w.written <= w.i * BLOCK_SIZE /\ w.i <= NPointers
  BY DEF Paced
<1>3. k * BLOCK_SIZE + m < w.i * BLOCK_SIZE
  BY <1>1, <1>2
<1>4. k < w.i
  BY <1>1, <1>3, BlockBefore
<1> QED
  BY <1>1, <1>2, <1>4, Sizes

LEMMA AAllocDirect ==
    ASSUME TInv, OInv, RInv, AllocDirect, Clean'
    PROVE  InnerFiles' /\ (Writing' => Aim')
<1> DEFINE b == Min(Unmarked)
           node == [w.inode EXCEPT !.direct[w.i] = b]
<1>1. /\ UNCHANGED <<disk, stale, skipped>> /\ pc = "loop" /\ pc' = "data"
      /\ Clean /\ Writing /\ w.i < POINTERS_PER_INODE
  BY DEF AllocDirect, history, Clean, Writing
<1>2. /\ Files /\ Hand /\ InnerFiles /\ Aim /\ Paced /\ w \in Locals /\ w.inode \in InodeType
      /\ w.i \in Nat /\ is_mounted
  BY <1>1, InTheMiddle
<1>3. b \in DataBlocks /\ b \notin free_blocks /\ b # 0 /\ w.i \in Directs
  BY <1>1, <1>2, BlockFound, Geometry, Sizes DEF AllocDirect, Directs
<1>4. w' = [w EXCEPT !.inode = node, !.block = b]
  BY <1>2 DEF AllocDirect, Locals
<1> HIDE DEF b
<1>5. /\ node.indirect = w.inode.indirect
      /\ \A k \in Directs : node.direct[k] = IF k = w.i THEN b ELSE w.inode.direct[k]
  BY <1>2, <1>3 DEF InodeType
<1> HIDE DEF node
<1>6. /\ w'.inode = node /\ w'.block = b /\ w'.i = w.i /\ w'.written = w.written
      /\ w'.inumber = w.inumber /\ w'.offset = w.offset /\ w'.word = w.word
  BY <1>2, <1>4 DEF Locals
<1>7. OnDisk' = OnDisk
  BY <1>1, <1>6 DEF OnDisk
<1>8. AtPrefix' => AtPrefix
  BY <1>1, <1>6, <1>7 DEF AtPrefix
<1>9. b # w.inode.indirect /\ b \notin Held
  BY <1>2, <1>3, BlockIsNew DEF Hand
<1>10. DirectBlocks(node) \subseteq DirectBlocks(w.inode) \cup {b}
  BY <1>5 DEF DirectBlocks
<1>11. IndirectBlocks(disk, node) = IndirectBlocks(disk, w.inode)
  BY <1>5 DEF IndirectBlocks
<1>12. Inner(disk, node)
  BY <1>2, <1>5, <1>9, <1>10, <1>11 DEF Inner, Aim
<1>13. \A k \in Directs : w.inode.direct[k] # b
  BY <1>3, <1>9 DEF Held, Owned, DirectBlocks
<1>14. InPlace'
  <2>1. ~UsesIndirect'
    BY <1>1, <1>2, <1>6, Sizes DEF UsesIndirect
  <2>2. b \notin IndirectBlocks(disk, node)
    BY <1>9, <1>11 DEF Held, Owned
  <2> QED
    BY <1>1, <1>3, <1>5, <1>6, <1>9, <1>13, <2>1, <2>2 DEF InPlace
<1>15. ASSUME AtPrefix PROVE ReadsText(disk, node, w.word, w.offset + w.written)
  <2> SUFFICES ASSUME NEW k \in Nat, NEW m \in Entries,
                      k * BLOCK_SIZE + m < w.offset + w.written
               PROVE  ReadBlock(disk, node, k)[m] = Text(w.word, k * BLOCK_SIZE + m)
    BY DEF ReadsText
  <2>1. ReadBlock(disk, w.inode, k)[m] = Text(w.word, k * BLOCK_SIZE + m)
    BY <1>2, <1>15 DEF Aim, ReadsText
  <2>2. k < w.i
    BY <1>1, <1>2, CopiedBefore
  <2>3. k \in Directs /\ k # w.i /\ k < POINTERS_PER_INODE
    BY <1>1, <1>2, <2>2, Sizes DEF Directs
  <2> QED
    BY <1>5, <2>1, <2>3 DEF ReadBlock
<1>16. InnerFiles'
  BY <1>1, <1>2 DEF InnerFiles
<1> QED
  BY <1>1, <1>2, <1>5, <1>6, <1>7, <1>8, <1>12, <1>14, <1>15, <1>16 DEF Aim

LEMMA AReadIndirect ==
    ASSUME TInv, OInv, RInv, ReadIndirect, Clean'
    PROVE  InnerFiles' /\ (Writing' => Aim')
<1>1. /\ UNCHANGED <<disk, stale, skipped>> /\ pc = "loop" /\ pc' = "entry"
      /\ Clean /\ Writing
      /\ w' = [w EXCEPT !.indirect = disk[w.inode.indirect]]
  BY DEF ReadIndirect, history, Clean, Writing
<1>2. InnerFiles /\ Aim /\ w \in Locals
  BY <1>1, InTheMiddle
<1>3. /\ w'.inode = w.inode /\ w'.written = w.written /\ w'.indirect = disk[w.inode.indirect]
      /\ w'.inumber = w.inumber /\ w'.offset = w.offset /\ w'.word = w.word
  BY <1>1, <1>2 DEF Locals
<1>4. OnDisk' = OnDisk
  BY <1>1, <1>3 DEF OnDisk
<1>5. AtPrefix' => AtPrefix
  BY <1>1, <1>3, <1>4 DEF AtPrefix
<1> QED
  BY <1>1, <1>2, <1>3, <1>4, <1>5 DEF InnerFiles, Aim

LEMMA AAllocEntry ==
    ASSUME TInv, OInv, RInv, AllocEntry, Clean'
    PROVE  InnerFiles' /\ (Writing' => Aim')
<1> DEFINE b == Min(Unmarked)
           e == w.i - POINTERS_PER_INODE
           table == [w.indirect EXCEPT ![e] = b]
<1>1. /\ UNCHANGED <<disk, stale, skipped>> /\ pc = "entry" /\ pc' = "data"
      /\ Clean /\ Writing /\ w' = [w EXCEPT !.indirect = table, !.block = b]
  BY DEF AllocEntry, history, Clean, Writing
<1>2. /\ Files /\ Hand /\ InnerFiles /\ Aim /\ w \in Locals /\ is_mounted
      /\ w.i \in Nat /\ w.i >= POINTERS_PER_INODE /\ e \in Entries
  <2>1. w.i >= POINTERS_PER_INODE /\ w.i < NPointers
    BY <1>1 DEF TInv, Progress
  <2> QED
    BY <1>1, <2>1, InTheMiddle, Sizes DEF BLOCK_SIZE
<1>3. b \in DataBlocks /\ b \notin free_blocks /\ b # 0
  BY BlockFound, Geometry DEF AllocEntry
<1> HIDE DEF b, e
<1>4. table[e] = b /\ \A m \in Entries \ {e} : table[m] = w.indirect[m]
  BY <1>2 DEF Locals, Contents
<1> HIDE DEF table
<1>5. /\ w'.inode = w.inode /\ w'.block = b /\ w'.i = w.i /\ w'.written = w.written
      /\ w'.inumber = w.inumber /\ w'.offset = w.offset /\ w'.word = w.word
      /\ w'.indirect = table
  BY <1>1, <1>2 DEF Locals
<1>6. OnDisk' = OnDisk
  BY <1>1, <1>5 DEF OnDisk
<1>7. AtPrefix' => AtPrefix
  BY <1>1, <1>5, <1>6 DEF AtPrefix
<1>8. b # w.inode.indirect /\ b \notin Held
  BY <1>2, <1>3, BlockIsNew DEF Hand
<1>9. InPlace'
  <2>1. b \notin IndirectBlocks(disk, w.inode) /\ b \notin DirectBlocks(w.inode)
    BY <1>8 DEF Held, Owned
  <2>2. \A k \in Directs : w.inode.direct[k] # b
    BY <1>3, <2>1 DEF DirectBlocks
  <2>3. w.indirect = disk[w.inode.indirect]
    BY <1>1, <1>2 DEF Aim
  <2>4. ~(w.i < POINTERS_PER_INODE) /\ w'.i - POINTERS_PER_INODE = e
    BY <1>2, <1>5, Sizes DEF e
  <2> QED
    BY <1>1, <1>3, <1>4, <1>5, <1>8, <2>1, <2>2, <2>3, <2>4 DEF InPlace
<1> QED
  BY <1>1, <1>2, <1>5, <1>6, <1>7, <1>9 DEF InnerFiles, Aim

(* A write to a block that the file does not own leaves it as it was.      *)
LEMMA OwnSame ==
    ASSUME TInv, OInv, RInv, Writing, Clean, NEW b \in DataBlocks, NEW c \in Contents,
           disk' = disk_write(disk, b, c), b \notin Owned(disk, OnDisk),
           w'.inumber = w.inumber, w'.word = w.word, w'.offset = w.offset
    PROVE  /\ OnDisk' = OnDisk /\ Content(disk', OnDisk') = Content(disk, OnDisk)
           /\ Owned(disk', OnDisk') = Owned(disk, OnDisk)
           /\ AtPrefix' => AtPrefix
<1>1. w.inumber \in Inumbers /\ Owned(disk, OnDisk) \subseteq 0..(NBlocks - 1)
      /\ OnDisk \in InodeType
  BY InTheMiddle
<1>2. OnDisk' = OnDisk
  BY <1>1, DataStep DEF OnDisk
<1>3. Content(disk', OnDisk') = Content(disk, OnDisk)
  BY <1>1, DataElsewhere DEF OnDisk
<1>4. Owned(disk', OnDisk') = Owned(disk, OnDisk)
  <2>1. OnDisk.indirect # b
    BY Geometry DEF Owned
  <2> QED
    BY <1>1, <1>2, <2>1, DataStep
<1> QED
  BY <1>2, <1>3, <1>4 DEF AtPrefix

LEMMA InnerFilesData ==
    ASSUME TInv, InnerFiles, NEW b \in DataBlocks, NEW c \in Contents,
           disk' = disk_write(disk, b, c),
           \A n \in ValidInodes(disk) :
              b # ld_inode(disk, n).indirect \/ Inner(disk', ld_inode(disk, n))
    PROVE  InnerFiles'
<1>1. /\ ValidInodes(disk') = ValidInodes(disk)
      /\ \A n \in Inumbers : ld_inode(disk', n) = ld_inode(disk, n)
      /\ \A x \in 0..(NBlocks - 1) : x # b => disk'[x] = disk[x]
  BY DataStep, DataWritten DEF TInv
<1>2. \A n \in ValidInodes(disk) :
         n \in Inumbers /\ ld_inode(disk, n).indirect \in 0..(NBlocks - 1)
  BY InodeFound, Geometry DEF TInv, ValidInodes, InodeType, Pointers
<1> QED
  BY <1>1, <1>2, InnerKept

LEMMA AAllocIndirect ==
    ASSUME TInv, OInv, RInv, AllocIndirect, Clean'
    PROVE  InnerFiles' /\ (Writing' => Aim')
<1> DEFINE b == Min(Unmarked)
           node == [w.inode EXCEPT !.indirect = b]
<1>1. /\ UNCHANGED <<stale, skipped>> /\ pc = "loop" /\ pc' = "entry"
      /\ Clean /\ Writing /\ w.inode.indirect = 0
      /\ disk' = disk_write(disk, b, Zeros)
  BY DEF AllocIndirect, history, Clean, Writing, disk_write
<1>2. /\ Files /\ Hand /\ InnerFiles /\ Aim /\ Paced /\ w \in Locals /\ w.inode \in InodeType
      /\ is_mounted /\ w.inumber \in ValidInodes(disk) /\ w.word \in Nat
  BY <1>1, InTheMiddle DEF Locals
<1>3. b \in DataBlocks /\ b \notin free_blocks /\ b # 0 /\ Zeros \in Contents
  BY BlockFound, Geometry, EmptyBlocks DEF AllocIndirect
<1>4. w' = [w EXCEPT !.inode = node, !.indirect = Zeros]
  BY <1>2 DEF AllocIndirect, Locals
<1> HIDE DEF b
<1>5. node.indirect = b /\ node.direct = w.inode.direct /\ node \in InodeType
  BY <1>2, <1>3 DEF InodeType, Pointers
<1> HIDE DEF node
<1>6. /\ w'.inode = node /\ w'.indirect = Zeros /\ w'.written = w.written
      /\ w'.inumber = w.inumber /\ w'.offset = w.offset /\ w'.word = w.word
  BY <1>2, <1>4 DEF Locals
<1>7. b \notin Held /\ \A n \in ValidInodes(disk) :
         b \notin Owned(disk, ld_inode(disk, n)) /\ ld_inode(disk, n).indirect # b
  BY <1>2, <1>3, BlockIsNew DEF Hand
<1>8. b \notin Owned(disk, OnDisk)
  BY <1>2, <1>7 DEF OnDisk
<1>9. /\ Owned(disk', OnDisk') = Owned(disk, OnDisk) /\ (AtPrefix' => AtPrefix)
  BY <1>1, <1>3, <1>6, <1>8, OwnSame
<1>10. InnerFiles'
  BY <1>1, <1>2, <1>3, <1>7, InnerFilesData
<1>11. disk'[b] = Zeros
  BY <1>1, <1>3, DataWritten DEF TInv
<1>12. \A k \in Directs : w.inode.direct[k] # b
  BY <1>3, <1>7 DEF Held, Owned, DirectBlocks
<1>13. Inner(disk', node)
  BY <1>3, <1>5, <1>11, <1>12 DEF Inner, DirectBlocks, IndirectBlocks, Zeros
<1>14. ASSUME AtPrefix PROVE ReadsText(disk', node, w.word, w.offset + w.written)
  <2> SUFFICES ASSUME NEW k \in Nat, NEW m \in Entries,
                      k * BLOCK_SIZE + m < w.offset + w.written
               PROVE  ReadBlock(disk', node, k)[m] = Text(w.word, k * BLOCK_SIZE + m)
    BY DEF ReadsText
  <2>1. ReadBlock(disk, w.inode, k)[m] = Text(w.word, k * BLOCK_SIZE + m)
    BY <1>2, <1>14 DEF Aim, ReadsText
  <2>2. k < POINTERS_PER_INODE
    <3>1. ASSUME ~(k < POINTERS_PER_INODE) PROVE FALSE
      <4>1. ReadBlock(disk, w.inode, k)[m] = -1
        BY <1>1, <3>1, Geometry DEF ReadBlock, Uninitialized
      <4>2. Text(w.word, k * BLOCK_SIZE + m) \in Nat
        BY <1>2, Composed DEF Text
      <4> QED
        BY <2>1, <4>1, <4>2
    <3> QED
      BY <3>1
  <2>3. k < NPointers
    BY <1>1, <1>2, CopiedBefore
  <2>4. k \in Directs
    BY <2>2, Sizes DEF Directs
  <2>5. ReadBlock(disk', w.inode, k) = ReadBlock(disk, w.inode, k)
    BY <1>1, <1>2, <1>3, <1>12, <2>2, <2>3, <2>4, BlockElsewhere
  <2>6. ReadBlock(disk', node, k) = ReadBlock(disk', w.inode, k)
    BY <1>5, <2>2 DEF ReadBlock
  <2> QED
    BY <2>1, <2>5, <2>6
<1> QED
  BY <1>1, <1>5, <1>6, <1>8, <1>9, <1>10, <1>11, <1>13, <1>14 DEF Aim

(* The block of data is written: the text now goes on to the end of what   *)
(* it holds, at once or when its pointer is written too.                   *)
LEMMA AWriteData ==
    ASSUME TInv, OInv, RInv, WriteData, Clean'
    PROVE  InnerFiles' /\ (Writing' => Aim')
<1> DEFINE b == w.block
           c == Filled(disk[w.block])
           here == w.i * BLOCK_SIZE
           n == numToCopy
<1>1. /\ UNCHANGED <<stale, skipped>> /\ pc = "data" /\ Clean /\ Writing
      /\ b \in DataBlocks /\ disk' = disk_write(disk, b, c)
      /\ w.written < Length /\ w.i < NPointers
  BY DEF WriteData, history, Clean, Writing, disk_write, TInv, Progress
<1>2. /\ Files /\ Hand /\ InnerFiles /\ Aim /\ Paced /\ w \in Locals /\ w.inode \in InodeType
      /\ w.i \in Nat /\ w.offset \in Nat /\ w.written \in Nat
      /\ w.inumber \in ValidInodes(disk) /\ InPlace
  BY <1>1, InTheMiddle DEF Aim
<1>3. c \in Contents /\ disk'[b] = c
  BY <1>1, FilledBlock, DataWritten DEF TInv
<1>4. /\ newOffset = 0 /\ n \in Nat /\ n <= BLOCK_SIZE /\ here \in Nat
      /\ w.offset + w.written = here
  <2>1. newOffset = 0 /\ n \in Nat /\ n <= BLOCK_SIZE
    BY <1>1, <1>2, FromTheStart, Amount
  <2>2. here \in Nat
    BY <1>2, Sizes
  <2>3. w.offset + w.written = here
    BY <1>1, <1>2 DEF Paced
  <2> QED
    BY <2>1, <2>2, <2>3
<1>5. \A m \in 0..(n - 1) : c[m] = Text(w.word, here + m)
  <2> TAKE m \in 0..(n - 1)
  <2>1. m \in Entries /\ m \in newOffset..(newOffset + numToCopy - 1)
    BY <1>4, Sizes
  <2>2. c[m] = Text(w.word, w.offset + w.written + m - newOffset)
    BY <2>1 DEF Filled
  <2>3. w.offset + w.written + m - newOffset = here + m
    BY <1>2, <1>4, <2>1
  <2> QED
    BY <2>2, <2>3
<1>6. /\ \/ w.i < POINTERS_PER_INODE /\ NextBlock
         \/ ~(w.i < POINTERS_PER_INODE) /\ pc' = "indirect" /\ w' = w
      /\ w'.inumber = w.inumber /\ w'.inode = w.inode /\ w'.offset = w.offset
      /\ w'.word = w.word /\ w'.indirect = w.indirect /\ w'.block = b
      /\ pc' \in {"loop", "indirect"} /\ (pc' = "indirect" => w' = w /\ ~(w.i < POINTERS_PER_INODE))
      /\ pc' = "loop" => w.i < POINTERS_PER_INODE /\ w'.written = w.written + n
  <2>1. \/ w.i < POINTERS_PER_INODE /\ NextBlock
        \/ ~(w.i < POINTERS_PER_INODE) /\ pc' = "indirect" /\ w' = w
    BY DEF WriteData
  <2>2. CASE w.i < POINTERS_PER_INODE /\ NextBlock
    BY <1>1, <1>2, <2>2, Advanced DEF NextBlock, Locals
  <2>3. CASE ~(w.i < POINTERS_PER_INODE) /\ pc' = "indirect" /\ w' = w
    BY <2>3
  <2> QED
    BY <2>1, <2>2, <2>3
<1>7. \A f \in ValidInodes(disk) : b \notin Owned(disk, ld_inode(disk, f))
  BY <1>1, <1>2 DEF Hand
<1>8. b # 0 /\ b # w.inode.indirect /\ b \notin IndirectBlocks(disk, w.inode)
  BY <1>1, <1>2, Geometry DEF InPlace
<1> HIDE DEF c, here, n
<1>9. /\ OnDisk' = OnDisk /\ Owned(disk', OnDisk') = Owned(disk, OnDisk)
      /\ AtPrefix' => AtPrefix
  BY <1>1, <1>2, <1>3, <1>6, <1>7, OwnSame DEF OnDisk
<1>10. InnerFiles'
  <2>1. \A f \in ValidInodes(disk) : b # ld_inode(disk, f).indirect
    BY <1>7, <1>8 DEF Owned
  <2> QED
    BY <1>1, <1>2, <1>3, <2>1, InnerFilesData
<1>11. disk'[w.inode.indirect] = disk[w.inode.indirect]
  <2>1. w.inode.indirect \in 0..(NBlocks - 1)
    BY <1>2, Geometry DEF InodeType, Pointers
  <2> QED
    BY <1>1, <1>3, <1>8, <2>1, DataWritten DEF TInv
<1>12. Inner(disk', w.inode) /\ IndirectBlocks(disk', w.inode) = IndirectBlocks(disk, w.inode)
  BY <1>2, <1>11, InnerSame DEF Aim, IndirectBlocks
<1>13. ASSUME AtPrefix, NEW k \in Nat, NEW m \in Entries, k < w.i, k * BLOCK_SIZE + m < here
       PROVE  ReadBlock(disk', w.inode, k)[m] = Text(w.word, k * BLOCK_SIZE + m)
  <2>1. ReadBlock(disk, w.inode, k)[m] = Text(w.word, k * BLOCK_SIZE + m)
    BY <1>2, <1>4, <1>13 DEF Aim, ReadsText
  <2>2. k < NPointers
    BY <1>1, <1>2, <1>13, Sizes
  <2>3. k < POINTERS_PER_INODE => w.inode.direct[k] # b
    <3>1. ASSUME k < POINTERS_PER_INODE PROVE k \in Directs /\ k # w.i
      BY <1>2, <1>13, <3>1, Sizes DEF Directs
    <3> QED
      BY <1>2, <3>1 DEF InPlace
  <2>4. ReadBlock(disk', w.inode, k) = ReadBlock(disk, w.inode, k)
    BY <1>1, <1>2, <1>3, <1>8, <2>2, <2>3, BlockElsewhere
  <2> QED
    BY <2>1, <2>4
<1>14. ASSUME pc' = "loop", AtPrefix
       PROVE  ReadsText(disk', w.inode, w.word, here + n)
  <2>1. ReadBlock(disk', w.inode, w.i) = c
    BY <1>2, <1>3, <1>6, <1>14 DEF ReadBlock, InPlace
  <2>2. \A m \in 0..(n - 1) :
           ReadBlock(disk', w.inode, w.i)[m] = Text(w.word, w.i * BLOCK_SIZE + m)
    BY <1>5, <2>1 DEF here
  <2> QED
    BY <1>2, <1>4, <1>13, <1>14, <2>2, ReadsMore DEF here
<1>15. ASSUME pc' = "indirect", AtPrefix
       PROVE  ReadsText(disk', w.inode, w.word, here)
  <2> SUFFICES ASSUME NEW k \in Nat, NEW m \in Entries, k * BLOCK_SIZE + m < here
               PROVE  ReadBlock(disk', w.inode, k)[m] = Text(w.word, k * BLOCK_SIZE + m)
    BY DEF ReadsText
  <2>1. k < w.i
    BY <1>2, BlockBefore DEF here
  <2> QED
    BY <1>13, <1>15, <2>1
<1>16. CASE pc' = "loop"
  <2>1. w'.offset + w'.written = here + n
    BY <1>2, <1>4, <1>6, <1>16
  <2> QED
    BY <1>2, <1>6, <1>9, <1>10, <1>12, <1>14, <1>16, <2>1 DEF Aim
<1>17. CASE pc' = "indirect"
  <2>1. w' = w /\ numToCopy' = n /\ pc = "data" /\ ~(w.i < POINTERS_PER_INODE)
    BY <1>1, <1>6, <1>17 DEF numToCopy, newOffset, Length, n
  <2>2. \A m \in 0..(n - 1) : disk'[b][m] = Text(w.word, w.offset + w.written + m)
    BY <1>3, <1>4, <1>5
  <2>3. UsesIndirect
    BY <1>1, <1>2, <2>1, Sizes DEF UsesIndirect
  <2>4. InPlace'
    BY <1>2, <1>11, <1>12, <2>1, <2>3 DEF InPlace
  <2>5. w.inode.indirect # OnDisk.indirect => w.inode.indirect \notin Owned(disk', OnDisk')
    BY <1>2, <1>9 DEF Aim
  <2>6. AtPrefix' => ReadsText(disk', w.inode, w.word, w.offset + w.written)
    BY <1>4, <1>9, <1>15, <1>17
  <2> QED
    BY <1>9, <1>10, <1>12, <1>17, <2>1, <2>2, <2>4, <2>5, <2>6 DEF Aim
<1> QED
  BY <1>6, <1>16, <1>17

(* Writing an inode's own table changes only the blocks whose pointers     *)
(* change.                                                                 *)
LEMMA TableElsewhere ==
    ASSUME TInv, NEW node \in InodeType, node.indirect \in DataBlocks, Inner(disk, node),
           NEW t \in Contents, disk' = disk_write(disk, node.indirect, t),
           NEW k \in Nat, k < NPointers,
           k >= POINTERS_PER_INODE =>
              t[k - POINTERS_PER_INODE] = disk[node.indirect][k - POINTERS_PER_INODE]
    PROVE  ReadBlock(disk', node, k) = ReadBlock(disk, node, k)
<1> DEFINE x == node.indirect
<1>1. /\ x # 0 /\ disk'[x] = t
      /\ \A y \in 0..(NBlocks - 1) : y # x => disk'[y] = disk[y]
  BY DataWritten, Geometry DEF TInv
<1>2. CASE k < POINTERS_PER_INODE
  <2>1. node.direct[k] \in 0..(NBlocks - 1) /\ node.direct[k] # x
    <3>1. k \in Directs
      BY <1>2, Sizes DEF Directs
    <3> QED
      BY <1>1, <3>1, Geometry DEF InodeType, Pointers, Inner, DirectBlocks
  <2> QED
    BY <1>1, <1>2, <2>1 DEF ReadBlock
<1>3. CASE ~(k < POINTERS_PER_INODE)
  <2> DEFINE e == disk[x][k - POINTERS_PER_INODE]
  <2>1. k - POINTERS_PER_INODE \in Entries /\ k >= POINTERS_PER_INODE
    BY <1>3, Sizes DEF BLOCK_SIZE
  <2>2. disk'[x][k - POINTERS_PER_INODE] = e
    BY <1>1, <2>1
  <2>3. e \in DataBlocks => e # x /\ e \in 0..(NBlocks - 1)
    BY <1>1, <2>1, Geometry DEF Inner, IndirectBlocks
  <2> QED
    BY <1>1, <1>3, <2>2, <2>3 DEF ReadBlock
<1> QED
  BY <1>2, <1>3

(* What is known when the table is written.                                *)
LEMMA TableWritten ==
    ASSUME TInv, OInv, RInv, WriteIndirect, Clean
    PROVE
    /\ UNCHANGED <<stale, skipped>> /\ pc = "indirect" /\ Writing
    /\ w.inode.indirect \in DataBlocks
    /\ disk' = disk_write(disk, w.inode.indirect, w.indirect)
    /\ w.written < Length /\ w.i < NPointers /\ w.i >= POINTERS_PER_INODE /\ NextBlock
    /\ Files /\ Hand /\ InnerFiles /\ Aim /\ Paced /\ w \in Locals /\ w.inode \in InodeType
    /\ w.i \in Nat /\ w.offset \in Nat /\ w.written \in Nat
    /\ w.inumber \in ValidInodes(disk) /\ w.inumber \in Inumbers
    /\ OnDisk \in InodeType /\ InPlace
    /\ w.indirect \in Contents /\ w.indirect \in PointerTables /\ w.inode.indirect # 0
    /\ UsesIndirect /\ w.i - POINTERS_PER_INODE \in Entries
    /\ Inner(disk, w.inode) /\ Inner(disk, OnDisk)
    /\ disk'[w.inode.indirect] = w.indirect /\ disk'[w.block] = disk[w.block]
    /\ w.block \in DataBlocks /\ w.block # w.inode.indirect
    /\ w.indirect[w.i - POINTERS_PER_INODE] = w.block
    /\ \A m \in Entries \ {w.i - POINTERS_PER_INODE} :
          w.indirect[m] = disk[w.inode.indirect][m]
<1> DEFINE x == w.inode.indirect
           t == w.indirect
           b == w.block
           e == w.i - POINTERS_PER_INODE
<1>1. /\ UNCHANGED <<stale, skipped>> /\ pc = "indirect" /\ Writing
      /\ x \in DataBlocks /\ disk' = disk_write(disk, x, t)
      /\ w.written < Length /\ w.i < NPointers /\ w.i >= POINTERS_PER_INODE /\ NextBlock
  BY DEF WriteIndirect, history, Writing, disk_write, TInv, Progress
<1>2. /\ Files /\ Hand /\ InnerFiles /\ Aim /\ Paced /\ w \in Locals /\ w.inode \in InodeType
      /\ w.i \in Nat /\ w.offset \in Nat /\ w.written \in Nat
      /\ w.inumber \in ValidInodes(disk) /\ w.inumber \in Inumbers
      /\ OnDisk \in InodeType /\ InPlace
  BY <1>1, InTheMiddle DEF Aim
<1>3. /\ t \in Contents /\ t \in PointerTables /\ x # 0 /\ UsesIndirect /\ e \in Entries
      /\ Inner(disk, w.inode) /\ Inner(disk, OnDisk)
  <2>1. UsesIndirect
    BY <1>1 DEF UsesIndirect
  <2>2. e \in Entries
    BY <1>1, <1>2, Sizes DEF BLOCK_SIZE
  <2> QED
    BY <1>1, <1>2, <2>1, <2>2, Geometry DEF Locals, Hand, Aim, InnerFiles, OnDisk
<1>4. /\ disk'[x] = t /\ b \in DataBlocks /\ b # x /\ disk'[b] = disk[b] /\ t[e] = b
      /\ \A m \in Entries \ {e} : t[m] = disk[x][m]
  <2>1. b \in DataBlocks /\ b # x /\ t[e] = b /\ \A m \in Entries \ {e} : t[m] = disk[x][m]
    BY <1>2, <1>3 DEF InPlace
  <2> QED
    BY <1>1, <1>3, <2>1, DataWritten, Geometry DEF TInv
<1> HIDE DEF x, t, b, e
<1> QED
  BY <1>1, <1>2, <1>3, <1>4 DEF x, t, b, e

(* The new entry is past what the file shows.                              *)
LEMMA TableKeepsOwn ==
    ASSUME TInv, OInv, RInv, WriteIndirect, Clean, Shown(OnDisk) = w.offset
    PROVE  Content(disk', OnDisk) = Content(disk, OnDisk)
<1> DEFINE x == w.inode.indirect
           t == w.indirect
           b == w.block
           e == w.i - POINTERS_PER_INODE
<1>1. /\ x \in DataBlocks /\ disk' = disk_write(disk, x, t) /\ t \in Contents
      /\ Writing /\ Paced /\ w \in Locals /\ OnDisk \in InodeType
      /\ w.i \in Nat /\ w.offset \in Nat /\ w.written \in Nat
      /\ w.inumber \in Inumbers
      /\ Inner(disk, OnDisk) /\ \A m \in Entries \ {e} : t[m] = disk[x][m]
      /\ x # OnDisk.indirect => x \notin Owned(disk, OnDisk)
  BY TableWritten DEF Aim
<1> HIDE DEF e
<1>2. CASE x # OnDisk.indirect
  <2>1. Owned(disk, OnDisk) \subseteq 0..(NBlocks - 1)
    BY <1>1, InTheMiddle
  <2>2. ld_inode(disk', w.inumber) = OnDisk
    BY <1>1, DataStep DEF OnDisk
  <2> QED
    BY <1>1, <1>2, <2>1, <2>2, DataElsewhere DEF OnDisk
<1>3. CASE x = OnDisk.indirect
  <2>1. ASSUME NEW k \in Nat, NEW m \in Entries, k * BLOCK_SIZE + m < Shown(OnDisk)
        PROVE  ReadBlock(disk', OnDisk, k)[m] = ReadBlock(disk, OnDisk, k)[m]
    <3>1. k * BLOCK_SIZE + m < w.offset + w.written
      BY <1>1, <2>1, Composed
    <3>2. k < w.i /\ k < NPointers
      BY <1>1, <3>1, CopiedBefore
    <3>3. k >= POINTERS_PER_INODE =>
             t[k - POINTERS_PER_INODE] = disk[x][k - POINTERS_PER_INODE]
      <4> HAVE k >= POINTERS_PER_INODE
      <4>1. k - POINTERS_PER_INODE \in Entries /\ k - POINTERS_PER_INODE # e
        BY <1>1, <3>2, Sizes DEF e, BLOCK_SIZE
      <4> QED
        BY <1>1, <4>1
    <3> QED
      BY <1>1, <1>3, <3>2, <3>3, TableElsewhere
  <2> QED
    BY <1>1, <2>1, ContentByUnits
<1> QED
  BY <1>2, <1>3

(* The table is written, and the block that the new entry leads to goes on *)
(* with the text.                                                          *)
LEMMA AWriteIndirect ==
    ASSUME TInv, OInv, RInv, WriteIndirect, Clean'
    PROVE  InnerFiles' /\ (Writing' => Aim')
<1> DEFINE x == w.inode.indirect
           t == w.indirect
           b == w.block
           e == w.i - POINTERS_PER_INODE
           here == w.i * BLOCK_SIZE
           n == numToCopy
<1>1. /\ UNCHANGED <<stale, skipped>> /\ pc = "indirect" /\ Clean /\ Writing
      /\ x \in DataBlocks /\ disk' = disk_write(disk, x, t)
      /\ w.written < Length /\ w.i < NPointers /\ w.i >= POINTERS_PER_INODE /\ NextBlock
  <2>1. Clean
    BY DEF WriteIndirect, history, Clean
  <2> QED
    BY <2>1, TableWritten
<1>2. /\ Files /\ Hand /\ InnerFiles /\ Aim /\ Paced /\ w \in Locals /\ w.inode \in InodeType
      /\ w.i \in Nat /\ w.offset \in Nat /\ w.written \in Nat
      /\ w.inumber \in ValidInodes(disk) /\ w.inumber \in Inumbers
      /\ OnDisk \in InodeType /\ InPlace
  BY <1>1, TableWritten
<1>3. /\ t \in Contents /\ t \in PointerTables /\ x # 0 /\ UsesIndirect /\ e \in Entries
      /\ Inner(disk, w.inode) /\ Inner(disk, OnDisk)
  BY <1>1, TableWritten
<1>4. /\ disk'[x] = t /\ b \in DataBlocks /\ b # x /\ disk'[b] = disk[b] /\ t[e] = b
      /\ \A m \in Entries \ {e} : t[m] = disk[x][m]
  BY <1>1, TableWritten
<1>5. /\ newOffset = 0 /\ n \in Nat /\ n <= BLOCK_SIZE /\ here \in Nat
      /\ w.offset + w.written = here
  <2>1. newOffset = 0 /\ n \in Nat /\ n <= BLOCK_SIZE
    BY <1>1, <1>2, FromTheStart, Amount
  <2>2. here \in Nat
    BY <1>2, Sizes
  <2>3. w.offset + w.written = here
    BY <1>1, <1>2 DEF Paced
  <2> QED
    BY <2>1, <2>2, <2>3
<1>6. /\ w'.inumber = w.inumber /\ w'.inode = w.inode /\ w'.offset = w.offset
      /\ w'.word = w.word /\ w'.written = w.written + n /\ pc' = "loop"
  BY <1>1, <1>2, Advanced DEF NextBlock, Locals
<1>7. OnDisk' = OnDisk
  BY <1>1, <1>2, <1>3, <1>6, DataStep DEF OnDisk
<1>8. x \notin IndirectBlocks(disk', w.inode)
  <2>1. ASSUME NEW m \in Entries, t[m] # 0 PROVE t[m] # x
    <3>1. CASE m = e
      BY <1>4, <3>1
    <3>2. CASE m # e
      BY <1>3, <1>4, <2>1, <3>2 DEF Inner, IndirectBlocks
    <3> QED
      BY <3>1, <3>2
  <2> QED
    BY <1>3, <1>4, <2>1 DEF IndirectBlocks
<1>9. Inner(disk', w.inode)
  BY <1>3, <1>8 DEF Inner
<1>10. InnerFiles'
  <2>1. ASSUME NEW f \in ValidInodes(disk), x = ld_inode(disk, f).indirect
        PROVE  Inner(disk', ld_inode(disk, f))
    <3>1. f = w.inumber
      <4>1. x \in Held /\ x \in Owned(disk, ld_inode(disk, f))
        BY <1>3, <2>1 DEF Held, Owned
      <4> QED
        BY <1>2, <4>1 DEF Hand
    <3>2. IndirectBlocks(disk', OnDisk) = IndirectBlocks(disk', w.inode)
      BY <2>1, <3>1 DEF IndirectBlocks, OnDisk
    <3> QED
      BY <1>3, <1>8, <2>1, <3>1, <3>2 DEF Inner, OnDisk
  <2> QED
    BY <1>1, <1>2, <1>3, <2>1, InnerFilesData
<1> HIDE DEF here, n, e
<1>11. AtPrefix' => AtPrefix
  <2> HAVE AtPrefix'
  <2>1. Content(disk', OnDisk) = Store!Prefix(w.word, w.offset)
    BY <1>6, <1>7 DEF AtPrefix
  <2>2. Shown(OnDisk) = w.offset
    BY <1>2, <2>1, ContentReads
  <2> QED
    BY <1>1, <2>1, <2>2, TableKeepsOwn DEF AtPrefix
<1>12. x # OnDisk'.indirect => x \notin Owned(disk', OnDisk')
  <2> HAVE x # OnDisk'.indirect
  <2>1. x \notin Owned(disk, OnDisk)
    BY <1>2, <1>7 DEF Aim
  <2> QED
    BY <1>1, <1>3, <1>6, <2>1, OwnSame
<1>13. ASSUME AtPrefix, NEW k \in Nat, NEW m \in Entries, k < w.i, k * BLOCK_SIZE + m < here
       PROVE  ReadBlock(disk', w.inode, k)[m] = Text(w.word, k * BLOCK_SIZE + m)
  <2>1. ReadBlock(disk, w.inode, k)[m] = Text(w.word, k * BLOCK_SIZE + m)
    BY <1>2, <1>5, <1>13 DEF Aim, ReadsText
  <2>2. k < NPointers
    BY <1>1, <1>2, <1>13, Sizes
  <2>3. k >= POINTERS_PER_INODE =>
           t[k - POINTERS_PER_INODE] = disk[x][k - POINTERS_PER_INODE]
    <3> HAVE k >= POINTERS_PER_INODE
    <3>1. k - POINTERS_PER_INODE \in Entries /\ k - POINTERS_PER_INODE # e
      BY <1>2, <1>13, <2>2, Sizes DEF e, BLOCK_SIZE
    <3> QED
      BY <1>4, <3>1
  <2>4. ReadBlock(disk', w.inode, k) = ReadBlock(disk, w.inode, k)
    BY <1>1, <1>2, <1>3, <2>2, <2>3, TableElsewhere
  <2> QED
    BY <2>1, <2>4
<1>14. AtPrefix => ReadsText(disk', w.inode, w.word, here + n)
  <2> HAVE AtPrefix
  <2>1. ReadBlock(disk', w.inode, w.i) = disk[b]
    <3>1. ~(w.i < POINTERS_PER_INODE)
      BY <1>1, <1>2, Sizes
    <3> QED
      BY <1>3, <1>4, <3>1 DEF ReadBlock, e
  <2>2. ASSUME NEW m \in 0..(n - 1)
        PROVE  ReadBlock(disk', w.inode, w.i)[m] = Text(w.word, w.i * BLOCK_SIZE + m)
    <3>1. disk[b][m] = Text(w.word, w.offset + w.written + m)
      BY <1>1, <1>2 DEF Aim, n
    <3> QED
      BY <1>5, <2>1, <3>1 DEF here
  <2> QED
    BY <1>2, <1>5, <1>13, <2>2, ReadsMore DEF here
<1>15. w'.offset + w'.written = here + n
  BY <1>2, <1>5, <1>6
<1> QED
  BY <1>6, <1>9, <1>10, <1>11, <1>12, <1>14, <1>15 DEF Aim

LEMMA InnerInode ==
    ASSUME TInv, InnerFiles, NEW f \in Inumbers, NEW node \in InodeType,
           disk' = save_inode(disk, f, node), node.isvalid => Inner(disk, node)
    PROVE  InnerFiles'
<1>1. /\ \A x \in {0} \cup DataBlocks : disk'[x] = disk[x]
      /\ ld_inode(disk', f) = node
      /\ \A m \in Inumbers \ {f} : ld_inode(disk', m) = ld_inode(disk, m)
  BY InodeWritten DEF TInv
<1>2. ASSUME NEW n \in ValidInodes(disk')
      PROVE  \/ Inner(disk', ld_inode(disk', n))
             \/ /\ n \in ValidInodes(disk) /\ ld_inode(disk', n) = ld_inode(disk, n)
                /\ \/ ld_inode(disk, n).indirect = 0
                   \/ disk'[ld_inode(disk, n).indirect] = disk[ld_inode(disk, n).indirect]
  <2>1. n \in Inumbers /\ ld_inode(disk', n).isvalid
    BY DEF ValidInodes
  <2>2. CASE n = f
    <3>1. Inner(disk, node) /\ disk'[node.indirect] = disk[node.indirect]
      BY <1>1, <2>1, <2>2 DEF InodeType, Pointers
    <3> QED
      BY <1>1, <2>2, <3>1, InnerSame
  <2>3. CASE n # f
    <3>1. ld_inode(disk, n).indirect \in {0} \cup DataBlocks
      BY <2>1, InodeFound DEF TInv, InodeType, Pointers
    <3> QED
      BY <1>1, <2>1, <2>3, <3>1 DEF ValidInodes
  <2> QED
    BY <2>2, <2>3
<1> QED
  BY <1>2, InnerKept

LEMMA AWriteSave ==
    ASSUME TInv, OInv, RInv, WriteSave, Clean'
    PROVE  InnerFiles' /\ ~Writing'
<1> DEFINE node == [w.inode EXCEPT !.size = @ + w.written]
<1>1. pc = "save" /\ Writing /\ Clean /\ pc' \in {"idle", "chunk"}
  BY DEF WriteSave, history, Clean, Writing
<1>2. /\ InnerFiles /\ Inner(disk, w.inode) /\ w \in Locals /\ w.inode \in InodeType
      /\ w.inumber \in Inumbers /\ w.written \in Nat
  BY <1>1, InTheMiddle DEF Aim
<1>3. /\ node \in InodeType /\ node.indirect = w.inode.indirect
      /\ node.direct = w.inode.direct
  BY <1>2 DEF InodeType
<1>4. disk' = save_inode(disk, w.inumber, node)
  BY DEF WriteSave
<1> HIDE DEF node
<1>5. Inner(disk, node)
  BY <1>2, <1>3 DEF Inner, DirectBlocks, IndirectBlocks
<1>6. InnerFiles'
  BY <1>2, <1>3, <1>4, <1>5, InnerInode
<1> QED
  BY <1>1, <1>6 DEF Writing

LEMMA ACreate == ASSUME TInv, RInv, Create, Clean' PROVE InnerFiles' /\ ~Writing'
<1> DEFINE f == Min(Creatable(disk))
           old == ld_inode(disk, f)
           node == [old EXCEPT !.isvalid = TRUE, !.size = 0]
<1>1. Creatable(disk) \in SUBSET Nat /\ Creatable(disk) \subseteq Inumbers
  BY Places DEF Creatable
<1>2. f \in Inumbers
  BY <1>1, LeastExists DEF Create
<1>3. node \in InodeType /\ node.indirect = old.indirect
  BY <1>2, InodeFound DEF TInv, InodeType
<1>4. /\ disk' = save_inode(disk, f, node) /\ Clean /\ old.indirect = 0 /\ pc' = "idle"
  BY DEF Create, Command, Clean
<1> HIDE DEF f, node
<1>5. Inner(disk, node)
  BY <1>3, <1>4 DEF Inner
<1> QED
  BY <1>2, <1>3, <1>4, <1>5, InnerInode DEF RInv, Writing

LEMMA ADelete ==
    ASSUME TInv, RInv, NEW f \in Inumbers, Delete(f), Clean'
    PROVE  InnerFiles' /\ ~Writing'
<1> DEFINE node == ld_inode(disk, f)
           gone == [node EXCEPT !.isvalid = FALSE, !.size = 0]
<1>1. gone \in InodeType /\ ~gone.isvalid
  BY InodeFound DEF TInv, InodeType
<1>2. /\ disk' = disk \/ disk' = save_inode(disk, f, gone)
      /\ pc' \in {"idle", "dead"} /\ Clean
  BY DEF Delete, Command, history, Clean
<1> HIDE DEF gone
<1>3. InnerFiles /\ ~Writing'
  BY <1>2 DEF RInv, Writing
<1>4. CASE disk' = disk
  BY <1>3, <1>4 DEF InnerFiles
<1>5. CASE disk' = save_inode(disk, f, gone)
  BY <1>1, <1>3, <1>5, InnerInode
<1> QED
  BY <1>2, <1>3, <1>4, <1>5

LEMMA FormatBegins ==
    ASSUME TInv, Format
    PROVE  /\ \A n \in Inumbers : ld_inode(disk', n) = ld_inode(disk, n)
           /\ \A x \in DataBlocks : disk'[x] = disk[x]
           /\ ValidInodes(disk') = ValidInodes(disk)
<1>1. \A x \in 0..(NBlocks - 1) : x # 0 => disk'[x] = disk[x]
  <2>1. disk' = [x \in 0..(NBlocks - 1) |-> IF x = 0 THEN SuperBlock ELSE disk[x]]
    BY DEF Format, TInv, Formed
  <2> QED
    BY <2>1
<1>2. \A n \in Inumbers : ld_inode(disk', n) = ld_inode(disk, n)
  BY <1>1, Places, Geometry DEF ld_inode
<1> QED
  BY <1>1, <1>2, Geometry DEF ValidInodes

LEMMA AFormat == ASSUME TInv, RInv, Format, Clean' PROVE InnerFiles' /\ ~Writing'
<1>1. Clean /\ pc' = "format" /\ InnerFiles
  BY DEF Format, history, Clean, RInv
<1>2. ASSUME NEW n \in ValidInodes(disk')
      PROVE  /\ n \in ValidInodes(disk) /\ ld_inode(disk', n) = ld_inode(disk, n)
             /\ \/ ld_inode(disk, n).indirect = 0
                \/ disk'[ld_inode(disk, n).indirect] = disk[ld_inode(disk, n).indirect]
  <2>1. n \in Inumbers /\ ld_inode(disk, n).indirect \in {0} \cup DataBlocks
    BY InodeFound DEF TInv, ValidInodes, InodeType, Pointers
  <2> QED
    BY <2>1, FormatBegins
<1> QED
  BY <1>1, <1>2, InnerKept DEF Writing

LEMMA NoneLeft ==
    ASSUME TInv, OInv, FormatBlock, ~(w.i < NBlocks)
    PROVE  ValidInodes(disk) = {}
<1>1. ASSUME NEW n \in ValidInodes(disk) PROVE FALSE
  <2>1. BlockOf(n) >= w.i /\ BlockOf(n) \in InodeBlocks /\ w.i \in Nat
    BY Places DEF FormatBlock, TInv, OInv, Formatting, ValidInodes, Locals
  <2> QED
    BY <2>1, Geometry DEF InodeBlocks
<1> QED
  BY <1>1

LEMMA AFormatBlock ==
    ASSUME TInv, OInv, RInv, FormatBlock, Clean'
    PROVE  InnerFiles' /\ ~Writing'
<1>0. pc' \in {"idle", "format"}
  BY DEF FormatBlock
<1>1. CASE w.i < NBlocks
  <2>1. InnerFiles
    BY <1>1 DEF FormatBlock, history, Clean, RInv
  <2>2. ASSUME NEW n \in ValidInodes(disk')
        PROVE  /\ n \in ValidInodes(disk) /\ ld_inode(disk', n) = ld_inode(disk, n)
               /\ disk'[ld_inode(disk, n).indirect] = disk[ld_inode(disk, n).indirect]
    <3>1. n \in Inumbers /\ ld_inode(disk, n).indirect \in {0} \cup DataBlocks
      BY InodeFound DEF TInv, ValidInodes, InodeType, Pointers
    <3> QED
      BY <1>1, <3>1, FormatStep
  <2>3. InnerFiles'
    BY <2>1, <2>2, InnerKept
  <2> QED
    BY <1>0, <2>3 DEF Writing
<1>2. CASE ~(w.i < NBlocks)
  <2>1. ValidInodes(disk') = {}
    BY <1>2, NoneLeft DEF FormatBlock
  <2> QED
    BY <1>0, <2>1 DEF InnerFiles, Writing
<1> QED
  BY <1>1, <1>2

LEMMA AQuiet ==
    ASSUME TInv, RInv, Clean',
           \/ Crash \/ Mount
           \/ \E n \in Inumbers, x \in Words, len \in Lengths : CopyIn(n, x, len)
    PROVE  InnerFiles' /\ ~Writing'
<1>1. disk' = disk /\ Clean /\ pc' \in {"idle", "dead", "chunk"}
  <2>1. CASE Crash
    BY <2>1 DEF Crash, history, Clean
  <2>2. CASE Mount
    BY <2>2 DEF Mount, Command, Clean
  <2>3. CASE \E n \in Inumbers, x \in Words, len \in Lengths : CopyIn(n, x, len)
    <3>1. PICK n \in Inumbers, x \in Words, len \in Lengths : CopyIn(n, x, len)
      BY <2>3
    <3>2. UNCHANGED <<disk, stale, skipped>> /\ pc' = "chunk"
      BY <3>1 DEF CopyIn, history
    <3> QED
      BY <3>2 DEF Clean
  <2> QED
    BY <2>1, <2>2, <2>3
<1> QED
  BY <1>1 DEF RInv, InnerFiles, Writing

LEMMA SizedAfter ==
    ASSUME TInv, Sized, Writing, w'.inode.size = w.inode.size, w'.inumber = w.inumber,
           \/ disk' = disk
           \/ \E b \in DataBlocks, c \in Contents : disk' = disk_write(disk, b, c)
    PROVE  Sized'
<1>1. w.inumber \in Inumbers
  BY DEF TInv, Progress, Copying, Writing
<1>2. OnDisk' = OnDisk
  BY <1>1, DataStep DEF OnDisk
<1> QED
  BY <1>2 DEF Sized

LEMMA NextSized == ASSUME TInv, Sized, [Next]_vars PROVE Sized'
<1>0. w \in Locals
  BY DEF TInv
<1>1. CASE UNCHANGED vars
  BY <1>1 DEF vars, Sized, Writing, OnDisk
<1>2. CASE \/ Crash \/ Format \/ FormatBlock \/ Mount \/ Create \/ WriteSave
           \/ \E n \in Inumbers : Delete(n)
           \/ \E n \in Inumbers, x \in Words, len \in Lengths : CopyIn(n, x, len)
  <2>1. pc' \in {"idle", "dead", "format", "chunk"}
    BY <1>2 DEF Crash, Format, FormatBlock, Mount, Create, Delete, Command, WriteSave, CopyIn
  <2> QED
    BY <2>1 DEF Sized, Writing
<1>3. CASE WriteStart
  <2>1. /\ disk' = disk
        /\ \/ pc' = "idle"
           \/ \E q : w' = [w EXCEPT !.inode = OnDisk, !.i = q, !.written = 0]
    BY <1>3 DEF WriteStart, OnDisk
  <2>2. pc' # "idle" => w'.inode = OnDisk /\ w'.inumber = w.inumber
    BY <1>0, <2>1 DEF Locals
  <2> QED
    BY <2>1, <2>2 DEF Sized, OnDisk, Writing
<1>4. CASE WriteEnd \/ DiskFull
  BY <1>4, SizedAfter DEF WriteEnd, DiskFull, Writing
<1>5. CASE AllocDirect
  <2>1. \E t, b : w' = [w EXCEPT !.inode = [w.inode EXCEPT !.direct = t], !.block = b]
    <3>1. \E t, b : /\ [w.inode EXCEPT !.direct[w.i] = b] = [w.inode EXCEPT !.direct = t]
                    /\ w' = [w EXCEPT !.inode = [w.inode EXCEPT !.direct[w.i] = b], !.block = b]
      BY <1>0, <1>5 DEF AllocDirect, Locals, InodeType
    <3> QED
      BY <3>1
  <2>2. w'.inode.size = w.inode.size /\ w'.inumber = w.inumber
    BY <1>0, <2>1 DEF Locals, InodeType
  <2> QED
    BY <1>5, <2>2, SizedAfter DEF AllocDirect, Writing
<1>6. CASE AllocIndirect
  <2>1. \E b : w' = [w EXCEPT !.inode = [w.inode EXCEPT !.indirect = b], !.indirect = Zeros]
    BY <1>0, <1>6 DEF AllocIndirect, Locals, InodeType
  <2>2. w'.inode.size = w.inode.size /\ w'.inumber = w.inumber
    BY <1>0, <2>1 DEF Locals, InodeType
  <2>3. disk' = disk_write(disk, Min(Unmarked), Zeros) /\ Min(Unmarked) \in DataBlocks
    BY <1>6, BlockFound DEF AllocIndirect, disk_write
  <2> QED
    BY <1>6, <2>2, <2>3, EmptyBlocks, SizedAfter DEF AllocIndirect, Writing
<1>7. CASE ReadIndirect \/ AllocEntry
  <2>1. \E t, b : w' = [w EXCEPT !.indirect = t] \/ w' = [w EXCEPT !.indirect = t, !.block = b]
    BY <1>0, <1>7 DEF ReadIndirect, AllocEntry, Locals
  <2>2. w'.inode = w.inode /\ w'.inumber = w.inumber
    BY <1>0, <2>1 DEF Locals
  <2> QED
    BY <1>7, <2>2, SizedAfter DEF ReadIndirect, AllocEntry, Writing
<1>8. CASE WriteData \/ WriteIndirect
  <2>1. /\ w.written < Length /\ Writing /\ (NextBlock \/ w' = w)
        /\ pc = "data" => w.block \in DataBlocks
        /\ pc = "indirect" => w.inode.indirect \in DataBlocks
    BY <1>8 DEF WriteData, WriteIndirect, TInv, Progress, Writing
  <2>2. w'.inode = w.inode /\ w'.inumber = w.inumber
    BY <1>0, <2>1, Advanced
  <2>3. \E b \in DataBlocks, c \in Contents : disk' = disk_write(disk, b, c)
    <3>1. CASE WriteData
      BY <2>1, <3>1, FilledBlock DEF WriteData, disk_write
    <3>2. CASE WriteIndirect
      BY <1>0, <2>1, <3>2 DEF WriteIndirect, disk_write, Locals
    <3> QED
      BY <1>8, <3>1, <3>2
  <2> QED
    BY <2>1, <2>2, <2>3, SizedAfter
<1>9. CASE ReadOnlyCommand
  BY <1>1, <1>9 DEF ReadOnlyCommand
<1> QED
  BY <1>1, <1>2, <1>3, <1>4, <1>5, <1>6, <1>7, <1>8, <1>9 DEF Next

LEMMA NextRInv == ASSUME TInv, OInv, RInv, [Next]_vars PROVE RInv'
<1>1. Paced' /\ Sized'
  BY NextPaced, NextSized DEF RInv
<1>2. ASSUME Clean' PROVE InnerFiles' /\ (Writing' => Aim')
  <2>1. CASE UNCHANGED vars \/ ReadOnlyCommand
    BY <1>2, <2>1 DEF vars, ReadOnlyCommand, RInv, Clean, InnerFiles, Writing, Aim, OnDisk,
       AtPrefix, InPlace, UsesIndirect, numToCopy, newOffset, Length
  <2> QED
    BY <1>2, <2>1, AQuiet, AFormat, AFormatBlock, ACreate, ADelete, AStart, AEnds, AAllocDirect,
       AAllocIndirect, AReadIndirect, AAllocEntry, AWriteData, AWriteIndirect, AWriteSave
       DEF Next
<1> QED
  BY <1>1, <1>2 DEF RInv

LEMMA InitRInv == Init => RInv
<1> SUFFICES ASSUME Init PROVE RInv
  OBVIOUS
<1>1. ASSUME NEW n \in Inumbers PROVE ~ld_inode(disk, n).isvalid
  <2>1. BlockOf(n) \in InodeBlocks /\ SlotOf(n) \in Slots
    BY Places
  <2>2. disk[BlockOf(n)] = EmptyTable
    BY <2>1, Geometry DEF Init, ZeroBlock
  <2> QED
    BY <2>1, <2>2 DEF EmptyTable, EmptyInode, ld_inode
<1> QED
  BY <1>1 DEF Init, RInv, Paced, Sized, Writing, InnerFiles, ValidInodes

LEMMA AllHolds == Spec => [](TInv /\ OInv /\ RInv)
<1>1. Init => RInv
  BY InitRInv
<1>2. TInv /\ OInv /\ RInv /\ [Next]_vars => RInv'
  BY NextRInv
<1> QED
  BY <1>1, <1>2, InvHolds, PTL DEF Spec

-----------------------------------------------------------------------------
(* The step of the store that each step of the file system is.             *)

AllFiles(d) == [n \in Inumbers |->
                  IF ld_inode(d, n).isvalid THEN Content(d, ld_inode(d, n)) ELSE <<-1>>]
InHand == IF Copying THEN [inumber |-> w.inumber, word |-> w.word, offset |-> w.offset]
          ELSE [inumber |-> -1, word |-> 0, offset |-> 0]

LEMMA Still ==
    ASSUME AllFiles(disk') = AllFiles(disk), InHand' = InHand, is_mounted' = is_mounted,
           Clean' <=> Clean
    PROVE  UNCHANGED Store!vars
BY DEF Store!vars, AllFiles, InHand, Clean

LEMMA Promised == ASSUME Clean, Clean', Store!Operation PROVE Store!Next
BY DEF Store!Next, Clean

LEMMA Broken == ASSUME ~Clean' PROVE Store!Next
BY DEF Store!Next, Clean

LEMMA InHandSame ==
    ASSUME \/ Copying /\ Copying' /\ w'.inumber = w.inumber /\ w'.word = w.word
                /\ w'.offset = w.offset
           \/ ~Copying /\ ~Copying'
    PROVE  InHand' = InHand
BY DEF InHand

LEMMA IsMount ==
    ASSUME AllFiles(disk') = AllFiles(disk), InHand' = InHand, is_mounted' = TRUE
    PROVE  Store!Mount
BY DEF Store!Mount, AllFiles, InHand

LEMMA IsRestart ==
    ASSUME AllFiles(disk') = AllFiles(disk), ~Copying', is_mounted' = FALSE
    PROVE  Store!Restart
BY DEF Store!Restart, Store!NoCopy, AllFiles

LEMMA IsFormat ==
    ASSUME ~is_mounted, is_mounted' = is_mounted, InHand' = InHand, NEW gone \in SUBSET Inumbers,
           AllFiles(disk') = [n \in Inumbers |-> IF n \in gone THEN <<-1>> ELSE AllFiles(disk)[n]]
    PROVE  Store!Format
BY DEF Store!Format, Store!NoFile, AllFiles, InHand

LEMMA IsFormatted ==
    ASSUME ~is_mounted, is_mounted' = is_mounted, InHand' = InHand,
           AllFiles(disk') = [n \in Inumbers |-> <<-1>>]
    PROVE  Store!Formatted
BY DEF Store!Formatted, Store!NoFile, AllFiles, InHand

LEMMA IsCreate ==
    ASSUME is_mounted, is_mounted' = is_mounted, ~Copying, ~Copying', NEW n \in Inumbers,
           AllFiles(disk)[n] = <<-1>>, AllFiles(disk') = [AllFiles(disk) EXCEPT ![n] = <<>>]
    PROVE  Store!Create(n)
BY DEF Store!Create, Store!NoFile, Store!NoCopy, AllFiles

LEMMA IsDelete ==
    ASSUME is_mounted, is_mounted' = is_mounted, ~Copying, ~Copying', NEW n \in Inumbers,
           AllFiles(disk)[n] # <<-1>>, AllFiles(disk') = [AllFiles(disk) EXCEPT ![n] = <<-1>>]
    PROVE  Store!Delete(n)
BY DEF Store!Delete, Store!NoFile, Store!NoCopy, AllFiles

LEMMA IsBeginCopy ==
    ASSUME is_mounted, is_mounted' = is_mounted, ~Copying, NEW n, NEW x,
           InHand' = [inumber |-> n, word |-> x, offset |-> 0],
           AllFiles(disk') = AllFiles(disk)
    PROVE  Store!BeginCopy(n, x)
BY DEF Store!BeginCopy, Store!NoCopy, AllFiles, InHand

LEMMA IsEndCopy ==
    ASSUME is_mounted' = is_mounted, ~Copying', AllFiles(disk') = AllFiles(disk)
    PROVE  Store!EndCopy
BY DEF Store!EndCopy, Store!NoCopy, AllFiles

LEMMA IsAppend ==
    ASSUME Copying, is_mounted' = is_mounted, w.inumber \in Inumbers,
           NEW k \in 0..ChunkSize,
           AllFiles(disk)[w.inumber] = Store!Prefix(w.word, w.offset),
           AllFiles(disk') = [AllFiles(disk) EXCEPT
                                ![w.inumber] = Store!Prefix(w.word, w.offset + k)],
           \/ ~Copying'
           \/ Copying' /\ w'.inumber = w.inumber /\ w'.word = w.word /\ w'.offset = w.offset + k
    PROVE  Store!Append
<1> DEFINE held == [inumber |-> w.inumber, word |-> w.word, offset |-> w.offset]
<1>1. InHand = held /\ held # Store!NoCopy /\ held.inumber = w.inumber
      /\ held.word = w.word /\ held.offset = w.offset
  <2>1. w.inumber \in Nat
    BY Places
  <2> QED
    BY <2>1 DEF InHand, Store!NoCopy
<1>2. InHand' \in {[held EXCEPT !.offset = w.offset + k], Store!NoCopy}
  BY DEF InHand, Store!NoCopy
<1>3. /\ InHand # Store!NoCopy
      /\ AllFiles(disk)[InHand.inumber] = Store!Prefix(InHand.word, InHand.offset)
      /\ AllFiles(disk') = [AllFiles(disk) EXCEPT
                              ![InHand.inumber] = Store!Prefix(InHand.word, InHand.offset + k)]
      /\ InHand' \in {[InHand EXCEPT !.offset = @ + k], Store!NoCopy}
  BY <1>1, <1>2
<1>4. \E j \in 0..ChunkSize :
         /\ AllFiles(disk') = [AllFiles(disk) EXCEPT
                                 ![InHand.inumber] = Store!Prefix(InHand.word, InHand.offset + j)]
         /\ InHand' \in {[InHand EXCEPT !.offset = @ + j], Store!NoCopy}
  BY <1>3
<1> QED
  BY <1>3, <1>4 DEF Store!Append, AllFiles, InHand

LEMMA IsOverwrite ==
    ASSUME Copying, is_mounted' = is_mounted, w.inumber \in Inumbers,
           AllFiles(disk)[w.inumber] \notin {<<-1>>, Store!Prefix(w.word, w.offset)},
           \A n \in Inumbers \ {w.inumber} : AllFiles(disk')[n] = AllFiles(disk)[n],
           \/ ~Copying'
           \/ Copying' /\ w'.inumber = w.inumber /\ w'.word = w.word
    PROVE  Store!Overwrite
<1> DEFINE held == [inumber |-> w.inumber, word |-> w.word, offset |-> w.offset]
<1>1. InHand = held /\ held # Store!NoCopy /\ held.inumber = w.inumber
      /\ held.word = w.word /\ held.offset = w.offset
  <2>1. w.inumber \in Nat
    BY Places
  <2> QED
    BY <2>1 DEF InHand, Store!NoCopy
<1>2. InHand' = Store!NoCopy \/ InHand' = [held EXCEPT !.offset = InHand'.offset]
  BY DEF InHand, Store!NoCopy
<1>3. /\ InHand # Store!NoCopy
      /\ AllFiles(disk)[InHand.inumber]
           \notin {Store!NoFile, Store!Prefix(InHand.word, InHand.offset)}
      /\ \A n \in Inumbers \ {InHand.inumber} : AllFiles(disk')[n] = AllFiles(disk)[n]
      /\ InHand' = Store!NoCopy \/ InHand' = [InHand EXCEPT !.offset = InHand'.offset]
  BY <1>1, <1>2 DEF Store!NoFile
<1> QED
  BY <1>3 DEF Store!Overwrite, AllFiles, InHand

(* What a file is for the store when its inode and its contents stay.      *)
LEMMA FileStays ==
    ASSUME NEW n \in Inumbers,
           n \in ValidInodes(disk') <=> n \in ValidInodes(disk),
           n \in ValidInodes(disk) =>
              Content(disk', ld_inode(disk', n)) = Content(disk, ld_inode(disk, n))
    PROVE  AllFiles(disk')[n] = AllFiles(disk)[n]
BY DEF AllFiles, ValidInodes

LEMMA FilesStay ==
    ASSUME \A n \in Inumbers : AllFiles(disk')[n] = AllFiles(disk)[n]
    PROVE  AllFiles(disk') = AllFiles(disk)
BY DEF AllFiles

LEMMA OneFile ==
    ASSUME NEW f \in Inumbers, NEW v, AllFiles(disk')[f] = v,
           \A n \in Inumbers \ {f} : AllFiles(disk')[n] = AllFiles(disk)[n]
    PROVE  AllFiles(disk') = [AllFiles(disk) EXCEPT ![f] = v]
<1>1. \A n \in Inumbers : AllFiles(disk')[n] = [AllFiles(disk) EXCEPT ![f] = v][n]
  BY DEF AllFiles
<1> QED
  BY <1>1 DEF AllFiles

LEMMA OthersStay ==
    ASSUME TInv, OInv, [Next]_vars, Clean', NEW n \in Inumbers, Apart(n),
           n \in ValidInodes(disk') <=> n \in ValidInodes(disk)
    PROVE  AllFiles(disk')[n] = AllFiles(disk)[n]
BY StepKeeps, FileStays

\* The bitmap, the mount flag, the locals or the pc change, and no block does.
LEMMA DiskSame == ASSUME disk' = disk PROVE AllFiles(disk') = AllFiles(disk)
OBVIOUS

(* Steps of the store that a step of a command other than copyin is.       *)
Step == UNCHANGED Store!vars \/ Store!Next

LEMMA SCrash == ASSUME Crash, Clean, Clean' PROVE Step
<1>1. Store!Restart
  BY IsRestart DEF Crash, Copying
<1> QED
  BY <1>1, Promised DEF Step, Store!Operation

LEMMA SFormat == ASSUME TInv, OInv, Format, Clean, Clean' PROVE Step
<1>1. ASSUME NEW n \in Inumbers PROVE AllFiles(disk')[n] = AllFiles(disk)[n]
  <2>1. n \in ValidInodes(disk') <=> n \in ValidInodes(disk)
    BY FormatBegins
  <2>2. Apart(n) /\ [Next]_vars
    BY DEF Format, Command, Apart, Next
  <2> QED
    BY <2>1, <2>2, OthersStay
<1>2. AllFiles(disk') = AllFiles(disk)
  BY <1>1, FilesStay
<1>3. ~Copying /\ ~Copying' /\ is_mounted' = is_mounted
  BY DEF Format, Command, Copying, memory
<1> QED
  BY <1>2, <1>3, InHandSame, Still DEF Step

LEMMA SFormatBlock == ASSUME TInv, OInv, FormatBlock, Clean' PROVE Step
<1>1. ~is_mounted /\ is_mounted' = is_mounted /\ InHand' = InHand /\ pc = "format"
  <2>1. ~Copying /\ ~Copying'
    BY DEF FormatBlock, Copying
  <2>2. ~is_mounted /\ is_mounted' = is_mounted /\ pc = "format"
    BY DEF FormatBlock, TInv, Progress, memory
  <2> QED
    BY <2>1, <2>2, InHandSame
<1>2. CASE w.i < NBlocks
  <2> DEFINE gone == Inumbers \ ValidInodes(disk')
  <2>1. Clean
    BY <1>2 DEF FormatBlock, history, Clean
  <2>2. ASSUME NEW n \in Inumbers
        PROVE  AllFiles(disk')[n] = IF n \in gone THEN <<-1>> ELSE AllFiles(disk)[n]
    <3>1. CASE n \in ValidInodes(disk')
      <4>1. n \in ValidInodes(disk)
        BY <1>2, <3>1, FormatStep
      <4>2. Apart(n) /\ [Next]_vars
        BY <1>1 DEF Apart, Next
      <4> QED
        BY <3>1, <4>1, <4>2, OthersStay
    <3>2. CASE n \notin ValidInodes(disk')
      BY <3>2 DEF AllFiles, ValidInodes
    <3> QED
      BY <3>1, <3>2
  <2>3. AllFiles(disk') = [n \in Inumbers |-> IF n \in gone THEN <<-1>> ELSE AllFiles(disk)[n]]
    BY <2>2 DEF AllFiles
  <2>4. gone \in SUBSET Inumbers
    OBVIOUS
  <2> HIDE DEF gone
  <2>5. Store!Format
    BY <1>1, <2>3, <2>4, IsFormat
  <2> QED
    BY <2>1, <2>5, Promised DEF Step, Store!Operation
<1>3. CASE ~(w.i < NBlocks)
  <2>1. ValidInodes(disk') = {} /\ ~stale' /\ ~skipped'
    BY <1>3, NoneLeft DEF FormatBlock
  <2>2. AllFiles(disk') = [n \in Inumbers |-> <<-1>>]
    BY <2>1 DEF AllFiles, ValidInodes
  <2>3. Store!Formatted
    BY <1>1, <2>2, IsFormatted
  <2> QED
    BY <2>1, <2>3 DEF Step, Store!Next
<1> QED
  BY <1>2, <1>3

LEMMA SMount == ASSUME Mount, Clean, Clean' PROVE Step
<1>1. disk' = disk /\ ~Copying /\ ~Copying' /\ (is_mounted' = TRUE \/ is_mounted' = is_mounted)
  BY DEF Mount, Command, memory, Copying
<1>2. InHand' = InHand /\ AllFiles(disk') = AllFiles(disk)
  BY <1>1, InHandSame, DiskSame
<1>3. CASE is_mounted' = TRUE
  <2>1. Store!Mount
    BY <1>2, <1>3, IsMount
  <2> QED
    BY <2>1, Promised DEF Step, Store!Operation
<1>4. CASE is_mounted' = is_mounted
  BY <1>2, <1>4, Still DEF Step
<1> QED
  BY <1>1, <1>3, <1>4

LEMMA SCreate == ASSUME TInv, OInv, Create, Clean, Clean' PROVE Step
<1> DEFINE f == Min(Creatable(disk))
           old == ld_inode(disk, f)
           node == [old EXCEPT !.isvalid = TRUE, !.size = 0]
<1>1. Creatable(disk) \in SUBSET Nat
  BY Places DEF Creatable
<1>2. f \in Creatable(disk)
  BY <1>1, LeastExists DEF Create
<1>3. f \in Inumbers /\ ~old.isvalid
  BY <1>2 DEF Creatable
<1>4. node \in InodeType /\ node.isvalid /\ node.size = 0
  BY <1>3, InodeFound DEF TInv, InodeType
<1>5. /\ disk' = save_inode(disk, f, node) /\ is_mounted /\ is_mounted' = is_mounted
      /\ ~Copying /\ ~Copying' /\ pc = "idle"
  BY DEF Create, Command, memory, Copying
<1>6. AllFiles(disk)[f] = <<-1>>
  BY <1>3 DEF AllFiles
<1> HIDE DEF f, node
<1>7. AllFiles(disk')[f] = <<>>
  <2>1. ld_inode(disk', f) = node
    BY <1>3, <1>4, <1>5, InodeStep
  <2>2. Shown(node) = 0
    <3>1. Shown(node) \in Nat /\ Shown(node) <= node.size
      BY <1>4, ReadLength DEF Shown
    <3> QED
      BY <1>4, <3>1
  <2>3. Content(disk', node) = [q \in 1..0 |->
           ReadBlock(disk', node, (0 + q - 1) \div BLOCK_SIZE)[(0 + q - 1) % BLOCK_SIZE]]
    BY <2>2 DEF Content, fs_read, Shown
  <2>4. Content(disk', node) = <<>>
    BY <2>3
  <2> QED
    BY <1>3, <1>4, <2>1, <2>4 DEF AllFiles
<1>8. ASSUME NEW n \in Inumbers \ {f} PROVE AllFiles(disk')[n] = AllFiles(disk)[n]
  <2>1. n \in ValidInodes(disk') <=> n \in ValidInodes(disk)
    BY <1>3, <1>4, <1>5, InodeStep DEF ValidInodes
  <2>2. Apart(n) /\ [Next]_vars
    BY <1>5 DEF Apart, Next
  <2> QED
    BY <2>1, <2>2, OthersStay
<1>9. AllFiles(disk') = [AllFiles(disk) EXCEPT ![f] = <<>>]
  BY <1>3, <1>7, <1>8, OneFile
<1>10. Store!Create(f)
  BY <1>3, <1>5, <1>6, <1>9, IsCreate
<1> QED
  BY <1>3, <1>10, Promised DEF Step, Store!Operation

LEMMA SDelete ==
    ASSUME TInv, OInv, NEW f \in Inumbers, Delete(f), Clean, Clean' PROVE Step
<1> DEFINE node == ld_inode(disk, f)
           gone == [node EXCEPT !.isvalid = FALSE, !.size = 0]
<1>1. gone \in InodeType /\ ~gone.isvalid
  BY InodeFound DEF TInv, InodeType
<1>2. /\ disk' = disk \/ disk' = save_inode(disk, f, gone)
      /\ is_mounted /\ is_mounted' = is_mounted /\ node.isvalid
      /\ ~Copying /\ ~Copying' /\ pc = "idle"
  BY DEF Delete, Command, Copying
<1> HIDE DEF gone
<1>3. CASE disk' = disk
  BY <1>2, <1>3, DiskSame, InHandSame, Still DEF Step
<1>4. CASE disk' = save_inode(disk, f, gone)
  <2>1. AllFiles(disk)[f] # <<-1>>
    BY <1>2, ContentIsFile DEF AllFiles, Store!NoFile
  <2>2. ld_inode(disk', f) = gone
    BY <1>1, <1>4, InodeStep
  <2>3. AllFiles(disk')[f] = <<-1>>
    BY <1>1, <2>2 DEF AllFiles
  <2>4. ASSUME NEW n \in Inumbers \ {f} PROVE AllFiles(disk')[n] = AllFiles(disk)[n]
    <3>1. n \in ValidInodes(disk') <=> n \in ValidInodes(disk)
      BY <1>1, <1>4, InodeStep DEF ValidInodes
    <3>2. Apart(n) /\ [Next]_vars
      BY <1>2 DEF Apart, Next
    <3> QED
      BY <3>1, <3>2, OthersStay
  <2>5. AllFiles(disk') = [AllFiles(disk) EXCEPT ![f] = <<-1>>]
    BY <2>3, <2>4, OneFile
  <2>6. Store!Delete(f)
    BY <1>2, <2>1, <2>5, IsDelete
  <2> QED
    BY <2>6, Promised DEF Step, Store!Operation
<1> QED
  BY <1>2, <1>3, <1>4

LEMMA SCopyIn ==
    ASSUME NEW n \in Inumbers, NEW x \in Words, NEW len \in Lengths, CopyIn(n, x, len),
           Clean, Clean'
    PROVE  Step
<1>1. /\ is_mounted /\ is_mounted' = is_mounted /\ ~Copying /\ Copying' /\ disk' = disk
      /\ w' = [Idle EXCEPT !.inumber = n, !.word = x, !.left = len]
  BY DEF CopyIn, Command, memory, Copying
<1>2. w'.inumber = n /\ w'.word = x /\ w'.offset = 0
  BY <1>1 DEF Idle
<1>3. InHand' = [inumber |-> n, word |-> x, offset |-> 0]
  BY <1>1, <1>2 DEF InHand
<1>4. Store!BeginCopy(n, x)
  BY <1>1, <1>3, DiskSame, IsBeginCopy
<1> QED
  BY <1>4, Promised DEF Step, Store!Operation

LEMMA SWriteStart == ASSUME TInv, WriteStart, Clean, Clean' PROVE Step
<1>1. /\ disk' = disk /\ is_mounted' = is_mounted /\ Copying /\ w \in Locals
      /\ \/ ~Copying'
         \/ Copying' /\ \E node, q : w' = [w EXCEPT !.inode = node, !.i = q, !.written = 0]
  BY DEF WriteStart, memory, Copying, TInv
<1>2. CASE ~Copying'
  <2>1. Store!EndCopy
    BY <1>1, <1>2, DiskSame, IsEndCopy
  <2> QED
    BY <2>1, Promised DEF Step, Store!Operation
<1>3. CASE Copying' /\ \E node, q : w' = [w EXCEPT !.inode = node, !.i = q, !.written = 0]
  <2>1. w'.inumber = w.inumber /\ w'.word = w.word /\ w'.offset = w.offset
    BY <1>1, <1>3 DEF Locals
  <2> QED
    BY <1>1, <1>3, <2>1, DiskSame, InHandSame, Still DEF Step
<1> QED
  BY <1>1, <1>2, <1>3

\* Within a call of fs_write nothing of the copy in hand changes.
LEMMA SWithin ==
    ASSUME Clean, Clean', Writing, Writing', is_mounted' = is_mounted,
           w'.inumber = w.inumber, w'.word = w.word, w'.offset = w.offset,
           AllFiles(disk') = AllFiles(disk)
    PROVE  Step
BY InHandSame, Still DEF Step, Writing, Copying

LEMMA SMemory ==
    ASSUME TInv, WriteEnd \/ DiskFull \/ AllocDirect \/ ReadIndirect \/ AllocEntry, Clean, Clean'
    PROVE  Step
<1>1. disk' = disk /\ is_mounted' = is_mounted /\ w \in Locals
  BY DEF WriteEnd, DiskFull, AllocDirect, ReadIndirect, AllocEntry, memory, TInv
<1>2. Writing /\ Writing'
  BY DEF WriteEnd, DiskFull, AllocDirect, ReadIndirect, AllocEntry, Writing
<1>3. \E node, t, b : \/ w' = w
                      \/ w' = [w EXCEPT !.inode = node, !.block = b]
                      \/ w' = [w EXCEPT !.indirect = t]
                      \/ w' = [w EXCEPT !.indirect = t, !.block = b]
  <2>1. CASE WriteEnd \/ DiskFull
    BY <2>1 DEF WriteEnd, DiskFull
  <2>2. CASE AllocDirect
    BY <1>1, <2>2 DEF AllocDirect, Locals
  <2>3. CASE ReadIndirect
    BY <2>3 DEF ReadIndirect
  <2>4. CASE AllocEntry
    BY <1>1, <2>4 DEF AllocEntry, Locals
  <2> QED
    BY <2>1, <2>2, <2>3, <2>4
<1>4. w'.inumber = w.inumber /\ w'.word = w.word /\ w'.offset = w.offset
  BY <1>1, <1>3 DEF Locals
<1> QED
  BY <1>1, <1>2, <1>4, DiskSame, SWithin

LEMMA SData ==
    ASSUME TInv, OInv, RInv, AllocIndirect \/ WriteData, Clean, Clean'
    PROVE  Step
<1>1. Writing /\ Writing' /\ is_mounted' = is_mounted
  BY DEF AllocIndirect, WriteData, NextBlock, Writing, memory
<1>2. /\ Files /\ Hand /\ w \in Locals /\ is_mounted
      /\ w.inumber \in ValidInodes(disk) /\ w.inumber \in Inumbers
  BY <1>1, InTheMiddle
<1>3. w'.inumber = w.inumber /\ w'.word = w.word /\ w'.offset = w.offset
  <2>1. CASE AllocIndirect
    <3>1. \E node, t : w' = [w EXCEPT !.inode = node, !.indirect = t]
      BY <1>2, <2>1 DEF AllocIndirect, Locals
    <3> QED
      BY <1>2, <3>1 DEF Locals
  <2>2. CASE WriteData
    <3>1. w.written < Length /\ (NextBlock \/ w' = w)
      BY <2>2 DEF WriteData, TInv, Progress
    <3> QED
      BY <1>2, <3>1, Advanced
  <2> QED
    BY <2>1, <2>2
<1>4. PICK b \in DataBlocks, c \in Contents :
         /\ disk' = disk_write(disk, b, c)
         /\ \A n \in ValidInodes(disk) : b \notin Owned(disk, ld_inode(disk, n))
  <2>1. CASE AllocIndirect
    <3>1. Min(Unmarked) \in DataBlocks /\ Min(Unmarked) \notin free_blocks
      BY <2>1, BlockFound DEF AllocIndirect
    <3>2. disk' = disk_write(disk, Min(Unmarked), Zeros)
      BY <2>1 DEF AllocIndirect, disk_write
    <3> QED
      BY <1>2, <3>1, <3>2, BlockIsNew, EmptyBlocks
  <2>2. CASE WriteData
    <3>1. w.block \in DataBlocks /\ Filled(disk[w.block]) \in Contents
      BY <2>2, FilledBlock DEF WriteData, TInv, Progress
    <3>2. disk' = disk_write(disk, w.block, Filled(disk[w.block]))
      BY <2>2 DEF WriteData, disk_write
    <3>3. \A n \in ValidInodes(disk) : w.block \notin Owned(disk, ld_inode(disk, n))
      BY <1>2, <2>2 DEF Hand, WriteData
    <3> QED
      BY <3>1, <3>2, <3>3
  <2> QED
    BY <2>1, <2>2
<1>5. ASSUME NEW n \in Inumbers PROVE AllFiles(disk')[n] = AllFiles(disk)[n]
  <2>1. n \in ValidInodes(disk') <=> n \in ValidInodes(disk)
    BY <1>4, DataStep
  <2>2. ASSUME n \in ValidInodes(disk)
        PROVE  Content(disk', ld_inode(disk', n)) = Content(disk, ld_inode(disk, n))
    <3>1. Owned(disk, ld_inode(disk, n)) \subseteq 0..(NBlocks - 1)
      BY <1>2, <2>2, InodeFound, OwnedWhere, Geometry DEF TInv, Files
    <3> QED
      BY <1>4, <2>2, <3>1, DataElsewhere
  <2> QED
    BY <2>1, <2>2, FileStays
<1> QED
  BY <1>1, <1>3, <1>5, FilesStay, SWithin

LEMMA SWriteIndirect == ASSUME TInv, OInv, RInv, WriteIndirect, Clean, Clean' PROVE Step
<1>1. /\ Writing /\ w \in Locals /\ w.written < Length /\ NextBlock
      /\ w.inumber \in Inumbers /\ w.inumber \in ValidInodes(disk)
      /\ w.inode.indirect \in DataBlocks /\ w.indirect \in Contents
      /\ disk' = disk_write(disk, w.inode.indirect, w.indirect)
      /\ OnDisk \in InodeType /\ w.offset \in Nat /\ pc = "indirect"
  BY TableWritten
<1>2. /\ w'.inumber = w.inumber /\ w'.word = w.word /\ w'.offset = w.offset
      /\ Writing' /\ is_mounted' = is_mounted /\ Copying /\ Copying'
  <2>1. w'.inumber = w.inumber /\ w'.word = w.word /\ w'.offset = w.offset /\ pc' = "loop"
    BY <1>1, Advanced
  <2> QED
    BY <1>1, <2>1 DEF WriteIndirect, memory, Writing, Copying
<1>3. /\ ValidInodes(disk') = ValidInodes(disk) /\ ld_inode(disk', w.inumber) = OnDisk
  BY <1>1, DataStep DEF OnDisk
<1>4. ASSUME NEW n \in Inumbers \ {w.inumber} PROVE AllFiles(disk')[n] = AllFiles(disk)[n]
  <2>1. Apart(n) /\ [Next]_vars
    BY DEF Apart, Next
  <2> QED
    BY <1>3, <2>1, OthersStay
<1>5. AllFiles(disk)[w.inumber] = Content(disk, OnDisk)
  BY <1>1 DEF AllFiles, ValidInodes, OnDisk
<1>6. CASE AtPrefix
  <2>1. Content(disk', OnDisk) = Content(disk, OnDisk)
    <3>1. Shown(OnDisk) = w.offset
      BY <1>1, <1>6, ContentReads DEF AtPrefix
    <3> QED
      BY <3>1, TableKeepsOwn
  <2>2. AllFiles(disk')[w.inumber] = AllFiles(disk)[w.inumber]
    BY <1>1, <1>3, <2>1, FileStays DEF OnDisk
  <2> QED
    BY <1>1, <1>2, <1>4, <2>2, FilesStay, SWithin
<1>7. CASE ~AtPrefix
  <2>1. AllFiles(disk)[w.inumber] \notin {<<-1>>, Store!Prefix(w.word, w.offset)}
    BY <1>1, <1>5, <1>7, ContentIsFile DEF AtPrefix, OnDisk, Store!NoFile
  <2>2. Store!Overwrite
    BY <1>1, <1>2, <1>4, <2>1, IsOverwrite
  <2> QED
    BY <2>2, Promised DEF Step, Store!Operation
<1> QED
  BY <1>6, <1>7

(* The inode that fs_write saves shows what was copied, all of it.         *)
LEMMA SavedContent ==
    ASSUME TInv, OInv, RInv, Writing, Clean, AtPrefix,
           NEW node \in InodeType, node.direct = w.inode.direct,
           node.indirect = w.inode.indirect, node.size = w.inode.size + w.written,
           disk' = save_inode(disk, w.inumber, node)
    PROVE  Content(disk', node) = Store!Prefix(w.word, w.offset + w.written)
<1> DEFINE most == NPointers * BLOCK_SIZE
           last == w.i * BLOCK_SIZE
<1>1. /\ Aim /\ Paced /\ w \in Locals /\ w.inode \in InodeType /\ OnDisk \in InodeType
      /\ w.inumber \in Inumbers /\ w.offset \in Nat /\ w.written \in Nat /\ w.i \in Nat
  BY InTheMiddle
<1>2. /\ Shown(OnDisk) = w.offset /\ w.inode.size = OnDisk.size
  BY <1>1, ContentReads DEF AtPrefix, RInv, Sized
<1>3. /\ Shown(OnDisk) <= OnDisk.size
      /\ Shown(OnDisk) = OnDisk.size \/ Shown(OnDisk) = most
      /\ OnDisk.size \in Nat /\ most \in Nat
  BY <1>1, ReadLength, Sizes DEF Shown, InodeType
<1>4. /\ Shown(node) \in Nat /\ Shown(node) <= node.size /\ Shown(node) <= most
      /\ Shown(node) = node.size \/ Shown(node) = most
  BY ReadLength DEF Shown
<1>5. w.offset + w.written <= last /\ last <= most /\ last \in Nat
  <2>1. w.offset + w.written <= last /\ w.i <= NPointers
    BY <1>1 DEF Paced
  <2>2. BLOCK_SIZE * w.i <= BLOCK_SIZE * NPointers
    BY <1>1, <2>1, Sizes, ProductGrows
  <2>3. BLOCK_SIZE * w.i = last /\ BLOCK_SIZE * NPointers = most /\ last \in Nat
    BY <1>1, Sizes
  <2> QED
    BY <2>1, <2>2, <2>3
<1> HIDE DEF most, last
<1>6. Shown(node) = w.offset + w.written
  <2>1. w.offset + w.written <= most
    BY <1>1, <1>3, <1>5
  <2>2. CASE w.offset = OnDisk.size
    BY <1>1, <1>2, <1>3, <1>4, <2>1, <2>2
  <2>3. CASE w.offset = most
    <3>1. w.written = 0
      BY <1>1, <1>3, <2>1, <2>3
    <3>2. node.size = OnDisk.size /\ most <= OnDisk.size
      BY <1>2, <1>3, <2>3, <3>1
    <3> QED
      BY <1>1, <1>3, <1>4, <2>3, <3>1, <3>2
  <2> QED
    BY <1>2, <1>3, <2>2, <2>3
<1>7. \A x \in {0} \cup DataBlocks : disk'[x] = disk[x]
  BY <1>1, InodeWritten DEF TInv
<1>8. ASSUME NEW k \in Nat, NEW m \in Entries, k * BLOCK_SIZE + m < w.offset + w.written
      PROVE  ReadBlock(disk', node, k)[m] = Text(w.word, k * BLOCK_SIZE + m)
  <2>1. ReadBlock(disk, w.inode, k)[m] = Text(w.word, k * BLOCK_SIZE + m)
    BY <1>1, <1>8 DEF Aim, ReadsText
  <2>2. ReadBlock(disk', node, k) = ReadBlock(disk, w.inode, k)
    <3>1. CASE k < POINTERS_PER_INODE
      <4>1. k \in Directs
        BY <3>1, Sizes DEF Directs
      <4>2. w.inode.direct[k] \in {0} \cup DataBlocks
        BY <1>1, <4>1 DEF InodeType, Pointers
      <4> QED
        BY <1>7, <3>1, <4>2 DEF ReadBlock
    <3>2. CASE ~(k < POINTERS_PER_INODE)
      <4>1. disk'[w.inode.indirect] = disk[w.inode.indirect]
        BY <1>1, <1>7 DEF InodeType, Pointers
      <4> QED
        BY <1>7, <3>2, <4>1 DEF ReadBlock
    <3> QED
      BY <3>1, <3>2
  <2> QED
    BY <2>1, <2>2
<1>9. ReadsText(disk', node, w.word, w.offset + w.written)
  BY <1>8 DEF ReadsText
<1>10. w.offset + w.written \in Nat
  BY <1>1
<1> QED
  BY <1>6, <1>9, <1>10, ContentReads

LEMMA SWriteSave == ASSUME TInv, OInv, RInv, WriteSave, Clean, Clean' PROVE Step
<1> DEFINE node == [w.inode EXCEPT !.size = @ + w.written]
           f == w.inumber
<1>1. pc = "save" /\ Writing /\ Copying /\ is_mounted' = is_mounted
  BY DEF WriteSave, memory, Writing, Copying
<1>2. /\ w \in Locals /\ w.inode \in InodeType /\ f \in Inumbers /\ f \in ValidInodes(disk)
      /\ OnDisk \in InodeType /\ w.written \in Nat /\ w.offset \in Nat
  BY <1>1, InTheMiddle
<1>3. w.inode.isvalid /\ w.written <= Length /\ Length <= ChunkSize /\ Length \in Nat
  BY <1>1, <1>2, Lengthy DEF OInv, OnFile, TInv, Progress
<1>4. /\ node \in InodeType /\ node.isvalid /\ node.direct = w.inode.direct
      /\ node.indirect = w.inode.indirect /\ node.size = w.inode.size + w.written
  BY <1>2, <1>3 DEF InodeType
<1>5. disk' = save_inode(disk, f, node)
  BY DEF WriteSave
<1>6. \/ ~Copying'
      \/ Copying' /\ w'.inumber = f /\ w'.word = w.word /\ w'.offset = w.offset + w.written
  BY <1>2 DEF WriteSave, Copying, Locals
<1> HIDE DEF node
<1>7. ASSUME NEW n \in Inumbers \ {f} PROVE AllFiles(disk')[n] = AllFiles(disk)[n]
  <2>1. n \in ValidInodes(disk') <=> n \in ValidInodes(disk)
    BY <1>2, <1>4, <1>5, InodeStep DEF ValidInodes
  <2>2. Apart(n) /\ [Next]_vars
    BY DEF Apart, Next
  <2> QED
    BY <2>1, <2>2, OthersStay
<1>8. AllFiles(disk)[f] = Content(disk, OnDisk)
  BY <1>2 DEF AllFiles, ValidInodes, OnDisk
<1>9. CASE AtPrefix
  <2>1. AllFiles(disk')[f] = Store!Prefix(w.word, w.offset + w.written)
    <3>1. ld_inode(disk', f) = node
      BY <1>2, <1>4, <1>5, InodeStep
    <3>2. Content(disk', node) = Store!Prefix(w.word, w.offset + w.written)
      BY <1>1, <1>4, <1>5, <1>9, SavedContent
    <3> QED
      BY <1>2, <1>4, <3>1, <3>2 DEF AllFiles
  <2>2. AllFiles(disk') = [AllFiles(disk) EXCEPT ![f] = Store!Prefix(w.word, w.offset + w.written)]
    BY <1>2, <1>7, <2>1, OneFile
  <2>3. AllFiles(disk)[f] = Store!Prefix(w.word, w.offset)
    BY <1>8, <1>9 DEF AtPrefix
  <2>4. w.written \in 0..ChunkSize
    BY <1>2, <1>3, GeometryAssumption
  <2>5. Store!Append
    BY <1>1, <1>2, <1>6, <2>2, <2>3, <2>4, IsAppend
  <2> QED
    BY <2>5, Promised DEF Step, Store!Operation
<1>10. CASE ~AtPrefix
  <2>1. AllFiles(disk)[f] \notin {<<-1>>, Store!Prefix(w.word, w.offset)}
    BY <1>2, <1>8, <1>10, ContentIsFile DEF AtPrefix, OnDisk, Store!NoFile
  <2>2. Store!Overwrite
    BY <1>1, <1>2, <1>6, <1>7, <2>1, IsOverwrite
  <2> QED
    BY <2>2, Promised DEF Step, Store!Operation
<1> QED
  BY <1>9, <1>10

-----------------------------------------------------------------------------
(* The refinement.                                                         *)

LEMMA InitStore == Init => Store!Init
<1> SUFFICES ASSUME Init PROVE Store!Init
  OBVIOUS
<1>1. ASSUME NEW n \in Inumbers PROVE ~ld_inode(disk, n).isvalid
  <2>1. BlockOf(n) \in InodeBlocks /\ SlotOf(n) \in Slots
    BY Places
  <2>2. disk[BlockOf(n)] = EmptyTable
    BY <2>1, Geometry DEF Init, ZeroBlock
  <2> QED
    BY <2>1, <2>2 DEF EmptyTable, EmptyInode, ld_inode
<1>2. ~Copying /\ is_mounted = FALSE /\ ~stale /\ ~skipped
  BY DEF Init, Copying
<1> QED
  BY <1>1, <1>2 DEF Store!Init, Store!NoFile, Store!NoCopy

(* Only the end of format makes a store as good as new.                    *)
LEMMA CleanBefore == ASSUME Next, ~FormatBlock, Clean' PROVE Clean
<1>1. CASE \/ Crash \/ ReadOnlyCommand \/ Format \/ WriteStart \/ WriteEnd \/ DiskFull
           \/ AllocDirect \/ AllocIndirect \/ ReadIndirect \/ AllocEntry \/ WriteData
           \/ WriteIndirect \/ WriteSave
  <2>1. UNCHANGED <<stale, skipped>>
    BY <1>1 DEF vars, history, Crash, ReadOnlyCommand, Format, WriteStart, WriteEnd, DiskFull,
       AllocDirect, AllocIndirect, ReadIndirect, AllocEntry, WriteData, WriteIndirect, WriteSave
  <2> QED
    BY <2>1 DEF Clean
<1>2. CASE Mount \/ Create
  <2>1. CASE Mount
    BY <2>1 DEF Mount, Clean
  <2>2. CASE Create
    <3>1. UNCHANGED skipped /\ (stale => stale')
      BY <2>2 DEF Create
    <3> QED
      BY <3>1 DEF Clean
  <2> QED
    BY <1>2, <2>1, <2>2
<1>3. ASSUME NEW n \in Inumbers, Delete(n) PROVE Clean
  BY <1>3 DEF Delete, history, Clean
<1>4. ASSUME NEW n \in Inumbers, NEW x \in Words, NEW len \in Lengths, CopyIn(n, x, len)
      PROVE  Clean
  BY <1>4 DEF CopyIn, history, Clean
<1> QED
  BY <1>1, <1>2, <1>3, <1>4 DEF Next

(* A step that breaks a condition breaks the promise; every other step is  *)
(* one of the store's, or shows nothing.                                   *)
LEMMA NextStore ==
    ASSUME TInv, OInv, RInv, [Next]_vars PROVE [Store!Next]_(Store!vars)
<1>1. CASE ~Clean'
  BY <1>1, Broken
<1>2. CASE UNCHANGED vars \/ ReadOnlyCommand
  <2>1. UNCHANGED <<disk, is_mounted, pc, w, stale, skipped>>
    BY <1>2 DEF vars, ReadOnlyCommand
  <2>2. AllFiles(disk') = AllFiles(disk) /\ InHand' = InHand /\ (Clean' <=> Clean)
    BY <2>1 DEF InHand, Copying, Clean
  <2> QED
    BY <2>1, <2>2, Still
<1>3. CASE Clean' /\ FormatBlock
  BY <1>3, SFormatBlock DEF Step
<1>4. CASE Clean' /\ ~FormatBlock /\ Next /\ ~ReadOnlyCommand
  <2>1. Clean
    BY <1>4, CleanBefore
  <2>2. Step
    BY <1>4, <2>1, SCrash, SFormat, SMount, SCreate, SDelete, SCopyIn, SWriteStart, SMemory,
       SData, SWriteIndirect, SWriteSave DEF Next
  <2> QED
    BY <2>2 DEF Step
<1> QED
  BY <1>1, <1>2, <1>3, <1>4

(* The block-level file system, with its crashes, implements the store of  *)
(* whole files: what is copied in reads back, in its order and to its last *)
(* unit, every call of fs_write happens entirely or not at all, and a      *)
(* mount brings every file back.                                           *)
THEOREM Refinement == Spec => RefinesFileStore
<1>1. Init => Store!Init
  BY InitStore
<1>2. TInv /\ OInv /\ RInv /\ [Next]_vars => [Store!Next]_(Store!vars)
  BY NextStore
<1> QED
  BY <1>1, <1>2, AllHolds, PTL DEF Spec, RefinesFileStore, Store!Spec

=============================================================================
