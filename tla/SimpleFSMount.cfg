\* Two files, one direct pointer each and an indirect block of two.
SPECIFICATION Spec
CONSTANTS
    NBlocks = 6
    InodeShare = 5
    INODES_PER_BLOCK = 3
    POINTERS_PER_INODE = 1
    POINTERS_PER_BLOCK = 2
    BITMAP_SIZE = 8
    ChunkSize = 4
    Words = {20, 30}
    MAGIC = 99
    Lengths = {1, 5, 7}
    MaxSize = 8
    MaxCommands = 10
INVARIANT
    PrintedBlocksMarked
