\* Lists of at most two files; lengths and sizes are the program's own.
SPECIFICATION FairSpec
CONSTANTS
    CommandLines <- MCCommandLines
    Atoi <- MCAtoi
    TextFiles <- MCTextFiles
    PcapFiles <- MCPcapFiles
    MAX_PCAP_FILES = 3
    MAX_FILE_LEN = 40
    DEFAULT_READ_BUFFER = 2500
    Noise = {1114, 2559}
    Freed = {1000, 9000}
INVARIANTS
    StartsAsAssumed
    NamesListed
    FreesItsOwn
    RecordsDelivered
    InfoAgrees
PROPERTIES
    AllFilesRead
