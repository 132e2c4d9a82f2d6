\* -threads 4 with two files: two producers and two consumers.
SPECIFICATION Spec
CONSTANTS
    Producers = {p1, p2}
    Consumers = {c1, c2}
    NThreads = 4
    NumPcapFiles = 2
    Records = 2
    Reads <- MCReads
    Oversize <- OneOversize
    STACK_MAX_SIZE = 2
    NoPacket = NoPacket
    NoFile = NoFile
SYMMETRY Alike
INVARIANTS
    TypeOK
    OneReaderPerFile
    ConsumersLeaveLast
    ExclusiveUntilFinished
    AccountingUntilFinished
