\* -threads 2 with one file: one producer and one consumer.
SPECIFICATION FairSpec
CONSTANTS
    Producers = {p1}
    Consumers = {c1}
    NThreads = 2
    NumPcapFiles = 1
    Records = 4
    Reads <- MCReads
    Oversize <- AllFit
    STACK_MAX_SIZE = 2
    NoPacket = NoPacket
    NoFile = NoFile
PROPERTIES
    RefinesWorkPool
    AllPacketsProcessed
