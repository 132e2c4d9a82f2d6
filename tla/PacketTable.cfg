\* Two consumers; five of the packets share a slot.
SPECIFICATION Spec
CONSTANTS
    Consumers = {c1, c2}
    u1 = u1
    u2 = u2
    u3 = u3
    t1 = t1
    t2 = t2
    icmp = icmp
    Packets <- MCPackets
    Data <- MCData
    Indexes = {0, 1}
    hashData <- MCHash
    NoPacket = NoPacket
    NoConsumer = NoConsumer
SYMMETRY Symmetric
INVARIANTS
    TypeOK
    OneOwner
    HitsConserved
    HitsAreRepeats
    LossBounded
