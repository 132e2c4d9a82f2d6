--------------------------- MODULE MCPacketTable ---------------------------
(***************************************************************************)
(* A small instance of PacketTable for TLC: five packets share a slot and  *)
(* a sixth is an ICMP packet.  u1, u2, u3 are UDP packets of one size; u1  *)
(* and u2 differ in their last byte only, u3 differs from them earlier.    *)
(* t1 and t2 are the same TCP packet twice, from a port that makes         *)
(* processPacket take more of it for headers than it leaves for payload.   *)
(***************************************************************************)
EXTENDS PacketTable, TLC

CONSTANTS u1, u2, u3, t1, t2, icmp

MCPackets == {u1, u2, u3, t1, t2, icmp}

\* An Ethernet frame with an IPv4 packet; `rest` fills what is not given.
Frame(length, protocol, port, rest(_)) ==
    [i \in 1..length |-> CASE i = 13 -> 8
                           [] i = 15 -> 69
                           [] i = 24 -> protocol
                           [] i = 36 -> port
                           [] OTHER -> rest(i)]

MCData ==
    [x \in MCPackets |->
        CASE x = u1 -> Frame(200, 17, 0, LAMBDA i : 0)
          [] x = u2 -> Frame(200, 17, 0, LAMBDA i : IF i = 200 THEN 1 ELSE 0)
          [] x = u3 -> Frame(200, 17, 0, LAMBDA i : IF i = 101 THEN 1 ELSE 0)
          [] x \in {t1, t2} -> Frame(130, 6, 240, LAMBDA i : 0)
          [] x = icmp -> Frame(200, 1, 0, LAMBDA i : 0)]
MCHash == [x \in Inserted |-> 0]

\* The consumers are alike, and so are the packets of each pair for all the
\* table can tell: the one differing byte is never compared.
Symmetric == Permutations(Consumers) \cup Permutations({u1, u2}) \cup Permutations({t1, t2})

=============================================================================
