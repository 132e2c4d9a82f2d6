---------------------------- MODULE MCPacketPool ----------------------------
(***************************************************************************)
(* Small instances of PacketPool for TLC.                                  *)
(***************************************************************************)
EXTENDS PacketPool, TLC

CONSTANT Records   (* calls of readNextPacket for every file *)

MCReads == [f \in Files |-> Records]

\* Every record fits, or the second one of the first file is too long.
AllFit == {}
OneOversize == {<<0, 2>>}

\* Threads of a kind are alike, and no definition chooses among them: the runs
\* that check invariants only look at one representative of each class.
Alike == Permutations(Producers) \cup Permutations(Consumers)

=============================================================================
