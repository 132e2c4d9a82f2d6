------------------------------- MODULE MCPcm4 -------------------------------
(***************************************************************************)
(* A small instance of Pcm4 for TLC: Iterations and STACK_MAX_SIZE are so  *)
(* small that the stack runs full and empty.  The first block of a         *)
(* producer ends with the string, so that one of two occurrences counts;   *)
(* in its second block both do.                                            *)
(***************************************************************************)
EXTENDS Pcm4Search

MCSearchString == <<"t", "h", "e">>
MCText ==
    [b \in Blocks |-> IF b[2] = 1 THEN <<" ", "t", "h", "e", "t", "h", "e">>
                                  ELSE <<"t", "h", "e", "t", "h", "e", "t">>]
MCMatches == [b \in Blocks |-> Cardinality(Counted(b))]

=============================================================================
