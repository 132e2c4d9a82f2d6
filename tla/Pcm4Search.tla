----------------------------- MODULE Pcm4Search -----------------------------
(***************************************************************************)
(* Milestone04: what the blocks hold, and the loop with which              *)
(* thread_consumer counts the matches of a block.  It gives Matches of     *)
(* Pcm4 its meaning, and says what the printed number should be.           *)
(***************************************************************************)
EXTENDS Pcm4, Sequences

CONSTANTS BLOCK_GENERATE_SIZE,
          Text,                   (* pData of every block, filled at random    *)
          SearchString            (* "the"                                     *)

\* A block is created with room for its text, and the string fits in a block.
ASSUME TextAssumption ==
    /\ BLOCK_GENERATE_SIZE \in Nat
    /\ Text \in [Blocks -> Seq(STRING)]
    /\ \A b \in Blocks : Len(Text[b]) = BLOCK_GENERATE_SIZE
    /\ SearchString \in Seq(STRING)
    /\ Len(SearchString) \in 1..BLOCK_GENERATE_SIZE

\* memcmp(pBlock->pData + j, SearchString, strlen(SearchString)) == 0
MatchAt(b, j) == SubSeq(Text[b], j + 1, j + Len(SearchString)) = SearchString

\* The positions j < nSize - strlen(SearchString) at which the loop counts: the
\* last one at which the string would fit is not among them.
Counted(b) == {j \in 0..(Len(Text[b]) - Len(SearchString) - 1) : MatchAt(b, j)}

ASSUME MatchesAssumption == Matches = [b \in Blocks |-> Cardinality(Counted(b))]

-----------------------------------------------------------------------------
Occurrences(b) ==
    {j \in 0..(BLOCK_GENERATE_SIZE - 1) :
        /\ j + Len(SearchString) <= BLOCK_GENERATE_SIZE
        /\ \A k \in 1..Len(SearchString) : Text[b][j + k] = SearchString[k]}

(* "Search the block to see how many times the requested string appears"   *)
(* (main.c:267): the number main prints (379) is that of the occurrences   *)
(* in all the blocks, whoever searched them and in whatever order.         *)
ReportCounts ==
    reported =>
        CountFound = MapThenSumSet(LAMBDA b : Cardinality(Occurrences(b)), Blocks)

=============================================================================
