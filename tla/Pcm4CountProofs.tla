--------------------------- MODULE Pcm4CountProofs ---------------------------
(***************************************************************************)
(* Proofs about the number main.c of Milestone04 prints, for any threads,  *)
(* blocks, texts and search string: CountFound is at every moment the      *)
(* number of matches that have been met, and in the end it falls short of  *)
(* the occurrences in the texts by those that end a block.                 *)
(***************************************************************************)
EXTENDS Pcm4Search, Pcm4Proofs, FiniteSums, SequenceTheorems

USE ThreadsAssumption, SizeAssumption, BlockAssumption

-----------------------------------------------------------------------------
(* CountFound.                                                             *)

\* FoundExact, and that a consumer without a block has counted nothing.
Exact ==
    /\ CountFound = Sum(Matches, Done) + Sum(hits, Consumers)
    /\ \A c \in Consumers : pc[c] # "search" => hits[c] = 0

LEMMA SumTypes ==
    ASSUME Inv
    PROVE  /\ IsFiniteSet(Done) /\ \A b \in Done : Matches[b] \in Nat
           /\ IsFiniteSet(Consumers) /\ \A c \in Consumers : hits[c] \in Nat
           /\ Sum(Matches, Done) \in Nat /\ Sum(hits, Consumers) \in Nat
<1>1. IsFiniteSet(Done) /\ \A b \in Done : Matches[b] \in Nat
  BY BlocksFinite, FS_Subset DEF Done
<1>2. IsFiniteSet(Consumers) /\ \A c \in Consumers : hits[c] \in Nat
  BY DEF Inv, TypeOK
<1> QED
  BY <1>1, <1>2, SumNat

(* A step that leaves CountDone finishes no block.                         *)
LEMMA DoneKept ==
    ASSUME Inv, [Next]_vars, CountDone' = CountDone
    PROVE  Done' = Done
<1>1. CountDone \in Nat
  BY DEF Inv, TypeOK
<1>2. ASSUME NEW b, Finished(b)
      PROVE  FALSE
  BY <1>1, <1>2 DEF Finished
<1>3. ASSUME NEW b, Pushed(b)
      PROVE  Done' = Done
  BY <1>3 DEF Pushed, Done
<1>4. ASSUME NEW b, Popped(b)
      PROVE  Done' = Done
  BY <1>4 DEF Popped, Done
<1>5. Nothing => Done' = Done
  BY DEF Nothing, Done
<1> QED
  BY <1>2, <1>3, <1>4, <1>5, StepMoves DEF Moves

(* Only SearchDone ends a search.                                          *)
LEMMA SearchGoesOn ==
    ASSUME Inv, [Next]_vars, NEW c \in Consumers, pc[c] = "search", ~SearchDone(c)
    PROVE  pc'[c] = "search"
<1>1. c \in Threads /\ pc \in [Threads -> ProducerPcs \cup ConsumerPcs]
  BY DEF Threads, Inv, TypeOK
<1>2. ASSUME NEW p \in Producers, PushCommit(p)
      PROVE  pc'[c] = "search"
  BY <1>1, <1>2 DEF PushCommit, Broadcast, Running
<1>3. ASSUME NEW d \in Consumers, PopDrop(d)
      PROVE  pc'[c] = "search"
  BY <1>1, <1>3 DEF PopDrop, Broadcast, Running
<1>4. ASSUME NEW d \in Consumers, SearchDone(d), d # c
      PROVE  pc'[c] = "search"
  BY <1>1, <1>4 DEF SearchDone, Goto
<1>5. CASE /\ ~\E p \in Producers : PushCommit(p)
           /\ ~\E d \in Consumers : PopDrop(d) \/ SearchDone(d)
  BY <1>5, QuietSteps DEF Quiet
<1> QED
  BY <1>2, <1>3, <1>4, <1>5

LEMMA ExactInit == Init => Exact
<1> SUFFICES ASSUME Init
             PROVE  Exact
  OBVIOUS
<1>1. Inv
  BY InitInv
<1>2. Unpushed = Blocks
  BY DEF Init, Unpushed, Blocks
<1>3. Done = {}
  BY <1>2 DEF Done
<1>4. Sum(Matches, Done) = 0
  BY <1>3, SumEmpty
<1>5. \A c \in Consumers : hits[c] = 0
  BY DEF Init
<1>6. Sum(hits, Consumers) = 0
  BY <1>1, <1>5, SumTypes, SumZero
<1> QED
  BY <1>4, <1>5, <1>6 DEF Exact, Init

LEMMA MatchExact ==
    ASSUME Inv, Inv', Exact, [Next]_vars, NEW c \in Consumers, SearchMatch(c)
    PROVE  Exact'
<1>1. /\ CountFound' = CountFound + 1 /\ CountDone' = CountDone /\ pc' = pc
      /\ hits' = [hits EXCEPT ![c] = hits[c] + 1] /\ pc[c] = "search"
  BY DEF SearchMatch, Running
<1>2. Done' = Done
  BY <1>1, DoneKept
<1>3. /\ IsFiniteSet(Consumers) /\ \A d \in Consumers : hits[d] \in Nat
      /\ Sum(Matches, Done) \in Nat /\ Sum(hits, Consumers) \in Nat
  BY SumTypes
<1>4. /\ hits'[c] = hits[c] + 1 /\ \A d \in Consumers \ {c} : hits'[d] = hits[d]
      /\ \A d \in Consumers : hits'[d] \in Nat
  BY <1>1 DEF Inv, TypeOK
<1>5. /\ Sum(hits', Consumers) + hits[c] = Sum(hits, Consumers) + hits'[c]
      /\ Sum(hits', Consumers) \in Nat
  BY <1>3, <1>4, SumChange, SumNat
<1>6. Sum(hits', Consumers) = Sum(hits, Consumers) + 1
  BY <1>3, <1>4, <1>5
<1>7. CountFound' = Sum(Matches, Done) + Sum(hits', Consumers)
  BY <1>1, <1>3, <1>6 DEF Exact
<1> QED
  BY <1>1, <1>2, <1>4, <1>7 DEF Exact

LEMMA DoneExact ==
    ASSUME Inv, Inv', Exact, [Next]_vars, NEW c \in Consumers, SearchDone(c)
    PROVE  Exact'
<1> DEFINE b == pBlock[c]
<1>1. /\ CountFound' = CountFound /\ hits[c] = Matches[b] /\ pc[c] = "search"
      /\ hits' = [hits EXCEPT ![c] = 0] /\ pc' = [pc EXCEPT ![c] = "loop"]
  BY DEF SearchDone, Running, Goto
<1>2. Finished(b) /\ b \in Blocks
  BY SearchDoneMoves, SearchedBlocks DEF Finished
<1>3. Done' = Done \cup {b} /\ b \notin Done
  BY <1>2 DEF Finished, Done, Inv, BlockAccounting
<1>4. /\ IsFiniteSet(Consumers) /\ \A d \in Consumers : hits[d] \in Nat
      /\ IsFiniteSet(Done) /\ \A x \in Done : Matches[x] \in Nat
      /\ Sum(Matches, Done) \in Nat /\ Sum(hits, Consumers) \in Nat
  BY SumTypes
<1>5. /\ hits'[c] = 0 /\ \A d \in Consumers \ {c} : hits'[d] = hits[d]
      /\ \A d \in Consumers : hits'[d] \in Nat
  BY <1>1 DEF Inv, TypeOK
<1>6. /\ Sum(hits', Consumers) + hits[c] = Sum(hits, Consumers) + hits'[c]
      /\ Sum(hits', Consumers) \in Nat
  BY <1>4, <1>5, SumChange, SumNat
<1>7. Sum(Matches, Done') = Matches[b] + Sum(Matches, Done)
  BY <1>2, <1>3, <1>4, SumAdd
<1>8. CountFound' = Sum(Matches, Done') + Sum(hits', Consumers)
  BY <1>1, <1>4, <1>5, <1>6, <1>7 DEF Exact
<1>9. \A d \in Consumers : pc'[d] # "search" => hits'[d] = 0
  BY <1>1, <1>5 DEF Exact, Inv, TypeOK, Threads
<1> QED
  BY <1>8, <1>9 DEF Exact

LEMMA ExactStep ==
    ASSUME Inv, Inv', Exact, [Next]_vars
    PROVE  Exact'
<1>1. CASE \E c \in Consumers : SearchMatch(c) \/ SearchDone(c)
  BY <1>1, MatchExact, DoneExact
<1>2. CASE ~\E c \in Consumers : SearchMatch(c) \/ SearchDone(c)
  <2>1. CountFound' = CountFound /\ CountDone' = CountDone /\ hits' = hits
    BY <1>2, NextCases DEF Acquire, CondWait, SpuriousWakeup, Exit, ProducerLoop, PushCheck,
       PushStore, PushCommit, ConsumerLoop, PopCheck, PopNothingLeft, PopTake, PopDrop,
       MainReport, vars, counters, locals
  <2>2. Done' = Done
    BY <2>1, DoneKept
  <2>3. \A c \in Consumers : pc'[c] # "search" => hits'[c] = 0
    BY <1>2, <2>1, SearchGoesOn DEF Exact
  <2> QED
    BY <2>1, <2>2, <2>3 DEF Exact
<1> QED
  BY <1>1, <1>2

LEMMA ExactAlways == Spec => [](Inv /\ Exact)
<1>1. Inv /\ Inv' /\ Exact /\ [Next]_vars => Exact'
  BY ExactStep
<1> QED
  BY <1>1, ExactInit, Invariance, PTL DEF Spec

(* CountFound loses no match and counts none twice, whatever the consumers *)
(* do at the same time: at every moment it is the matches of the searched  *)
(* blocks and those already met in the blocks being searched.              *)
THEOREM FoundIsExact == Spec => []FoundExact
<1> DEFINE Here == MapThenSumSet(LAMBDA b : Matches[b], Done)
                     + MapThenSumSet(LAMBDA c : hits[c], Consumers)
<1>1. Here = Sum(Matches, Done) + Sum(hits, Consumers)
  BY Zenon DEF Sum
<1>2. Exact => CountFound = Here
  <2> HIDE DEF Here
  <2> QED
    BY <1>1 DEF Exact
<1>3. Exact => FoundExact
  BY <1>2, Zenon DEF FoundExact
<1> QED
  BY <1>3, ExactAlways, PTL

-----------------------------------------------------------------------------
(* What the matches are.                                                   *)

EndsWithIt(b) == BLOCK_GENERATE_SIZE - Len(SearchString) \in Occurrences(b)

(* The loop compares as many characters as the search string has.          *)
LEMMA MatchIs ==
    ASSUME TextAssumption, NEW b \in Blocks, NEW j \in Nat,
           j + Len(SearchString) <= BLOCK_GENERATE_SIZE
    PROVE  MatchAt(b, j) <=>
              \A k \in 1..Len(SearchString) : Text[b][j + k] = SearchString[k]
<1> DEFINE L == Len(SearchString)
           s == SubSeq(Text[b], j + 1, j + L)
<1>1. L \in Nat /\ L >= 1 /\ BLOCK_GENERATE_SIZE \in Nat
  BY DEF TextAssumption
<1>2. Text[b] \in Seq(STRING) /\ Len(Text[b]) = BLOCK_GENERATE_SIZE
  BY DEF TextAssumption
<1>3. s = [k \in 1..L |-> Text[b][j + k]]
  <2>1. /\ (j + 1) \in 1..(Len(Text[b]) + 1) /\ (j + L) \in ((j + 1) - 1)..Len(Text[b])
        /\ (j + L) - (j + 1) + 1 = L /\ \A k \in 1..L : (j + 1) + k - 1 = j + k
    BY <1>1, <1>2
  <2>2. /\ s \in Seq(STRING) /\ Len(s) = L
        /\ \A k \in 1..L : s[k] = Text[b][j + k]
    <3>1. /\ s \in Seq(STRING) /\ Len(s) = (j + L) - (j + 1) + 1
          /\ \A k \in 1..((j + L) - (j + 1) + 1) : s[k] = Text[b][(j + 1) + k - 1]
      BY <1>2, <2>1, SubSeqProperties
    <3> QED
      BY <2>1, <3>1
  <2> QED
    BY <2>2
<1>4. SearchString = [k \in 1..L |-> SearchString[k]]
  BY <1>1 DEF TextAssumption
<1>5. s = SearchString <=> \A k \in 1..L : Text[b][j + k] = SearchString[k]
  BY <1>3, <1>4
<1> QED
  BY <1>5 DEF MatchAt

(* The loop finds all the occurrences but the one at the end of a block.   *)
LEMMA CountedIs ==
    ASSUME TextAssumption, NEW b \in Blocks
    PROVE  /\ IsFiniteSet(Counted(b)) /\ Cardinality(Counted(b)) \in Nat
           /\ Cardinality(Occurrences(b)) =
                 IF EndsWithIt(b) THEN Cardinality(Counted(b)) + 1 ELSE Cardinality(Counted(b))
<1> DEFINE L == Len(SearchString)
           B == BLOCK_GENERATE_SIZE
           last == B - L
<1>1. B \in Nat /\ L \in 1..B /\ Len(Text[b]) = B /\ last \in Nat
  BY DEF TextAssumption
<1>2. Counted(b) = {j \in 0..(last - 1) : MatchAt(b, j)}
  BY <1>1 DEF Counted
<1>3. Occurrences(b) = {j \in 0..last : MatchAt(b, j)}
  <2>1. ASSUME NEW j \in Nat
        PROVE  j \in Occurrences(b) <=> j \in 0..last /\ MatchAt(b, j)
    <3>1. j \in 0..last <=> j \in 0..(B - 1) /\ j + L <= B
      BY <1>1
    <3> QED
      BY <1>1, <3>1, MatchIs DEF Occurrences
  <2>2. \A j \in Occurrences(b) : j \in Nat
    BY <1>1 DEF Occurrences
  <2>3. \A j \in 0..last : j \in Nat
    OBVIOUS
  <2> QED
    BY <2>1, <2>2, <2>3
<1>4. IsFiniteSet(Counted(b)) /\ Cardinality(Counted(b)) \in Nat
  <2>1. IsFiniteSet(0..(last - 1))
    BY <1>1, FS_Interval
  <2> QED
    BY <1>2, <2>1, FS_Subset, FS_CardinalityType
<1>5. last \notin Counted(b) /\ (EndsWithIt(b) <=> MatchAt(b, last))
  BY <1>1, <1>2, <1>3 DEF EndsWithIt
<1>6. Occurrences(b) = IF EndsWithIt(b) THEN Counted(b) \cup {last} ELSE Counted(b)
  <2>1. \A j : j \in 0..last <=> j \in 0..(last - 1) \/ j = last
    BY <1>1
  <2> QED
    BY <1>2, <1>3, <1>5, <2>1
<1> QED
  BY <1>4, <1>5, <1>6, FS_AddElement

(* The sum of the property, over a function.                               *)
OccurrenceSum == MapThenSumSet(LAMBDA b : Cardinality(Occurrences(b)), Blocks)
OccurrenceCounts == [b \in Blocks |-> Cardinality(Occurrences(b))]

LEMMA OccurrenceSumIs ==
    ASSUME \A b \in Blocks : Cardinality(Occurrences(b)) \in Nat
    PROVE  OccurrenceSum = Sum(OccurrenceCounts, Blocks)
<1> DEFINE P(g) == g = [s \in SUBSET Blocks |->
                          IF s = {} THEN 0
                          ELSE Cardinality(Occurrences(Taken(s))) + g[s \ {Taken(s)}]]
<1>1. \A s \in SUBSET Blocks :
         s # {} => OccurrenceCounts[Taken(s)] = Cardinality(Occurrences(Taken(s)))
  BY DEF Taken, OccurrenceCounts
<1>2. ASSUME NEW g
      PROVE  Sums(g, OccurrenceCounts, Blocks) <=> P(g)
  BY <1>1 DEF Sums, Take
<1>3. IsFiniteSet(Blocks) /\ \A b \in Blocks : OccurrenceCounts[b] \in Nat
  BY BlocksFinite DEF OccurrenceCounts
<1>4. \E g : Sums(g, OccurrenceCounts, Blocks)
  BY <1>3, SumsExist
<1>5. \E g : P(g)
  <2> HIDE DEF P
  <2> QED
    BY <1>2, <1>4
<1>6. PICK g : P(g) /\ OccurrenceSum = g[Blocks]
  BY <1>5, Zenon DEF OccurrenceSum, Taken, MapThenSumSet, MapThenFoldSet
<1>7. PICK h : Sums(h, OccurrenceCounts, Blocks) /\ Sum(OccurrenceCounts, Blocks) = h[Blocks]
  BY <1>4, SumOfSums
<1>8. Sums(g, OccurrenceCounts, Blocks)
  BY <1>2, <1>6
<1>9. g[Blocks] = h[Blocks]
  <2> HIDE DEF P
  <2> QED
    BY <1>3, <1>7, <1>8, SumsAgree
<1> QED
  BY <1>6, <1>7, <1>9

LEMMA MatchesSum ==
    /\ Sum(Matches, Blocks) \in Nat
    /\ Cardinality({b \in Blocks : EndsWithIt(b)}) \in Nat
    /\ OccurrenceSum = Sum(Matches, Blocks) + Cardinality({b \in Blocks : EndsWithIt(b)})
<1> DEFINE T == {b \in Blocks : EndsWithIt(b)}
<1>1. TextAssumption /\ MatchesAssumption
  BY TextAssumption, MatchesAssumption
<1>2. \A b \in Blocks :
         /\ Matches[b] = Cardinality(Counted(b)) /\ Matches[b] \in Nat
         /\ Cardinality(Occurrences(b)) = IF b \in T THEN Matches[b] + 1 ELSE Matches[b]
  BY <1>1, CountedIs DEF MatchesAssumption
<1>3. \A b \in Blocks :
         /\ Cardinality(Occurrences(b)) \in Nat
         /\ OccurrenceCounts[b] = IF b \in T THEN Matches[b] + 1 ELSE Matches[b]
  BY <1>2 DEF OccurrenceCounts
<1>4. IsFiniteSet(Blocks) /\ IsFiniteSet(T) /\ Cardinality(T) \in Nat
  BY BlocksFinite, FS_Subset, FS_CardinalityType
<1>5. OccurrenceSum = Sum(OccurrenceCounts, Blocks)
  BY <1>3, OccurrenceSumIs
<1>6. Sum(OccurrenceCounts, Blocks) = Sum(Matches, Blocks) + Cardinality(T)
  <2>1. T \in SUBSET Blocks
    OBVIOUS
  <2> HIDE DEF T
  <2> QED
    BY <1>2, <1>3, <1>4, <2>1, SumOneMore
<1>7. Sum(Matches, Blocks) \in Nat
  BY <1>2, <1>4, SumNat
<1> QED
  BY <1>4, <1>5, <1>6, <1>7

(* What is missing from the number main prints, for any texts and any      *)
(* string to search: one for each block that ends with the string, because *)
(* the loop's bound is one position short.                                 *)
Missing == Cardinality({b \in Blocks : EndsWithIt(b)})
ReportFallsShort == reported => CountFound + Missing = OccurrenceSum

(* The error of the printed number is exactly this, whatever the threads   *)
(* do: ReportCounts fails of every report if a block ends with the string, *)
(* and of none otherwise.                                                  *)
THEOREM ReportIs == Spec => [](ReportFallsShort
                                 /\ (reported => (ReportCounts <=> Missing = 0)))
<1>1. Inv /\ Exact /\ reported => CountFound = Sum(Matches, Blocks)
  <2> SUFFICES ASSUME Inv, Exact, reported
               PROVE  CountFound = Sum(Matches, Blocks)
    OBVIOUS
  <2>1. Done = Blocks /\ \A c \in Consumers : pc[c] = "exited"
    BY AllDone, ConsumerAssumption DEF Inv, ThreadStates
  <2>2. \A c \in Consumers : hits[c] = 0
    BY <2>1 DEF Exact
  <2>3. Sum(hits, Consumers) = 0 /\ Sum(Matches, Done) \in Nat
    BY <2>2, SumTypes, SumZero
  <2> QED
    BY <2>1, <2>3 DEF Exact
<1>2. /\ Sum(Matches, Blocks) \in Nat /\ Missing \in Nat
      /\ OccurrenceSum = Sum(Matches, Blocks) + Missing
  BY MatchesSum, Zenon DEF Missing
<1>3. Inv /\ Exact => ReportFallsShort
  BY <1>1, <1>2 DEF ReportFallsShort
<1>4. reported => (ReportCounts <=> CountFound = OccurrenceSum)
  BY Zenon DEF ReportCounts, OccurrenceSum
<1>5. Inv /\ Exact /\ reported => (ReportCounts <=> Missing = 0)
  <2> HIDE DEF Missing, OccurrenceSum
  <2> QED
    BY <1>1, <1>2, <1>4
<1> QED
  BY <1>3, <1>5, ExactAlways, PTL

=============================================================================
