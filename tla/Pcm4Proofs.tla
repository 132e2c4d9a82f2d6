----------------------------- MODULE Pcm4Proofs -----------------------------
(***************************************************************************)
(* Proofs about Pcm4, for any number of threads, blocks and stack slots    *)
(* and for both builds.                                                    *)
(***************************************************************************)
EXTENDS Pcm4, FiniteSetTheorems, TLAPS

Inv == TypeOK /\ MutualExclusion /\ ThreadStates /\ BlockAccounting

USE ThreadsAssumption, SizeAssumption, BlockAssumption

-----------------------------------------------------------------------------
(* Counting.                                                               *)

(* The blocks are finitely many, CountExpected of them.                    *)
LEMMA BlocksFinite ==
    IsFiniteSet(Blocks) /\ Cardinality(Blocks) = CountExpected /\ CountExpected \in Nat
<1>1. IsFiniteSet(1..Iterations) /\ Cardinality(1..Iterations) = Iterations
  BY FS_Interval
<1>2. Cardinality(Producers) \in Nat
  BY FS_CardinalityType
<1>3. CountExpected \in Nat
  BY <1>2 DEF CountExpected
<1> QED
  BY <1>1, <1>3, FS_Product DEF Blocks, CountExpected

(* While a consumer searches a block, CountDone has not reached its goal.  *)
LEMMA NotAllDone ==
    ASSUME BlockAccounting, NEW c \in Consumers, pc[c] = "search"
    PROVE  pBlock[c] # NoBlock /\ (pBlock[c] \in Blocks => CountDone < CountExpected)
<1>1. pBlock[c] \in Searched
  BY DEF Searched, Searchers
<1>2. pBlock[c] # NoBlock
  BY <1>1 DEF BlockAccounting
<1>3. ASSUME pBlock[c] \in Blocks PROVE CountDone < CountExpected
  <2>1. IsFiniteSet(Done) /\ Cardinality(Done) <= CountExpected
    BY BlocksFinite, FS_Subset DEF Done
  <2>2. Done # Blocks
    BY <1>1, <1>3 DEF Done
  <2>3. Cardinality(Done) # CountExpected
    BY <2>2, BlocksFinite, FS_Subset DEF Done
  <2>4. Cardinality(Done) \in Nat
    BY <2>1, FS_CardinalityType
  <2> QED
    BY <2>1, <2>3, <2>4, BlocksFinite DEF BlockAccounting
<1> QED
  BY <1>2, <1>3

(* When CountDone has reached its goal, every block is searched.           *)
LEMMA AllDone ==
    ASSUME BlockAccounting, CountDone = CountExpected
    PROVE  Done = Blocks
BY BlocksFinite, FS_Subset DEF BlockAccounting, Done

-----------------------------------------------------------------------------
(* Types, the mutex and the threads' states.                               *)

Private == TypeOK /\ MutualExclusion /\ ThreadStates

LEMMA InitInv == Init => Inv
<1> SUFFICES ASSUME Init PROVE Inv
  OBVIOUS
<1>1. TypeOK
  <2>1. StackSize \in 0..STACK_MAX_SIZE /\ StackLock \in Threads \cup {NoThread}
    BY DEF Init
  <2>2. StackItems \in [0..(STACK_MAX_SIZE - 1) -> Blocks \cup {NoBlock}]
    BY DEF Init
  <2>3. /\ IterationsToGo \in [Producers -> 0..Iterations]
        /\ pBlock \in [Threads -> Blocks \cup {NoBlock}]
        /\ hits \in [Consumers -> Nat]
    BY DEF Init
  <2>4. /\ pc \in [Threads -> ProducerPcs \cup ConsumerPcs]
        /\ \A p \in Producers : pc[p] \in ProducerPcs
        /\ \A c \in Consumers : pc[c] \in ConsumerPcs
    BY DEF Init, Threads, ProducerPcs, ConsumerPcs
  <2>5. CountFound \in Nat /\ CountDone \in Nat /\ reported \in BOOLEAN
    BY DEF Init
  <2> QED
    BY <2>1, <2>2, <2>3, <2>4, <2>5 DEF TypeOK
<1>a. MutualExclusion
  BY DEF Init, MutualExclusion, Threads, InStack
<1>b. ThreadStates
  BY DEF Init, ThreadStates, Threads
<1>2. Unpushed = Blocks /\ Slots = {}
  BY DEF Init, Unpushed, Slots, Blocks
<1>3. Stacked = {} /\ Searched = {} /\ Searchers = {}
  BY <1>2 DEF Init, Stacked, Searched, Searchers, Threads
<1>4. Done = {}
  BY <1>2, <1>3 DEF Done
<1>5. BlockAccounting
  BY <1>2, <1>3, <1>4, FS_EmptySet DEF Init, BlockAccounting
<1> QED
  BY <1>1, <1>a, <1>b, <1>5 DEF Inv

LEMMA AcquirePrivate ==
    ASSUME Inv, NEW t \in Threads, Acquire(t) PROVE Private'
<1> USE DEF Inv, Private, Acquire, Running, Goto, stackVars, counters, locals
<1>1. TypeOK'
  BY DEF TypeOK, ProducerPcs, ConsumerPcs, Threads
<1>2. MutualExclusion'
  BY DEF TypeOK, MutualExclusion, InStack, Threads
<1>3. ThreadStates'
  BY DEF TypeOK, ThreadStates, NextBlock, Threads
<1> QED
  BY <1>1, <1>2, <1>3

LEMMA CondWaitPrivate ==
    ASSUME Inv, NEW t \in Threads, CondWait(t) PROVE Private'
<1> USE DEF Inv, Private, CondWait, Running, Goto, stackVars, counters, locals
<1>1. TypeOK'
  BY DEF TypeOK, ProducerPcs, ConsumerPcs, Threads
<1>2. MutualExclusion'
  BY DEF TypeOK, MutualExclusion, InStack, Threads
<1>3. ThreadStates'
  BY DEF TypeOK, ThreadStates, NextBlock, Threads
<1> QED
  BY <1>1, <1>2, <1>3

LEMMA SpuriousWakeupPrivate ==
    ASSUME Inv, NEW t \in Threads, SpuriousWakeup(t) PROVE Private'
<1> USE DEF Inv, Private, SpuriousWakeup, Running, Goto, stackVars, counters, locals
<1>1. TypeOK'
  BY DEF TypeOK, ProducerPcs, ConsumerPcs, Threads
<1>2. MutualExclusion'
  BY DEF TypeOK, MutualExclusion, InStack, Threads
<1>3. ThreadStates'
  BY DEF TypeOK, ThreadStates, NextBlock, Threads
<1> QED
  BY <1>1, <1>2, <1>3

LEMMA ExitPrivate ==
    ASSUME Inv, NEW t \in Threads, Exit(t) PROVE Private'
<1> USE DEF Inv, Private, Exit, Running, Goto, stackVars, counters, locals, Broadcast
<1>1. TypeOK'
  BY DEF TypeOK, ProducerPcs, ConsumerPcs, Threads
<1>2. MutualExclusion'
  BY DEF TypeOK, MutualExclusion, InStack, Threads
<1>3. ThreadStates'
  BY DEF TypeOK, ThreadStates, NextBlock, Threads
<1> QED
  BY <1>1, <1>2, <1>3

LEMMA ProducerLoopPrivate ==
    ASSUME Inv, NEW p \in Producers, ProducerLoop(p) PROVE Private'
<1> USE DEF Inv, Private, ProducerLoop, Running, Goto, stackVars, counters, locals
<1>1. TypeOK'
  <2>1. IterationsToGo[p] > 0 => NextBlock(p) \in Blocks
    BY DEF TypeOK, NextBlock, Blocks
  <2>2. pBlock' \in [Threads -> Blocks \cup {NoBlock}]
    BY <2>1 DEF TypeOK, Threads
  <2> QED
    BY <2>2 DEF TypeOK, ProducerPcs, ConsumerPcs, Threads
<1>2. MutualExclusion'
  BY DEF TypeOK, MutualExclusion, InStack, Threads
<1>3. ThreadStates'
  BY DEF TypeOK, ThreadStates, NextBlock, Threads
<1> QED
  BY <1>1, <1>2, <1>3

LEMMA PushCheckPrivate ==
    ASSUME Inv, NEW p \in Producers, PushCheck(p) PROVE Private'
<1> USE DEF Inv, Private, PushCheck, Running, Goto, stackVars, counters, locals
<1>1. TypeOK'
  BY DEF TypeOK, ProducerPcs, ConsumerPcs, Threads
<1>2. MutualExclusion'
  BY DEF TypeOK, MutualExclusion, InStack, Threads
<1>3. ThreadStates'
  BY DEF TypeOK, ThreadStates, NextBlock, Threads
<1> QED
  BY <1>1, <1>2, <1>3

LEMMA PushStorePrivate ==
    ASSUME Inv, NEW p \in Producers, PushStore(p) PROVE Private'
<1> USE DEF Inv, Private, PushStore, Running, Goto, stackVars, counters, locals
<1>a. \A u \in Threads : pc[u] \in InStack => u = p
  BY DEF MutualExclusion, Threads, InStack
<1>b. Producers \cap Consumers = {} /\ Producers \subseteq Threads /\ Consumers \subseteq Threads
  BY DEF Threads
<1>1. TypeOK'
  BY DEF TypeOK, ProducerPcs, ConsumerPcs, Threads
<1>2. MutualExclusion'
  BY DEF TypeOK, MutualExclusion, InStack, Threads
<1>3. ThreadStates'
  <2>1. \A q \in Producers : pc'[q] = "commit" => q = p
    BY <1>a, <1>b DEF InStack, TypeOK
  <2>2. \A c \in Consumers : pc'[c] = pc[c] /\ pc[c] \notin InStack
    BY <1>a, <1>b DEF TypeOK
  <2>3. StackItems'[StackSize] = pBlock[p] /\ StackSize < STACK_MAX_SIZE
    BY DEF TypeOK, ThreadStates
  <2> QED
    BY <1>b, <2>1, <2>2, <2>3 DEF TypeOK, ThreadStates, NextBlock, InStack
<1> QED
  BY <1>1, <1>2, <1>3

LEMMA PushCommitPrivate ==
    ASSUME Inv, NEW p \in Producers, PushCommit(p) PROVE Private'
<1> USE DEF Inv, Private, PushCommit, Running, Goto, stackVars, counters, locals, Broadcast
<1>a. \A u \in Threads : pc[u] \in InStack => u = p
  BY DEF MutualExclusion, Threads, InStack
<1>b. Producers \cap Consumers = {} /\ Producers \subseteq Threads /\ Consumers \subseteq Threads
  BY DEF Threads
<1>1. TypeOK'
  <2>1. StackSize < STACK_MAX_SIZE /\ IterationsToGo[p] > 0
    BY DEF ThreadStates
  <2>2. StackSize' \in 0..STACK_MAX_SIZE
    BY <2>1 DEF TypeOK
  <2>3. IterationsToGo' \in [Producers -> 0..Iterations]
    BY <2>1 DEF TypeOK
  <2>4. /\ pc' \in [Threads -> ProducerPcs \cup ConsumerPcs]
        /\ \A q \in Producers : pc'[q] \in ProducerPcs
        /\ \A c \in Consumers : pc'[c] \in ConsumerPcs
    BY <1>b DEF TypeOK, ProducerPcs, ConsumerPcs
  <2>5. pBlock' \in [Threads -> Blocks \cup {NoBlock}]
    BY DEF TypeOK, Threads
  <2> QED
    BY <2>2, <2>3, <2>4, <2>5 DEF TypeOK
<1>2. MutualExclusion'
  BY DEF TypeOK, MutualExclusion, InStack, Threads
<1>3. ThreadStates'
  <2>1. \A u \in Threads : u # p => pc[u] \notin InStack /\ pc'[u] \notin InStack
    BY <1>a DEF InStack, TypeOK
  <2>2. pc'[p] = "loop"
    BY <1>b DEF TypeOK
  <2>3. \A u \in Threads :
            pc'[u] \in {"exit", "exited"} => pc[u] = pc'[u]
    BY <2>2 DEF TypeOK
  <2>4. ASSUME NEW q \in Producers
        PROVE  /\ pc'[q] \notin {"check", "wait", "store", "commit"}
               /\ pc'[q] \in {"lock", "asleep"} =>
                     IterationsToGo'[q] > 0 /\ pBlock'[q] = NextBlock(q)'
    <3>1. CASE q = p
      BY <2>2, <3>1
    <3>2. CASE q # p
      <4>1. pc'[q] = pc[q]
        BY <1>b, <3>2 DEF TypeOK
      <4>2. IterationsToGo'[q] = IterationsToGo[q] /\ pBlock'[q] = pBlock[q]
        BY <1>b, <3>2 DEF TypeOK
      <4> QED
        BY <1>b, <2>1, <3>2, <4>1, <4>2 DEF ThreadStates, NextBlock, InStack
    <3> QED
      BY <3>1, <3>2
  <2>5. ASSUME NEW c \in Consumers
        PROVE  /\ pc'[c] \notin {"take", "drop"}
               /\ pc'[c] \in {"exit", "exited"} => CountDone = CountExpected
    BY <1>b, <2>1, <2>3 DEF ThreadStates, InStack
  <2> QED
    BY <2>4, <2>5 DEF ThreadStates
<1> QED
  BY <1>1, <1>2, <1>3

LEMMA ConsumerLoopPrivate ==
    ASSUME Inv, NEW c \in Consumers, ConsumerLoop(c) PROVE Private'
<1> USE DEF Inv, Private, ConsumerLoop, Running, Goto, stackVars, counters, locals
<1>1. TypeOK'
  BY DEF TypeOK, ProducerPcs, ConsumerPcs, Threads
<1>2. MutualExclusion'
  BY DEF TypeOK, MutualExclusion, InStack, Threads
<1>3. ThreadStates'
  BY DEF TypeOK, ThreadStates, NextBlock, Threads
<1> QED
  BY <1>1, <1>2, <1>3

LEMMA PopCheckPrivate ==
    ASSUME Inv, NEW c \in Consumers, PopCheck(c) PROVE Private'
<1> USE DEF Inv, Private, PopCheck, Running, Goto, stackVars, counters, locals
<1>1. TypeOK'
  BY DEF TypeOK, ProducerPcs, ConsumerPcs, Threads
<1>2. MutualExclusion'
  BY DEF TypeOK, MutualExclusion, InStack, Threads
<1>3. ThreadStates'
  BY DEF TypeOK, ThreadStates, NextBlock, Threads
<1> QED
  BY <1>1, <1>2, <1>3

LEMMA PopNothingLeftPrivate ==
    ASSUME Inv, NEW c \in Consumers, PopNothingLeft(c) PROVE Private'
<1> USE DEF Inv, Private, PopNothingLeft, Running, Goto, stackVars, counters, locals, Broadcast
<1>1. TypeOK'
  BY DEF TypeOK, ProducerPcs, ConsumerPcs, Threads
<1>2. MutualExclusion'
  BY DEF TypeOK, MutualExclusion, InStack, Threads
<1>3. ThreadStates'
  BY DEF TypeOK, ThreadStates, NextBlock, Threads
<1> QED
  BY <1>1, <1>2, <1>3

LEMMA PopTakePrivate ==
    ASSUME Inv, NEW c \in Consumers, PopTake(c) PROVE Private'
<1> USE DEF Inv, Private, PopTake, Running, Goto, stackVars, counters, locals
<1>a. StackSize > 0 /\ StackItems[StackSize - 1] \in Blocks \cup {NoBlock}
  BY DEF TypeOK, ThreadStates
<1>1. TypeOK'
  BY <1>a DEF TypeOK, ProducerPcs, ConsumerPcs, Threads
<1>2. MutualExclusion'
  BY DEF TypeOK, MutualExclusion, InStack, Threads
<1>3. ThreadStates'
  BY DEF TypeOK, ThreadStates, NextBlock, Threads
<1> QED
  BY <1>1, <1>2, <1>3

LEMMA PopDropPrivate ==
    ASSUME Inv, NEW c \in Consumers, PopDrop(c) PROVE Private'
<1> USE DEF Inv, Private, PopDrop, Running, Goto, stackVars, counters, locals, Broadcast
<1>a. \A u \in Threads : pc[u] \in InStack => u = c
  BY DEF MutualExclusion, Threads, InStack
<1>b. Producers \cap Consumers = {} /\ Producers \subseteq Threads /\ Consumers \subseteq Threads
  BY DEF Threads
<1>c. StackSize > 0
  BY DEF ThreadStates
<1>1. TypeOK'
  <2>1. StackSize' \in 0..STACK_MAX_SIZE
    BY <1>c DEF TypeOK
  <2>2. /\ pc' \in [Threads -> ProducerPcs \cup ConsumerPcs]
        /\ \A p \in Producers : pc'[p] \in ProducerPcs
        /\ \A d \in Consumers : pc'[d] \in ConsumerPcs
    BY <1>b DEF TypeOK, ProducerPcs, ConsumerPcs
  <2> QED
    BY <2>1, <2>2 DEF TypeOK
<1>2. MutualExclusion'
  BY DEF TypeOK, MutualExclusion, InStack, Threads
<1>3. ThreadStates'
  <2>1. \A u \in Threads : u # c => pc[u] \notin InStack /\ pc'[u] \notin InStack
    BY <1>a DEF InStack, TypeOK
  <2>2. pc'[c] = "search"
    BY <1>b DEF TypeOK
  <2>3. ASSUME NEW p \in Producers
        PROVE  /\ pc'[p] \notin {"check", "wait", "store", "commit"}
               /\ pc'[p] \in {"lock", "asleep"} =>
                     IterationsToGo[p] > 0 /\ pBlock[p] = NextBlock(p)
    <3>1. pc'[p] = pc[p] \/ (pc[p] = "asleep" /\ pc'[p] = "lock")
      BY <1>b DEF TypeOK
    <3> QED
      BY <1>b, <2>1, <3>1 DEF ThreadStates, InStack
  <2>4. ASSUME NEW d \in Consumers
        PROVE  /\ pc'[d] \notin {"take", "drop"}
               /\ pc'[d] \in {"exit", "exited"} => CountDone = CountExpected
    <3>1. d = c \/ pc'[d] = pc[d]
      BY <1>b DEF TypeOK
    <3> QED
      BY <1>b, <2>1, <2>2, <3>1 DEF ThreadStates, InStack
  <2> QED
    BY <2>3, <2>4 DEF ThreadStates, NextBlock
<1> QED
  BY <1>1, <1>2, <1>3

LEMMA SearchMatchPrivate ==
    ASSUME Inv, NEW c \in Consumers, SearchMatch(c) PROVE Private'
<1> USE DEF Inv, Private, SearchMatch, Running, Goto, stackVars, counters, locals
<1>1. TypeOK'
  BY DEF TypeOK, ProducerPcs, ConsumerPcs, Threads
<1>2. MutualExclusion'
  BY DEF TypeOK, MutualExclusion, InStack, Threads
<1>3. ThreadStates'
  BY DEF TypeOK, ThreadStates, NextBlock, Threads
<1> QED
  BY <1>1, <1>2, <1>3

LEMMA SearchDonePrivate ==
    ASSUME Inv, NEW c \in Consumers, SearchDone(c) PROVE Private'
<1> USE DEF Inv, Private, SearchDone, Running, Goto, stackVars, counters, locals
<1>1. TypeOK'
  BY DEF TypeOK, ProducerPcs, ConsumerPcs, Threads
<1>2. MutualExclusion'
  BY DEF TypeOK, MutualExclusion, InStack, Threads
<1>a. CountDone < CountExpected
  BY NotAllDone DEF TypeOK, Threads
<1>3. ThreadStates'
  <2>1. \A d \in Consumers : pc[d] \notin {"exit", "exited"}
    BY <1>a, BlocksFinite DEF TypeOK, ThreadStates
  <2>2. \A d \in Consumers : pc[d] = "take" => StackSize > 0
    BY <1>a, BlocksFinite DEF TypeOK, ThreadStates
  <2>3. \A p \in Producers : pc'[p] = pc[p] /\ pBlock'[p] = pBlock[p]
    BY DEF TypeOK, Threads
  <2>4. \A d \in Consumers : d = c \/ (pc'[d] = pc[d] /\ pBlock'[d] = pBlock[d])
    BY DEF TypeOK, Threads
  <2>5. pc'[c] = "loop"
    BY DEF TypeOK, Threads
  <2> QED
    BY <2>1, <2>2, <2>3, <2>4, <2>5 DEF ThreadStates, NextBlock
<1> QED
  BY <1>1, <1>2, <1>3

-----------------------------------------------------------------------------
(* Where the blocks go.  A step moves no block or moves one.               *)

Distinct ==
    /\ \A i, j \in Slots : StackItems[i] = StackItems[j] => i = j
    /\ \A c, d \in Searchers : pBlock[c] = pBlock[d] => c = d

Nothing ==
    Unpushed' = Unpushed /\ Stacked' = Stacked /\ Searched' = Searched /\ CountDone' = CountDone

Pushed(b) ==
    /\ b \in Blocks
    /\ b \in Unpushed /\ StackSize < STACK_MAX_SIZE
    /\ Unpushed' = Unpushed \ {b} /\ Stacked' = Stacked \cup {b}
    /\ Searched' = Searched /\ CountDone' = CountDone

Popped(b) ==
    /\ b \in Stacked
    /\ Stacked' = Stacked \ {b} /\ Searched' = Searched \cup {b}
    /\ Unpushed' = Unpushed /\ CountDone' = CountDone

Finished(b) ==
    /\ b \in Searched
    /\ Searched' = Searched \ {b} /\ CountDone' = CountDone + 1
    /\ Unpushed' = Unpushed /\ Stacked' = Stacked

(* The step leaves the visible part of the stack and the searches alone.   *)
Quiet ==
    /\ IterationsToGo' = IterationsToGo /\ StackSize' = StackSize /\ CountDone' = CountDone
    /\ \A i \in Slots : StackItems'[i] = StackItems[i]
    /\ \A c \in Consumers : /\ pc'[c] = "search" <=> pc[c] = "search"
                            /\ pc[c] = "search" => pBlock'[c] = pBlock[c]

(* A quiet step moves no block.                                            *)
LEMMA Frame ==
    ASSUME BlockAccounting, Quiet
    PROVE  Nothing /\ Distinct'
<1>1. IterationsToGo' = IterationsToGo /\ StackSize' = StackSize /\ CountDone' = CountDone
  BY DEF Quiet
<1>2. \A i \in Slots : StackItems'[i] = StackItems[i]
  BY DEF Quiet
<1>3. \A c \in Consumers : pc'[c] = "search" <=> pc[c] = "search"
  BY DEF Quiet
<1>4. \A c \in Searchers : pBlock'[c] = pBlock[c]
  BY DEF Quiet, Searchers
<1>5. Unpushed' = Unpushed /\ Slots' = Slots
  BY <1>1 DEF Unpushed, Slots
<1>6. Stacked' = Stacked
  BY <1>2, <1>5 DEF Stacked
<1>7. Searchers' = Searchers
  BY <1>3 DEF Searchers
<1>8. Searched' = Searched
  BY <1>4, <1>7 DEF Searched
<1>9. Distinct'
  <2>1. \A i, j \in Slots : StackItems'[i] = StackItems'[j] => i = j
    BY <1>2 DEF BlockAccounting
  <2>2. \A c, d \in Searchers : pBlock'[c] = pBlock'[d] => c = d
    BY <1>4 DEF BlockAccounting
  <2> QED
    BY <1>5, <1>7, <2>1, <2>2 DEF Distinct
<1> QED
  BY <1>1, <1>5, <1>6, <1>8, <1>9 DEF Nothing

LEMMA PushCommitMoves ==
    ASSUME Inv, NEW p \in Producers, PushCommit(p)
    PROVE  Pushed(pBlock[p]) /\ Distinct'
<1> DEFINE b == pBlock[p]
<1> USE DEF Inv, PushCommit, Running, Goto, counters
<1>1. /\ b = NextBlock(p) /\ IterationsToGo[p] \in 1..Iterations
      /\ StackSize \in Nat /\ StackSize < STACK_MAX_SIZE /\ StackItems[StackSize] = b
  BY DEF TypeOK, ThreadStates
<1>2. b \in Blocks /\ b[1] = p /\ b[2] = Iterations - IterationsToGo[p] + 1
  BY <1>1 DEF NextBlock, Blocks
<1>3. b \in Unpushed
  BY <1>1, <1>2 DEF Unpushed
<1>4. Unpushed' = Unpushed \ {b}
  <2>1. ASSUME NEW x \in Blocks
        PROVE  x[2] > Iterations - IterationsToGo'[x[1]] <=>
                   x[2] > Iterations - IterationsToGo[x[1]] /\ x # b
    <3>1. x[1] \in Producers /\ x[2] \in 1..Iterations /\ x = <<x[1], x[2]>>
      BY DEF Blocks
    <3>2. CASE x[1] # p
      BY <1>2, <3>1, <3>2 DEF TypeOK
    <3>3. CASE x[1] = p
      <4>1. IterationsToGo'[p] = IterationsToGo[p] - 1
        BY DEF TypeOK
      <4>2. x = b <=> x[2] = Iterations - IterationsToGo[p] + 1
        BY <1>1, <3>1, <3>3 DEF NextBlock
      <4> QED
        BY <1>1, <3>1, <3>3, <4>1, <4>2
    <3> QED
      BY <3>2, <3>3
  <2> QED
    BY <2>1 DEF Unpushed
<1>5. Slots' = Slots \cup {StackSize} /\ StackSize \notin Slots
  BY <1>1 DEF Slots
<1>6. Stacked' = Stacked \cup {b}
  BY <1>1, <1>5 DEF Stacked
<1>7. \A c \in Consumers : /\ pc'[c] = "search" <=> pc[c] = "search"
                           /\ pBlock'[c] = pBlock[c]
  BY DEF TypeOK, Broadcast, Threads
<1>8. Searchers' = Searchers /\ Searched' = Searched
  <2>1. Searchers' = Searchers
    BY <1>7 DEF Searchers
  <2>2. \A c \in Searchers : pBlock'[c] = pBlock[c]
    BY <1>7 DEF Searchers
  <2> QED
    BY <2>1, <2>2 DEF Searched
<1>9. Distinct'
  <2>1. \A i \in Slots : StackItems[i] # b
    BY <1>3 DEF BlockAccounting, Stacked
  <2>2. StackItems' = StackItems
    OBVIOUS
  <2>3. \A i, j \in Slots' : StackItems'[i] = StackItems'[j] => i = j
    BY <1>1, <1>5, <2>1, <2>2 DEF BlockAccounting
  <2>4. \A c, d \in Searchers' : pBlock'[c] = pBlock'[d] => c = d
    BY <1>7, <1>8 DEF BlockAccounting, Searchers
  <2> QED
    BY <2>3, <2>4 DEF Distinct
<1> QED
  BY <1>1, <1>2, <1>3, <1>4, <1>6, <1>8, <1>9 DEF Pushed

LEMMA PopDropMoves ==
    ASSUME Inv, NEW c \in Consumers, PopDrop(c)
    PROVE  Popped(pBlock[c]) /\ Distinct'
<1> DEFINE b == pBlock[c]
<1> USE DEF Inv, PopDrop, Running, Goto, counters, locals
<1>1. StackSize \in Nat /\ StackSize > 0 /\ StackItems[StackSize - 1] = b
  BY DEF TypeOK, ThreadStates
<1>2. Slots' = Slots \ {StackSize - 1} /\ StackSize - 1 \in Slots
  BY <1>1 DEF Slots
<1>3. b \in Stacked
  BY <1>1, <1>2 DEF Stacked
<1>4. \A i \in Slots : StackItems[i] = b => i = StackSize - 1
  BY <1>1, <1>2 DEF BlockAccounting
<1>5. Stacked' = Stacked \ {b}
  BY <1>1, <1>2, <1>4 DEF Stacked
<1>6. pc'[c] = "search" /\ \A d \in Consumers \ {c} : pc'[d] = pc[d]
  BY DEF TypeOK, Broadcast, Threads
<1>7. Searchers' = Searchers \cup {c} /\ c \notin Searchers
  BY <1>6 DEF Searchers
<1>8. Searched' = Searched \cup {b}
  <2>1. pBlock' = pBlock
    OBVIOUS
  <2>2. Searched' = {pBlock[d] : d \in Searchers \cup {c}}
    BY <1>7, <2>1 DEF Searched
  <2> QED
    BY <2>2 DEF Searched
<1>9. Unpushed' = Unpushed
  BY DEF Unpushed
<1>10. Distinct'
  <2>1. \A d \in Searchers : pBlock[d] # b
    BY <1>3 DEF BlockAccounting, Searched
  <2>2. pBlock' = pBlock /\ StackItems' = StackItems
    OBVIOUS
  <2>3. \A i, j \in Slots' : StackItems'[i] = StackItems'[j] => i = j
    BY <1>2, <2>2 DEF BlockAccounting
  <2>4. \A d, e \in Searchers' : pBlock'[d] = pBlock'[e] => d = e
    BY <1>7, <2>1, <2>2 DEF BlockAccounting
  <2> QED
    BY <2>3, <2>4 DEF Distinct
<1> QED
  BY <1>3, <1>5, <1>8, <1>9, <1>10 DEF Popped

LEMMA SearchDoneMoves ==
    ASSUME Inv, NEW c \in Consumers, SearchDone(c)
    PROVE  Finished(pBlock[c]) /\ Distinct'
<1> DEFINE b == pBlock[c]
<1> USE DEF Inv, SearchDone, Running, Goto, stackVars
<1>1. c \in Searchers /\ b \in Searched
  BY DEF Searchers, Searched
<1>2. \A d \in Consumers : d # c => pc'[d] = pc[d] /\ pBlock'[d] = pBlock[d]
  BY DEF TypeOK, Threads
<1>3. pc'[c] = "loop"
  BY DEF TypeOK, Threads
<1>4. Searchers' = Searchers \ {c}
  BY <1>2, <1>3 DEF Searchers
<1>5. \A d \in Searchers \ {c} : pBlock'[d] = pBlock[d] /\ pBlock[d] # b
  BY <1>1, <1>2 DEF Searchers, BlockAccounting
<1>6. Searched' = Searched \ {b}
  BY <1>1, <1>4, <1>5 DEF Searched
<1>7. Unpushed' = Unpushed /\ Slots' = Slots /\ Stacked' = Stacked
  BY DEF Unpushed, Slots, Stacked
<1>8. Distinct'
  BY <1>4, <1>5, <1>7 DEF Distinct, BlockAccounting
<1> QED
  BY <1>1, <1>6, <1>7, <1>8 DEF Finished

-----------------------------------------------------------------------------
(* All the steps together.                                                 *)

(* The actions of Next, one by one.                                        *)
LEMMA NextCases ==
    ASSUME [Next]_vars
    PROVE  \/ \E t \in Threads : Acquire(t) \/ CondWait(t) \/ SpuriousWakeup(t) \/ Exit(t)
           \/ \E p \in Producers : ProducerLoop(p) \/ PushCheck(p) \/ PushStore(p) \/ PushCommit(p)
           \/ \E c \in Consumers : \/ ConsumerLoop(c) \/ PopCheck(c) \/ PopNothingLeft(c)
                                   \/ PopTake(c) \/ PopDrop(c) \/ SearchMatch(c) \/ SearchDone(c)
           \/ MainReport
           \/ UNCHANGED vars
BY DEF Next, Step, Producer, Consumer, Terminated

LEMMA MainReportPrivate ==
    ASSUME Inv, MainReport PROVE Private'
<1> USE DEF Inv, Private, MainReport, stackVars, counters, locals
<1>1. TypeOK'
  BY DEF TypeOK
<1>2. MutualExclusion'
  BY DEF MutualExclusion
<1>3. ThreadStates'
  BY DEF ThreadStates, NextBlock
<1> QED
  BY <1>1, <1>2, <1>3

LEMMA StutterPrivate ==
    ASSUME Inv, UNCHANGED vars PROVE Private'
<1> USE DEF Inv, Private, vars
<1>1. TypeOK'
  BY DEF TypeOK
<1>2. MutualExclusion'
  BY DEF MutualExclusion
<1>3. ThreadStates'
  BY DEF ThreadStates, NextBlock
<1> QED
  BY <1>1, <1>2, <1>3

LEMMA StepPrivate ==
    ASSUME Inv, [Next]_vars PROVE Private'
BY NextCases, MainReportPrivate, StutterPrivate,
   AcquirePrivate, CondWaitPrivate, SpuriousWakeupPrivate, ExitPrivate,
   ProducerLoopPrivate, PushCheckPrivate, PushStorePrivate, PushCommitPrivate,
   ConsumerLoopPrivate, PopCheckPrivate, PopNothingLeftPrivate, PopTakePrivate,
   PopDropPrivate, SearchMatchPrivate, SearchDonePrivate

Moves ==
    \/ Nothing
    \/ \E b : Pushed(b) \/ Popped(b) \/ Finished(b)

(* All the other steps are quiet.                                          *)
LEMMA QuietSteps ==
    ASSUME Inv, [Next]_vars,
           ~\E p \in Producers : PushCommit(p),
           ~\E c \in Consumers : PopDrop(c) \/ SearchDone(c)
    PROVE  Quiet
<1> USE DEF Inv, TypeOK, Quiet, Running, Goto, stackVars, counters, locals
<1>1. ASSUME NEW t \in Threads, Acquire(t) PROVE Quiet
  <2>1. IterationsToGo' = IterationsToGo /\ StackSize' = StackSize /\ CountDone' = CountDone
    BY <1>1 DEF Acquire
  <2>2. \A i \in Slots : StackItems'[i] = StackItems[i]
    BY <1>1 DEF Acquire, Slots
  <2>3. \A d \in Consumers : /\ pc'[d] = "search" <=> pc[d] = "search"
                             /\ pc[d] = "search" => pBlock'[d] = pBlock[d]
    BY <1>1 DEF Acquire, Threads
  <2> QED
    BY <2>1, <2>2, <2>3
<1>2. ASSUME NEW t \in Threads, CondWait(t) PROVE Quiet
  <2>1. IterationsToGo' = IterationsToGo /\ StackSize' = StackSize /\ CountDone' = CountDone
    BY <1>2 DEF CondWait
  <2>2. \A i \in Slots : StackItems'[i] = StackItems[i]
    BY <1>2 DEF CondWait, Slots
  <2>3. \A d \in Consumers : /\ pc'[d] = "search" <=> pc[d] = "search"
                             /\ pc[d] = "search" => pBlock'[d] = pBlock[d]
    BY <1>2 DEF CondWait, Threads
  <2> QED
    BY <2>1, <2>2, <2>3
<1>3. ASSUME NEW t \in Threads, SpuriousWakeup(t) PROVE Quiet
  <2>1. IterationsToGo' = IterationsToGo /\ StackSize' = StackSize /\ CountDone' = CountDone
    BY <1>3 DEF SpuriousWakeup
  <2>2. \A i \in Slots : StackItems'[i] = StackItems[i]
    BY <1>3 DEF SpuriousWakeup, Slots
  <2>3. \A d \in Consumers : /\ pc'[d] = "search" <=> pc[d] = "search"
                             /\ pc[d] = "search" => pBlock'[d] = pBlock[d]
    BY <1>3 DEF SpuriousWakeup, Threads
  <2> QED
    BY <2>1, <2>2, <2>3
<1>4. ASSUME NEW t \in Threads, Exit(t) PROVE Quiet
  <2>1. IterationsToGo' = IterationsToGo /\ StackSize' = StackSize /\ CountDone' = CountDone
    BY <1>4 DEF Exit
  <2>2. \A i \in Slots : StackItems'[i] = StackItems[i]
    BY <1>4 DEF Exit, Slots
  <2>3. \A d \in Consumers : /\ pc'[d] = "search" <=> pc[d] = "search"
                             /\ pc[d] = "search" => pBlock'[d] = pBlock[d]
    BY <1>4 DEF Exit, Threads, Broadcast
  <2> QED
    BY <2>1, <2>2, <2>3
<1>5. ASSUME NEW p \in Producers, ProducerLoop(p) PROVE Quiet
  <2>1. IterationsToGo' = IterationsToGo /\ StackSize' = StackSize /\ CountDone' = CountDone
    BY <1>5 DEF ProducerLoop
  <2>2. \A i \in Slots : StackItems'[i] = StackItems[i]
    BY <1>5 DEF ProducerLoop, Slots
  <2>3. \A d \in Consumers : /\ pc'[d] = "search" <=> pc[d] = "search"
                             /\ pc[d] = "search" => pBlock'[d] = pBlock[d]
    BY <1>5 DEF ProducerLoop, Threads
  <2> QED
    BY <2>1, <2>2, <2>3
<1>6. ASSUME NEW p \in Producers, PushCheck(p) PROVE Quiet
  <2>1. IterationsToGo' = IterationsToGo /\ StackSize' = StackSize /\ CountDone' = CountDone
    BY <1>6 DEF PushCheck
  <2>2. \A i \in Slots : StackItems'[i] = StackItems[i]
    BY <1>6 DEF PushCheck, Slots
  <2>3. \A d \in Consumers : /\ pc'[d] = "search" <=> pc[d] = "search"
                             /\ pc[d] = "search" => pBlock'[d] = pBlock[d]
    BY <1>6 DEF PushCheck, Threads
  <2> QED
    BY <2>1, <2>2, <2>3
<1>7. ASSUME NEW p \in Producers, PushStore(p) PROVE Quiet
  <2>1. IterationsToGo' = IterationsToGo /\ StackSize' = StackSize /\ CountDone' = CountDone
    BY <1>7 DEF PushStore
  <2>2. \A i \in Slots : StackItems'[i] = StackItems[i]
    BY <1>7 DEF PushStore, Slots
  <2>3. \A d \in Consumers : /\ pc'[d] = "search" <=> pc[d] = "search"
                             /\ pc[d] = "search" => pBlock'[d] = pBlock[d]
    BY <1>7 DEF PushStore, Threads
  <2> QED
    BY <2>1, <2>2, <2>3
<1>8. ASSUME NEW c \in Consumers, ConsumerLoop(c) PROVE Quiet
  <2>1. IterationsToGo' = IterationsToGo /\ StackSize' = StackSize /\ CountDone' = CountDone
    BY <1>8 DEF ConsumerLoop
  <2>2. \A i \in Slots : StackItems'[i] = StackItems[i]
    BY <1>8 DEF ConsumerLoop, Slots
  <2>3. \A d \in Consumers : /\ pc'[d] = "search" <=> pc[d] = "search"
                             /\ pc[d] = "search" => pBlock'[d] = pBlock[d]
    BY <1>8 DEF ConsumerLoop, Threads
  <2> QED
    BY <2>1, <2>2, <2>3
<1>9. ASSUME NEW c \in Consumers, PopCheck(c) PROVE Quiet
  <2>1. IterationsToGo' = IterationsToGo /\ StackSize' = StackSize /\ CountDone' = CountDone
    BY <1>9 DEF PopCheck
  <2>2. \A i \in Slots : StackItems'[i] = StackItems[i]
    BY <1>9 DEF PopCheck, Slots
  <2>3. \A d \in Consumers : /\ pc'[d] = "search" <=> pc[d] = "search"
                             /\ pc[d] = "search" => pBlock'[d] = pBlock[d]
    BY <1>9 DEF PopCheck, Threads
  <2> QED
    BY <2>1, <2>2, <2>3
<1>10. ASSUME NEW c \in Consumers, PopNothingLeft(c) PROVE Quiet
  <2>1. IterationsToGo' = IterationsToGo /\ StackSize' = StackSize /\ CountDone' = CountDone
    BY <1>10 DEF PopNothingLeft
  <2>2. \A i \in Slots : StackItems'[i] = StackItems[i]
    BY <1>10 DEF PopNothingLeft, Slots
  <2>3. \A d \in Consumers : /\ pc'[d] = "search" <=> pc[d] = "search"
                             /\ pc[d] = "search" => pBlock'[d] = pBlock[d]
    BY <1>10 DEF PopNothingLeft, Threads, Broadcast
  <2> QED
    BY <2>1, <2>2, <2>3
<1>11. ASSUME NEW c \in Consumers, PopTake(c) PROVE Quiet
  <2>1. IterationsToGo' = IterationsToGo /\ StackSize' = StackSize /\ CountDone' = CountDone
    BY <1>11 DEF PopTake
  <2>2. \A i \in Slots : StackItems'[i] = StackItems[i]
    BY <1>11 DEF PopTake, Slots
  <2>3. \A d \in Consumers : /\ pc'[d] = "search" <=> pc[d] = "search"
                             /\ pc[d] = "search" => pBlock'[d] = pBlock[d]
    BY <1>11 DEF PopTake, Threads
  <2> QED
    BY <2>1, <2>2, <2>3
<1>12. ASSUME NEW c \in Consumers, SearchMatch(c) PROVE Quiet
  <2>1. IterationsToGo' = IterationsToGo /\ StackSize' = StackSize /\ CountDone' = CountDone
    BY <1>12 DEF SearchMatch
  <2>2. \A i \in Slots : StackItems'[i] = StackItems[i]
    BY <1>12 DEF SearchMatch, Slots
  <2>3. \A d \in Consumers : /\ pc'[d] = "search" <=> pc[d] = "search"
                             /\ pc[d] = "search" => pBlock'[d] = pBlock[d]
    BY <1>12 DEF SearchMatch, Threads
  <2> QED
    BY <2>1, <2>2, <2>3
<1>13. ASSUME MainReport \/ UNCHANGED vars PROVE Quiet
  BY <1>13 DEF MainReport, vars
<1> QED
  BY NextCases, <1>1, <1>2, <1>3, <1>4, <1>5, <1>6, <1>7, <1>8, <1>9, <1>10, <1>11, <1>12, <1>13

LEMMA StepMoves ==
    ASSUME Inv, [Next]_vars PROVE Moves /\ Distinct'
<1>1. CASE \E p \in Producers : PushCommit(p)
  BY <1>1, PushCommitMoves DEF Moves
<1>2. CASE \E c \in Consumers : PopDrop(c) \/ SearchDone(c)
  BY <1>2, PopDropMoves, SearchDoneMoves DEF Moves
<1>3. CASE /\ ~\E p \in Producers : PushCommit(p)
           /\ ~\E c \in Consumers : PopDrop(c) \/ SearchDone(c)
  <2>1. Quiet
    BY <1>3, QuietSteps
  <2> QED
    BY <2>1, Frame DEF Inv, Moves
<1> QED
  BY <1>1, <1>2, <1>3

LEMMA SearchedBlocks ==
    ASSUME Inv PROVE Searched \subseteq Blocks /\ Stacked \subseteq Blocks
BY DEF Inv, TypeOK, BlockAccounting, Searched, Searchers, Stacked, Slots, Threads

LEMMA MovesAccounting ==
    ASSUME Inv, Moves, Distinct' PROVE BlockAccounting'
<1> USE DEF Inv, BlockAccounting, Distinct
<1>1. IsFiniteSet(Done) /\ CountDone = Cardinality(Done)
  BY BlocksFinite, FS_Subset DEF Done
<1>2. CASE Nothing
  BY <1>2 DEF Nothing, Done
<1>3. ASSUME NEW b, Pushed(b) PROVE BlockAccounting'
  <2>1. b \notin Stacked /\ b \notin Searched /\ b # NoBlock
    BY <1>3 DEF Pushed
  <2>2. Done' = Done
    BY <1>3 DEF Pushed, Done
  <2> QED
    BY <1>3, <2>1, <2>2 DEF Pushed
<1>4. ASSUME NEW b, Popped(b) PROVE BlockAccounting'
  <2>1. Done' = Done
    BY <1>4 DEF Popped, Done
  <2> QED
    BY <1>4, <2>1 DEF Popped
<1>5. ASSUME NEW b, Finished(b) PROVE BlockAccounting'
  <2>1. b \in Blocks /\ b \notin Unpushed /\ b \notin Stacked
    BY <1>5, SearchedBlocks DEF Finished
  <2>2. Done' = Done \cup {b} /\ b \notin Done
    BY <1>5, <2>1 DEF Finished, Done
  <2>3. CountDone' = Cardinality(Done')
    BY <1>1, <1>5, <2>2, FS_AddElement DEF Finished
  <2> QED
    BY <1>5, <2>3 DEF Finished
<1> QED
  BY <1>2, <1>3, <1>4, <1>5 DEF Moves

-----------------------------------------------------------------------------
(* Who sleeps.                                                             *)

\* From the test to the sleep, and asleep until the next broadcast; the other
\* build never waits.
Waiting ==
    /\ ~UseConditionVars => \A t \in Threads : pc[t] \notin {"wait", "asleep"}
    /\ \A p \in Producers : pc[p] \in {"wait", "asleep"} => StackSize = STACK_MAX_SIZE
    /\ \A c \in Consumers : pc[c] \in {"wait", "asleep"} => StackSize = 0

LEMMA WaitingKept ==
    ASSUME Inv, Waiting, [Next]_vars PROVE Waiting'
<1> USE DEF Inv, TypeOK, Waiting, Running, Goto, stackVars, counters, locals, Broadcast
<1>1. ASSUME NEW t \in Threads, Acquire(t) PROVE Waiting'
  BY <1>1 DEF Acquire, Threads
<1>2. ASSUME NEW t \in Threads, CondWait(t) PROVE Waiting'
  BY <1>2 DEF CondWait, Threads
<1>3. ASSUME NEW t \in Threads, SpuriousWakeup(t) PROVE Waiting'
  BY <1>3 DEF SpuriousWakeup, Threads
<1>4. ASSUME NEW t \in Threads, Exit(t) PROVE Waiting'
  BY <1>4 DEF Exit, Threads
<1>5. ASSUME NEW p \in Producers, ProducerLoop(p) PROVE Waiting'
  BY <1>5 DEF ProducerLoop, Threads
<1>6. ASSUME NEW p \in Producers, PushCheck(p) PROVE Waiting'
  BY <1>6 DEF PushCheck, Threads
<1>7. ASSUME NEW p \in Producers, PushStore(p) PROVE Waiting'
  BY <1>7 DEF PushStore, Threads
<1>8. ASSUME NEW p \in Producers, PushCommit(p) PROVE Waiting'
  <2>1. StackSize < STACK_MAX_SIZE
    BY <1>8 DEF PushCommit, ThreadStates
  <2>2. \A q \in Producers : pc[q] \notin {"wait", "asleep"}
    BY <2>1
  <2>3. \A c \in Consumers : pc[c] # "wait"
    BY <1>8 DEF PushCommit, Threads, MutualExclusion, InStack
  <2>4. CASE UseConditionVars
    BY <1>8, <2>2, <2>3, <2>4 DEF PushCommit, Threads
  <2>5. CASE ~UseConditionVars
    BY <1>8, <2>2, <2>3, <2>5 DEF PushCommit, Threads
  <2> QED
    BY <2>4, <2>5
<1>9. ASSUME NEW c \in Consumers, ConsumerLoop(c) PROVE Waiting'
  BY <1>9 DEF ConsumerLoop, Threads
<1>10. ASSUME NEW c \in Consumers, PopCheck(c) PROVE Waiting'
  BY <1>10 DEF PopCheck, Threads
<1>11. ASSUME NEW c \in Consumers, PopNothingLeft(c) PROVE Waiting'
  BY <1>11 DEF PopNothingLeft, Threads
<1>12. ASSUME NEW c \in Consumers, PopTake(c) PROVE Waiting'
  BY <1>12 DEF PopTake, Threads
<1>13. ASSUME NEW c \in Consumers, PopDrop(c) PROVE Waiting'
  <2>1. StackSize > 0
    BY <1>13 DEF PopDrop, ThreadStates
  <2>2. \A d \in Consumers : pc[d] \notin {"wait", "asleep"}
    BY <2>1
  <2>3. \A p \in Producers : pc[p] # "wait"
    BY <1>13 DEF PopDrop, Threads, MutualExclusion, InStack
  <2>4. CASE UseConditionVars
    BY <1>13, <2>2, <2>3, <2>4 DEF PopDrop, Threads
  <2>5. CASE ~UseConditionVars
    BY <1>13, <2>2, <2>3, <2>5 DEF PopDrop, Threads
  <2> QED
    BY <2>4, <2>5
<1>14. ASSUME NEW c \in Consumers, SearchMatch(c) PROVE Waiting'
  BY <1>14 DEF SearchMatch, Threads
<1>15. ASSUME NEW c \in Consumers, SearchDone(c) PROVE Waiting'
  BY <1>15 DEF SearchDone, Threads
<1>16. ASSUME MainReport \/ UNCHANGED vars PROVE Waiting'
  BY <1>16 DEF MainReport, vars
<1> QED
  BY NextCases, <1>1, <1>2, <1>3, <1>4, <1>5, <1>6, <1>7, <1>8,
     <1>9, <1>10, <1>11, <1>12, <1>13, <1>14, <1>15, <1>16

-----------------------------------------------------------------------------
(* The theorems.                                                           *)

LEMMA PoolCardinality == \A S : Pool!Cardinality(S) = Cardinality(S)
BY DEF Pool!Cardinality, Cardinality

(* The stack holds no more blocks than StackSize says.                     *)
LEMMA StackedBound ==
    ASSUME Inv
    PROVE  Cardinality(Stacked) \in Nat /\ Cardinality(Stacked) <= StackSize
<1>1. StackSize \in Nat
  BY DEF Inv, TypeOK
<1>2. IsFiniteSet(Slots) /\ Cardinality(Slots) = StackSize
  BY <1>1, FS_Interval DEF Slots
<1> DEFINE f == [i \in Slots |-> StackItems[i]]
<1>3. f \in Surjection(Slots, Stacked)
  BY DEF Surjection, Stacked
<1>4. IsFiniteSet(Stacked) /\ Cardinality(Stacked) <= StackSize
  <2> HIDE DEF f
  <2> QED
    BY <1>2, <1>3, FS_Surjection
<1> QED
  BY <1>4, FS_CardinalityType

LEMMA Invariance == Spec => []Inv
<1>1. Init => Inv
  BY InitInv
<1>2. Inv /\ [Next]_vars => Inv'
  BY StepPrivate, StepMoves, MovesAccounting DEF Private, Inv
<1> QED
  BY <1>1, <1>2, PTL DEF Spec

(* Every variable keeps its type, and the stack its bounds.                *)
THEOREM TypeCorrect == Spec => []TypeOK
BY Invariance, PTL DEF Inv

(* StackLock keeps the threads apart on every path through the push and    *)
(* pop functions.                                                          *)
THEOREM Exclusion == Spec => []MutualExclusion
BY Invariance, PTL DEF Inv

(* No block is lost or worked on twice, and CountDone is exact.            *)
THEOREM Accounting == Spec => []BlockAccounting
BY Invariance, PTL DEF Inv

(* No thread of the condition-variable build sleeps on a stack that has    *)
(* what it waits for.                                                      *)
THEOREM Sleepers == Spec => []SleepersBlocked
<1>1. Init => Waiting
  BY DEF Init, Waiting, Threads
<1>2. Inv /\ Waiting /\ [Next]_vars => Waiting'
  BY WaitingKept
<1>3. Waiting => SleepersBlocked
  BY DEF Waiting, SleepersBlocked
<1> QED
  BY <1>1, <1>2, <1>3, Invariance, PTL DEF Spec

(* A result that is printed covers every block.                            *)
THEOREM CompleteReport == Spec => []ReportComplete
<1>1. Inv => ReportComplete
  BY AllDone, ConsumerAssumption DEF Inv, ThreadStates, ReportComplete
<1> QED
  BY <1>1, Invariance, PTL

(* Both builds implement the bounded work pool.                            *)
THEOREM Refinement == Spec => RefinesWorkPool
<1>1. Init => Pool!WPInit
  <2> SUFFICES ASSUME Init PROVE Pool!WPInit
    OBVIOUS
  <2>1. Unpushed = Blocks /\ Slots = {} /\ Searchers = {}
    BY DEF Init, Unpushed, Slots, Blocks, Searchers, Threads
  <2>2. Stacked = {} /\ Searched = {} /\ Done = {}
    BY <2>1 DEF Stacked, Searched, Done
  <2> QED
    BY <2>1, <2>2 DEF Init, Pool!WPInit
<1>2. Inv /\ [Next]_vars => [Pool!WPNext]_(Pool!wpVars)
  <2> SUFFICES ASSUME Inv, [Next]_vars PROVE [Pool!WPNext]_(Pool!wpVars)
    OBVIOUS
  <2> USE DEF Inv
  <2>1. CASE MainReport
    <3>1. Nothing
      <4>1. Quiet
        BY <2>1 DEF MainReport, Quiet, stackVars, counters, locals
      <4> QED
        BY <4>1, Frame
    <3>2. Done = Blocks /\ Done' = Done
      BY <2>1, <3>1, AllDone, ConsumerAssumption DEF MainReport, ThreadStates, Nothing, Done
    <3> QED
      BY <2>1, <3>1, <3>2 DEF MainReport, Nothing, Pool!WPNext, Pool!Report
  <2>2. CASE ~MainReport
    <3>1. reported' = reported
      BY <2>2, NextCases DEF Acquire, CondWait, SpuriousWakeup, Exit, ProducerLoop,
         PushCheck, PushStore, PushCommit, ConsumerLoop, PopCheck, PopNothingLeft,
         PopTake, PopDrop, SearchMatch, SearchDone, vars
    <3>2. CASE Nothing
      BY <3>1, <3>2 DEF Nothing, Done, Pool!wpVars
    <3>3. ASSUME NEW b, Pushed(b) PROVE Pool!WPNext
      <4>1. Done' = Done
        BY <3>3 DEF Pushed, Done
      <4>2. Cardinality(Stacked) < STACK_MAX_SIZE
        <5>1. StackSize \in Nat /\ STACK_MAX_SIZE \in Nat /\ StackSize < STACK_MAX_SIZE
          BY <3>3 DEF Pushed, TypeOK
        <5> QED
          BY <5>1, StackedBound
      <4>3. Pool!Submit(b)
        BY <3>1, <3>3, <4>1, <4>2, PoolCardinality DEF Pushed, Pool!Submit
      <4> QED
        BY <3>3, <4>3 DEF Pushed, Pool!WPNext
    <3>4. ASSUME NEW b, Popped(b) PROVE Pool!WPNext
      <4>1. Done' = Done /\ b \in Blocks
        BY <3>4, SearchedBlocks DEF Popped, Done
      <4> QED
        BY <3>1, <3>4, <4>1 DEF Popped, Pool!WPNext, Pool!Take
    <3>5. ASSUME NEW b, Finished(b) PROVE Pool!WPNext
      <4>1. b \in Blocks
        BY <3>5, SearchedBlocks DEF Finished
      <4>2. Done' = Done \cup {b}
        BY <3>5, <4>1 DEF Finished, Done, BlockAccounting
      <4> QED
        BY <3>1, <3>5, <4>1, <4>2 DEF Finished, Pool!WPNext, Pool!Finish
    <3> QED
      BY <3>2, <3>3, <3>4, <3>5, StepMoves DEF Moves
  <2> QED
    BY <2>1, <2>2
<1> QED
  BY <1>1, <1>2, Invariance, PTL DEF Spec, RefinesWorkPool, Pool!WPSpec

=============================================================================
