-------------------------------- MODULE Pcm4 --------------------------------
(***************************************************************************)
(* Milestone04: producers push random text blocks on a shared bounded      *)
(* stack, consumers pop them and count the occurrences of a search string. *)
(* One module for both builds of main.c: UseConditionVars is the #ifdef    *)
(* USE_CONDITION_VARS (the file ships with the #define commented out).     *)
(*                                                                         *)
(* A thread's pc says where it is in its function; the critical sections   *)
(* under StackLock are several steps, because CountDone is read inside     *)
(* them and written outside.  The sections under DoneLock and FoundLock    *)
(* touch one counter that nothing else touches without the lock, and are   *)
(* one step each.  KeepGoing is never assigned after its initialisation.   *)
(***************************************************************************)
EXTENDS Integers, FiniteSets, FiniteSetsExt

CONSTANTS Producers, Consumers,   (* the threads main creates                  *)
          Iterations,             (* nIterations, blocks per producer          *)
          STACK_MAX_SIZE,         (* slots of StackItems                       *)
          UseConditionVars,       (* TRUE iff USE_CONDITION_VARS is defined    *)
          Matches,                (* matches the search loop finds in a block  *)
          NoBlock, NoThread       (* NULL, and the owner of a free mutex       *)

Threads == Producers \cup Consumers

\* A block is named by its producer and its position in that producer's output.
Blocks == Producers \X (1..Iterations)

ASSUME ThreadsAssumption ==
    /\ IsFiniteSet(Producers) /\ IsFiniteSet(Consumers)
    /\ Producers \cap Consumers = {}
    /\ NoThread \notin Threads

\* main.c also accepts 0 consumers, and then reports before any block is made.
ASSUME ConsumerAssumption == Consumers # {}

ASSUME SizeAssumption ==
    /\ Iterations \in Nat
    /\ STACK_MAX_SIZE \in Nat \ {0}
    /\ UseConditionVars \in BOOLEAN

ASSUME BlockAssumption ==
    /\ Matches \in [Blocks -> Nat]
    /\ NoBlock \notin Blocks

CountExpected == Cardinality(Producers) * Iterations

VARIABLES StackLock, StackItems, StackSize, CountFound, CountDone,
          IterationsToGo,   (* thread_producer's local                       *)
          pBlock,           (* the block a thread holds                      *)
          hits,             (* matches a consumer has counted in its block   *)
          pc,
          reported          (* main has joined the consumers and printed     *)

vars == <<StackLock, StackItems, StackSize, CountFound, CountDone,
          IterationsToGo, pBlock, hits, pc, reported>>
stackVars == <<StackItems, StackSize>>
counters == <<CountFound, CountDone>>
locals == <<IterationsToGo, pBlock, hits>>

Init ==
    /\ StackLock = NoThread
    /\ StackItems = [i \in 0..(STACK_MAX_SIZE - 1) |-> NoBlock]
    /\ StackSize = 0
    /\ CountFound = 0
    /\ CountDone = 0
    /\ IterationsToGo = [p \in Producers |-> Iterations]
    /\ pBlock = [t \in Threads |-> NoBlock]
    /\ hits = [c \in Consumers |-> 0]
    /\ pc = [t \in Threads |-> "loop"]
    /\ reported = FALSE

Goto(t, l) == pc' = [pc EXCEPT ![t] = l]

\* pthread_cond_broadcast: every thread of `group` that sleeps on its condition
\* variable goes on to take the mutex again.
Broadcast(f, group) ==
    [t \in Threads |-> IF t \in group /\ f[t] = "asleep" THEN "lock" ELSE f[t]]

Running(t, l) == ~reported /\ pc[t] = l

-----------------------------------------------------------------------------
(* The mutex and the condition variables, used by both kinds of thread.    *)

Acquire(t) ==
    /\ Running(t, "lock")
    /\ StackLock = NoThread
    /\ StackLock' = t
    /\ Goto(t, "check")
    /\ UNCHANGED <<stackVars, counters, locals, reported>>

\* pthread_cond_wait gives up the mutex and falls asleep in one step.
CondWait(t) ==
    /\ Running(t, "wait")
    /\ StackLock' = NoThread
    /\ Goto(t, "asleep")
    /\ UNCHANGED <<stackVars, counters, locals, reported>>

\* POSIX lets pthread_cond_wait return without a signal.
SpuriousWakeup(t) ==
    /\ Running(t, "asleep")
    /\ Goto(t, "lock")
    /\ UNCHANGED <<StackLock, stackVars, counters, locals, reported>>

\* Both thread functions end by waking whatever consumer still sleeps.
Exit(t) ==
    /\ Running(t, "exit")
    /\ pc' = Broadcast([pc EXCEPT ![t] = "exited"], Consumers)
    /\ UNCHANGED <<StackLock, stackVars, counters, locals, reported>>

-----------------------------------------------------------------------------
(* thread_producer                                                         *)

NextBlock(p) == <<p, Iterations - IterationsToGo[p] + 1>>

ProducerLoop(p) ==
    /\ Running(p, "loop")
    /\ \/ /\ IterationsToGo[p] <= 0
          /\ Goto(p, "exit")
          /\ UNCHANGED pBlock
       \/ /\ IterationsToGo[p] > 0
          /\ pBlock' = [pBlock EXCEPT ![p] = NextBlock(p)]
          /\ Goto(p, "lock")
    /\ UNCHANGED <<StackLock, stackVars, counters, IterationsToGo, hits, reported>>

\* Variant of PushCheck: the bound is tested with <= and the last push overflows.
PushCheckOneTooMany(p) ==
    /\ Running(p, "check")
    /\ \/ /\ StackSize <= STACK_MAX_SIZE
          /\ Goto(p, "store")
          /\ UNCHANGED StackLock
       \/ /\ StackSize > STACK_MAX_SIZE
          /\ StackLock' = NoThread
          /\ Goto(p, "lock")
    /\ UNCHANGED <<stackVars, counters, locals, reported>>

\* Variant of PushCheck: the early return of stack_ts_push forgets the unlock.
PushCheckKeepsLock(p) ==
    /\ Running(p, "check")
    /\ Goto(p, IF StackSize < STACK_MAX_SIZE THEN "store" ELSE "lock")
    /\ UNCHANGED <<StackLock, stackVars, counters, locals, reported>>

\* stack_ts_push gives the mutex back and is called again when the stack is
\* full; stack_ts_cv_push waits on ProducerWait.
PushCheck(p) ==
    /\ Running(p, "check")
    /\ \/ /\ StackSize < STACK_MAX_SIZE
          /\ Goto(p, "store")
          /\ UNCHANGED StackLock
       \/ /\ StackSize >= STACK_MAX_SIZE
          /\ UseConditionVars
          /\ Goto(p, "wait")
          /\ UNCHANGED StackLock
       \/ /\ StackSize >= STACK_MAX_SIZE
          /\ ~UseConditionVars
          /\ StackLock' = NoThread
          /\ Goto(p, "lock")
    /\ UNCHANGED <<stackVars, counters, locals, reported>>

\* Variant of PushStore: the mutex is given back before StackSize++.
PushStoreUnlocks(p) ==
    /\ Running(p, "store")
    /\ StackItems' = [StackItems EXCEPT ![StackSize] = pBlock[p]]
    /\ StackLock' = NoThread
    /\ Goto(p, "commit")
    /\ UNCHANGED <<StackSize, counters, locals, reported>>

PushStore(p) ==
    /\ Running(p, "store")
    /\ StackItems' = [StackItems EXCEPT ![StackSize] = pBlock[p]]
    /\ Goto(p, "commit")
    /\ UNCHANGED <<StackLock, StackSize, counters, locals, reported>>

PushCommit(p) ==
    /\ Running(p, "commit")
    /\ StackSize' = StackSize + 1
    /\ StackLock' = NoThread
    /\ pBlock' = [pBlock EXCEPT ![p] = NoBlock]
    /\ IterationsToGo' = [IterationsToGo EXCEPT ![p] = @ - 1]
    /\ LET next == [pc EXCEPT ![p] = "loop"]
       IN  pc' = IF UseConditionVars THEN Broadcast(next, Consumers) ELSE next
    /\ UNCHANGED <<StackItems, counters, hits, reported>>

-----------------------------------------------------------------------------
(* thread_consumer                                                         *)

\* Variant of ConsumerLoop: an empty stack is taken for the end of the work.
ConsumerLoopStopsOnEmpty(c) ==
    /\ Running(c, "loop")
    /\ Goto(c, IF StackSize = 0 THEN "exit" ELSE "lock")
    /\ UNCHANGED <<StackLock, stackVars, counters, locals, reported>>

\* Reads CountDone under DoneLock.
ConsumerLoop(c) ==
    /\ Running(c, "loop")
    /\ Goto(c, IF CountDone = CountExpected THEN "exit" ELSE "lock")
    /\ UNCHANGED <<StackLock, stackVars, counters, locals, reported>>

\* Variant of PopCheck: CountDone++ stands outside `if (pBlock != NULL)`.
PopCheckCountsNull(c) ==
    /\ Running(c, "check")
    /\ \/ /\ StackSize > 0
          /\ Goto(c, "take")
          /\ UNCHANGED <<StackLock, CountDone>>
       \/ /\ StackSize <= 0
          /\ CountDone < CountExpected
          /\ CountDone' = CountDone + 1
          /\ StackLock' = NoThread
          /\ Goto(c, "loop")
    /\ UNCHANGED <<stackVars, CountFound, locals, reported>>

\* stack_ts_pop returns NULL on an empty stack; stack_ts_cv_pop waits while
\* the stack is empty and, as far as CountDone shows, work is left.
PopCheck(c) ==
    /\ Running(c, "check")
    /\ \/ /\ ~UseConditionVars
          /\ StackSize > 0
          /\ Goto(c, "take")
          /\ UNCHANGED StackLock
       \/ /\ ~UseConditionVars
          /\ StackSize <= 0
          /\ StackLock' = NoThread
          /\ Goto(c, "loop")
       \/ /\ UseConditionVars
          /\ Goto(c, IF StackSize <= 0 /\ CountExpected # CountDone
                     THEN "wait" ELSE "take")
          /\ UNCHANGED StackLock
    /\ UNCHANGED <<stackVars, counters, locals, reported>>

\* stack_ts_cv_pop looks at CountDone a second time and returns NULL, with a
\* broadcast, once all the work is done.
PopNothingLeft(c) ==
    /\ Running(c, "take")
    /\ UseConditionVars
    /\ CountExpected = CountDone
    /\ StackLock' = NoThread
    /\ pc' = Broadcast([pc EXCEPT ![c] = "loop"], Consumers)
    /\ UNCHANGED <<stackVars, counters, locals, reported>>

PopTake(c) ==
    /\ Running(c, "take")
    /\ UseConditionVars => CountExpected # CountDone
    /\ pBlock' = [pBlock EXCEPT ![c] = StackItems[StackSize - 1]]
    /\ Goto(c, "drop")
    /\ UNCHANGED <<StackLock, stackVars, counters, IterationsToGo, hits, reported>>

\* Variant of PopDrop: StackSize-- is forgotten.
PopDropKeepsSize(c) ==
    /\ Running(c, "drop")
    /\ StackLock' = NoThread
    /\ pc' = Broadcast([pc EXCEPT ![c] = "search"], Producers)
    /\ UNCHANGED <<stackVars, counters, locals, reported>>

\* Variant of PopDrop: the broadcast goes to ConsumerWait.
PopDropWakesConsumers(c) ==
    /\ Running(c, "drop")
    /\ StackSize' = StackSize - 1
    /\ StackLock' = NoThread
    /\ pc' = Broadcast([pc EXCEPT ![c] = "search"], Consumers)
    /\ UNCHANGED <<StackItems, counters, locals, reported>>

PopDrop(c) ==
    /\ Running(c, "drop")
    /\ StackSize' = StackSize - 1
    /\ StackLock' = NoThread
    /\ LET next == [pc EXCEPT ![c] = "search"]
       IN  pc' = IF UseConditionVars THEN Broadcast(next, Producers) ELSE next
    /\ UNCHANGED <<StackItems, counters, locals, reported>>

\* One more match: CountFound++ under FoundLock.
SearchMatch(c) ==
    /\ Running(c, "search")
    /\ hits[c] < Matches[pBlock[c]]
    /\ CountFound' = CountFound + 1
    /\ hits' = [hits EXCEPT ![c] = @ + 1]
    /\ UNCHANGED <<StackLock, stackVars, CountDone, IterationsToGo, pBlock, pc, reported>>

\* Variant of SearchDone: the search loop stops one match early.
SearchDoneEarly(c) ==
    /\ Running(c, "search")
    /\ hits[c] + 1 >= Matches[pBlock[c]]
    /\ CountDone' = CountDone + 1
    /\ hits' = [hits EXCEPT ![c] = 0]
    /\ pBlock' = [pBlock EXCEPT ![c] = NoBlock]
    /\ Goto(c, "loop")
    /\ UNCHANGED <<StackLock, stackVars, CountFound, IterationsToGo, reported>>

\* The block is searched: free it and CountDone++ under DoneLock.
SearchDone(c) ==
    /\ Running(c, "search")
    /\ hits[c] = Matches[pBlock[c]]
    /\ CountDone' = CountDone + 1
    /\ hits' = [hits EXCEPT ![c] = 0]
    /\ pBlock' = [pBlock EXCEPT ![c] = NoBlock]
    /\ Goto(c, "loop")
    /\ UNCHANGED <<StackLock, stackVars, CountFound, IterationsToGo, reported>>

-----------------------------------------------------------------------------
(* main, from the joins on; returning from it ends every thread.           *)

\* Variant of MainReport: main joins the producers instead.
MainReportJoinsProducers ==
    /\ ~reported
    /\ \A p \in Producers : pc[p] = "exited"
    /\ reported' = TRUE
    /\ UNCHANGED <<StackLock, stackVars, counters, locals, pc>>

MainReport ==
    /\ ~reported
    /\ \A c \in Consumers : pc[c] = "exited"
    /\ reported' = TRUE
    /\ UNCHANGED <<StackLock, stackVars, counters, locals, pc>>

Terminated == reported /\ UNCHANGED vars

Producer(p) ==
    ProducerLoop(p) \/ PushCheck(p) \/ PushStore(p) \/ PushCommit(p)

Consumer(c) ==
    \/ ConsumerLoop(c) \/ PopCheck(c) \/ PopNothingLeft(c) \/ PopTake(c)
    \/ PopDrop(c) \/ SearchMatch(c) \/ SearchDone(c)

Step(t) ==
    \/ Acquire(t) \/ CondWait(t) \/ Exit(t)
    \/ t \in Producers /\ Producer(t)
    \/ t \in Consumers /\ Consumer(t)

Next ==
    \/ \E t \in Threads : Step(t) \/ SpuriousWakeup(t)
    \/ MainReport
    \/ Terminated

Spec == Init /\ [][Next]_vars

\* The scheduler runs every runnable thread, and a thread that finds the mutex
\* free again and again gets it at last.  Spurious wakeups are never owed.
Fairness ==
    /\ \A t \in Threads : WF_vars(Step(t)) /\ SF_vars(Acquire(t))
    /\ WF_vars(MainReport)

FairSpec == Spec /\ Fairness

-----------------------------------------------------------------------------
(* Where every block is.                                                   *)

\* Pushed blocks leave Unpushed when StackSize++ makes them visible, and popped
\* ones leave Stacked when StackSize-- hides them.
Unpushed == {b \in Blocks : b[2] > Iterations - IterationsToGo[b[1]]}
Slots == 0..(StackSize - 1)
Stacked == {StackItems[i] : i \in Slots}
Searchers == {c \in Consumers : pc[c] = "search"}
Searched == {pBlock[c] : c \in Searchers}
Done == Blocks \ (Unpushed \cup Stacked \cup Searched)

InStack == {"check", "wait", "store", "commit", "take", "drop"}

ProducerPcs == {"loop", "lock", "check", "wait", "asleep", "store", "commit",
                "exit", "exited"}
ConsumerPcs == {"loop", "lock", "check", "wait", "asleep", "take", "drop",
                "search", "exit", "exited"}

(* Every variable has its type; in particular StackSize stays within the   *)
(* array, which neither stack_ts_push nor stack_ts_pop may leave.          *)
TypeOK ==
    /\ StackLock \in Threads \cup {NoThread}
    /\ StackItems \in [0..(STACK_MAX_SIZE - 1) -> Blocks \cup {NoBlock}]
    /\ StackSize \in 0..STACK_MAX_SIZE
    /\ CountFound \in Nat
    /\ CountDone \in Nat
    /\ IterationsToGo \in [Producers -> 0..Iterations]
    /\ pBlock \in [Threads -> Blocks \cup {NoBlock}]
    /\ hits \in [Consumers -> Nat]
    /\ pc \in [Threads -> ProducerPcs \cup ConsumerPcs]
    /\ \A p \in Producers : pc[p] \in ProducerPcs
    /\ \A c \in Consumers : pc[c] \in ConsumerPcs
    /\ reported \in BOOLEAN

(* Two threads are never between the lock and the unlock of StackLock at   *)
(* once, on any path through the four push and pop functions.              *)
MutualExclusion ==
    \A t \in Threads : pc[t] \in InStack <=> StackLock = t

(* Every block is in exactly one place - not yet pushed, in one slot of    *)
(* the stack, in the hands of one consumer, or searched - and CountDone is *)
(* the number of blocks that are searched: no push or pop loses or repeats *)
(* a block, and no NULL pop is counted.                                    *)
BlockAccounting ==
    /\ Unpushed \cap Stacked = {}
    /\ Unpushed \cap Searched = {}
    /\ Stacked \cap Searched = {}
    /\ NoBlock \notin Stacked \cup Searched
    /\ \A i, j \in Slots : StackItems[i] = StackItems[j] => i = j
    /\ \A c, d \in Searchers : pBlock[c] = pBlock[d] => c = d
    /\ CountDone = Cardinality(Done)

\* What a thread has established by the time it is at its pc: with the three
\* invariants above, this is inductive.
ThreadStates ==
    /\ \A p \in Producers :
          /\ pc[p] \in {"lock", "check", "wait", "asleep", "store", "commit"} =>
                IterationsToGo[p] > 0 /\ pBlock[p] = NextBlock(p)
          /\ pc[p] \in {"store", "commit"} => StackSize < STACK_MAX_SIZE
          /\ pc[p] = "commit" => StackItems[StackSize] = pBlock[p]
    /\ \A c \in Consumers :
          /\ pc[c] = "take" =>
                StackSize > 0 \/ (UseConditionVars /\ CountDone = CountExpected)
          /\ pc[c] = "drop" => StackSize > 0 /\ pBlock[c] = StackItems[StackSize - 1]
          /\ pc[c] \in {"exit", "exited"} => CountDone = CountExpected
    /\ reported => \A c \in Consumers : pc[c] = "exited"

(* Nobody sleeps through what the stack has for it: a producer is asleep   *)
(* only while the stack is full and a consumer only while it is empty, so  *)
(* no wakeup of stack_ts_cv_push or stack_ts_cv_pop comes too early, goes  *)
(* to the wrong threads or is left out.                                    *)
SleepersBlocked ==
    /\ \A p \in Producers : pc[p] = "asleep" => StackSize = STACK_MAX_SIZE
    /\ \A c \in Consumers : pc[c] = "asleep" => StackSize = 0

(* CountFound is exact at every moment: the matches of the searched blocks *)
(* and those already counted in the blocks being searched.                 *)
FoundExact ==
    CountFound = MapThenSumSet(LAMBDA b : Matches[b], Done)
                   + MapThenSumSet(LAMBDA c : hits[c], Consumers)

(* When main prints CountFound, all the blocks have been searched.         *)
ReportComplete == reported => Done = Blocks /\ CountDone = CountExpected

Pool == INSTANCE WorkPool WITH
            Items <- Blocks, Capacity <- STACK_MAX_SIZE,
            todo <- Unpushed, pooled <- Stacked, busy <- Searched,
            done <- Done, reported <- reported

(* The program implements the bounded work pool, and main reports only     *)
(* when the pool has handed out, and taken back, every block.              *)
RefinesWorkPool == Pool!WPSpec

(* main gets past its joins and prints the result: main.c:367 'Loop until  *)
(* the consumers are done'.                                                *)
MainReports == <>reported

(* Every block the producers make is searched and counted: no wakeup that  *)
(* the stack itself needs is lost.                                         *)
AllBlocksSearched == <>(CountDone = CountExpected)

=============================================================================
