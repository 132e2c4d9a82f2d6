------------------------------ MODULE WorkPool ------------------------------
(***************************************************************************)
(* What a producer/consumer program of this repository promises its user,  *)
(* with no threads, locks or stack in sight: a fixed set of work items is  *)
(* put into a pool of bounded size, each item is taken out once and worked *)
(* on once, and the program reports only after every item has been.        *)
(***************************************************************************)
EXTENDS Naturals, FiniteSets

CONSTANTS Items,     (* the work the program is started with    *)
          Capacity   (* the most items the pool may hold        *)

VARIABLES todo,      (* items no producer has put into the pool *)
          pooled,    (* items in the pool                       *)
          busy,      (* items a consumer works on               *)
          done,      (* items whose work has been counted       *)
          reported   (* the program has printed its result      *)

wpVars == <<todo, pooled, busy, done, reported>>

WPInit ==
    /\ todo = Items
    /\ pooled = {}
    /\ busy = {}
    /\ done = {}
    /\ reported = FALSE

Submit(x) ==
    /\ x \in todo
    /\ Cardinality(pooled) < Capacity
    /\ todo' = todo \ {x}
    /\ pooled' = pooled \cup {x}
    /\ UNCHANGED <<busy, done, reported>>

Take(x) ==
    /\ x \in pooled
    /\ pooled' = pooled \ {x}
    /\ busy' = busy \cup {x}
    /\ UNCHANGED <<todo, done, reported>>

Finish(x) ==
    /\ x \in busy
    /\ busy' = busy \ {x}
    /\ done' = done \cup {x}
    /\ UNCHANGED <<todo, pooled, reported>>

Report ==
    /\ done = Items
    /\ reported' = TRUE
    /\ UNCHANGED <<todo, pooled, busy, done>>

WPNext ==
    \/ \E x \in Items : Submit(x) \/ Take(x) \/ Finish(x)
    \/ Report

WPSpec == WPInit /\ [][WPNext]_wpVars

=============================================================================
