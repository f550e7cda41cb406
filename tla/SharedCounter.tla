---------------------------- MODULE SharedCounter ----------------------------
(***************************************************************************)
(* What the locks of the synchronisation lecture are for: threads that     *)
(* each add their own amount to one shared variable a fixed number of      *)
(* times, every addition in one atomic step.                               *)
(***************************************************************************)
EXTENDS Integers

CONSTANTS Threads,    \* the threads
          Delta,      \* Delta[t]: what t adds, 1 or -1
          ITERATIONS  \* how often

VARIABLES counter,    \* the shared variable
          added       \* added[t]: additions t has made

Init == /\ counter = 0
        /\ added = [t \in Threads |-> 0]

Add(t) ==
    /\ added[t] < ITERATIONS
    /\ counter' = counter + Delta[t]
    /\ added' = [added EXCEPT ![t] = @ + 1]

Next == \E t \in Threads : Add(t)

Spec == Init /\ [][Next]_<<counter, added>>
==============================================================================
