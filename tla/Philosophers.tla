---------------------------- MODULE Philosophers ----------------------------
(***************************************************************************)
(* dining_philosophers.c: every philosopher takes the chopstick on its     *)
(* left, then the one on its right; a chopstick is a semaphore.            *)
(***************************************************************************)
EXTENDS Integers

CONSTANTS N,
          MEALS   \* ITERATIONS

PhilosophersConstants == N \in Nat \ {0, 1} /\ MEALS \in Nat \ {0}

Seats == 0 .. N - 1
left(p)  == p
right(p) == (p + 1) % N

VARIABLES chopsticks,   \* chopsticks[c]: the value of semaphore c
          pc,
          meals         \* meals[p]: finished turns of the loop

vars == <<chopsticks, pc, meals>>

Init ==
    /\ chopsticks = [c \in Seats |-> 1]
    /\ pc = [p \in Seats |-> "left"]
    /\ meals = [p \in Seats |-> 0]

Goto(p, l) == pc' = [pc EXCEPT ![p] = l]

\* sem_wait() on the left, then on the right chopstick.
Take(p) ==
    /\ \/ /\ pc[p] = "left" /\ chopsticks[left(p)] > 0
          /\ chopsticks' = [chopsticks EXCEPT ![left(p)] = @ - 1]
          /\ Goto(p, "right")
       \/ /\ pc[p] = "right" /\ chopsticks[right(p)] > 0
          /\ chopsticks' = [chopsticks EXCEPT ![right(p)] = @ - 1]
          /\ Goto(p, "eat")
    /\ UNCHANGED meals

PutRight(p) ==
    /\ pc[p] = "eat"
    /\ chopsticks' = [chopsticks EXCEPT ![right(p)] = @ + 1]
    /\ Goto(p, "put left")
    /\ UNCHANGED meals

\* Mutant of PutLeft: the chopstick on the right is put back once more.
PutLeftRight(p) ==
    /\ pc[p] = "put left"
    /\ chopsticks' = [chopsticks EXCEPT ![right(p)] = @ + 1]
    /\ meals' = [meals EXCEPT ![p] = @ + 1]
    /\ Goto(p, IF meals[p] + 1 < MEALS THEN "left" ELSE "done")

PutLeft(p) ==
    /\ pc[p] = "put left"
    /\ chopsticks' = [chopsticks EXCEPT ![left(p)] = @ + 1]
    /\ meals' = [meals EXCEPT ![p] = @ + 1]
    /\ Goto(p, IF meals[p] + 1 < MEALS THEN "left" ELSE "done")

Step(p) == Take(p) \/ PutRight(p) \/ PutLeft(p)
Next == \E p \in Seats : Step(p)
Spec == Init /\ [][Next]_vars

-----------------------------------------------------------------------------
\* All hold their left chopstick and wait for the right one.
Circle == \A p \in Seats : pc[p] = "right" /\ chopsticks[p] = 0
AllDone == \A p \in Seats : pc[p] = "done"

Blocked(p) ==
    \/ pc[p] = "left" /\ chopsticks[left(p)] = 0
    \/ pc[p] = "right" /\ chopsticks[right(p)] = 0
    \/ pc[p] = "done"

\* Neighbours never eat together, and the program hangs in one way only: with
\* all philosophers in a circle.  A philosopher that has left the table breaks
\* it for good (dining_philosophers.c:20-35).
OnlyTheCircleBlocks ==
    /\ \A p, q \in Seats : pc[p] = "eat" /\ pc[q] = "eat" => q # right(p)
    /\ (\A p \in Seats : Blocked(p)) => AllDone \/ Circle

\* The threads are joined in the end, or all are in the circle: "exit to prompt
\* once program hangs" (deadlocks/code/index.en.md).
Ends == <>(AllDone \/ Circle)
=============================================================================
