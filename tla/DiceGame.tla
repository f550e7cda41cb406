------------------------------ MODULE DiceGame -------------------------------
(***************************************************************************)
(* prog23.c of laboratory 4: players roll, meet at a barrier, one of them  *)
(* (any: PTHREAD_BARRIER_SERIAL_THREAD) assigns the scores, and all meet   *)
(* again.                                                                  *)
(***************************************************************************)
EXTENDS Integers, FiniteSetsExt, Functions

CONSTANTS PLAYER_COUNT, ROUNDS, Faces

DiceConstants == PLAYER_COUNT \in Nat \ {0} /\ ROUNDS \in Nat \ {0} /\ Faces \subseteq Nat

Players == 0 .. PLAYER_COUNT - 1

VARIABLES rolls, scores, dpc,
          rounds,        \* rounds[p]: finished turns of p's loop
          max, next      \* the serial thread's maximum and the player it looks at

vars == <<rolls, scores, dpc, rounds, max, next>>

\* rolls is not initialised: 0 stands for whatever the stack holds.
Init ==
    /\ rolls = [p \in Players |-> 0] /\ scores = [p \in Players |-> 0]
    /\ dpc = [p \in Players |-> "roll"] /\ rounds = [p \in Players |-> 0]
    /\ max = -1 /\ next = 0

Roll(p) ==
    /\ dpc[p] = "roll"
    /\ \E f \in Faces : rolls' = [rolls EXCEPT ![p] = f]
    /\ dpc' = [dpc EXCEPT ![p] = "barrier"]
    /\ UNCHANGED <<scores, rounds, max, next>>

\* The last one to arrive opens the barrier; one gets the special result.
Open ==
    /\ \A p \in Players : dpc[p] = "barrier"
    /\ \E s \in Players : dpc' = [p \in Players |-> IF p = s THEN "max" ELSE "again"]
    /\ max' = -1 /\ next' = 0
    /\ UNCHANGED <<rolls, scores, rounds>>

FindMax(p) ==
    /\ dpc[p] = "max"
    /\ max' = IF rolls[next] > max THEN rolls[next] ELSE max
    /\ next' = (next + 1) % PLAYER_COUNT
    /\ dpc' = [dpc EXCEPT ![p] = IF next + 1 < PLAYER_COUNT THEN "max" ELSE "award"]
    /\ UNCHANGED <<rolls, scores, rounds>>

Award(p) ==
    /\ dpc[p] = "award"
    /\ scores' = IF rolls[next] = max THEN [scores EXCEPT ![next] = @ + 1] ELSE scores
    /\ next' = (next + 1) % PLAYER_COUNT
    /\ dpc' = [dpc EXCEPT ![p] = IF next + 1 < PLAYER_COUNT THEN "award" ELSE "again"]
    /\ UNCHANGED <<rolls, rounds, max>>

Following(p) == IF rounds[p] + 1 < ROUNDS THEN "roll" ELSE "end"

\* Mutant of OpenAgain: there is no second barrier.
OpenAgainEach ==
    /\ \E p \in Players : /\ dpc[p] = "again"
                          /\ dpc' = [dpc EXCEPT ![p] = Following(p)]
                          /\ rounds' = [rounds EXCEPT ![p] = @ + 1]
    /\ UNCHANGED <<rolls, scores, max, next>>

OpenAgain ==
    /\ \A p \in Players : dpc[p] = "again"
    /\ dpc' = [p \in Players |-> Following(p)]
    /\ rounds' = [p \in Players |-> rounds[p] + 1]
    /\ UNCHANGED <<rolls, scores, max, next>>

PlayerStep(p) == Roll(p) \/ FindMax(p) \/ Award(p)
Next == Open \/ OpenAgain \/ \E p \in Players : PlayerStep(p)
Spec == Init /\ [][Next]_vars

-----------------------------------------------------------------------------
\* Points are given for rolls of one round: whenever a score changes, it is that
\* of a player with the highest roll, by one, and nobody has rolled again before
\* all are scored (prog23.c:28-47).
FairPoints ==
    \A p \in Players : scores'[p] # scores[p] =>
        /\ scores'[p] = scores[p] + 1 /\ rolls[p] = Max(Range(rolls))
        /\ \A q \in Players : dpc[q] \in {"again", "award"} /\ rounds[q] = rounds[p]
FairAward == [][FairPoints]_scores

\* "In the event of a tie ... all tied players receive a point": every finished
\* round has given a point to somebody, and at most one to everybody
\* (prog23.c:39-45).
PointsPerRound ==
    (\A p \in Players : dpc[p] \in {"roll", "end"}) =>
        /\ SumFunction(scores) >= rounds[0]
        /\ \A p \in Players : scores[p] <= rounds[p]
=============================================================================
