---------------------------- MODULE BallThrowers -----------------------------
(***************************************************************************)
(* prog18.c of laboratory 3: detached threads throw balls into bins; main  *)
(* polls the number of balls thrown and then reads the bins without their  *)
(* mutexes, while the threads may still run.  A critical section of one    *)
(* mutex is one step.                                                      *)
(***************************************************************************)
EXTENDS Integers, FiniteSets, Functions

CONSTANTS Throwers, balls_count, BIN_COUNT

BallConstants == IsFiniteSet(Throwers) /\ balls_count \in Nat \ {0} /\ BIN_COUNT \in Nat \ {0}

Bins == 0 .. BIN_COUNT - 1

VARIABLES balls_waiting, bins, balls_thrown,
          tpc,                 \* the throwers
          poll,                \* main: "poll", the bin it reads next, or "exit"
          final_balls_count

ballVars == <<balls_waiting, bins, balls_thrown>>
vars == <<ballVars, tpc, poll, final_balls_count>>

Init ==
    /\ balls_waiting = balls_count /\ balls_thrown = 0
    /\ bins = [b \in Bins |-> 0]
    /\ tpc = [t \in Throwers |-> "take"]
    /\ poll = <<"poll">> /\ final_balls_count = 0

Goto(t, l) == tpc' = [tpc EXCEPT ![t] = l]

\* exit() of main ends all threads.
Running == poll # <<"exit">>

Take(t) ==
    /\ Running /\ tpc[t] = "take"
    /\ \/ /\ balls_waiting > 0 /\ balls_waiting' = balls_waiting - 1
          /\ Goto(t, "throw")
       \/ balls_waiting = 0 /\ UNCHANGED balls_waiting /\ Goto(t, "end")
    /\ UNCHANGED <<bins, balls_thrown, poll, final_balls_count>>

\* Mutant of Land: the ball is counted before it lands.
LandLate(t) ==
    /\ Running /\ tpc[t] \in {"throw", "count"}
    /\ IF tpc[t] = "throw"
       THEN balls_thrown' = balls_thrown + 1 /\ UNCHANGED bins /\ Goto(t, "count")
       ELSE /\ \E b \in Bins : bins' = [bins EXCEPT ![b] = @ + 1]
            /\ UNCHANGED balls_thrown /\ Goto(t, "take")
    /\ UNCHANGED <<balls_waiting, poll, final_balls_count>>

\* throw_ball() can choose any bin.
Land(t) ==
    /\ Running /\ tpc[t] = "throw"
    /\ \E b \in Bins : bins' = [bins EXCEPT ![b] = @ + 1]
    /\ Goto(t, "count")
    /\ UNCHANGED <<balls_waiting, balls_thrown, poll, final_balls_count>>

Count(t) ==
    /\ Running /\ tpc[t] = "count"
    /\ balls_thrown' = balls_thrown + 1
    /\ Goto(t, "take")
    /\ UNCHANGED <<balls_waiting, bins, poll, final_balls_count>>

Poll ==
    /\ poll = <<"poll">> /\ balls_thrown >= balls_count
    /\ poll' = <<"sum", 0>>
    /\ UNCHANGED <<ballVars, tpc, final_balls_count>>

Sum ==
    /\ poll[1] = "sum"
    /\ final_balls_count' = final_balls_count + bins[poll[2]]
    /\ poll' = IF poll[2] + 1 < BIN_COUNT THEN <<"sum", poll[2] + 1>> ELSE <<"exit">>
    /\ UNCHANGED <<ballVars, tpc>>

MainStep == Poll \/ Sum
ThrowerStep(t) == Take(t) \/ Land(t) \/ Count(t)
Next == MainStep \/ \E t \in Throwers : ThrowerStep(t)
Spec == Init /\ [][Next]_vars

-----------------------------------------------------------------------------
\* The unlocked reads are safe: once main has seen the last ball thrown nobody
\* has a ball in hand, and the total printed is the number of balls
\* (prog18.c:69-84, 128-146).
UnlockedReadsSafe ==
    /\ poll # <<"poll">> => \A t \in Throwers : tpc[t] \in {"take", "end"}
    /\ poll = <<"exit">> => final_balls_count = balls_count
=============================================================================
