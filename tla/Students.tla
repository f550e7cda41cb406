------------------------------ MODULE Students -------------------------------
(***************************************************************************)
(* prog20.c of laboratory 3: students live through three years as threads; *)
(* main cancels some of them.  Cancellation is deferred: it takes effect   *)
(* in nanosleep() only, and runs the cleanup handler.  A critical section  *)
(* of one mutex is one step; time is not modelled.                         *)
(***************************************************************************)
EXTENDS Integers, FiniteSets

CONSTANT StudentThreads

StudentConstants == IsFiniteSet(StudentThreads)

VARIABLES values,     \* values[y]: the counter of year y, 3 are the engineers
          spc, year,  \* the students
          cancelled,  \* students whose cancellation is pending or done
          dean        \* main: "kick", "join" or "print"

vars == <<values, spc, year, cancelled, dean>>

Init ==
    /\ values = [y \in 0 .. 3 |-> 0]
    /\ spc = [s \in StudentThreads |-> "increment"] /\ year = [s \in StudentThreads |-> 0]
    /\ cancelled = {} /\ dean = "kick"

Goto(s, l) == spc' = [spc EXCEPT ![s] = l]

increment_counter(s) ==
    /\ spc[s] = "increment"
    /\ values' = [values EXCEPT ![year[s]] = @ + 1]
    /\ Goto(s, IF year[s] = 3 THEN "engineer" ELSE "nap")
    /\ UNCHANGED <<year, cancelled, dean>>

\* nanosleep() is entered: a pending cancellation acts at once.
msleep(s) ==
    /\ spc[s] = "nap"
    /\ Goto(s, IF s \in cancelled THEN "cleanup" ELSE "asleep")
    /\ UNCHANGED <<values, year, cancelled, dean>>

\* ... and one that arrives during the second may come too late.
Wake(s) ==
    /\ spc[s] = "asleep"
    /\ \/ Goto(s, "decrement")
       \/ s \in cancelled /\ Goto(s, "cleanup")
    /\ UNCHANGED <<values, year, cancelled, dean>>

\* The cleanup handler, popped or run by the cancellation.
decrement_counter(s) ==
    /\ spc[s] \in {"decrement", "cleanup"}
    /\ values' = [values EXCEPT ![year[s]] = @ - 1]
    /\ IF spc[s] = "cleanup" THEN Goto(s, "expelled") /\ UNCHANGED year
       ELSE Goto(s, "increment") /\ year' = [year EXCEPT ![s] = @ + 1]
    /\ UNCHANGED <<cancelled, dean>>

\* One student that was not cancelled before, if there is one left; it may have
\* ended by itself.
kick_student ==
    /\ dean = "kick"
    /\ \E s \in StudentThreads \ cancelled : cancelled' = cancelled \cup {s}
    /\ UNCHANGED <<values, spc, year, dean>>

TimeIsUp ==
    /\ dean = "kick" /\ dean' = "join"
    /\ UNCHANGED <<values, spc, year, cancelled>>

Ended(s) == spc[s] \in {"engineer", "expelled"}

Join ==
    /\ dean = "join" /\ \A s \in StudentThreads : Ended(s)
    /\ dean' = "print"
    /\ UNCHANGED <<values, spc, year, cancelled>>

StudentStep(s) == increment_counter(s) \/ msleep(s) \/ Wake(s) \/ decrement_counter(s)
Next == kick_student \/ TimeIsUp \/ Join \/ \E s \in StudentThreads : StudentStep(s)
Spec == Init /\ [][Next]_vars

-----------------------------------------------------------------------------
InYear(y) == {s \in StudentThreads :
                 year[s] = y /\ spc[s] \in {"nap", "asleep", "decrement", "cleanup", "engineer"}}

\* A counter is the number of students in that year whenever a cancellation hits
\* them; what is printed accounts for everybody: no first, second or third year
\* is left, and who is no engineer was expelled.  "Without the handlers the
\* canceled student will occupy the last counter till the end of the program!"
\* (prog20.c:73-79, 104-128).
CountersExact ==
    /\ \A y \in 0 .. 3 : values[y] = Cardinality(InYear(y))
    /\ dean = "print" =>
           /\ \A y \in 0 .. 2 : values[y] = 0
           /\ values[3] + Cardinality({s \in cancelled : spc[s] = "expelled"})
                = Cardinality(StudentThreads)
=============================================================================
