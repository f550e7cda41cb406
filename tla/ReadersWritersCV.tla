-------------------------- MODULE ReadersWritersCV --------------------------
(***************************************************************************)
(* readers_writers_cv.c: reader and writer threads that enter and leave a  *)
(* shared region for ever, with one mutex, one condition variable and two  *)
(* counters.  The last reader out signals, a writer out broadcasts.  The   *)
(* value of shared_data is left out: who is inside when decides whether it *)
(* is read or written safely.                                              *)
(***************************************************************************)
EXTENDS Integers, FiniteSets

CONSTANTS Readers, Writers,
          MaxSpurious,   \* bound on spurious returns of pthread_cond_wait
          None           \* no owner of the mutex

\* What main() guarantees of the parameters.
RWConstants ==
    /\ IsFiniteSet(Readers) /\ IsFiniteSet(Writers)
    /\ Readers \cap Writers = {}
    /\ MaxSpurious \in Nat
    /\ None \notin Readers \cup Writers

Threads == Readers \cup Writers

VARIABLES readers_count, writers_count,
          mtx,        \* owner of the mutex
          pc,
          spurious    \* spurious wake-ups so far

vars == <<readers_count, writers_count, mtx, pc, spurious>>

\* "out": sleeping between turns; "inside": using shared_data, mutex released;
\* "leave": owns the mutex again in the exit section.
PCs == {"out", "test", "waiting", "relock", "inside", "leave"}

TypeOK ==
    /\ readers_count \in 0 .. Cardinality(Readers)
    /\ writers_count \in 0 .. Cardinality(Writers)
    /\ mtx \in Threads \cup {None}
    /\ pc \in [Threads -> PCs]
    /\ spurious \in 0 .. MaxSpurious

Init ==
    /\ readers_count = 0 /\ writers_count = 0
    /\ mtx = None
    /\ pc = [t \in Threads |-> "out"]
    /\ spurious = 0

Goto(t, l) == pc' = [pc EXCEPT ![t] = l]
Waiting == {t \in Threads : pc[t] = "waiting"}

-----------------------------------------------------------------------------
\* The entry section takes the mutex, first or when woken in the wait.
Lock(t) ==
    /\ pc[t] \in {"out", "relock"} /\ mtx = None
    /\ mtx' = t
    /\ Goto(t, "test")
    /\ UNCHANGED <<readers_count, writers_count, spurious>>

\* Mutant of MustWait: writers only look at the readers.
MustWaitReadersOnly(t) == IF t \in Writers THEN readers_count > 0 ELSE writers_count > 0

MustWait(t) ==
    IF t \in Writers THEN readers_count > 0 \/ writers_count > 0 ELSE writers_count > 0

Wait(t) ==
    /\ pc[t] = "test" /\ MustWait(t)
    /\ mtx' = None
    /\ Goto(t, "waiting")
    /\ UNCHANGED <<readers_count, writers_count, spurious>>

\* The counter goes up and the mutex is released.
Enter(t) ==
    /\ pc[t] = "test" /\ ~MustWait(t)
    /\ \/ t \in Readers /\ readers_count' = readers_count + 1 /\ UNCHANGED writers_count
       \/ t \in Writers /\ writers_count' = writers_count + 1 /\ UNCHANGED readers_count
    /\ mtx' = None
    /\ Goto(t, "inside")
    /\ UNCHANGED spurious

SpuriousWakeup(t) ==
    /\ pc[t] = "waiting" /\ spurious < MaxSpurious
    /\ spurious' = spurious + 1
    /\ Goto(t, "relock")
    /\ UNCHANGED <<readers_count, writers_count, mtx>>

LockToLeave(t) ==
    /\ pc[t] = "inside" /\ mtx = None
    /\ mtx' = t
    /\ Goto(t, "leave")
    /\ UNCHANGED <<readers_count, writers_count, spurious>>

\* t goes out and wakes the threads of W.
LeaveAndWake(t, W) ==
    /\ pc' = [u \in Threads |-> IF u = t THEN "out" ELSE IF u \in W THEN "relock" ELSE pc[u]]
    /\ mtx' = None
    /\ UNCHANGED spurious

\* Mutant of ReaderLeave: the signal is sent when one reader is left.
ReaderLeaveEarlySignal(t) ==
    /\ t \in Readers /\ pc[t] = "leave"
    /\ readers_count' = readers_count - 1
    /\ UNCHANGED writers_count
    /\ \/ readers_count = 2 /\ \E w \in Waiting : LeaveAndWake(t, {w})
       \/ (readers_count # 2 \/ Waiting = {}) /\ LeaveAndWake(t, {})

\* pthread_cond_signal() wakes one of the waiting threads, if any.
ReaderLeave(t) ==
    /\ t \in Readers /\ pc[t] = "leave"
    /\ readers_count' = readers_count - 1
    /\ UNCHANGED writers_count
    /\ \/ readers_count = 1 /\ \E w \in Waiting : LeaveAndWake(t, {w})
       \/ (readers_count # 1 \/ Waiting = {}) /\ LeaveAndWake(t, {})

WriterLeave(t) ==
    /\ t \in Writers /\ pc[t] = "leave"
    /\ writers_count' = writers_count - 1
    /\ UNCHANGED readers_count
    /\ LeaveAndWake(t, Waiting)

Step(t) ==
    \/ Lock(t) \/ Wait(t) \/ Enter(t) \/ LockToLeave(t)
    \/ ReaderLeave(t) \/ WriterLeave(t)

Next == \E t \in Threads : Step(t) \/ SpuriousWakeup(t)

Spec == Init /\ [][Next]_vars

\* A thread that can run does: sleeps end, and a mutex that stays free is taken.
FairSpec == Spec /\ \A t \in Threads : WF_vars(Step(t))

-----------------------------------------------------------------------------
(* Properties. *)

Inside(t) == pc[t] \in {"inside", "leave"}

\* A writer is alone with shared_data (readers_writers_cv.c:26-33, 55-63).
WriterAlone ==
    \A w \in Writers : Inside(w) => \A t \in Threads : Inside(t) => t = w

\* The one signal of the last reader suffices: readers only wait while a writer
\* is inside, so it is never spent on a reader, and a writer that waits is never
\* stranded, since somebody inside will wake one on the way out or a writer is
\* awake and about to test (readers_writers_cv.c:38-42, 67-72).
WakeupsSuffice ==
    /\ \A r \in Readers : pc[r] = "waiting" => \E w \in Writers : Inside(w)
    /\ (\E w \in Writers : pc[w] = "waiting") =>
           \/ \E t \in Threads : Inside(t)
           \/ \E w \in Writers : pc[w] \in {"relock", "test"}

\* Somebody is in the region, which is used again and again (readers_writers_cv.c:23-75).
InUse == \E t \in Threads : Inside(t)
=============================================================================
