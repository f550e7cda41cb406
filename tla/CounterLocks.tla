---------------------------- MODULE CounterLocks ----------------------------
(***************************************************************************)
(* atomic_tas.c and semaphore.c: the threads of futex.c with a spin lock   *)
(* over test-and-set, or a semaphore, in the place of its mutex.  The      *)
(* builds atomic_tas_pause and semaphore_pause stop a decrementer for ever *)
(* inside its critical section.                                            *)
(***************************************************************************)
EXTENDS Integers

CONSTANTS Threads, Delta, ITERATIONS   \* as in FutexMutex

VARIABLES
    kind,     \* which program: "tas" or "sem"; it never changes
    pausing,  \* PAUSE_IN_CS is defined; it never changes
    lck,      \* the flag (1 is set) or the semaphore's value
    counter, pc, i, reg

fixed == <<kind, pausing>>
vars  == <<fixed, lck, counter, pc, i, reg>>

Init ==
    /\ kind \in {"tas", "sem"} /\ pausing \in BOOLEAN
    /\ lck = IF kind = "tas" THEN 0 ELSE 1
    /\ counter = 0
    /\ pc = [t \in Threads |-> "lock"]
    /\ i = [t \in Threads |-> 0]
    /\ reg = [t \in Threads |-> 0]

Goto(t, l) == pc' = [pc EXCEPT ![t] = l]

\* Spins while the old value is 1; setting the flag again changes nothing.
TestAndSet(t) ==
    /\ kind = "tas" /\ pc[t] = "lock"
    /\ lck' = 1
    /\ IF lck = 1 THEN UNCHANGED pc ELSE Goto(t, "load")
    /\ UNCHANGED <<fixed, counter, i, reg>>

SemWait(t) ==
    /\ kind = "sem" /\ pc[t] = "lock" /\ lck > 0
    /\ lck' = lck - 1
    /\ Goto(t, "load")
    /\ UNCHANGED <<fixed, counter, i, reg>>

Load(t) ==
    /\ pc[t] = "load"
    /\ reg' = [reg EXCEPT ![t] = counter]
    /\ Goto(t, "store")
    /\ UNCHANGED <<fixed, lck, counter, i>>

\* pause() returns only after a signal handler, and there is none.
Store(t) ==
    /\ pc[t] = "store"
    /\ counter' = reg[t] + Delta[t]
    /\ Goto(t, IF pausing /\ Delta[t] = -1 THEN "pause" ELSE "unlock")
    /\ UNCHANGED <<fixed, lck, i, reg>>

\* Mutant of Unlock: the semaphore is posted twice.
UnlockTwice(t) ==
    /\ pc[t] = "unlock"
    /\ lck' = IF kind = "tas" THEN 0 ELSE lck + 2
    /\ i' = [i EXCEPT ![t] = @ + 1]
    /\ Goto(t, IF i[t] + 1 < ITERATIONS THEN "lock" ELSE "done")
    /\ UNCHANGED <<fixed, counter, reg>>

\* atomic_flag_clear() or sem_post(), and the end of the turn.
Unlock(t) ==
    /\ pc[t] = "unlock"
    /\ lck' = IF kind = "tas" THEN 0 ELSE lck + 1
    /\ i' = [i EXCEPT ![t] = @ + 1]
    /\ Goto(t, IF i[t] + 1 < ITERATIONS THEN "lock" ELSE "done")
    /\ UNCHANGED <<fixed, counter, reg>>

Step(t) == TestAndSet(t) \/ SemWait(t) \/ Load(t) \/ Store(t) \/ Unlock(t)
Next == \E t \in Threads : Step(t)
Spec == Init /\ [][Next]_vars

-----------------------------------------------------------------------------
\* The load and the store of counter++ act as one atomic addition
\* (atomic_tas.c:20-47, semaphore.c:20-47).
Added == [t \in Threads |-> IF pc[t] \in {"pause", "unlock"} THEN i[t] + 1 ELSE i[t]]
SC == INSTANCE SharedCounter WITH added <- Added
ImplementsSharedCounter == SC!Spec

\* Every loop ends, unless a decrementer pauses with the lock: then the others
\* end or wait (atomic_tas.c:41, semaphore.c:41).
Ends == <>[](\/ \A t \in Threads : pc[t] = "done"
             \/ \E p \in Threads : /\ pc[p] = "pause"
                                   /\ \A t \in Threads \ {p} : pc[t] \in {"lock", "done"})
=============================================================================
