----------------------------- MODULE FutexMutex -----------------------------
(***************************************************************************)
(* futex.c of the synchronisation lecture: a three-state mutex over the    *)
(* futex system call, and the threads that increment and decrement an      *)
(* unprotected int under it.  0 is unlocked, 1 locked, 2 locked with       *)
(* possible sleepers.                                                      *)
(***************************************************************************)
EXTENDS Integers

CONSTANTS Threads,    \* incrementers and decrementers
          Delta,      \* Delta[t]: 1 for an incrementer, -1 for a decrementer
          ITERATIONS  \* turns of each thread's loop

ASSUME FutexAssumption ==
    /\ Delta \in [Threads -> {1, -1}]
    /\ ITERATIONS \in Nat \ {0}

VARIABLES
    state,    \* mtx.state
    counter,  \* the int both kinds of threads change
    pc,       \* where each thread is
    i,        \* i[t]: finished turns of t's loop
    reg       \* reg[t]: the value t has read in counter++ or counter--

vars == <<state, counter, pc, i, reg>>

\* "asleep": in the kernel's wait queue; "zero" and "wake": inside unlock().
PCs == {"cas", "xchg", "wait", "asleep", "load", "store", "sub", "zero", "wake", "done"}

TypeOK ==
    /\ state \in 0 .. 2
    /\ counter \in Int
    /\ pc \in [Threads -> PCs]
    /\ i \in [Threads -> 0 .. ITERATIONS]
    /\ reg \in [Threads -> Int]

Init ==
    /\ state = 0
    /\ counter = 0
    /\ pc = [t \in Threads |-> "cas"]
    /\ i = [t \in Threads |-> 0]
    /\ reg = [t \in Threads |-> 0]

Goto(t, l) == pc' = [pc EXCEPT ![t] = l]

-----------------------------------------------------------------------------
(* lock() *)

\* Mutant of Cas: the result of the compare-and-exchange is ignored.
CasBlind(t) ==
    /\ pc[t] = "cas"
    /\ state' = IF state = 0 THEN 1 ELSE state
    /\ Goto(t, "load")
    /\ UNCHANGED <<counter, i, reg>>

\* The fast path: 0 -> 1 by compare-and-exchange.
Cas(t) ==
    /\ pc[t] = "cas"
    /\ \/ state = 0 /\ state' = 1 /\ Goto(t, "load")
       \/ state # 0 /\ UNCHANGED state /\ Goto(t, "xchg")
    /\ UNCHANGED <<counter, i, reg>>

\* Mutant of Xchg: a waiter that gets the lock leaves 1, as the fast path does.
XchgOne(t) ==
    /\ pc[t] = "xchg"
    /\ state' = IF state = 0 THEN 1 ELSE 2
    /\ Goto(t, IF state = 0 THEN "load" ELSE "wait")
    /\ UNCHANGED <<counter, i, reg>>

\* The slow path: whoever gets the lock here leaves 2 behind, since it cannot
\* know whether others sleep.
Xchg(t) ==
    /\ pc[t] = "xchg"
    /\ state' = 2
    /\ Goto(t, IF state = 0 THEN "load" ELSE "wait")
    /\ UNCHANGED <<counter, i, reg>>

\* FUTEX_WAIT with value 2: the kernel compares and queues in one step.
FutexWait(t) ==
    /\ pc[t] = "wait"
    /\ Goto(t, IF state = 2 THEN "asleep" ELSE "xchg")
    /\ UNCHANGED <<state, counter, i, reg>>

\* Mutant of Interrupted: a thread that wakes takes the lock as given.
WokenOwnsLock(t) ==
    /\ pc[t] = "asleep"
    /\ Goto(t, "load")
    /\ UNCHANGED <<state, counter, i, reg>>

\* FUTEX_WAIT may return without a wake-up (a signal); the code loops.
Interrupted(t) ==
    /\ pc[t] = "asleep"
    /\ Goto(t, "xchg")
    /\ UNCHANGED <<state, counter, i, reg>>

-----------------------------------------------------------------------------
(* The critical section of incrementer() and decrementer(). *)

Load(t) ==
    /\ pc[t] = "load"
    /\ reg' = [reg EXCEPT ![t] = counter]
    /\ Goto(t, "store")
    /\ UNCHANGED <<state, counter, i>>

Store(t) ==
    /\ pc[t] = "store"
    /\ counter' = reg[t] + Delta[t]
    /\ Goto(t, "sub")
    /\ UNCHANGED <<state, i, reg>>

-----------------------------------------------------------------------------
(* unlock() and the end of the loop body *)

EndTurn(t) ==
    /\ i' = [i EXCEPT ![t] = @ + 1]
    /\ Goto(t, IF i[t] + 1 < ITERATIONS THEN "cas" ELSE "done")

\* Mutant of Sub: the atomic subtraction runs twice.
SubTwo(t) ==
    /\ pc[t] = "sub"
    /\ state' = state - 2
    /\ \/ state = 1 /\ EndTurn(t)
       \/ state # 1 /\ Goto(t, "zero") /\ UNCHANGED i
    /\ UNCHANGED <<counter, reg>>

\* fetch_sub returns the old value: 1 means nobody waits.
Sub(t) ==
    /\ pc[t] = "sub"
    /\ state' = state - 1
    /\ \/ state = 1 /\ EndTurn(t)
       \/ state # 1 /\ Goto(t, "zero") /\ UNCHANGED i
    /\ UNCHANGED <<counter, reg>>

Zero(t) ==
    /\ pc[t] = "zero"
    /\ state' = 0
    /\ Goto(t, "wake")
    /\ UNCHANGED <<counter, i, reg>>

\* Mutant of Wake: FUTEX_WAKE with a count of 0.
WakeNone(t) ==
    /\ pc[t] = "wake"
    /\ EndTurn(t)
    /\ UNCHANGED <<state, counter, reg>>

\* FUTEX_WAKE with a count of 1: one sleeper, if there is one.
Wake(t) ==
    /\ pc[t] = "wake"
    /\ i' = [i EXCEPT ![t] = @ + 1]
    /\ LET l == IF i[t] + 1 < ITERATIONS THEN "cas" ELSE "done"
       IN  \/ \E u \in Threads : /\ pc[u] = "asleep"
                                 /\ pc' = [pc EXCEPT ![t] = l, ![u] = "xchg"]
           \/ (\A u \in Threads : pc[u] # "asleep") /\ Goto(t, l)
    /\ UNCHANGED <<state, counter, reg>>

-----------------------------------------------------------------------------
Step(t) ==
    \/ Cas(t) \/ Xchg(t) \/ FutexWait(t) \/ Load(t) \/ Store(t)
    \/ Sub(t) \/ Zero(t) \/ Wake(t)

Next == \E t \in Threads : Step(t) \/ Interrupted(t)

Spec == Init /\ [][Next]_vars

\* Every thread that can run runs; no interruption is relied on.
FairSpec == Spec /\ \A t \in Threads : WF_vars(Step(t))

-----------------------------------------------------------------------------
(* Properties. *)

\* Threads between a successful lock() and the store that releases the lock.
Holds(t) == pc[t] \in {"load", "store", "sub", "zero"}

\* At most one thread owns the mutex, the one releasing it in two steps
\* included: what others do to state between fetch_sub and the store of 0
\* never lets a second one in (futex.c:23-42).
MutualExclusion == \A t, u \in Threads : Holds(t) /\ Holds(u) => t = u

\* A sleeper is never forgotten: some thread is about to retry or to wake one,
\* or the owner will see state 2 when it unlocks (futex.c:29-41).
NoLostWakeup ==
    (\E t \in Threads : pc[t] = "asleep") =>
        \E u \in Threads : \/ pc[u] \in {"xchg", "zero", "wake"}
                           \/ Holds(u) /\ state = 2

\* No thread sleeps or spins for ever: all loops end, so main's joins return
\* (futex.c:44-60, 86-89).
Terminates == <>(\A t \in Threads : pc[t] = "done")

\* The load and the store of counter++ act as one atomic addition.
Added == [t \in Threads |-> IF pc[t] \in {"sub", "zero", "wake"} THEN i[t] + 1 ELSE i[t]]
SC == INSTANCE SharedCounter WITH added <- Added
ImplementsSharedCounter == SC!Spec
=============================================================================
