------------------------------ MODULE MCLocks --------------------------------
(***************************************************************************)
(* The programs of the synchronisation and deadlock lectures, for TLC.     *)
(* One is run at a time, so the state space is their disjoint union:       *)
(* program says which one was started, and the variables of the others     *)
(* keep one initial value.                                                 *)
(***************************************************************************)
EXTENDS FutexMutex, TLC

CONSTANTS t1, t2, t3, Accounts, Amounts, INITIAL_BALANCE, Turns, BufferSize, N, MEALS

\* Two incrementers and a decrementer; with one of each kind nobody can sleep
\* while a third thread takes the lock.
ThreeThreads == t1 :> 1 @@ t2 :> 1 @@ t3 :> -1

\* Without a real lock one turn is enough to go wrong.
BankTurns == [race |-> 1, naive |-> 1, peterson |-> 2, swap |-> 2]

VARIABLES
    program,
    kind, pausing, lck, c_counter, c_pc, c_i, c_reg,
    bank, mem, buffer, b_pc, j, job, b_reg, overlap,
    chopsticks, p_pc, meals

C == INSTANCE CounterLocks WITH counter <- c_counter, pc <- c_pc, i <- c_i, reg <- c_reg
B == INSTANCE BankTransfer WITH program <- bank, pc <- b_pc, reg <- b_reg
P == INSTANCE Philosophers WITH pc <- p_pc

ASSUME ProgramsAssumption == B!BankConstants /\ P!PhilosophersConstants

fVars == vars
cVars == <<kind, pausing, lck, c_counter, c_pc, c_i, c_reg>>
bVars == <<bank, mem, buffer, b_pc, j, job, b_reg, overlap>>
pVars == <<chopsticks, p_pc, meals>>
allVars == <<program, fVars, cVars, bVars, pVars>>

LocksInit ==
    /\ program \in {"futex", "counter", "bank", "philosophers"}
    /\ Init /\ C!Init /\ B!Init /\ P!Init
    /\ program # "counter" => kind = "tas" /\ ~pausing
    /\ program # "bank" => bank = "race"

FutexStep(t) == program = "futex" /\ Step(t) /\ UNCHANGED <<program, cVars, bVars, pVars>>
FutexInterrupted(t) ==
    program = "futex" /\ Interrupted(t) /\ UNCHANGED <<program, cVars, bVars, pVars>>
CounterStep(t) == program = "counter" /\ C!Step(t) /\ UNCHANGED <<program, fVars, bVars, pVars>>
BankStep(t) == program = "bank" /\ B!ThreadStep(t) /\ UNCHANGED <<program, fVars, cVars, pVars>>
BankDrain(t) == program = "bank" /\ B!Drain(t) /\ UNCHANGED <<program, fVars, cVars, pVars>>
SeatStep(p) == program = "philosophers" /\ P!Step(p) /\ UNCHANGED <<program, fVars, cVars, bVars>>

LocksNext ==
    \/ \E t \in Threads : FutexStep(t) \/ FutexInterrupted(t) \/ CounterStep(t)
    \/ \E t \in B!Clients : BankStep(t) \/ BankDrain(t)
    \/ \E p \in P!Seats : SeatStep(p)

\* Every thread that can run runs, no interruption is relied on, and a store
\* does not stay in its buffer for ever.
LocksSpec ==
    /\ LocksInit /\ [][LocksNext]_allVars
    /\ \A t \in Threads : WF_allVars(FutexStep(t)) /\ WF_allVars(CounterStep(t))
    /\ \A t \in B!Clients : WF_allVars(BankStep(t)) /\ WF_allVars(BankDrain(t))
    /\ \A p \in P!Seats : WF_allVars(SeatStep(p))

-----------------------------------------------------------------------------
\* The other two locks make the additions atomic too (atomic_tas.c:12-30,
\* semaphore.c:12-30).
LocksImplementSharedCounter == C!ImplementsSharedCounter

\* Money is kept where the lock is one, and lost only through an overlap where
\* it is not (peterson_atomic.c:17-26, atomic_swap.c:24-39, race.c:14-21).
TotalKept == B!TotalKept

\* Philosophers block each other in one way only (dining_philosophers.c:20-35).
OnlyTheCircleBlocks == P!OnlyTheCircleBlocks

\* No thread spins or sleeps for ever: every program ends, except for the
\* paused critical section and the circle of philosophers (futex.c:44-89,
\* atomic_tas.c:41, dining_philosophers.c:67-69).
LocksEnd ==
    /\ program = "futex" => Terminates
    /\ program = "counter" => C!Ends
    /\ program = "bank" => B!Ends
    /\ program = "philosophers" => P!Ends
==============================================================================
