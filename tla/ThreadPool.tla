----------------------------- MODULE ThreadPool ------------------------------
(***************************************************************************)
(* prog22.c of laboratory 4: lines of input are handed to a pool of        *)
(* threads through a flag and a condition variable; SIGINT ends the        *)
(* program.  main sets the flag, signals and broadcasts without the mutex. *)
(* A worker's work (read_random) is one step; end of input, which ends the *)
(* process through ERR, is left out.                                       *)
(***************************************************************************)
EXTENDS Integers, FiniteSets

CONSTANTS PoolThreads,
          LINES,     \* lines the user types at most
          NoThread

PoolConstants == IsFiniteSet(PoolThreads) /\ LINES \in Nat /\ NoThread \notin PoolThreads

VARIABLES
    work, condition, idlethreads,
    mutex,     \* who holds the mutex
    wpc,       \* the workers
    mpc,       \* the main thread
    lines,     \* lines typed
    accepted,  \* requests: how often main has set the flag
    started    \* how often a worker has gone to work

shared  == <<work, condition, idlethreads, mutex>>
vars == <<shared, wpc, mpc, lines, accepted, started>>

Init ==
    /\ work = TRUE /\ condition = 0 /\ idlethreads = 0 /\ mutex = NoThread
    /\ wpc = [t \in PoolThreads |-> "lock"] /\ mpc = "loop"
    /\ lines = 0 /\ accepted = 0 /\ started = 0

Goto(t, l) == wpc' = [wpc EXCEPT ![t] = l]
Woken(S)   == wpc' = [t \in PoolThreads |-> IF t \in S THEN "relock" ELSE wpc[t]]
Asleep     == {t \in PoolThreads : wpc[t] = "asleep"}

-----------------------------------------------------------------------------
(* thread_func() *)

Lock(t) ==
    /\ wpc[t] \in {"lock", "relock"} /\ mutex = NoThread
    /\ mutex' = t
    /\ idlethreads' = IF wpc[t] = "lock" THEN idlethreads + 1 ELSE idlethreads
    /\ Goto(t, "test")
    /\ UNCHANGED <<work, condition, mpc, lines, accepted, started>>

\* The condition of the waiting loop; what it says may change before the wait.
Test(t) ==
    /\ wpc[t] = "test"
    /\ Goto(t, IF condition = 0 /\ work THEN "wait" ELSE "clear")
    /\ UNCHANGED <<shared, mpc, lines, accepted, started>>

\* pthread_cond_wait(): unlocks and sleeps in one step.
Wait(t) ==
    /\ wpc[t] = "wait"
    /\ mutex' = NoThread
    /\ Goto(t, "asleep")
    /\ UNCHANGED <<work, condition, idlethreads, mpc, lines, accepted, started>>

SpuriousWakeup(t) ==
    /\ wpc[t] = "asleep" /\ Woken({t})
    /\ UNCHANGED <<shared, mpc, lines, accepted, started>>

\* Mutant of Clear: the flag stays up.
ClearNot(t) ==
    /\ wpc[t] = "clear"
    /\ Goto(t, "check")
    /\ UNCHANGED <<shared, mpc, lines, accepted, started>>

Clear(t) ==
    /\ wpc[t] = "clear"
    /\ condition' = 0
    /\ Goto(t, "check")
    /\ UNCHANGED <<work, idlethreads, mutex, mpc, lines, accepted, started>>

\* The cleanup handler unlocks the mutex, on both ways out.
Check(t) ==
    /\ wpc[t] = "check"
    /\ mutex' = NoThread
    /\ IF work THEN /\ idlethreads' = idlethreads - 1 /\ started' = started + 1
                    /\ Goto(t, "busy")
               ELSE Goto(t, "exit") /\ UNCHANGED <<idlethreads, started>>
    /\ UNCHANGED <<work, condition, mpc, lines, accepted>>

read_random(t) ==
    /\ wpc[t] = "busy" /\ Goto(t, "lock")
    /\ UNCHANGED <<shared, mpc, lines, accepted, started>>

-----------------------------------------------------------------------------
(* do_work() and main() *)

Main(from, to) == mpc = from /\ mpc' = to

Loop ==
    /\ Main("loop", IF work THEN "fgets" ELSE "broadcast")
    /\ UNCHANGED <<shared, wpc, lines, accepted, started>>

\* The read() inside fgets() waits for a line ...
Block ==
    /\ Main("fgets", "blocked")
    /\ UNCHANGED <<shared, wpc, lines, accepted, started>>

\* ... which may also be there already.
Type ==
    /\ lines < LINES /\ mpc \in {"fgets", "blocked"} /\ mpc' = "ask"
    /\ lines' = lines + 1
    /\ UNCHANGED <<shared, wpc, accepted, started>>

\* SIGINT: the handler runs in the main thread.  It interrupts a read() that
\* waits, and nothing else.
SigInt ==
    /\ work \/ mpc = "blocked"
    /\ work' = FALSE
    /\ mpc' = IF mpc = "blocked" THEN "loop" ELSE mpc
    /\ UNCHANGED <<condition, idlethreads, mutex, wpc, lines, accepted, started>>

\* Under the mutex: is anybody idle?  "No threads available" otherwise.
Ask ==
    /\ mutex = NoThread
    /\ Main("ask", IF idlethreads = 0 THEN "loop" ELSE "set")
    /\ UNCHANGED <<shared, wpc, lines, accepted, started>>

SetCondition ==
    /\ Main("set", "signal")
    /\ condition' = 1 /\ accepted' = accepted + 1
    /\ UNCHANGED <<work, idlethreads, mutex, wpc, lines, started>>

Signal ==
    /\ Main("signal", "loop")
    /\ IF Asleep = {} THEN UNCHANGED wpc ELSE \E t \in Asleep : Woken({t})
    /\ UNCHANGED <<shared, lines, accepted, started>>

Broadcast ==
    /\ Main("broadcast", "join") /\ Woken(Asleep)
    /\ UNCHANGED <<shared, lines, accepted, started>>

Join ==
    /\ Main("join", "end") /\ \A t \in PoolThreads : wpc[t] = "exit"
    /\ UNCHANGED <<shared, wpc, lines, accepted, started>>

WorkerStep(t) == Lock(t) \/ Test(t) \/ Wait(t) \/ Clear(t) \/ Check(t) \/ read_random(t)
MainStep == Loop \/ Block \/ Ask \/ SetCondition \/ Signal \/ Broadcast \/ Join
Next == MainStep \/ Type \/ SigInt \/ \E t \in PoolThreads : WorkerStep(t) \/ SpuriousWakeup(t)
Spec == Init /\ [][Next]_vars

\* Threads that can run do run; the user owes nothing.
FairSpec == Spec /\ WF_vars(MainStep) /\ \A t \in PoolThreads : WF_vars(WorkerStep(t))

-----------------------------------------------------------------------------
(* Properties. *)

\* No work without a request, in spite of spurious wake-ups and of a flag that
\* is set without the mutex: a request starts one thread at most, and idlethreads
\* is the number of threads that are not at work (prog22.c:109-119, 148-161).
OneStartPerRequest ==
    /\ started + condition <= accepted
    /\ idlethreads = Cardinality({t \in PoolThreads : wpc[t] \notin {"lock", "busy"}})

\* After SIGINT the program "terminates its execution after handling all current
\* requests" (sop1/lab/l4/_index.en.md:58-59): the joins return.
PoolEnds == (mpc = "join") ~> (mpc = "end")

\* What does hold: if the program does not end, either a thread missed the
\* broadcast between its test and its wait, and sleeps; or the signal came after
\* main's test of work and before fgets() waited, so that main waits for a line,
\* or for another signal (prog22.c:112-113, 144-146, 184).
PoolOver ==
    \/ work \/ mpc = "end"
    \/ mpc = "join" /\ Asleep # {}
    \/ mpc = "blocked"
=============================================================================
