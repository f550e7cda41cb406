--------------------------- MODULE BoundedBufferCV ---------------------------
(***************************************************************************)
(* bounded_buffer_cv.c: one producer process (the parent) and one consumer *)
(* process (the child) over a ring buffer in named shared memory, with a   *)
(* process-shared mutex and the condition variables empty and nonempty.    *)
(***************************************************************************)
EXTENDS Integers, Sequences

CONSTANTS BUFFER_SIZE,  \* slots of the ring
          ITERATIONS,   \* turns of both loops
          MaxSpurious,  \* bound on spurious returns of pthread_cond_wait
          None          \* no owner of the mutex

ASSUME CVAssumption ==
    /\ BUFFER_SIZE \in Nat \ {0}
    /\ ITERATIONS \in Nat \ {0}
    /\ MaxSpurious \in Nat

P == "producer"
C == "consumer"
Procs == {P, C}
ASSUME NoneAssumption == None \notin Procs

Items == 0 .. ITERATIONS - 1

VARIABLES
    items, in, out, size,   \* the shared context
    mtx,                    \* owner of the mutex
    pc, i,                  \* where each process is, its loop variable
    spurious,               \* spurious wake-ups so far
    produced, consumed      \* what has been printed

ringVars == <<items, in, out, size>>
logVars  == <<produced, consumed>>
vars     == <<ringVars, mtx, pc, i, spurious, logVars>>

Slots == 0 .. BUFFER_SIZE - 1
\* "waiting": inside pthread_cond_wait, the producer on empty, the consumer
\* on nonempty; "relock": woken there, not yet the owner of the mutex again.
PCs   == {"lock", "test", "waiting", "relock", "move", "signal", "unlock", "done"}

TypeOK ==
    /\ items \in [Slots -> Items]
    /\ in \in Slots /\ out \in Slots /\ size \in 0 .. BUFFER_SIZE
    /\ mtx \in Procs \cup {None}
    /\ pc \in [Procs -> PCs]
    /\ i \in [Procs -> 0 .. ITERATIONS]
    /\ spurious \in 0 .. MaxSpurious
    /\ produced \in Seq(Items) /\ consumed \in Seq(Items)

\* The memset of main() leaves zeroes everywhere.
Init ==
    /\ items = [k \in Slots |-> 0]
    /\ in = 0 /\ out = 0 /\ size = 0
    /\ mtx = None
    /\ pc = [p \in Procs |-> "lock"]
    /\ i = [p \in Procs |-> 0]
    /\ spurious = 0
    /\ produced = <<>> /\ consumed = <<>>

Other(p) == IF p = P THEN C ELSE P
Goto(p, l) == pc' = [pc EXCEPT ![p] = l]

-----------------------------------------------------------------------------
\* pthread_mutex_lock(), and pthread_cond_wait() taking the mutex back.
Lock(p) ==
    /\ pc[p] \in {"lock", "relock"} /\ mtx = None
    /\ mtx' = p
    /\ Goto(p, "test")
    /\ UNCHANGED <<ringVars, i, spurious, logVars>>

\* Mutant of MustWait: the producer's bound is off by one.
MustWaitLate(p) == IF p = P THEN size > BUFFER_SIZE ELSE size = 0

MustWait(p) == IF p = P THEN size >= BUFFER_SIZE ELSE size = 0

\* The condition of the while loop; pthread_cond_wait() queues the process and
\* releases the mutex in one step.
Test(p) ==
    /\ pc[p] = "test"
    /\ \/ MustWait(p) /\ mtx' = None /\ Goto(p, "waiting")
       \/ ~MustWait(p) /\ UNCHANGED mtx /\ Goto(p, "move")
    /\ UNCHANGED <<ringVars, i, spurious, logVars>>

\* Mutant of SpuriousWakeup: the caller takes any return for a signal, as with
\* if in place of while.
SpuriousTrusted(p) ==
    /\ pc[p] = "waiting" /\ spurious < MaxSpurious /\ mtx = None
    /\ spurious' = spurious + 1
    /\ mtx' = p
    /\ Goto(p, "move")
    /\ UNCHANGED <<ringVars, i, logVars>>

\* pthread_cond_wait() may return although nobody signalled.
SpuriousWakeup(p) ==
    /\ pc[p] = "waiting" /\ spurious < MaxSpurious
    /\ spurious' = spurious + 1
    /\ Goto(p, "relock")
    /\ UNCHANGED <<ringVars, mtx, i, logVars>>

Produce(p) ==
    /\ p = P /\ pc[p] = "move"
    /\ items' = [items EXCEPT ![in] = i[p]]
    /\ in' = (in + 1) % BUFFER_SIZE
    /\ size' = size + 1
    /\ produced' = Append(produced, i[p])
    /\ Goto(p, "signal")
    /\ UNCHANGED <<out, mtx, i, spurious, consumed>>

Consume(p) ==
    /\ p = C /\ pc[p] = "move"
    /\ consumed' = Append(consumed, items[out])
    /\ out' = (out + 1) % BUFFER_SIZE
    /\ size' = size - 1
    /\ Goto(p, "signal")
    /\ UNCHANGED <<items, in, mtx, i, spurious, produced>>

\* Mutant of Signal: the condition variables are swapped, nobody waits there.
SignalOwn(p) ==
    /\ pc[p] = "signal"
    /\ Goto(p, "unlock")
    /\ UNCHANGED <<ringVars, mtx, i, spurious, logVars>>

\* pthread_cond_signal() on the other side's condition variable.
Signal(p) ==
    /\ pc[p] = "signal"
    /\ pc' = [pc EXCEPT ![p] = "unlock", ![Other(p)] = IF @ = "waiting" THEN "relock" ELSE @]
    /\ UNCHANGED <<ringVars, mtx, i, spurious, logVars>>

Unlock(p) ==
    /\ pc[p] = "unlock"
    /\ mtx' = None
    /\ i' = [i EXCEPT ![p] = @ + 1]
    /\ Goto(p, IF i[p] + 1 < ITERATIONS THEN "lock" ELSE "done")
    /\ UNCHANGED <<ringVars, spurious, logVars>>

Step(p) == Lock(p) \/ Test(p) \/ Produce(p) \/ Consume(p) \/ Signal(p) \/ Unlock(p)

Next == \E p \in Procs : Step(p) \/ SpuriousWakeup(p)

Spec == Init /\ [][Next]_vars

\* Both processes run when they can; no spurious wake-up is relied on.
FairSpec == Spec /\ \A p \in Procs : WF_vars(Step(p))

-----------------------------------------------------------------------------
(* Properties. *)

\* A process left waiting is waiting for something still missing, or the other
\* one is about to signal it: no signal is lost (bounded_buffer_cv.c:33-44,
\* 50-61).
WaitJustified ==
    \A p \in Procs : pc[p] = "waiting" => MustWait(p) \/ pc[Other(p)] = "signal"

\* They never wait for each other, so the fork and wait of main() end
\* (bounded_buffer_cv.c:117-136).
Ended == \A p \in Procs : pc[p] = "done"

\* Through the printed lines the shared context is a bounded queue.
BQ == INSTANCE BoundedQueue
ImplementsBoundedQueue == BQ!Spec
==============================================================================
