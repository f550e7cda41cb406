-------------------------- MODULE BoundedBufferSem --------------------------
(***************************************************************************)
(* bounded_buffer_sem.c: producer and consumer processes share a ring      *)
(* buffer in anonymous shared memory, guarded by the semaphores empty,     *)
(* nonempty and mtx.  Both loops have one shape: take a token of one       *)
(* counting semaphore, touch the ring under mtx, post to the other one.    *)
(***************************************************************************)
EXTENDS Integers, Sequences, FiniteSets

CONSTANTS Producers, Consumers,
          BUFFER_SIZE,         \* slots of the ring
          ITEMS_PER_PRODUCER   \* turns of a producer's loop

\* What main() and the macros guarantee of the parameters.
SemConstants ==
    /\ Producers \cap Consumers = {}
    /\ IsFiniteSet(Producers) /\ IsFiniteSet(Consumers) /\ Consumers # {}
    /\ BUFFER_SIZE \in Nat \ {0}
    /\ ITEMS_PER_PRODUCER \in Nat \ {0}

Procs == Producers \cup Consumers

\* (id * 100) + i is unique to producer id and turn i.
Items == Producers \X (0 .. ITEMS_PER_PRODUCER - 1)
NoItem == <<>>

\* A producer's turns, and a consumer's share of all items.
Turns(p) == IF p \in Producers THEN ITEMS_PER_PRODUCER
            ELSE (Cardinality(Producers) * ITEMS_PER_PRODUCER) \div Cardinality(Consumers)

VARIABLES
    items, in, out,           \* the ring
    empty, nonempty, mtx,     \* the values of the semaphores
    pc, i,                    \* where each process is, its loop variable
    produced, consumed        \* what has been printed

ringVars == <<items, in, out>>
semVars  == <<empty, nonempty, mtx>>
logVars  == <<produced, consumed>>
vars     == <<ringVars, semVars, pc, i, logVars>>

Slots == 0 .. BUFFER_SIZE - 1
PCs   == {"token", "mtx", "access", "advance", "unlock", "post", "done"}

TypeOK ==
    /\ items \in [Slots -> Items \cup {NoItem}]
    /\ in \in Slots /\ out \in Slots
    /\ empty \in 0 .. BUFFER_SIZE /\ nonempty \in 0 .. BUFFER_SIZE /\ mtx \in {0, 1}
    /\ pc \in [Procs -> PCs]
    /\ i \in [Procs -> Nat]
    /\ produced \in Seq(Items) /\ consumed \in Seq(Items)

Init ==
    /\ items = [k \in Slots |-> NoItem]
    /\ in = 0 /\ out = 0
    /\ empty = BUFFER_SIZE /\ nonempty = 0 /\ mtx = 1
    /\ pc = [p \in Procs |-> IF Turns(p) > 0 THEN "token" ELSE "done"]
    /\ i = [p \in Procs |-> 0]
    /\ produced = <<>> /\ consumed = <<>>

Goto(p, l) == pc' = [pc EXCEPT ![p] = l]

-----------------------------------------------------------------------------
\* sem_wait(empty) of a producer, sem_wait(nonempty) of a consumer.
WaitToken(p) ==
    /\ pc[p] = "token"
    /\ \/ p \in Producers /\ empty > 0 /\ empty' = empty - 1 /\ UNCHANGED nonempty
       \/ p \in Consumers /\ nonempty > 0 /\ nonempty' = nonempty - 1 /\ UNCHANGED empty
    /\ Goto(p, "mtx")
    /\ UNCHANGED <<ringVars, mtx, i, logVars>>

\* Mutant of WaitMtx: the buffer is not locked.
WaitNoMtx(p) ==
    /\ pc[p] = "mtx"
    /\ Goto(p, "access")
    /\ UNCHANGED <<ringVars, semVars, i, logVars>>

WaitMtx(p) ==
    /\ pc[p] = "mtx" /\ mtx > 0
    /\ mtx' = mtx - 1
    /\ Goto(p, "access")
    /\ UNCHANGED <<ringVars, empty, nonempty, i, logVars>>

\* The slot is written or read, and the line printed.
Access(p) ==
    /\ pc[p] = "access"
    /\ \/ /\ p \in Producers
          /\ items' = [items EXCEPT ![in] = <<p, i[p]>>]
          /\ produced' = Append(produced, <<p, i[p]>>)
          /\ UNCHANGED consumed
       \/ /\ p \in Consumers
          /\ consumed' = Append(consumed, items[out])
          /\ UNCHANGED <<items, produced>>
    /\ Goto(p, "advance")
    /\ UNCHANGED <<in, out, semVars, i>>

Advance(p) ==
    /\ pc[p] = "advance"
    /\ \/ p \in Producers /\ in' = (in + 1) % BUFFER_SIZE /\ UNCHANGED out
       \/ p \in Consumers /\ out' = (out + 1) % BUFFER_SIZE /\ UNCHANGED in
    /\ Goto(p, "unlock")
    /\ UNCHANGED <<items, semVars, i, logVars>>

PostMtx(p) ==
    /\ pc[p] = "unlock"
    /\ mtx' = mtx + 1
    /\ Goto(p, "post")
    /\ UNCHANGED <<ringVars, empty, nonempty, i, logVars>>

\* Mutant of PostToken: each side posts the semaphore it waited on.
PostOwnToken(p) ==
    /\ pc[p] = "post"
    /\ \/ p \in Producers /\ empty' = empty + 1 /\ UNCHANGED nonempty
       \/ p \in Consumers /\ nonempty' = nonempty + 1 /\ UNCHANGED empty
    /\ i' = [i EXCEPT ![p] = @ + 1]
    /\ Goto(p, IF i[p] + 1 < Turns(p) THEN "token" ELSE "done")
    /\ UNCHANGED <<ringVars, mtx, logVars>>

\* sem_post(nonempty) of a producer, sem_post(empty) of a consumer.
PostToken(p) ==
    /\ pc[p] = "post"
    /\ \/ p \in Producers /\ nonempty' = nonempty + 1 /\ UNCHANGED empty
       \/ p \in Consumers /\ empty' = empty + 1 /\ UNCHANGED nonempty
    /\ i' = [i EXCEPT ![p] = @ + 1]
    /\ Goto(p, IF i[p] + 1 < Turns(p) THEN "token" ELSE "done")
    /\ UNCHANGED <<ringVars, mtx, logVars>>

Step(p) ==
    \/ WaitToken(p) \/ WaitMtx(p) \/ Access(p) \/ Advance(p)
    \/ PostMtx(p) \/ PostToken(p)

Next == \E p \in Procs : Step(p)

Spec == Init /\ [][Next]_vars

\* A process that is not blocked in sem_wait runs.
FairSpec == Spec /\ \A p \in Procs : WF_vars(Step(p))

-----------------------------------------------------------------------------
(* Properties. *)

\* The children finish, so main's wait loop ends (bounded_buffer_sem.c:95-99).
Ended == \A p \in Procs : pc[p] = "done"

\* Through the printed lines the ring and its semaphores are a bounded queue.
BQ == INSTANCE BoundedQueue
ImplementsBoundedQueue == BQ!Spec
=============================================================================
