---------------------------- MODULE BankTransfer ----------------------------
(***************************************************************************)
(* race.c, peterson_naive.c, peterson_atomic.c and atomic_swap.c: two      *)
(* threads move money between accounts, without a lock, under Peterson's   *)
(* algorithm over plain or atomic ints, or under a spin lock.  The build   *)
(* does not optimise, so every access in the source is one load or store;  *)
(* a store waits in the store buffer of its processor, and atomic          *)
(* operations empty the buffer.                                            *)
(***************************************************************************)
EXTENDS Integers, Sequences, FiniteSetsExt, Functions

CONSTANTS Accounts, Amounts, INITIAL_BALANCE,
          Turns,        \* Turns[p]: ITERATIONS of program p
          BufferSize    \* stores a processor can hold back; then it waits

Programs == {"race", "naive", "peterson", "swap"}

Clients == {0, 1}
Other(t) == 1 - t
Flag(t) == IF t = 0 THEN "flag0" ELSE "flag1"
LockWords == {"lck", "turn", Flag(0), Flag(1)}
Words == Accounts \cup LockWords

BankConstants == /\ INITIAL_BALANCE \in Nat /\ Turns \in [Programs -> Nat \ {0}]
                 /\ Amounts \subseteq Nat /\ BufferSize \in Nat \ {0}
                 /\ IsFiniteSet(Accounts) /\ Accounts \cap LockWords = {}

VARIABLES
    program,  \* which one was started; it never changes
    mem,      \* balances and the words of the lock
    buffer,   \* buffer[t]: stores of t the other thread does not see yet
    pc, j,
    job,      \* job[t]: the transfer drawn for this turn
    reg,      \* reg[t]: the value last loaded
    overlap   \* both threads have been at work on the balances at once

vars == <<program, mem, buffer, pc, j, job, reg, overlap>>

NoJob == [src |-> "", dst |-> "", amount |-> 0]

Init ==
    /\ program \in Programs
    /\ mem = [w \in Words |-> IF w \in Accounts THEN INITIAL_BALANCE ELSE 0]
    /\ buffer = [t \in Clients |-> <<>>]
    /\ pc = [t \in Clients |-> "draw"]
    /\ j = [t \in Clients |-> 0]
    /\ job = [t \in Clients |-> NoJob]
    /\ reg = [t \in Clients |-> 0]
    /\ overlap = FALSE

Goto(t, l) == pc' = [pc EXCEPT ![t] = l]

\* What a load of t returns: its own latest store, or the memory.
Seen(t, w) ==
    LET own == {k \in 1 .. Len(buffer[t]) : buffer[t][k][1] = w}
    IN  IF own = {} THEN mem[w] ELSE buffer[t][Max(own)][2]

PlainStore(t, w, v) ==
    /\ Len(buffer[t]) < BufferSize
    /\ buffer' = [buffer EXCEPT ![t] = Append(@, <<w, v>>)] /\ UNCHANGED mem
AtomicStore(t, w, v) ==
    buffer[t] = <<>> /\ mem' = [mem EXCEPT ![w] = v] /\ UNCHANGED buffer
\* A store to a field of peterson_mutex.
LockStore(t, w, v) ==
    IF program = "naive" THEN PlainStore(t, w, v) ELSE AtomicStore(t, w, v)

\* The oldest store in the buffer reaches the memory.
Drain(t) ==
    /\ buffer[t] # <<>>
    /\ mem' = [mem EXCEPT ![Head(buffer[t])[1]] = Head(buffer[t])[2]]
    /\ buffer' = [buffer EXCEPT ![t] = Tail(@)]
    /\ UNCHANGED <<program, pc, j, job, reg, overlap>>

-----------------------------------------------------------------------------
(* client_simulator() and its lock *)

Draw(t) ==
    /\ pc[t] = "draw"
    /\ \E s, d \in Accounts, a \in Amounts :
          s # d /\ job' = [job EXCEPT ![t] = [src |-> s, dst |-> d, amount |-> a]]
    /\ Goto(t, CASE program = "race" -> "test" [] program = "swap" -> "xchg" [] OTHER -> "flag")
    /\ UNCHANGED <<program, mem, buffer, j, reg, overlap>>

Exchange(t) ==
    /\ pc[t] = "xchg" /\ AtomicStore(t, "lck", 1)
    /\ IF mem["lck"] = 1 THEN UNCHANGED pc ELSE Goto(t, "test")
    /\ UNCHANGED <<program, j, job, reg, overlap>>

SetFlag(t) ==
    /\ pc[t] = "flag" /\ LockStore(t, Flag(t), 1)
    /\ Goto(t, "turn")
    /\ UNCHANGED <<program, j, job, reg, overlap>>

\* Mutant of SetTurn: the thread gives itself the turn.
SetTurnSelf(t) ==
    /\ pc[t] = "turn" /\ LockStore(t, "turn", t)
    /\ Goto(t, "see flag")
    /\ UNCHANGED <<program, j, job, reg, overlap>>

SetTurn(t) ==
    /\ pc[t] = "turn" /\ LockStore(t, "turn", Other(t))
    /\ Goto(t, "see flag")
    /\ UNCHANGED <<program, j, job, reg, overlap>>

\* The two loads of the waiting loop.
SeeFlag(t) ==
    /\ pc[t] = "see flag"
    /\ Goto(t, IF Seen(t, Flag(Other(t))) = 1 THEN "see turn" ELSE "test")
    /\ UNCHANGED <<program, mem, buffer, j, job, reg, overlap>>

SeeTurn(t) ==
    /\ pc[t] = "see turn"
    /\ Goto(t, IF Seen(t, "turn") = Other(t) THEN "see flag" ELSE "test")
    /\ UNCHANGED <<program, mem, buffer, j, job, reg, overlap>>

Unlock(t) ==
    /\ pc[t] = "unlock"
    /\ CASE program = "race" -> UNCHANGED <<mem, buffer>>
         [] program = "swap" -> AtomicStore(t, "lck", 0)
         [] OTHER -> LockStore(t, Flag(t), 0)
    /\ j' = [j EXCEPT ![t] = @ + 1]
    /\ Goto(t, IF j[t] + 1 < Turns[program] THEN "draw" ELSE "done")
    /\ job' = [job EXCEPT ![t] = NoJob] /\ reg' = [reg EXCEPT ![t] = 0]
    /\ UNCHANGED <<program, overlap>>

-----------------------------------------------------------------------------
(* transfer() *)

Inside(t) == pc[t] \in {"test", "load src", "store src", "load dst", "store dst"}
\* Still at work: inside, or with a new balance nobody else can see.
Busy(t) == Inside(t) \/ \E k \in 1 .. Len(buffer[t]) : buffer[t][k][1] \in Accounts
SeeOverlap(t) == overlap' = (overlap \/ Busy(Other(t)))

Test(t) ==
    /\ pc[t] = "test" /\ SeeOverlap(t)
    /\ Goto(t, IF Seen(t, job[t].src) < job[t].amount THEN "unlock" ELSE "load src")
    /\ UNCHANGED <<program, mem, buffer, j, job, reg>>

Load(t) ==
    /\ pc[t] \in {"load src", "load dst"} /\ SeeOverlap(t)
    /\ reg' = [reg EXCEPT ![t] =
                  IF pc[t] = "load src" THEN Seen(t, job[t].src) ELSE Seen(t, job[t].dst)]
    /\ Goto(t, IF pc[t] = "load src" THEN "store src" ELSE "store dst")
    /\ UNCHANGED <<program, mem, buffer, j, job>>

Store(t) ==
    /\ SeeOverlap(t)
    /\ \/ /\ pc[t] = "store src" /\ PlainStore(t, job[t].src, reg[t] - job[t].amount)
          /\ Goto(t, "load dst")
       \/ /\ pc[t] = "store dst" /\ PlainStore(t, job[t].dst, reg[t] + job[t].amount)
          /\ Goto(t, "unlock")
    /\ UNCHANGED <<program, j, job, reg>>

ThreadStep(t) ==
    \/ Draw(t) \/ Exchange(t) \/ SetFlag(t) \/ SetTurn(t) \/ SeeFlag(t) \/ SeeTurn(t)
    \/ Unlock(t) \/ Test(t) \/ Load(t) \/ Store(t)
Next == \E t \in Clients : ThreadStep(t) \/ Drain(t)
Spec == Init /\ [][Next]_vars

-----------------------------------------------------------------------------
(* Properties. *)

total_balance == SumFunctionOnSet(mem, Accounts)
AllDone == \A t \in Clients : pc[t] = "done" /\ buffer[t] = <<>>

\* The spin lock and Peterson's algorithm over atomic ints keep the threads
\* apart (peterson_atomic.c:17-26, atomic_swap.c:24-39).
NeverTogether == program \in {"peterson", "swap"} => ~overlap

\* With those locks the threads do not overlap; and it takes an overlap to lose
\* money or make it, whatever the store buffers hold back (peterson_atomic.c:17-26,
\* atomic_swap.c:24-39, race.c:14-21, 73-74).
TotalKept ==
    /\ NeverTogether
    /\ AllDone /\ ~overlap => total_balance = INITIAL_BALANCE * Cardinality(Accounts)

\* Both loops end, with plain ints too (peterson_naive.c:20, 58-60).
Ends == <>AllDone
=============================================================================
