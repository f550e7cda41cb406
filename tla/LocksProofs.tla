----------------------------- MODULE LocksProofs ------------------------------
(***************************************************************************)
(* The programs of the synchronisation and deadlock lectures, for          *)
(* any number of threads, turns, accounts and philosophers.                *)
(***************************************************************************)
EXTENDS MCLocks, SumLemmas, SequenceTheorems, WellFoundedInduction

-----------------------------------------------------------------------------
(* futex.c: the mutex of three states *)

\* The strengthening of MutualExclusion: state is 0 exactly when nobody owns
\* the mutex, and the owner's register is current while it is about to store.
LockWord == /\ state = 0 => \A t \in Threads : ~Holds(t)
            /\ state # 0 => \E t \in Threads : Holds(t)
RegCurrent == \A t \in Threads : pc[t] = "store" => reg[t] = counter
TurnsLeft  == \A t \in Threads : pc[t] # "done" => i[t] < ITERATIONS

IInv == TypeOK /\ MutualExclusion /\ LockWord /\ RegCurrent /\ TurnsLeft

-----------------------------------------------------------------------------
LEMMA IInvInit == Init => IInv
BY FutexAssumption DEF Init, IInv, TypeOK, PCs, MutualExclusion, LockWord, Holds,
     RegCurrent, TurnsLeft

\* Every action of lock(), of the critical section and of unlock() keeps IInv.
LEMMA IInvStep == IInv /\ [Next]_vars => IInv'
<1> SUFFICES ASSUME IInv, [Next]_vars PROVE IInv'
  OBVIOUS
<1> USE FutexAssumption DEF IInv, TypeOK, PCs, Goto, Holds
<1>1. ASSUME NEW t \in Threads, Step(t) \/ Interrupted(t) PROVE IInv'
  <2>1. CASE Cas(t)
    BY <2>1 DEF Cas, MutualExclusion, LockWord, RegCurrent, TurnsLeft
  <2>2. CASE Xchg(t)
    BY <2>2 DEF Xchg, MutualExclusion, LockWord, RegCurrent, TurnsLeft
  <2>3. CASE FutexWait(t) \/ Interrupted(t)
    BY <2>3 DEF FutexWait, Interrupted, MutualExclusion, LockWord, RegCurrent, TurnsLeft
  <2>4. CASE Load(t)
    BY <2>4 DEF Load, MutualExclusion, LockWord, RegCurrent, TurnsLeft
  <2>5. CASE Store(t)
    BY <2>5 DEF Store, MutualExclusion, LockWord, RegCurrent, TurnsLeft
  <2>6. CASE Sub(t)
    BY <2>6 DEF Sub, EndTurn, MutualExclusion, LockWord, RegCurrent, TurnsLeft
  <2>7. CASE Zero(t)
    BY <2>7 DEF Zero, MutualExclusion, LockWord, RegCurrent, TurnsLeft
  <2>8. CASE Wake(t)
    BY <2>8 DEF Wake, MutualExclusion, LockWord, RegCurrent, TurnsLeft
  <2> QED BY <1>1, <2>1, <2>2, <2>3, <2>4, <2>5, <2>6, <2>7, <2>8 DEF Step
<1>2. CASE UNCHANGED vars
  BY <1>2 DEF vars, MutualExclusion, LockWord, RegCurrent, TurnsLeft
<1> QED BY <1>1, <1>2 DEF Next

\* Every variable keeps its type; state stays within 0..2 although unlock()
\* subtracts from it (futex.c:37).
THEOREM TypeCorrect == Spec => []TypeOK
<1>1. IInv => TypeOK
  BY DEF IInv
<1> QED BY <1>1, IInvInit, IInvStep, PTL DEF Spec

\* At most one thread owns the mutex (futex.c:23-42), for any number of
\* threads and any interleaving with the two-step unlock.
THEOREM Exclusion == Spec => []MutualExclusion
<1>1. IInv => MutualExclusion
  BY DEF IInv
<1> QED BY <1>1, IInvInit, IInvStep, PTL DEF Spec

-----------------------------------------------------------------------------
\* NoLostWakeup without its owner, which LockWord supplies.
Remembered ==
    (\E t \in Threads : pc[t] = "asleep") =>
        state = 2 \/ \E u \in Threads : pc[u] \in {"xchg", "zero", "wake"}

LEMMA RememberedStep == TypeOK /\ Remembered /\ [Next]_vars => Remembered'
<1> SUFFICES ASSUME TypeOK, Remembered, [Next]_vars PROVE Remembered'
  OBVIOUS
<1> USE DEF TypeOK, PCs, Goto, Remembered
<1>1. ASSUME NEW t \in Threads, Step(t) \/ Interrupted(t) PROVE Remembered'
  <2>1. CASE Cas(t) \/ Xchg(t) \/ FutexWait(t) \/ Interrupted(t)
    BY <2>1 DEF Cas, Xchg, FutexWait, Interrupted
  <2>2. CASE Load(t) \/ Store(t)
    BY <2>2 DEF Load, Store
  <2>3. CASE Sub(t)
    BY <2>3 DEF Sub, EndTurn
  <2>4. CASE Zero(t)
    BY <2>4 DEF Zero
  <2>5. CASE Wake(t)
    BY <2>5 DEF Wake
  <2> QED BY <1>1, <2>1, <2>2, <2>3, <2>4, <2>5 DEF Step
<1>2. CASE UNCHANGED vars
  BY <1>2 DEF vars
<1> QED BY <1>1, <1>2 DEF Next

\* Whenever a thread sleeps in FUTEX_WAIT, another will retry, wake it, or see
\* state 2 in unlock() (futex.c:29-41).
THEOREM SleepersRemembered == Spec => []NoLostWakeup
<1>1. Init => Remembered
  BY DEF Init, Remembered
<1>2. IInv /\ Remembered => NoLostWakeup
  BY DEF IInv, LockWord, Remembered, NoLostWakeup
<1>3. IInv => TypeOK
  BY DEF IInv
<1> QED BY <1>1, <1>2, <1>3, RememberedStep, IInvInit, IInvStep, PTL DEF Spec

-----------------------------------------------------------------------------
\* The load and the store under the lock implement one atomic addition, for
\* every number of incrementers and decrementers.
THEOREM CounterRefinement == Spec => ImplementsSharedCounter
<1>1. Init => SC!Init
  BY DEF Init, SC!Init, Added
<1>2. IInv /\ [Next]_vars => [SC!Next]_<<counter, Added>>
  <2> SUFFICES ASSUME IInv, [Next]_vars PROVE SC!Next \/ UNCHANGED <<counter, Added>>
    OBVIOUS
  <2> USE FutexAssumption DEF IInv, TypeOK, PCs, Goto
  <2>1. ASSUME NEW t \in Threads, Store(t) PROVE SC!Next
    <3>1. counter' = counter + Delta[t] /\ i[t] < ITERATIONS /\ Added[t] = i[t]
      BY <2>1 DEF Store, RegCurrent, TurnsLeft, Added
    <3>2. \A u \in Threads : Added'[u] = IF u = t THEN Added[u] + 1 ELSE Added[u]
      BY <2>1, <3>1 DEF Store, Added
    <3>3. Added' = [Added EXCEPT ![t] = @ + 1]
      BY <3>2 DEF Added
    <3>4. SC!Add(t)
      BY <3>1, <3>3 DEF SC!Add
    <3> QED BY <3>4 DEF SC!Next
  <2>2. ASSUME NEW t \in Threads, Cas(t) \/ Xchg(t) \/ FutexWait(t) \/ Load(t) \/ Interrupted(t)
        PROVE  UNCHANGED <<counter, Added>>
    BY <2>2 DEF Cas, Xchg, FutexWait, Load, Interrupted, Added
  <2>3. ASSUME NEW t \in Threads, Sub(t) \/ Zero(t) PROVE UNCHANGED <<counter, Added>>
    BY <2>3 DEF Sub, Zero, EndTurn, Added
  <2>4. ASSUME NEW t \in Threads, Wake(t) PROVE UNCHANGED <<counter, Added>>
    <3>1. counter' = counter /\ \A u \in Threads : Added'[u] = Added[u]
      BY <2>4 DEF Wake, Added
    <3> QED BY <3>1 DEF Added
  <2>5. CASE UNCHANGED vars
    BY <2>5 DEF vars, Added
  <2> QED BY <2>1, <2>2, <2>3, <2>4, <2>5 DEF Next, Step
<1> QED BY <1>1, <1>2, IInvInit, IInvStep, PTL DEF Spec, ImplementsSharedCounter, SC!Spec

-----------------------------------------------------------------------------
(* The spin lock and the semaphore around a counter *)

C_PCs == {"lock", "load", "store", "pause", "unlock", "done"}

C_TypeOK ==
    /\ kind \in {"tas", "sem"} /\ pausing \in BOOLEAN
    /\ lck \in {0, 1} /\ c_counter \in Int
    /\ c_pc \in [Threads -> C_PCs]
    /\ c_i \in [Threads -> Nat] /\ c_reg \in [Threads -> Int]

C_Holds(t) == c_pc[t] \in {"load", "store", "pause", "unlock"}
LockFree   == lck = IF kind = "tas" THEN 0 ELSE 1

\* The lock word says whether somebody is inside, and there is one at most.
C_Exclusion ==
    /\ \A t, u \in Threads : C_Holds(t) /\ C_Holds(u) => t = u
    /\ LockFree <=> \A t \in Threads : ~C_Holds(t)

C_Inv ==
    /\ C_TypeOK /\ C_Exclusion
    /\ \A t \in Threads : /\ c_pc[t] = "store" => c_reg[t] = c_counter
                          /\ c_pc[t] # "done" => c_i[t] < ITERATIONS

LEMMA C_InvInit == C!Init => C_Inv
BY FutexAssumption DEF C!Init, C_Inv, C_TypeOK, C_PCs, C_Exclusion, C_Holds, LockFree

LEMMA C_InvStep == C_Inv /\ [C!Next]_(C!vars) => C_Inv'
<1> SUFFICES ASSUME C_Inv, [C!Next]_(C!vars) PROVE C_Inv'
  OBVIOUS
<1> USE FutexAssumption DEF C_Inv, C_TypeOK, C_PCs, C_Exclusion, C_Holds, LockFree,
                            C!Goto, C!fixed
<1>1. ASSUME NEW t \in Threads, C!Step(t) PROVE C_Inv'
  <2>1. CASE C!TestAndSet(t)
    BY <2>1 DEF C!TestAndSet
  <2>2. CASE C!SemWait(t)
    BY <2>2 DEF C!SemWait
  <2>3. CASE C!Load(t)
    BY <2>3 DEF C!Load
  <2>4. CASE C!Store(t)
    BY <2>4 DEF C!Store
  <2>5. CASE C!Unlock(t)
    BY <2>5 DEF C!Unlock
  <2> QED BY <1>1, <2>1, <2>2, <2>3, <2>4, <2>5 DEF C!Step
<1>2. CASE UNCHANGED C!vars
  BY <1>2 DEF C!vars
<1> QED BY <1>1, <1>2 DEF C!Next

\* An increment under the spin lock or the semaphore is one atomic addition
\* (atomic_tas.c:20-47, semaphore.c:20-47), for any number of threads and turns,
\* also when a decrementer pauses inside for ever.
THEOREM LocksRefinement == C!Spec => LocksImplementSharedCounter
<1>1. C!Init => C!SC!Init
  BY DEF C!Init, C!SC!Init, C!Added
<1>2. C_Inv /\ [C!Next]_(C!vars) => [C!SC!Next]_<<c_counter, C!Added>>
  <2> SUFFICES ASSUME C_Inv, [C!Next]_(C!vars)
               PROVE  C!SC!Next \/ UNCHANGED <<c_counter, C!Added>>
    OBVIOUS
  <2> USE FutexAssumption DEF C_Inv, C_TypeOK, C_PCs, C!Goto, C!Added
  <2>1. ASSUME NEW t \in Threads, C!Store(t) PROVE C!SC!Next
    <3>1. c_counter' = c_counter + Delta[t] /\ C!Added[t] < ITERATIONS
      BY <2>1 DEF C!Store
    <3>2. (C!Added)' = [C!Added EXCEPT ![t] = @ + 1]
      BY <2>1 DEF C!Store
    <3>3. C!SC!Add(t)
      BY <3>1, <3>2 DEF C!SC!Add
    <3> QED BY <3>3 DEF C!SC!Next
  <2>2. ASSUME NEW t \in Threads, C!TestAndSet(t) \/ C!SemWait(t) \/ C!Load(t)
        PROVE  UNCHANGED <<c_counter, C!Added>>
    BY <2>2 DEF C!TestAndSet, C!SemWait, C!Load
  <2>3. ASSUME NEW t \in Threads, C!Unlock(t) PROVE UNCHANGED <<c_counter, C!Added>>
    BY <2>3 DEF C!Unlock
  <2>4. CASE UNCHANGED C!vars
    BY <2>4 DEF C!vars
  <2> QED BY <2>1, <2>2, <2>3, <2>4 DEF C!Next, C!Step
<1> QED BY <1>1, <1>2, C_InvInit, C_InvStep, PTL
        DEF C!Spec, LocksImplementSharedCounter, C!ImplementsSharedCounter, C!SC!Spec

-----------------------------------------------------------------------------
(* Bank transfers *)

B_CS == {"test", "load src", "store src", "load dst", "store dst", "unlock"}
B_PCs == B_CS \cup {"draw", "xchg", "flag", "turn", "see flag", "see turn", "done"}

B_Jobs == [src : Accounts \cup {""}, dst : Accounts \cup {""}, amount : Int]

\* In the programs with a lock, the store buffers hold balances only.
B_TypeOK ==
    /\ mem \in [B!Words -> Int]
    /\ buffer \in [B!Clients -> Seq(Accounts \X Int)]
    /\ b_pc \in [B!Clients -> B_PCs]
    /\ job \in [B!Clients -> B_Jobs]
    /\ b_reg \in [B!Clients -> Int]
    /\ j \in [B!Clients -> Nat]

B_In(t) == b_pc[t] \in B_CS
JobDrawn ==
    \A t \in B!Clients : b_pc[t] \notin {"draw", "done"} =>
        job[t].src \in Accounts /\ job[t].dst \in Accounts

\* One thread between lock and unlock; and the lock is given back with an
\* empty buffer only, since an atomic operation waits for it.
B_Exclusion ==
    /\ ~overlap
    /\ ~(B_In(0) /\ B_In(1))
    /\ \A t \in B!Clients : buffer[t] # <<>> => B_In(t)

SwapInv ==
    /\ \A t \in B!Clients : b_pc[t] \in B_CS \cup {"draw", "xchg", "done"}
    /\ mem["lck"] = IF B_In(0) \/ B_In(1) THEN 1 ELSE 0

\* A thread that waits while the other is inside has given it the turn.
PetersonOf(t, u, flag) ==
    /\ b_pc[t] # "xchg"
    /\ mem[flag] = IF b_pc[t] \in {"draw", "flag", "done"} THEN 0 ELSE 1
    /\ B_In(t) /\ b_pc[u] \in {"see flag", "see turn"} => mem["turn"] = t
PetersonInv ==
    mem["turn"] \in {0, 1} /\ PetersonOf(0, 1, "flag0") /\ PetersonOf(1, 0, "flag1")

B_Inv ==
    /\ bank \in B!Programs
    /\ bank \in {"peterson", "swap"} => B_TypeOK /\ JobDrawn /\ B_Exclusion
    /\ bank = "swap" => SwapInv
    /\ bank = "peterson" => PetersonInv

\* The words of the lock are not accounts, and differ from each other.
LEMMA LockWordsApart ==
    /\ "lck" \notin Accounts /\ "turn" \notin Accounts
    /\ "flag0" \notin Accounts /\ "flag1" \notin Accounts
    /\ {"lck", "turn", "flag0", "flag1"} \subseteq B!Words /\ Accounts \subseteq B!Words
BY ProgramsAssumption DEF B!BankConstants, B!LockWords, B!Words, B!Flag

LEMMA TwoClients ==
    /\ 0 \in B!Clients /\ B!Other(0) = 1 /\ B!Flag(0) = "flag0"
    /\ 1 \in B!Clients /\ B!Other(1) = 0 /\ B!Flag(1) = "flag1"
BY DEF B!Clients, B!Other, B!Flag

\* One word is overwritten.
LEMMA WordStored ==
    ASSUME NEW S, NEW f \in [S -> Int], NEW w \in S, NEW v \in Int
    PROVE  /\ [f EXCEPT ![w] = v] \in [S -> Int]
           /\ [f EXCEPT ![w] = v][w] = v
           /\ \A x \in S : x # w => [f EXCEPT ![w] = v][x] = f[x]
OBVIOUS

LEMMA NoJobIsAJob == B!NoJob \in B_Jobs
BY DEF B!NoJob, B_Jobs

LEMMA B_InvInit == B!Init => B_Inv
<1> SUFFICES ASSUME B!Init PROVE B_Inv
  OBVIOUS
<1>1. B_TypeOK
  <2>1. mem \in [B!Words -> Int]
    BY ProgramsAssumption DEF B!BankConstants, B!Init
  <2>2. buffer \in [B!Clients -> Seq(Accounts \X Int)]
    BY DEF B!Init
  <2>3. job = [t \in B!Clients |-> B!NoJob]
    BY DEF B!Init
  <2>4. job \in [B!Clients -> B_Jobs]
    BY <2>3, NoJobIsAJob
  <2>5. b_pc \in [B!Clients -> B_PCs] /\ b_reg \in [B!Clients -> Int] /\ j \in [B!Clients -> Nat]
    BY DEF B!Init, B_PCs
  <2> QED BY <2>1, <2>2, <2>4, <2>5 DEF B_TypeOK
<1>2. JobDrawn /\ B_Exclusion
  BY DEF JobDrawn, B_Exclusion, B_In, B_CS, B!Init, B!Clients
<1>3. SwapInv /\ PetersonInv
  BY LockWordsApart DEF SwapInv, PetersonInv, PetersonOf, B_In, B_CS, B!Flag, B!Other, B!Init, B!Clients
<1>4. bank \in B!Programs
  BY DEF B!Init
<1> QED BY <1>1, <1>2, <1>3, <1>4 DEF B_Inv

\* A set of naturals that is not empty has a least element.
LEMMA HasMin == ASSUME NEW S \in SUBSET Nat, S # {}
                PROVE  \E x \in S : \A y \in S : x <= y
<1>1. PICK x \in S : \A y \in S : ~(<<y, x>> \in OpToRel(<, Nat))
  BY NatLessThanWellFounded, WFMin
<1>2. \A y \in S : ~(y < x)
  BY <1>1 DEF OpToRel
<1> QED BY <1>2

\* A bounded one has a greatest.
LEMMA HasMax == ASSUME NEW n \in Nat, NEW S \in SUBSET (0 .. n), S # {}
                PROVE  \E x \in S : \A y \in S : x >= y
<1> DEFINE T == {k \in Nat : \E x \in S : k = n - x}
<1>1. PICK z \in S : TRUE
  OBVIOUS
<1>2. T \in SUBSET Nat /\ n - z \in T
  OBVIOUS
<1>3. PICK k \in T : \A l \in T : k <= l
  BY <1>2, HasMin
<1>4. PICK x \in S : k = n - x
  BY <1>3
<1>5. \A y \in S : n - y \in T
  OBVIOUS
<1>6. \A y \in S : x >= y
  BY <1>3, <1>4, <1>5
<1> QED BY <1>6

\* A load returns a number.
LEMMA SeenIsInt == ASSUME B_TypeOK, NEW t \in B!Clients, NEW w \in B!Words
                   PROVE  B!Seen(t, w) \in Int
<1> DEFINE own == {k \in 1 .. Len(buffer[t]) : buffer[t][k][1] = w}
<1>1. buffer[t] \in Seq(Accounts \X Int) /\ mem[w] \in Int
  BY DEF B_TypeOK
<1>2. CASE own # {}
  <2>1. Len(buffer[t]) \in Nat /\ own \in SUBSET (0 .. Len(buffer[t]))
    BY <1>1
  <2>2. B!Max(own) \in own
    BY <1>2, <2>1, HasMax DEF B!Max
  <2>3. buffer[t][B!Max(own)] \in Accounts \X Int
    BY <1>1, <2>2, ElementOfSeq
  <2>4. buffer[t][B!Max(own)][2] \in Int
    BY <2>3
  <2> QED BY <1>2, <2>4 DEF B!Seen
<1> QED BY <1>1, <1>2 DEF B!Seen

LEMMA B_ProgramKept == [B!Next]_(B!vars) => bank' = bank
BY DEF B!Next, B!vars, B!ThreadStep, B!Draw, B!Exchange, B!SetFlag, B!SetTurn, B!SeeFlag,
       B!SeeTurn, B!Unlock, B!Test, B!Load, B!Store, B!Drain

\* The thread that drains or works inside is alone there.
LEMMA OtherNotBusy == ASSUME B_TypeOK, B_Exclusion, NEW t \in B!Clients, B_In(t)
                      PROVE  ~B!Busy(B!Other(t)) /\ ~B_In(B!Other(t))
<1>1. B!Other(t) \in B!Clients /\ ~B_In(B!Other(t))
  BY DEF B!Other, B!Clients, B_Exclusion
<1>2. buffer[B!Other(t)] = <<>>
  BY <1>1 DEF B_Exclusion
<1>3. 1 .. Len(buffer[B!Other(t)]) = {}
  BY <1>2
<1> QED BY <1>1, <1>3 DEF B!Busy, B!Inside, B_In, B_CS

\* What a store into a buffer of an account does to the types.
LEMMA PlainStoreType ==
    ASSUME B_TypeOK, NEW t \in B!Clients, NEW w \in Accounts, NEW v \in Int,
           B!PlainStore(t, w, v)
    PROVE  /\ buffer' \in [B!Clients -> Seq(Accounts \X Int)] /\ mem' = mem
           /\ \A u \in B!Clients : u # t => buffer'[u] = buffer[u]
<1>1. <<w, v>> \in Accounts \X Int
  OBVIOUS
<1>2. Append(buffer[t], <<w, v>>) \in Seq(Accounts \X Int)
  BY <1>1, AppendProperties DEF B_TypeOK
<1> QED BY <1>2 DEF B!PlainStore, B_TypeOK

LEMMA B_InvStep == B_Inv /\ [B!Next]_(B!vars) => B_Inv'
<1> SUFFICES ASSUME B_Inv, [B!Next]_(B!vars) PROVE B_Inv'
  OBVIOUS
<1>1. bank' = bank /\ bank \in B!Programs
  BY B_ProgramKept DEF B_Inv
<1> SUFFICES ASSUME bank \in {"peterson", "swap"} PROVE B_Inv'
  BY <1>1 DEF B_Inv
<1>2. B_TypeOK /\ JobDrawn /\ B_Exclusion
  BY DEF B_Inv
<1>3. ASSUME NEW t \in B!Clients, B!Draw(t) PROVE B_Inv'
  <2> USE <1>3 DEF B!Draw, B!Goto
  <2>1. PICK s \in Accounts, d \in Accounts, a \in Amounts :
          job' = [job EXCEPT ![t] = [src |-> s, dst |-> d, amount |-> a]]
    OBVIOUS
  <2>2. [src |-> s, dst |-> d, amount |-> a] \in B_Jobs
    <3>1. a \in Int
      BY ProgramsAssumption DEF B!BankConstants
    <3> HIDE <1>3 DEF B!Draw
    <3> QED BY <3>1 DEF B_Jobs
  <2>3. job' \in [B!Clients -> B_Jobs]
    BY <1>2, <2>1, <2>2 DEF B_TypeOK
  <2>4. b_pc' = [b_pc EXCEPT ![t] = IF bank = "swap" THEN "xchg" ELSE "flag"]
    OBVIOUS
  <2>5. B_TypeOK'
    BY <1>2, <2>3, <2>4 DEF B_TypeOK, B_PCs
  <2>6. JobDrawn'
    BY <1>2, <2>1, <2>4 DEF JobDrawn, B_TypeOK
  <2>7. B_Exclusion'
    BY <1>2, <2>4 DEF B_Exclusion, B_TypeOK, B_In, B_CS, B!Clients
  <2>8. bank = "swap" => SwapInv'
    BY <1>2, <2>4 DEF B_Inv, SwapInv, B_TypeOK, B_In, B_CS, B!Clients
  <2>9. bank = "peterson" => PetersonInv'
    BY <1>2, <2>4 DEF B_Inv, PetersonInv, PetersonOf, B_TypeOK, B_In, B_CS, B!Clients, B!Other
  <2> QED BY <1>1, <2>5, <2>6, <2>7, <2>8, <2>9 DEF B_Inv
<1>4. ASSUME NEW t \in B!Clients, B!Exchange(t) PROVE B_Inv'
  <2>1. /\ b_pc[t] = "xchg" /\ buffer[t] = <<>> /\ mem' = [mem EXCEPT !["lck"] = 1]
        /\ b_pc' = IF mem["lck"] = 1 THEN b_pc ELSE [b_pc EXCEPT ![t] = "test"]
        /\ UNCHANGED <<buffer, bank, j, job, b_reg, overlap>>
    BY <1>4 DEF B!Exchange, B!AtomicStore, B!Goto
  <2>2. bank = "swap"
    BY <2>1 DEF B_Inv, PetersonInv, PetersonOf, B!Clients
  <2>3. b_pc' \in [B!Clients -> B_PCs]
    BY <1>2, <2>1 DEF B_TypeOK, B_PCs, B_CS
  <2>4. mem' \in [B!Words -> Int] /\ mem'["lck"] = 1
    BY <1>2, <2>1, WordStored, LockWordsApart DEF B_TypeOK
  <2>5. B_TypeOK'
    BY <1>2, <2>1, <2>3, <2>4 DEF B_TypeOK
  <2>6. JobDrawn'
    BY <1>2, <2>1 DEF B_TypeOK, JobDrawn
  <2>7. B_Exclusion' /\ SwapInv'
    BY <1>2, <2>1, <2>2, <2>4
       DEF B_Inv, SwapInv, B_Exclusion, B_TypeOK, B_In, B_CS, B!Clients
  <2> QED BY <1>1, <2>2, <2>5, <2>6, <2>7 DEF B_Inv
<1>5. ASSUME NEW t \in B!Clients, B!SetFlag(t) PROVE B_Inv'
  <2>1. bank = "peterson"
    BY <1>5 DEF B_Inv, SwapInv, B_CS, B!SetFlag
  <2>2. /\ b_pc[t] = "flag" /\ buffer[t] = <<>> /\ mem' = [mem EXCEPT ![B!Flag(t)] = 1]
        /\ b_pc' = [b_pc EXCEPT ![t] = "turn"]
        /\ UNCHANGED <<buffer, bank, j, job, b_reg, overlap>>
    BY <1>5, <2>1 DEF B!SetFlag, B!LockStore, B!AtomicStore, B!Goto
  <2>3. b_pc' \in [B!Clients -> B_PCs]
    BY <1>2, <2>2 DEF B_TypeOK, B_PCs
  <2>4. mem' \in [B!Words -> Int]
    BY <1>2, <2>2, WordStored, LockWordsApart DEF B_TypeOK, B!Flag
  <2>5. B_TypeOK' /\ JobDrawn'
    BY <1>2, <2>2, <2>3, <2>4 DEF B_TypeOK, JobDrawn
  <2>6. B_Exclusion'
    BY <1>2, <2>2 DEF B_Exclusion, B_TypeOK, B_In, B_CS, B!Clients
  <2>7. PetersonInv'
    BY <1>2, <2>1, <2>2, LockWordsApart
       DEF B_Inv, PetersonInv, PetersonOf, B_TypeOK, B_In, B_CS, B!Clients, B!Other, B!Flag
  <2> QED BY <1>1, <2>1, <2>5, <2>6, <2>7 DEF B_Inv
<1>6. ASSUME NEW t \in B!Clients, B!SetTurn(t) PROVE B_Inv'
  <2>1. bank = "peterson"
    BY <1>6 DEF B_Inv, SwapInv, B_CS, B!SetTurn
  <2>2. /\ b_pc[t] = "turn" /\ buffer[t] = <<>> /\ mem' = [mem EXCEPT !["turn"] = B!Other(t)]
        /\ b_pc' = [b_pc EXCEPT ![t] = "see flag"]
        /\ UNCHANGED <<buffer, bank, j, job, b_reg, overlap>>
    BY <1>6, <2>1 DEF B!SetTurn, B!LockStore, B!AtomicStore, B!Goto
  <2>3. b_pc' \in [B!Clients -> B_PCs]
    BY <1>2, <2>2 DEF B_TypeOK, B_PCs
  <2>4. /\ mem' \in [B!Words -> Int] /\ mem'["turn"] = B!Other(t)
        /\ mem'["flag0"] = mem["flag0"] /\ mem'["flag1"] = mem["flag1"]
    <3>1. B!Other(t) \in Int
      BY DEF B!Other, B!Clients
    <3> QED BY <1>2, <2>2, <3>1, WordStored, LockWordsApart DEF B_TypeOK
  <2>5. B_TypeOK' /\ JobDrawn'
    BY <1>2, <2>2, <2>3, <2>4 DEF B_TypeOK, JobDrawn
  <2>6. B_Exclusion'
    BY <1>2, <2>2 DEF B_Exclusion, B_TypeOK, B_In, B_CS, B!Clients
  <2>7. PetersonInv'
    <3>1. PetersonInv /\ b_pc \in [B!Clients -> B_PCs]
      BY <1>2, <2>1 DEF B_Inv, B_TypeOK, B!Clients
    <3>2. b_pc'[t] = "see flag" /\ \A u \in B!Clients : u # t => b_pc'[u] = b_pc[u]
      BY <2>2, <3>1
    <3>3. CASE t = 0
      <4>1. mem'["turn"] = 1 /\ b_pc'[0] = "see flag" /\ b_pc'[1] = b_pc[1]
        BY <2>4, <3>2, <3>3, TwoClients
      <4> QED BY <2>2, <2>4, <3>1, <3>3, <4>1 DEF PetersonInv, PetersonOf, B_In, B_CS
    <3>4. CASE t = 1
      <4>1. mem'["turn"] = 0 /\ b_pc'[1] = "see flag" /\ b_pc'[0] = b_pc[0]
        BY <2>4, <3>2, <3>4, TwoClients
      <4> QED BY <2>2, <2>4, <3>1, <3>4, <4>1 DEF PetersonInv, PetersonOf, B_In, B_CS
    <3> QED BY <3>3, <3>4 DEF B!Clients
  <2> QED BY <1>1, <2>1, <2>5, <2>6, <2>7 DEF B_Inv
<1>7. ASSUME NEW t \in B!Clients, B!SeeFlag(t) \/ B!SeeTurn(t) PROVE B_Inv'
  <2>1. bank = "peterson"
    BY <1>7 DEF B_Inv, SwapInv, B_CS, B!SeeFlag, B!SeeTurn
  <2>2. buffer[t] = <<>>
    BY <1>2, <1>7 DEF B_Exclusion, B_In, B_CS, B!SeeFlag, B!SeeTurn
  <2>3. \A w : B!Seen(t, w) = mem[w]
    <3>1. 1 .. Len(buffer[t]) = {}
      BY <2>2
    <3> QED BY <3>1 DEF B!Seen
  <2>4. /\ \/ /\ b_pc[t] = "see flag"
              /\ b_pc' = [b_pc EXCEPT ![t] =
                    IF mem[B!Flag(B!Other(t))] = 1 THEN "see turn" ELSE "test"]
           \/ /\ b_pc[t] = "see turn"
              /\ b_pc' = [b_pc EXCEPT ![t] =
                    IF mem["turn"] = B!Other(t) THEN "see flag" ELSE "test"]
        /\ UNCHANGED <<mem, buffer, bank, j, job, b_reg, overlap>>
    BY <1>7, <2>3 DEF B!SeeFlag, B!SeeTurn, B!Goto
  <2>5. B_TypeOK' /\ JobDrawn'
    BY <1>2, <2>4 DEF B_TypeOK, JobDrawn, B_PCs, B_CS
  <2>6. PetersonInv /\ B_Exclusion /\ b_pc \in [B!Clients -> B_PCs]
    BY <1>2, <2>1 DEF B_Inv, B_TypeOK, B!Clients
  <2>7. /\ \A u \in B!Clients : u # t => b_pc'[u] = b_pc[u]
         /\ \/ /\ b_pc[t] = "see flag"
               /\ b_pc'[t] = IF mem[B!Flag(B!Other(t))] = 1 THEN "see turn" ELSE "test"
            \/ /\ b_pc[t] = "see turn"
               /\ b_pc'[t] = IF mem["turn"] = B!Other(t) THEN "see flag" ELSE "test"
    BY <2>4, <2>6
  <2>8. ASSUME t = 0 PROVE B_Exclusion' /\ PetersonInv'
    <3>1. \/ /\ b_pc[0] = "see flag"
             /\ b_pc'[0] = IF mem["flag1"] = 1 THEN "see turn" ELSE "test"
          \/ /\ b_pc[0] = "see turn"
             /\ b_pc'[0] = IF mem["turn"] = 1 THEN "see flag" ELSE "test"
      BY <2>8, <2>7, TwoClients
    <3>2. b_pc'[1] = b_pc[1]
      BY <2>8, <2>7, TwoClients
    <3> QED BY <2>4, <2>8, <2>6, <3>1, <3>2
            DEF PetersonInv, PetersonOf, B_Exclusion, B_In, B_CS, B!Clients
  <2>9. ASSUME t = 1 PROVE B_Exclusion' /\ PetersonInv'
    <3>1. \/ /\ b_pc[1] = "see flag"
             /\ b_pc'[1] = IF mem["flag0"] = 1 THEN "see turn" ELSE "test"
          \/ /\ b_pc[1] = "see turn"
             /\ b_pc'[1] = IF mem["turn"] = 0 THEN "see flag" ELSE "test"
      BY <2>9, <2>7, TwoClients
    <3>2. b_pc'[0] = b_pc[0]
      BY <2>9, <2>7, TwoClients
    <3> QED BY <2>4, <2>9, <2>6, <3>1, <3>2
            DEF PetersonInv, PetersonOf, B_Exclusion, B_In, B_CS, B!Clients
  <2>10. B_Exclusion' /\ PetersonInv'
    BY <2>8, <2>9 DEF B!Clients
  <2> QED BY <1>1, <2>1, <2>5, <2>10 DEF B_Inv
<1>8. ASSUME NEW t \in B!Clients, B!Unlock(t) PROVE B_Inv'
  <2> DEFINE word == IF bank = "swap" THEN "lck" ELSE B!Flag(t)
             to == IF j[t] + 1 < Turns[bank] THEN "draw" ELSE "done"
  <2>1. /\ b_pc[t] = "unlock" /\ buffer[t] = <<>> /\ mem' = [mem EXCEPT ![word] = 0]
        /\ b_pc' = [b_pc EXCEPT ![t] = to]
        /\ job' = [job EXCEPT ![t] = B!NoJob] /\ b_reg' = [b_reg EXCEPT ![t] = 0]
        /\ j' = [j EXCEPT ![t] = @ + 1]
        /\ UNCHANGED <<buffer, bank, overlap>>
    BY <1>8 DEF B!Unlock, B!LockStore, B!AtomicStore, B!Goto
  <2>2. to \in {"draw", "done"}
    OBVIOUS
  <2> HIDE DEF to
  <2>3. job' \in [B!Clients -> B_Jobs]
    BY <1>2, <2>1, NoJobIsAJob DEF B_TypeOK
  <2>4. b_reg' \in [B!Clients -> Int] /\ j' \in [B!Clients -> Nat]
    BY <1>2, <2>1 DEF B_TypeOK
  <2>5. mem' \in [B!Words -> Int]
    BY <1>2, <2>1, WordStored, LockWordsApart DEF B_TypeOK, B!Flag
  <2>6. b_pc' \in [B!Clients -> B_PCs]
    BY <1>2, <2>1, <2>2 DEF B_TypeOK, B_PCs
  <2>7. B_TypeOK'
    BY <1>2, <2>1, <2>3, <2>4, <2>6, <2>5 DEF B_TypeOK
  <2>8. JobDrawn'
    BY <1>2, <2>1, <2>2 DEF JobDrawn, B_TypeOK
  <2>9. B_Exclusion'
    BY <1>2, <2>1, <2>2 DEF B_Exclusion, B_TypeOK, B_In, B_CS, B!Clients
  <2>10. bank = "swap" => SwapInv'
    BY <1>2, <2>1, <2>2, LockWordsApart
       DEF B_Inv, SwapInv, B_Exclusion, B_TypeOK, B_In, B_CS, B!Clients
  <2>11. bank = "peterson" => PetersonInv'
    BY <1>2, <2>1, <2>2, LockWordsApart
       DEF B_Inv, PetersonInv, PetersonOf, B_TypeOK, B_In, B_CS, B!Clients, B!Other, B!Flag
  <2> QED BY <1>1, <2>7, <2>8, <2>9, <2>10, <2>11 DEF B_Inv
<1>9. ASSUME NEW t \in B!Clients, B!Test(t) \/ B!Load(t) \/ B!Store(t) PROVE B_Inv'
  <2>1. B_In(t) /\ B_In(t)' /\ \A u \in B!Clients : u # t => b_pc'[u] = b_pc[u]
    BY <1>2, <1>9 DEF B!Test, B!Load, B!Store, B!Goto, B_TypeOK, B_In, B_CS
  <2>2. ~overlap'
    BY <1>2, <1>9, <2>1, OtherNotBusy DEF B!Test, B!Load, B!Store, B!SeeOverlap, B_Exclusion
  <2>3. job[t].src \in Accounts /\ job[t].dst \in Accounts /\ job[t].amount \in Int
    BY <1>2, <2>1 DEF JobDrawn, B_In, B_CS, B_TypeOK, B_Jobs
  <2>4. /\ mem' = mem /\ buffer' \in [B!Clients -> Seq(Accounts \X Int)]
        /\ \A u \in B!Clients : u # t => buffer'[u] = buffer[u]
    <3>1. CASE B!Store(t)
      <4>1. PICK w \in Accounts, v \in Int : B!PlainStore(t, w, v)
        <5>1. b_reg[t] \in Int
          BY <1>2 DEF B_TypeOK
        <5>2. /\ b_reg[t] - job[t].amount \in Int
              /\ b_reg[t] + job[t].amount \in Int
          BY <2>3, <5>1
        <5> QED BY <2>3, <3>1, <5>2 DEF B!Store
      <4> QED BY <1>2, <4>1, PlainStoreType
    <3>2. CASE B!Test(t) \/ B!Load(t)
      BY <1>2, <3>2 DEF B!Test, B!Load, B_TypeOK
    <3> QED BY <1>9, <3>1, <3>2
  <2>5. b_reg' \in [B!Clients -> Int]
    <3>1. b_reg \in [B!Clients -> Int]
      BY <1>2 DEF B_TypeOK
    <3>2. B!Seen(t, job[t].src) \in Int /\ B!Seen(t, job[t].dst) \in Int
      BY <1>2, <2>3, SeenIsInt, LockWordsApart
    <3>3. CASE B!Load(t)
      BY <3>1, <3>2, <3>3 DEF B!Load
    <3>4. CASE B!Test(t) \/ B!Store(t)
      BY <3>1, <3>4 DEF B!Test, B!Store
    <3> QED BY <1>9, <3>3, <3>4
  <2>6. B_TypeOK' /\ JobDrawn'
    <3>1. b_pc' \in [B!Clients -> B_PCs] /\ job' = job /\ j' = j
      BY <1>2, <1>9 DEF B!Test, B!Load, B!Store, B!Goto, B_TypeOK, B_PCs, B_CS
    <3> QED BY <1>2, <2>1, <2>4, <2>5, <3>1 DEF B_TypeOK, JobDrawn, B_In, B_CS
  <2>7. B_Exclusion'
    BY <1>2, <2>1, <2>2, <2>4 DEF B_Exclusion, B!Clients, B_In
  <2>8. bank = "swap" => SwapInv'
    BY <2>1, <2>4 DEF B_Inv, SwapInv, B_In, B!Clients
  <2>9. bank = "peterson" => PetersonInv'
    BY <2>1, <2>4 DEF B_Inv, PetersonInv, PetersonOf, B_In, B_CS, B!Clients, B!Other
  <2> QED BY <1>1, <2>6, <2>7, <2>8, <2>9 DEF B_Inv
<1>10. ASSUME NEW t \in B!Clients, B!Drain(t) PROVE B_Inv'
  <2> USE <1>10 DEF B!Drain
  <2>1. buffer[t] \in Seq(Accounts \X Int) /\ buffer[t] # <<>> /\ B_In(t)
    BY <1>2 DEF B_TypeOK, B_Exclusion
  <2>2. Head(buffer[t]) \in Accounts \X Int /\ Tail(buffer[t]) \in Seq(Accounts \X Int)
    BY <2>1, HeadTailProperties
  <2>3. Head(buffer[t])[1] \in Accounts /\ Head(buffer[t])[2] \in Int
    BY <2>2
  <2>4. B_TypeOK' /\ JobDrawn'
    BY <1>2, <2>2, <2>3 DEF B_TypeOK, JobDrawn
  <2>5. B_Exclusion'
    BY <1>2, <2>1 DEF B_Exclusion, B_TypeOK, B_In
  <2>6. mem'["lck"] = mem["lck"] /\ mem'["turn"] = mem["turn"]
        /\ mem'["flag0"] = mem["flag0"] /\ mem'["flag1"] = mem["flag1"]
    BY <1>2, <2>3, LockWordsApart DEF B_TypeOK
  <2>7. (bank = "swap" => SwapInv') /\ (bank = "peterson" => PetersonInv')
    BY <2>6 DEF B_Inv, SwapInv, PetersonInv, PetersonOf, B_In, B!Clients, B!Other, B!Flag
  <2> QED BY <1>1, <2>4, <2>5, <2>7 DEF B_Inv
<1>11. CASE UNCHANGED B!vars
  BY <1>11 DEF B!vars, B_Inv, B_TypeOK, JobDrawn, B_Exclusion, SwapInv, PetersonInv, PetersonOf, B_In
<1> QED BY <1>3, <1>4, <1>5, <1>6, <1>7, <1>8, <1>9, <1>10, <1>11 DEF B!Next, B!ThreadStep

\* Where the money is.  All four programs, locks or not.
M_TypeOK ==
    /\ bank \in B!Programs
    /\ mem \in [B!Words -> Int]
    /\ buffer \in [B!Clients -> Seq(B!Words \X Int)]
    /\ b_pc \in [B!Clients -> B_PCs]
    /\ b_reg \in [B!Clients -> Int]
    /\ \A t \in B!Clients : b_pc[t] \notin {"draw", "done"} =>
          /\ job[t].src \in Accounts /\ job[t].dst \in Accounts /\ job[t].amount \in Int
          /\ job[t].src # job[t].dst
    /\ DOMAIN job = B!Clients /\ overlap \in BOOLEAN

\* A transfer has begun, or its stores are not all in memory.
Past == {"load src", "store src", "load dst", "store dst"}
KeepsMoney(b) == \E k \in 1 .. Len(b) : b[k][1] \in Accounts
Deep(t) == b_pc[t] \in Past \/ KeepsMoney(buffer[t])

\* What t would find on the accounts, and what it has taken and not yet given.
View(t) == [w \in Accounts |-> B!Seen(t, w)]
InHand(t) == IF b_pc[t] \in {"load dst", "store dst"} THEN job[t].amount ELSE 0

Money == INITIAL_BALANCE * Cardinality(Accounts)

\* t, when the other has not begun, sees all the money, and its register is
\* what it sees.
M_Sees(t, u) ==
    ~Deep(u) => /\ SumFunctionOnSet(View(t), Accounts) + InHand(t) = Money
                /\ b_pc[t] = "store src" => b_reg[t] = B!Seen(t, job[t].src)
                /\ b_pc[t] = "store dst" => b_reg[t] = B!Seen(t, job[t].dst)

M_Inv == /\ M_TypeOK
         /\ ~overlap => ~(Deep(0) /\ Deep(1)) /\ M_Sees(0, 1) /\ M_Sees(1, 0)

\* The entries of a store buffer for a word, and what a load returns.
Entries(b, w) == {k \in 1 .. Len(b) : b[k][1] = w}
Latest(b, m, w) == IF Entries(b, w) = {} THEN m[w] ELSE b[B!Max(Entries(b, w))][2]

LEMMA SeenIsLatest == \A t, w : B!Seen(t, w) = Latest(buffer[t], mem, w)
BY DEF B!Seen, Latest, Entries

LEMMA MaxIs ==
    ASSUME NEW S \in SUBSET Nat, NEW x \in S, \A y \in S : x >= y
    PROVE  B!Max(S) = x
<1>1. \E z \in S : \A y \in S : z >= y
  OBVIOUS
<1>2. B!Max(S) \in S /\ \A y \in S : B!Max(S) >= y
  BY <1>1 DEF B!Max
<1>3. B!Max(S) >= x /\ x >= B!Max(S) /\ B!Max(S) \in Nat /\ x \in Nat
  BY <1>2
<1> QED BY <1>3

LEMMA EntriesMax ==
    ASSUME NEW T, NEW b \in Seq(T), NEW w, Entries(b, w) # {}
    PROVE  LET x == B!Max(Entries(b, w))
           IN  x \in Entries(b, w) /\ x \in 1 .. Len(b) /\ \A y \in Entries(b, w) : x >= y
<1> DEFINE E == Entries(b, w)
<1>1. Len(b) \in Nat /\ E \in SUBSET (1 .. Len(b))
  BY DEF Entries
<1>2. E \in SUBSET (0 .. Len(b)) /\ E # {}
  BY <1>1
<1> HIDE DEF E
<1>3. \E x \in E : \A y \in E : x >= y
  BY <1>1, <1>2, HasMax
<1>4. B!Max(E) \in E /\ \A y \in E : B!Max(E) >= y
  BY <1>3 DEF B!Max
<1> QED BY <1>1, <1>4 DEF E

LEMMA LatestInt ==
    ASSUME NEW b \in Seq(B!Words \X Int), NEW m \in [B!Words -> Int], NEW w \in B!Words
    PROVE  Latest(b, m, w) \in Int
<1>1. CASE Entries(b, w) = {}
  BY <1>1 DEF Latest
<1>2. CASE Entries(b, w) # {}
  <2>1. B!Max(Entries(b, w)) \in 1 .. Len(b)
    BY <1>2, EntriesMax
  <2>2. b[B!Max(Entries(b, w))] \in B!Words \X Int
    BY <2>1, ElementOfSeq
  <2>3. b[B!Max(Entries(b, w))][2] \in Int
    BY <2>2
  <2> QED BY <1>2, <2>3 DEF Latest
<1> QED BY <1>1, <1>2

\* A store that enters the buffer is what the next load of its word returns.
LEMMA LatestAppend ==
    ASSUME NEW T, NEW b \in Seq(T), NEW m, NEW x, NEW v, <<x, v>> \in T, NEW w
    PROVE  /\ Latest(Append(b, <<x, v>>), m, w) = IF w = x THEN v ELSE Latest(b, m, w)
           /\ KeepsMoney(Append(b, <<x, v>>)) <=> KeepsMoney(b) \/ x \in Accounts
<1> DEFINE c == Append(b, <<x, v>>)
           n == Len(b)
<1>1. /\ n \in Nat /\ Len(c) = n + 1 /\ c[n + 1] = <<x, v>>
      /\ \A k \in 1 .. n : c[k] = b[k]
  BY AppendProperties
<1>2. n + 1 \in 1 .. Len(c) /\ \A k \in 1 .. Len(c) : k \in 1 .. n \/ k = n + 1
  BY <1>1
<1>3. \A k \in 1 .. n : k \in 1 .. Len(c) /\ k # n + 1
  BY <1>1
<1>4. c[n + 1][1] = x /\ c[n + 1][2] = v
  BY <1>1
<1> HIDE DEF c
<1>5. KeepsMoney(c) <=> KeepsMoney(b) \/ x \in Accounts
  BY <1>1, <1>2, <1>3, <1>4 DEF KeepsMoney, n
<1>6. CASE w = x
  <2>1. n + 1 \in Entries(c, w) /\ Entries(c, w) \in SUBSET Nat
    BY <1>2, <1>4, <1>6 DEF Entries
  <2>2. \A y \in Entries(c, w) : n + 1 >= y
    BY <1>1 DEF Entries
  <2>3. B!Max(Entries(c, w)) = n + 1
    BY <2>1, <2>2, MaxIs
  <2> QED BY <1>4, <1>5, <1>6, <2>1, <2>3 DEF Latest, c
<1>7. CASE w # x
  <2>1. Entries(c, w) = Entries(b, w)
    BY <1>1, <1>2, <1>3, <1>4, <1>7 DEF Entries, n
  <2>2. Entries(b, w) # {} => c[B!Max(Entries(b, w))] = b[B!Max(Entries(b, w))]
    BY <1>1, EntriesMax DEF n
  <2>3. Latest(c, m, w) = Latest(b, m, w)
    BY <2>1, <2>2 DEF Latest
  <2> QED BY <1>5, <1>7, <2>3 DEF c
<1> QED BY <1>6, <1>7

\* A store that reaches the memory changes nothing for the thread that made it.
LEMMA LatestDrain ==
    ASSUME NEW b \in Seq(B!Words \X Int), b # <<>>, NEW m \in [B!Words -> Int], NEW w \in B!Words
    PROVE  /\ Latest(Tail(b), [m EXCEPT ![Head(b)[1]] = Head(b)[2]], w) = Latest(b, m, w)
           /\ KeepsMoney(Tail(b)) => KeepsMoney(b)
           /\ KeepsMoney(b) => KeepsMoney(Tail(b)) \/ Head(b)[1] \in Accounts
<1> DEFINE c == Tail(b)
           m2 == [m EXCEPT ![Head(b)[1]] = Head(b)[2]]
           n == Len(b)
<1>1. /\ n \in Nat /\ n >= 1 /\ Len(c) = n - 1 /\ Head(b) = b[1]
      /\ \A k \in 1 .. n - 1 : c[k] = b[k + 1]
  BY HeadTailProperties
<1>2. \A k \in 1 .. n : b[k] \in B!Words \X Int
  BY ElementOfSeq
<1>3. b[1][1] \in B!Words /\ b[1][2] \in Int
  BY <1>1, <1>2
<1>4. m2[w] = IF w = b[1][1] THEN b[1][2] ELSE m[w]
  BY <1>1, <1>3
<1>5. 1 .. Len(c) = 1 .. n - 1
  BY <1>1
<1>6. \A k \in 1 .. n - 1 : k + 1 \in 1 .. n /\ k \in Nat
  BY <1>1
<1>7. \A k \in 1 .. n : k = 1 \/ (k - 1 \in 1 .. n - 1 /\ (k - 1) + 1 = k)
  BY <1>1
<1> HIDE DEF c, m2, n
<1>8. \A k \in 1 .. n : k # 1 => b[k] = c[k - 1]
  BY <1>1, <1>7
<1>9. /\ KeepsMoney(c) => KeepsMoney(b)
      /\ KeepsMoney(b) => KeepsMoney(c) \/ b[1][1] \in Accounts
  <2>1. ASSUME KeepsMoney(c) PROVE KeepsMoney(b)
    <3>1. PICK k \in 1 .. n - 1 : c[k][1] \in Accounts
      BY <1>5, <2>1 DEF KeepsMoney
    <3>2. k + 1 \in 1 .. n /\ b[k + 1][1] \in Accounts
      BY <1>1, <1>6, <3>1
    <3> QED BY <3>2 DEF KeepsMoney, n
  <2>2. ASSUME KeepsMoney(b), b[1][1] \notin Accounts PROVE KeepsMoney(c)
    <3>1. PICK k \in 1 .. n : b[k][1] \in Accounts
      BY <2>2 DEF KeepsMoney, n
    <3>2. k - 1 \in 1 .. n - 1 /\ c[k - 1][1] \in Accounts
      BY <1>7, <1>8, <2>2, <3>1
    <3> QED BY <1>5, <3>2 DEF KeepsMoney
  <2> QED BY <2>1, <2>2
<1>10. /\ Entries(c, w) = {k \in 1 .. n - 1 : c[k][1] = w}
       /\ Entries(b, w) = {k \in 1 .. n : b[k][1] = w}
  BY <1>5 DEF Entries, n
<1>11. CASE Entries(c, w) = {}
  <2>1. \A k \in Entries(b, w) : k = 1
    BY <1>7, <1>8, <1>10, <1>11
  <2>2. CASE w = b[1][1]
    <3>1. 1 \in Entries(b, w)
      BY <1>1, <1>10, <2>2
    <3>2. B!Max(Entries(b, w)) = 1
      BY <2>1, <3>1, EntriesMax
    <3> QED BY <1>1, <1>4, <1>9, <1>11, <2>2, <3>1, <3>2 DEF Latest, c, m2
  <2>3. CASE w # b[1][1]
    <3>1. Entries(b, w) = {}
      BY <1>10, <2>1, <2>3
    <3> QED BY <1>1, <1>4, <1>9, <1>11, <2>3, <3>1 DEF Latest, c, m2
  <2> QED BY <2>2, <2>3
<1>12. CASE Entries(c, w) # {}
  <2> DEFINE x == B!Max(Entries(c, w))
  <2>1. c \in Seq(B!Words \X Int)
    BY HeadTailProperties DEF c
  <2>2. x \in Entries(c, w) /\ \A y \in Entries(c, w) : x >= y
    BY <1>12, <2>1, EntriesMax
  <2> HIDE DEF x
  <2>3. x \in 1 .. n - 1 /\ x + 1 \in 1 .. n /\ x \in Nat /\ b[x + 1] = c[x]
    BY <1>1, <1>6, <1>10, <2>2
  <2>4. x + 1 \in Entries(b, w) /\ Entries(b, w) \in SUBSET Nat
    BY <1>1, <1>10, <2>2, <2>3
  <2>5. ASSUME NEW y \in Entries(b, w) PROVE x + 1 >= y
    <3>1. y = 1 \/ (y - 1 \in Entries(c, w) /\ y \in Nat)
      <4>1. y \in 1 .. n /\ b[y][1] = w
        BY <1>10
      <4>2. CASE y # 1
        <5>1. y - 1 \in 1 .. n - 1 /\ c[y - 1][1] = w
          BY <1>7, <1>8, <4>1, <4>2
        <5> QED BY <1>1, <1>10, <4>1, <5>1
      <4> QED BY <4>2
    <3> QED BY <2>2, <2>3, <3>1
  <2>6. B!Max(Entries(b, w)) = x + 1
    BY <2>4, <2>5, MaxIs
  <2> QED BY <1>1, <1>9, <1>12, <2>3, <2>4, <2>6 DEF Latest, c, m2, x
<1> QED BY <1>11, <1>12

LEMMA M_Pair ==
    ASSUME NEW t \in B!Clients
    PROVE  LET u == B!Other(t)
               Pair == ~overlap => ~(Deep(t) /\ Deep(u)) /\ M_Sees(t, u) /\ M_Sees(u, t)
           IN  /\ u \in B!Clients /\ u # t /\ B!Clients = {t, u}
               /\ M_Inv <=> M_TypeOK /\ Pair
               /\ M_Inv' <=> M_TypeOK' /\ Pair'
<1>1. CASE t = 0
  BY <1>1, TwoClients DEF M_Inv, B!Clients
<1>2. CASE t = 1
  BY <1>2, TwoClients DEF M_Inv, B!Clients
<1> QED BY <1>1, <1>2 DEF B!Clients

LEMMA AccountsFinite == /\ IsFiniteSet(Accounts) /\ Cardinality(Accounts) \in Nat
                        /\ INITIAL_BALANCE \in Nat /\ Money \in Int /\ Accounts \subseteq B!Words
<1>1. IsFiniteSet(Accounts) /\ INITIAL_BALANCE \in Nat
  BY ProgramsAssumption DEF B!BankConstants, B!IsFiniteSet, IsFiniteSet
<1>2. Cardinality(Accounts) \in Nat
  BY <1>1, FS_CardinalityType
<1>3. Money \in Int
  BY <1>1, <1>2 DEF Money
<1> QED BY <1>1, <1>2, <1>3, LockWordsApart

\* Without a store of its own a thread sees the memory.
LEMMA SeesMemory ==
    ASSUME NEW b, NEW m, ~KeepsMoney(b), NEW w \in Accounts
    PROVE  Latest(b, m, w) = m[w]
<1>1. Entries(b, w) = {}
  BY DEF Entries, KeepsMoney
<1> QED BY <1>1 DEF Latest

LEMMA ViewType ==
    ASSUME M_TypeOK, NEW t \in B!Clients
    PROVE  View(t) \in [Accounts -> Int] /\ \A w \in Accounts : View(t)[w] = B!Seen(t, w)
<1>1. \A w \in Accounts : B!Seen(t, w) \in Int
  BY SeenIsLatest, LatestInt, AccountsFinite DEF M_TypeOK
<1> QED BY <1>1 DEF View

\* A step that leaves the balances alone, by a thread that has not begun.
LEMMA M_Apart ==
    ASSUME M_Inv, M_TypeOK', NEW t \in B!Clients, overlap' = overlap,
           b_pc[t] \notin Past, b_pc'[t] \notin Past,
           \A u \in B!Clients : KeepsMoney(buffer'[u]) <=> KeepsMoney(buffer[u]),
           \A u \in B!Clients : \A w \in Accounts : Latest(buffer'[u], mem', w) = Latest(buffer[u], mem, w),
           \A u \in B!Clients : u # t => b_pc'[u] = b_pc[u] /\ job'[u] = job[u] /\ b_reg'[u] = b_reg[u]
    PROVE  M_Inv'
<1> DEFINE u == B!Other(t)
<1>1. u \in B!Clients /\ u # t /\ M_TypeOK
  BY M_Pair DEF M_Inv
<1>2. SUFFICES ASSUME ~overlap PROVE ~(Deep(t)' /\ Deep(u)') /\ M_Sees(t, u)' /\ M_Sees(u, t)'
  BY M_Pair
<1>3. ~(Deep(t) /\ Deep(u)) /\ M_Sees(t, u) /\ M_Sees(u, t)
  BY <1>2, M_Pair
<1> HIDE DEF u
<1>4. (Deep(t)' <=> Deep(t)) /\ (Deep(u)' <=> Deep(u))
  BY <1>1 DEF Deep
<1>5. \A c \in B!Clients : \A w \in Accounts : B!Seen(c, w)' = B!Seen(c, w)
  <2>1. \A c, w : B!Seen(c, w)' = Latest(buffer'[c], mem', w)
    BY DEF B!Seen, Latest, Entries
  <2> QED BY <2>1, SeenIsLatest
<1>6. View(t)' = View(t) /\ View(u)' = View(u)
  BY <1>1, <1>5 DEF View
<1>7. InHand(t) = 0 /\ InHand(t)' = 0 /\ InHand(u)' = InHand(u)
  BY <1>1 DEF InHand, Past
<1>8. M_Sees(t, u)'
  BY <1>3, <1>4, <1>6, <1>7 DEF M_Sees, Past, Money
<1>9. M_Sees(u, t)'
  <2>1. b_pc'[u] = "store src" => job[u].src \in Accounts
    BY <1>1 DEF M_TypeOK
  <2>2. b_pc'[u] = "store dst" => job[u].dst \in Accounts
    BY <1>1 DEF M_TypeOK
  <2> QED BY <1>1, <1>3, <1>4, <1>5, <1>6, <1>7, <2>1, <2>2 DEF M_Sees, Money
<1> QED BY <1>3, <1>4, <1>8, <1>9

\* So are the stores to the words of a lock, plain or atomic.
LEMMA LockStoreApart ==
    ASSUME M_TypeOK, NEW t \in B!Clients, NEW x \in B!LockWords, NEW v \in Int,
           B!PlainStore(t, x, v) \/ B!AtomicStore(t, x, v)
    PROVE  /\ mem' \in [B!Words -> Int] /\ buffer' \in [B!Clients -> Seq(B!Words \X Int)]
           /\ \A u \in B!Clients : KeepsMoney(buffer'[u]) <=> KeepsMoney(buffer[u])
           /\ \A u \in B!Clients : \A w \in Accounts : Latest(buffer'[u], mem', w) = Latest(buffer[u], mem, w)
<1>1. x \in B!Words /\ x \notin Accounts /\ <<x, v>> \in B!Words \X Int
  BY ProgramsAssumption DEF B!BankConstants, B!Words
<1>2. mem \in [B!Words -> Int] /\ buffer \in [B!Clients -> Seq(B!Words \X Int)]
  BY DEF M_TypeOK
<1>3. CASE B!PlainStore(t, x, v)
  <2>1. mem' = mem /\ buffer' = [buffer EXCEPT ![t] = Append(buffer[t], <<x, v>>)]
    BY <1>3 DEF B!PlainStore
  <2>2. Append(buffer[t], <<x, v>>) \in Seq(B!Words \X Int)
    BY <1>1, <1>2, AppendProperties
  <2>3. buffer' \in [B!Clients -> Seq(B!Words \X Int)]
        /\ buffer'[t] = Append(buffer[t], <<x, v>>) /\ \A u \in B!Clients : u # t => buffer'[u] = buffer[u]
    BY <1>2, <2>1, <2>2
  <2>4. KeepsMoney(buffer'[t]) <=> KeepsMoney(buffer[t])
    <3>1. buffer[t] \in Seq(B!Words \X Int)
      BY <1>2
    <3>2. KeepsMoney(Append(buffer[t], <<x, v>>)) <=> KeepsMoney(buffer[t]) \/ x \in Accounts
      BY <1>1, <3>1, LatestAppend
    <3> QED BY <1>1, <2>3, <3>2
  <2>5. ASSUME NEW w \in Accounts PROVE Latest(buffer'[t], mem', w) = Latest(buffer[t], mem, w)
    <3>1. w # x /\ buffer[t] \in Seq(B!Words \X Int)
      BY <1>1, <1>2
    <3> QED BY <1>1, <2>1, <2>3, <3>1, LatestAppend
  <2> QED BY <1>2, <2>1, <2>3, <2>4, <2>5
<1>4. CASE B!AtomicStore(t, x, v)
  <2>1. buffer' = buffer /\ mem' = [mem EXCEPT ![x] = v]
    BY <1>4 DEF B!AtomicStore
  <2>2. mem' \in [B!Words -> Int] /\ \A w \in Accounts : mem'[w] = mem[w]
    BY <1>1, <1>2, <2>1, AccountsFinite
  <2> QED BY <1>2, <2>1, <2>2 DEF Latest
<1> QED BY <1>3, <1>4

LEMMA M_InvInit == B!Init => M_Inv
<1> SUFFICES ASSUME B!Init PROVE M_Inv
  OBVIOUS
<1>1. M_TypeOK
  <2>1. mem \in [B!Words -> Int]
    BY ProgramsAssumption DEF B!BankConstants, B!Init
  <2>2. buffer \in [B!Clients -> Seq(B!Words \X Int)]
    BY DEF B!Init
  <2>3. b_pc \in [B!Clients -> B_PCs] /\ b_reg \in [B!Clients -> Int] /\ DOMAIN job = B!Clients
    BY DEF B!Init, B_PCs
  <2>4. \A t \in B!Clients : b_pc[t] = "draw"
    BY DEF B!Init
  <2>5. bank \in B!Programs /\ overlap = FALSE
    BY DEF B!Init
  <2>6. overlap \in BOOLEAN
    BY <2>5
  <2> QED BY <2>1, <2>2, <2>3, <2>4, <2>5, <2>6 DEF M_TypeOK
<1>2. ASSUME NEW t \in B!Clients
      PROVE  /\ b_pc[t] = "draw" /\ ~Deep(t) /\ InHand(t) = 0
             /\ SumFunctionOnSet(View(t), Accounts) + InHand(t) = Money
  <2>1. b_pc[t] = "draw" /\ buffer[t] = <<>>
    BY DEF B!Init
  <2>2. 1 .. Len(buffer[t]) = {}
    BY <2>1
  <2>3. ~KeepsMoney(buffer[t]) /\ ~Deep(t) /\ InHand(t) = 0
    BY <2>1, <2>2 DEF KeepsMoney, Deep, Past, InHand
  <2>4. \A w \in Accounts : mem[w] = INITIAL_BALANCE
    BY AccountsFinite DEF B!Init
  <2>5. \A w \in Accounts : View(t)[w] = INITIAL_BALANCE
    BY <2>3, <2>4, SeenIsLatest, SeesMemory DEF View
  <2>6. INITIAL_BALANCE \in Int
    BY AccountsFinite
  <2>7. SumFunctionOnSet(View(t), Accounts) = INITIAL_BALANCE * Cardinality(Accounts)
    BY <2>5, <2>6, AccountsFinite, SumOfEqual
  <2>8. SumFunctionOnSet(View(t), Accounts) = Money /\ Money \in Int
    BY <2>7, AccountsFinite DEF Money
  <2>9. SumFunctionOnSet(View(t), Accounts) + 0 = Money
    BY <2>8
  <2> QED BY <2>1, <2>3, <2>9
<1>3. M_Sees(0, 1) /\ M_Sees(1, 0)
  BY <1>2, TwoClients, AccountsFinite DEF M_Sees
<1> QED BY <1>1, <1>2, <1>3, TwoClients DEF M_Inv

\* All that a thread does outside of transfer().
LEMMA M_Outside ==
    ASSUME M_Inv, NEW t \in B!Clients,
           \/ B!Draw(t) \/ B!Exchange(t) \/ B!SetFlag(t) \/ B!SetTurn(t)
           \/ B!SeeFlag(t) \/ B!SeeTurn(t) \/ B!Unlock(t)
    PROVE  M_Inv'
<1>1. M_TypeOK
  BY DEF M_Inv
<1>2. /\ b_pc[t] \in {"draw", "xchg", "flag", "turn", "see flag", "see turn", "unlock"}
      /\ overlap' = overlap /\ bank' = bank
  BY DEF B!Draw, B!Exchange, B!SetFlag, B!SetTurn, B!SeeFlag, B!SeeTurn, B!Unlock
<1>3. \/ b_pc' = b_pc
      \/ \E l \in B_PCs \ Past : b_pc' = [b_pc EXCEPT ![t] = l] /\ (b_pc[t] = "draw" \/ l \in {"draw", "done"} \/ b_pc[t] # "unlock")
  BY DEF B!Draw, B!Exchange, B!SetFlag, B!SetTurn, B!SeeFlag, B!SeeTurn, B!Unlock, B!Goto, B_PCs, B_CS, Past
<1>4. /\ b_pc' \in [B!Clients -> B_PCs] /\ b_pc'[t] \notin Past
      /\ \A u \in B!Clients : u # t => b_pc'[u] = b_pc[u]
  BY <1>1, <1>2, <1>3 DEF M_TypeOK, Past
<1>5. /\ mem' \in [B!Words -> Int] /\ buffer' \in [B!Clients -> Seq(B!Words \X Int)]
      /\ \A u \in B!Clients : KeepsMoney(buffer'[u]) <=> KeepsMoney(buffer[u])
      /\ \A u \in B!Clients : \A w \in Accounts : Latest(buffer'[u], mem', w) = Latest(buffer[u], mem, w)
  <2>1. \/ UNCHANGED <<mem, buffer>>
        \/ \E x \in B!LockWords, v \in Int : B!PlainStore(t, x, v) \/ B!AtomicStore(t, x, v)
    <3>1. "lck" \in B!LockWords /\ "turn" \in B!LockWords /\ B!Flag(t) \in B!LockWords
          /\ B!Other(t) \in Int
      BY DEF B!LockWords, B!Flag, B!Other, B!Clients
    <3>2. 0 \in Int /\ 1 \in Int
      OBVIOUS
    <3>3. CASE B!Draw(t) \/ B!SeeFlag(t) \/ B!SeeTurn(t)
      BY <3>3 DEF B!Draw, B!SeeFlag, B!SeeTurn
    <3>4. CASE B!Exchange(t)
      BY <3>1, <3>2, <3>4 DEF B!Exchange
    <3>5. CASE B!SetFlag(t)
      BY <3>1, <3>2, <3>5 DEF B!SetFlag, B!LockStore
    <3>6. CASE B!SetTurn(t)
      BY <3>1, <3>2, <3>6 DEF B!SetTurn, B!LockStore
    <3>7. CASE B!Unlock(t)
      BY <3>1, <3>2, <3>7 DEF B!Unlock, B!LockStore
    <3> QED BY <3>3, <3>4, <3>5, <3>6, <3>7
  <2>2. CASE UNCHANGED <<mem, buffer>>
    BY <1>1, <2>2 DEF M_TypeOK
  <2>3. CASE \E x \in B!LockWords, v \in Int : B!PlainStore(t, x, v) \/ B!AtomicStore(t, x, v)
    BY <1>1, <2>3, LockStoreApart
  <2> QED BY <2>1, <2>2, <2>3
<1>6. b_reg' \in [B!Clients -> Int] /\ \A u \in B!Clients : u # t => b_reg'[u] = b_reg[u]
  <2>1. b_reg' = b_reg \/ b_reg' = [b_reg EXCEPT ![t] = 0]
    BY DEF B!Draw, B!Exchange, B!SetFlag, B!SetTurn, B!SeeFlag, B!SeeTurn, B!Unlock
  <2> QED BY <1>1, <2>1 DEF M_TypeOK
<1>7. /\ DOMAIN job' = B!Clients
      /\ \A u \in B!Clients : u # t => job'[u] = job[u]
      /\ b_pc'[t] \notin {"draw", "done"} =>
            /\ job'[t].src \in Accounts /\ job'[t].dst \in Accounts /\ job'[t].amount \in Int
            /\ job'[t].src # job'[t].dst
  <2>1. DOMAIN job = B!Clients
    BY <1>1 DEF M_TypeOK
  <2>2. CASE B!Draw(t)
    <3>1. PICK s \in Accounts, d \in Accounts, a \in Amounts :
            s # d /\ job' = [job EXCEPT ![t] = [src |-> s, dst |-> d, amount |-> a]]
      BY <2>2 DEF B!Draw
    <3>2. a \in Int
      BY ProgramsAssumption DEF B!BankConstants
    <3>3. job'[t] = [src |-> s, dst |-> d, amount |-> a]
      BY <2>1, <3>1
    <3>4. job'[t].src = s /\ job'[t].dst = d /\ job'[t].amount = a
      BY <3>3
    <3>5. DOMAIN job' = B!Clients /\ \A u \in B!Clients : u # t => job'[u] = job[u]
      BY <2>1, <3>1
    <3> QED BY <3>1, <3>2, <3>4, <3>5
  <2>3. CASE B!Unlock(t)
    <3>1. job' = [job EXCEPT ![t] = B!NoJob] /\ b_pc'[t] \in {"draw", "done"}
      BY <1>1, <2>3 DEF B!Unlock, B!Goto, M_TypeOK
    <3> QED BY <2>1, <3>1
  <2>4. CASE B!Exchange(t) \/ B!SetFlag(t) \/ B!SetTurn(t) \/ B!SeeFlag(t) \/ B!SeeTurn(t)
    <3>1. job' = job /\ b_pc[t] \notin {"draw", "done"}
      BY <2>4 DEF B!Exchange, B!SetFlag, B!SetTurn, B!SeeFlag, B!SeeTurn
    <3> QED BY <1>1, <2>1, <3>1 DEF M_TypeOK
  <2> QED BY <2>2, <2>3, <2>4
<1>8. M_TypeOK'
  <2>1. ASSUME NEW u \in B!Clients, b_pc'[u] \notin {"draw", "done"}
        PROVE  /\ job'[u].src \in Accounts /\ job'[u].dst \in Accounts /\ job'[u].amount \in Int
               /\ job'[u].src # job'[u].dst
    BY <1>1, <1>4, <1>7, <2>1 DEF M_TypeOK
  <2>2. bank' \in B!Programs /\ overlap' \in BOOLEAN
    BY <1>1, <1>2 DEF M_TypeOK
  <2> QED BY <1>4, <1>5, <1>6, <1>7, <2>1, <2>2 DEF M_TypeOK
<1> QED BY <1>2, <1>4, <1>5, <1>6, <1>7, <1>8, M_Apart DEF Past

\* A step of transfer() that is not an overlap finds the other thread idle.
LEMMA M_Alone ==
    ASSUME M_TypeOK, NEW t \in B!Clients, B!SeeOverlap(t), ~overlap'
    PROVE  ~overlap /\ ~Deep(B!Other(t))
<1>1. ~overlap /\ ~B!Busy(B!Other(t))
  BY DEF B!SeeOverlap
<1> QED BY <1>1 DEF B!Busy, B!Inside, Deep, Past, KeepsMoney

\* The thread is in the middle of a transfer after a step of its own: it has to
\* see all the money.
LEMMA M_Within ==
    ASSUME M_Inv, M_TypeOK', NEW t \in B!Clients, B!SeeOverlap(t), Deep(t)',
           LET u == B!Other(t)
           IN  buffer'[u] = buffer[u] /\ b_pc'[u] = b_pc[u] /\ b_reg'[u] = b_reg[u],
           M_Sees(t, B!Other(t)) /\ ~Deep(B!Other(t)) => M_Sees(t, B!Other(t))'
    PROVE  M_Inv'
<1> DEFINE u == B!Other(t)
<1>1. M_TypeOK
  BY DEF M_Inv
<1>2. SUFFICES ASSUME ~overlap' PROVE ~(Deep(t)' /\ Deep(u)') /\ M_Sees(t, u)' /\ M_Sees(u, t)'
  BY M_Pair
<1>3. ~overlap /\ ~Deep(u)
  BY <1>1, <1>2, M_Alone
<1>4. ~Deep(u)'
  BY <1>3 DEF Deep
<1>5. M_Sees(t, u)
  BY <1>3, M_Pair
<1>6. M_Sees(u, t)'
  BY DEF M_Sees
<1> QED BY <1>3, <1>4, <1>5, <1>6

LEMMA M_TestLoad ==
    ASSUME M_Inv, NEW t \in B!Clients, B!Test(t) \/ B!Load(t)
    PROVE  M_Inv'
<1> DEFINE u == B!Other(t)
<1>1. M_TypeOK /\ u \in B!Clients /\ u # t
  BY M_Pair DEF M_Inv
<1>2. /\ b_pc[t] \in {"test", "load src", "load dst"} /\ B!SeeOverlap(t)
      /\ UNCHANGED <<mem, buffer, bank, job>>
  BY DEF B!Test, B!Load
<1>3. job[t].src \in Accounts /\ job[t].dst \in Accounts /\ job[t].amount \in Int
  BY <1>1, <1>2 DEF M_TypeOK
<1>4. B!Seen(t, job[t].src) \in Int /\ B!Seen(t, job[t].dst) \in Int
  BY <1>1, <1>3, SeenIsLatest, LatestInt, AccountsFinite DEF M_TypeOK
<1>5. /\ b_pc' \in [B!Clients -> B_PCs] /\ \A c \in B!Clients : c # t => b_pc'[c] = b_pc[c]
      /\ b_pc'[t] \in {"unlock", "load src", "store src", "store dst"}
  BY <1>1, <1>2 DEF B!Test, B!Load, B!Goto, M_TypeOK, B_PCs, B_CS
<1>6. b_reg' \in [B!Clients -> Int] /\ \A c \in B!Clients : c # t => b_reg'[c] = b_reg[c]
  <2>1. b_reg \in [B!Clients -> Int]
    BY <1>1 DEF M_TypeOK
  <2>2. CASE B!Test(t)
    BY <2>1, <2>2 DEF B!Test
  <2>3. CASE B!Load(t)
    BY <1>4, <2>1, <2>3 DEF B!Load
  <2> QED BY <2>2, <2>3
<1>7. overlap' \in BOOLEAN
  BY <1>2 DEF B!SeeOverlap
<1>8. M_TypeOK'
  <2>1. ASSUME NEW c \in B!Clients, b_pc'[c] \notin {"draw", "done"}
        PROVE  b_pc[c] \notin {"draw", "done"}
    BY <1>2, <1>5, <2>1
  <2> QED BY <1>1, <1>2, <1>5, <1>6, <1>7, <2>1 DEF M_TypeOK
<1>9. \A c, w : B!Seen(c, w)' = B!Seen(c, w)
  BY <1>2 DEF B!Seen
<1>10. View(t)' = View(t)
  BY <1>9 DEF View
<1>11. CASE Deep(t)'
  <2>1. ASSUME M_Sees(t, u), ~Deep(u) PROVE M_Sees(t, u)'
    <3>1. SumFunctionOnSet(View(t), Accounts) + InHand(t) = Money
      BY <2>1 DEF M_Sees
    <3>2. InHand(t)' = InHand(t)
      BY <1>1, <1>2 DEF InHand, B!Test, B!Load, B!Goto, M_TypeOK
    <3>3. /\ b_pc'[t] = "store src" => b_reg'[t] = B!Seen(t, job[t].src)
          /\ b_pc'[t] = "store dst" => b_reg'[t] = B!Seen(t, job[t].dst)
      <4>1. CASE B!Test(t)
        <5>1. b_pc'[t] \in {"unlock", "load src"}
          BY <1>1, <4>1 DEF B!Test, B!Goto, M_TypeOK
        <5> QED BY <5>1
      <4>2. CASE B!Load(t) /\ b_pc[t] = "load src"
        <5>1. b_pc'[t] = "store src" /\ b_reg'[t] = B!Seen(t, job[t].src)
          BY <1>1, <4>2 DEF B!Load, B!Goto, M_TypeOK
        <5> QED BY <5>1
      <4>3. CASE B!Load(t) /\ b_pc[t] = "load dst"
        <5>1. b_pc'[t] = "store dst" /\ b_reg'[t] = B!Seen(t, job[t].dst)
          BY <1>1, <4>3 DEF B!Load, B!Goto, M_TypeOK
        <5> QED BY <5>1
      <4> QED BY <4>1, <4>2, <4>3 DEF B!Load
    <3> QED BY <1>2, <1>9, <1>10, <3>1, <3>2, <3>3 DEF M_Sees, Money
  <2> QED BY <1>1, <1>2, <1>5, <1>6, <1>8, <1>11, <2>1, M_Within
<1>12. CASE ~Deep(t)'
  <2>1. b_pc[t] = "test" /\ b_pc'[t] = "unlock"
    BY <1>1, <1>2, <1>5, <1>12 DEF Deep, Past, B!Test, B!Load, B!Goto, M_TypeOK
  <2>2. CASE overlap'
    BY <1>8, <2>2, M_Pair
  <2>3. CASE ~overlap'
    <3>1. overlap' = overlap
      BY <1>1, <1>2, <1>7, <2>3, M_Alone DEF M_TypeOK
    <3> QED BY <1>2, <1>5, <1>6, <1>8, <2>1, <3>1, M_Apart DEF Past
  <2> QED BY <2>2, <2>3
<1> QED BY <1>11, <1>12

\* One account changes in the view of the thread that stores, by what it has in
\* hand.
LEMMA M_Store ==
    ASSUME M_Inv, NEW t \in B!Clients, B!Store(t)
    PROVE  M_Inv'
<1> DEFINE u == B!Other(t)
           a == job[t].amount
           x == IF b_pc[t] = "store src" THEN job[t].src ELSE job[t].dst
           v == IF b_pc[t] = "store src" THEN b_reg[t] - a ELSE b_reg[t] + a
           l == IF b_pc[t] = "store src" THEN "load dst" ELSE "unlock"
<1>1. M_TypeOK /\ u \in B!Clients /\ u # t
  BY M_Pair DEF M_Inv
<1>2. /\ b_pc[t] \in {"store src", "store dst"} /\ B!SeeOverlap(t) /\ B!PlainStore(t, x, v)
      /\ b_pc' = [b_pc EXCEPT ![t] = l] /\ UNCHANGED <<bank, job, b_reg>>
  BY DEF B!Store, B!Goto
<1>3. x \in Accounts /\ a \in Int /\ b_reg[t] \in Int
  BY <1>1, <1>2 DEF M_TypeOK
<1>4. v \in Int
  <2>1. b_reg[t] - a \in Int /\ b_reg[t] + a \in Int
    <3> DEFINE g == b_reg[t]
    <3>1. g \in Int /\ a \in Int
      BY <1>3
    <3> HIDE DEF g, a
    <3>2. g - a \in Int /\ g + a \in Int
      BY <3>1
    <3> QED BY <3>2 DEF g
  <2> QED BY <2>1
<1>5. <<x, v>> \in B!Words \X Int
  BY <1>3, <1>4, AccountsFinite
<1>6. /\ mem' = mem /\ buffer' = [buffer EXCEPT ![t] = Append(buffer[t], <<x, v>>)]
  BY <1>2 DEF B!PlainStore
<1>7. l \in {"load dst", "unlock"}
  OBVIOUS
<1> HIDE DEF x, v, l
<1>8. buffer[t] \in Seq(B!Words \X Int)
  BY <1>1 DEF M_TypeOK
<1>9. Append(buffer[t], <<x, v>>) \in Seq(B!Words \X Int)
  BY <1>5, <1>8, AppendProperties
<1>10. /\ buffer' \in [B!Clients -> Seq(B!Words \X Int)] /\ buffer'[t] = Append(buffer[t], <<x, v>>)
       /\ buffer'[u] = buffer[u]
  BY <1>1, <1>6, <1>9 DEF M_TypeOK
<1>11. /\ b_pc' \in [B!Clients -> B_PCs] /\ b_pc'[t] = l
       /\ \A c \in B!Clients : c # t => b_pc'[c] = b_pc[c]
  BY <1>1, <1>2, <1>7 DEF M_TypeOK, B_PCs, B_CS
<1>12. M_TypeOK'
  <2>1. overlap' \in BOOLEAN
    BY <1>2 DEF B!SeeOverlap
  <2>2. ASSUME NEW c \in B!Clients, b_pc'[c] \notin {"draw", "done"}
        PROVE  b_pc[c] \notin {"draw", "done"}
    BY <1>2, <1>11, <2>2
  <2> QED BY <1>1, <1>2, <1>6, <1>10, <1>11, <2>1, <2>2 DEF M_TypeOK
<1>13. Deep(t)'
  <2>1. KeepsMoney(Append(buffer[t], <<x, v>>))
    BY <1>3, <1>5, <1>8, LatestAppend
  <2> QED BY <1>10, <2>1 DEF Deep
<1>14. \A w \in Accounts : B!Seen(t, w)' = IF w = x THEN v ELSE B!Seen(t, w)
  <2>1. \A w : B!Seen(t, w)' = Latest(buffer'[t], mem', w)
    BY DEF B!Seen, Latest, Entries
  <2>2. \A w : Latest(Append(buffer[t], <<x, v>>), mem, w) = IF w = x THEN v ELSE Latest(buffer[t], mem, w)
    BY <1>5, <1>8, LatestAppend
  <2> QED BY <1>6, <1>10, <2>1, <2>2, SeenIsLatest
<1>15. View(t) \in [Accounts -> Int]
  BY <1>1, ViewType
<1>16. View(t)' = [View(t) EXCEPT ![x] = v]
  BY <1>3, <1>14 DEF View
<1>17. SumFunctionOnSet(View(t), Accounts) \in Int
  <2>1. \A w \in Accounts : View(t)[w] \in Int
    BY <1>15
  <2> QED BY <2>1, AccountsFinite, SumType
<1>18. SumFunctionOnSet(View(t)', Accounts) = SumFunctionOnSet(View(t), Accounts) + (v - View(t)[x])
  <2> DEFINE f == View(t)
  <2>1. f \in [Accounts -> Int] /\ IsFiniteSet(Accounts)
    BY <1>15, AccountsFinite
  <2> HIDE DEF f
  <2>2. SumFunctionOnSet([f EXCEPT ![x] = v], Accounts) = SumFunctionOnSet(f, Accounts) + (v - f[x])
    BY <1>3, <1>4, <2>1, SumExcept
  <2> QED BY <1>16, <2>2 DEF f
<1>19. ASSUME M_Sees(t, u), ~Deep(u) PROVE M_Sees(t, u)'
  <2>1. /\ SumFunctionOnSet(View(t), Accounts) + InHand(t) = Money
        /\ b_pc[t] = "store src" => b_reg[t] = B!Seen(t, job[t].src)
        /\ b_pc[t] = "store dst" => b_reg[t] = B!Seen(t, job[t].dst)
    BY <1>19 DEF M_Sees
  <2>2. View(t)[x] = b_reg[t]
    BY <1>2, <1>3, <2>1 DEF View, x
  <2>3. \/ InHand(t) = 0 /\ InHand(t)' = a /\ v = b_reg[t] - a
        \/ InHand(t) = a /\ InHand(t)' = 0 /\ v = b_reg[t] + a
    BY <1>2, <1>11 DEF InHand, v, l
  <2>4. SumFunctionOnSet(View(t)', Accounts) + InHand(t)' = Money
    <3> DEFINE s == SumFunctionOnSet(View(t), Accounts)
               r == SumFunctionOnSet(View(t)', Accounts)
               h == InHand(t)
               k == InHand(t)'
               g == b_reg[t]
    <3>1. /\ s \in Int /\ a \in Int /\ g \in Int /\ Money \in Int
          /\ s + h = Money /\ r = s + (v - g)
          /\ \/ h = 0 /\ k = a /\ v = g - a
             \/ h = a /\ k = 0 /\ v = g + a
      BY <1>3, <1>17, <1>18, <2>1, <2>2, <2>3, AccountsFinite
    <3> HIDE DEF s, r, h, k, g, a
    <3>2. r + k = Money
      BY <3>1
    <3> QED BY <3>2 DEF r, k
  <2> QED BY <1>7, <1>11, <2>4 DEF M_Sees, Money
<1> QED BY <1>1, <1>2, <1>10, <1>11, <1>12, <1>13, <1>19, M_Within

LEMMA M_Drain ==
    ASSUME M_Inv, NEW t \in B!Clients, B!Drain(t)
    PROVE  M_Inv'
<1> DEFINE u == B!Other(t)
           b == buffer[t]
           x == Head(b)[1]
           v == Head(b)[2]
<1>1. M_TypeOK /\ u \in B!Clients /\ u # t
  BY M_Pair DEF M_Inv
<1>2. /\ b # <<>> /\ mem' = [mem EXCEPT ![x] = v] /\ buffer' = [buffer EXCEPT ![t] = Tail(b)]
      /\ UNCHANGED <<bank, b_pc, job, b_reg, overlap>>
  BY DEF B!Drain
<1>3. b \in Seq(B!Words \X Int) /\ mem \in [B!Words -> Int]
  BY <1>1 DEF M_TypeOK
<1>4. Head(b) \in B!Words \X Int /\ Tail(b) \in Seq(B!Words \X Int)
  BY <1>2, <1>3, HeadTailProperties
<1>5. x \in B!Words /\ v \in Int
  BY <1>4
<1>6. /\ mem' \in [B!Words -> Int] /\ \A w \in B!Words : w # x => mem'[w] = mem[w]
      /\ buffer' \in [B!Clients -> Seq(B!Words \X Int)] /\ buffer'[t] = Tail(b) /\ buffer'[u] = buffer[u]
  BY <1>1, <1>2, <1>4, <1>5 DEF M_TypeOK
<1>7. M_TypeOK'
  BY <1>1, <1>2, <1>6 DEF M_TypeOK
<1>8. /\ \A w \in Accounts : Latest(buffer'[t], mem', w) = Latest(buffer[t], mem, w)
      /\ KeepsMoney(buffer'[t]) => KeepsMoney(buffer[t])
      /\ KeepsMoney(buffer[t]) => KeepsMoney(buffer'[t]) \/ x \in Accounts
  <2>1. /\ \A w \in B!Words : Latest(Tail(b), [mem EXCEPT ![Head(b)[1]] = Head(b)[2]], w) = Latest(b, mem, w)
        /\ KeepsMoney(Tail(b)) => KeepsMoney(b)
        /\ KeepsMoney(b) => KeepsMoney(Tail(b)) \/ Head(b)[1] \in Accounts
    BY <1>2, <1>3, <1>5, LatestDrain
  <2> QED BY <1>2, <1>6, <2>1, AccountsFinite
<1>9. x \in Accounts => KeepsMoney(buffer[t])
  <2>1. 1 \in 1 .. Len(b) /\ Head(b) = b[1]
    BY <1>2, <1>3, HeadTailProperties
  <2> QED BY <2>1 DEF KeepsMoney
<1> HIDE DEF b, x, v
<1>10. SUFFICES ASSUME ~overlap' PROVE ~(Deep(t)' /\ Deep(u)') /\ M_Sees(t, u)' /\ M_Sees(u, t)'
  BY <1>7, M_Pair
<1>11. ~(Deep(t) /\ Deep(u)) /\ M_Sees(t, u) /\ M_Sees(u, t)
  BY <1>2, <1>10, M_Pair
<1> HIDE DEF u
<1>12. /\ Deep(t)' => Deep(t)
       /\ Deep(u)' <=> Deep(u)
  BY <1>2, <1>6, <1>8 DEF Deep
<1>13. \A c, w : B!Seen(c, w)' = Latest(buffer'[c], mem', w)
  BY DEF B!Seen, Latest, Entries
<1>14. \A w \in Accounts : B!Seen(t, w)' = B!Seen(t, w)
  BY <1>8, <1>13, SeenIsLatest
<1>15. View(t)' = View(t) /\ InHand(t)' = InHand(t) /\ InHand(u)' = InHand(u)
  BY <1>2, <1>14 DEF View, InHand
<1>16. M_Sees(t, u)'
  <2>1. b_pc[t] \in {"store src", "store dst"} => job[t].src \in Accounts /\ job[t].dst \in Accounts
    BY <1>1 DEF M_TypeOK
  <2> QED BY <1>2, <1>11, <1>12, <1>14, <1>15, <2>1 DEF M_Sees, Money
<1>17. ASSUME ~Deep(t)' PROVE M_Sees(u, t)'
  <2>1. CASE x \in Accounts
    <3>1. ~KeepsMoney(buffer'[t]) /\ b_pc[t] \notin Past /\ InHand(t) = 0
      BY <1>2, <1>17 DEF Deep, InHand, Past
    <3>2. ~Deep(u)
      BY <1>9, <1>11, <2>1 DEF Deep
    <3>3. ~KeepsMoney(buffer'[u]) /\ b_pc[u] \notin Past /\ InHand(u) = 0
      BY <1>6, <3>2 DEF Deep, InHand, Past
    <3>4. \A w \in Accounts : B!Seen(u, w)' = mem'[w] /\ B!Seen(t, w)' = mem'[w]
      BY <1>13, <3>1, <3>3, SeesMemory
    <3>5. View(u)' = View(t)
      BY <1>14, <3>4 DEF View
    <3>6. SumFunctionOnSet(View(t), Accounts) + InHand(t) = Money
      BY <1>11, <3>2 DEF M_Sees
    <3> QED BY <1>2, <1>15, <3>1, <3>3, <3>5, <3>6 DEF M_Sees, Past, Money
  <2>2. CASE x \notin Accounts
    <3>1. ~Deep(t)
      BY <1>2, <1>8, <1>17, <2>2 DEF Deep
    <3>2. \A w \in Accounts : mem'[w] = mem[w]
      BY <1>6, <2>2, AccountsFinite
    <3>3. \A w \in Accounts : B!Seen(u, w)' = B!Seen(u, w)
      BY <1>6, <1>13, <3>2, SeenIsLatest DEF Latest
    <3>4. View(u)' = View(u)
      BY <3>3 DEF View
    <3>5. b_pc[u] \in {"store src", "store dst"} => job[u].src \in Accounts /\ job[u].dst \in Accounts
      BY <1>1 DEF M_TypeOK
    <3> QED BY <1>2, <1>11, <1>15, <3>1, <3>3, <3>4, <3>5 DEF M_Sees, Money
  <2> QED BY <2>1, <2>2
<1>18. M_Sees(u, t)'
  BY <1>17 DEF M_Sees
<1> QED BY <1>11, <1>12, <1>16, <1>18

LEMMA M_InvStep == M_Inv /\ [B!Next]_(B!vars) => M_Inv'
<1> SUFFICES ASSUME M_Inv, [B!Next]_(B!vars) PROVE M_Inv'
  OBVIOUS
<1>1. CASE UNCHANGED B!vars
  <2>1. UNCHANGED <<bank, mem, buffer, b_pc, job, b_reg, overlap>>
    BY <1>1 DEF B!vars
  <2>2. \A c, w : B!Seen(c, w)' = B!Seen(c, w)
    BY <2>1 DEF B!Seen
  <2> QED BY <2>1, <2>2 DEF M_Inv, M_TypeOK, M_Sees, Deep, View, InHand, Money
<1>2. CASE \E t \in B!Clients : B!ThreadStep(t) \/ B!Drain(t)
  BY <1>2, M_Outside, M_TestLoad, M_Store, M_Drain DEF B!ThreadStep
<1> QED BY <1>1, <1>2 DEF B!Next

\* BankTransfer's sum is that of SumLemmas.
LEMMA BankSum == B!total_balance = SumFunctionOnSet(mem, Accounts)
BY Zenon DEF B!total_balance, B!SumFunctionOnSet, B!FoldFunctionOnSet, B!MapThenFoldSet,
             SumFunctionOnSet, FoldFunctionOnSet, MapThenFoldSet

\* Only summands count.
LEMMA MemoryIsView ==
    ASSUME M_TypeOK, NEW t \in B!Clients, ~KeepsMoney(buffer[t])
    PROVE  \A w \in Accounts : View(t)[w] = mem[w]
BY SeenIsLatest, SeesMemory DEF View

\* The threads never overlap under the spin lock or under Peterson's algorithm over
\* atomic ints, and without an overlap no money is lost or made once the buffers are
\* empty, in any of the four programs (peterson_atomic.c:17-26, atomic_swap.c:24-39,
\* race.c:14-21, 73-74), for any accounts, amounts and number of turns.
THEOREM MoneyKept == B!Spec => []TotalKept
<1>1. ASSUME M_Inv PROVE B!AllDone /\ ~overlap => B!total_balance = INITIAL_BALANCE * Cardinality(Accounts)
  <2> SUFFICES ASSUME B!AllDone, ~overlap PROVE SumFunctionOnSet(mem, Accounts) = Money
    BY BankSum DEF Money
  <2>1. \A t \in B!Clients : b_pc[t] = "done" /\ ~KeepsMoney(buffer[t])
    <3>1. \A t \in B!Clients : b_pc[t] = "done" /\ buffer[t] = <<>>
      BY DEF B!AllDone
    <3>2. \A t \in B!Clients : 1 .. Len(buffer[t]) = {}
      BY <3>1
    <3> QED BY <3>1, <3>2 DEF KeepsMoney
  <2>2. ~Deep(1) /\ InHand(0) = 0
    BY <2>1, TwoClients DEF Deep, Past, InHand
  <2>3. SumFunctionOnSet(View(0), Accounts) + 0 = Money
    BY <1>1, <2>2 DEF M_Inv, M_Sees
  <2>4. \A w \in Accounts : View(0)[w] = mem[w] /\ View(0)[w] \in Int /\ mem[w] \in Int
    BY <1>1, <2>1, TwoClients, MemoryIsView, ViewType DEF M_Inv
  <2>5. SumFunctionOnSet(View(0), Accounts) = SumFunctionOnSet(mem, Accounts)
    BY <2>4, AccountsFinite, SumSame
  <2>6. SumFunctionOnSet(mem, Accounts) \in Int
    BY <2>4, AccountsFinite, SumType
  <2> QED BY <2>3, <2>5, <2>6
<1>2. B_Inv /\ M_Inv => TotalKept
  <2>1. B!Cardinality(Accounts) = Cardinality(Accounts)
    BY DEF B!Cardinality, Cardinality
  <2> QED BY <1>1, <2>1 DEF B_Inv, B_Exclusion, TotalKept, B!TotalKept, B!NeverTogether
<1> QED BY <1>2, B_InvInit, B_InvStep, M_InvInit, M_InvStep, PTL DEF B!Spec

-----------------------------------------------------------------------------
(* Dining philosophers *)

LeftHeld(p)  == p_pc[p] \in {"right", "eat", "put left"}
RightHeld(p) == p_pc[p] = "eat"

P_TypeOK ==
    /\ chopsticks \in [P!Seats -> {0, 1}]
    /\ p_pc \in [P!Seats -> {"left", "right", "eat", "put left", "done"}]
    /\ meals \in [P!Seats -> Nat]

\* A chopstick is on the table or in the hand of one of its two neighbours.
OneHand ==
    \A p, q \in P!Seats : p = P!right(q) =>
        /\ chopsticks[p] = 0 <=> LeftHeld(p) \/ RightHeld(q)
        /\ ~(LeftHeld(p) /\ RightHeld(q))

P_Inv == P_TypeOK /\ OneHand

LEMMA SeatsInt == N \in Nat /\ N > 1 /\ P!Seats = 0 .. N - 1
BY ProgramsAssumption DEF P!PhilosophersConstants, P!Seats

\* The seats are a circle.
LEMMA RightOf == ASSUME NEW p \in P!Seats
                 PROVE  P!right(p) = IF p = N - 1 THEN 0 ELSE p + 1
BY SeatsInt DEF P!right

LEMMA RightIsASeat ==
    /\ \A p \in P!Seats : P!right(p) \in P!Seats /\ P!right(p) # p
    /\ \A p, q \in P!Seats : P!right(p) = P!right(q) => p = q
    /\ \A p \in P!Seats : \E q \in P!Seats : p = P!right(q)
<1>1. \A p \in P!Seats : P!right(p) \in P!Seats /\ P!right(p) # p
  BY RightOf, SeatsInt
<1>2. \A p, q \in P!Seats : P!right(p) = P!right(q) => p = q
  BY RightOf, SeatsInt
<1>3. ASSUME NEW p \in P!Seats PROVE \E q \in P!Seats : p = P!right(q)
  <2>1. CASE p = 0
    <3>1. N - 1 \in P!Seats /\ p = P!right(N - 1)
      BY <2>1, RightOf, SeatsInt
    <3> QED BY <3>1
  <2>2. CASE p # 0
    <3>1. p - 1 \in P!Seats /\ p = P!right(p - 1)
      BY <2>2, RightOf, SeatsInt
    <3> QED BY <3>1
  <2> QED BY <2>1, <2>2
<1> QED BY <1>1, <1>2, <1>3

LEMMA P_InvInit == P!Init => P_Inv
BY DEF P!Init, P_Inv, P_TypeOK, OneHand, LeftHeld, RightHeld

LEMMA P_InvStep == P_Inv /\ [P!Next]_(P!vars) => P_Inv'
<1> SUFFICES ASSUME P_Inv, [P!Next]_(P!vars) PROVE P_Inv'
  OBVIOUS
<1>1. ASSUME NEW p \in P!Seats, P!Step(p) PROVE P_Inv'
  <2> DEFINE r == P!right(p)
  <2>1. /\ chopsticks[p] \in {0, 1} /\ chopsticks[r] \in {0, 1} /\ meals[p] \in Nat
        /\ r \in P!Seats /\ r # p
    BY RightIsASeat DEF P_Inv, P_TypeOK
  <2>2. OneHand /\ P_TypeOK
    BY DEF P_Inv
  <2> HIDE DEF r
  <2>3. CASE P!Take(p) /\ p_pc[p] = "left"
    <3>1. chopsticks[p] # 0 /\ p_pc[p] = "left"
      BY <2>1, <2>3 DEF P!Take, P!left
    <3>2. /\ chopsticks' = [chopsticks EXCEPT ![p] = 0]
          /\ p_pc' = [p_pc EXCEPT ![p] = "right"]
          /\ meals' = meals
      BY <2>1, <2>3, <3>1 DEF P!Take, P!Goto, P!left
    <3>3. P_TypeOK'
      BY <2>1, <2>2, <3>2 DEF P_TypeOK
    <3>4. ASSUME NEW x \in P!Seats, NEW y \in P!Seats, x = P!right(y)
          PROVE  /\ chopsticks'[x] = 0 <=> LeftHeld(x)' \/ RightHeld(y)'
                 /\ ~(LeftHeld(x)' /\ RightHeld(y)')
      <4>1. x # y /\ (y = p <=> x = r)
        BY <3>4, RightIsASeat DEF r
      <4>2. /\ chopsticks[x] = 0 <=> LeftHeld(x) \/ RightHeld(y)
            /\ ~(LeftHeld(x) /\ RightHeld(y))
        BY <2>2, <3>4 DEF OneHand
      <4>3. /\ x # p => chopsticks'[x] = chopsticks[x]
            /\ x = p => chopsticks'[x] = 0
            /\ p_pc'[p] = "right" /\ (x # p => p_pc'[x] = p_pc[x]) /\ (y # p => p_pc'[y] = p_pc[y])
        BY <2>1, <2>2, <3>2 DEF P_TypeOK
      <4> QED BY <2>1, <3>1, <4>1, <4>2, <4>3 DEF LeftHeld, RightHeld
    <3>5. OneHand'
      BY <3>4 DEF OneHand
    <3> QED BY <3>3, <3>5 DEF P_Inv
  <2>4. CASE P!Take(p) /\ p_pc[p] = "right"
    <3>1. chopsticks[r] # 0 /\ p_pc[p] = "right"
      BY <2>1, <2>4 DEF P!Take, r
    <3>2. /\ chopsticks' = [chopsticks EXCEPT ![r] = 0]
          /\ p_pc' = [p_pc EXCEPT ![p] = "eat"]
          /\ meals' = meals
      BY <2>1, <2>4, <3>1 DEF P!Take, P!Goto, r
    <3>3. P_TypeOK'
      BY <2>1, <2>2, <3>2 DEF P_TypeOK
    <3>4. ASSUME NEW x \in P!Seats, NEW y \in P!Seats, x = P!right(y)
          PROVE  /\ chopsticks'[x] = 0 <=> LeftHeld(x)' \/ RightHeld(y)'
                 /\ ~(LeftHeld(x)' /\ RightHeld(y)')
      <4>1. x # y /\ (y = p <=> x = r)
        BY <3>4, RightIsASeat DEF r
      <4>2. /\ chopsticks[x] = 0 <=> LeftHeld(x) \/ RightHeld(y)
            /\ ~(LeftHeld(x) /\ RightHeld(y))
        BY <2>2, <3>4 DEF OneHand
      <4>3. /\ x # r => chopsticks'[x] = chopsticks[x]
            /\ x = r => chopsticks'[x] = 0
            /\ p_pc'[p] = "eat" /\ (x # p => p_pc'[x] = p_pc[x]) /\ (y # p => p_pc'[y] = p_pc[y])
        BY <2>1, <2>2, <3>2 DEF P_TypeOK
      <4> QED BY <2>1, <3>1, <4>1, <4>2, <4>3 DEF LeftHeld, RightHeld
    <3>5. OneHand'
      BY <3>4 DEF OneHand
    <3> QED BY <3>3, <3>5 DEF P_Inv
  <2>5. CASE P!PutRight(p)
    <3>1. chopsticks[r] = 0 /\ p_pc[p] = "eat"
      BY <2>1, <2>2, <2>5 DEF P!PutRight, OneHand, RightHeld, r
    <3>2. chopsticks[r] + 1 = 1 /\ 1 # 0
      BY <3>1
    <3>3. /\ chopsticks' = [chopsticks EXCEPT ![r] = 1]
          /\ p_pc' = [p_pc EXCEPT ![p] = "put left"]
          /\ meals' = meals
      BY <2>1, <2>5, <3>2 DEF P!PutRight, P!Goto, r
    <3>4. P_TypeOK'
      BY <2>1, <2>2, <3>3 DEF P_TypeOK
    <3>5. ASSUME NEW x \in P!Seats, NEW y \in P!Seats, x = P!right(y)
          PROVE  /\ chopsticks'[x] = 0 <=> LeftHeld(x)' \/ RightHeld(y)'
                 /\ ~(LeftHeld(x)' /\ RightHeld(y)')
      <4>1. x # y /\ (y = p <=> x = r)
        BY <3>5, RightIsASeat DEF r
      <4>2. /\ chopsticks[x] = 0 <=> LeftHeld(x) \/ RightHeld(y)
            /\ ~(LeftHeld(x) /\ RightHeld(y))
        BY <2>2, <3>5 DEF OneHand
      <4>3. /\ x # r => chopsticks'[x] = chopsticks[x]
            /\ x = r => chopsticks'[x] # 0
            /\ p_pc'[p] = "put left" /\ (x # p => p_pc'[x] = p_pc[x]) /\ (y # p => p_pc'[y] = p_pc[y])
        BY <2>1, <2>2, <3>2, <3>3 DEF P_TypeOK
      <4> QED BY <2>1, <3>1, <4>1, <4>2, <4>3 DEF LeftHeld, RightHeld
    <3>6. OneHand'
      BY <3>5 DEF OneHand
    <3> QED BY <3>4, <3>6 DEF P_Inv
  <2>6. CASE P!PutLeft(p)
    <3> DEFINE l == IF meals[p] + 1 < MEALS THEN "left" ELSE "done"
    <3>1. chopsticks[p] = 0 /\ p_pc[p] = "put left"
      BY <2>1, <2>2, <2>6, RightIsASeat DEF P!PutLeft, OneHand, LeftHeld
    <3>2. chopsticks[p] + 1 = 1 /\ 1 # 0
      <4>1. chopsticks[p] = 0
        BY <3>1
      <4> QED BY <4>1
    <3>3. /\ chopsticks' = [chopsticks EXCEPT ![p] = 1]
          /\ p_pc' = [p_pc EXCEPT ![p] = l]
          /\ meals' = [meals EXCEPT ![p] = @ + 1]
      BY <2>1, <2>6, <3>2 DEF P!PutLeft, P!Goto, P!left
    <3>4. l \in {"left", "done"}
      OBVIOUS
    <3> HIDE DEF l
    <3>5. P_TypeOK'
      <4>1. meals \in [P!Seats -> Nat]
        BY <2>2 DEF P_TypeOK
      <4>2. meals' \in [P!Seats -> Nat]
        BY <3>3, <4>1
      <4>3. chopsticks' \in [P!Seats -> {0, 1}]
        BY <2>2, <3>3 DEF P_TypeOK
      <4> QED BY <2>2, <3>3, <3>4, <4>2, <4>3 DEF P_TypeOK
    <3>6. ASSUME NEW x \in P!Seats, NEW y \in P!Seats, x = P!right(y)
          PROVE  /\ chopsticks'[x] = 0 <=> LeftHeld(x)' \/ RightHeld(y)'
                 /\ ~(LeftHeld(x)' /\ RightHeld(y)')
      <4>1. x # y /\ (y = p <=> x = r)
        BY <3>6, RightIsASeat DEF r
      <4>2. /\ chopsticks[x] = 0 <=> LeftHeld(x) \/ RightHeld(y)
            /\ ~(LeftHeld(x) /\ RightHeld(y))
        BY <2>2, <3>6 DEF OneHand
      <4>3. /\ x # p => chopsticks'[x] = chopsticks[x]
            /\ x = p => chopsticks'[x] # 0
            /\ p_pc'[p] = l /\ (x # p => p_pc'[x] = p_pc[x]) /\ (y # p => p_pc'[y] = p_pc[y])
        BY <2>1, <2>2, <3>2, <3>3 DEF P_TypeOK
      <4> QED BY <2>1, <3>1, <3>4, <4>1, <4>2, <4>3 DEF LeftHeld, RightHeld
    <3>7. OneHand'
      BY <3>6 DEF OneHand
    <3> QED BY <3>5, <3>7 DEF P_Inv
  <2>7. P!Take(p) => p_pc[p] \in {"left", "right"}
    BY DEF P!Take
  <2> QED BY <1>1, <2>3, <2>4, <2>5, <2>6, <2>7 DEF P!Step
<1>2. CASE UNCHANGED P!vars
  BY <1>2 DEF P!vars, P_Inv, P_TypeOK, OneHand, LeftHeld, RightHeld
<1> QED BY <1>1, <1>2 DEF P!Next

\* A set of seats that goes round the table holds all of them.
LEMMA RoundTheTable ==
    ASSUME NEW S \in SUBSET P!Seats, S # {}, \A p \in S : P!right(p) \in S
    PROVE  S = P!Seats
<1> USE SeatsInt
<1>1. N - 1 \in Nat /\ S \in SUBSET (0 .. N - 1)
  OBVIOUS
<1>2. PICK m \in S : \A y \in S : m >= y
  BY <1>1, HasMax
<1>3. m = N - 1
  <2>1. m # N - 1 => m + 1 \in S
    BY <1>1, <1>2, RightOf
  <2> QED BY <1>1, <1>2, <2>1
<1>4. 0 \in S
  BY <1>2, <1>3, RightOf
<1>5. ASSUME P!Seats \ S # {} PROVE FALSE
  <2>1. P!Seats \ S \in SUBSET Nat
    OBVIOUS
  <2>2. PICK x \in P!Seats \ S : \A y \in P!Seats \ S : x <= y
    BY <1>5, <2>1, HasMin
  <2>3. x - 1 \in P!Seats /\ x - 1 \in S
    BY <1>4, <2>2
  <2>4. P!right(x - 1) = x
    BY <2>2, <2>3, RightOf
  <2> QED BY <2>2, <2>3, <2>4
<1> QED BY <1>5

\* Neighbours never eat together, and only the circle of all philosophers hangs
\* the program (dining_philosophers.c:20-35), at a table of any size.
THEOREM PhilosophersBlock == P!Spec => []OnlyTheCircleBlocks
<1>1. P_Inv => OnlyTheCircleBlocks
  <2> SUFFICES ASSUME P_Inv PROVE P!OnlyTheCircleBlocks
    BY DEF OnlyTheCircleBlocks
  <2>1. \A p, q \in P!Seats : p_pc[p] = "eat" /\ p_pc[q] = "eat" => q # P!right(p)
    BY DEF P_Inv, OneHand, LeftHeld, RightHeld
  <2>2. ASSUME \A p \in P!Seats : P!Blocked(p) PROVE P!AllDone \/ P!Circle
    <3> DEFINE R == {p \in P!Seats : p_pc[p] = "right"}
    <3>1. \A p \in P!Seats : p_pc[p] \in {"left", "right", "done"}
      BY <2>2 DEF P!Blocked
    <3>2. \A p \in P!Seats : chopsticks[p] = 0 <=> p_pc[p] = "right"
      BY <3>1, RightIsASeat, ZenonT(40) DEF P_Inv, OneHand, LeftHeld, RightHeld
    <3>3. \A p \in P!Seats : p_pc[p] \in {"right", "done"}
      BY <2>2, <3>1, <3>2 DEF P!Blocked, P!left
    <3>4. \A p \in R : P!right(p) \in R
      BY <2>2, <3>2, RightIsASeat DEF P!Blocked
    <3>5. CASE R = {}
      BY <3>3, <3>5 DEF P!AllDone
    <3>6. CASE R # {}
      <4>1. R = P!Seats
        BY <3>4, <3>6, RoundTheTable
      <4> QED BY <3>2, <4>1 DEF P!Circle
    <3> QED BY <3>5, <3>6
  <2> QED BY <2>1, <2>2 DEF P!OnlyTheCircleBlocks
<1> QED BY <1>1, P_InvInit, P_InvStep, PTL DEF P!Spec
==============================================================================
