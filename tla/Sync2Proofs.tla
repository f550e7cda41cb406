----------------------------- MODULE Sync2Proofs ------------------------------
(***************************************************************************)
(* The programs of the synchronisation patterns lecture, for any          *)
(* number of readers, writers, sensors, workers, records, producers,       *)
(* consumers and slots.                                                    *)
(***************************************************************************)
EXTENDS MCSync2, FiniteSetTheorems, SequenceTheorems, TLAPS

-----------------------------------------------------------------------------
(* bounded_buffer_cv.c: the ring under condition variables *)

\* The slot k places after o.
Pos(o, k) == IF o + k < BUFFER_SIZE THEN o + k ELSE o + k - BUFFER_SIZE

\* The mutex word and the program counters agree.
OwnerInv == \A p \in Procs : mtx = p <=> pc[p] \in {"test", "move", "signal", "unlock"}

\* What the loop condition established still holds when the slot is touched.
MoveInv == \A p \in Procs : pc[p] = "move" => ~MustWait(p)

\* The ring holds what is produced and not consumed, oldest first, from out.
RingInv ==
    /\ Len(produced) = Len(consumed) + size
    /\ in = IF size = BUFFER_SIZE THEN out ELSE Pos(out, size)
    /\ \A k \in 0 .. size - 1 : items[Pos(out, k)] = produced[Len(consumed) + 1 + k]

TurnInv == \A p \in Procs : pc[p] # "done" => i[p] < ITERATIONS

IInv == TypeOK /\ OwnerInv /\ MoveInv /\ TurnInv /\ RingInv

-----------------------------------------------------------------------------
\* Advancing an index by one wraps exactly at the end of the ring.
LEMMA Advance == ASSUME NEW x \in Slots
                 PROVE  /\ (x + 1) % BUFFER_SIZE = Pos(x, 1)
                        /\ Pos(x, 1) \in Slots
BY CVAssumption DEF Slots, Pos

LEMMA IInvInit == Init => IInv
BY CVAssumption, NoneAssumption DEF Init, IInv, TypeOK, OwnerInv, MoveInv, TurnInv, RingInv, Items,
     Slots, PCs, Procs, P, C, Pos, MustWait

\* Steps that only synchronise leave the ring as it is.
LEMMA SyncStep ==
  ASSUME IInv, NEW p \in Procs,
         Lock(p) \/ Test(p) \/ Signal(p) \/ Unlock(p) \/ SpuriousWakeup(p)
  PROVE  IInv'
<1> USE CVAssumption, NoneAssumption DEF IInv, TypeOK, PCs, Goto, Procs, P, C
<1>1. UNCHANGED <<ringVars, logVars>>
  BY DEF Lock, Test, Signal, Unlock, SpuriousWakeup
<1>2. RingInv'
  BY <1>1 DEF RingInv, Pos, ringVars, logVars
<1>3. TypeOK' /\ TurnInv'
  <2>1. CASE Lock(p)
    BY <1>1, <2>1 DEF Lock, TurnInv, ringVars, logVars
  <2>2. CASE Test(p)
    BY <1>1, <2>2 DEF Test, TurnInv, ringVars, logVars
  <2>3. CASE Signal(p)
    BY <1>1, <2>3 DEF Signal, Other, TurnInv, ringVars, logVars
  <2>4. CASE Unlock(p)
    BY <1>1, <2>4 DEF Unlock, TurnInv, ringVars, logVars
  <2>5. CASE SpuriousWakeup(p)
    BY <1>1, <2>5 DEF SpuriousWakeup, TurnInv, ringVars, logVars
  <2> QED BY <2>1, <2>2, <2>3, <2>4, <2>5
<1>4. OwnerInv'
  BY DEF Lock, Test, Signal, Unlock, SpuriousWakeup, Other, OwnerInv
<1>5. MoveInv'
  BY <1>1 DEF Lock, Test, Signal, Unlock, SpuriousWakeup, Other, MoveInv, MustWait, ringVars
<1> QED BY <1>2, <1>3, <1>4, <1>5

\* Writing the slot at in appends to the queue.
LEMMA ProduceStep == ASSUME IInv, NEW p \in Procs, Produce(p) PROVE IInv'
<1> USE CVAssumption DEF IInv, TypeOK
<1>1. /\ p = P /\ pc[P] = "move" /\ size < BUFFER_SIZE /\ mtx = P /\ i[P] \in Items
      /\ items' = [items EXCEPT ![in] = i[P]]
      /\ in' = Pos(in, 1) /\ size' = size + 1 /\ out' = out
      /\ produced' = Append(produced, i[P]) /\ consumed' = consumed
      /\ pc' = [pc EXCEPT ![P] = "signal"]
      /\ UNCHANGED <<mtx, i, spurious>>
  BY Advance DEF Produce, Goto, MoveInv, MustWait, OwnerInv, TurnInv, Items, Procs, P
<1>2. TypeOK'
  <2>1. in \in Slots /\ Pos(in, 1) \in Slots
    BY Advance
  <2>2. items' \in [Slots -> Items] /\ in' \in Slots /\ out' \in Slots
    BY <1>1, <2>1
  <2>3. size' \in 0 .. BUFFER_SIZE
    BY <1>1
  <2>4. produced' \in Seq(Items) /\ consumed' \in Seq(Items)
    BY <1>1
  <2>5. pc' \in [Procs -> PCs]
    BY <1>1 DEF PCs
  <2> QED BY <1>1, <2>2, <2>3, <2>4, <2>5
<1>3. OwnerInv' /\ TurnInv'
  BY <1>1 DEF OwnerInv, TurnInv, Procs, P, C
<1>4. MoveInv'
  BY <1>1 DEF MoveInv, OwnerInv, Procs, P, C
<1>5. Len(produced') = Len(produced) + 1 /\ produced'[Len(produced) + 1] = i[P]
      /\ \A k \in 1 .. Len(produced) : produced'[k] = produced[k]
  BY <1>1
<1>6. in' = IF size' = BUFFER_SIZE THEN out' ELSE Pos(out', size')
  BY <1>1 DEF RingInv, Pos, Slots
<1>7. ASSUME NEW k \in 0 .. size' - 1
      PROVE  items'[Pos(out', k)] = produced'[Len(consumed') + 1 + k]
  <2>1. CASE k = size
    <3>1. Pos(out, k) = in /\ Len(consumed) + 1 + k = Len(produced) + 1
      BY <1>1, <2>1 DEF RingInv
    <3> QED BY <1>1, <1>5, <3>1
  <2>2. CASE k # size
    <3>1. k \in 0 .. size - 1 /\ Pos(out, k) # in /\ Pos(out, k) \in Slots
      BY <1>1, <2>2 DEF RingInv, Pos, Slots
    <3>2. Len(consumed) + 1 + k \in 1 .. Len(produced)
      BY <3>1 DEF RingInv
    <3>3. items[Pos(out, k)] = produced[Len(consumed) + 1 + k]
      BY <3>1 DEF RingInv
    <3> QED BY <1>1, <1>5, <3>1, <3>2, <3>3
  <2> QED BY <2>1, <2>2
<1>8. RingInv'
  BY <1>1, <1>5, <1>6, <1>7 DEF RingInv
<1> QED BY <1>2, <1>3, <1>4, <1>8

\* Reading the slot at out takes the oldest item.
LEMMA ConsumeStep ==
  ASSUME IInv, NEW p \in Procs, Consume(p)
  PROVE  /\ IInv'
         /\ Len(consumed) < Len(produced)
         /\ consumed' = Append(consumed, produced[Len(consumed) + 1])
<1> USE CVAssumption DEF IInv, TypeOK
<1>1. /\ p = C /\ pc[C] = "move" /\ size > 0 /\ mtx = C
      /\ items' = items /\ in' = in /\ size' = size - 1 /\ out' = Pos(out, 1)
      /\ consumed' = Append(consumed, items[out]) /\ produced' = produced
      /\ pc' = [pc EXCEPT ![C] = "signal"]
      /\ UNCHANGED <<mtx, i, spurious>>
  BY Advance DEF Consume, Goto, MoveInv, MustWait, OwnerInv, Procs, P, C
<1>2. TypeOK'
  <2>1. out \in Slots /\ Pos(out, 1) \in Slots /\ items[out] \in Items
    BY Advance
  <2>2. items' \in [Slots -> Items] /\ in' \in Slots /\ out' \in Slots
    BY <1>1, <2>1
  <2>3. size' \in 0 .. BUFFER_SIZE
    BY <1>1
  <2>4. produced' \in Seq(Items) /\ consumed' \in Seq(Items)
    BY <1>1, <2>1
  <2>5. pc' \in [Procs -> PCs]
    BY <1>1 DEF PCs
  <2> QED BY <1>1, <2>2, <2>3, <2>4, <2>5
<1>3. OwnerInv' /\ TurnInv'
  BY <1>1 DEF OwnerInv, TurnInv, Procs, P, C
<1>4. MoveInv'
  BY <1>1 DEF MoveInv, OwnerInv, Procs, P, C
<1>5. Len(consumed') = Len(consumed) + 1
  BY <1>1
<1>6. in' = IF size' = BUFFER_SIZE THEN out' ELSE Pos(out', size')
  BY <1>1 DEF RingInv, Pos, Slots
<1>7. ASSUME NEW k \in 0 .. size' - 1
      PROVE  items'[Pos(out', k)] = produced'[Len(consumed') + 1 + k]
  <2>1. k + 1 \in 0 .. size - 1 /\ Pos(out', k) = Pos(out, k + 1)
    BY <1>1 DEF Pos, Slots
  <2>2. items[Pos(out, k + 1)] = produced[Len(consumed) + 1 + (k + 1)]
    BY <2>1 DEF RingInv
  <2> QED BY <1>1, <1>5, <2>1, <2>2
<1>8. RingInv'
  <2>1. Len(produced) \in Nat /\ Len(consumed) \in Nat /\ size \in Nat
    OBVIOUS
  <2>2. Len(produced) = Len(consumed) + size
    BY DEF RingInv
  <2>3. Len(produced') = Len(produced) /\ Len(consumed') = Len(consumed) + 1 /\ size' = size - 1
    BY <1>1, <1>5
  <2>4. Len(produced') = Len(consumed') + size'
    BY <2>1, <2>2, <2>3
  <2> QED BY <1>6, <1>7, <2>4 DEF RingInv
<1>9. Len(consumed) < Len(produced) /\ items[out] = produced[Len(consumed) + 1]
  <2>1. 0 \in 0 .. size - 1 /\ Pos(out, 0) = out
    BY <1>1 DEF Pos, Slots
  <2>2. items[Pos(out, 0)] = produced[Len(consumed) + 1 + 0]
    BY <2>1 DEF RingInv
  <2> QED BY <1>1, <2>1, <2>2 DEF RingInv
<1> QED BY <1>1, <1>2, <1>3, <1>4, <1>8, <1>9

LEMMA IInvStep == IInv /\ [Next]_vars => IInv'
<1> SUFFICES ASSUME IInv, [Next]_vars PROVE IInv'
  OBVIOUS
<1>1. CASE Next
  BY <1>1, SyncStep, ProduceStep, ConsumeStep DEF Next, Step
<1>2. CASE UNCHANGED vars
  BY <1>2 DEF vars, ringVars, logVars, IInv, TypeOK, OwnerInv, MoveInv, TurnInv, RingInv,
       MustWait, Pos
<1> QED BY <1>1, <1>2

\* Every variable keeps its type: no index leaves the ring and size stays
\* within it (bounded_buffer_cv.c:37-40, 54-56).
THEOREM TypeCorrect == Spec => []TypeOK
<1>1. IInv => TypeOK
  BY DEF IInv
<1> QED BY <1>1, IInvInit, IInvStep, PTL DEF Spec

-----------------------------------------------------------------------------
\* A process in pthread_cond_wait() waits for something missing, or is about
\* to be signalled: no signal is lost (bounded_buffer_cv.c:33-44, 50-61).
THEOREM NoLostSignal == Spec => []WaitJustified
<1> USE DEF Procs, P, C
<1>1. Init => WaitJustified
  BY DEF Init, WaitJustified
<1>2. TypeOK /\ WaitJustified /\ [Next]_vars => WaitJustified'
  <2> SUFFICES ASSUME TypeOK, WaitJustified, [Next]_vars PROVE WaitJustified'
    OBVIOUS
  <2> USE DEF TypeOK, PCs, Goto, WaitJustified, MustWait, Other
  <2>1. ASSUME NEW p \in Procs, Lock(p) \/ Test(p) \/ SpuriousWakeup(p) PROVE WaitJustified'
    BY <2>1 DEF Lock, Test, SpuriousWakeup, ringVars
  <2>2. ASSUME NEW p \in Procs, Signal(p) \/ Unlock(p) PROVE WaitJustified'
    BY <2>2 DEF Signal, Unlock, ringVars
  <2>3. ASSUME NEW p \in Procs, Produce(p) \/ Consume(p) PROVE WaitJustified'
    BY <2>3 DEF Produce, Consume
  <2>4. CASE UNCHANGED vars
    BY <2>4 DEF vars, ringVars
  <2> QED BY <2>1, <2>2, <2>3, <2>4 DEF Next, Step
<1> QED BY <1>1, <1>2, TypeCorrect, PTL DEF Spec

\* The ring, the mutex and the condition variables implement the bounded FIFO
\* queue, for every ring size.
THEOREM QueueRefinement == Spec => ImplementsBoundedQueue
<1>1. Init => BQ!Init
  BY DEF Init, BQ!Init
<1>2. IInv /\ [Next]_vars => [BQ!Next]_<<produced, consumed>>
  <2> SUFFICES ASSUME IInv, [Next]_vars
               PROVE  BQ!Next \/ UNCHANGED <<produced, consumed>>
    OBVIOUS
  <2>1. ASSUME NEW p \in Procs, Produce(p) PROVE BQ!Next
    <3>1. size < BUFFER_SIZE /\ i[P] \in Items /\ p = P
      BY <2>1, CVAssumption DEF Produce, IInv, TypeOK, MoveInv, MustWait, TurnInv, Items, Procs, P
    <3>2. Len(produced) < Len(consumed) + BUFFER_SIZE
      BY <3>1, CVAssumption DEF IInv, TypeOK, RingInv
    <3>3. BQ!Put
      BY <2>1, <3>1, <3>2 DEF Produce, BQ!Put
    <3> QED BY <3>3 DEF BQ!Next
  <2>2. ASSUME NEW p \in Procs, Consume(p) PROVE BQ!Next
    BY <2>2, ConsumeStep DEF Consume, BQ!Next, BQ!Get
  <2>3. ASSUME NEW p \in Procs,
               Lock(p) \/ Test(p) \/ Signal(p) \/ Unlock(p) \/ SpuriousWakeup(p)
        PROVE  UNCHANGED <<produced, consumed>>
    BY <2>3 DEF Lock, Test, Signal, Unlock, SpuriousWakeup, logVars
  <2>4. CASE UNCHANGED vars
    BY <2>4 DEF vars, logVars
  <2> QED BY <2>1, <2>2, <2>3, <2>4 DEF Next, Step
<1> QED BY <1>1, <1>2, IInvInit, IInvStep, PTL DEF Spec, ImplementsBoundedQueue, BQ!Spec

-----------------------------------------------------------------------------
(* Readers and writers *)

RW_TypeOK ==
    /\ readers_count \in Nat /\ writers_count \in Nat
    /\ rw_mtx \in RW!Threads \cup {None}
    /\ rw_pc \in [RW!Threads -> RW!PCs]

InsideR == {r \in Readers : RW!Inside(r)}
InsideW == {w \in Writers : RW!Inside(w)}

\* The counters count the threads inside, and the mutex has one owner.
RW_Counts ==
    /\ readers_count = Cardinality(InsideR) /\ writers_count = Cardinality(InsideW)
    /\ \A t \in RW!Threads : rw_pc[t] \in {"test", "leave"} <=> rw_mtx = t

RW_Inv == RW_TypeOK /\ RW_Counts /\ RW!WriterAlone /\ RW!WakeupsSuffice

LEMMA RWSets ==
    /\ IsFiniteSet(InsideR) /\ IsFiniteSet(InsideW)
    /\ Readers \cap Writers = {} /\ None \notin RW!Threads
    /\ RW!Threads = Readers \cup Writers
<1>1. IsFiniteSet(Readers) /\ IsFiniteSet(Writers)
  BY ProgramsAssumption DEF RW!RWConstants, RW!IsFiniteSet, IsFiniteSet
<1>2. InsideR \in SUBSET Readers /\ InsideW \in SUBSET Writers
  BY DEF InsideR, InsideW
<1>3. IsFiniteSet(InsideR) /\ IsFiniteSet(InsideW)
  BY <1>1, <1>2, FS_Subset
<1> QED BY <1>3, ProgramsAssumption DEF RW!RWConstants, RW!Threads

\* A counter is 0 when nobody of its kind is inside, and 1 when one is alone.
LEMMA CountsOf ==
    ASSUME RW_TypeOK, RW_Counts
    PROVE  /\ readers_count > 0 <=> InsideR # {}
           /\ writers_count > 0 <=> InsideW # {}
           /\ \A t \in InsideR : readers_count = 1 <=> InsideR = {t}
<1>1. /\ readers_count = 0 <=> InsideR = {}
      /\ writers_count = 0 <=> InsideW = {}
  BY RWSets, FS_EmptySet DEF RW_Counts
<1>2. \A t \in InsideR : readers_count = 1 <=> InsideR = {t}
  BY RWSets, FS_Singleton DEF RW_Counts
<1> QED BY <1>1, <1>2 DEF RW_TypeOK

LEMMA RW_InvInit == RW!Init => RW_Inv
<1> SUFFICES ASSUME RW!Init PROVE RW_Inv
  OBVIOUS
<1>1. InsideR = {} /\ InsideW = {}
  BY RWSets DEF RW!Init, InsideR, InsideW, RW!Inside
<1>2. RW_Counts
  BY <1>1, FS_EmptySet, RWSets DEF RW!Init, RW_Counts
<1>3. RW_TypeOK /\ RW!WriterAlone /\ RW!WakeupsSuffice
  BY RWSets DEF RW!Init, RW_TypeOK, RW!PCs, RW!WriterAlone, RW!WakeupsSuffice, RW!Inside
<1> QED BY <1>2, <1>3 DEF RW_Inv

LEMMA RW_InvStep == RW_Inv /\ [RW!Next]_(RW!vars) => RW_Inv'
<1> SUFFICES ASSUME RW_Inv, [RW!Next]_(RW!vars) PROVE RW_Inv'
  OBVIOUS
<1>1. RW_TypeOK /\ RW_Counts /\ RW!WriterAlone /\ RW!WakeupsSuffice
  BY DEF RW_Inv
<1>2. ASSUME NEW t \in RW!Threads, RW!Lock(t) \/ RW!Wait(t) \/ RW!SpuriousWakeup(t) \/ RW!LockToLeave(t)
      PROVE RW_Inv'
  <2>1. /\ RW_TypeOK' /\ readers_count' = readers_count /\ writers_count' = writers_count
        /\ \A u \in RW!Threads : rw_pc'[u] \in {"test", "leave"} <=> rw_mtx' = u
    BY <1>1, <1>2, RWSets
       DEF RW!Lock, RW!Wait, RW!SpuriousWakeup, RW!LockToLeave, RW!Goto, RW_TypeOK, RW_Counts, RW!PCs
  <2>2. \A u \in RW!Threads : RW!Inside(u)' <=> RW!Inside(u)
    BY <1>1, <1>2
       DEF RW!Lock, RW!Wait, RW!SpuriousWakeup, RW!LockToLeave, RW!Goto, RW_TypeOK, RW!Inside
  <2>3. InsideR' = InsideR /\ InsideW' = InsideW
    BY <2>2, RWSets DEF InsideR, InsideW
  <2>4. RW_Counts' /\ RW!WriterAlone'
    BY <1>1, <2>1, <2>2, <2>3, RWSets DEF RW_Counts, RW!WriterAlone
  <2>5. RW!WakeupsSuffice'
    <3>1. CASE RW!Wait(t)
      <4>1. (t \in Writers => InsideR # {} \/ InsideW # {}) /\ (t \in Readers => InsideW # {})
        BY <1>1, <3>1, CountsOf, RWSets DEF RW!Wait, RW!MustWait
      <4> QED BY <1>1, <2>2, <3>1, <4>1, RWSets
              DEF RW!Wait, RW!Goto, RW!WakeupsSuffice, RW_TypeOK, InsideR, InsideW
    <3>2. CASE RW!Lock(t) \/ RW!SpuriousWakeup(t) \/ RW!LockToLeave(t)
      BY <1>1, <2>2, <3>2, RWSets
         DEF RW!Lock, RW!SpuriousWakeup, RW!LockToLeave, RW!Goto, RW!WakeupsSuffice, RW_TypeOK
    <3> QED BY <1>2, <3>1, <3>2
  <2> QED BY <2>1, <2>4, <2>5 DEF RW_Inv
<1>3. ASSUME NEW t \in RW!Threads, RW!Enter(t) PROVE RW_Inv'
  <2>1. rw_mtx = t /\ rw_mtx' = None /\ rw_pc' = [rw_pc EXCEPT ![t] = "inside"] /\ rw_pc[t] = "test"
    BY <1>1, <1>3 DEF RW!Enter, RW!Goto, RW_Counts
  <2>2. \A u \in RW!Threads : RW!Inside(u)' <=> RW!Inside(u) \/ u = t
    BY <1>1, <2>1 DEF RW_TypeOK, RW!Inside
  <2>3. ~RW!Inside(t)
    BY <2>1 DEF RW!Inside
  <2>4. \A u \in RW!Threads : rw_pc'[u] \in {"test", "leave"} <=> rw_mtx' = u
    BY <1>1, <2>1, RWSets DEF RW_TypeOK, RW_Counts
  <2>5. CASE t \in Readers
    <3>1. InsideR' = InsideR \cup {t} /\ InsideW' = InsideW /\ t \notin InsideR
      BY <2>2, <2>3, <2>5, RWSets DEF InsideR, InsideW
    <3>2. readers_count' = readers_count + 1 /\ writers_count' = writers_count /\ InsideW = {}
      BY <1>1, <1>3, <2>5, CountsOf, RWSets DEF RW!Enter, RW!MustWait
    <3>3. readers_count' = Cardinality(InsideR') /\ writers_count' = Cardinality(InsideW')
      BY <1>1, <3>1, <3>2, FS_AddElement, RWSets DEF RW_Counts
    <3>4. RW!WriterAlone'
      BY <2>2, <2>5, <3>2, RWSets DEF RW!WriterAlone, InsideW
    <3>5. RW_TypeOK' /\ RW_Counts'
      BY <1>1, <2>1, <2>4, <3>2, <3>3 DEF RW_TypeOK, RW_Counts, RW!PCs
    <3>6. RW!WakeupsSuffice'
      BY <1>1, <2>1, <2>2, RWSets DEF RW!WakeupsSuffice, RW_TypeOK
    <3> QED BY <3>4, <3>5, <3>6 DEF RW_Inv
  <2>6. CASE t \in Writers
    <3>1. InsideW' = InsideW \cup {t} /\ InsideR' = InsideR /\ t \notin InsideW
      BY <2>2, <2>3, <2>6, RWSets DEF InsideR, InsideW
    <3>2. /\ writers_count' = writers_count + 1 /\ readers_count' = readers_count
          /\ InsideR = {} /\ InsideW = {}
      BY <1>1, <1>3, <2>6, CountsOf, RWSets DEF RW!Enter, RW!MustWait
    <3>3. readers_count' = Cardinality(InsideR') /\ writers_count' = Cardinality(InsideW')
      BY <1>1, <3>1, <3>2, FS_AddElement, RWSets DEF RW_Counts
    <3>4. RW!WriterAlone'
      BY <2>2, <2>6, <3>2, RWSets DEF RW!WriterAlone, InsideW, InsideR
    <3>5. RW_TypeOK' /\ RW_Counts'
      BY <1>1, <2>1, <2>4, <3>2, <3>3 DEF RW_TypeOK, RW_Counts, RW!PCs
    <3>6. RW!WakeupsSuffice'
      BY <1>1, <2>1, <2>2, RWSets DEF RW!WakeupsSuffice, RW_TypeOK
    <3> QED BY <3>4, <3>5, <3>6 DEF RW_Inv
  <2> QED BY <2>5, <2>6, RWSets
<1>4. ASSUME NEW t \in RW!Threads, RW!ReaderLeave(t) PROVE RW_Inv'
  <2>1. /\ t \in Readers /\ rw_pc[t] = "leave" /\ rw_mtx = t /\ rw_mtx' = None
        /\ readers_count' = readers_count - 1 /\ writers_count' = writers_count
    BY <1>1, <1>4 DEF RW!ReaderLeave, RW!LeaveAndWake, RW_Counts
  <2>2. PICK W \in SUBSET RW!Waiting :
          /\ rw_pc' = [u \in RW!Threads |-> IF u = t THEN "out"
                                            ELSE IF u \in W THEN "relock" ELSE rw_pc[u]]
          /\ readers_count = 1 /\ RW!Waiting # {} => W # {}
    <3>1. CASE readers_count = 1 /\ \E w \in RW!Waiting : RW!LeaveAndWake(t, {w})
      <4>1. PICK w \in RW!Waiting : RW!LeaveAndWake(t, {w})
        BY <3>1
      <4>2. {w} \in SUBSET RW!Waiting /\ {w} # {}
        BY <4>1
      <4> QED BY <4>1, <4>2 DEF RW!LeaveAndWake
    <3>2. CASE (readers_count # 1 \/ RW!Waiting = {}) /\ RW!LeaveAndWake(t, {})
      <4>1. {} \in SUBSET RW!Waiting
        OBVIOUS
      <4> QED BY <3>2, <4>1 DEF RW!LeaveAndWake
    <3> QED BY <1>4, <3>1, <3>2 DEF RW!ReaderLeave
  <2>3. \A u \in RW!Threads : RW!Inside(u)' <=> RW!Inside(u) /\ u # t
    BY <2>1, <2>2 DEF RW!Inside, RW!Waiting
  <2>4. InsideR' = InsideR \ {t} /\ InsideW' = InsideW /\ t \in InsideR
    BY <2>1, <2>3, RWSets DEF InsideR, InsideW, RW!Inside
  <2>5. readers_count' = Cardinality(InsideR') /\ writers_count' = Cardinality(InsideW')
    BY <1>1, <2>1, <2>4, FS_RemoveElement, RWSets DEF RW_Counts
  <2>6. readers_count' \in Nat
    BY <2>4, <2>5, FS_RemoveElement, FS_CardinalityType, RWSets
  <2>7. RW_TypeOK' /\ RW_Counts'
    <3>1. \A u \in RW!Threads : rw_pc'[u] \in {"test", "leave"} <=> rw_mtx' = u
      BY <1>1, <2>1, <2>2, RWSets DEF RW_Counts
    <3>2. rw_pc' \in [RW!Threads -> RW!PCs]
      BY <1>1, <2>2 DEF RW_TypeOK, RW!PCs
    <3> QED BY <1>1, <2>1, <2>5, <2>6, <3>1, <3>2 DEF RW_TypeOK, RW_Counts
  <2>8. RW!WriterAlone'
    BY <1>1, <2>3, RWSets DEF RW!WriterAlone
  <2>9. ~\E w \in Writers : RW!Inside(w)
    BY <1>1, <2>1, RWSets DEF RW!WriterAlone, RW!Inside
  <2>10. \A r \in Readers : rw_pc[r] # "waiting" /\ rw_pc'[r] # "waiting"
    BY <1>1, <2>2, <2>9, RWSets DEF RW!WakeupsSuffice
  <2>11. ASSUME NEW w \in Writers, rw_pc'[w] = "waiting"
         PROVE  (\E u \in RW!Threads : RW!Inside(u)') \/ \E u \in Writers : rw_pc'[u] = "relock"
    <3>1. CASE readers_count = 1
      <4>1. w \in RW!Waiting
        BY <2>1, <2>2, <2>11, RWSets DEF RW!Waiting
      <4>2. PICK u \in W : TRUE
        BY <2>2, <3>1, <4>1
      <4>3. u \in Writers /\ rw_pc'[u] = "relock"
        BY <2>1, <2>2, <2>10, <4>2, RWSets DEF RW!Waiting
      <4> QED BY <4>3
    <3>2. CASE readers_count # 1
      <4>1. PICK u \in InsideR : u # t
        BY <1>1, <2>4, <3>2, CountsOf
      <4> QED BY <2>3, <4>1, RWSets DEF InsideR
    <3> QED BY <3>1, <3>2
  <2>12. RW!WakeupsSuffice'
    BY <2>10, <2>11 DEF RW!WakeupsSuffice
  <2> QED BY <2>7, <2>8, <2>12 DEF RW_Inv
<1>5. ASSUME NEW t \in RW!Threads, RW!WriterLeave(t) PROVE RW_Inv'
  <2>1. /\ t \in Writers /\ rw_pc[t] = "leave" /\ rw_mtx = t /\ rw_mtx' = None
        /\ writers_count' = writers_count - 1 /\ readers_count' = readers_count
        /\ rw_pc' = [u \in RW!Threads |-> IF u = t THEN "out"
                                          ELSE IF u \in RW!Waiting THEN "relock" ELSE rw_pc[u]]
    BY <1>1, <1>5 DEF RW!WriterLeave, RW!LeaveAndWake, RW_Counts
  <2>2. \A u \in RW!Threads : RW!Inside(u)' <=> RW!Inside(u) /\ u # t
    BY <2>1 DEF RW!Inside, RW!Waiting
  <2>3. InsideW' = InsideW \ {t} /\ InsideR' = InsideR /\ t \in InsideW
    BY <2>1, <2>2, RWSets DEF InsideR, InsideW, RW!Inside
  <2>4. readers_count' = Cardinality(InsideR') /\ writers_count' = Cardinality(InsideW')
    BY <1>1, <2>1, <2>3, FS_RemoveElement, RWSets DEF RW_Counts
  <2>5. writers_count' \in Nat
    BY <2>3, <2>4, FS_RemoveElement, FS_CardinalityType, RWSets
  <2>6. RW_TypeOK' /\ RW_Counts'
    <3>1. \A u \in RW!Threads : rw_pc'[u] \in {"test", "leave"} <=> rw_mtx' = u
      BY <1>1, <2>1, RWSets DEF RW_Counts
    <3>2. rw_pc' \in [RW!Threads -> RW!PCs]
      BY <1>1, <2>1 DEF RW_TypeOK, RW!PCs
    <3> QED BY <1>1, <2>1, <2>4, <2>5, <3>1, <3>2 DEF RW_TypeOK, RW_Counts
  <2>7. RW!WriterAlone'
    BY <1>1, <2>2, RWSets DEF RW!WriterAlone
  <2>8. \A u \in RW!Threads : rw_pc'[u] # "waiting"
    BY <2>1 DEF RW!Waiting
  <2>9. RW!WakeupsSuffice'
    BY <2>8, RWSets DEF RW!WakeupsSuffice
  <2> QED BY <2>6, <2>7, <2>9 DEF RW_Inv
<1>6. CASE UNCHANGED RW!vars
  BY <1>1, <1>6 DEF RW!vars, RW_Inv, RW_TypeOK, RW_Counts, InsideR, InsideW, RW!WriterAlone,
                    RW!WakeupsSuffice, RW!Inside
<1> QED BY <1>2, <1>3, <1>4, <1>5, <1>6 DEF RW!Next, RW!Step

\* A writer is alone with shared_data (readers_writers_cv.c:26-33, 55-63), for any
\* number of readers and writers and any spurious wake-ups.
THEOREM WritersAlone == RW!Spec => []WriterAlone
<1>1. RW_Inv => WriterAlone
  BY DEF RW_Inv, WriterAlone
<1> QED BY <1>1, RW_InvInit, RW_InvStep, PTL DEF RW!Spec

\* The last reader's one signal goes to a writer, and nobody who waits is forgotten
\* (readers_writers_cv.c:38-42, 67-72).
THEOREM SignalsSuffice == RW!Spec => []WakeupsSuffice
<1>1. RW_Inv => WakeupsSuffice
  BY DEF RW_Inv, WakeupsSuffice
<1> QED BY <1>1, RW_InvInit, RW_InvStep, PTL DEF RW!Spec

-----------------------------------------------------------------------------
(* Sensors and aggregator *)

S_TypeOK ==
    /\ data_ready \in Nat /\ can_overwrite \in Nat
    /\ file \in [Sensor!Sensors -> [cycle : Nat, complete : BOOLEAN]]
    /\ spc \in [Sensor!Sensors -> {"open", "write", "post", "wait", "done"}]
    /\ cyc \in [Sensor!Sensors -> Nat]
    /\ \/ apc = "collect" /\ turn \in 0 .. num_sensors - 1
       \/ apc = "read" /\ turn \in 0 .. num_sensors
       \/ apc = "grant" /\ turn \in 0 .. num_sensors - 1
       \/ apc = "done" /\ turn = 0

AtWait == {s \in Sensor!Sensors : spc[s] = "wait"}

\* Posts the aggregator has taken and not yet answered with a permission.
Unanswered ==
    CASE apc = "collect" -> turn
      [] apc = "read"    -> num_sensors
      [] apc = "grant"   -> num_sensors - turn
      [] OTHER           -> 0

\* Every sensor that waits has a post that is in the semaphore, with the
\* aggregator, or on its way back as a permission.
S_Tokens == Cardinality(AtWait) = data_ready + can_overwrite + Unanswered

S_Files ==
    \A s \in Sensor!Sensors : spc[s] \in {"post", "wait", "done"} => file[s].complete

S_Inv == S_TypeOK /\ S_Tokens /\ S_Files

LEMMA SensorsFinite ==
    /\ num_sensors \in Nat /\ num_sensors > 0
    /\ IsFiniteSet(Sensor!Sensors) /\ Cardinality(Sensor!Sensors) = num_sensors
    /\ IsFiniteSet(AtWait) /\ Cardinality(AtWait) \in Nat /\ Cardinality(AtWait) <= num_sensors
    /\ Cardinality(AtWait) = num_sensors => AtWait = Sensor!Sensors
<1>1. num_sensors \in Nat /\ num_sensors > 0
  BY ProgramsAssumption DEF Sensor!SensorConstants
<1>2. IsFiniteSet(Sensor!Sensors) /\ Cardinality(Sensor!Sensors) = num_sensors
  BY <1>1, FS_Interval DEF Sensor!Sensors
<1>3. AtWait \in SUBSET Sensor!Sensors
  BY DEF AtWait
<1> QED BY <1>1, <1>2, <1>3, FS_Subset, FS_CardinalityType

LEMMA S_InvInit == Sensor!Init => S_Inv
<1> SUFFICES ASSUME Sensor!Init PROVE S_Inv
  OBVIOUS
<1>1. AtWait = {}
  BY DEF Sensor!Init, AtWait
<1>2. S_Tokens
  BY <1>1, FS_EmptySet DEF Sensor!Init, S_Tokens, Unanswered
<1>3. S_TypeOK /\ S_Files
  BY SensorsFinite DEF Sensor!Init, S_TypeOK, S_Files
<1> QED BY <1>2, <1>3 DEF S_Inv

LEMMA S_InvStep == S_Inv /\ [Sensor!Next]_(Sensor!vars) => S_Inv'
<1> SUFFICES ASSUME S_Inv, [Sensor!Next]_(Sensor!vars) PROVE S_Inv'
  OBVIOUS
<1>1. S_TypeOK /\ S_Tokens /\ S_Files
  BY DEF S_Inv
<1>2. num_sensors \in Nat /\ num_sensors > 0 /\ IsFiniteSet(AtWait)
      /\ Cardinality(AtWait) \in Nat
  BY SensorsFinite
<1>3. ASSUME NEW s \in Sensor!Sensors, Sensor!Open(s) \/ Sensor!Close(s) PROVE S_Inv'
  <2>1. AtWait' = AtWait
    BY <1>1, <1>3 DEF Sensor!Open, Sensor!Close, AtWait, S_TypeOK
  <2>2. S_Tokens'
    BY <1>1, <1>3, <2>1
       DEF Sensor!Open, Sensor!Close, S_Tokens, Unanswered, Sensor!semVars, Sensor!aggVars
  <2>3. S_TypeOK'
    <3>1. file' \in [Sensor!Sensors -> [cycle : Nat, complete : BOOLEAN]]
      <4>1. CASE Sensor!Open(s)
        BY <1>1, <4>1 DEF Sensor!Open, S_TypeOK
      <4>2. CASE Sensor!Close(s)
        BY <1>1, <4>2 DEF Sensor!Close, S_TypeOK
      <4> QED BY <1>3, <4>1, <4>2
    <3>2. spc' \in [Sensor!Sensors -> {"open", "write", "post", "wait", "done"}]
      BY <1>1, <1>3 DEF Sensor!Open, Sensor!Close, S_TypeOK
    <3>3. UNCHANGED <<data_ready, can_overwrite, cyc, apc, turn>>
      BY <1>3 DEF Sensor!Open, Sensor!Close, Sensor!semVars, Sensor!aggVars
    <3> QED BY <1>1, <3>1, <3>2, <3>3 DEF S_TypeOK
  <2>4. S_Files'
    BY <1>1, <1>3 DEF Sensor!Open, Sensor!Close, S_TypeOK, S_Files
  <2> QED BY <2>2, <2>3, <2>4 DEF S_Inv
<1>4. ASSUME NEW s \in Sensor!Sensors, Sensor!Post(s) PROVE S_Inv'
  <2>1. AtWait' = AtWait \cup {s} /\ s \notin AtWait
    BY <1>1, <1>4 DEF Sensor!Post, AtWait, S_TypeOK
  <2>2. Cardinality(AtWait') = Cardinality(AtWait) + 1
    BY <1>2, <2>1, FS_AddElement
  <2>3. S_Tokens'
    BY <1>1, <1>2, <1>4, <2>2 DEF Sensor!Post, S_Tokens, S_TypeOK, Unanswered, Sensor!aggVars
  <2>4. S_TypeOK' /\ S_Files'
    BY <1>1, <1>4 DEF Sensor!Post, S_TypeOK, S_Files, Sensor!aggVars
  <2> QED BY <2>3, <2>4 DEF S_Inv
<1>5. ASSUME NEW s \in Sensor!Sensors, Sensor!WaitPermission(s) PROVE S_Inv'
  <2>1. AtWait' = AtWait \ {s} /\ s \in AtWait
    BY <1>1, <1>5 DEF Sensor!WaitPermission, Sensor!NextCycle, AtWait, S_TypeOK
  <2>2. Cardinality(AtWait') = Cardinality(AtWait) - 1
    BY <1>2, <2>1, FS_RemoveElement
  <2>3. S_Tokens'
    BY <1>1, <1>2, <1>5, <2>2
       DEF Sensor!WaitPermission, S_Tokens, S_TypeOK, Unanswered, Sensor!aggVars
  <2>4. S_TypeOK' /\ S_Files'
    BY <1>1, <1>5 DEF Sensor!WaitPermission, Sensor!NextCycle, S_TypeOK, S_Files, Sensor!aggVars
  <2> QED BY <2>3, <2>4 DEF S_Inv
<1>6. CASE Sensor!AggregatorStep
  <2>1. UNCHANGED Sensor!sensorVars
    BY <1>6 DEF Sensor!AggregatorStep, Sensor!Collect, Sensor!Read, Sensor!Grant
  <2>2. AtWait' = AtWait /\ S_Files'
    BY <1>1, <2>1 DEF Sensor!sensorVars, AtWait, S_Files
  <2>3. CASE Sensor!Collect
    BY <1>1, <1>2, <2>1, <2>2, <2>3
       DEF Sensor!Collect, S_Inv, S_TypeOK, S_Tokens, Unanswered, Sensor!sensorVars
  <2>4. CASE Sensor!Read
    BY <1>1, <1>2, <2>1, <2>2, <2>4
       DEF Sensor!Read, S_Inv, S_TypeOK, S_Tokens, Unanswered, Sensor!sensorVars, Sensor!semVars
  <2>5. CASE Sensor!Grant
    BY <1>1, <1>2, <2>1, <2>2, <2>5
       DEF Sensor!Grant, S_Inv, S_TypeOK, S_Tokens, Unanswered, Sensor!sensorVars
  <2> QED BY <1>6, <2>3, <2>4, <2>5 DEF Sensor!AggregatorStep
<1>7. CASE UNCHANGED Sensor!vars
  BY <1>1, <1>7 DEF Sensor!vars, Sensor!semVars, Sensor!sensorVars, Sensor!aggVars,
                    S_Inv, S_TypeOK, S_Tokens, Unanswered, S_Files, AtWait
<1> QED BY <1>3, <1>4, <1>5, <1>6, <1>7 DEF Sensor!Next, Sensor!SensorStep

\* No file is read while its sensor writes it (sensor.c:34-55,
\* aggregator.c:32-61), for any number of sensors and cycles.
THEOREM NoReadIsTorn == Sensor!Spec => []NoTornRead
<1>1. S_Inv => NoTornRead
  <2> SUFFICES ASSUME S_Inv, apc = "read", NEW s \in Sensor!Sensors
               PROVE  file[s].complete /\ spc[s] = "wait"
    BY DEF NoTornRead, Sensor!NoTornRead
  <2>1. AtWait = Sensor!Sensors
    <3>1. Unanswered = num_sensors
      BY DEF Unanswered
    <3>2. data_ready \in Nat /\ can_overwrite \in Nat
          /\ Cardinality(AtWait) = data_ready + can_overwrite + num_sensors
      BY <3>1 DEF S_Inv, S_TypeOK, S_Tokens
    <3> QED BY <3>2, SensorsFinite
  <2>2. spc[s] = "wait"
    BY <2>1 DEF AtWait
  <2> QED BY <2>2 DEF S_Inv, S_Files
<1> QED BY <1>1, S_InvInit, S_InvStep, PTL DEF Sensor!Spec

-----------------------------------------------------------------------------
(* Record database *)

AtWork == {"recover", "bump", "count", "hash", "store", "unlock"}

\* A worker at work owns its mutex, and a mutex has no other owner but a dead
\* one, which a robust mutex does not keep.
D_Owners ==
    /\ \A w \in Workers : db_pc[w] \in AtWork => owner[DB!Mtx(w)] = w
    /\ \A m \in DB!Mutexes : owner[m] # None =>
          /\ m = DB!Mtx(owner[m])
          /\ \/ db_pc[owner[m]] \in AtWork
             \/ db_pc[owner[m]] = "dead" /\ build # "robust"

\* Only a robust mutex is ever marked, and its next owner clears the mark first.
D_Marks ==
    /\ \A m \in DB!Mutexes : mstate[m] # "ok" => mstate[m] = "ownerdead" /\ build = "robust"
    /\ \A w \in Workers : db_pc[w] = "recover" => build = "robust"
    /\ \A w \in Workers : db_pc[w] \in AtWork \ {"recover"} => mstate[DB!Mtx(w)] = "ok"
    /\ \A w \in Workers : db_pc[w] # "failed"

\* A stale result has somebody to answer for it.
D_Stale(r) ==
    \/ \E w \in Workers : /\ Target[w] = r /\ owner[DB!Mtx(w)] = w
                          /\ db_pc[w] \in (AtWork \ {"unlock"}) \cup {"dead"}
    \/ mstate[r] = "ownerdead"
D_Results ==
    /\ \A r \in Records : result[r] # bumps[r] => D_Stale(r)
    /\ \A w \in Workers : db_pc[w] = "store" => hash[w] = bumps[Target[w]]

Missing(r) == {w \in Workers : Target[w] = r /\ db_pc[w] \in {"dead", "count"}}
D_Counts ==
    \A r \in Records :
        /\ count[r] <= bumps[r]
        /\ \A w \in Workers : Target[w] = r /\ db_pc[w] = "count" => count[r] < bumps[r]
        /\ bumps[r] <= count[r] + Cardinality(Missing(r))

D_Inv == DB!TypeOK /\ D_Owners /\ D_Marks /\ D_Results /\ D_Counts

LEMMA DBFacts ==
    /\ Target \in [Workers -> Records] /\ None \notin Workers /\ GlobalMtx \notin Records
    /\ DB!Mutexes = Records \cup {GlobalMtx}
    /\ \A r : IsFiniteSet(Missing(r))
<1>1. IsFiniteSet(Workers)
  BY ProgramsAssumption DEF DB!DBConstants, DB!IsFiniteSet, IsFiniteSet
<1>2. ASSUME NEW r PROVE IsFiniteSet(Missing(r))
  <2>1. Missing(r) \in SUBSET Workers
    BY DEF Missing
  <2> QED BY <1>1, <2>1, FS_Subset
<1> QED BY <1>2, ProgramsAssumption DEF DB!DBConstants, DB!Mutexes

\* Workers on one record use one mutex.
LEMMA MtxFacts ==
    /\ \A w \in Workers : DB!Mtx(w) \in DB!Mutexes
    /\ \A v, w \in Workers : Target[v] = Target[w] => DB!Mtx(v) = DB!Mtx(w)
    /\ build = "robust" => \A w \in Workers : DB!Mtx(w) = Target[w]
    /\ \A w \in Workers : DB!Mtx(w) \in {Target[w], GlobalMtx}
BY DBFacts DEF DB!Mtx

\* Only one worker is at work on a record.
LEMMA OneAtWork ==
    ASSUME D_Owners, NEW v \in Workers, NEW w \in Workers, Target[v] = Target[w],
           db_pc[v] \in AtWork, db_pc[w] \in AtWork
    PROVE  v = w
BY MtxFacts DEF D_Owners

LEMMA D_InvInit == DB!Init => D_Inv
<1> SUFFICES ASSUME DB!Init PROVE D_Inv
  OBVIOUS
<1>1. DB!TypeOK
  BY DEF DB!Init, DB!TypeOK, DB!PCs
<1>2. D_Owners /\ D_Marks /\ D_Results
  BY DBFacts DEF DB!Init, D_Owners, D_Marks, D_Results, AtWork
<1>3. D_Counts
  BY DBFacts, FS_CardinalityType DEF DB!Init, D_Counts
<1> QED BY <1>1, <1>2, <1>3 DEF D_Inv

LEMMA D_InvStep == D_Inv /\ [DB!Next]_(DB!vars) => D_Inv'
<1> SUFFICES ASSUME D_Inv, [DB!Next]_(DB!vars) PROVE D_Inv'
  OBVIOUS
<1>1. DB!TypeOK /\ D_Owners /\ D_Marks /\ D_Results /\ D_Counts
  BY DEF D_Inv
<1>2. build' = build /\ \A w : DB!Mtx(w)' = DB!Mtx(w)
  BY DEF DB!Next, DB!vars, DB!Step, DB!Lock, DB!Recover, DB!Bump, DB!Count, DB!Hash, DB!Store,
         DB!Unlock, DB!Die, DB!Mtx
<1>3. ASSUME NEW w \in Workers, DB!Lock(w) PROVE D_Inv'
  <2> DEFINE m == DB!Mtx(w)
             l == IF mstate[m] = "ownerdead" THEN "recover" ELSE "bump"
  <2>1. m \in DB!Mutexes
    BY MtxFacts
  <2>2. mstate[m] # "notrecoverable"
    BY <1>1, <2>1 DEF D_Marks
  <2>3. /\ db_pc[w] = "lock" /\ owner[m] = None /\ owner' = [owner EXCEPT ![m] = w]
        /\ db_pc' = [db_pc EXCEPT ![w] = l]
        /\ UNCHANGED <<mstate, bumps, count, result, hash>>
    BY <1>3, <2>2 DEF DB!Lock, DB!Goto, DB!dbVars
  <2>4. l \in {"recover", "bump"} /\ (l = "recover" <=> mstate[m] = "ownerdead")
    OBVIOUS
  <2> HIDE DEF m, l
  <2>5. DB!TypeOK'
    BY <1>1, <1>2, <2>1, <2>3, <2>4 DEF DB!TypeOK, DB!PCs
  <2>6. D_Owners'
    BY <1>1, <1>2, <2>1, <2>3, <2>4, DBFacts, MtxFacts DEF DB!TypeOK, D_Owners, AtWork, m
  <2>7. D_Marks'
    BY <1>1, <1>2, <2>1, <2>3, <2>4 DEF DB!TypeOK, D_Marks, AtWork, m
  <2>8. D_Results'
    BY <1>1, <1>2, <2>1, <2>3, <2>4, DBFacts DEF DB!TypeOK, D_Results, D_Stale, AtWork, m
  <2>9. D_Counts'
    BY <1>1, <2>3, <2>4 DEF DB!TypeOK, D_Counts, Missing
  <2> QED BY <2>5, <2>6, <2>7, <2>8, <2>9 DEF D_Inv
<1>4. ASSUME NEW w \in Workers, DB!Recover(w) PROVE D_Inv'
  <2>1. build = "robust" /\ DB!Mtx(w) = Target[w] /\ Target[w] \in DB!Mutexes
    BY <1>1, <1>4, MtxFacts DEF D_Marks, DB!Recover
  <2>2. /\ db_pc[w] = "recover" /\ mstate' = [mstate EXCEPT ![Target[w]] = "ok"]
        /\ db_pc' = [db_pc EXCEPT ![w] = "bump"]
        /\ UNCHANGED <<owner, bumps, count, result, hash>>
    BY <1>4 DEF DB!Recover, DB!Goto, DB!dbVars
  <2>3. DB!TypeOK' /\ D_Owners'
    BY <1>1, <1>2, <2>1, <2>2 DEF DB!TypeOK, DB!PCs, D_Owners, AtWork
  <2>4. D_Marks'
    BY <1>1, <1>2, <2>1, <2>2 DEF DB!TypeOK, D_Marks, AtWork
  <2>5. D_Results'
    BY <1>1, <1>2, <2>1, <2>2 DEF DB!TypeOK, D_Owners, D_Results, D_Stale, AtWork
  <2>6. D_Counts'
    BY <1>1, <2>2 DEF DB!TypeOK, D_Counts, Missing
  <2> QED BY <2>3, <2>4, <2>5, <2>6 DEF D_Inv
<1>5. ASSUME NEW w \in Workers, DB!Bump(w) PROVE D_Inv'
  <2> DEFINE r == Target[w]
  <2>1. /\ db_pc[w] = "bump" /\ bumps' = [bumps EXCEPT ![r] = @ + 1]
        /\ db_pc' = [db_pc EXCEPT ![w] = "count"]
        /\ UNCHANGED <<owner, mstate, count, result, hash>>
    BY <1>5 DEF DB!Bump, DB!Goto
  <2>2. r \in Records /\ bumps[r] \in Nat /\ count[r] \in Nat /\ db_pc[w] \in AtWork
    BY <1>1, <2>1, DBFacts DEF DB!TypeOK, AtWork
  <2>3. DB!TypeOK' /\ D_Owners' /\ D_Marks'
    BY <1>1, <1>2, <2>1, <2>2 DEF DB!TypeOK, DB!PCs, D_Owners, D_Marks, AtWork
  <2>4. D_Results'
    <3>1. \A v \in Workers : db_pc[v] = "store" => Target[v] # r
      BY <1>1, <2>1, <2>2, OneAtWork DEF AtWork
    <3>2. owner[DB!Mtx(w)] = w
      BY <1>1, <2>2 DEF D_Owners
    <3>3. D_Stale(r)'
      BY <1>1, <1>2, <2>1, <3>2 DEF D_Stale, AtWork, DB!TypeOK
    <3>4. \A x \in Records : x # r => (D_Stale(x) => D_Stale(x)') /\ bumps'[x] = bumps[x]
      BY <1>1, <1>2, <2>1 DEF D_Stale, AtWork, DB!TypeOK
    <3> QED BY <1>1, <2>1, <2>2, <3>1, <3>3, <3>4, DBFacts DEF D_Results, DB!TypeOK
  <2>5. D_Counts'
    <3>1. Missing(r)' = Missing(r) \cup {w} /\ w \notin Missing(r)
      BY <1>1, <2>1 DEF Missing, DB!TypeOK
    <3>2. Cardinality(Missing(r)') = Cardinality(Missing(r)) + 1 /\ Cardinality(Missing(r)) \in Nat
      BY <3>1, DBFacts, FS_AddElement, FS_CardinalityType
    <3>3. \A x \in Records : x # r => Missing(x)' = Missing(x) /\ bumps'[x] = bumps[x]
      BY <1>1, <2>1 DEF Missing, DB!TypeOK
    <3>4. bumps'[r] = bumps[r] + 1
      BY <1>1, <2>1, <2>2 DEF DB!TypeOK
    <3>5. /\ count'[r] <= bumps'[r] /\ count'[r] < bumps'[r]
          /\ bumps'[r] <= count'[r] + Cardinality(Missing(r)')
      BY <1>1, <2>1, <2>2, <3>2, <3>4 DEF D_Counts
    <3>6. ASSUME NEW x \in Records, x # r
          PROVE  /\ count'[x] <= bumps'[x]
                 /\ \A v \in Workers : Target[v] = x /\ db_pc'[v] = "count" => count'[x] < bumps'[x]
                 /\ bumps'[x] <= count'[x] + Cardinality(Missing(x)')
      BY <1>1, <2>1, <3>3, <3>6 DEF D_Counts, DB!TypeOK
    <3> QED BY <3>5, <3>6 DEF D_Counts
  <2> QED BY <2>3, <2>4, <2>5 DEF D_Inv
<1>6. ASSUME NEW w \in Workers, DB!Count(w) PROVE D_Inv'
  <2> DEFINE r == Target[w]
  <2>1. /\ db_pc[w] = "count" /\ count' = [count EXCEPT ![r] = @ + 1]
        /\ db_pc' = [db_pc EXCEPT ![w] = "hash"]
        /\ UNCHANGED <<owner, mstate, bumps, result, hash>>
    BY <1>6 DEF DB!Count, DB!Goto
  <2>2. r \in Records /\ bumps[r] \in Nat /\ count[r] \in Nat /\ db_pc[w] \in AtWork
    BY <1>1, <2>1, DBFacts DEF DB!TypeOK, AtWork
  <2>3. DB!TypeOK' /\ D_Owners' /\ D_Marks'
    BY <1>1, <1>2, <2>1, <2>2 DEF DB!TypeOK, DB!PCs, D_Owners, D_Marks, AtWork
  <2>4. D_Results'
    BY <1>1, <1>2, <2>1 DEF D_Results, D_Stale, AtWork, DB!TypeOK
  <2>5. D_Counts'
    <3>1. Missing(r)' = Missing(r) \ {w} /\ w \in Missing(r)
      BY <1>1, <2>1 DEF Missing, DB!TypeOK
    <3>2. Cardinality(Missing(r)') = Cardinality(Missing(r)) - 1 /\ Cardinality(Missing(r)) \in Nat
      BY <3>1, DBFacts, FS_RemoveElement, FS_CardinalityType
    <3>3. \A x \in Records : x # r => Missing(x)' = Missing(x) /\ count'[x] = count[x]
      BY <1>1, <2>1 DEF Missing, DB!TypeOK
    <3>4. count'[r] = count[r] + 1
      BY <1>1, <2>1, <2>2 DEF DB!TypeOK
    <3>5. /\ count'[r] <= bumps'[r]
          /\ bumps'[r] <= count'[r] + Cardinality(Missing(r)')
      BY <1>1, <2>1, <2>2, <3>2, <3>4 DEF D_Counts
    <3>6. \A v \in Workers : Target[v] = r => db_pc'[v] # "count"
      BY <1>1, <2>1, <2>2, OneAtWork DEF AtWork, DB!TypeOK
    <3>7. ASSUME NEW x \in Records, x # r
          PROVE  /\ count'[x] <= bumps'[x]
                 /\ \A v \in Workers : Target[v] = x /\ db_pc'[v] = "count" => count'[x] < bumps'[x]
                 /\ bumps'[x] <= count'[x] + Cardinality(Missing(x)')
      BY <1>1, <2>1, <3>3, <3>7 DEF D_Counts, DB!TypeOK
    <3> QED BY <3>5, <3>6, <3>7 DEF D_Counts
  <2> QED BY <2>3, <2>4, <2>5 DEF D_Inv
<1>7. ASSUME NEW w \in Workers, DB!Hash(w) PROVE D_Inv'
  <2>1. /\ db_pc[w] = "hash" /\ hash' = [hash EXCEPT ![w] = bumps[Target[w]]]
        /\ db_pc' = [db_pc EXCEPT ![w] = "store"]
        /\ UNCHANGED <<owner, mstate, bumps, count, result>>
    BY <1>7 DEF DB!Hash, DB!Goto, DB!dbVars
  <2>2. bumps[Target[w]] \in Nat
    BY <1>1, DBFacts DEF DB!TypeOK
  <2>3. DB!TypeOK' /\ D_Owners' /\ D_Marks'
    BY <1>1, <1>2, <2>1, <2>2 DEF DB!TypeOK, DB!PCs, D_Owners, D_Marks, AtWork
  <2>4. D_Results'
    BY <1>1, <1>2, <2>1 DEF D_Results, D_Stale, AtWork, DB!TypeOK
  <2>5. D_Counts'
    BY <1>1, <2>1 DEF DB!TypeOK, D_Counts, Missing
  <2> QED BY <2>3, <2>4, <2>5 DEF D_Inv
<1>8. ASSUME NEW w \in Workers, DB!Store(w) PROVE D_Inv'
  <2> DEFINE r == Target[w]
  <2>1. /\ db_pc[w] = "store" /\ result' = [result EXCEPT ![r] = hash[w]]
        /\ db_pc' = [db_pc EXCEPT ![w] = "unlock"]
        /\ UNCHANGED <<owner, mstate, bumps, count, hash>>
    BY <1>8 DEF DB!Store, DB!Goto
  <2>2. hash[w] = bumps[r] /\ hash[w] \in Nat /\ r \in Records
    BY <1>1, <2>1, DBFacts DEF D_Results, DB!TypeOK
  <2>3. DB!TypeOK' /\ D_Owners' /\ D_Marks'
    BY <1>1, <1>2, <2>1, <2>2 DEF DB!TypeOK, DB!PCs, D_Owners, D_Marks, AtWork
  <2>4. D_Results'
    <3>1. result'[r] = bumps'[r]
      BY <1>1, <2>1, <2>2 DEF DB!TypeOK
    <3>2. \A x \in Records : x # r => (D_Stale(x) => D_Stale(x)') /\ result'[x] = result[x]
      BY <1>1, <1>2, <2>1 DEF D_Stale, AtWork, DB!TypeOK
    <3> QED BY <1>1, <2>1, <3>1, <3>2 DEF D_Results, DB!TypeOK
  <2>5. D_Counts'
    BY <1>1, <2>1 DEF DB!TypeOK, D_Counts, Missing
  <2> QED BY <2>3, <2>4, <2>5 DEF D_Inv
<1>9. ASSUME NEW w \in Workers, DB!Unlock(w) PROVE D_Inv'
  <2> DEFINE m == DB!Mtx(w)
  <2>1. m \in DB!Mutexes /\ owner[m] = w /\ mstate[m] = "ok"
    BY <1>1, <1>9, MtxFacts DEF DB!Unlock, D_Owners, D_Marks, AtWork
  <2>2. /\ db_pc[w] = "unlock" /\ owner' = [owner EXCEPT ![m] = None]
        /\ mstate' = mstate /\ db_pc' = [db_pc EXCEPT ![w] = "done"]
        /\ UNCHANGED <<bumps, count, result, hash>>
    BY <1>1, <1>9, <2>1 DEF DB!Unlock, DB!Goto, DB!dbVars, DB!TypeOK
  <2>3. DB!TypeOK' /\ D_Marks'
    BY <1>1, <1>2, <2>1, <2>2 DEF DB!TypeOK, DB!PCs, D_Marks, AtWork
  <2>4. D_Owners'
    BY <1>1, <1>2, <2>1, <2>2, MtxFacts, DBFacts DEF DB!TypeOK, D_Owners, AtWork
  <2>5. D_Results'
    <3>1. ASSUME NEW x \in Records, D_Stale(x) PROVE D_Stale(x)'
      BY <1>1, <1>2, <2>1, <2>2, <3>1, MtxFacts DEF D_Stale, AtWork, DB!TypeOK
    <3> QED BY <1>1, <2>2, <3>1 DEF D_Results, DB!TypeOK
  <2>6. D_Counts'
    BY <1>1, <2>2 DEF DB!TypeOK, D_Counts, Missing
  <2> QED BY <2>3, <2>4, <2>5, <2>6 DEF D_Inv
<1>10. ASSUME NEW w \in Workers, DB!Die(w) PROVE D_Inv'
  <2> DEFINE held == {m \in DB!Mutexes : build = "robust" /\ owner[m] = w}
  <2>1. /\ db_pc[w] \in AtWork \cup {"lock"} /\ db_pc' = [db_pc EXCEPT ![w] = "dead"]
        /\ owner' = [m \in DB!Mutexes |-> IF m \in held THEN None ELSE owner[m]]
        /\ mstate' = [m \in DB!Mutexes |-> IF m \in held THEN "ownerdead" ELSE mstate[m]]
        /\ UNCHANGED <<bumps, count, result, hash>>
    BY <1>1, <1>10 DEF DB!Die, DB!Goto, DB!dbVars, DB!TypeOK, DB!PCs, AtWork
  <2>2. \A m \in held : build = "robust" /\ owner[m] = w /\ m = DB!Mtx(w)
    BY <1>1, DBFacts DEF D_Owners
  <2>3. \A m \in DB!Mutexes : build # "robust" \/ owner[m] # w => m \notin held
    OBVIOUS
  <2>4. build = "robust" /\ db_pc[w] \in AtWork => DB!Mtx(w) \in held
    BY <1>1, MtxFacts DEF D_Owners
  <2>5. held \subseteq DB!Mutexes
    OBVIOUS
  <2> HIDE DEF held
  <2>6. DB!TypeOK'
    BY <1>1, <1>2, <2>1 DEF DB!TypeOK, DB!PCs
  <2>7. D_Owners'
    BY <1>1, <1>2, <2>1, <2>2, <2>3, <2>4, MtxFacts, DBFacts DEF DB!TypeOK, D_Owners, AtWork
  <2>8. D_Marks'
    BY <1>1, <1>2, <2>1, <2>2, <2>3, MtxFacts DEF DB!TypeOK, D_Owners, D_Marks, AtWork
  <2>9. D_Results'
    <3>1. ASSUME NEW x \in Records, D_Stale(x) PROVE D_Stale(x)'
      <4>1. x \in DB!Mutexes
        BY DBFacts
      <4>2. CASE mstate[x] = "ownerdead"
        BY <2>1, <4>1, <4>2 DEF D_Stale
      <4>3. CASE mstate[x] # "ownerdead"
        <5>1. PICK v \in Workers : /\ Target[v] = x /\ owner[DB!Mtx(v)] = v
                                   /\ db_pc[v] \in (AtWork \ {"unlock"}) \cup {"dead"}
          BY <3>1, <4>3 DEF D_Stale
        <5>2. CASE DB!Mtx(v) \in held
          BY <2>1, <2>2, <4>1, <5>1, <5>2, MtxFacts DEF D_Stale
        <5>3. CASE DB!Mtx(v) \notin held
          BY <1>1, <1>2, <2>1, <5>1, <5>3, MtxFacts DEF D_Stale, DB!TypeOK, AtWork
        <5> QED BY <5>2, <5>3
      <4> QED BY <4>2, <4>3
    <3> QED BY <1>1, <2>1, <3>1 DEF D_Results, DB!TypeOK
  <2>10. D_Counts'
    <3>1. ASSUME NEW x \in Records
          PROVE  Cardinality(Missing(x)) <= Cardinality(Missing(x)') /\ Cardinality(Missing(x)') \in Nat
      <4>1. Missing(x)' = Missing(x) \/ Missing(x)' = Missing(x) \cup {w}
        BY <1>1, <2>1 DEF Missing, DB!TypeOK
      <4>2. Missing(x) \in SUBSET (Missing(x)')
        BY <4>1
      <4>3. IsFiniteSet(Missing(x)')
        BY <4>1, DBFacts, FS_AddElement
      <4> QED BY <4>2, <4>3, FS_Subset, FS_CardinalityType
    <3>2. \A x \in Records : Cardinality(Missing(x)) \in Nat
      BY DBFacts, FS_CardinalityType
    <3>3. \A v \in Workers : db_pc'[v] = "count" => db_pc[v] = "count"
      BY <1>1, <2>1 DEF DB!TypeOK
    <3> QED BY <1>1, <2>1, <3>1, <3>2, <3>3 DEF D_Counts, DB!TypeOK
  <2> QED BY <2>6, <2>7, <2>8, <2>9, <2>10 DEF D_Inv
<1>11. CASE UNCHANGED DB!vars
  BY <1>1, <1>2, <1>11 DEF DB!vars, DB!dbVars, D_Inv, DB!TypeOK, D_Owners, D_Marks, D_Results,
                           D_Stale, D_Counts, Missing
<1> QED BY <1>3, <1>4, <1>5, <1>6, <1>7, <1>8, <1>9, <1>10, <1>11 DEF DB!Next, DB!Step

\* For any number of workers and records, in every build, and however many workers
\* die: results are fresh, counters trail by the dead only, and no mutex is lost
\* for ever (record_db_worker_robust.c:32-38, 67-76, record_db_setup.c).
THEOREM DatabaseConsistent == DB!Spec => []RecordsConsistent
<1>1. D_Inv => RecordsConsistent
  <2> SUFFICES ASSUME D_Inv PROVE DB!ResultFresh /\ DB!CountTrails /\ DB!NeverUnrecoverable
    BY DEF RecordsConsistent
  <2>1. ASSUME NEW r \in Records, \A m \in {r, GlobalMtx} : owner[m] = None /\ mstate[m] = "ok"
        PROVE  result[r] = bumps[r]
    <3>1. ~D_Stale(r)
      BY <2>1, DBFacts, MtxFacts DEF D_Stale
    <3> QED BY <3>1 DEF D_Inv, D_Results
  <2>2. ASSUME NEW r \in Records
        PROVE  count[r] <= bumps[r] /\ bumps[r] <= count[r] + DB!Cardinality(Missing(r))
    <3>1. count[r] <= bumps[r] /\ bumps[r] <= count[r] + Cardinality(Missing(r))
      BY DEF D_Inv, D_Counts
    <3> QED BY <3>1 DEF DB!Cardinality, Cardinality
  <2>3. DB!ResultFresh
    BY <2>1 DEF DB!ResultFresh
  <2>4. DB!CountTrails
    BY <2>2 DEF DB!CountTrails, Missing
  <2>5. DB!NeverUnrecoverable
    BY DEF D_Inv, D_Marks, DB!NeverUnrecoverable
  <2> QED BY <2>3, <2>4, <2>5
<1> QED BY <1>1, D_InvInit, D_InvStep, PTL DEF DB!Spec

-----------------------------------------------------------------------------
(* Bounded buffer with semaphores *)

\* The slot k places after o.
SlotAfter(o, k) == IF o + k < SEM_BUFFER_SIZE THEN o + k ELSE o + k - SEM_BUFFER_SIZE

\* The ring it holds, from slot hd on, what is in pr and not in co, and the next
\* item goes to slot tl.
RingHolds(it, hd, tl, pr, co) ==
    /\ Len(co) <= Len(pr) /\ Len(pr) <= Len(co) + SEM_BUFFER_SIZE
    /\ tl = IF Len(pr) = Len(co) + SEM_BUFFER_SIZE THEN hd ELSE SlotAfter(hd, Len(pr) - Len(co))
    /\ \A k \in 0 .. Len(pr) - Len(co) - 1 : it[SlotAfter(hd, k)] = pr[Len(co) + 1 + k]

LEMMA SemFacts ==
    /\ SEM_BUFFER_SIZE \in Nat \ {0} /\ ITEMS_PER_PRODUCER \in Nat \ {0}
    /\ Sem!Slots = 0 .. SEM_BUFFER_SIZE - 1 /\ Producers \cap Consumers = {}
    /\ Sem!Procs = Producers \cup Consumers
BY ProgramsAssumption DEF Sem!SemConstants, Sem!Slots, Sem!Procs

LEMMA NextSlot == ASSUME NEW x \in Sem!Slots
                  PROVE  (x + 1) % SEM_BUFFER_SIZE = SlotAfter(x, 1) /\ SlotAfter(x, 1) \in Sem!Slots
BY SemFacts DEF SlotAfter

LEMMA RingPut ==
    ASSUME NEW S, NEW it \in [Sem!Slots -> S], NEW hd \in Sem!Slots, NEW tl \in Sem!Slots,
           NEW T, NEW pr \in Seq(T), NEW co \in Seq(T), NEW x \in T,
           RingHolds(it, hd, tl, pr, co), Len(pr) < Len(co) + SEM_BUFFER_SIZE
    PROVE  RingHolds([it EXCEPT ![tl] = x], hd, SlotAfter(tl, 1), Append(pr, x), co)
<1> DEFINE n == Len(pr) - Len(co)
           pr2 == Append(pr, x)
           it2 == [it EXCEPT ![tl] = x]
<1>1. /\ Len(pr) \in Nat /\ Len(co) \in Nat /\ n \in 0 .. SEM_BUFFER_SIZE - 1
      /\ Len(pr2) = Len(pr) + 1 /\ pr2[Len(pr) + 1] = x
      /\ \A k \in 1 .. Len(pr) : pr2[k] = pr[k]
  BY SemFacts DEF RingHolds
<1>2. tl = SlotAfter(hd, n)
  BY <1>1, SemFacts DEF RingHolds
<1>3. SlotAfter(tl, 1) = IF n + 1 = SEM_BUFFER_SIZE THEN hd ELSE SlotAfter(hd, n + 1)
  BY <1>1, <1>2, SemFacts DEF SlotAfter
<1>4. ASSUME NEW k \in 0 .. n PROVE it2[SlotAfter(hd, k)] = pr2[Len(co) + 1 + k]
  <2>1. CASE k = n
    <3>1. SlotAfter(hd, k) = tl /\ Len(co) + 1 + k = Len(pr) + 1
      BY <1>1, <1>2, <2>1
    <3> QED BY <1>1, <3>1
  <2>2. CASE k # n
    <3>1. k \in 0 .. n - 1 /\ SlotAfter(hd, k) # tl /\ SlotAfter(hd, k) \in Sem!Slots
      BY <1>1, <1>2, <2>2, SemFacts DEF SlotAfter
    <3>2. Len(co) + 1 + k \in 1 .. Len(pr)
      BY <1>1, <3>1
    <3>3. it[SlotAfter(hd, k)] = pr[Len(co) + 1 + k]
      BY <3>1 DEF RingHolds
    <3> QED BY <1>1, <3>1, <3>2, <3>3
  <2> QED BY <2>1, <2>2
<1>5. Len(pr2) - Len(co) = n + 1
  BY <1>1
<1>6. \A k \in 0 .. Len(pr2) - Len(co) - 1 : it2[SlotAfter(hd, k)] = pr2[Len(co) + 1 + k]
  BY <1>1, <1>4, <1>5
<1>7. SlotAfter(tl, 1) = IF Len(pr2) = Len(co) + SEM_BUFFER_SIZE THEN hd
                         ELSE SlotAfter(hd, Len(pr2) - Len(co))
  BY <1>1, <1>3, <1>5, SemFacts
<1>8. Len(co) <= Len(pr2) /\ Len(pr2) <= Len(co) + SEM_BUFFER_SIZE
  BY <1>1, SemFacts
<1> HIDE DEF pr2, it2, n
<1>9. RingHolds(it2, hd, SlotAfter(tl, 1), pr2, co)
  BY <1>6, <1>7, <1>8 DEF RingHolds
<1> QED BY <1>9 DEF pr2, it2

LEMMA RingGet ==
    ASSUME NEW it, NEW hd \in Sem!Slots, NEW tl \in Sem!Slots,
           NEW T, NEW pr \in Seq(T), NEW co \in Seq(T),
           RingHolds(it, hd, tl, pr, co), Len(co) < Len(pr)
    PROVE  /\ it[hd] = pr[Len(co) + 1] /\ it[hd] \in T
           /\ RingHolds(it, SlotAfter(hd, 1), tl, pr, Append(co, it[hd]))
<1> DEFINE n == Len(pr) - Len(co)
           co2 == Append(co, it[hd])
<1>1. Len(pr) \in Nat /\ Len(co) \in Nat /\ n \in 1 .. SEM_BUFFER_SIZE
  BY SemFacts DEF RingHolds
<1>2. it[hd] = pr[Len(co) + 1] /\ it[hd] \in T
  <2>1. 0 \in 0 .. n - 1 /\ SlotAfter(hd, 0) = hd
    BY <1>1, SemFacts DEF SlotAfter
  <2>2. it[SlotAfter(hd, 0)] = pr[Len(co) + 1 + 0]
    BY <2>1 DEF RingHolds
  <2> QED BY <1>1, <2>1, <2>2
<1>3. Len(co2) = Len(co) + 1
  BY <1>2
<1>4. tl = SlotAfter(SlotAfter(hd, 1), n - 1)
  BY <1>1, SemFacts DEF RingHolds, SlotAfter
<1>5. ASSUME NEW k \in 0 .. n - 2
      PROVE  it[SlotAfter(SlotAfter(hd, 1), k)] = pr[Len(co2) + 1 + k]
  <2>1. k + 1 \in 0 .. n - 1 /\ SlotAfter(SlotAfter(hd, 1), k) = SlotAfter(hd, k + 1)
    BY <1>1, SemFacts DEF SlotAfter
  <2>2. it[SlotAfter(hd, k + 1)] = pr[Len(co) + 1 + (k + 1)]
    BY <2>1 DEF RingHolds
  <2> QED BY <1>1, <1>3, <2>1, <2>2
<1>6. Len(pr) - Len(co2) = n - 1 /\ Len(pr) # Len(co2) + SEM_BUFFER_SIZE
  BY <1>1, <1>3, SemFacts
<1>7. \A k \in 0 .. Len(pr) - Len(co2) - 1 :
         it[SlotAfter(SlotAfter(hd, 1), k)] = pr[Len(co2) + 1 + k]
  BY <1>1, <1>3, <1>5, <1>6
<1>8. Len(co2) <= Len(pr) /\ Len(pr) <= Len(co2) + SEM_BUFFER_SIZE
  BY <1>1, <1>3, SemFacts
<1> HIDE DEF co2, n
<1>9. RingHolds(it, SlotAfter(hd, 1), tl, pr, co2)
  BY <1>4, <1>6, <1>7, <1>8 DEF RingHolds
<1> QED BY <1>2, <1>9 DEF co2

\* The mutex, and who has a token or an item in hand: between sem_wait() and
\* the slot, and between the slot and sem_post().
InCS == {"access", "advance", "unlock"}
Before(X) == {p \in X : sem_pc[p] \in {"mtx", "access"}}
After(X)  == {p \in X : sem_pc[p] \in {"advance", "unlock", "post"}}

Q_Mutex ==
    /\ \A p, q \in Sem!Procs : sem_pc[p] \in InCS /\ sem_pc[q] \in InCS => p = q
    /\ sem_mtx = IF \E p \in Sem!Procs : sem_pc[p] \in InCS THEN 0 ELSE 1

\* Every slot is free or full, and counted once.
Q_Tokens ==
    /\ Len(sem_produced) = Len(sem_consumed) + nonempty
                             + Cardinality(After(Producers)) + Cardinality(Before(Consumers))
    /\ SEM_BUFFER_SIZE = Len(sem_produced) - Len(sem_consumed) + empty
                             + Cardinality(Before(Producers)) + Cardinality(After(Consumers))

\* The indices once the process between the slot and its index has moved it.
TailSlot == IF \E p \in Producers : sem_pc[p] = "advance" THEN SlotAfter(sem_in, 1) ELSE sem_in
HeadSlot == IF \E p \in Consumers : sem_pc[p] = "advance" THEN SlotAfter(sem_out, 1) ELSE sem_out
Q_Ring == RingHolds(sem_items, HeadSlot, TailSlot, sem_produced, sem_consumed)

Q_TypeOK ==
    /\ sem_items \in [Sem!Slots -> Sem!Items \cup {Sem!NoItem}]
    /\ sem_in \in Sem!Slots /\ sem_out \in Sem!Slots
    /\ empty \in Nat /\ nonempty \in Nat
    /\ sem_pc \in [Sem!Procs -> Sem!PCs] /\ sem_i \in [Sem!Procs -> Nat]
    /\ \A p \in Producers : sem_pc[p] # "done" => sem_i[p] < ITEMS_PER_PRODUCER
    /\ sem_produced \in Seq(Sem!Items) /\ sem_consumed \in Seq(Sem!Items)

Q_Inv == Q_TypeOK /\ Q_Mutex /\ Q_Tokens /\ Q_Ring

LEMMA SetsFinite ==
    /\ IsFiniteSet(Before(Producers)) /\ IsFiniteSet(Before(Consumers))
    /\ IsFiniteSet(After(Producers)) /\ IsFiniteSet(After(Consumers))
    /\ Cardinality(Before(Producers)) \in Nat /\ Cardinality(Before(Consumers)) \in Nat
    /\ Cardinality(After(Producers)) \in Nat /\ Cardinality(After(Consumers)) \in Nat
<1>1. IsFiniteSet(Producers) /\ IsFiniteSet(Consumers)
  BY ProgramsAssumption DEF Sem!SemConstants, Sem!IsFiniteSet, IsFiniteSet
<1>2. /\ Before(Producers) \subseteq Producers /\ After(Producers) \subseteq Producers
      /\ Before(Consumers) \subseteq Consumers /\ After(Consumers) \subseteq Consumers
  BY DEF Before, After
<1>3. /\ IsFiniteSet(Before(Producers)) /\ IsFiniteSet(Before(Consumers))
      /\ IsFiniteSet(After(Producers)) /\ IsFiniteSet(After(Consumers))
  BY <1>1, <1>2, FS_Subset
<1> QED BY <1>3, FS_CardinalityType

LEMMA Q_InvInit == Sem!Init => Q_Inv
<1> SUFFICES ASSUME Sem!Init PROVE Q_Inv
  OBVIOUS
<1> USE SemFacts
<1>1. Q_TypeOK
  BY DEF Sem!Init, Q_TypeOK, Sem!PCs, Sem!Slots, Sem!Turns
<1>2. \A p \in Sem!Procs : sem_pc[p] \in {"token", "done"}
  BY DEF Sem!Init
<1>3. Q_Mutex
  BY <1>2 DEF Sem!Init, Q_Mutex, InCS
<1>4. /\ Before(Producers) = {} /\ After(Producers) = {}
      /\ Before(Consumers) = {} /\ After(Consumers) = {}
  BY <1>2 DEF Before, After
<1>5. Q_Tokens
  BY <1>4, FS_EmptySet DEF Sem!Init, Q_Tokens
<1>6. TailSlot = 0 /\ HeadSlot = 0
  BY <1>2 DEF Sem!Init, TailSlot, HeadSlot
<1>7. Q_Ring
  BY <1>6 DEF Sem!Init, Q_Ring, RingHolds, SlotAfter
<1> QED BY <1>1, <1>3, <1>5, <1>7 DEF Q_Inv

LEMMA Q_InvStep == Q_Inv /\ [Sem!Next]_(Sem!vars) => Q_Inv'
<1> SUFFICES ASSUME Q_Inv, [Sem!Next]_(Sem!vars) PROVE Q_Inv'
  OBVIOUS
<1> USE SemFacts
<1>1. CASE UNCHANGED Sem!vars
  <2>1. UNCHANGED semProgram
    BY <1>1 DEF Sem!vars, Sem!ringVars, Sem!semVars, Sem!logVars, semProgram
  <2> QED BY <2>1 DEF semProgram, Q_Inv, Q_TypeOK, Q_Mutex, Q_Tokens, Q_Ring, Before, After,
                      TailSlot, HeadSlot, RingHolds
<1>2. ASSUME NEW p \in Sem!Procs, Sem!Step(p) PROVE Q_Inv'
  <2>1. /\ Q_TypeOK /\ Q_Mutex /\ Q_Tokens /\ Q_Ring
        /\ sem_pc \in [Sem!Procs -> Sem!PCs]
        /\ Producers \subseteq Sem!Procs /\ Consumers \subseteq Sem!Procs
        /\ Len(sem_produced) \in Nat /\ Len(sem_consumed) \in Nat
        /\ empty \in Nat /\ nonempty \in Nat
    BY DEF Q_Inv, Q_TypeOK
  <2>2. PICK bp \in Nat, ap \in Nat, bc \in Nat, ac \in Nat :
           /\ bp = Cardinality(Before(Producers)) /\ ap = Cardinality(After(Producers))
           /\ bc = Cardinality(Before(Consumers)) /\ ac = Cardinality(After(Consumers))
    BY SetsFinite
  <2>3. /\ Len(sem_produced) = Len(sem_consumed) + nonempty + ap + bc
         /\ SEM_BUFFER_SIZE = Len(sem_produced) - Len(sem_consumed) + empty + bp + ac
    BY <2>1, <2>2 DEF Q_Tokens
  <2>4. CASE Sem!WaitToken(p)
    <3>1. /\ sem_pc[p] = "token" /\ sem_pc' = [sem_pc EXCEPT ![p] = "mtx"]
          /\ \/ p \in Producers /\ empty > 0 /\ empty' = empty - 1 /\ nonempty' = nonempty
             \/ p \in Consumers /\ nonempty > 0 /\ nonempty' = nonempty - 1 /\ empty' = empty
          /\ UNCHANGED <<sem_items, sem_in, sem_out, sem_mtx, sem_i, sem_produced, sem_consumed>>
      BY <2>4 DEF Sem!WaitToken, Sem!Goto, Sem!ringVars, Sem!logVars
    <3>2. Q_TypeOK'
      BY <2>1, <3>1 DEF Q_TypeOK, Sem!PCs
    <3>3. Q_Mutex'
      BY <2>1, <3>1 DEF Q_Mutex, InCS
    <3>4. p \notin Before(Producers) /\ p \notin Before(Consumers)
          /\ p \notin After(Producers) /\ p \notin After(Consumers)
      BY <3>1 DEF Before, After
    <3>5. Q_Tokens'
      <4>1. CASE p \in Producers
        <5>1. /\ Before(Producers)' = Before(Producers) \cup {p} /\ After(Producers)' = After(Producers)
              /\ Before(Consumers)' = Before(Consumers) /\ After(Consumers)' = After(Consumers)
          BY <2>1, <3>1, <3>4, <4>1 DEF Before, After
        <5>2. Cardinality(Before(Producers)') = Cardinality(Before(Producers)) + 1
          BY <3>4, <5>1, SetsFinite, FS_AddElement
        <5>3. /\ Cardinality(Before(Producers)') = bp + 1 /\ Cardinality(After(Producers)') = ap
              /\ Cardinality(Before(Consumers)') = bc /\ Cardinality(After(Consumers)') = ac
          BY <2>2, <5>1, <5>2
        <5>4. empty' = empty - 1 /\ nonempty' = nonempty /\ sem_produced' = sem_produced /\ sem_consumed' = sem_consumed
          BY <3>1, <4>1
        <5>5. /\ Len(sem_produced') = Len(sem_consumed') + nonempty' + ap + bc
              /\ SEM_BUFFER_SIZE = Len(sem_produced') - Len(sem_consumed') + empty' + (bp + 1) + ac
          BY <2>1, <2>3, <5>4
        <5> QED BY <5>3, <5>5 DEF Q_Tokens
      <4>2. CASE p \in Consumers
        <5>1. /\ Before(Consumers)' = Before(Consumers) \cup {p} /\ After(Consumers)' = After(Consumers)
              /\ Before(Producers)' = Before(Producers) /\ After(Producers)' = After(Producers)
          BY <2>1, <3>1, <3>4, <4>2 DEF Before, After
        <5>2. Cardinality(Before(Consumers)') = Cardinality(Before(Consumers)) + 1
          BY <3>4, <5>1, SetsFinite, FS_AddElement
        <5>3. /\ Cardinality(Before(Producers)') = bp /\ Cardinality(After(Producers)') = ap
              /\ Cardinality(Before(Consumers)') = bc + 1 /\ Cardinality(After(Consumers)') = ac
          BY <2>2, <5>1, <5>2
        <5>4. nonempty' = nonempty - 1 /\ empty' = empty /\ sem_produced' = sem_produced /\ sem_consumed' = sem_consumed
          BY <3>1, <4>2
        <5>5. /\ Len(sem_produced') = Len(sem_consumed') + nonempty' + ap + (bc + 1)
              /\ SEM_BUFFER_SIZE = Len(sem_produced') - Len(sem_consumed') + empty' + bp + ac
          BY <2>1, <2>3, <5>4
        <5> QED BY <5>3, <5>5 DEF Q_Tokens
      <4> QED BY <4>1, <4>2
    <3>6. TailSlot' = TailSlot /\ HeadSlot' = HeadSlot
      BY <2>1, <3>1 DEF TailSlot, HeadSlot
    <3>7. Q_Ring'
      BY <2>1, <3>1, <3>6 DEF Q_Ring, RingHolds
    <3> QED BY <3>2, <3>3, <3>5, <3>7 DEF Q_Inv
  <2>5. CASE Sem!WaitMtx(p)
    <3>1. /\ sem_pc[p] = "mtx" /\ sem_pc' = [sem_pc EXCEPT ![p] = "access"]
          /\ sem_mtx > 0 /\ sem_mtx' = sem_mtx - 1
          /\ UNCHANGED <<sem_items, sem_in, sem_out, empty, nonempty, sem_i, sem_produced, sem_consumed>>
      BY <2>5 DEF Sem!WaitMtx, Sem!Goto, Sem!ringVars, Sem!logVars
    <3>2. Q_TypeOK'
      BY <2>1, <3>1 DEF Q_TypeOK, Sem!PCs
    <3>3. Q_Mutex'
      <4>1. (\A q \in Sem!Procs : sem_pc[q] \notin InCS) /\ sem_mtx = 1
        BY <2>1, <3>1 DEF Q_Mutex
      <4> QED BY <2>1, <3>1, <4>1 DEF Q_Mutex, InCS
    <3>4. /\ Before(Producers)' = Before(Producers) /\ After(Producers)' = After(Producers)
          /\ Before(Consumers)' = Before(Consumers) /\ After(Consumers)' = After(Consumers)
      BY <2>1, <3>1 DEF Before, After
    <3>5. Q_Tokens'
      BY <2>1, <3>1, <3>4 DEF Q_Tokens
    <3>6. TailSlot' = TailSlot /\ HeadSlot' = HeadSlot
      BY <2>1, <3>1 DEF TailSlot, HeadSlot
    <3>7. Q_Ring'
      BY <2>1, <3>1, <3>6 DEF Q_Ring, RingHolds
    <3> QED BY <3>2, <3>3, <3>5, <3>7 DEF Q_Inv
  <2>6. CASE Sem!Access(p)
    <3>1. sem_pc[p] = "access" /\ sem_pc' = [sem_pc EXCEPT ![p] = "advance"]
          /\ UNCHANGED <<sem_in, sem_out, empty, nonempty, sem_mtx, sem_i>>
      BY <2>6 DEF Sem!Access, Sem!Goto, Sem!semVars
    <3>2. \A q \in Sem!Procs : sem_pc[q] # "advance"
      BY <2>1, <3>1 DEF Q_Mutex, InCS
    <3>3. TailSlot = sem_in /\ HeadSlot = sem_out /\ sem_in \in Sem!Slots /\ sem_out \in Sem!Slots
      BY <2>1, <3>2 DEF TailSlot, HeadSlot, Q_TypeOK
    <3>4. RingHolds(sem_items, sem_out, sem_in, sem_produced, sem_consumed)
      BY <2>1, <3>3 DEF Q_Ring
    <3>5. Q_Mutex'
      BY <2>1, <3>1 DEF Q_Mutex, InCS
    <3>6. CASE p \in Producers
      <4> DEFINE x == <<p, sem_i[p]>>
      <4>1. /\ sem_items' = [sem_items EXCEPT ![sem_in] = x]
            /\ sem_produced' = Append(sem_produced, x) /\ sem_consumed' = sem_consumed
        BY <2>6, <3>6 DEF Sem!Access
      <4>2. x \in Sem!Items
        <5>1. sem_i[p] \in 0 .. ITEMS_PER_PRODUCER - 1
          BY <2>1, <3>1, <3>6 DEF Q_TypeOK
        <5> QED BY <3>6, <5>1 DEF Sem!Items
      <4>3. Q_TypeOK'
        BY <2>1, <3>1, <4>1, <4>2 DEF Q_TypeOK, Sem!PCs
      <4>4. /\ p \in Before(Producers) /\ p \notin After(Producers)
            /\ Before(Producers)' = Before(Producers) \ {p} /\ After(Producers)' = After(Producers) \cup {p}
            /\ Before(Consumers)' = Before(Consumers) /\ After(Consumers)' = After(Consumers)
        <5>1. p \in Before(Producers) /\ p \notin After(Producers)
          BY <3>1, <3>6 DEF Before, After
        <5> QED BY <2>1, <3>1, <3>6, <5>1 DEF Before, After
      <4>5. /\ Cardinality(Before(Producers)') = Cardinality(Before(Producers)) - 1
            /\ Cardinality(After(Producers)') = Cardinality(After(Producers)) + 1
            /\ Cardinality(Before(Producers)) > 0
        <5>1. Cardinality(Before(Producers)') \in Nat
          BY <4>4, SetsFinite, FS_RemoveElement, FS_CardinalityType
        <5>2. Cardinality(Before(Producers)') = Cardinality(Before(Producers)) - 1
          BY <4>4, SetsFinite, FS_RemoveElement, ZenonT(40)
        <5>3. Cardinality(After(Producers)') = Cardinality(After(Producers)) + 1
          BY <4>4, SetsFinite, FS_AddElement
        <5> QED BY <5>1, <5>2, <5>3, SetsFinite
      <4>6. Len(sem_produced') = Len(sem_produced) + 1
        BY <2>1, <4>1, <4>2 DEF Q_TypeOK
      <4> HIDE DEF x
      <4>7. Q_Tokens'
        <5>1. /\ Cardinality(Before(Producers)') = bp - 1 /\ Cardinality(After(Producers)') = ap + 1
              /\ Cardinality(Before(Consumers)') = bc /\ Cardinality(After(Consumers)') = ac
          BY <2>2, <4>4, <4>5
        <5>2. /\ Len(sem_produced') = Len(sem_consumed') + nonempty' + (ap + 1) + bc
              /\ SEM_BUFFER_SIZE = Len(sem_produced') - Len(sem_consumed') + empty' + (bp - 1) + ac
          BY <2>1, <2>3, <3>1, <4>1, <4>6
        <5> QED BY <5>1, <5>2 DEF Q_Tokens
      <4>8. Len(sem_produced) < Len(sem_consumed) + SEM_BUFFER_SIZE
        <5>1. bp > 0
          BY <2>2, <4>5
        <5> QED BY <2>1, <5>1, <2>3
      <4>9. RingHolds(sem_items', sem_out, SlotAfter(sem_in, 1), sem_produced', sem_consumed)
        <5>1. /\ sem_items \in [Sem!Slots -> Sem!Items \cup {Sem!NoItem}]
              /\ sem_produced \in Seq(Sem!Items) /\ sem_consumed \in Seq(Sem!Items)
          BY <2>1 DEF Q_TypeOK
        <5> QED BY <3>3, <3>4, <4>1, <4>2, <4>8, <5>1, RingPut
      <4>10. TailSlot' = SlotAfter(sem_in, 1) /\ HeadSlot' = sem_out
        BY <2>1, <3>1, <3>2, <3>6 DEF TailSlot, HeadSlot, SlotAfter
      <4>11. Q_Ring'
        BY <4>1, <4>9, <4>10 DEF Q_Ring, RingHolds
      <4> QED BY <3>5, <4>3, <4>7, <4>11 DEF Q_Inv
    <3>7. CASE p \in Consumers
      <4>1. /\ sem_consumed' = Append(sem_consumed, sem_items[sem_out])
            /\ sem_items' = sem_items /\ sem_produced' = sem_produced
        BY <2>6, <3>7 DEF Sem!Access
      <4>2. /\ p \in Before(Consumers) /\ p \notin After(Consumers)
            /\ Before(Consumers)' = Before(Consumers) \ {p} /\ After(Consumers)' = After(Consumers) \cup {p}
            /\ Before(Producers)' = Before(Producers) /\ After(Producers)' = After(Producers)
        <5>1. p \in Before(Consumers) /\ p \notin After(Consumers)
          BY <3>1, <3>7 DEF Before, After
        <5> QED BY <2>1, <3>1, <3>7, <5>1 DEF Before, After
      <4>3. /\ Cardinality(Before(Consumers)') = Cardinality(Before(Consumers)) - 1
            /\ Cardinality(After(Consumers)') = Cardinality(After(Consumers)) + 1
            /\ Cardinality(Before(Consumers)) > 0
        <5>1. Cardinality(Before(Consumers)') \in Nat
          BY <4>2, SetsFinite, FS_RemoveElement, FS_CardinalityType
        <5>2. Cardinality(Before(Consumers)') = Cardinality(Before(Consumers)) - 1
          BY <4>2, SetsFinite, FS_RemoveElement, ZenonT(40)
        <5>3. Cardinality(After(Consumers)') = Cardinality(After(Consumers)) + 1
          BY <4>2, SetsFinite, FS_AddElement
        <5> QED BY <5>1, <5>2, <5>3, SetsFinite
      <4>4. Len(sem_consumed) < Len(sem_produced)
        <5>1. bc > 0
          BY <2>2, <4>3
        <5> QED BY <2>1, <5>1, <2>3
      <4>5. /\ sem_items[sem_out] = sem_produced[Len(sem_consumed) + 1]
            /\ sem_items[sem_out] \in Sem!Items
            /\ RingHolds(sem_items, SlotAfter(sem_out, 1), sem_in, sem_produced, sem_consumed')
        <5>1. sem_produced \in Seq(Sem!Items) /\ sem_consumed \in Seq(Sem!Items)
          BY <2>1 DEF Q_TypeOK
        <5> QED BY <3>3, <3>4, <4>1, <4>4, <5>1, RingGet
      <4>6. Q_TypeOK'
        BY <2>1, <3>1, <4>1, <4>5 DEF Q_TypeOK, Sem!PCs
      <4>7. Len(sem_consumed') = Len(sem_consumed) + 1
        BY <2>1, <4>1, <4>5 DEF Q_TypeOK
      <4>8. Q_Tokens'
        <5>1. /\ Cardinality(Before(Producers)') = bp /\ Cardinality(After(Producers)') = ap
              /\ Cardinality(Before(Consumers)') = bc - 1 /\ Cardinality(After(Consumers)') = ac + 1
          BY <2>2, <4>2, <4>3
        <5>2. /\ Len(sem_produced') = Len(sem_consumed') + nonempty' + ap + (bc - 1)
              /\ SEM_BUFFER_SIZE = Len(sem_produced') - Len(sem_consumed') + empty' + bp + (ac + 1)
          BY <2>1, <2>3, <3>1, <4>1, <4>7
        <5> QED BY <5>1, <5>2 DEF Q_Tokens
      <4>9. TailSlot' = sem_in /\ HeadSlot' = SlotAfter(sem_out, 1)
        BY <2>1, <3>1, <3>2, <3>7 DEF TailSlot, HeadSlot, SlotAfter
      <4>10. Q_Ring'
        BY <4>1, <4>5, <4>9 DEF Q_Ring, RingHolds
      <4> QED BY <3>5, <4>6, <4>8, <4>10 DEF Q_Inv
    <3> QED BY <3>6, <3>7
  <2>7. CASE Sem!Advance(p)
    <3>1. /\ sem_pc[p] = "advance" /\ sem_pc' = [sem_pc EXCEPT ![p] = "unlock"]
          /\ \/ p \in Producers /\ sem_in' = (sem_in + 1) % SEM_BUFFER_SIZE /\ sem_out' = sem_out
             \/ p \in Consumers /\ sem_out' = (sem_out + 1) % SEM_BUFFER_SIZE /\ sem_in' = sem_in
          /\ UNCHANGED <<sem_items, empty, nonempty, sem_mtx, sem_i, sem_produced, sem_consumed>>
      BY <2>7 DEF Sem!Advance, Sem!Goto, Sem!semVars, Sem!logVars
    <3>2. /\ \/ p \in Producers /\ sem_in' = SlotAfter(sem_in, 1) /\ sem_out' = sem_out
             \/ p \in Consumers /\ sem_out' = SlotAfter(sem_out, 1) /\ sem_in' = sem_in
          /\ sem_in' \in Sem!Slots /\ sem_out' \in Sem!Slots
      BY <2>1, <3>1, NextSlot DEF Q_TypeOK
    <3>3. Q_TypeOK'
      BY <2>1, <3>1, <3>2 DEF Q_TypeOK, Sem!PCs
    <3>4. Q_Mutex'
      BY <2>1, <3>1 DEF Q_Mutex, InCS
    <3>5. /\ Before(Producers)' = Before(Producers) /\ After(Producers)' = After(Producers)
          /\ Before(Consumers)' = Before(Consumers) /\ After(Consumers)' = After(Consumers)
      BY <2>1, <3>1 DEF Before, After
    <3>6. Q_Tokens'
      BY <2>1, <3>1, <3>5 DEF Q_Tokens
    <3>7. \A q \in Sem!Procs : (sem_pc[q] = "advance" => q = p) /\ sem_pc'[q] # "advance"
      BY <2>1, <3>1 DEF Q_Mutex, InCS
    <3>8. TailSlot' = sem_in' /\ HeadSlot' = sem_out'
      BY <3>7 DEF TailSlot, HeadSlot
    <3>9. TailSlot = sem_in' /\ HeadSlot = sem_out'
      BY <2>1, <3>1, <3>2, <3>7 DEF TailSlot, HeadSlot
    <3>10. Q_Ring'
      BY <2>1, <3>1, <3>8, <3>9 DEF Q_Ring, RingHolds
    <3> QED BY <3>3, <3>4, <3>6, <3>10 DEF Q_Inv
  <2>8. CASE Sem!PostMtx(p)
    <3>1. /\ sem_pc[p] = "unlock" /\ sem_pc' = [sem_pc EXCEPT ![p] = "post"]
          /\ sem_mtx' = sem_mtx + 1
          /\ UNCHANGED <<sem_items, sem_in, sem_out, empty, nonempty, sem_i, sem_produced, sem_consumed>>
      BY <2>8 DEF Sem!PostMtx, Sem!Goto, Sem!ringVars, Sem!logVars
    <3>2. Q_TypeOK'
      BY <2>1, <3>1 DEF Q_TypeOK, Sem!PCs
    <3>3. Q_Mutex'
      <4>1. sem_mtx = 0 /\ \A q \in Sem!Procs : sem_pc[q] \in InCS => q = p
        BY <2>1, <3>1 DEF Q_Mutex, InCS
      <4> QED BY <2>1, <3>1, <4>1 DEF Q_Mutex, InCS
    <3>4. /\ Before(Producers)' = Before(Producers) /\ After(Producers)' = After(Producers)
          /\ Before(Consumers)' = Before(Consumers) /\ After(Consumers)' = After(Consumers)
      BY <2>1, <3>1 DEF Before, After
    <3>5. Q_Tokens'
      BY <2>1, <3>1, <3>4 DEF Q_Tokens
    <3>6. TailSlot' = TailSlot /\ HeadSlot' = HeadSlot
      BY <2>1, <3>1 DEF TailSlot, HeadSlot
    <3>7. Q_Ring'
      BY <2>1, <3>1, <3>6 DEF Q_Ring, RingHolds
    <3> QED BY <3>2, <3>3, <3>5, <3>7 DEF Q_Inv
  <2>9. CASE Sem!PostToken(p)
    <3> DEFINE l == IF sem_i[p] + 1 < Sem!Turns(p) THEN "token" ELSE "done"
    <3>1. /\ sem_pc[p] = "post" /\ sem_pc' = [sem_pc EXCEPT ![p] = l]
          /\ \/ p \in Producers /\ nonempty' = nonempty + 1 /\ empty' = empty
             \/ p \in Consumers /\ empty' = empty + 1 /\ nonempty' = nonempty
          /\ sem_i' = [sem_i EXCEPT ![p] = @ + 1]
          /\ UNCHANGED <<sem_items, sem_in, sem_out, sem_mtx, sem_produced, sem_consumed>>
      BY <2>9 DEF Sem!PostToken, Sem!Goto, Sem!ringVars, Sem!logVars
    <3>2. /\ l \in {"token", "done"}
          /\ p \in Producers /\ l # "done" => sem_i[p] + 1 < ITEMS_PER_PRODUCER
      BY DEF Sem!Turns
    <3> HIDE DEF l
    <3>3. Q_TypeOK'
      BY <2>1, <3>1, <3>2 DEF Q_TypeOK, Sem!PCs
    <3>4. Q_Mutex'
      BY <2>1, <3>1, <3>2 DEF Q_Mutex, InCS
    <3>5. Q_Tokens'
      <4>1. CASE p \in Producers
        <5>1. /\ p \in After(Producers) /\ p \notin Before(Producers)
              /\ Before(Producers)' = Before(Producers) /\ After(Producers)' = After(Producers) \ {p}
              /\ Before(Consumers)' = Before(Consumers) /\ After(Consumers)' = After(Consumers)
          <6>1. p \in After(Producers) /\ p \notin Before(Producers)
            BY <3>1, <4>1 DEF Before, After
          <6> QED BY <2>1, <3>1, <3>2, <4>1, <6>1 DEF Before, After
        <5>2. Cardinality(After(Producers)') = Cardinality(After(Producers)) - 1
          BY <5>1, SetsFinite, FS_RemoveElement, ZenonT(40)
        <5>3. /\ Cardinality(Before(Producers)') = bp /\ Cardinality(After(Producers)') = ap - 1
              /\ Cardinality(Before(Consumers)') = bc /\ Cardinality(After(Consumers)') = ac
          BY <2>2, <5>1, <5>2
        <5>4. nonempty' = nonempty + 1 /\ empty' = empty /\ sem_produced' = sem_produced /\ sem_consumed' = sem_consumed
          BY <3>1, <4>1
        <5>5. /\ Len(sem_produced') = Len(sem_consumed') + nonempty' + (ap - 1) + bc
              /\ SEM_BUFFER_SIZE = Len(sem_produced') - Len(sem_consumed') + empty' + bp + ac
          BY <2>1, <2>3, <5>4
        <5> QED BY <5>3, <5>5 DEF Q_Tokens
      <4>2. CASE p \in Consumers
        <5>1. /\ p \in After(Consumers) /\ p \notin Before(Consumers)
              /\ Before(Consumers)' = Before(Consumers) /\ After(Consumers)' = After(Consumers) \ {p}
              /\ Before(Producers)' = Before(Producers) /\ After(Producers)' = After(Producers)
          <6>1. p \in After(Consumers) /\ p \notin Before(Consumers)
            BY <3>1, <4>2 DEF Before, After
          <6> QED BY <2>1, <3>1, <3>2, <4>2, <6>1 DEF Before, After
        <5>2. Cardinality(After(Consumers)') = Cardinality(After(Consumers)) - 1
          BY <5>1, SetsFinite, FS_RemoveElement, ZenonT(40)
        <5>3. /\ Cardinality(Before(Producers)') = bp /\ Cardinality(After(Producers)') = ap
              /\ Cardinality(Before(Consumers)') = bc /\ Cardinality(After(Consumers)') = ac - 1
          BY <2>2, <5>1, <5>2
        <5>4. empty' = empty + 1 /\ nonempty' = nonempty /\ sem_produced' = sem_produced /\ sem_consumed' = sem_consumed
          BY <3>1, <4>2
        <5>5. /\ Len(sem_produced') = Len(sem_consumed') + nonempty' + ap + bc
              /\ SEM_BUFFER_SIZE = Len(sem_produced') - Len(sem_consumed') + empty' + bp + (ac - 1)
          BY <2>1, <2>3, <5>4
        <5> QED BY <5>3, <5>5 DEF Q_Tokens
      <4> QED BY <4>1, <4>2
    <3>6. TailSlot' = TailSlot /\ HeadSlot' = HeadSlot
      BY <2>1, <3>1, <3>2 DEF TailSlot, HeadSlot
    <3>7. Q_Ring'
      BY <2>1, <3>1, <3>6 DEF Q_Ring, RingHolds
    <3> QED BY <3>3, <3>4, <3>5, <3>7 DEF Q_Inv
  <2> QED BY <1>2, <2>4, <2>5, <2>6, <2>7, <2>8, <2>9 DEF Sem!Step
<1> QED BY <1>1, <1>2 DEF Sem!Next

\* The semaphore buffer is a bounded queue for any number of producers and
\* consumers and any BUFFER_SIZE: whatever the interleaving of the waits, of the
\* two halves of the critical section and of the posts, an item is printed as
\* consumed once, in the order of the produced lines, and at most BUFFER_SIZE are
\* between the two (bounded_buffer_sem.c:22-58).
THEOREM SemQueueRefinement == Sem!Spec => SemImplementsBoundedQueue
<1>1. Sem!Init => Sem!BQ!Init
  BY DEF Sem!Init, Sem!BQ!Init
<1>2. Q_Inv /\ [Sem!Next]_(Sem!vars) => [Sem!BQ!Next]_<<sem_produced, sem_consumed>>
  <2> SUFFICES ASSUME Q_Inv, [Sem!Next]_(Sem!vars), sem_produced' # sem_produced \/ sem_consumed' # sem_consumed
               PROVE  Sem!BQ!Next
    OBVIOUS
  <2>1. PICK p \in Sem!Procs : Sem!Step(p)
    BY DEF Sem!Next, Sem!vars, Sem!logVars
  <2>2. Sem!Access(p)
    BY <2>1 DEF Sem!Step, Sem!WaitToken, Sem!WaitMtx, Sem!Advance, Sem!PostMtx, Sem!PostToken, Sem!logVars
  <2>3. sem_pc[p] = "access" /\ Q_TypeOK /\ Q_Mutex /\ Q_Tokens /\ Q_Ring
    BY <2>2 DEF Sem!Access, Q_Inv
  <2>4. /\ sem_produced \in Seq(Sem!Items) /\ sem_consumed \in Seq(Sem!Items)
        /\ Len(sem_produced) \in Nat /\ Len(sem_consumed) \in Nat
        /\ empty \in Nat /\ nonempty \in Nat /\ sem_in \in Sem!Slots /\ sem_out \in Sem!Slots
    BY <2>3 DEF Q_TypeOK
  <2>5. PICK bp \in Nat, ap \in Nat, bc \in Nat, ac \in Nat :
           /\ bp = Cardinality(Before(Producers)) /\ ap = Cardinality(After(Producers))
           /\ bc = Cardinality(Before(Consumers)) /\ ac = Cardinality(After(Consumers))
    BY SetsFinite
  <2>6. /\ Len(sem_produced) = Len(sem_consumed) + nonempty + ap + bc
        /\ SEM_BUFFER_SIZE = Len(sem_produced) - Len(sem_consumed) + empty + bp + ac
    BY <2>3, <2>5 DEF Q_Tokens
  <2>7. CASE p \in Producers
    <3>1. p \in Before(Producers)
      BY <2>3, <2>7 DEF Before
    <3>2. bp # 0
      BY <2>5, <3>1, SetsFinite, FS_EmptySet
    <3>3. Len(sem_produced) < Len(sem_consumed) + SEM_BUFFER_SIZE
      BY <2>4, <2>6, <3>2, SemFacts
    <3>4. <<p, sem_i[p]>> \in Sem!Items
      <4>1. sem_i[p] \in 0 .. ITEMS_PER_PRODUCER - 1
        BY <2>3, <2>7, SemFacts DEF Q_TypeOK
      <4> QED BY <2>7, <4>1 DEF Sem!Items
    <3>5. sem_produced' = Append(sem_produced, <<p, sem_i[p]>>) /\ sem_consumed' = sem_consumed
      BY <2>2, <2>7, SemFacts DEF Sem!Access
    <3> QED BY <3>3, <3>4, <3>5 DEF Sem!BQ!Next, Sem!BQ!Put
  <2>8. CASE p \in Consumers
    <3>1. p \in Before(Consumers)
      BY <2>3, <2>8 DEF Before
    <3>2. bc # 0
      BY <2>5, <3>1, SetsFinite, FS_EmptySet
    <3>3. Len(sem_consumed) < Len(sem_produced)
      BY <2>4, <2>6, <3>2
    <3>4. RingHolds(sem_items, sem_out, sem_in, sem_produced, sem_consumed)
      <4>1. \A q \in Sem!Procs : sem_pc[q] # "advance"
        BY <2>3 DEF Q_Mutex, InCS
      <4> QED BY <2>3, <4>1, SemFacts DEF Q_Ring, TailSlot, HeadSlot
    <3>5. sem_items[sem_out] = sem_produced[Len(sem_consumed) + 1]
      BY <2>4, <3>3, <3>4, RingGet
    <3>6. sem_consumed' = Append(sem_consumed, sem_items[sem_out]) /\ sem_produced' = sem_produced
      BY <2>2, <2>8, SemFacts DEF Sem!Access
    <3> QED BY <3>3, <3>5, <3>6 DEF Sem!BQ!Next, Sem!BQ!Get
  <2> QED BY <2>1, <2>7, <2>8, SemFacts
<1> QED BY <1>1, <1>2, Q_InvInit, Q_InvStep, PTL
        DEF Sem!Spec, SemImplementsBoundedQueue, Sem!ImplementsBoundedQueue, Sem!BQ!Spec
==============================================================================
